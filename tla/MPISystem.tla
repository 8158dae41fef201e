----------------------------- MODULE MPISystem -----------------------------
(***************************************************************************)
(* The communicators of DisCoTec: MPISystem splits the world into process  *)
(* groups, the masters with the manager, one reduce communicator per local *)
(* rank, the output group on the diagonal and the third level              *)
(* communicators; it does so again for a new layout, for another number of *)
(* output files, and after processes died.                                 *)
(*                                                                         *)
(* A process is a number, a communicator the sequence of its members (a    *)
(* rank is a position, counted from 0) and MPI_COMM_NULL the empty one.    *)
(* What MPISystem does between two collective calls is local, so a process *)
(* is described by the collective calls it still has to make.              *)
(*                                                                         *)
(* The communicators are used by the files of sparse grids: one file of a  *)
(* group, part files of the output communicators, and a file of subspace   *)
(* sizes of the whole output group.                                        *)
(***************************************************************************)
EXTENDS ConsecutiveFile

CONSTANTS
    NumProcesses,   \* processes of MPI_COMM_WORLD
    ChunkSize,      \* values in the buffer of a process that reads and reduces
    Programs        \* the sequences of calls of MPISystem's functions tried, see Call...

Processes == 0..(NumProcesses - 1)
COMM_NULL == <<>>
UNDEFINED == -1     \* MPI_UNDEFINED, MPI_PROC_NULL

\* The calls an application makes; the world communicator has the first `size` processes.
CallInit(ngroup, nprocs, manager, size) ==
    [name |-> "init", ngroup |-> ngroup, nprocs |-> nprocs, manager |-> manager, size |-> size]
CallInitLcomm(ngroup, nprocs, manager) ==
    [CallInit(ngroup, nprocs, manager, NumProcesses) EXCEPT !.name = "lcomm"]
CallInitWorldReusable(ngroup, nprocs, manager, size) ==
    [CallInit(ngroup, nprocs, manager, size) EXCEPT !.name = "reusable"]
CallOutput(parts) == [name |-> "output", parts |-> parts]
CallRunAndRecover == [name |-> "recover"]
\* kind: "one", "some" or "sizes"; access: "write", "read" or "reduce"; the processes hold the
\* values of a round when they begin.
CallFile(kind, access, round) == [name |-> "file", kind |-> kind, access |-> access, round |-> round]

VARIABLES
    program,    \* the calls every process makes
    at,         \* how many of them a process has begun
    todo,       \* the collective calls a process has to make in the present one
    state,      \* the members of every process's MPISystem, and the manager's pgroups_
    alive,
    failedSignals,  \* world ranks on their way to the manager with FT_FAILED_RANK_TAG
    lost,       \* processes that died since the last recovery
    thrown,     \* processes whose initialisation or whose reading of a file threw
    files       \* the file system

vars == <<program, at, todo, state, alive, failedSignals, lost, thrown, files>>

Uninitialised ==
    [ngroup |-> 0, nprocs |-> 0, worldRank |-> UNDEFINED, managerRankWorld |-> UNDEFINED, parts |-> 1,
     world |-> COMM_NULL, spare |-> COMM_NULL, local |-> COMM_NULL, global |-> COMM_NULL,
     reduce |-> COMM_NULL, outputGroup |-> COMM_NULL, output |-> COMM_NULL,
     outputGroupRank |-> UNDEFINED, thirdLevel |-> <<>>, newWorld |-> COMM_NULL, pgroups |-> <<>>,
     data |-> <<>>]

InitCalls == {"init", "lcomm", "reusable"}
\* The calls before the next initialisation of a world with p are not made by p.
SkipTo(p, from) ==
    Min({k \in from..(Len(program) - 1) : program[k + 1].name \in InitCalls /\ p < program[k + 1].size}
            \cup {Len(program)})

Init ==
    /\ program \in Programs
    /\ at = [p \in Processes |-> SkipTo(p, 0)]
    /\ todo = [p \in Processes |-> <<>>]
    /\ state = [p \in Processes |-> Uninitialised]
    /\ alive = Processes
    /\ failedSignals = <<>> /\ lost = {} /\ thrown = {} /\ files = <<>>

Members(c) == {c[k] : k \in DOMAIN c}
RankIn(c, p) == IF p \in Members(c) THEN (CHOOSE k \in DOMAIN c : c[k] = p) - 1 ELSE UNDEFINED
isWorldManager(s) == s.worldRank = s.managerRankWorld
Numbers(n) == [k \in 1..n |-> k - 1]

-----------------------------------------------------------------------------
(* Collective calls: on which communicator, and with which arguments *)

Collective(op, name, comm, color, key, ranks) ==
    [op |-> op, name |-> name, comm |-> comm, color |-> color, key |-> key, ranks |-> ranks]
Split(name, comm, color, key) == Collective("split", name, comm, color, key, <<>>)
Create(name, comm, ranks) == Collective("create", name, comm, 0, 0, ranks)
Plain(op, name, comm) == Collective(op, name, comm, 0, 0, <<>>)

\* Mutant: the processes are dealt out to the groups in turn.
initLocalCommCyclic(s) == Split("world", s.world, s.worldRank % s.ngroup, s.worldRank \div s.ngroup)
initLocalComm(s) ==
    LET color == s.worldRank \div s.nprocs
    IN  Split("world", s.world, color, s.worldRank - color * s.nprocs)

GlobalRanks(s) ==
    [g \in 1..s.ngroup |-> (g - 1) * s.nprocs]
        \o (IF s.managerRankWorld = UNDEFINED THEN <<>> ELSE <<s.managerRankWorld>>)
initGlobalComm(s) == Create("world", s.world, GlobalRanks(s))

initThirdLevelComm(s, g) ==
    Create("world", s.world, [p \in 1..s.nprocs |-> g * s.nprocs + p - 1] \o <<s.managerRankWorld>>)

initGlobalReduceCommm(s) ==
    IF isWorldManager(s) THEN Split("world", s.world, UNDEFINED, -1)
    ELSE Split("world", s.world, s.worldRank % s.nprocs, s.worldRank \div s.nprocs)

\* Mutant: the processes of a later diagonal are counted without those of the earlier ones.
getDiagonalRanksFirst(nprocs, ngroup) ==
    [k \in 1..nprocs |-> LET p == (k - 1) % ngroup  diagonal == (k - 1) \div ngroup
                         IN  ((nprocs + 1) * p) + diagonal]
\* The world rank of every process of the output group: local rank k in group k % ngroup.
getDiagonalRanks(nprocs, ngroup) ==
    [k \in 1..nprocs |->
        LET p == (k - 1) % ngroup  diagonal == (k - 1) \div ngroup
        IN  ((nprocs + 1) * p) + (diagonal * ngroup)]

initOuputGroupComm(s) == Create("world", s.world, getDiagonalRanks(s.nprocs, s.ngroup))

SplitOutput(s) ==
    LET outputCommSize == s.nprocs \div s.parts
    IN  Split("outputGroup", s.outputGroup, s.outputGroupRank \div outputCommSize,
              s.outputGroupRank % outputCommSize)

\* The communicator of the sparse grid whose data or sizes are written or read; part files
\* are for the output communicators.
FileComm(s, kind) ==
    CASE kind = "one" -> s.local [] kind = "some" -> s.output [] kind = "sizes" -> s.outputGroup
FileAccess(s, call) == Plain(call.access, call.kind, FileComm(s, call.kind))

\* The call of a process in state s whose next phase is ph.
CallOf(s, ph) ==
    CASE ph.do = "local"      -> initLocalComm(s)
      [] ph.do = "global"     -> initGlobalComm(s)
      [] ph.do = "third"      -> initThirdLevelComm(s, ph.group)
      [] ph.do = "reduce"     -> initGlobalReduceCommm(s)
      [] ph.do = "barrier"    -> Plain("barrier", "reduce", s.reduce)
      [] ph.do = "output"     -> initOuputGroupComm(s)
      [] ph.do = "split"      -> SplitOutput(s)
      [] ph.do = "freeOutput" -> Plain("free", "output", s.output)
      [] ph.do = "freeGroup"  -> Plain("free", "outputGroup", s.outputGroup)
      [] ph.do = "dup"        -> Plain("dup", "world", s.world)
      [] ph.do = "shrinkSpare" -> Plain("shrink", "spare", s.spare)
      [] ph.do = "shrinkWorld" -> Plain("shrink", "world", s.world)
      [] ph.do = "splitSpare" -> Split("spare", s.spare, 1, s.worldRank)
      [] ph.do = "noLocal"    -> Split("world", s.world, UNDEFINED, -1)
      [] ph.do = "receiveFailed" -> Plain("receive", "self", COMM_NULL)
      [] ph.do = "file"       -> FileAccess(s, ph.call)

Phase(do) == [do |-> do, group |-> 0]
Blocked(p) == todo[p] # <<>> /\ Head(todo[p]).do # "receiveFailed"
Pending(p) == CallOf(state[p], Head(todo[p]))

\* The communicator that the calls (of every member) give to p.
NewComm(p, calls) ==
    LET c == calls[p]
    IN  CASE c.op = "split" ->
               IF c.color = UNDEFINED THEN COMM_NULL
               ELSE SortSeq(SelectSeq(c.comm, LAMBDA q : calls[q].color = c.color),
                            LAMBDA q, r : calls[q].key < calls[r].key)
          [] c.op = "create" ->
               LET comm == [k \in DOMAIN c.ranks |-> c.comm[c.ranks[k] + 1]]
               IN  IF p \in Members(comm) THEN comm ELSE COMM_NULL
          [] c.op = "dup" -> c.comm
          [] c.op = "shrink" -> SelectSeq(c.comm, LAMBDA q : q \in alive)
          [] OTHER -> COMM_NULL

-----------------------------------------------------------------------------
(* What the code does with the new communicator, and what it calls then *)

storeLocalComm(s, comm) == [s EXCEPT !.local = IF isWorldManager(s) THEN COMM_NULL ELSE comm]

\* After the recovery's split: the new world with its ranks and its number of groups.
NewWorld(p, s, comm) ==
    [s EXCEPT !.world = comm, !.ngroup = (Len(comm) - 1) \div s.nprocs,
              !.worldRank = RankIn(comm, p), !.managerRankWorld = Len(comm) - 1,
              !.global = COMM_NULL, !.reduce = COMM_NULL]

After(p, s, ph, comm) ==
    CASE ph.do = "local"      -> storeLocalComm(s, comm)
      [] ph.do = "global"     -> [s EXCEPT !.global = comm]
      [] ph.do = "third"      -> IF comm = COMM_NULL THEN s ELSE [s EXCEPT !.thirdLevel = Append(@, comm)]
      [] ph.do = "reduce"     -> [s EXCEPT !.reduce = comm]
      [] ph.do = "output"     -> IF comm = COMM_NULL THEN s
                                 ELSE [s EXCEPT !.outputGroup = comm, !.outputGroupRank = RankIn(comm, p),
                                                !.output = IF s.parts = 1 THEN comm ELSE @]
      [] ph.do = "split"      -> [s EXCEPT !.output = comm]
      [] ph.do = "freeOutput" -> [s EXCEPT !.output = COMM_NULL]
      [] ph.do = "freeGroup"  -> [s EXCEPT !.output = COMM_NULL, !.outputGroup = COMM_NULL]
      [] ph.do = "dup"        -> [s EXCEPT !.spare = comm]
      [] ph.do = "shrinkSpare" -> [s EXCEPT !.spare = comm]
      [] ph.do = "shrinkWorld" -> [s EXCEPT !.newWorld = comm]
      [] ph.do = "splitSpare" -> NewWorld(p, s, comm)
      [] OTHER                -> s

\* The manager waits for one rank of every process that is missing in the new world.
getFailedRanks(s, comm) == [k \in 1..(Len(s.world) - Len(comm)) |-> Phase("receiveFailed")]

\* The calls a phase adds: the file parts of the members of the output group only, the ranks.
Then(s, ph, comm) ==
    IF ph.do = "output" /\ comm # COMM_NULL /\ s.parts # 1 THEN <<Phase("split")>>
    ELSE IF ph.do = "shrinkWorld" /\ isWorldManager(s) THEN getFailedRanks(s, comm)
    ELSE <<>>

getProcessGroupNumber(s) == IF isWorldManager(s) THEN -1 ELSE s.worldRank \div s.nprocs
\* The member of the reduce communicator that is in the output group; localRank is p's in s.
getOutputRankInGlobalReduceComm(p, s) == RankIn(s.local, p) % s.ngroup

-----------------------------------------------------------------------------
(* The functions of MPISystem, as the collective calls they make *)

\* Mutant: the output communicators of an earlier initialisation are kept.
initSystemConstantsKeep(p, s, call) ==
    LET world == Numbers(call.size)
    IN  [s EXCEPT !.ngroup = call.ngroup, !.nprocs = call.nprocs, !.world = world,
                  !.worldRank = RankIn(world, p), !.parts = 1,
                  !.managerRankWorld = IF call.manager THEN call.size - 1 ELSE UNDEFINED,
                  !.thirdLevel = <<>>,
                  !.pgroups = [g \in 1..call.ngroup |-> (g - 1) * call.nprocs]]
initSystemConstants(p, s, call) ==
    LET world == Numbers(call.size)
    IN  [s EXCEPT !.ngroup = call.ngroup, !.nprocs = call.nprocs, !.world = world,
                  !.worldRank = RankIn(world, p), !.parts = 1,
                  !.managerRankWorld = IF call.manager THEN call.size - 1 ELSE UNDEFINED,
                  !.outputGroupRank = UNDEFINED, !.outputGroup = COMM_NULL, !.output = COMM_NULL,
                  !.thirdLevel = <<>>,
                  !.pgroups = [g \in 1..call.ngroup |-> (g - 1) * call.nprocs]]

\* MPI_Comm_free on what an earlier call left.
FreeOutput(s) ==
    (IF s.output # COMM_NULL /\ s.output # s.outputGroup THEN <<Phase("freeOutput")>> ELSE <<>>)
        \o (IF s.outputGroup # COMM_NULL THEN <<Phase("freeGroup")>> ELSE <<>>)
OutputPhases(s) == FreeOutput(s) \o <<Phase("output")>>

\* The barrier is for the members of the new communicator: not for the manager.
ReducePhases(s) == <<Phase("reduce")>> \o (IF isWorldManager(s) THEN <<>> ELSE <<Phase("barrier")>>)
ThirdLevelPhases(s) ==
    IF s.managerRankWorld = UNDEFINED THEN <<>>
    ELSE [g \in 1..s.ngroup |-> [do |-> "third", group |-> g - 1]]

FaultTolerant == \E k \in DOMAIN program : program[k] = CallRunAndRecover

InitPhases(name, s) ==
    (IF FaultTolerant THEN <<Phase("dup")>> ELSE <<>>) \o
    (IF s.ngroup * s.nprocs = 0 THEN <<>>
     ELSE CASE name = "init" -> <<Phase("local"), Phase("global")>> \o ReducePhases(s)
                                    \o OutputPhases(s) \o ThirdLevelPhases(s)
            [] name = "lcomm" -> <<Phase("global")>> \o ReducePhases(s)
                                    \o OutputPhases(s) \o ThirdLevelPhases(s)
            [] name = "reusable" -> <<Phase("local")>> \o ReducePhases(s) \o OutputPhases(s)
                                    \o <<Phase("global")>> \o ThirdLevelPhases(s))

\* The application's own group communicator; in gene_distributed groups are consecutive ranks.
ApplicationComm(s) ==
    LET first == (s.worldRank \div s.nprocs) * s.nprocs
    IN  SubSeq(s.world, first + 1, first + s.nprocs)

RecoverPhases(s) ==
    <<Phase("shrinkSpare"), Phase("shrinkWorld"), Phase("splitSpare"), Phase("noLocal"), Phase("global")>>
        \o ReducePhases(s) \o OutputPhases([s EXCEPT !.parts = 1])

Begin(p) == at' = [at EXCEPT ![p] = @ + 1]
NextCall(p) == program[at[p] + 1]
MayBegin(p, names) ==
    p \in alive /\ p \notin thrown /\ todo[p] = <<>> /\ at[p] < Len(program) /\ NextCall(p).name \in names

SizeFits(call) == call.size = call.ngroup * call.nprocs + (IF call.manager THEN 1 ELSE 0)

InitSystem(p) ==
    /\ MayBegin(p, InitCalls) /\ p < NextCall(p).size /\ SizeFits(NextCall(p))
    /\ LET call == NextCall(p)
           s == initSystemConstants(p, state[p], call)
       IN  /\ state' = [state EXCEPT ![p] =
                          IF call.name = "lcomm" THEN storeLocalComm(s, ApplicationComm(s)) ELSE s]
           /\ todo' = [todo EXCEPT ![p] = InitPhases(call.name, s)]
    /\ Begin(p)
    /\ UNCHANGED <<program, alive, failedSignals, lost, thrown, files>>

\* std::invalid_argument: the number of processes does not match.
InitThrows(p) ==
    /\ MayBegin(p, InitCalls) /\ p < NextCall(p).size /\ ~SizeFits(NextCall(p))
    /\ thrown' = thrown \cup {p}
    /\ Begin(p)
    /\ UNCHANGED <<program, todo, state, alive, failedSignals, lost, files>>

\* A process outside the communicator of this initialisation does nothing.
NotInWorld(p) ==
    /\ MayBegin(p, {"reusable"}) /\ p >= NextCall(p).size
    /\ at' = [at EXCEPT ![p] = SkipTo(p, @)]
    /\ state' = [state EXCEPT ![p] = Uninitialised]
    /\ UNCHANGED <<program, todo, alive, failedSignals, lost, thrown, files>>

\* The application sets the number of parts of the output.
SetFileParts(p) ==
    /\ MayBegin(p, {"output"})
    /\ state' = [state EXCEPT ![p].parts = NextCall(p).parts]
    /\ todo' = [todo EXCEPT ![p] = OutputPhases(state[p])]
    /\ Begin(p)
    /\ UNCHANGED <<program, alive, failedSignals, lost, thrown, files>>

-----------------------------------------------------------------------------
(* Recovery, with one process per group: then no process of a failed group is left *)

Manager(p) == Last(state[p].world)
RunTogether(p) ==
    \A q \in alive \cap Members(state[p].world) : at[q] = at[p] /\ todo[q] = <<>>

\* A worker dies in Task::run and has told the manager its rank; the last group never dies.
Die(p) ==
    /\ MayBegin(p, {"recover"}) /\ RunTogether(p)
    /\ ~isWorldManager(state[p])
    /\ Cardinality(alive \cap Members(state[p].world)) > 2
    /\ failedSignals' = Append(failedSignals, state[p].worldRank)
    /\ alive' = alive \ {p}
    /\ lost' = lost \cup {p}
    /\ UNCHANGED <<program, at, todo, state, thrown, files>>

\* The manager begins when groups failed; the others at its signal, which it has sent them before.
Recover(p) ==
    /\ MayBegin(p, {"recover"})
    /\ IF isWorldManager(state[p]) THEN RunTogether(p) ELSE at[Manager(p)] > at[p]
    /\ todo' = [todo EXCEPT ![p] = IF lost = {} THEN <<>> ELSE RecoverPhases(state[p])]
    /\ state' = [state EXCEPT ![p].parts = 1]
    /\ Begin(p)
    /\ UNCHANGED <<program, alive, failedSignals, lost, thrown, files>>

ReceiveFailed(p) ==
    /\ todo[p] # <<>> /\ Head(todo[p]).do = "receiveFailed"
    /\ failedSignals # <<>>
    /\ failedSignals' = Tail(failedSignals)
    /\ todo' = [todo EXCEPT ![p] = Tail(@)]
    /\ UNCHANGED <<program, at, state, alive, lost, thrown, files>>

\* After its last call the manager erases the failed groups; the others keep their order, which are their new ranks.
EraseFailed(p) ==
    /\ p \in alive /\ state[p].world # COMM_NULL /\ isWorldManager(state[p])
    /\ lost # {} /\ todo[p] = <<>> /\ Members(state[p].world) \cap lost = {}
    /\ state' = [state EXCEPT ![p].pgroups = SelectSeq(@, LAMBDA m : m \notin lost)]
    /\ lost' = {}
    /\ UNCHANGED <<program, at, todo, alive, failedSignals, thrown, files>>

\* All members of a communicator (the living ones, for a shrink) have made their call on it.
Meet(p) ==
    /\ Blocked(p) /\ Head(todo[p]).do # "file"
    /\ LET c == Pending(p)
           members == IF c.op = "shrink" THEN Members(c.comm) \cap alive ELSE Members(c.comm)
       IN  /\ p = Min(members)
           /\ \A q \in members : q \in alive /\ Blocked(q)
           /\ LET calls == [q \in members |-> Pending(q)]
                  new == [q \in members |-> NewComm(q, calls)]
              IN  /\ \A q \in members : /\ calls[q].op = c.op
                                        /\ calls[q].name = c.name /\ calls[q].comm = c.comm
                  /\ state' = [q \in Processes |->
                        IF q \in members THEN After(q, state[q], Head(todo[q]), new[q]) ELSE state[q]]
                  /\ todo' = [q \in Processes |->
                        IF q \in members
                        THEN Then(state[q], Head(todo[q]), new[q]) \o Tail(todo[q])
                        ELSE todo[q]]
    /\ UNCHANGED <<program, at, alive, failedSignals, lost, thrown, files>>

-----------------------------------------------------------------------------
(* Files of sparse grids *)

\* The sparse grid of local rank r holds other values in every round, and is empty on rank 2.
Values(kind, r, round) ==
    IF kind = "sizes" THEN [i \in 1..2 |-> 10 * (r + 1) + IF (r + i) % 2 = 0 THEN round ELSE -round]
    ELSE [i \in 1..(2 * r + 3) % 7 |-> 1000 * round + 10 * r + i]

\* One file is written and read by the group of rank 0, the third level group under a manager;
\* the others by the processes of the output group.
OpensFile(s, kind) ==
    IF kind = "one" THEN ~isWorldManager(s) /\ getProcessGroupNumber(s) = 0
    ELSE s.outputGroup # COMM_NULL

BeginFile(p) ==
    /\ MayBegin(p, {"file"})
    /\ LET call == NextCall(p)
           opens == OpensFile(state[p], call.kind)
           r == IF call.kind = "one" THEN RankIn(state[p].local, p) ELSE state[p].outputGroupRank
       IN  /\ state' = [state EXCEPT ![p].data = IF opens THEN Values(call.kind, r, call.round) ELSE <<>>]
           /\ todo' = [todo EXCEPT ![p] =
                          IF opens THEN <<[do |-> "file", group |-> 0, call |-> call]>> ELSE <<>>]
    /\ Begin(p)
    /\ UNCHANGED <<program, alive, failedSignals, lost, thrown, files>>

\* writeSomeFiles and the functions that read them compute the part's number from the sizes.
FileName(s, kind) ==
    IF kind = "some" THEN <<kind, s.outputGroupRank \div Len(s.output)>> ELSE <<kind, 0>>

\* All members of the communicator open the file and access their parts of it.
AccessFile(p) ==
    /\ Blocked(p) /\ Head(todo[p]).do = "file"
    /\ LET c == Pending(p)
           name == FileName(state[p], c.name)
           values == [k \in DOMAIN c.comm |-> state[c.comm[k]].data]
           readable == checkFileSizeConsecutive(files, name, values)
           new == IF c.op = "read" THEN readValuesConsecutive(files[name], values)
                  ELSE IF c.name = "sizes"
                  THEN readReduceValuesConsecutive(files[name], values, Len(values[1]), "min")
                  ELSE readReduceValuesConsecutive(files[name], values, ChunkSize, "plus")
       IN  /\ p = Min(Members(c.comm))
           /\ \A q \in Members(c.comm) :
                 q \in alive /\ Blocked(q) /\ Head(todo[q]).do = "file" /\ Pending(q) = c
                 /\ FileName(state[q], c.name) = name
           /\ todo' = [q \in Processes |-> IF q \in Members(c.comm) THEN Tail(todo[q]) ELSE todo[q]]
           /\ IF c.op = "write"
              THEN /\ files' = writeValuesConsecutive(files, name, values, FALSE)
                   /\ UNCHANGED <<state, thrown>>
              ELSE /\ UNCHANGED files
                   /\ IF readable
                      THEN /\ state' = [q \in Processes |-> IF q \in Members(c.comm)
                                          THEN [state[q] EXCEPT !.data = new[RankIn(c.comm, q) + 1]]
                                          ELSE state[q]]
                           /\ UNCHANGED thrown
                      ELSE thrown' = thrown \cup Members(c.comm) /\ UNCHANGED state
    /\ UNCHANGED <<program, at, alive, failedSignals, lost>>

Step(p) ==
    \/ InitSystem(p) \/ InitThrows(p) \/ NotInWorld(p) \/ SetFileParts(p)
    \/ Recover(p) \/ ReceiveFailed(p) \/ EraseFailed(p) \/ Meet(p)
    \/ BeginFile(p) \/ AccessFile(p)

Next == \E p \in Processes : Step(p) \/ Die(p)

\* MPI makes progress and no living process stops.
Spec == Init /\ [][Next]_vars /\ \A p \in Processes : WF_vars(Step(p))

-----------------------------------------------------------------------------
(* Properties *)

Settled(p) == p \in alive /\ p \notin thrown /\ todo[p] = <<>> /\ state[p].world # COMM_NULL
\* All members of p's world have done the same calls, the last one included.
WorldSettled(p) ==
    /\ Settled(p) /\ lost = {}
    /\ \A q \in Members(state[p].world) : Settled(q) /\ at[q] = at[p]
Workers(p) == {q \in Members(state[p].world) : ~isWorldManager(state[q])}

\* The local communicators divide the workers into ngroup groups of nprocs; the communicator
\* of the masters lists the process with rank 0 of group g at g and the manager at the end; the
\* manager's list of groups has that order (ProcessManager.cpp:300 relies on it after a
\* recovery); the third level communicators are the groups with the manager at the end.
GroupsRight ==
    \A p \in Processes : WorldSettled(p) /\ state[p].ngroup * state[p].nprocs > 0 =>
        LET s == state[p]
            locals == {state[q].local : q \in Workers(p)}
        IN  /\ Cardinality(locals) = s.ngroup /\ \A c \in locals : Len(c) = s.nprocs
            /\ UNION {Members(c) : c \in locals} = Workers(p)
            /\ isWorldManager(s) => s.local = COMM_NULL /\ s.pgroups = SubSeq(s.global, 1, s.ngroup)
            /\ s.global = COMM_NULL <=> p \in Workers(p) /\ RankIn(s.local, p) # 0
            /\ s.global # COMM_NULL =>
                 /\ \A g \in 0..(s.ngroup - 1) :
                      LET m == s.global[g + 1]
                      IN  RankIn(state[m].local, m) = 0 /\ getProcessGroupNumber(state[m]) = g
                 /\ s.managerRankWorld # UNDEFINED =>
                      Len(s.global) = s.ngroup + 1 /\ isWorldManager(state[Last(s.global)])
            /\ ~FaultTolerant /\ s.managerRankWorld # UNDEFINED =>
                 IF isWorldManager(s)
                 THEN s.thirdLevel = [g \in 1..s.ngroup |-> state[s.pgroups[g]].local \o <<p>>]
                 ELSE s.thirdLevel = <<s.local \o <<Last(s.world)>> >>

\* A reduce communicator has the processes of one local rank, one of every group in the order
\* of the groups; exactly one of them is in the output group, at the rank that the others
\* compute for it (getOutputRankInGlobalReduceComm); the output group has every local rank
\* once, in order; its members that write the same part are neighbours, and there are as many
\* parts as asked for when that number divides nprocs.
WritersRight ==
    \A p \in Processes : WorldSettled(p) /\ p \in Workers(p) =>
        LET s == state[p]
            writers == {q \in Workers(p) : state[q].outputGroup # COMM_NULL}
            group == SetToSortSeq(writers, LAMBDA q, r : state[q].outputGroupRank < state[r].outputGroupRank)
            parts == {state[q].output : q \in writers}
        IN  /\ Len(s.reduce) = s.ngroup
            /\ \A g \in 1..s.ngroup :
                 /\ getProcessGroupNumber(state[s.reduce[g]]) = g - 1
                 /\ RankIn(state[s.reduce[g]].local, s.reduce[g]) = RankIn(s.local, p)
            /\ Members(s.reduce) \cap writers = {s.reduce[getOutputRankInGlobalReduceComm(p, s) + 1]}
            /\ p \in writers <=> s.outputGroupRank # UNDEFINED
            /\ p \in writers => /\ s.outputGroupRank = RankIn(s.local, p)
                                /\ s.outputGroup = group
            /\ s.nprocs % s.parts = 0 => Cardinality(parts) = s.parts
            /\ \A c \in parts : \E first \in 1..s.nprocs : \E last \in first..s.nprocs :
                 c = SubSeq(group, first, last)

\* The files are right whatever the numbers of groups and parts: a process that reads a file gets
\* its own part of what was last written (added to what it holds, or the minimum of both), also
\* after a restart with another number of groups, or reading throws; and
\* reading throws only if some earlier file was written by another number of processes or in
\* another number of parts.
PartsAt(k) ==
    LET last == Max({j \in 1..k : program[j].name \in InitCalls \cup {"output"}})
    IN  IF program[last].name = "output" THEN program[last].parts ELSE 1
ProcsAt(k) == program[Max({j \in 1..k : program[j].name \in InitCalls})].nprocs

FilesRight ==
    \A p \in alive : at[p] > 0 /\ todo[p] = <<>> /\ program[at[p]].name = "file" =>
        LET call == program[at[p]]
            written == {k \in 1..at[p] : /\ program[k].name = "file" /\ program[k].access = "write"
                                         /\ program[k].kind = call.kind}
            r == IF call.kind = "one" THEN RankIn(state[p].local, p) ELSE state[p].outputGroupRank
            Then_(fn) == LET file == Values(call.kind, r, program[Max(written)].round)
                             own == Values(call.kind, r, call.round)
                         IN  [i \in DOMAIN own |-> IF fn = "read" THEN file[i] ELSE Reduced(fn, own[i], file[i])]
        IN  IF ~OpensFile(state[p], call.kind) \/ call.access = "write" THEN p \notin thrown
            ELSE IF p \in thrown
            THEN \E k \in written : \/ PartsAt(k) # PartsAt(at[p]) /\ call.kind = "some"
                                    \/ ProcsAt(k) # ProcsAt(at[p])
            ELSE state[p].data = Then_(IF call.access = "read" THEN "read"
                                       ELSE IF call.kind = "sizes" THEN "min" ELSE "plus")

\* The output communicators and what is written to files by them are right.
OutputRight == WritersRight /\ FilesRight

\* Every process that lives comes through all calls of the program, or its initialisation
\* throws (on every process of the world), and the manager has received every rank it waits for.
Finishes ==
    <>[](/\ \A p \in alive : p \in thrown \/ (at[p] = Len(program) /\ todo[p] = <<>>)
         /\ failedSignals = <<>> /\ lost = {})

=============================================================================
