----------------------------- MODULE ProcessManager -----------------------------
(***************************************************************************)
(* The whole machine: the ProcessManager's methods on the manager process, *)
(* the command handlers of the process groups with the collectives between *)
(* the groups (globalReduceComm) and with the manager (thirdLevelComm),    *)
(* and what they do to the component grids and the sparse grids.           *)
(*                                                                         *)
(* A method is the sequence of its sends, waits and exchanges; a handler   *)
(* is the sequence of its blocking communications and their effects.  The  *)
(* commands themselves go through the protocol of ProcessGroup.            *)
(*                                                                         *)
(* Combination variant: sparseGridReduce, one grid per task.  One rank     *)
(* stands for a group.  The program is built with assertions, so the waits *)
(* written inside assert() happen.                                         *)
(***************************************************************************)
EXTENDS Naturals, Sequences, SequencesExt, FiniteSetsExt

CONSTANTS
    NumGroups,      \* pgroups_.size()
    Tasks,          \* the tasks of the combination scheme
    TLGroup,        \* the third level group, thirdLevelPGroup_
    Remote,         \* the contribution, and the subspaces, of the remote system
    RemoteSpaces,   \* the tasks whose subspaces the remote system has, and Remote
    Operations,     \* the methods the application calls
    MaxCalls,       \* bound: calls of methods
    MaxMigrations,  \* bound: tasks moved by one reschedule()
    Used, CallerWaits, MaxInFlight, None    \* see ProcessGroup

Groups == 1..NumGroups

ASSUME ManagerAssumption ==
    /\ NumGroups \in Nat \ {0}
    /\ TLGroup \in Groups
    /\ IsFiniteSet(Tasks) /\ Cardinality(Tasks) >= NumGroups    \* asserted by runfirst
    /\ Remote \notin Tasks
    /\ RemoteSpaces \subseteq Tasks \cup {Remote}
    /\ CallerWaits = FALSE                  \* this module knows what the caller does
    /\ MaxMigrations \in Nat /\ MaxCalls \in Nat

\* None is no receiver of a message.
ASSUME NoneAssumption == None \notin {"manager", "group"}

VARIABLES
    status, posted, managerTasks, awaiting, closed,    \* ProcessGroup: the manager
    toWorker, statusMsgs, replies,                     \* ProcessGroup: the channels
    phase, current, workerTasks,                       \* ProcessGroup: the groups
    todo,         \* what is left of the method the manager executes
    stage,        \* where the application is between two combinations
    calls,        \* methods called
    taskList,     \* ProcessManager::tasks_
    managerSizes, \* dsguDataSizePerWorker_ of the third level group, or None
    handler,      \* what is left of the handler each group executes
    grid,         \* each task's component grid
    dsg,          \* each group's sparse grid: the contributions <<task, step>> summed
    numDsgs,      \* each group's combinedUniDSGVector_.size()
    spaces,       \* the tasks whose subspaces each group's sparse grid has
    extra,        \* the subspaces of the third level group's extra sparse grid, or None
    bcasts,       \* broadcasts of globalReduceComm each group has not taken yet
    wire,         \* the message on thirdLevelComm between manager and group
    values,       \* interpolated values under way to the manager
    tokens        \* the third level files that are there

protocolVars == <<status, posted, managerTasks, awaiting, closed,
                  toWorker, statusMsgs, replies, phase, current, workerTasks>>
methodVars == <<stage, calls, taskList, managerSizes>>
gridVars == <<grid, dsg, numDsgs, spaces, extra>>
commVars == <<bcasts, wire, values, tokens>>
vars == <<protocolVars, todo, methodVars, handler, gridVars, commVars>>

PG == INSTANCE ProcessGroup

ASSUME ProtocolAssumption == PG!UsedAssumption

Contribution == (Tasks \cup {Remote}) \X Nat

\* The state of a task's component grid: the time steps run, whose data it holds
\* (its own, or a combined solution's), and whether as nodal values or as
\* hierarchical coefficients.
Grid == [step : Nat, of : SUBSET (Tasks \cup {Remote}), nodal : BOOLEAN]

Stages == {"start", "solved", "reduced", "combined", "ended"}

Nothing == [to |-> None, sizes |-> {}, data |-> {}]

TypeOK ==
    /\ PG!TypeOK
    /\ stage \in Stages
    /\ calls \in 0..MaxCalls
    /\ taskList \in Seq(Tasks)
    /\ managerSizes \in {None} \cup SUBSET (Tasks \cup {Remote})
    /\ grid \in [Tasks -> Grid]
    /\ dsg \in [Groups -> SUBSET Contribution]
    /\ numDsgs \in [Groups -> Nat]
    /\ spaces \in [Groups -> SUBSET (Tasks \cup {Remote})]
    /\ extra \in {None} \cup SUBSET (Tasks \cup {Remote})
    /\ wire.to \in {None, "manager", "group"}
    /\ values \in 0..1
    /\ tokens \in {"none", "written", "readable"}

Init ==
    /\ PG!Init
    /\ todo = <<>>
    /\ stage = "start"
    /\ calls = 0
    /\ taskList = SetToSeq(Tasks)
    /\ managerSizes = None
    /\ handler = [g \in Groups |-> <<>>]
    /\ grid = [t \in Tasks |-> [step |-> 0, of |-> {}, nodal |-> TRUE]]
    /\ dsg = [g \in Groups |-> {}]
    /\ numDsgs = [g \in Groups |-> 0]
    /\ spaces = [g \in Groups |-> {}]
    /\ extra = None
    /\ bcasts = [g \in Groups |-> <<>>]
    /\ wire = Nothing
    /\ values = 0
    /\ tokens = "none"

-----------------------------------------------------------------------------
\* The methods of the ProcessManager, as the steps the manager executes.

Step(do, g, sig, t) == [do |-> do, group |-> g, sig |-> sig, task |-> t]

WaitAll == <<Step("waitAll", None, None, None)>>
WaitFor(g) == <<Step("waitFor", g, None, None)>>
FetchInstruction == <<Step("fetchInstruction", None, None, None)>>
Command(g, sig) == Step("send", g, sig, None)

\* Mutant: groups without tasks get no command.
CommandAllWithTasks(sig) ==
    SelectSeq([g \in Groups |-> Command(g, sig)], LAMBDA s : managerTasks[s.group] # <<>>)

CommandAll(sig) == [g \in Groups |-> Command(g, sig)]

Others == [i \in 1..(NumGroups - 1) |-> IF i < TLGroup THEN i ELSE i + 1]

\* Mutant: the third level group alone gets its command.
TellNobody == <<>>

\* Every group but the third level group waits for its combination result;
\* waitForThirdLevelCombiResult asserts waitStatus().
TellOthers ==
    FlattenSeq([i \in DOMAIN Others |->
        WaitFor(Others[i]) \o <<Command(Others[i], "WAIT_FOR_TL_COMBI_RESULT")>>])

\* waitForThirdLevelSizeUpdate does not wait.
TellOthersSizes ==
    [i \in DOMAIN Others |-> Command(Others[i], "WAIT_FOR_TL_SIZE_UPDATE")]

CombineSystemWide == WaitAll \o CommandAll("COMBINE_LOCAL_AND_GLOBAL") \o WaitAll

InitDsgus == WaitAll \o CommandAll("INIT_DSGUS") \o WaitAll

\* The group ProcessManager asks to interpolate, and the others after it.
InterpolateAll(first) ==
    <<Step("sendUnchecked", NumGroups, first, None)>> \o
    [g \in 1..(NumGroups - 1) |-> Step("sendUnchecked", g, "INTERPOLATE_VALUES", None)]

\* The third level group's command, with the waits before and after it.
CommandTLGroup(sig) == WaitFor(TLGroup) \o <<Command(TLGroup, sig)>> \o WaitFor(TLGroup)

Script(op) ==
    CASE op = "runfirst" ->
            [i \in DOMAIN taskList |-> Step("assign", None, "RUN_FIRST", taskList[i])]
                \o WaitAll \o InitDsgus
      [] op = "initDsgus" -> InitDsgus
      [] op = "runnext" ->
            WaitAll \o [g \in Groups |-> Step("runNext", g, "RUN_NEXT", None)] \o WaitAll
      [] op = "combine" -> WaitAll \o CommandAll("COMBINE") \o WaitAll
      [] op = "combineThirdLevel" ->
            CombineSystemWide \o TellOthers \o FetchInstruction \o
            <<Command(TLGroup, "COMBINE_THIRD_LEVEL"), Step("exchangeDsgus", TLGroup, None, None)>>
                \o WaitAll
      [] op = "combineThirdLevelFileBasedWrite" ->
            CombineSystemWide \o FetchInstruction \o CommandTLGroup("COMBINE_WRITE_DSGS")
      [] op = "combineThirdLevelFileBasedReadReduce" ->
            TellOthers \o CommandTLGroup("COMBINE_READ_DSGS_AND_REDUCE") \o WaitAll
      [] op = "combineThirdLevelFileBased" ->
            CombineSystemWide \o TellOthers \o FetchInstruction \o
            CommandTLGroup("COMBINE_THIRD_LEVEL_FILE")
      [] op = "unifySubspaceSizesThirdLevel" ->
            TellOthersSizes \o FetchInstruction \o
            <<Step("sendUnchecked", TLGroup, "REDUCE_SUBSPACE_SIZES_TL", None),
              Step("reduceSizes", TLGroup, None, None)>> \o WaitAll
      [] op = "unifyExtraSparseGrid" ->
            FetchInstruction \o
            <<Step("sendUnchecked", TLGroup,
                   "REDUCE_SUBSPACE_SIZES_TL_AND_ALLOCATE_EXTRA_SG", None),
              Step("reduceExtraSizes", TLGroup, None, None)>> \o WaitAll
      [] op = "updateCombiParameters" ->
            WaitAll \o CommandAll("UPDATE_COMBI_PARAMETERS") \o WaitAll
      [] op = "parallelEval" -> WaitAll \o <<Command(1, "PARALLEL_EVAL")>> \o WaitAll
      [] op = "getLpNorms" ->
            FlattenSeq([g \in Groups |-> <<Step("norms", g, "GET_L2_NORM", None),
                                           Step("reply", g, None, None)>>])
      [] op = "interpolateValues" ->
            InterpolateAll("INTERPOLATE_VALUES_AND_SEND_BACK") \o
            <<Step("takeValues", None, None, None)>>
      [] op = "writeInterpolatedValuesSingleFile" ->
            InterpolateAll("INTERPOLATE_VALUES_AND_WRITE_SINGLE_FILE")
      [] op = "writeInterpolatedValuesPerGrid" ->
            FlattenSeq([g \in Groups |->
                <<Step("sendUnchecked", g, "WRITE_INTERPOLATED_VALUES_PER_GRID", None)>>
                    \o WaitFor(g)])
      [] op = "writeSparseGridMinMaxCoefficients" ->
            <<Step("sendUnchecked", NumGroups, "WRITE_DSG_MINMAX_COEFFICIENTS", None)>>
      [] op = "writeDSGsToDisk" ->
            CommandTLGroup("WRITE_DSGS_TO_DISK")
      [] op = "exit" -> WaitAll \o [g \in Groups |-> Step("exit", g, "EXIT", None)]

\* The methods an application calls between two combinations: the sparse grids
\* are sized before the first one, reschedule comes after a combination and
\* before runnext, and a file based combination reads after it has written, with nothing that
\* looks at the hierarchized grids in between.
Anytime == {"updateCombiParameters", "getLpNorms", "interpolateValues",
            "writeInterpolatedValuesSingleFile", "writeInterpolatedValuesPerGrid"}

Allowed ==
    [start |-> {"updateCombiParameters", "runfirst"},
     solved |-> Anytime \cup
         {"initDsgus", "unifySubspaceSizesThirdLevel", "unifyExtraSparseGrid", "combine",
          "combineThirdLevel", "combineThirdLevelFileBasedWrite", "combineThirdLevelFileBased"},
     reduced |-> {"updateCombiParameters", "combineThirdLevelFileBasedReadReduce"},
     combined |-> Anytime \cup {"runnext", "parallelEval", "writeSparseGridMinMaxCoefficients",
                                "writeDSGsToDisk", "exit"},
     ended |-> {}]

StageAfter(op) ==
    CASE op \in {"runfirst", "runnext"} -> "solved"
      [] op = "combineThirdLevelFileBasedWrite" -> "reduced"
      [] op \in {"combine", "combineThirdLevel", "combineThirdLevelFileBased",
                 "combineThirdLevelFileBasedReadReduce"} -> "combined"
      [] op = "exit" -> "ended"
      [] OTHER -> stage

\* An application sizes the sparse grids with the remote system's once, and
\* before the first combination through the managers.
SizesKnown(op) ==
    /\ op = "combineThirdLevel" => managerSizes # None
    /\ op \in {"unifySubspaceSizesThirdLevel", "unifyExtraSparseGrid"} => managerSizes = None

Call(op) ==
    /\ todo = <<>>
    /\ calls < MaxCalls
    /\ op \in Operations \cap Allowed[stage]
    /\ SizesKnown(op)
    /\ todo' = Script(op)
    /\ stage' = StageAfter(op)
    /\ calls' = calls + 1
    /\ UNCHANGED <<protocolVars, taskList, managerSizes, handler, gridVars, commVars>>

\* What reschedule does for one task that moves from group g to group h.
Migration(t, g, h) ==
    <<Step("remove", g, "RESCHEDULE_REMOVE_TASK", t), Step("reply", g, None, None)>> \o WaitAll
        \o <<Step("add", h, "RESCHEDULE_ADD_TASK", t)>> \o WaitAll

\* The group that has the task, by the manager's lists.
OwnerOf(t) == CHOOSE g \in Groups : Contains(managerTasks[g], t)

\* The rescheduler chooses the tasks and their new groups.
CallReschedule ==
    /\ todo = <<>>
    /\ calls < MaxCalls
    /\ "reschedule" \in Operations
    /\ stage = "combined"
    /\ \E S \in SUBSET Tasks :
        /\ Cardinality(S) \in 1..MaxMigrations
        /\ \E to \in [S -> Groups] :
            /\ \A t \in S : to[t] # OwnerOf(t)
            /\ LET order == SetToSeq(S)
               IN  todo' = FlattenSeq([i \in DOMAIN order |->
                                Migration(order[i], OwnerOf(order[i]), to[order[i]])])
                           \o <<Step("rebuildTasks", None, None, None)>>
    /\ calls' = calls + 1
    /\ UNCHANGED <<protocolVars, stage, taskList, managerSizes, handler, gridVars, commVars>>

-----------------------------------------------------------------------------
\* The steps of the manager.

\* The manager executes the next step, which must be one of this kind.
Do(kind) == /\ todo # <<>>
            /\ Head(todo).do = kind
            /\ todo' = Tail(todo)

workerVars == <<handler, gridVars>>

\* Mutant: one group that waits is enough.
WaitAnyFinished ==
    /\ Do("waitAll")
    /\ \E g \in Groups : status[g] = "WAIT"
    /\ UNCHANGED <<protocolVars, methodVars, workerVars, commVars>>

\* waitForAllGroupsToWait, waitAllFinished: statuses turn to WAIT only.
WaitAllFinished ==
    /\ Do("waitAll")
    /\ \A g \in Groups : status[g] = "WAIT"
    /\ UNCHANGED <<protocolVars, methodVars, workerVars, commVars>>

WaitForPG ==
    /\ Do("waitFor")
    /\ status[Head(todo).group] = "WAIT"
    /\ UNCHANGED <<protocolVars, methodVars, workerVars, commVars>>

DoFor(kind, g) == Do(kind) /\ Head(todo).group = g

\* wait() polls the groups in order and returns the first that is waiting.
Runfirst(g) ==
    /\ Do("assign")
    /\ \A h \in 1..(g - 1) : status[h] = "BUSY"
    /\ \E t \in Tasks : Head(todo).task = t /\ PG!StoreTaskReferenceAndSend(g, "RUN_FIRST", t)
    /\ UNCHANGED <<methodVars, workerVars, commVars>>

\* runnext returns false for a group without tasks.
Runnext(g) ==
    /\ DoFor("runNext", g)
    /\ \/ PG!RunNext(g)
       \/ status[g] = "WAIT" /\ managerTasks[g] = <<>> /\ UNCHANGED protocolVars
    /\ UNCHANGED <<methodVars, workerVars, commVars>>

SendCommand(g) ==
    /\ \/ DoFor("send", g) /\ PG!SendSignalAndReceive(g, Head(todo).sig)
       \/ DoFor("sendUnchecked", g) /\ PG!SendUnchecked(g, Head(todo).sig)
       \/ DoFor("exit", g) /\ PG!Exit(g)
    /\ UNCHANGED <<methodVars, workerVars, commVars>>

\* getLpNorms and rescheduleRemoveTask: the request and the reply to it.
Request(g) ==
    /\ \/ DoFor("norms", g) /\ PG!GetLpNorms(g, Head(todo).sig)
       \/ /\ DoFor("remove", g)
          /\ \E t \in Tasks : Head(todo).task = t /\ PG!RescheduleRemoveTask(g, t)
    /\ UNCHANGED <<methodVars, workerVars, commVars>>

TakeReply(g) ==
    /\ DoFor("reply", g)
    /\ PG!ReceiveReply(g)
    /\ UNCHANGED <<methodVars, workerVars, commVars>>

RescheduleAddTask(g) ==
    /\ DoFor("add", g)
    /\ \E t \in Tasks :
        Head(todo).task = t /\ PG!StoreTaskReferenceAndSend(g, "RESCHEDULE_ADD_TASK", t)
    /\ UNCHANGED <<methodVars, workerVars, commVars>>

\* Mutant: the last group's tasks are forgotten.
RebuildTasksButLast ==
    /\ Do("rebuildTasks")
    /\ taskList' = FlattenSeq([g \in 1..(NumGroups - 1) |-> managerTasks[g]])
    /\ UNCHANGED <<protocolVars, stage, calls, managerSizes, workerVars, commVars>>

\* reschedule rebuilds tasks_ from the groups' lists.
RebuildTasks ==
    /\ Do("rebuildTasks")
    /\ taskList' = FlattenSeq([g \in Groups |-> managerTasks[g]])
    /\ UNCHANGED <<protocolVars, stage, calls, managerSizes, workerVars, commVars>>

\* The third level manager lets the system start.
FetchInstructionStep ==
    /\ Do("fetchInstruction")
    /\ UNCHANGED <<protocolVars, methodVars, workerVars, commVars>>

\* Mutant: the manager keeps the sizes before the reduction.
ReduceSizesKeepLocal ==
    /\ wire.to = "manager"
    /\ LET result == IF Head(todo).do = "reduceSizes" THEN wire.sizes \cup RemoteSpaces
                     ELSE wire.sizes \cap RemoteSpaces
       IN  /\ wire' = [Nothing EXCEPT !.to = "group", !.sizes = result]
           /\ managerSizes' = wire.sizes
    /\ Do("reduceSizes") \/ Do("reduceExtraSizes")
    /\ UNCHANGED <<protocolVars, stage, calls, taskList, workerVars, bcasts, values, tokens>>

\* reduceLocalAndRemoteSubspaceSizes: the gathered sizes are exchanged with the
\* remote system and the maximum (minimum, for the extra sparse grid) scattered.
ReduceSizes ==
    /\ wire.to = "manager"
    /\ LET result == IF Head(todo).do = "reduceSizes" THEN wire.sizes \cup RemoteSpaces
                     ELSE wire.sizes \cap RemoteSpaces
       IN  /\ wire' = [Nothing EXCEPT !.to = "group", !.sizes = result]
           /\ managerSizes' = result
    /\ Do("reduceSizes") \/ Do("reduceExtraSizes")
    /\ UNCHANGED <<protocolVars, stage, calls, taskList, workerVars, bcasts, values, tokens>>

LatestStep(sum) == IF sum = {} THEN 0 ELSE Max({c[2] : c \in sum})

\* What the sum of the systems' sparse grids contains.
WithRemote(sum) == sum \cup {<<Remote, LatestStep(sum)>>}

ExchangeDsgus ==
    /\ Do("exchangeDsgus")
    /\ wire.to = "manager"
    /\ wire' = [wire EXCEPT !.to = "group", !.data = WithRemote(@)]
    /\ UNCHANGED <<protocolVars, methodVars, workerVars, bcasts, values, tokens>>

\* interpolateValues waits for the values, not for the statuses.
TakeValues ==
    /\ Do("takeValues")
    /\ values > 0
    /\ values' = values - 1
    /\ UNCHANGED <<protocolVars, methodVars, workerVars, bcasts, wire, tokens>>

DeliverStatus(g) ==
    /\ PG!DeliverStatus(g)
    /\ UNCHANGED <<todo, methodVars, workerVars, commVars>>

-----------------------------------------------------------------------------
\* The handlers of the process groups, as their blocking steps.  COMBINE is
\* combineAtOnce, COMBINE_LOCAL_AND_GLOBAL combineSystemWide.

\* Mutant: the tasks get the sparse grid before the result is there.
DistributeBeforeResult == <<"distribute", "takeDsg">>

\* waitForThirdLevelCombiResult
WaitForThirdLevelCombiResult == <<"takeDsg", "distribute">>

\* writeInterpolatedValuesSingleFile
InterpolateAndWrite == <<"reduceValues">>

HandlerOf(sig) ==
    CASE sig = "INIT_DSGUS" -> <<"initDsg", "reduceSizes">>
      [] sig = "COMBINE" -> <<"reduceLocal", "reduceGlobal", "distribute">>
      [] sig = "COMBINE_LOCAL_AND_GLOBAL" -> <<"reduceLocal", "reduceGlobal">>
      [] sig = "COMBINE_THIRD_LEVEL" ->
            <<"sendDsg", "recvDsg", "bcastDsg", "distribute", "waitBcast">>
      [] sig = "WAIT_FOR_TL_COMBI_RESULT" -> WaitForThirdLevelCombiResult
      [] sig = "COMBINE_WRITE_DSGS" -> <<"write">>
      [] sig = "COMBINE_READ_DSGS_AND_REDUCE" ->
            <<"readReduce", "bcastDsg", "distribute", "removeToken", "waitBcast">>
      [] sig = "COMBINE_THIRD_LEVEL_FILE" ->
            <<"write", "readReduce", "bcastDsg", "distribute", "removeToken", "waitBcast">>
      [] sig = "REDUCE_SUBSPACE_SIZES_TL" ->
            <<"gatherSizes", "scatterSizes", "bcastSizes", "zero">>
      [] sig = "REDUCE_SUBSPACE_SIZES_TL_AND_ALLOCATE_EXTRA_SG" ->
            <<"gatherSizes", "scatterExtra", "zero">>
      [] sig = "WAIT_FOR_TL_SIZE_UPDATE" -> <<"takeSizes", "zero">>
      [] sig = "INTERPOLATE_VALUES" -> <<"reduceValues">>
      [] sig = "INTERPOLATE_VALUES_AND_WRITE_SINGLE_FILE" -> InterpolateAndWrite
      [] sig = "INTERPOLATE_VALUES_AND_SEND_BACK" -> <<"reduceValues", "sendValues">>
      [] OTHER -> <<>>

ReceiveSignal(g) ==
    /\ PG!ReceiveSignal(g)
    /\ handler' = [handler EXCEPT ![g] = HandlerOf(current'[g].sig)]
    /\ UNCHANGED <<todo, methodVars, gridVars, commVars>>

At(g, kind) == handler[g] # <<>> /\ Head(handler[g]) = kind

Advance(g) == handler' = [handler EXCEPT ![g] = Tail(@)]

AdvanceAll == handler' = [g \in Groups |-> Tail(handler[g])]

managerSide == <<protocolVars, todo, methodVars>>

\* initCombinedUniDSGVector appends one sparse grid per grid of a task and
\* registers the subspaces of the group's tasks.
InitDsg(g) ==
    /\ At(g, "initDsg")
    /\ numDsgs' = [numDsgs EXCEPT ![g] = @ + 1]
    /\ spaces' = [spaces EXCEPT ![g] = @ \cup ToSet(workerTasks[g])]
    /\ Advance(g)
    /\ UNCHANGED <<managerSide, grid, dsg, extra, commVars>>

\* An MPI_Allreduce of globalReduceComm takes all groups.
ReduceSubspaceSizes ==
    /\ \A g \in Groups : At(g, "reduceSizes")
    /\ spaces' = [g \in Groups |-> UNION {spaces[h] : h \in Groups}]
    /\ AdvanceAll
    /\ UNCHANGED <<managerSide, grid, dsg, numDsgs, extra, commVars>>

Hierarchize(g) ==
    [t \in Tasks |-> IF t \in ToSet(workerTasks[g]) THEN [grid[t] EXCEPT !.nodal = FALSE]
                     ELSE grid[t]]

\* combineSystemWide: the group's grids are hierarchized and added up from zero ...
ReduceLocal(g) ==
    /\ At(g, "reduceLocal")
    /\ grid' = Hierarchize(g)
    /\ dsg' = [dsg EXCEPT ![g] = {<<t, grid[t].step>> : t \in ToSet(workerTasks[g])}]
    /\ Advance(g)
    /\ UNCHANGED <<managerSide, numDsgs, spaces, extra, commVars>>

\* ... and the groups' sums are added.
ReduceGlobal ==
    /\ \A g \in Groups : At(g, "reduceGlobal")
    /\ dsg' = [g \in Groups |-> UNION {dsg[h] : h \in Groups}]
    /\ AdvanceAll
    /\ UNCHANGED <<managerSide, grid, numDsgs, spaces, extra, commVars>>

ReduceValues ==
    /\ \A g \in Groups : At(g, "reduceValues")
    /\ AdvanceAll
    /\ UNCHANGED <<managerSide, gridVars, commVars>>

SendValues(g) ==
    /\ At(g, "sendValues")
    /\ values' = values + 1
    /\ Advance(g)
    /\ UNCHANGED <<managerSide, gridVars, bcasts, wire, tokens>>

Systems(g) == {c[1] : c \in dsg[g]}

\* Mutant: the tasks get the combined solution, but are not dehierarchized.
DistributeOnly(g) ==
    /\ At(g, "distribute")
    /\ grid' = [t \in Tasks |-> IF t \in ToSet(workerTasks[g])
                               THEN [grid[t] EXCEPT !.of = Systems(g)] ELSE grid[t]]
    /\ Advance(g)
    /\ UNCHANGED <<managerSide, dsg, numDsgs, spaces, extra, commVars>>

\* updateFullFromCombinedSparseGrids: the tasks of the group get the combined
\* solution and are dehierarchized.
Distribute(g) ==
    /\ At(g, "distribute")
    /\ grid' = [t \in Tasks |-> IF t \in ToSet(workerTasks[g])
                               THEN [grid[t] EXCEPT !.of = Systems(g), !.nodal = TRUE]
                               ELSE grid[t]]
    /\ Advance(g)
    /\ UNCHANGED <<managerSide, dsg, numDsgs, spaces, extra, commVars>>

\* The sparse grid goes to the manager, and comes back with the remote part.
SendDsg(g) ==
    /\ At(g, "sendDsg")
    /\ wire' = [to |-> "manager", sizes |-> IF extra = None THEN spaces[g] ELSE extra,
                data |-> dsg[g]]
    /\ Advance(g)
    /\ UNCHANGED <<managerSide, gridVars, bcasts, values, tokens>>

RecvDsg(g) ==
    /\ At(g, "recvDsg")
    /\ wire.to = "group"
    /\ dsg' = [dsg EXCEPT ![g] = wire.data]
    /\ wire' = Nothing
    /\ Advance(g)
    /\ UNCHANGED <<managerSide, grid, numDsgs, spaces, extra, bcasts, values, tokens>>

\* The root's part of a broadcast on globalReduceComm.
Broadcast(g, what) ==
    bcasts' = [h \in Groups |-> IF h = g THEN bcasts[h] ELSE Append(bcasts[h], what)]

\* asyncBcastDsgData; more than one sparse grid is refused.
BcastDsg(g) ==
    /\ At(g, "bcastDsg")
    /\ numDsgs[g] = 1
    /\ Broadcast(g, [kind |-> "dsg", sizes |-> spaces[g], data |-> dsg[g]])
    /\ Advance(g)
    /\ UNCHANGED <<managerSide, gridVars, wire, values, tokens>>

\* MPI_Wait of the broadcast; at the root it may return before the others take part.
WaitBcast(g) ==
    /\ At(g, "waitBcast")
    /\ Advance(g)
    /\ UNCHANGED <<managerSide, gridVars, commVars>>

TakeDsg(g) ==
    /\ At(g, "takeDsg")
    /\ bcasts[g] # <<>>
    /\ dsg' = [dsg EXCEPT ![g] = Head(bcasts[g]).data]
    /\ bcasts' = [bcasts EXCEPT ![g] = Tail(@)]
    /\ Advance(g)
    /\ UNCHANGED <<managerSide, grid, numDsgs, spaces, extra, wire, values, tokens>>

\* The third level group's subspace sizes go to the manager and come back.  A
\* second extra sparse grid is refused.
GatherSizes(g) ==
    /\ At(g, "gatherSizes")
    /\ Head(Tail(handler[g])) = "scatterExtra" => extra = None
    /\ wire' = [to |-> "manager", sizes |-> spaces[g], data |-> {}]
    /\ Advance(g)
    /\ UNCHANGED <<managerSide, gridVars, bcasts, values, tokens>>

ScatterSizes(g) ==
    /\ wire.to = "group"
    /\ wire' = Nothing
    /\ \/ At(g, "scatterSizes") /\ spaces' = [spaces EXCEPT ![g] = wire.sizes]
                                /\ UNCHANGED extra
       \/ At(g, "scatterExtra") /\ extra' = wire.sizes /\ UNCHANGED spaces
    /\ Advance(g)
    /\ UNCHANGED <<managerSide, grid, dsg, numDsgs, bcasts, values, tokens>>

BcastSizes(g) ==
    /\ At(g, "bcastSizes")
    /\ Broadcast(g, [kind |-> "sizes", sizes |-> spaces[g], data |-> {}])
    /\ Advance(g)
    /\ UNCHANGED <<managerSide, gridVars, wire, values, tokens>>

TakeSizes(g) ==
    /\ At(g, "takeSizes")
    /\ bcasts[g] # <<>>
    /\ spaces' = [spaces EXCEPT ![g] = Head(bcasts[g]).sizes]
    /\ bcasts' = [bcasts EXCEPT ![g] = Tail(@)]
    /\ Advance(g)
    /\ UNCHANGED <<managerSide, grid, dsg, numDsgs, extra, wire, values, tokens>>

ZeroDsgsData(g) ==
    /\ At(g, "zero")
    /\ dsg' = [dsg EXCEPT ![g] = {}]
    /\ Advance(g)
    /\ UNCHANGED <<managerSide, grid, numDsgs, spaces, extra, commVars>>

\* Mutant: no token after the file.
WriteDsgNoToken(g) ==
    /\ At(g, "write")
    /\ Advance(g)
    /\ UNCHANGED <<managerSide, gridVars, commVars>>

\* combineThirdLevelFileBasedWrite: the file, then its token.
WriteDsg(g) ==
    /\ At(g, "write")
    /\ tokens' = "written"
    /\ Advance(g)
    /\ UNCHANGED <<managerSide, gridVars, bcasts, wire, values>>

\* The remote system's file and its token arrive.
RemoteFileArrives ==
    /\ tokens = "written"
    /\ tokens' = "readable"
    /\ UNCHANGED <<managerSide, workerVars, bcasts, wire, values>>

\* Mutant: the remote data replaces the sparse grid instead of being added.
ReadOverwrite(g) ==
    /\ At(g, "readReduce")
    /\ tokens = "readable"
    /\ dsg' = [dsg EXCEPT ![g] = WithRemote(@) \ @]
    /\ Advance(g)
    /\ UNCHANGED <<managerSide, grid, numDsgs, spaces, extra, commVars>>

\* combineThirdLevelFileBasedReadReduce waits for the token and reads ...
ReadReduce(g) ==
    /\ At(g, "readReduce")
    /\ tokens = "readable"
    /\ dsg' = [dsg EXCEPT ![g] = WithRemote(@)]
    /\ Advance(g)
    /\ UNCHANGED <<managerSide, grid, numDsgs, spaces, extra, commVars>>

\* ... and removes the token when its tasks are updated.
RemoveToken(g) ==
    /\ At(g, "removeToken")
    /\ tokens' = "none"
    /\ Advance(g)
    /\ UNCHANGED <<managerSide, gridVars, bcasts, wire, values>>

\* Mutant: a migrated task is not filled from the combined solution.
GridsAfterNoFill(g, cmd) ==
    CASE cmd.sig = "RUN_FIRST" ->
            [grid EXCEPT ![cmd.task] = [step |-> 1, of |-> {cmd.task}, nodal |-> TRUE]]
      [] cmd.sig = "RUN_NEXT" ->
            [t \in Tasks |-> IF t \in ToSet(workerTasks[g])
                             THEN [grid[t] EXCEPT !.step = @ + 1, !.of = {t}] ELSE grid[t]]
      [] cmd.sig = "RESCHEDULE_ADD_TASK" ->
            [grid EXCEPT ![cmd.task] =
                [step |-> LatestStep(dsg[g]), of |-> {cmd.task}, nodal |-> TRUE]]
      [] OTHER -> grid

\* What a command without communication does to the component grids.
GridsAfter(g, cmd) ==
    CASE cmd.sig = "RUN_FIRST" ->
            [grid EXCEPT ![cmd.task] = [step |-> 1, of |-> {cmd.task}, nodal |-> TRUE]]
      [] cmd.sig = "RUN_NEXT" ->
            [t \in Tasks |-> IF t \in ToSet(workerTasks[g])
                             THEN [grid[t] EXCEPT !.step = @ + 1, !.of = {t}] ELSE grid[t]]
      [] cmd.sig = "RESCHEDULE_ADD_TASK" ->
            [grid EXCEPT ![cmd.task] =
                [step |-> LatestStep(dsg[g]), of |-> Systems(g), nodal |-> TRUE]]
      [] OTHER -> grid

\* The end of the switch statement, after the communications of the command.
Execute(g) ==
    /\ handler[g] = <<>>
    /\ PG!Execute(g)
    /\ grid' = GridsAfter(g, current[g])
    /\ UNCHANGED <<todo, methodVars, handler, dsg, numDsgs, spaces, extra, commVars>>

SendStatus(g) ==
    /\ PG!SendStatus(g)
    /\ UNCHANGED <<todo, methodVars, workerVars, commVars>>

-----------------------------------------------------------------------------
ManagerStep ==
    \/ WaitAllFinished \/ WaitForPG \/ RebuildTasks \/ FetchInstructionStep
    \/ ReduceSizes \/ ExchangeDsgus \/ TakeValues
    \/ \E g \in Groups :
        Runfirst(g) \/ Runnext(g) \/ SendCommand(g) \/ Request(g) \/ TakeReply(g) \/ RescheduleAddTask(g)

CallMethod == CallReschedule \/ \E op \in Operations : Call(op)

HandlerStep(g) ==
    \/ InitDsg(g) \/ ReduceLocal(g) \/ Distribute(g) \/ SendDsg(g) \/ RecvDsg(g)
    \/ BcastDsg(g) \/ WaitBcast(g) \/ TakeDsg(g) \/ GatherSizes(g) \/ ScatterSizes(g)
    \/ BcastSizes(g) \/ TakeSizes(g) \/ ZeroDsgsData(g) \/ WriteDsg(g) \/ ReadReduce(g)
    \/ RemoveToken(g) \/ SendValues(g)

Collective == ReduceSubspaceSizes \/ ReduceGlobal \/ ReduceValues

WorkerStep(g) == ReceiveSignal(g) \/ HandlerStep(g) \/ Execute(g) \/ SendStatus(g)

Next ==
    \/ CallMethod
    \/ ManagerStep
    \/ Collective
    \/ RemoteFileArrives
    \/ \E g \in Groups : WorkerStep(g) \/ DeliverStatus(g)

\* A method that is called is executed, every rank runs, MPI makes progress and
\* the remote system delivers its file.  The application may stop calling.
Fairness ==
    /\ WF_vars(ManagerStep)
    /\ WF_vars(Collective)
    /\ WF_vars(RemoteFileArrives)
    /\ \A g \in Groups : WF_vars(WorkerStep(g)) /\ WF_vars(DeliverStatus(g))

Spec == Init /\ [][Next]_vars /\ Fairness

-----------------------------------------------------------------------------
\* Properties.

\* The methods' assertions hold: a command that "can only" be sent to a waiting
\* group is sent to a waiting group, whatever methods were called before.
\* rescheduleAddTask returns false instead, which reschedule ignores: a task that
\* is added then would be lost.
Checked == {"send", "runNext", "exit", "add"}

AssertionsHold ==
    todo # <<>> /\ Head(todo).do \in Checked => status[Head(todo).group] = "WAIT"

Reads == {"PARALLEL_EVAL", "WRITE_DSGS_TO_DISK", "WRITE_DSG_MINMAX_COEFFICIENTS",
          "RESCHEDULE_ADD_TASK"}

ThirdLevelCommands ==
    {"COMBINE_THIRD_LEVEL", "WAIT_FOR_TL_COMBI_RESULT", "COMBINE_READ_DSGS_AND_REDUCE",
     "COMBINE_THIRD_LEVEL_FILE"}

\* The sparse grid a group distributes to its tasks, evaluates or fills a new
\* task from is the sum of every task of the scheme once, all after the same
\* number of time steps, and of the remote system in a third level combination.
CombinedComplete ==
    \A g \in Groups :
        At(g, "distribute") \/ (phase[g] = "running" /\ current[g].sig \in Reads) =>
            \E s \in {c[2] : c \in dsg[g]} :
                /\ dsg[g] \ {<<Remote, s>>} = {<<t, s>> : t \in Tasks}
                /\ current[g].sig \in ThirdLevelCommands => <<Remote, s>> \in dsg[g]

NodalUsers == PG!NormSignals \cup
    {"RUN_NEXT", "INTERPOLATE_VALUES", "INTERPOLATE_VALUES_AND_SEND_BACK",
     "INTERPOLATE_VALUES_AND_WRITE_SINGLE_FILE", "WRITE_INTERPOLATED_VALUES_PER_GRID"}

\* A group solves, interpolates, takes norms of and hierarchizes grids of nodal
\* values only, and dehierarchizes hierarchical coefficients only: over all the
\* methods, the two transformations alternate for every task.
NodalWhenUsed ==
    \A g \in Groups : \A t \in ToSet(workerTasks[g]) :
        /\ phase[g] = "running" /\ current[g].sig \in NodalUsers => grid[t].nodal
        /\ At(g, "reduceLocal") => grid[t].nodal
        /\ At(g, "distribute") => ~grid[t].nodal

\* The collective of globalReduceComm a step calls.
CollectiveOf(step) ==
    CASE step \in {"reduceSizes", "reduceGlobal", "reduceValues"} -> step
      [] step \in {"bcastDsg", "takeDsg"} -> "dsg"
      [] step \in {"bcastSizes", "takeSizes"} -> "sizes"
      [] OTHER -> "none"

\* The one a group is about to call, or blocks in.
NextCollective(g) == IF handler[g] = <<>> THEN "none" ELSE CollectiveOf(Head(handler[g]))

\* The groups call the collectives of globalReduceComm in the same order: a group
\* with broadcasts to take calls the first of them next, if any, and groups
\* without meet in the same collective.
CollectivesMatch ==
    /\ \A g \in Groups : NextCollective(g) # "none" /\ bcasts[g] # <<>>
            => Head(bcasts[g]).kind = NextCollective(g)
    /\ \A g, h \in {k \in Groups : NextCollective(k) # "none" /\ bcasts[k] = <<>>} :
            NextCollective(g) = NextCollective(h)

\* The groups reduce and broadcast sparse grids of the same size, and the manager
\* receives as much sparse grid data as the third level group sends.
SizesMatch ==
    /\ \A g, h \in Groups : At(g, "reduceGlobal") /\ At(h, "reduceGlobal")
            => spaces[g] = spaces[h]
    /\ \A g \in Groups : At(g, "takeDsg") /\ bcasts[g] # <<>>
            => Head(bcasts[g]).sizes = spaces[g]
    /\ Head(todo \o WaitAll).do = "exchangeDsgus" /\ wire.to = "manager"
            => wire.sizes = managerSizes

\* Between the methods all tasks are after the same number of time steps, and
\* after a combination every task, migrated or not, has the same full solution.
TasksInStep ==
    todo = <<>> /\ stage # "start" =>
        \A t, u \in Tasks :
            /\ grid[t].step = grid[u].step
            /\ stage = "combined" /\ (\A g \in Groups : PG!Quiet(g))
                => grid[t] = grid[u] /\ Tasks \subseteq grid[t].of

\* No task is lost or doubled: between the methods the groups hold the tasks of
\* tasks_, each once.
TasksConserved ==
    todo = <<>> /\ stage # "start" =>
        /\ IsInjective(FlattenSeq([g \in Groups |-> managerTasks[g]]))
        /\ ToSet(taskList) = Tasks /\ Len(taskList) = Cardinality(Tasks)
        /\ UNION {ToSet(managerTasks[g]) : g \in Groups} = Tasks

\* A method that is called returns: the manager does not wait for ever for a
\* group, nor do the groups for each other or for the manager.
MethodReturns == todo # <<>> ~> todo = <<>>

\* The machine implements the command protocol, its fairness included: a group
\* always finishes the command it executes, so no collective blocks for ever.
ImplementsProtocol == PG!Spec
=============================================================================
