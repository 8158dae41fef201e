-------------------------- MODULE SparseGridReduce --------------------------
(***************************************************************************)
(* The combination on the sparse grids, as the workers carry it out: the   *)
(* sizes and communicators of the subspaces, the chunked reductions of the *)
(* four CombinationVariants, the broadcasts of the result and its exchange *)
(* through files.  Modelled are the processes that own the same part of    *)
(* the domain, one of every process group: they share a global reduce      *)
(* communicator.  The programs are those of the examples without manager.  *)
(*                                                                         *)
(* A grid value is the bag of what was added up in it: the tasks (with the *)
(* number of the run that made the value) and the remote system.  Kahan's  *)
(* residuals, level vectors and the hierarchization are left out.          *)
(***************************************************************************)
EXTENDS Integers, Sequences, FiniteSets, SequencesExt, Functions, BagsExt, TLC

CONSTANTS Setups, None

VARIABLES
    in,         \* the parameters, tasks and program of the run
    todo,       \* per process and thread: the operations to come; thread 0 is the main one
    loop,       \* per process: the OpenMP loop over communicators: the next index, or 0
    chunks,     \* per process: subspaceIndicesChunks, one per instantiation of getChunkedSubspaces
    dsg,        \* per process: combinedUniDSGVector_[0]
    extra,      \* extraUniDSGVector_[0] of the output group, or None
    grid,       \* per task: the hierarchical coefficients of its full grid
    runs,       \* per process: how often its tasks have run
    bcasts,     \* non-blocking broadcasts under way
    file,       \* the sparse grid file and its token
    failed      \* an assertion failed or an exception was thrown

vars == <<in, todo, loop, chunks, dsg, extra, grid, runs, bcasts, file, failed>>

Groups == 0..(in.groups - 1)            \* ranks in the global reduce communicator
Output == in.output                     \* getOutputRankInGlobalReduceComm
Subspaces == 1..Len(in.sizes)
Tasks == DOMAIN in.holder
TasksOf(g) == {t \in Tasks : in.holder[t] = g}
Threads == 0..in.threads
Chunked == in.variant = "chunkedOutgroupSparseGridReduce"
NoData == [p \in {} |-> EmptyBag]

-----------------------------------------------------------------------------
(* DistributedSparseGridUniform *)

Points(size, S) == UNION {{s} \X (1..size[s]) : s \in S}

\* The points of the subspaces S in the order of the raw data.
RawOrder(size, S) ==
    FlattenSeq([s \in 1..Len(in.sizes) |->
        IF s \in S THEN [k \in 1..size[s] |-> <<s, k>>] ELSE <<>>])

isSubspaceDataCreated(d) == d.data # NoData
getRawDataSize(d) == Cardinality(DOMAIN d.data)

createSubspaceData(d) ==
    LET allocated == IF d.alloc = {} THEN Subspaces ELSE d.alloc
    IN  [d EXCEPT !.alloc = allocated,
                  !.data = [p \in Points(d.size, allocated) |-> EmptyBag]]

deleteSubspaceData(d) == [d EXCEPT !.data = NoData]
\* Mutant: the data of the last combination stays.
setZeroSkips(d) == d
setZero(d) == [d EXCEPT !.data = [p \in DOMAIN @ |-> EmptyBag]]
allocateDifferentSubspaces(d, S) == createSubspaceData([d EXCEPT !.alloc = S])

SumOf(f, S) == FoldFunctionOnSet(LAMBDA a, b : a (+) b, EmptyBag, f, S)

\* addDistributedFullGrid of every task of g.
AddFullGrids(d, g) ==
    [d EXCEPT !.data = [p \in DOMAIN @ |->
        @[p] (+) SumOf([t \in Tasks |-> grid[t][p]],
                       {t \in TasksOf(g) : p[1] \in in.levels[t]})]]

\* With sparseGridFullyAllocated, a subspace without memory would be written over the next.
FullyAllocated(d, g) == \A t \in TasksOf(g) : \A s \in in.levels[t] : d.size[s] > 0 => s \in d.alloc

\* DistributedFullGrid::extractFromUniformSG for the tasks of g.
ExtractTo(g, d) ==
    [t \in Tasks |-> IF t \in TasksOf(g)
                     THEN [p \in DOMAIN grid[t] |-> IF p \in DOMAIN d.data THEN d.data[p] ELSE grid[t][p]]
                     ELSE grid[t]]

copyDataFrom(d, other, S) ==
    [d EXCEPT !.data = [p \in DOMAIN @ |->
        IF p[1] \in S /\ p \in DOMAIN other.data THEN other.data[p] ELSE @[p]]]

getIngroupSubspaces(d) ==
    {s \in Subspaces : d.size[s] > 0 /\ \A i \in DOMAIN d.comms : s \notin Range(d.comms[i].subs)}

-----------------------------------------------------------------------------
(* CombiCom *)

getChunkedSubspaces(size, list) ==
    FoldLeft(LAMBDA acc, s :
        IF acc # <<>> /\ size[s] # 0 /\ Cardinality(Points(size, Last(acc) \cup {s})) < in.chunk
        THEN Front(acc) \o <<Last(acc) \cup {s}>>
        ELSE acc \o <<{s}>>, <<>>, list)

Ascending(S) == SelectSeq([i \in 1..Len(in.sizes) |-> i], LAMBDA i : i \in S)

\* One reduction for every datatype of getReductionDatatypes.
Reductions(comm, d, chunkList, collector) ==
    [i \in 1..Len(chunkList) |->
        [op |-> "Reduce", comm |-> comm, pts |-> RawOrder(d.size, chunkList[i]), root |-> collector]]

\* The loop of distributedGlobalSparseGridReduce; the last message may be empty.
RawReductions(d, collector) ==
    LET raw == RawOrder(d.size, d.alloc)
        full == Len(raw) \div in.chunk
    IN  [i \in 1..(full + 1) |->
            [op |-> "Reduce", comm |-> Groups, root |-> collector,
             pts |-> SubSeq(raw, (i - 1) * in.chunk + 1, IF i <= full THEN i * in.chunk ELSE Len(raw))]]

-----------------------------------------------------------------------------
(* The worker's functions, as the operations process g carries out in order. *)

Op(name) == [op |-> name]
ExtraSparseGrid(init) == [op |-> "SetExtraSparseGrid", init |-> init]

reduceSubspaceSizesBetweenGroups(variant) ==
    << Op(CASE variant = "sparseGridReduce" -> "ReduceSubspaceSizes"
            [] variant = "subspaceReduce" -> "SetSubspaceCommunicators"
            [] OTHER -> "SetOutgroupCommunicator") >>

initCombinedDSGVector(variant) == <<Op("Register")>> \o reduceSubspaceSizesBetweenGroups(variant)

reduceLocalAndGlobal(collector) ==
    <<Op("ZeroDsgsData"), Op("ReduceLocal"), [op |-> "ReduceGlobal", root |-> collector], Op("CheckSizes")>>

combineAtOnce(variant) ==
    (IF variant = "chunkedOutgroupSparseGridReduce"
     THEN <<[op |-> "CollectReduceDistribute", keep |-> FALSE]>>
     ELSE reduceLocalAndGlobal(None) \o <<Op("Distribute")>>)
    \o <<Op("Dehierarchize")>>

combineSystemWideAndWrite(g, out, variant) ==
    (IF variant = "chunkedOutgroupSparseGridReduce"
     THEN <<[op |-> "CollectReduceDistribute", keep |-> g = out]>>
     ELSE reduceLocalAndGlobal(out))
    \o (IF g = out THEN <<Op("WriteDSGs")>> ELSE <<>>)

combineReadDistributeSystemWide(g, out, variant) ==
    LET only(ops) == IF g = out THEN ops ELSE <<>>
        distribute == IF variant = "chunkedOutgroupSparseGridReduce"
                      THEN <<Op("DistributeChunkedBroadcasts")>>
                      ELSE <<Op("StartBcast"), Op("Distribute")>>
    IN  only(<<Op("ReadReduce")>>) \o distribute \o <<Op("Dehierarchize")>>
            \o only(<<Op("RemoveToken"), Op("WaitBcast")>>)

reduceExtraSubspaceSizes(g, out, variant, overwrite) ==
    (IF overwrite THEN <<>> ELSE <<Op("MaxReduceSubspaceSizesInOutputGroup")>>)
    \o (IF g = out THEN <<ExtraSparseGrid(TRUE), [op |-> "ReadSubspaceSizes", overwrite |-> overwrite]>>
        ELSE <<>>)
    \o reduceSubspaceSizesBetweenGroups(variant) \o <<Op("ZeroDsgsData")>>

reduceExtraSubspaceSizesFileBased(g, out, variant) ==
    (IF g = out THEN <<ExtraSparseGrid(TRUE)>> ELSE <<>>)
    \o <<Op("MaxReduceSubspaceSizesInOutputGroup")>>
    \o reduceExtraSubspaceSizes(g, out, variant, FALSE)
    \o reduceSubspaceSizesBetweenGroups(variant) \o <<Op("ZeroDsgsData")>>

Body(call, g, out, variant) ==
    CASE call = "initCombinedDSGVector" -> initCombinedDSGVector(variant)
      [] call = "combineAtOnce" -> combineAtOnce(variant)
      [] call = "combineSystemWideAndWrite" -> combineSystemWideAndWrite(g, out, variant)
      [] call = "combineReadDistributeSystemWide" -> combineReadDistributeSystemWide(g, out, variant)
      [] call = "readExtraSubspaceSizes" -> reduceExtraSubspaceSizes(g, out, variant, TRUE)
      [] call = "reduceExtraSubspaceSizesFileBased" -> reduceExtraSubspaceSizesFileBased(g, out, variant)
      [] OTHER -> <<Op(call)>>         \* zeroDsgsData, runAllTasks and MPI_Barrier

Init ==
    \E s \in Setups :
    /\ in = s
    /\ LET groups == 0..(s.groups - 1)
           all == 1..Len(s.sizes)
           points == [t \in DOMAIN s.holder |-> UNION {{i} \X (1..s.sizes[i]) : i \in s.levels[t]}]
       IN  /\ todo = [g \in groups |-> [th \in 0..s.threads |->
                        IF th = 0
                        THEN FlattenSeq([i \in DOMAIN s.program |-> Body(s.program[i], g, s.output, s.variant)])
                        ELSE <<>>]]
           /\ loop = [g \in groups |-> [next |-> 0, root |-> None, allocated |-> FALSE]]
           /\ chunks = [g \in groups |-> [container \in {"vector", "set"} |-> <<>>]]
           /\ dsg = [g \in groups |-> [size |-> [i \in all |-> 0], comms |-> <<>>, alloc |-> {}, data |-> NoData]]
           /\ grid = [t \in DOMAIN s.holder |-> [p \in points[t] |-> EmptyBag]]
           /\ runs = [g \in groups |-> 0]
    /\ extra = None /\ bcasts = <<>> /\ file = [data |-> NoData, token |-> FALSE] /\ failed = FALSE

-----------------------------------------------------------------------------
Head0(g, th) == IF todo[g][th] = <<>> THEN Op("idle") ELSE Head(todo[g][th])
At(g, name) == Head0(g, 0).op = name
This(g) == Head(todo[g][0])

\* Process g has done its operation, and does ops before the rest of its program.
Then(g, ops) == todo' = [todo EXCEPT ![g][0] = ops \o Tail(@)]
AllThen(G) == todo' = [g \in Groups |-> IF g \in G THEN [todo[g] EXCEPT ![0] = Tail(@)] ELSE todo[g]]
Assert_(condition) == failed' = (failed \/ ~condition)
SetDsg(g, d) == dsg' = [dsg EXCEPT ![g] = d]

(* Operations of one process. *)

\* initCombinedUniDSGVector: the sizes of the subspaces the group's grids have.
Register(g) ==
    /\ At(g, "Register") /\ Then(g, <<>>)
    /\ SetDsg(g, [dsg[g] EXCEPT
          !.size = [s \in Subspaces |-> IF \E t \in TasksOf(g) : s \in in.levels[t] THEN in.sizes[s] ELSE 0],
          !.alloc = IF Chunked THEN {} ELSE Subspaces])      \* createKahanBuffer
    /\ UNCHANGED <<in, loop, chunks, extra, grid, runs, bcasts, file, failed>>

ZeroDsgsData(g) ==
    /\ At(g, "ZeroDsgsData") /\ Then(g, <<>>)
    /\ LET create == ~Chunked /\ ~isSubspaceDataCreated(dsg[g])
           d == IF create THEN createSubspaceData(dsg[g]) ELSE dsg[g]
           withExtra == g = Output /\ extra # None
           e == IF ~withExtra THEN extra
                ELSE IF isSubspaceDataCreated(extra) THEN extra ELSE createSubspaceData(extra)
       IN  /\ SetDsg(g, setZero(d))
           /\ extra' = IF withExtra THEN setZero(e) ELSE extra
           /\ Assert_((create => isSubspaceDataCreated(d)) /\ (withExtra => isSubspaceDataCreated(e)))
    /\ UNCHANGED <<in, loop, chunks, grid, runs, bcasts, file>>

\* The tasks of g compute new values on all their points.
RunAllTasks(g) ==
    /\ At(g, "RunAllTasks") /\ Then(g, <<>>)
    /\ runs' = [runs EXCEPT ![g] = @ + 1]
    /\ grid' = [t \in Tasks |-> IF t \in TasksOf(g)
                                THEN [p \in DOMAIN grid[t] |-> SetToBag({<<t, runs'[g]>>})] ELSE grid[t]]
    /\ UNCHANGED <<in, loop, chunks, dsg, extra, bcasts, file, failed>>

ReduceLocal(g) ==
    /\ At(g, "ReduceLocal") /\ Then(g, <<>>)
    /\ SetDsg(g, AddFullGrids(dsg[g], g))
    /\ Assert_(isSubspaceDataCreated(dsg[g]) /\ FullyAllocated(dsg[g], g))
    /\ UNCHANGED <<in, loop, chunks, extra, grid, runs, bcasts, file>>

CheckSizes(g) ==
    /\ At(g, "CheckSizes") /\ Then(g, <<>>)
    /\ Assert_(getRawDataSize(dsg[g]) = Cardinality(Points(dsg[g].size, Subspaces)))
    /\ UNCHANGED <<in, loop, chunks, dsg, extra, grid, runs, bcasts, file>>

Distribute(g) ==
    /\ At(g, "Distribute") /\ Then(g, <<>>)
    /\ grid' = ExtractTo(g, dsg[g])
    /\ Assert_(isSubspaceDataCreated(dsg[g]) /\ FullyAllocated(dsg[g], g))
    /\ UNCHANGED <<in, loop, chunks, dsg, extra, runs, bcasts, file>>

\* The combination ends; what the grids hold now is their next initial value.
Dehierarchize(g) ==
    /\ At(g, "Dehierarchize") /\ Then(g, <<>>)
    /\ UNCHANGED <<in, loop, chunks, dsg, extra, grid, runs, bcasts, file, failed>>

ReduceGlobal(g) ==
    /\ At(g, "ReduceGlobal")
    /\ Assert_(isSubspaceDataCreated(dsg[g]))
    /\ Then(g, IF in.variant = "sparseGridReduce" THEN RawReductions(dsg[g], This(g).root)
               ELSE <<Op("ForComms")>>)
    /\ loop' = [loop EXCEPT ![g] = [next |-> 1, root |-> This(g).root, allocated |-> FALSE]]
    /\ UNCHANGED <<in, chunks, dsg, extra, grid, runs, bcasts, file>>

-----------------------------------------------------------------------------
(* distributedGlobalSubspaceReduce: the threads take the communicators in order, *)
(* each reduces the subspaces of its communicator chunk by chunk.                *)

\* The chunks of the next communicator; only the main thread's buffers outlive the call.
TakeCommunicator(g, th) ==
    LET i == loop[g].next
        d == dsg[g]
        comm == d.comms[i]
        container == IF loop[g].allocated THEN "set" ELSE "vector"
        list == getChunkedSubspaces(d.size, IF loop[g].allocated THEN Ascending(d.alloc) ELSE comm.subs)
    IN  /\ i \in DOMAIN d.comms
        /\ IF th = 0 THEN At(g, "ForComms") ELSE todo[g][th] = <<>> /\ Len(d.comms) > 1
        /\ loop' = [loop EXCEPT ![g].next = i + 1]
        /\ todo' = [todo EXCEPT ![g][th] = Reductions(comm.ranks, d, list, loop[g].root) \o @]
        /\ chunks' = IF th = 0 THEN [chunks EXCEPT ![g][container] = list] ELSE chunks
        /\ Assert_(/\ list # <<>>
                   /\ loop[g].allocated => Len(list) = 1
                   /\ loop[g].root # None => Len(d.comms) = 1)
        /\ UNCHANGED <<in, dsg, extra, grid, runs, bcasts, file>>

EndForComms(g) ==
    /\ At(g, "ForComms") /\ loop[g].next > Len(dsg[g].comms)
    /\ \A th \in Threads \ {0} : todo[g][th] = <<>>
    /\ Then(g, <<>>)
    /\ loop' = [loop EXCEPT ![g].next = 0]
    /\ UNCHANGED <<in, chunks, dsg, extra, grid, runs, bcasts, file, failed>>

\* The threads that are in a reduction on comm.
Reducing(comm) ==
    {<<g, th>> \in Groups \X Threads : Head0(g, th).op = "Reduce" /\ Head(todo[g][th]).comm = comm}

\* MPI_Allreduce or MPI_Reduce once every process of the communicator has called it.
Reduce(comm) ==
    LET callers == Reducing(comm)
        first == Head(todo[(CHOOSE c \in callers : TRUE)[1]][(CHOOSE c \in callers : TRUE)[2]])
        pts == Range(first.pts)
        receivers == IF first.root = None THEN comm ELSE {first.root}
    IN  /\ comm \subseteq {c[1] : c \in callers}
        /\ \A c \in callers : Head(todo[c[1]][c[2]]) = first
        /\ todo' = [g \in Groups |-> [th \in Threads |->
                IF <<g, th>> \in callers THEN Tail(todo[g][th]) ELSE todo[g][th]]]
        /\ dsg' = [g \in Groups |->
                IF g \in receivers
                THEN [dsg[g] EXCEPT !.data = [p \in DOMAIN @ |->
                        IF p \in pts THEN SumOf([h \in Groups |-> dsg[h].data[p]], comm) ELSE @[p]]]
                ELSE dsg[g]]
        /\ UNCHANGED <<in, loop, chunks, extra, grid, runs, bcasts, file, failed>>

-----------------------------------------------------------------------------
(* collectReduceDistribute and distributeChunkedBroadcasts: chunk by chunk through *)
(* a sparse grid that holds no more than one chunk at a time.                      *)

GetChunks(container, list, body) ==
    [op |-> "GetChunks", container |-> container, list |-> list, body |-> body]

CollectReduceDistribute(g) ==
    LET body(kind) == [kind |-> kind, keep |-> This(g).keep]
    IN  /\ At(g, "CollectReduceDistribute")
        /\ Assert_(Chunked /\ Len(dsg[g].comms) < 2)
        /\ Then(g, (IF dsg[g].comms = <<>> THEN <<>>
                    ELSE <<GetChunks("vector", dsg[g].comms[1].subs, body("outgroup"))>>)
                   \o <<GetChunks("set", Ascending(getIngroupSubspaces(dsg[g])), body("ingroup")),
                        Op("DeleteSubspaceData")>>)
        /\ UNCHANGED <<in, loop, chunks, dsg, extra, grid, runs, bcasts, file>>

\* The output group tells the others which subspaces it broadcasts.
DistributeChunkedBroadcasts ==
    LET conjoint == {s \in Subspaces : extra.size[s] > 0}
        own == dsg[Output]
        list == IF own.comms = <<>> THEN <<>> ELSE SelectSeq(own.comms[1].subs, LAMBDA s : s \in conjoint)
        body(kind) == [kind |-> kind, keep |-> FALSE]
    IN  /\ \A g \in Groups : At(g, "DistributeChunkedBroadcasts")
        /\ Assert_(\A g \in Groups : \A i \in DOMAIN list : dsg[g].size[list[i]] > 0)
        /\ todo' = [g \in Groups |-> [todo[g] EXCEPT ![0] =
                <<GetChunks("vector", list, body("broadcast"))>>
                \o (IF g = Output
                    THEN <<GetChunks("vector", Ascending(conjoint \cap getIngroupSubspaces(own)), body("fill"))>>
                    ELSE <<>>) \o Tail(@)]]
        /\ UNCHANGED <<in, loop, chunks, dsg, extra, grid, runs, bcasts, file>>

GetChunkList(g) ==
    /\ At(g, "GetChunks")
    /\ LET list == getChunkedSubspaces(dsg[g].size, This(g).list)
       IN  /\ chunks' = [chunks EXCEPT ![g][This(g).container] = list]
           /\ Then(g, <<[op |-> "NextChunk", i |-> 1, end |-> Len(list),
                         container |-> This(g).container, body |-> This(g).body]>>)
    /\ UNCHANGED <<in, loop, dsg, extra, grid, runs, bcasts, file, failed>>

OfChunk(g, body) ==
    LET distribute == [op |-> "DistributeChunk", keep |-> body.keep]
    IN  CASE body.kind = "outgroup" -> <<Op("ForComms"), distribute>>
          [] body.kind = "ingroup" -> <<distribute>>
          [] body.kind = "broadcast" -> IF g = Output THEN <<Op("StartBcast"), distribute, Op("WaitBcast")>>
                                        ELSE <<Op("StartBcast"), distribute>>
          [] body.kind = "fill" -> <<distribute>>

\* copyFromExtraDsgToPartialDSG and, the other way, copyFromPartialDsgToExtraDSG.
InExtra(d) == {s \in d.alloc : extra.size[s] > 0}
SizesFit(d, S) == \A s \in S : s \in extra.alloc /\ extra.size[s] = d.size[s]

\* The next round of a loop over chunks: memory for the chunk, and its first values, which
\* are added up from the grids of the group or copied from the extra sparse grid.
NextChunk(g) ==
    LET this == This(g)
        kind == this.body.kind
        new == allocateDifferentSubspaces(dsg[g], chunks[g][this.container][this.i])
    IN  /\ At(g, "NextChunk")
        /\ IF this.i > this.end
           THEN Then(g, <<>>) /\ UNCHANGED <<dsg, loop, failed>>
           ELSE /\ Then(g, OfChunk(g, this.body) \o <<[this EXCEPT !.i = @ + 1]>>)
                /\ loop' = IF kind = "outgroup"
                           THEN [loop EXCEPT ![g] = [next |-> 1, root |-> None, allocated |-> TRUE]] ELSE loop
                /\ SetDsg(g, IF kind \in {"outgroup", "ingroup"} THEN AddFullGrids(new, g)
                             ELSE IF g = Output THEN copyDataFrom(new, extra, InExtra(new)) ELSE new)
                /\ Assert_(/\ isSubspaceDataCreated(new)
                           /\ kind = "outgroup" => getRawDataSize(new) <= in.chunk
                           /\ g = Output /\ kind \in {"broadcast", "fill"} => SizesFit(new, InExtra(new)))
        /\ UNCHANGED <<in, chunks, extra, grid, runs, bcasts, file>>

DistributeChunk(g) ==
    /\ At(g, "DistributeChunk") /\ Then(g, <<>>)
    /\ grid' = ExtractTo(g, dsg[g])
    /\ extra' = IF This(g).keep THEN copyDataFrom(extra, dsg[g], InExtra(dsg[g])) ELSE extra
    /\ Assert_(This(g).keep => isSubspaceDataCreated(extra) /\ SizesFit(dsg[g], InExtra(dsg[g])))
    /\ UNCHANGED <<in, loop, chunks, dsg, runs, bcasts, file>>

DeleteSubspaceData(g) ==
    /\ At(g, "DeleteSubspaceData") /\ Then(g, <<>>)
    /\ SetDsg(g, deleteSubspaceData(dsg[g]))
    /\ UNCHANGED <<in, loop, chunks, extra, grid, runs, bcasts, file, failed>>

-----------------------------------------------------------------------------
(* asyncBcastDsgData and asyncBcastOutgroupDsgData: MPI reads the sender's buffer at *)
(* some time before the sender's wait ends.                                          *)

BroadcastPoints(d) ==
    CASE Chunked -> RawOrder(d.size, d.alloc)
      [] in.variant = "sparseGridReduce" -> RawOrder(d.size, d.alloc)
      [] OTHER -> RawOrder(d.size, Range(d.comms[1].subs))

StartBcast(g) ==
    /\ g = Output /\ At(g, "StartBcast") /\ Then(g, <<>>)
    /\ bcasts' = Append(bcasts, [pts |-> BroadcastPoints(dsg[g]), data |-> None, got |-> {g}])
    /\ Assert_(isSubspaceDataCreated(dsg[g]))
    /\ UNCHANGED <<in, loop, chunks, dsg, extra, grid, runs, file>>

\* The broadcast process g is to receive next, or 0.
NextBcast(g) ==
    LET open == {i \in DOMAIN bcasts : g \notin bcasts[i].got}
    IN  IF open = {} THEN 0 ELSE CHOOSE i \in open : \A j \in open : i <= j

Received(b, p) ==
    IF b.data # None THEN b.data[p]
    ELSE IF p \in DOMAIN dsg[Output].data THEN dsg[Output].data[p] ELSE SetToBag({<<"garbage", 0>>})

\* The others receive and wait at once.
ReceiveBcast(g) ==
    LET i == NextBcast(g) IN
    /\ g # Output /\ At(g, "StartBcast") /\ Then(g, <<>>)
    /\ i # 0 /\ bcasts[i].pts = BroadcastPoints(dsg[g])
    /\ SetDsg(g, [dsg[g] EXCEPT !.data = [p \in DOMAIN @ |->
            IF p \in Range(bcasts[i].pts) THEN Received(bcasts[i], p) ELSE @[p]]])
    /\ LET got == bcasts[i].got \cup {g}
       IN  bcasts' = IF got = Groups THEN RemoveAt(bcasts, i) ELSE [bcasts EXCEPT ![i].got = got]
    /\ Assert_(isSubspaceDataCreated(dsg[g]))
    /\ UNCHANGED <<in, loop, chunks, extra, grid, runs, file>>

\* The sender's buffer may be used again: what was not received yet is buffered by MPI.
WaitBcast(g) ==
    /\ At(g, "WaitBcast") /\ Then(g, <<>>)
    /\ bcasts' = [i \in DOMAIN bcasts |->
            IF bcasts[i].data # None THEN bcasts[i]
            ELSE [bcasts[i] EXCEPT !.data = [p \in Range(bcasts[i].pts) |-> Received(bcasts[i], p)]]]
    /\ UNCHANGED <<in, loop, chunks, dsg, extra, grid, runs, file, failed>>

-----------------------------------------------------------------------------
(* The sizes of the subspaces and who shares them: operations of all processes. *)

All(name) == (\A g \in Groups : At(g, name)) /\ AllThen(Groups)
MaxOver(G, s) == CHOOSE n \in {dsg[g].size[s] : g \in G} : \A g \in G : dsg[g].size[s] <= n

\* Mutant: the sizes of the own grids stay.
ReduceSubspaceSizesLocal ==
    /\ All("ReduceSubspaceSizes")
    /\ dsg' = [g \in Groups |-> deleteSubspaceData(dsg[g])]
    /\ UNCHANGED <<in, loop, chunks, extra, grid, runs, bcasts, file, failed>>

ReduceSubspaceSizes ==
    /\ All("ReduceSubspaceSizes")
    /\ dsg' = [g \in Groups |->
            deleteSubspaceData([dsg[g] EXCEPT !.size = [s \in Subspaces |-> MaxOver(Groups, s)]])]
    /\ UNCHANGED <<in, loop, chunks, extra, grid, runs, bcasts, file, failed>>

\* getSubspaceVote: the bits set in the vote for a subspace.
Vote(s) == {g \in Groups : dsg[g].size[s] > 0}

\* The order of std::map on the votes: the highest bit in which they differ decides.
VoteLess(a, b) == LET d == (a \ b) \cup (b \ a)
                  IN  a # b /\ (CHOOSE r \in d : \A q \in d : q <= r) \in b

\* Mutant: the votes are enumerated in no fixed order, as with an unordered_map.
SetSubspaceCommunicatorsUnordered ==
    LET votes == {v \in {Vote(s) : s \in Subspaces} : Cardinality(v) > 1}
    IN  /\ All("SetSubspaceCommunicators")
        /\ dsg' = [g \in Groups |-> deleteSubspaceData([dsg[g] EXCEPT !.comms =
                LET mine == SetToSortSeq({v \in votes : g \in v},
                                         LAMBDA a, b : IF g = 0 THEN VoteLess(a, b) ELSE VoteLess(b, a))
                IN  [i \in DOMAIN mine |->
                        [ranks |-> mine[i], subs |-> Ascending({s \in Subspaces : Vote(s) = mine[i]})]]])]
        /\ UNCHANGED <<in, loop, chunks, extra, grid, runs, bcasts, file, failed>>

SetSubspaceCommunicators ==
    LET votes == {v \in {Vote(s) : s \in Subspaces} : Cardinality(v) > 1}
    IN  /\ All("SetSubspaceCommunicators")
        /\ dsg' = [g \in Groups |-> deleteSubspaceData([dsg[g] EXCEPT !.comms =
                LET mine == SetToSortSeq({v \in votes : g \in v}, VoteLess)
                IN  [i \in DOMAIN mine |->
                        [ranks |-> mine[i], subs |-> Ascending({s \in Subspaces : Vote(s) = mine[i]})]]])]
        /\ UNCHANGED <<in, loop, chunks, extra, grid, runs, bcasts, file, failed>>

SetOutgroupCommunicator ==
    LET many == {s \in Subspaces : Cardinality(Vote(s)) > 1}
        ranks == UNION {Vote(s) : s \in many}
    IN  /\ All("SetOutgroupCommunicator")
        /\ dsg' = [g \in Groups |-> deleteSubspaceData(
                [dsg[g] EXCEPT !.size = [s \in Subspaces |-> IF s \in many THEN MaxOver(Groups, s) ELSE @[s]],
                               !.comms = IF g \in ranks
                                         THEN <<[ranks |-> Groups, subs |-> Ascending(many)]>> ELSE <<>>])]
        /\ Assert_(ranks = Groups \/ many = {})
        /\ UNCHANGED <<in, loop, chunks, extra, grid, runs, bcasts, file>>

\* maxReduceSubspaceSizesAcrossGroups towards the output group's extra sparse grid, if there is one.
MaxReduceSubspaceSizesInOutputGroup ==
    LET others == Groups \ {Output}
        enlarged(d) == deleteSubspaceData([d EXCEPT !.size = [s \in Subspaces |->
                           IF \E g \in others : dsg[g].size[s] > @[s] THEN MaxOver(others, s) ELSE @[s]]])
    IN  /\ All("MaxReduceSubspaceSizesInOutputGroup")
        /\ extra' = IF extra = None THEN None ELSE enlarged(extra)
        /\ dsg' = [g \in Groups |->
                IF g # Output THEN deleteSubspaceData(dsg[g])
                ELSE IF extra = None THEN enlarged(dsg[g]) ELSE dsg[g]]
        /\ UNCHANGED <<in, loop, chunks, grid, runs, bcasts, file, failed>>

SetExtraSparseGrid(g) ==
    /\ At(g, "SetExtraSparseGrid") /\ Then(g, <<>>)
    /\ extra' = IF extra # None THEN extra
                ELSE [size |-> dsg[g].size, comms |-> <<>>, alloc |-> Subspaces, data |-> NoData]
    /\ UNCHANGED <<in, loop, chunks, dsg, grid, runs, bcasts, file, failed>>

\* The file holds the sizes of the conjoint subspaces, those the two systems share.
ConjointSize(s) == IF s \in in.conjoint THEN in.sizes[s] ELSE 0

\* readSubspaceSizesFromFile or readReduceSubspaceSizesFromFile with the minimum; then the
\* combined sparse grid is enlarged: maxReduceSubspaceSizes.
ReadSubspaceSizes(g) ==
    LET read == [s \in Subspaces |->
                    IF This(g).overwrite \/ ConjointSize(s) < extra.size[s] THEN ConjointSize(s)
                    ELSE extra.size[s]]
        size == dsg[g].size
    IN  /\ At(g, "ReadSubspaceSizes") /\ Then(g, <<>>)
        /\ extra' = [extra EXCEPT !.size = read]
        /\ SetDsg(g, deleteSubspaceData([dsg[g] EXCEPT
                !.size = [s \in Subspaces |-> IF read[s] > size[s] THEN read[s] ELSE size[s]]]))
        /\ Assert_(\A s \in Subspaces : read[s] = size[s] \/ size[s] = 0 \/ read[s] = 0)
        /\ UNCHANGED <<in, loop, chunks, grid, runs, bcasts, file>>

Barrier ==
    /\ All("Barrier")
    /\ UNCHANGED <<in, loop, chunks, dsg, extra, grid, runs, bcasts, file, failed>>

-----------------------------------------------------------------------------
(* Files *)

\* The combined sparse grid, or the extra one filled from it, and the token after it.
WriteDSGs(g) ==
    LET e == IF extra # None /\ ~Chunked THEN copyDataFrom(extra, dsg[g], Subspaces) ELSE extra
        written == IF extra = None THEN dsg[g] ELSE e
    IN  /\ At(g, "WriteDSGs") /\ Then(g, <<>>)
        /\ extra' = e
        /\ file' = IF in.remote THEN file ELSE [data |-> written.data, token |-> TRUE]
        /\ Assert_(isSubspaceDataCreated(written) /\ (~Chunked => isSubspaceDataCreated(dsg[g])))
        /\ UNCHANGED <<in, loop, chunks, dsg, grid, runs, bcasts>>

\* The remote system's file and token appear.
RemoteWrites ==
    /\ in.remote /\ ~file.token /\ At(Output, "ReadReduce")
    /\ file' = [token |-> TRUE,
                data |-> [p \in Points(in.sizes, in.conjoint) |-> SetToBag({<<"remote", runs[Output]>>})]]
    /\ UNCHANGED <<in, todo, loop, chunks, dsg, extra, grid, runs, bcasts, failed>>

\* combineThirdLevelFileBasedReadReduce up to the broadcast: one's own result is read back,
\* that of the remote system added.
ReadReduce(g) ==
    LET into == IF extra # None THEN extra ELSE dsg[g]
        read == [into EXCEPT !.data = [p \in DOMAIN @ |->
                    IF p \notin DOMAIN file.data THEN @[p]
                    ELSE IF in.remote THEN @[p] (+) file.data[p] ELSE file.data[p]]]
    IN  /\ At(g, "ReadReduce") /\ file.token /\ Then(g, <<>>)
        /\ extra' = IF extra # None THEN read ELSE extra
        /\ SetDsg(g, IF extra = None THEN read
                     ELSE IF isSubspaceDataCreated(dsg[g]) THEN copyDataFrom(dsg[g], read, Subspaces) ELSE dsg[g])
        /\ Assert_(DOMAIN file.data = DOMAIN into.data /\ into.data # NoData)   \* checkFileSizeConsecutive
        /\ UNCHANGED <<in, loop, chunks, grid, runs, bcasts, file>>

RemoveToken(g) ==
    /\ At(g, "RemoveToken") /\ Then(g, <<>>)
    /\ file' = [data |-> NoData, token |-> FALSE]
    /\ UNCHANGED <<in, loop, chunks, dsg, extra, grid, runs, bcasts, failed>>

-----------------------------------------------------------------------------
Terminated ==
    /\ \A g \in Groups : \A th \in Threads : todo[g][th] = <<>>
    /\ UNCHANGED vars

Process(g) ==
    \/ Register(g) \/ ZeroDsgsData(g) \/ RunAllTasks(g) \/ ReduceLocal(g) \/ CheckSizes(g)
    \/ Distribute(g) \/ Dehierarchize(g) \/ ReduceGlobal(g) \/ EndForComms(g)
    \/ CollectReduceDistribute(g) \/ GetChunkList(g) \/ NextChunk(g) \/ DistributeChunk(g)
    \/ DeleteSubspaceData(g) \/ StartBcast(g) \/ ReceiveBcast(g) \/ WaitBcast(g)
    \/ SetExtraSparseGrid(g) \/ ReadSubspaceSizes(g) \/ WriteDSGs(g) \/ ReadReduce(g)
    \/ RemoveToken(g)

Together ==
    \/ DistributeChunkedBroadcasts \/ ReduceSubspaceSizes \/ SetSubspaceCommunicators
    \/ SetOutgroupCommunicator \/ MaxReduceSubspaceSizesInOutputGroup \/ Barrier

Communicators == UNION {{c.ranks : c \in Range(dsg[g].comms)} : g \in Groups} \cup {Groups}

Next ==
    \/ \E g \in Groups : Process(g)
    \/ \E g \in Groups : \E th \in Threads : TakeCommunicator(g, th)
    \/ \E comm \in Communicators : Reduce(comm)
    \/ Together
    \/ RemoteWrites
    \/ Terminated

\* A process goes on with its program, MPI completes what all have called, and the remote
\* system writes its file.
Spec == Init /\ [][Next]_vars /\ WF_vars(Next)

-----------------------------------------------------------------------------
(* Properties *)

\* Every run of a task reaches every grid that has the point, once, and the result of no
\* earlier run is in it; where the systems share the subspace, the remote system's result
\* is in it too.  Checked when a process has ended a combination.
Result(g, p) ==
    SetToBag({<<t, runs[g]>> : t \in {u \in Tasks : p[1] \in in.levels[u]}}
             \cup (IF in.remote /\ p[1] \in in.conjoint THEN {<<"remote", runs[g]>>} ELSE {}))

CombinationComplete ==
    \A g \in Groups : At(g, "Dehierarchize") =>
        \A t \in TasksOf(g) : \A p \in DOMAIN grid[t] : grid[t][p] = Result(g, p)

\* Processes that meet in a reduction of a communicator bring the same points in the same
\* order, and those that meet in the steps of the whole communicator are in the same one; a
\* broadcast is received with the points it was sent with; no message of a reduction is larger
\* than the chunk size asked for, unless it is the data of one subspace; the assertions and
\* run time checks of the functions hold.
CollectiveOps == {"ReduceSubspaceSizes", "SetSubspaceCommunicators", "SetOutgroupCommunicator",
                  "MaxReduceSubspaceSizesInOutputGroup", "DistributeChunkedBroadcasts", "Barrier"}

ReductionsMatch ==
    /\ ~failed
    /\ \A comm \in Communicators : \A c, d \in Reducing(comm) :
            Head(todo[c[1]][c[2]]) = Head(todo[d[1]][d[2]])
    /\ \A g, h \in Groups : Head0(g, 0).op \in CollectiveOps =>
            IF Head0(h, 0).op = "Reduce" THEN This(h).comm # Groups
            ELSE Head0(h, 0).op \in CollectiveOps => Head0(g, 0).op = Head0(h, 0).op
    /\ \A g \in Groups : g # Output /\ At(g, "StartBcast") /\ NextBcast(g) # 0
                => bcasts[NextBcast(g)].pts = BroadcastPoints(dsg[g])
    /\ \A g \in Groups : \A th \in Threads : Head0(g, th).op = "Reduce" =>
            LET pts == Head(todo[g][th]).pts
            IN  Len(pts) <= in.chunk \/ Cardinality({p[1] : p \in Range(pts)}) = 1

\* Every process comes to the end of its program: the threads that reduce on different
\* communicators at the same time do not wait for each other in a circle.
ProgramsFinish == <>(\A g \in Groups : \A th \in Threads : todo[g][th] = <<>>)
=============================================================================
