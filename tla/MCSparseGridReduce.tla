------------------------- MODULE MCSparseGridReduce -------------------------
(***************************************************************************)
(* Small runs of the workers: the four combination variants, with and      *)
(* without a remote system.                                                *)
(***************************************************************************)
EXTENDS SparseGridReduce

\* Three groups that share subspaces in different ways.
ThreeGroups ==
    [groups |-> 3, output |-> 0, sizes |-> <<1, 2, 1, 1>>, threads |-> 0, chunk |-> 3,
     holder |-> ("a" :> 0 @@ "b" :> 1 @@ "c" :> 2),
     levels |-> ("a" :> {1, 2} @@ "b" :> {1, 3, 4} @@ "c" :> {1, 2, 4}),
     remote |-> FALSE, conjoint |-> {}, variant |-> "sparseGridReduce", program |-> <<>>]

\* Two groups, one with two tasks; the process has no points of subspace 2.
TwoGroups ==
    [groups |-> 2, output |-> 1, sizes |-> <<2, 0, 1, 2>>, threads |-> 0, chunk |-> 4,
     holder |-> ("a" :> 0 @@ "b" :> 1 @@ "c" :> 1),
     levels |-> ("a" :> {1, 2, 3} @@ "b" :> {1, 2} @@ "c" :> {1, 4}),
     remote |-> FALSE, conjoint |-> {}, variant |-> "sparseGridReduce", program |-> <<>>]

AtOnce == <<"initCombinedDSGVector", "ZeroDsgsData", "RunAllTasks", "Barrier", "combineAtOnce",
            "RunAllTasks", "Barrier", "combineAtOnce">>
ThroughFile == <<"RunAllTasks", "Barrier", "combineSystemWideAndWrite", "combineReadDistributeSystemWide">>

Variants == {"sparseGridReduce", "subspaceReduce", "outgroupSparseGridReduce", "chunkedOutgroupSparseGridReduce"}

CombineAtOnce ==
    {[s EXCEPT !.variant = v, !.program = AtOnce, !.threads = n] :
        s \in {ThreeGroups, TwoGroups}, v \in Variants, n \in 0..1}

WithRemote ==
    {[s EXCEPT !.variant = v, !.conjoint = c, !.remote = r,
               !.program = <<"initCombinedDSGVector", sizes, "Barrier", "ZeroDsgsData">>
                                \o ThroughFile \o ThroughFile] :
        s \in {ThreeGroups, TwoGroups}, v \in Variants \ {"subspaceReduce"}, c \in {{1, 3}, {1, 3, 4}},
        r \in BOOLEAN, sizes \in {"readExtraSubspaceSizes", "reduceExtraSubspaceSizesFileBased"}}

SmallSetups == CombineAtOnce \cup WithRemote
=============================================================================
