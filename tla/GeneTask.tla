------------------------------- MODULE GeneTask -------------------------------
(***************************************************************************)
(* The task that couples GENE: the checkpoint of a process's part of the   *)
(* GENE grid, its copy into the distributed full grid, which has one more  *)
(* point at the end of x, z, v and w, and the condition that gives the     *)
(* last z layer its values; and the older converter of a whole GENE grid.  *)
(*                                                                         *)
(* One species: the dimensions are x, y, z, v, w.  Complex values become   *)
(* integers; so do the factors exp(2 pi i q l n0) of a global run, powers  *)
(* of a number in.phase of the x index.  A task's settings are a record    *)
(*   [linear, global, geneXBoundariesIncluded, phase].                     *)
(***************************************************************************)
EXTENDS FullGrid

X == 1
Y == 2
Z == 3
V == 4
W == 5

\* The indices of a multi-array, which is a function of the vector index.
Box(shape) == {getVectorIndex(shape, i) : i \in 0..(SizeOf(shape) - 1)}

-----------------------------------------------------------------------------
(* The checkpoint *)

HasLastPoint(gene, d) == d \in {X, Z, V, W} \/ (d = Y /\ ~gene.linear)

\* writeLocalCheckpoint, initCheckpoint: GENE's sizes must be those of the level.
CheckpointSizesRight(gene, level, sizes) ==
    \A d \in DOMAIN level : sizes[d] = IF d = Y /\ gene.linear THEN 1 ELSE Pow2(level[d])

\* The bounds GENE computes on: the partition without the last points.
lcpShape(gene, g, p) ==
    [d \in Dims(g) |-> getLocalSizes(g, p)[d]
        - (IF CartCoords(g.procs, p)[d] = g.procs[d] - 1 /\ HasLastPoint(gene, d) THEN 1 ELSE 0)]

writeLocalCheckpoint(gene, g, p, geneGrid) ==
    [u \in Box(lcpShape(gene, g, p)) |-> geneGrid[Plus(g.lower[p], u)]]

InitLocalCheckpoint(gene, g, p) == [u \in Box(lcpShape(gene, g, p)) |-> 0]

-----------------------------------------------------------------------------
(* Between the checkpoint and the distributed full grid *)

LocalVector(g, p, li) == getVectorIndex(getLocalSizes(g, p), li)

\* The first step of setDFG: the grid's last points keep what they hold.
copyCheckpoint(g, p, values, lcpData) ==
    [li \in DOMAIN values |->
        LET u == LocalVector(g, p, li) IN IF u \in DOMAIN lcpData THEN lcpData[u] ELSE values[li]]

\* The assertions of setDFG: the last point in x is zero, and the first one.  That is left out for a
\* run that is not global, where it fails the second time: the last layer in z, which the checkpoint
\* does not overwrite, then holds a shifted mode at the first point.
XBoundariesZero(gene, g, p, values) ==
    \A li \in DOMAIN values :
        getGlobalVectorIndex(g, p, li)[X] \in {g.sizes[X] - 1} \cup (IF gene.global THEN {0} ELSE {})
            => values[li] = 0

getDFG(g, p, values, lcpData) ==
    [u \in DOMAIN lcpData |-> values[sequentialIndex(getLocalSizes(g, p), u)]]

\* The gathered full grid of a linear run without the last points.
saveCheckpoint(g, full) ==
    [v \in Box([d \in Dims(g) |-> g.sizes[d] - (IF d \in {X, Z, V, W} THEN 1 ELSE 0)]) |->
        full[sequentialIndex(g.sizes, v)]]

-----------------------------------------------------------------------------
(* The boundary condition in z *)

\* l counts the modes in y from 1, x is the global index.
getOffsetAndFactor(gene, l, x) ==
    IF gene.global THEN [xoffset |-> 0, factor |-> gene.phase[x] ^ l]
    ELSE [xoffset |-> l, factor |-> (-1) ^ l]

\* Which process does what: with one process in z nothing is sent, the others have nothing to do.
SendsZ(g, p) == g.procs[Z] > 1 /\ CartCoords(g.procs, p)[Z] = 0
AdaptsZ(g, p) == CartCoords(g.procs, p)[Z] = g.procs[Z] - 1
OtherEndZ(g, p) ==
    getNeighbor1dFromPartitionIndex(g, p, Z, IF SendsZ(g, p) THEN g.procs[Z] - 1 ELSE 0)
TagBoundaryZ == 1000

\* adaptBoundaryZglobal is for linear runs that are not split in x.
adaptBoundaryZglobalAsserts(gene, g) ==
    gene.linear /\ g.procs[Z] > 1 => g.procs[X] = 1 /\ g.sizes[Y] = 1

\* Indices of a layer, as a datatype of one layer in z orders them.
LayerIndex(g, p, u) == sequentialIndex([getLocalSizes(g, p) EXCEPT ![Z] = 1], [u EXCEPT ![Z] = 0])

\* Number of modes: the last points in x, and in y of a nonlinear run, are left out.
nk(gene, g, p, d) ==
    getLocalSizes(g, p)[d]
        - (IF CartCoords(g.procs, p)[d] = g.procs[d] - 1 /\ (d = X \/ ~gene.linear) THEN 1 ELSE 0)

nkxGlobal(gene, g) == g.sizes[X] - (IF gene.geneXBoundariesIncluded THEN 0 ELSE 1)

adaptBoundaryZKernelAsserts(gene, g, p) ==
    nk(gene, g, p, X) % 2 = 0 /\ nkxGlobal(gene, g) >= nk(gene, g, p, X)

\* The last layer in z from the first one, shifted in x; the highest mode is left as it is.
\* The assertion kx_star < nkx is not part of it: it fails for the last mode if the member
\* geneXBoundariesIncluded_, which is never given a value, happens to be true.
adaptBoundaryZKernel(gene, g, p, source, values) ==
    [li \in DOMAIN values |->
        LET u == LocalVector(g, p, li)
            mode == getOffsetAndFactor(gene, u[Y] + 1, g.lower[p][X] + u[X])
            kx_star == (u[X] + mode.xoffset) % nkxGlobal(gene, g)
        IN  IF /\ u[Z] = getLocalSizes(g, p)[Z] - 1
               /\ u[X] < nk(gene, g, p, X) /\ u[Y] < nk(gene, g, p, Y)
               /\ gene.global \/ u[X] # nkxGlobal(gene, g) \div 2
            THEN mode.factor * source[LayerIndex(g, p, [u EXCEPT ![X] = kx_star])]
            ELSE values[li]]

-----------------------------------------------------------------------------
(* CombiGeneConverter: a whole GENE grid with an odd number of modes in x *)

\* From 0, 1, ..., -2, -1 to -2, -1, 0, 1, ....
rearrangeX(gg, shape) ==
    LET truncInd == shape[X] \div 2 + 1
    IN  [v \in DOMAIN gg |->
            gg[[v EXCEPT ![X] = IF v[X] < truncInd - 1 THEN truncInd + v[X] ELSE v[X] - truncInd + 1]]]

\* The new layer in z: the layer before it, overwritten by the shifted first one but for the last mode.
adaptZ(tmp0, shape) ==
    [v \in Box([shape EXCEPT ![Z] = @ + 1]) |->
        IF v[Z] < shape[Z] THEN tmp0[v]
        ELSE IF v[X] < shape[X] - 1 THEN -tmp0[[v EXCEPT ![Z] = 0, ![X] = @ + 1]]
        ELSE tmp0[[v EXCEPT ![Z] = @ - 1]]]

\* Throw away the first entry of v; the new last entry of w is zero.
adaptVW(tmp, shape) ==
    [v \in Box([shape EXCEPT ![V] = @ - 1, ![W] = @ + 1]) |->
        IF v[W] = shape[W] THEN 0 ELSE tmp[[v EXCEPT ![V] = @ + 1]]]

GeneGridToFullGrid(gg, shape) == adaptVW(adaptZ(rearrangeX(gg, shape), shape), [shape EXCEPT ![Z] = @ + 1])

FullGridToGeneGrid(fg, shape) ==
    LET offset == shape[X] \div 2
        back(i) == IF i <= offset THEN offset + i ELSE i - offset - 1
    IN  [v \in Box(shape) |-> IF v[V] = 0 THEN 0 ELSE fg[[v EXCEPT ![X] = back(@), ![V] = @ - 1]]]
=============================================================================
