------------------------ MODULE DistributedFullGrid ------------------------
(***************************************************************************)
(* A full grid distributed over the processes of a group: the mapping of   *)
(* linear and vector indices, partitions and ranks, hierarchical levels    *)
(* and subspaces, and the evaluation of the grid at a point.               *)
(*                                                                         *)
(* A grid is a record made by Grid, the constructor; the values a process  *)
(* holds are a function of the local linear index.  Dimensions count from  *)
(* 1, indices and ranks from 0 as in the code.  Coordinates are integers   *)
(* in units of 1/M, M being a multiple of every 2^level in use.            *)
(***************************************************************************)
EXTENDS Integers, Sequences, FiniteSets, SequencesExt, FiniteSetsExt, Functions

Pow2(n) == 2 ^ n

-----------------------------------------------------------------------------
(* TensorIndexer: column-major indices *)

SizeOf(extents) ==
    LET f[j \in 0..Len(extents)] == IF j = 0 THEN 1 ELSE f[j - 1] * extents[j] IN f[Len(extents)]
OffsetsVector(extents) == [j \in DOMAIN extents |-> SizeOf(SubSeq(extents, 1, j - 1))]
sequentialIndex(extents, v) ==
    LET f[j \in 1..(Len(v) + 1)] == IF j > Len(v) THEN 0 ELSE v[j] + extents[j] * f[j + 1] IN f[1]
getVectorIndex(extents, i) ==
    [j \in DOMAIN extents |-> (i \div OffsetsVector(extents)[j]) % extents[j]]

Minus(u, v) == [j \in DOMAIN u |-> u[j] - v[j]]
Plus(u, v) == [j \in DOMAIN u |-> u[j] + v[j]]

-----------------------------------------------------------------------------
(* MPICartesianUtils *)

\* Ranks in a cartesian communicator are row-major.
CartCoords(procs, r) == Reverse(getVectorIndex(Reverse(procs), r))

\* partitionCoords_: the ranks by the sequential index of their coordinates.
PartitionCoords(procs) ==
    [i \in 0..(SizeOf(procs) - 1) |->
        CHOOSE r \in 0..(SizeOf(procs) - 1) : sequentialIndex(procs, CartCoords(procs, r)) = i]

getRankFromPartitionCoords(g, c) == g.partitionCoords[sequentialIndex(g.procs, c)]
getNeighbor1dFromPartitionIndex(g, p, d, i) ==
    getRankFromPartitionCoords(g, [CartCoords(g.procs, p) EXCEPT ![d] = i])
getAllMyPoleNeighborRanks(g, p, d) ==
    {getNeighbor1dFromPartitionIndex(g, p, d, i) :
        i \in 0..(g.procs[d] - 1) \ {CartCoords(g.procs, p)[d]}}
isOnLowerBoundaryInDimension(g, p, d) == CartCoords(g.procs, p)[d] = 0

-----------------------------------------------------------------------------
(* The decomposition and the constructor *)

getNumDofNodal(l, b) == IF l > 0 THEN Pow2(l) + b - 1 ELSE b

CeilDiv(a, b) == (a + b - 1) \div b

getDefaultDecomposition(points, procs, forward) ==
    [d \in DOMAIN points |-> [j \in 1..procs[d] |->
        IF forward THEN CeilDiv(points[d] * (j - 1), procs[d]) ELSE (points[d] * (j - 1)) \div procs[d]]]

\* Mutant: rounds the bounds down.
downsampleDecompositionFloor(decomposition, reference, level, bdry) ==
    [d \in DOMAIN decomposition |->
        [j \in DOMAIN decomposition[d] |-> decomposition[d][j] \div Pow2(reference[d] - level[d])]]

downsampleDecomposition(decomposition, reference, level, bdry) ==
    [d \in DOMAIN decomposition |->
        LET step == Pow2(reference[d] - level[d])
            protrusion == IF bdry[d] > 0 THEN 0 ELSE step - 1
        IN  [j \in DOMAIN decomposition[d] |->
                IF decomposition[d][j] <= protrusion THEN 0
                ELSE CeilDiv(decomposition[d][j] - protrusion, step)]]

\* setDecomposition asserts that no partition is empty.
DecompositionAllowed(decomposition) ==
    \A d \in DOMAIN decomposition : IsInjective(decomposition[d])

Grid(level, bdry, procs, decomposition) ==
    LET points == [d \in DOMAIN level |-> getNumDofNodal(level[d], bdry[d])]
        coords == [r \in 0..(SizeOf(procs) - 1) |-> CartCoords(procs, r)]
        lower == [r \in DOMAIN coords |-> [d \in DOMAIN level |-> decomposition[d][coords[r][d] + 1]]]
        upper == [r \in DOMAIN coords |-> [d \in DOMAIN level |->
                     IF coords[r][d] < procs[d] - 1 THEN decomposition[d][coords[r][d] + 2]
                     ELSE points[d]]]
    IN  [level |-> level, bdry |-> bdry, procs |-> procs, decomposition |-> decomposition,
         sizes |-> points, partitionCoords |-> PartitionCoords(procs), lower |-> lower, upper |-> upper]

Dims(g) == 1..Len(g.level)
Ranks(g) == DOMAIN g.lower
getLocalSizes(g, p) == Minus(g.upper[p], g.lower[p])
getNrLocalElements(g, p) == SizeOf(getLocalSizes(g, p))
LocalIndices(g, p) == 0..(getNrLocalElements(g, p) - 1)
getLocalOffsets(g, p) == OffsetsVector(getLocalSizes(g, p))

-----------------------------------------------------------------------------
(* Local and global indices *)

getGlobalVectorIndex(g, p, li) == Plus(g.lower[p], getVectorIndex(getLocalSizes(g, p), li))
isGlobalIndexHere(g, p, v) == \A d \in Dims(g) : g.lower[p][d] <= v[d] /\ v[d] < g.upper[p][d]
getLocalLinearIndex(g, p, v) == sequentialIndex(getLocalSizes(g, p), Minus(v, g.lower[p]))
getGlobalLinearIndex(g, p, li) ==
    sequentialIndex(g.sizes, g.lower[p])
        + sequentialIndex(g.sizes, getVectorIndex(getLocalSizes(g, p), li))

\* The first grid point in units of h: without boundary points, index 0 lies at h.
FirstPoint(g, d) == IF g.bdry[d] > 0 THEN 0 ELSE 1

\* getCoordsGlobal, in units of 1/M.
getCoordsGlobal(g, M, i) ==
    LET v == getVectorIndex(g.sizes, i)
    IN  [d \in Dims(g) |-> (v[d] + FirstPoint(g, d)) * (M \div Pow2(g.level[d]))]

\* getNeighbor1dFromAxisIndex: the owner of index i on the poles of p; -1 outside the domain.
getNeighbor1dFromAxisIndex(g, p, d, i) ==
    IF i < 0 \/ i > g.sizes[d] - 1 THEN -1
    ELSE getNeighbor1dFromPartitionIndex(g, p, d,
             Cardinality({j \in DOMAIN g.decomposition[d] : g.decomposition[d][j] < i + 1}) - 1)

-----------------------------------------------------------------------------
(* Hierarchical levels *)

\* __builtin_ctzl
TrailingZeros(n) == Max({k \in 0..30 : n % Pow2(k) = 0})

getLevel(g, d, i) ==
    LET n == i + FirstPoint(g, d) IN IF n = 0 THEN 0 ELSE g.level[d] - TrailingZeros(n)

\* getLeftPredecessor, getRightPredecessor: negative if there is none.
getLeftPredecessor(g, d, i) ==
    IF getLevel(g, d, i) = 0 THEN -1 ELSE i - Pow2(g.level[d] - getLevel(g, d, i))
getRightPredecessor(g, d, i) ==
    IF getLevel(g, d, i) = 0 THEN -1
    ELSE LET right == i + Pow2(g.level[d] - getLevel(g, d, i))
         IN  IF right < g.sizes[d] \/ (g.bdry[d] = 1 /\ right = g.sizes[d]) THEN right ELSE -1

getStrideForThisLevel(g, l, d) ==
    IF l = 1 /\ g.bdry[d] > 0 THEN Pow2(g.level[d] - 1) ELSE Pow2(g.level[d] - l + 1)

getLocalStartForThisLevel(g, p, l, d) ==
    LET stride == getStrideForThisLevel(g, l, d)
        first == g.lower[p][d]
        offset == IF g.bdry[d] > 0
                  THEN IF l = 1 THEN 0 ELSE Pow2(g.level[d] - l)
                  ELSE Pow2(g.level[d] - l) - 1
        skipped == IF first < offset THEN 0 ELSE CeilDiv(first - offset, stride)
    IN  skipped * stride + offset - first

getNumPointsOnThisPartition(g, p, l, d) ==
    LET last == getLocalSizes(g, p)[d] - 1
        start == getLocalStartForThisLevel(g, p, l, d)
    IN  IF last < start THEN 0 ELSE (last - start) \div getStrideForThisLevel(g, l, d) + 1

\* Ascending.
get1dIndicesLocal(g, p, d, l) ==
    [k \in 1..getNumPointsOnThisPartition(g, p, l, d) |->
        getLocalStartForThisLevel(g, p, l, d) + (k - 1) * getStrideForThisLevel(g, l, d)]

\* The level vectors from 1 upwards.
getDownSet(level) == {l \in [DOMAIN level -> 1..Max(Range(level))] : \A d \in DOMAIN l : l[d] <= level[d]}

\* getFGPointsOfSubspace: local linear indices; its nested loops yield them in ascending order.
getFGPointsOfSubspace(g, p, l) ==
    IF \E d \in Dims(g) : l[d] > g.level[d] THEN <<>>
    ELSE LET vectors == {v \in [Dims(g) -> 0..Max(Range(getLocalSizes(g, p)))] :
                            \A d \in Dims(g) : v[d] \in Range(get1dIndicesLocal(g, p, d, l[d]))}
             found == {sequentialIndex(getLocalSizes(g, p), v) : v \in vectors}
         IN  SelectSeq([i \in 1..getNrLocalElements(g, p) |-> i - 1], LAMBDA i : i \in found)

-----------------------------------------------------------------------------
(* Evaluation *)

\* getPointDistanceToCoordinate subtracted from h, in units of 1/M; 0 is one grid spacing away.
HatAt(g, p, M, d, i, c) ==
    LET h == M \div Pow2(g.level[d])
        distance == (g.lower[p][d] + FirstPoint(g, d) + i) * h - c
    IN  h - (IF distance < 0 THEN -distance ELSE distance)

\* The index in dimension d of the lower (or, if upper, the next) neighbour and its factor phi.
EvalIndex(g, p, M, d, i, upper, c) ==
    IF i + upper < 0 THEN <<0, 0>>
    ELSE IF upper = 1 /\ g.bdry[d] = 1 /\ i + upper = g.sizes[d] THEN <<0, HatAt(g, p, M, d, 0, c - M)>>
    ELSE IF i + upper > getLocalSizes(g, p)[d] - 1 THEN <<0, 0>>
    ELSE <<i + upper, HatAt(g, p, M, d, i + upper, c)>>

evalIndexAndAllUpperNeighbors(g, p, M, data, index, coords) ==
    MapThenSumSet(LAMBDA n :
        LET at == [d \in Dims(g) |-> EvalIndex(g, p, M, d, index[d], n[d], coords[d])]
        IN  IF \A d \in Dims(g) : at[d][2] > 0
            THEN SizeOf([d \in Dims(g) |-> at[d][2]])
                    * data[sequentialIndex(getLocalSizes(g, p), [d \in Dims(g) |-> at[d][1]])]
            ELSE 0,
        [Dims(g) -> {0, 1}])

\* Mutant: the lowest process does not look after the periodic end of the domain.
evalLocalNotPeriodic(g, p, M, data, coords) ==
    LET index == [d \in Dims(g) |->
                     (coords[d] - (g.lower[p][d] + FirstPoint(g, d)) * (M \div Pow2(g.level[d])))
                        \div (M \div Pow2(g.level[d]))]
    IN  IF \E d \in Dims(g) : index[d] < -1 \/ index[d] > getLocalSizes(g, p)[d] - 1 THEN 0
        ELSE evalIndexAndAllUpperNeighbors(g, p, M, data, index, coords)

\* evalLocal, times the product of the grid spacings in units of 1/M.
evalLocal(g, p, M, data, coords) ==
    LET h == [d \in Dims(g) |-> M \div Pow2(g.level[d])]
        index == [d \in Dims(g) |-> (coords[d] - (g.lower[p][d] + FirstPoint(g, d)) * h[d]) \div h[d]]
        periodic(d) == coords[d] >= M - h[d] /\ g.bdry[d] = 1 /\ isOnLowerBoundaryInDimension(g, p, d)
    IN  IF \E d \in Dims(g) : index[d] < -1 \/ (~periodic(d) /\ index[d] > getLocalSizes(g, p)[d] - 1)
        THEN 0
        ELSE evalIndexAndAllUpperNeighbors(g, p, M, data, index, coords)

\* isLocalLinearIndexOnBoundary: in how many dimensions.
BoundaryDims(g, p, li) ==
    LET v == getVectorIndex(g.sizes, getGlobalLinearIndex(g, p, li))
    IN  Cardinality({d \in Dims(g) : g.bdry[d] = 2 /\ v[d] \in {0, g.sizes[d] - 1}})

Abs(n) == IF n < 0 THEN -n ELSE n

\* The summands of getLpNorm(1), times 2^dimension, before the factor of the basis function's integral.
LocalNorm(g, p, data) ==
    MapThenSumSet(LAMBDA li : Abs(data[li]) * Pow2(Len(g.level) - BoundaryDims(g, p, li)),
                  LocalIndices(g, p))
LocalMaximum(g, p, data) == Max({Abs(data[li]) : li \in LocalIndices(g, p)})

Corners(g) == {v \in [Dims(g) -> UNION {{0, g.sizes[d] - 1} : d \in Dims(g)}] :
                  \A d \in Dims(g) : v[d] \in {0, g.sizes[d] - 1}}

\* getCornersValues, before the Allreduce.
LocalCorners(g, p, data) ==
    [v \in Corners(g) |-> IF isGlobalIndexHere(g, p, v) THEN data[getLocalLinearIndex(g, p, v)] ELSE 0]
=============================================================================
