---------------------------- MODULE CombiScheme ----------------------------
(***************************************************************************)
(* Combination schemes: the component grids of a combination technique,    *)
(* their coefficients, the downward closed set of subspaces, the split of  *)
(* a scheme between two systems and among process groups, and the number   *)
(* of sparse grid points every process of a group will own.                *)
(*                                                                         *)
(* Level vectors are tuples; a scheme is a record with the sequences       *)
(* levels (levels_, the subspaces), spaces (combiSpaces_) and coeffs, and  *)
(* with the level sum n of its highest diagonal.                           *)
(***************************************************************************)
EXTENDS DistributedFullGrid, Combinatorics

levelSum(l) == LET f[j \in 0..Len(l)] == IF j = 0 THEN 0 ELSE f[j - 1] + l[j] IN f[Len(l)]
AllLE(u, v) == \A d \in DOMAIN u : u[d] <= v[d]
Shifted(l, c) == [d \in DOMAIN l |-> l[d] - c]
SumOfSeq(s) == LET f[j \in 0..Len(s)] == IF j = 0 THEN 0 ELSE f[j - 1] + s[j] IN f[Len(s)]
Sign(k) == IF k % 2 = 0 THEN 1 ELSE -1

\* All level vectors from 1 to l, the last dimension fastest.
LevelBox(l) ==
    [i \in 1..SizeOf(l) |->
        [d \in DOMAIN l |-> 1 + Reverse(getVectorIndex(Reverse(l), i - 1))[d]]]

-----------------------------------------------------------------------------
(* Subspaces *)

PartSum(l, K) == MapThenSumSet(LAMBDA d : l[d], K)
AllDimensionSubsets(d) == UNION {kSubset(k, 1..d) : k \in 2..d} \cup {1..d}

createTruncatedHierarchicalLevels(lmax, lmin) ==
    LET n == Min({lmax[d] - lmin[d] : d \in DOMAIN lmax})
        rlmin == Shifted(lmax, n)
    IN  SelectSeq(LevelBox(lmax), LAMBDA l :
            \A K \in AllDimensionSubsets(Len(lmax)) : PartSum(l, K) <= PartSum(rlmin, K) + n)

\* Unlike LevelSetUtils' getDownSet, a set of tuples.
DownSet(l) == ToSet(LevelBox(l))

-----------------------------------------------------------------------------
(* The two constructions *)

EffectiveDims(lmin, lmax) == {d \in DOMAIN lmax : lmax[d] # lmin[d]}

\* Scheme of one grid: combiSpaces_ stays empty.
SingleGrid(lmin, lmax) ==
    [lmin |-> lmin, lmax |-> lmax, n |-> 0, levels |-> <<lmin>>, spaces |-> <<>>, coeffs |-> <<1>>,
     groups |-> <<>>]

computeCombiCoeffsClassical(spaces, n, effDim) ==
    [i \in DOMAIN spaces |->
        LET p == n - levelSum(spaces[i]) IN Sign(p) * choose(effDim - 1, p)]

\* The level that is put back in for dummy dimension d: the i-th dummy dimension gets lmax_[i].
DummyLevel(lmin, lmax, d) ==
    lmax[Cardinality({k \in DOMAIN lmax \ EffectiveDims(lmin, lmax) : k <= d})]

createClassicalCombischeme(lmin, lmax) ==
    LET effective == EffectiveDims(lmin, lmax)
        kept == SelectSeq([d \in DOMAIN lmax |-> d], LAMBDA d : d \in effective)
        c == Min({lmax[d] - lmin[d] : d \in effective})
        Reinsert(l) == [d \in DOMAIN lmax |->
            IF d \in effective THEN l[Cardinality({k \in effective : k <= d})]
            ELSE DummyLevel(lmin, lmax, d)]
        stripped == createTruncatedHierarchicalLevels([k \in DOMAIN kept |-> lmax[kept[k]]],
                                                      [k \in DOMAIN kept |-> lmin[kept[k]]])
        levels == [i \in DOMAIN stripped |-> Reinsert(stripped[i])]
        lower == [d \in DOMAIN lmax |->
            IF d \in effective THEN lmax[d] - c ELSE DummyLevel(lmin, lmax, d)]
        n == levelSum(lower) + c
        spaces == SelectSeq(levels, LAMBDA l :
            AllLE(lower, l) /\ n - levelSum(l) \in 0..(Cardinality(effective) - 1))
    IN  IF effective = {} THEN SingleGrid(lmin, lmax)
        ELSE [lmin |-> lower, lmax |-> lmax, n |-> n, levels |-> levels, spaces |-> spaces,
              coeffs |-> computeCombiCoeffsClassical(spaces, n, Cardinality(effective)),
              groups |-> <<>>]

\* Spaces with coefficient zero become 0 vectors at once, which later spaces no longer count.
computeCombiCoeffsAdaptive(spaces) ==
    LET Next1(l, k) == AllLE(spaces[l], spaces[k]) /\ \A d \in DOMAIN spaces[l] : spaces[k][d] <= spaces[l][d] + 1
        coeff[i \in 0..Len(spaces)] ==
            IF i = 0 THEN 0
            ELSE MapThenSumSet(LAMBDA k : Sign(levelSum(spaces[k]) - levelSum(spaces[i])),
                    {k \in DOMAIN spaces : Next1(i, k) /\ (k < i => coeff[k] # 0)})
    IN  [i \in DOMAIN spaces |-> coeff[i]]

getFurthestCorner(lmax, lmin) ==
    LET diff == Minus(lmax, lmin)
        d == Min({k \in DOMAIN diff : diff[k] = Max(Range(diff))})
    IN  [lmin EXCEPT ![d] = lmax[d]]

createAdaptiveCombischeme(lmin, lmax) ==
    LET n == levelSum(getFurthestCorner(lmax, lmin))
        levels == createTruncatedHierarchicalLevels(lmax, Shifted(lmax, n - levelSum(lmin)))
        candidates == SelectSeq(levels, LAMBDA l : AllLE(lmin, l) /\ levelSum(l) <= n)
        all == computeCombiCoeffsAdaptive(candidates)
        kept == SelectSeq([i \in DOMAIN candidates |-> i], LAMBDA i : all[i] # 0)
    IN  [lmin |-> lmin, lmax |-> lmax, n |-> n, levels |-> levels,
         spaces |-> [k \in DOMAIN kept |-> candidates[kept[k]]],
         coeffs |-> [k \in DOMAIN kept |-> all[kept[k]]], groups |-> <<>>]

ExtraDiags == 2

\* Mutant: begins one diagonal too high, where the grids have a coefficient already.
makeFaultTolerantOverlapping(s) ==
    LET effDim == Cardinality(EffectiveDims(s.lmin, s.lmax))
        extra == SelectSeq(s.levels, LAMBDA l :
            AllLE(s.lmin, l) /\ s.n - levelSum(l) \in (effDim - 1)..(effDim + ExtraDiags - 2))
    IN  IF s.lmin = s.lmax THEN s
        ELSE [s EXCEPT !.spaces = @ \o extra, !.coeffs = @ \o [i \in DOMAIN extra |-> 0]]

makeFaultTolerant(s) ==
    LET effDim == Cardinality(EffectiveDims(s.lmin, s.lmax))
        extra == SelectSeq(s.levels, LAMBDA l :
            AllLE(s.lmin, l) /\ s.n - levelSum(l) \in effDim..(effDim + ExtraDiags - 1))
    IN  IF s.lmin = s.lmax THEN s
        ELSE [s EXCEPT !.spaces = @ \o extra, !.coeffs = @ \o [i \in DOMAIN extra |-> 0]]

\* createDownSet, from the grids with coefficient 1.
createDownSet(spaces, coeffs) ==
    UNION {DownSet(spaces[i]) : i \in {k \in DOMAIN spaces : coeffs[k] = 1}}

-----------------------------------------------------------------------------
(* Two systems *)

\* decomposeScheme: the first round(size * num / den) grids belong to system 0.
decomposeScheme(s, num, den) ==
    LET first == (2 * Len(s.spaces) * num + den) \div (2 * den)
        Part(from, to) == [s EXCEPT !.spaces = SubSeq(@, from, to), !.coeffs = SubSeq(@, from, to)]
    IN  <<Part(1, first), Part(first + 1, Len(s.spaces))>>

createThirdLevelScheme(s, systemNumber, numSystems, num, den) ==
    IF numSystems < 2 THEN s ELSE decomposeScheme(s, num, den)[systemNumber + 1]

-----------------------------------------------------------------------------
(* Degrees of freedom *)

getCombiDegreesOfFreedom(level, bdry) ==
    SizeOf([d \in DOMAIN level |-> getNumDofNodal(level[d], bdry[d])])

\* With two boundary points in every dimension, which belong to level 1.
SubspaceExtent(l) == IF l > 1 THEN Pow2(l - 1) ELSE 3
getSGDegreesOfFreedomFromDownSet(levels) ==
    SumOfSeq([i \in DOMAIN levels |-> SizeOf([d \in DOMAIN levels[i] |-> SubspaceExtent(levels[i][d])])])

\* Mutant: counts an index that lies on the bound as lower.
getHighestIndexInclusive(level, nodalIndex, ref) ==
    LET step == Pow2(ref - level)
    IN  IF level = 1
        THEN IF nodalIndex = 0 THEN -1
             ELSE IF nodalIndex >= Pow2(ref) THEN 2
             ELSE IF nodalIndex >= Pow2(ref - 1) THEN 1 ELSE 0
        ELSE IF nodalIndex < step THEN -1 ELSE (nodalIndex - step) \div (2 * step)

\* -1 if the subspace has no index lower than nodalIndex.
getHighestIndexInHierarchicalSubspaceLowerThanNodalIndexOnLref(level, nodalIndex, ref) ==
    LET step == Pow2(ref - level)
    IN  IF level = 1
        THEN IF nodalIndex = 0 THEN -1
             ELSE IF nodalIndex >= Pow2(ref) THEN 2
             ELSE IF nodalIndex >= Pow2(ref - 1) THEN 1 ELSE 0
        ELSE IF nodalIndex <= step THEN -1 ELSE CeilDiv(nodalIndex - step, 2 * step) - 1

\* The number of indices of a one-dimensional subspace on each partition.
PartitionedExtents(level, ref, bounds) ==
    LET Highest(k) == getHighestIndexInHierarchicalSubspaceLowerThanNodalIndexOnLref(level, bounds[k + 1], ref)
        \* numIndicesProcessedOnPoleMinusOne after partition k
        done[k \in 0..(Len(bounds) - 1)] ==
            IF k = 0 THEN -1 ELSE IF Highest(k) = -1 THEN done[k - 1] ELSE Highest(k)
    IN  [k \in DOMAIN bounds |->
            IF k = Len(bounds) THEN SubspaceExtent(level) - done[k - 1] - 1
            ELSE IF Highest(k) = -1 THEN 0 ELSE Highest(k) - done[k - 1]]

\* By the column-major index of the partition, from 0.
getPartitionedNumDOFSG(levels, ref, decomposition) ==
    LET procs == [d \in DOMAIN decomposition |-> Len(decomposition[d])]
        extents == [i \in DOMAIN levels |-> [d \in DOMAIN procs |->
                       PartitionedExtents(levels[i][d], ref[d], decomposition[d])]]
    IN  [p \in 0..(SizeOf(procs) - 1) |->
            LET v == getVectorIndex(procs, p)
            IN  SumOfSeq([i \in DOMAIN levels |-> SizeOf([d \in DOMAIN procs |-> extents[i][d][v[d] + 1]])])]

-----------------------------------------------------------------------------
(* The tasks of a process group: sequences of task numbers, from 1 *)

getAssignedLevels(s, group) ==
    SelectSeq([i \in DOMAIN s.spaces |-> i], LAMBDA i : s.groups[i] = group)

\* Mutant: the first group's offset is used by every group but the stride starts one later.
getRoundRobinLevelsShifted(s, group, numGroups) ==
    SelectSeq([i \in DOMAIN s.spaces |-> i], LAMBDA i : i > numGroups /\ (i - 1) % numGroups = group)

getRoundRobinLevels(s, group, numGroups) ==
    SelectSeq([i \in DOMAIN s.spaces |-> i], LAMBDA i : (i - 1) % numGroups = group)

\* allTaskIDs by decreasing load; std::sort may leave equal loads in either order.
TasksByLoad(s, bdry, laterFirst) ==
    LET load == [i \in DOMAIN s.spaces |-> getCombiDegreesOfFreedom(s.spaces[i], bdry)]
        Before(i, k) == load[i] > load[k] \/ (load[i] = load[k] /\ (IF laterFirst THEN i > k ELSE i < k))
    IN  [pos \in DOMAIN s.spaces |->
            CHOOSE i \in DOMAIN s.spaces : Cardinality({k \in DOMAIN s.spaces : Before(k, i)}) = pos - 1]

\* The first group with the lowest load.
LightestGroup(load, groups) == Min({g \in groups : \A h \in groups : load[g] <= load[h]})

\* The group of every task, as every process computes it for itself.
LoadBalancedGroups(s, numGroups, bdry, laterFirst) ==
    LET order == TasksByLoad(s, bdry, laterFirst)
        groups == 0..(numGroups - 1)
        step[k \in 0..Len(order)] ==
            IF k = 0 THEN [load |-> [g \in groups |-> 0], owner |-> [i \in DOMAIN order |-> -1]]
            ELSE LET before == step[k - 1]
                     g == LightestGroup(before.load, groups)
                 IN  [load |-> [before.load EXCEPT ![g] =
                                    @ + getCombiDegreesOfFreedom(s.spaces[order[k]], bdry)],
                      owner |-> [before.owner EXCEPT ![order[k]] = g]]
    IN  step[Len(order)].owner

getLoadBalancedLevels(s, group, numGroups, bdry, laterFirst) ==
    LET owner == LoadBalancedGroups(s, numGroups, bdry, laterFirst)
    IN  SelectSeq(TasksByLoad(s, bdry, laterFirst), LAMBDA i : owner[i] = group)

=============================================================================
