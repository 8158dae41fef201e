---------------------- MODULE DistributedHierarchization ----------------------
(***************************************************************************)
(* What a process group does on its distributed full grids: hierarchizing  *)
(* and dehierarchizing dimension by dimension, with the exchange of the    *)
(* values each process needs from the poles it shares with others; adding  *)
(* the coefficients to the sparse grid and extracting them on another      *)
(* level; the ghost layers of the advection examples; gathering, mirroring *)
(* and evaluating a grid.                                                  *)
(*                                                                         *)
(* Values are integers scaled such that every division by two is exact.    *)
(* Sends are buffered; a receive takes the first message of its source and *)
(* tag, and processes run ahead of each other into the next operation.     *)
(***************************************************************************)
EXTENDS GeneTask, TLC

CONSTANTS Setups, None

VARIABLES
    in,        \* grids, basis, lmin, initial values and program of the run
    stage,     \* per process: the index of its operation in the program
    dim,       \* per process: the dimension the operation has come to
    on,        \* per process: the grid it works on, "grid" or "target"
    data,      \* per process: the values by local linear index
    grad,      \* per process: u_dot_dphi of the advection task
    checkpoint, \* per process: GENE's local checkpoint, or None
    posted,    \* per process: the receives of MPI_Waitall, or None
    channel,   \* messages by sender and receiver, in the order sent
    full,      \* the grid gathered at rank 0
    result,    \* what the Allreduces of an evaluation yield
    failed     \* an assertion failed, or a message was truncated

vars == <<in, stage, dim, on, data, grad, checkpoint, posted, channel, full, result, failed>>

Procs == Ranks(in.grid)
TransferGhostLayerTag == 32767 - 9
Garbage == 10007 * 512      \* what a reused tmp holds where nothing was copied
Op(p) == in.program[stage[p]]
GeneLocal == {"writeLocalCheckpoint", "InitLocalCheckpoint", "initDFG", "initDFG2", "getDFG"}
Of(p) == in[on[p]]
Running(p) == stage[p] <= Len(in.program)

First(g, p, d) == g.lower[p][d]
Last1d(g, p, d) == g.upper[p][d] - 1
Owner(g, p, d, i) == getNeighbor1dFromAxisIndex(g, p, d, i)

\* Pairs <<rank, index>> as the code's map from ranks to sets of indices.
ByRank(pairs) == [r \in {x[1] : x \in pairs} |-> {x[2] : x \in {y \in pairs : y[1] = r}}]

-----------------------------------------------------------------------------
(* Which indices are sent to and received from whom *)

getNextIndex1d(g, p, d, i) ==
    LET valid == {j \in (i + 1)..Last1d(g, p, d) :
                     getLevel(g, d, j) \in {g.level[d], getLevel(g, d, i) + 1}}
    IN  IF valid = {} THEN i + 1 ELSE Min(valid)

exchangeAllData1d(g, p, d) ==
    LET mine == First(g, p, d)..Last1d(g, p, d)
    IN  [send |-> [r \in getAllMyPoleNeighborRanks(g, p, d) |-> mine],
         recv |-> ByRank({<<Owner(g, p, d, i), i>> : i \in (0..(g.sizes[d] - 1)) \ mine})]

\* The indices the main loop of exchangeData1d comes to.
HierarchizedIndices(g, p, d) ==
    LET next(i) ==
            LET right == i + Pow2(g.level[d] - getLevel(g, d, i))
            IN  IF getLevel(g, d, i) = 0 \/ right > Last1d(g, p, d) THEN getNextIndex1d(g, p, d, i) ELSE right
        from[i \in First(g, p, d)..g.sizes[d]] ==
            IF i > Last1d(g, p, d) THEN {} ELSE {i} \cup from[next(i)]
    IN  from[First(g, p, d)]

\* Mutant: the periodic predecessor of the last points is not asked for.
exchangeData1dNotWrapped(g, p, d, lmin) ==
    LET outside(i) == i \in (0..(g.sizes[d] - 1)) \ (First(g, p, d)..Last1d(g, p, d))
        neighbours(i, l) == {i - Pow2(g.level[d] - l), i + Pow2(g.level[d] - l)}
        all == HierarchizedIndices(g, p, d)
    IN  [send |-> ByRank(UNION {UNION {{<<Owner(g, p, d, s), i>> : s \in {t \in neighbours(i, l) : outside(t)}} :
                    l \in (Max({getLevel(g, d, i), lmin}) + 1)..g.level[d]} : i \in all}),
         recv |-> ByRank(UNION {{<<Owner(g, p, d, t), t>> :
                    t \in {s \in neighbours(i, getLevel(g, d, i)) : outside(s)}} :
                    i \in {j \in all : getLevel(g, d, j) > lmin}})]

\* Direct predecessors only.  A one-sided boundary wraps around: the point at the end is index 0.
exchangeData1d(g, p, d, lmin) ==
    LET outside(i) == i \in (0..(g.sizes[d] - 1)) \ (First(g, p, d)..Last1d(g, p, d))
        neighbours(i, l) == {i - Pow2(g.level[d] - l), i + Pow2(g.level[d] - l)}
        successors(i) == UNION {neighbours(i, l) : l \in (Max({getLevel(g, d, i), lmin}) + 1)..g.level[d]}
        oneSided == g.bdry[d] = 1
        wrapped(i) == IF oneSided /\ i = 0
                      THEN {g.sizes[d] + s : s \in {t \in successors(i) : t < 0}} ELSE {}
        all == HierarchizedIndices(g, p, d)
        refined == {i \in all : getLevel(g, d, i) > lmin}
        needed(i) == {t \in neighbours(i, getLevel(g, d, i)) : outside(t)}
        needsEnd(i) == oneSided /\ i + Pow2(g.level[d] - getLevel(g, d, i)) = g.sizes[d]
                                /\ Owner(g, p, d, 0) # p
    IN  [send |-> ByRank(UNION {{<<Owner(g, p, d, s), i>> :
                    s \in {t \in successors(i) : outside(t)}
                          \cup {t \in wrapped(i) : t > Last1d(g, p, d)}} : i \in all}),
         recv |-> ByRank(UNION {{<<Owner(g, p, d, t), t>> :
                    t \in needed(i) \cup (IF needsEnd(i) THEN {0} ELSE {})} : i \in refined})]

\* checkLeftSuccesors: the owners of the points to the left that depend on root.
checkLeftSuccesors(g, p, d, root, lmin) ==
    LET lmax == g.level[d]
        from[i \in 0..(g.sizes[d] - 1)] ==
            LET paths == {s \in {i - Pow2(lmax - l) : l \in (getLevel(g, d, i) + 1)..lmax} :
                             s >= 0 /\ (i = root => getLevel(g, d, s) > lmin)}
            IN  {Owner(g, p, d, s) : s \in {t \in paths : t < First(g, p, d) /\ getLevel(g, d, t) > lmin}}
                    \cup UNION {from[s] : s \in paths}
    IN  from[root]

checkRightSuccesors(g, p, d, root, lmin) ==
    LET lmax == g.level[d]
        from[i \in 0..(g.sizes[d] - 1)] ==
            LET paths == {s \in {i + Pow2(lmax - l) : l \in (getLevel(g, d, i) + 1)..lmax} :
                             i = root => getLevel(g, d, s) > lmin}
                inside == {s \in paths : s < g.sizes[d]}
                refined == {s \in paths : getLevel(g, d, s) > lmin}
                mirrored == {g.sizes[d] - s : s \in refined}
            IN  {Owner(g, p, d, s) : s \in {t \in refined \cap inside : t > Last1d(g, p, d)}}
                    \cup {Owner(g, p, d, m) : m \in {t \in mirrored :
                             root = 0 /\ g.bdry[d] = 1 /\ t > Last1d(g, p, d)}}
                    \cup UNION {from[s] : s \in inside}
    IN  from[root] \ {-1}

\* Mutant: does not ask for index 0 as the end of the periodic domain.
checkPredecessorsNotWrapped(g, p, d, i, lmin) ==
    LET of[j \in 0..(g.sizes[d] - 1)] ==
            LET left == getLeftPredecessor(g, d, j)
                right == getRightPredecessor(g, d, j)
            IN  IF getLevel(g, d, j) <= lmin THEN {}
                ELSE (IF 0 <= left /\ left < First(g, p, d) THEN {left} ELSE {})
                     \cup (IF left >= 0 /\ getLevel(g, d, left) >= lmin THEN of[left] ELSE {})
                     \cup (IF right <= Last1d(g, p, d) \/ right = g.sizes[d] THEN {}
                           ELSE {right} \cup (IF getLevel(g, d, right) >= lmin THEN of[right] ELSE {}))
    IN  of[i]

\* checkPredecessors: all ancestors of i outside the partition.
checkPredecessors(g, p, d, i, lmin) ==
    LET of[j \in 0..(g.sizes[d] - 1)] ==
            LET left == getLeftPredecessor(g, d, j)
                right == getRightPredecessor(g, d, j)
                isEnd == g.bdry[d] = 1 /\ right = g.sizes[d]
            IN  IF getLevel(g, d, j) <= lmin THEN {}
                ELSE (IF 0 <= left /\ left < First(g, p, d) THEN {left} ELSE {})
                     \cup (IF left >= 0 /\ getLevel(g, d, left) >= lmin THEN of[left] ELSE {})
                     \cup (IF right < 0 \/ right <= Last1d(g, p, d) THEN {}
                           ELSE IF isEnd THEN IF First(g, p, d) > 0 THEN {0} ELSE {}
                           ELSE {right} \cup (IF getLevel(g, d, right) >= lmin THEN of[right] ELSE {}))
    IN  of[i]

DehierarchizedIndices(g, p, d, lmin) ==
    LET next(i) ==
            LET right == getRightPredecessor(g, d, i)
            IN  IF getLevel(g, d, i) <= lmin \/ right < 0 \/ right > Last1d(g, p, d)
                THEN getNextIndex1d(g, p, d, i) ELSE right
        from[i \in First(g, p, d)..g.sizes[d]] ==
            IF i > Last1d(g, p, d) THEN {} ELSE {i} \cup from[next(i)]
    IN  from[First(g, p, d)]

exchangeData1dDehierarchization(g, p, d, lmin) ==
    LET all == DehierarchizedIndices(g, p, d, lmin)
    IN  [send |-> ByRank(UNION {{<<r, i>> : r \in checkLeftSuccesors(g, p, d, i, lmin)
                                                  \cup checkRightSuccesors(g, p, d, i, lmin)} : i \in all}),
         recv |-> ByRank(UNION {{<<Owner(g, p, d, t), t>> : t \in checkPredecessors(g, p, d, i, lmin)} : i \in all})]

Hats == {"HierarchicalHat", "HierarchicalHatPeriodic"}

Exchange(g, p, d, op) ==
    IF in.basis[d] \notin Hats THEN exchangeAllData1d(g, p, d)
    ELSE IF op = "hierarchize" THEN exchangeData1d(g, p, d, in.lmin[d])
    ELSE exchangeData1dDehierarchization(g, p, d, in.lmin[d])

-----------------------------------------------------------------------------
(* The values on a pole *)

Poles(g, p, d) == 0..(getNrLocalElements(g, p) \div getLocalSizes(g, p)[d] - 1)

\* The local linear index of local position k on pole m.
OnPole(g, p, d, m, k) ==
    LET stride == getLocalOffsets(g, p)[d]
    IN  (m \div stride) * stride * getLocalSizes(g, p)[d] + (m % stride) + k * stride

\* The (d-1)-dimensional slice at global 1-d index i, as the subarray datatype and RemoteDataSlice hold it.
Slice(g, p, d, values, i) == [m \in Poles(g, p, d) |-> values[OnPole(g, p, d, m, i - First(g, p, d))]]

Steps(lmax, lmin) == [k \in 1..(lmax - lmin) |-> Pow2(k - 1)]
Half(n) == n \div 2
Odd(i, s) == i % (2 * s) = s
Even(i, s) == i % (2 * s) = 0

\* One step of hierarchize_hat_boundary_kernel (sign -1) or its inverse (sign 1).
HatStep(f, s, sign) ==
    [i \in DOMAIN f |-> IF Odd(i, s) THEN f[i] + sign * Half(f[i - s]) + sign * Half(f[i + s]) ELSE f[i]]

\* The values at even indices: inner(i), and both ends of the pole.
EvenStep(f, s, inner(_), start, end) ==
    [i \in DOMAIN f |-> IF i = 0 THEN start ELSE IF i = Max(DOMAIN f) THEN end
                        ELSE IF Even(i, s) THEN inner(i) ELSE f[i]]

hierarchize_full_weighting(f, s, periodic) ==
    LET n == Max(DOMAIN f)
        both == (f[0] + f[n] + f[s] + f[n - s]) \div 4
        weighted(i) == (f[i - s] + f[i + s] + 2 * f[i]) \div 4
    IN  HatStep(EvenStep(f, s, weighted,
                    IF periodic THEN both ELSE (f[0] + f[s]) \div 2,
                    IF periodic THEN both ELSE (f[n] + f[n - s]) \div 2), s, -1)

dehierarchize_full_weighting(a, s, periodic) ==
    LET f == HatStep(a, s, 1)
        n == Max(DOMAIN f)
        both == f[0] + f[n] - Half(f[s] + f[n - s])
        unweighted(i) == 2 * f[i] - Half(f[i - s] + f[i + s])
    IN  EvenStep(f, s, unweighted,
            IF periodic THEN both ELSE 2 * f[0] - f[s], IF periodic THEN both ELSE 2 * f[n] - f[n - s])

hierarchize_biorthogonal(a, s, periodic) ==
    LET f == HatStep(a, s, -1)
        n == Max(DOMAIN f)
        both == Half(f[0] + f[n]) + (f[s] + f[n - s]) \div 4
        lifted(i) == f[i] + (f[i - s] + f[i + s]) \div 4
    IN  EvenStep(f, s, lifted,
            IF periodic THEN both ELSE f[0] + Half(f[s]), IF periodic THEN both ELSE f[n] + Half(f[n - s]))

dehierarchize_biorthogonal(f, s, periodic) ==
    LET n == Max(DOMAIN f)
        both == Half(f[0] + f[n]) - (f[s] + f[n - s]) \div 4
        lowered(i) == f[i] - (f[i - s] + f[i + s]) \div 4
    IN  HatStep(EvenStep(f, s, lowered,
            IF periodic THEN both ELSE f[0] - Half(f[s]), IF periodic THEN both ELSE f[n] - Half(f[n - s])), s, 1)

\* The kernel the dispatch of hierarchize and dehierarchize chooses; BiorthogonalBasisFunction
\* gets the full weighting one.
Kernel(f, lmax, lmin, basis, op) ==
    LET up == Steps(lmax, lmin)
        periodic == basis \in {"FullWeightingPeriodic", "BiorthogonalPeriodic"}
    IN  IF op = "hierarchize"
        THEN FoldLeft(LAMBDA a, s :
                CASE basis \in Hats -> HatStep(a, s, -1)
                  [] basis = "BiorthogonalPeriodic" -> hierarchize_biorthogonal(a, s, periodic)
                  [] OTHER -> hierarchize_full_weighting(a, s, periodic), f, up)
        ELSE FoldLeft(LAMBDA a, s :
                CASE basis \in Hats -> HatStep(a, s, 1)
                  [] basis = "BiorthogonalPeriodic" -> dehierarchize_biorthogonal(a, s, periodic)
                  [] OTHER -> dehierarchize_full_weighting(a, s, periodic), f, Reverse(up))

\* tmp: the local values, what was received and what an earlier pole left.
Gathered(g, p, d, values, remote, m) ==
    [i \in 0..(g.sizes[d] - 1) |->
        IF First(g, p, d) <= i /\ i <= Last1d(g, p, d) THEN values[OnPole(g, p, d, m, i - First(g, p, d))]
        ELSE IF i \in DOMAIN remote THEN remote[i][m]
        ELSE Garbage]

\* hierarchizeWithBoundary: a one-sided pole gets the virtual last value, which is its first.
WithBoundary(g, p, d, values, remote, m, op) ==
    LET pole == Gathered(g, p, d, values, remote, m)
        tmp == IF g.bdry[d] = 1 THEN pole @@ (g.sizes[d] :> pole[0]) ELSE pole
    IN  Kernel(tmp, g.level[d], in.lmin[d], in.basis[d], op)

\* One level of hierarchizeNoBoundary (sign -1, the own points) or dehierarchizeNoBoundary (sign 1).
NoBoundaryStep(g, p, d, f, l, sign) ==
    LET s == Pow2(g.level[d] - l)
    IN  [i \in DOMAIN f |->
            IF getLevel(g, d, i) # l \/ (sign = -1 /\ ~(First(g, p, d) <= i /\ i <= Last1d(g, p, d))) THEN f[i]
            ELSE f[i] + sign * Half(IF i - s > 0 THEN f[i - s] ELSE 0)
                      + sign * Half(IF i + s < g.sizes[d] THEN f[i + s] ELSE 0)]

NoBoundary(g, p, d, values, remote, m, op) ==
    LET pole == Gathered(g, p, d, values, remote, m)
        lmax == g.level[d]
    IN  IF op = "hierarchize"
        THEN FoldLeft(LAMBDA f, l : NoBoundaryStep(g, p, d, f, l, -1), pole, [k \in 1..lmax |-> lmax + 1 - k])
        ELSE FoldLeft(LAMBDA f, l : NoBoundaryStep(g, p, d, f, l, 1), pole, [k \in 1..(lmax - 1) |-> k + 1])

\* One dimension of hierarchize or dehierarchize: all poles, copied back.
Transform(g, p, d, values, remote, op) ==
    LET tmp == [m \in Poles(g, p, d) |->
                   IF g.bdry[d] > 0 THEN WithBoundary(g, p, d, values, remote, m, op)
                   ELSE NoBoundary(g, p, d, values, remote, m, op)]
        stride == getLocalOffsets(g, p)[d]
        n == getLocalSizes(g, p)[d]
    IN  [li \in DOMAIN values |->
            tmp[(li \div (stride * n)) * stride + (li % stride)][First(g, p, d) + ((li \div stride) % n)]]

-----------------------------------------------------------------------------
(* Communication *)

NoRanks == [r \in {} |-> 0]
Ascending(S) == SelectSeq([k \in 1..(Max(S) + 1) |-> k - 1], LAMBDA i : i \in S)

\* sendAndReceiveIndicesBlock: one message per receiver, its tag the first index.
IndicesBlock(p, d, op) ==
    LET g == Of(p)
        e == Exchange(g, p, d, op)
    IN  [send |-> [r \in DOMAIN e.send |->
                      [tag |-> Min(e.send[r]),
                       slices |-> LET sorted == Ascending(e.send[r])
                                  IN  [k \in DOMAIN sorted |-> Slice(g, p, d, data[p], sorted[k])]]],
         recv |-> [r \in DOMAIN e.recv |-> [tag |-> Min(e.recv[r]), keys |-> Ascending(e.recv[r])]]]

\* MPI_Cart_shift: the ranks displacement before and after p, or -1.
CartShift(g, p, d, displacement, periodic) ==
    LET c == CartCoords(g.procs, p)
        at(i) == IF periodic THEN getNeighbor1dFromPartitionIndex(g, p, d, i % g.procs[d])
                 ELSE IF i \in 0..(g.procs[d] - 1) THEN getNeighbor1dFromPartitionIndex(g, p, d, i)
                 ELSE -1
    IN  [lower |-> at(c[d] - displacement), higher |-> at(c[d] + displacement)]

Only(r, x) == IF r < 0 THEN NoRanks ELSE r :> x

\* exchangeGhostLayerUpward: the highest layer goes to the next process.
GhostLayer(p, d) ==
    LET g == Of(p)
        near == CartShift(g, p, d, 1, g.bdry[d] = 1)
    IN  [send |-> Only(near.higher, [tag |-> TransferGhostLayerTag, slices |-> <<Slice(g, p, d, data[p], Last1d(g, p, d))>>]),
         recv |-> Only(near.lower, [tag |-> TransferGhostLayerTag, keys |-> <<"ghost">>])]

\* writeLowerBoundaryToUpperBoundary, with getHighestAndLowestNeighbor.
LowerBoundary(p, d) ==
    LET g == Of(p)
        far == CartShift(g, p, d, g.procs[d] - 1, g.bdry[d] = 1)
    IN  [send |-> Only(far.higher, [tag |-> TransferGhostLayerTag, slices |-> <<Slice(g, p, d, data[p], First(g, p, d))>>]),
         recv |-> Only(far.lower, [tag |-> TransferGhostLayerTag, keys |-> <<"upper">>])]

\* gatherFullGrid to rank 0.
ToRoot(p) ==
    [send |-> 0 :> [tag |-> 0, slices |-> <<data[p]>>],
     recv |-> IF p = 0 THEN [r \in Procs |-> [tag |-> 0, keys |-> <<r>>]] ELSE NoRanks]

\* adaptBoundaryZglobal: the first layer in z goes to the processes with the last one.
BoundaryZ(p, values) ==
    LET g == in.grid
        other == OtherEndZ(g, p)
    IN  [send |-> IF SendsZ(g, p)
                  THEN other :> [tag |-> TagBoundaryZ, slices |-> <<Slice(g, p, Z, values, 0)>>] ELSE NoRanks,
         recv |-> IF AdaptsZ(g, p) /\ g.procs[Z] > 1
                  THEN other :> [tag |-> TagBoundaryZ, keys |-> <<"z">>] ELSE NoRanks]

\* The values p's operation starts with: setDFG first copies the checkpoint.
Before(p) ==
    IF Op(p) = "setDFG" THEN copyCheckpoint(in.grid, p, data[p], checkpoint[p]) ELSE data[p]

Messages(p) ==
    CASE Op(p) = "setDFG" -> BoundaryZ(p, Before(p))
      [] Op(p) \in {"hierarchize", "dehierarchize"} -> IndicesBlock(p, dim[p], Op(p))
      [] Op(p) = "advect" -> GhostLayer(p, dim[p])
      [] Op(p) = "mirror" -> LowerBoundary(p, dim[p])
      [] Op(p) = "gather" -> ToRoot(p)

\* MPI_Isend and MPI_Irecv of one dimension of p's operation.
Post(p) ==
    /\ Running(p) /\ posted[p] = None
    /\ Op(p) \notin {"combine", "evaluate"} \cup GeneLocal
    /\ LET m == Messages(p)
       IN  /\ posted' = [posted EXCEPT ![p] = m.recv]
           /\ channel' = [channel EXCEPT ![p] = [q \in Procs |->
                  IF q \in DOMAIN m.send THEN Append(@[q], m.send[q]) ELSE @[q]]]
    /\ data' = [data EXCEPT ![p] = Before(p)]
    /\ failed' = (failed \/ (Op(p) = "setDFG" /\ ~ (/\ XBoundariesZero(in.gene, in.grid, p, Before(p))
                                                    /\ adaptBoundaryZglobalAsserts(in.gene, in.grid))))
    /\ UNCHANGED <<in, stage, dim, on, grad, checkpoint, full, result>>

\* The first message from q to p with the tag of the receive.
Matching(p, q) == {k \in DOMAIN channel[q][p] : channel[q][p][k].tag = posted[p][q].tag}
Arrived(p, q) == channel[q][p][Min(Matching(p, q))].slices

\* The received slices by index: a shorter message leaves zeros in the rest of the buffers.
RemoteData(p) ==
    LET zero(d) == [m \in Poles(Of(p), p, d) |-> 0]
        of(q) == LET keys == posted[p][q].keys
                 IN  [i \in Range(keys) |->
                         LET k == CHOOSE n \in DOMAIN keys : keys[n] = i
                         IN  IF k <= Len(Arrived(p, q)) THEN Arrived(p, q)[k] ELSE zero(dim[p])]
    IN  FoldSet(LAMBDA q, f : of(q) @@ f, NoRanks, DOMAIN posted[p])

\* The update of u_dot_dphi in dimension d: first with a wrong neighbour for the lowest
\* layer, which is then compensated by the ghost layer.
Gradient(g, p, d, values, ghost) ==
    LET n == getNrLocalElements(g, p)
        offset == getLocalOffsets(g, p)[d]
        neighbour(li) == values[(li - offset + n) % n]
        pole(li) == (li \div (offset * getLocalSizes(g, p)[d])) * offset + (li % offset)
        lowest(li) == (li \div offset) % getLocalSizes(g, p)[d] = 0
    IN  [li \in DOMAIN values |->
            Pow2(g.level[d]) * ((values[li] - neighbour(li))
                + (IF lowest(li) THEN neighbour(li) - ghost[pole(li)] ELSE 0))]

\* p's operation is done, or goes on to the next dimension.
Advance(p) ==
    IF dim[p] < Len(in.grid.level) /\ Op(p) \notin {"gather", "setDFG"}
    THEN dim' = [dim EXCEPT ![p] = @ + 1] /\ stage' = stage
    ELSE dim' = [dim EXCEPT ![p] = 1] /\ stage' = [stage EXCEPT ![p] = @ + 1]

Used(p, d, g) ==
    LET remote == RemoteData(p)
    IN  CASE Op(p) \in {"hierarchize", "dehierarchize"} ->
                 /\ data' = [data EXCEPT ![p] = Transform(g, p, d, @, remote, Op(p))]
                 /\ UNCHANGED <<grad, full>>
          [] Op(p) = "advect" ->
                 LET sum == [li \in DOMAIN grad[p] |->
                                grad[p][li] + Gradient(g, p, d, data[p], remote["ghost"])[li]]
                 IN  IF d < Len(g.level)
                     THEN grad' = [grad EXCEPT ![p] = sum] /\ UNCHANGED <<data, full>>
                     ELSE /\ data' = [data EXCEPT ![p] = [li \in DOMAIN @ |-> @[li] - sum[li] \div in.stepsPerUnit]]
                          /\ grad' = [grad EXCEPT ![p] = [li \in DOMAIN @ |-> 0]]
                          /\ full' = full
          [] Op(p) = "mirror" ->
                 /\ data' = [data EXCEPT ![p] =
                        IF "upper" \notin DOMAIN remote THEN @
                        ELSE [m \in {OnPole(g, p, d, n, getLocalSizes(g, p)[d] - 1) : n \in Poles(g, p, d)} |->
                                 remote["upper"][CHOOSE n \in Poles(g, p, d) :
                                     OnPole(g, p, d, n, getLocalSizes(g, p)[d] - 1) = m]] @@ @]
                 /\ UNCHANGED <<grad, full>>
          [] Op(p) = "setDFG" ->
                 /\ data' = [data EXCEPT ![p] =
                        IF ~AdaptsZ(g, p) THEN @
                        ELSE adaptBoundaryZKernel(in.gene, g, p,
                                 IF g.procs[Z] = 1 THEN Slice(g, p, Z, @, 0) ELSE remote["z"], @)]
                 /\ UNCHANGED <<grad, full>>
          [] Op(p) = "gather" ->
                 /\ full' = IF p # 0 THEN full
                            ELSE [i \in 0..(SizeOf(g.sizes) - 1) |->
                                     LET r == CHOOSE q \in Procs : isGlobalIndexHere(g, q, getVectorIndex(g.sizes, i))
                                     IN  remote[r][getLocalLinearIndex(g, r, getVectorIndex(g.sizes, i))]]
                 /\ UNCHANGED <<data, grad>>

\* MPI_Waitall returns; the received values are used.
Waitall(p) ==
    /\ posted[p] # None
    /\ \A q \in DOMAIN posted[p] : Matching(p, q) # {}
    /\ failed' = (failed \/ (\E q \in DOMAIN posted[p] : Len(Arrived(p, q)) > Len(posted[p][q].keys))
                         \/ (Op(p) = "setDFG" /\ AdaptsZ(in.grid, p)
                                /\ ~adaptBoundaryZKernelAsserts(in.gene, in.grid, p)))
    /\ channel' = [q \in Procs |-> IF q \in DOMAIN posted[p]
                                   THEN [channel[q] EXCEPT ![p] = RemoveAt(@, Min(Matching(p, q)))]
                                   ELSE channel[q]]
    /\ posted' = [posted EXCEPT ![p] = None]
    /\ Used(p, dim[p], Of(p))
    /\ Advance(p)
    /\ UNCHANGED <<in, on, checkpoint, result>>

-----------------------------------------------------------------------------
(* Operations without messages of their own *)

\* registerDistributedFullGrid and addDistributedFullGrid of the hierarchical coefficients.
ToSparseGrid(g, p, values) ==
    [l \in getDownSet(g.level) |->
        LET points == getFGPointsOfSubspace(g, p, l) IN [k \in DOMAIN points |-> values[points[k]]]]

\* extractFromUniformSG: subspaces the sparse grid does not have stay zero.
FromSparseGrid(g, p, dsg) ==
    LET subspaces == getDownSet(g.level) \cap DOMAIN dsg
        points(l) == getFGPointsOfSubspace(g, p, l)
    IN  [li \in LocalIndices(g, p) |->
            IF \E l \in subspaces : li \in Range(points(l))
            THEN LET l == CHOOSE s \in subspaces : li \in Range(points(s))
                     k == CHOOSE n \in DOMAIN points(l) : points(l)[n] = li
                 IN  IF k <= Len(dsg[l]) THEN dsg[l][k] ELSE Garbage
            ELSE 0]

\* Add the own grid to the sparse grid and take the target from it, as interpolateAndPlotOnLevel does.
Combine(p) ==
    /\ Running(p) /\ Op(p) = "combine"
    /\ LET dsg == ToSparseGrid(in.grid, p, data[p])
       IN  /\ data' = [data EXCEPT ![p] = FromSparseGrid(in.target, p, dsg)]
           /\ failed' = (failed \/ \E l \in getDownSet(in.target.level) \cap DOMAIN dsg :
                             Len(dsg[l]) # Len(getFGPointsOfSubspace(in.target, p, l)))
    /\ on' = [on EXCEPT ![p] = "target"]
    /\ stage' = [stage EXCEPT ![p] = @ + 1]
    /\ UNCHANGED <<in, dim, grad, checkpoint, posted, channel, full, result>>

\* getInterpolatedValues, getLpNorm and getCornersValues: every process takes part in the Allreduces.
Evaluate ==
    /\ \A p \in Procs : Running(p) /\ Op(p) = "evaluate"
    /\ LET g == in.grid
           over(f(_)) == MapThenSumSet(f, Procs)
       IN  result' =
               [values |-> [c \in in.coords |-> over(LAMBDA p : evalLocal(g, p, in.M, data[p], c))],
                norm |-> over(LAMBDA p : LocalNorm(g, p, data[p])),
                maximum |-> Max({LocalMaximum(g, p, data[p]) : p \in Procs}),
                corners |-> [v \in Corners(g) |-> over(LAMBDA p : LocalCorners(g, p, data[p])[v])]]
    /\ stage' = [p \in Procs |-> stage[p] + 1]
    /\ UNCHANGED <<in, dim, on, data, grad, checkpoint, posted, channel, full, failed>>

\* dfgVector_.size() # 0.
DfgExists(p) == \E k \in 1..(stage[p] - 1) : in.program[k] \in {"initDFG", "initDFG2"}

\* What GENE calls on its process: the checkpoint is written with GENE's values or created with
\* zeros, the full grid is created (setZero) and copied back to the checkpoint.
Gene(p) ==
    /\ Running(p) /\ Op(p) \in GeneLocal
    /\ checkpoint' = [checkpoint EXCEPT ![p] =
           CASE Op(p) = "writeLocalCheckpoint" -> writeLocalCheckpoint(in.gene, in.grid, p, in.gene.data)
             [] Op(p) = "InitLocalCheckpoint" -> InitLocalCheckpoint(in.gene, in.grid, p)
             [] Op(p) = "getDFG" -> getDFG(in.grid, p, data[p], @)
             [] OTHER -> @]
    /\ data' = [data EXCEPT ![p] =
           IF Op(p) = "initDFG2" \/ (Op(p) = "initDFG" /\ ~DfgExists(p)) THEN [li \in DOMAIN @ |-> 0] ELSE @]
    /\ failed' = (failed \/ (Op(p) \in {"writeLocalCheckpoint", "InitLocalCheckpoint"}
                                /\ ~CheckpointSizesRight(in.gene, in.grid.level, in.gene.sizes)))
    /\ stage' = [stage EXCEPT ![p] = @ + 1]
    /\ UNCHANGED <<in, dim, on, grad, posted, channel, full, result>>

Init ==
    /\ in \in Setups
    /\ stage = [p \in Procs |-> 1]
    /\ dim = [p \in Procs |-> 1]
    /\ on = [p \in Procs |-> "grid"]
    /\ data = [p \in Procs |-> [li \in LocalIndices(in.grid, p) |->
                                   in.values[getGlobalLinearIndex(in.grid, p, li)]]]
    /\ grad = [p \in Procs |-> [li \in LocalIndices(in.grid, p) |-> 0]]
    /\ checkpoint = [p \in Procs |-> None]
    /\ posted = [p \in Procs |-> None]
    /\ channel = [p \in Procs |-> [q \in Procs |-> <<>>]]
    /\ full = None
    /\ result = None
    /\ failed = ~ DecompositionAllowed(in.grid.decomposition)

Finished == \A p \in Procs : ~Running(p)
Terminated == Finished /\ UNCHANGED vars

Next == \/ \E p \in Procs : Post(p) \/ Waitall(p) \/ Combine(p) \/ Gene(p)
        \/ Evaluate
        \/ Terminated

Spec == Init /\ [][Next]_vars

-----------------------------------------------------------------------------
(* Properties *)

N(g, d) == Pow2(g.level[d])

\* The value at a vector index of the initial grid: zero beyond a grid without boundary points,
\* periodic if the boundary is one-sided.
At(v) ==
    LET g == in.grid
        w == [d \in DOMAIN v |-> IF g.bdry[d] = 1 THEN v[d] % N(g, d) ELSE v[d]]
    IN  IF \E d \in DOMAIN w : w[d] \notin 0..(g.sizes[d] - 1) THEN 0
        ELSE in.values[sequentialIndex(g.sizes, w)]

Here(p, li) == getGlobalVectorIndex(Of(p), p, li)

\* p has completed the operations `done` and not begun the next.
Completed(p, done) ==
    /\ stage[p] = Len(done) + 1 /\ dim[p] = 1 /\ posted[p] = None
    /\ SubSeq(in.program, 1, Len(done)) = done

AllHats == \A d \in Dims(in.grid) : in.basis[d] \in Hats
Refined(d, i) == getLevel(in.grid, d, i) > in.lmin[d]

\* With hats, a coefficient is the nodal value minus the mean of the two neighbours of its level,
\* in every dimension in which its level is above lmin.
Surplus(v) ==
    LET g == in.grid
        s(d) == Pow2(g.level[d] - getLevel(g, d, v[d]))
    IN  MapThenSumSet(LAMBDA n :
            At([d \in Dims(g) |-> v[d] + n[d] * (IF Refined(d, v[d]) THEN s(d) ELSE 0)])
                * SizeOf([d \in Dims(g) |-> IF n[d] = 0 THEN 2 ELSE IF Refined(d, v[d]) THEN -1 ELSE 0]),
            [Dims(g) -> {-1, 0, 1}])

SurplusesRight ==
    AllHats => \A p \in Procs : Completed(p, <<"hierarchize">>) =>
        \A li \in DOMAIN data[p] :
            data[p][li] * Pow2(Len(in.grid.level)) = Surplus(Here(p, li))

\* The integral of the grid's function over the points of levels up to `top`.
Mass(value(_), top) ==
    LET g == in.grid
        weight(v) == SizeOf([d \in Dims(g) |->
            IF getLevel(g, d, v[d]) > top[d] THEN 0
            ELSE Pow2(g.level[d] - top[d]) * (IF g.bdry[d] = 2 /\ v[d] \in {0, g.sizes[d] - 1} THEN 1 ELSE 2)])
    IN  MapThenSumSet(LAMBDA i : weight(getVectorIndex(g.sizes, i)) * value(getVectorIndex(g.sizes, i)),
                      0..(SizeOf(g.sizes) - 1))

WaveletsConserveMass ==
    (/\ \A d \in Dims(in.grid) : in.basis[d] \notin Hats
     /\ \A p \in Procs : Completed(p, <<"hierarchize">>)) =>
        Mass(LAMBDA v : LET p == CHOOSE q \in Procs : isGlobalIndexHere(in.grid, q, v)
                        IN  data[p][getLocalLinearIndex(in.grid, p, v)], in.lmin)
            = Mass(LAMBDA v : At(v), in.grid.level)

InverseRestores ==
    \A p \in Procs : Completed(p, <<"hierarchize", "dehierarchize">>) =>
        \A li \in DOMAIN data[p] : data[p][li] = At(Here(p, li))

\* The grid as a single process holds it, with the given values.
Whole(values) == setElementVector(FullGrid(in.grid.level, in.grid.bdry), values)

\* The serial hierarchization of the whole grid gives the same coefficients, and its inverse the values.
SerialTransformsAgree ==
    (AllHats /\ \A d \in Dims(in.grid) : in.lmin[d] = 0 /\ in.grid.bdry[d] # 1) =>
        \A p \in {q \in Procs : Completed(q, <<"hierarchize">>)} :
            \A fg \in {hierarchize(Whole(in.values))} :
                /\ \A li \in DOMAIN data[p] : data[p][li] = fg.data[getGlobalLinearIndex(in.grid, p, li)]
                /\ dehierarchize(fg) = Whole(in.values)

\* However the poles are split over processes and however far these run ahead of each other,
\* hierarchize yields the hierarchical surpluses (hats), as the serial code does for the whole
\* grid, or conserves the mass (wavelets), and dehierarchize is its inverse.
TransformsRight == SurplusesRight /\ SerialTransformsAgree /\ WaveletsConserveMass /\ InverseRestores

\* Every message fits the receive it is matched with, and none is left at the end.
MessagesMatch ==
    ~failed /\ (Finished => \A p, q \in Procs : channel[p][q] = <<>>)

\* The interpolation by hats on the points of level c, at the coordinates x (in units of 1/M),
\* times the product of the spacings.
Interpolated(c, x) ==
    LET g == in.grid
        h == [d \in Dims(g) |-> in.M \div Pow2(c[d])]
        index(d, k) == k * Pow2(g.level[d] - c[d]) - FirstPoint(g, d)
        hat(d, k) == Max({0, h[d] - Abs(x[d] - k * h[d])})
        nodes == [Dims(g) -> 0..Pow2(Max(Range(c)))]
    IN  MapThenSumSet(LAMBDA k :
            LET phi == SizeOf([d \in Dims(g) |-> hat(d, k[d])])
            IN  IF phi = 0 THEN 0 ELSE phi * At([d \in Dims(g) |-> index(d, k[d])]),
            {k \in nodes : \A d \in Dims(g) : k[d] <= Pow2(c[d])})

\* The subspaces of grids of different levels meet in the sparse grid, process by process and
\* point by point: the target gets the interpolant on the coarser level of the two grids.
CombinedInterpolates ==
    \A p \in Procs : Completed(p, <<"hierarchize", "combine", "dehierarchize">>) =>
        LET t == in.target
            common == [d \in Dims(t) |-> Min({t.level[d], in.grid.level[d]})]
            h == SizeOf([d \in Dims(t) |-> in.M \div Pow2(common[d])])
        IN  \A li \in DOMAIN data[p] :
                data[p][li] * h
                    = Interpolated(common, getCoordsGlobal(t, in.M, getGlobalLinearIndex(t, p, li)))

\* getInterpolatedValues gives the value of the grid's interpolant at every coordinate of the
\* closed unit cube, whatever partition a coordinate falls into.
PointsEvaluated ==
    result # None => \A c \in in.coords : result.values[c] = Interpolated(in.grid.level, c)

\* Values that several processes compute of the initial grid are those of the whole grid.
EvaluationRight ==
    result # None =>
        LET g == in.grid
            points == 0..(SizeOf(g.sizes) - 1)
            ends(v) == Cardinality({d \in Dims(g) : g.bdry[d] = 2 /\ v[d] \in {0, g.sizes[d] - 1}})
        IN  /\ PointsEvaluated
            /\ result.maximum = Max({Abs(in.values[i]) : i \in points})
            /\ result.norm = MapThenSumSet(LAMBDA i :
                   Abs(in.values[i]) * Pow2(Len(g.level) - ends(getVectorIndex(g.sizes, i))), points)
            /\ \A v \in Corners(g) : result.corners[v] = At(v)

\* One upwind step on the periodic domain.
Advected(v) ==
    At(v) - MapThenSumSet(LAMBDA d : N(in.grid, d) * (At(v) - At([v EXCEPT ![d] = @ - 1])), Dims(in.grid))
                \div in.stepsPerUnit

\* Values from other processes arrive at the points they belong to: after a step of the advection
\* task, on the boundary after writeLowerBoundaryToUpperBoundary, and in the gathered grid.
NeighbourValuesRight ==
    /\ \A p \in Procs : Completed(p, <<"advect">>) =>
           \A li \in DOMAIN data[p] : data[p][li] = Advected(Here(p, li))
    /\ \A p \in Procs : Completed(p, <<"mirror">>) =>
           \A li \in DOMAIN data[p] :
               data[p][li] = At([d \in Dims(in.grid) |-> Here(p, li)[d] % N(in.grid, d)])
    /\ full # None /\ in.gene = None => \A i \in DOMAIN full : full[i] = in.values[i]

\* Between the outermost points the serial evaluation neither continues a cell nor wraps around.
Between(c) ==
    \A d \in Dims(in.grid) :
        LET h == in.M \div Pow2(in.grid.level[d])
        IN  in.grid.sizes[d] > 1 /\ FirstPoint(in.grid, d) * h <= c[d]
                /\ (in.grid.bdry[d] < 2 => c[d] <= in.M - h)

\* The gathered grid is a grid of the serial code: its points have the same coordinates and
\* levels, its interpolant has the same values, and it can be added to a grid of other levels.
SerialGridAgrees ==
    /\ result # None =>
           /\ result.maximum = getlpNorm(Whole(in.values), 0)
           /\ \A c \in {x \in in.coords : Between(x)} : eval(Whole(in.values), in.M, c) = result.values[c]
    /\ full # None /\ in.gene = None =>
           /\ \A i \in DOMAIN full :
                  LET v == getVectorIndex(in.grid.sizes, i)
                  IN  /\ fgVectorIndex(Whole(full), i) = v /\ fgLinearIndex(Whole(full), v) = i
                      /\ getCoords(Whole(full), in.M, i) = getCoordsGlobal(in.grid, in.M, i)
                      /\ getLI(Whole(full), i).levels = [d \in DOMAIN v |-> getLevel(in.grid, d, v[d])]
           /\ \A sum \in {add(FullGrid(in.target.level, in.target.bdry), Whole(full), in.M, 3)} :
                  \A i \in DOMAIN sum :
                      LET c == getCoordsGlobal(in.target, in.M, i)
                      IN  Between(c) => sum[i] = 3 * Interpolated(in.grid.level, c)

\* GENE's values, continued by the boundary condition: on the last layer in z the shifted modes of
\* the first layer, but for the highest; zero at the other last points.
Continued(v) ==
    LET g == in.grid
        n == g.sizes[X] - 1
        last(d) == HasLastPoint(in.gene, d) /\ v[d] = g.sizes[d] - 1
        mode == getOffsetAndFactor(in.gene, v[Y] + 1, v[X])
    IN  IF \E d \in {X, Y, V, W} : last(d) THEN 0
        ELSE IF ~last(Z) THEN in.gene.data[v]
        ELSE IF ~in.gene.global /\ 2 * v[X] = n THEN 0
        ELSE mode.factor * in.gene.data[[v EXCEPT ![Z] = 0, ![X] = (@ + mode.xoffset) % n]]

\* The full grid's position of the converter's index: its x counts the modes from the lowest, its v
\* lacks the first point.
FromConverter(v) ==
    LET n == in.grid.sizes[X] - 1
    IN  [v EXCEPT ![X] = (@ + n \div 2) % n, ![V] = @ + 1]

\* The GENE grid of the converter, which has the highest mode twice.
ConverterInput ==
    LET n == in.grid.sizes[X] - 1
    IN  [v \in Box([in.gene.sizes EXCEPT ![X] = @ + 1]) |->
            in.gene.data[[v EXCEPT ![X] = IF 2 * @ <= n THEN @ ELSE @ - 1]]]

\* p has completed the operation and not begun the next.
Just(p, op) == stage[p] > 1 /\ dim[p] = 1 /\ posted[p] = None /\ in.program[stage[p] - 1] = op

\* However the grid is split, the tasks hold GENE's values with their continuation, GENE gets back
\* what it wrote, and a saved checkpoint and the older converter of a whole grid say the same.
GeneValuesRight ==
    in.gene # None =>
        /\ \A p \in Procs : Just(p, "setDFG") =>
               \A li \in DOMAIN data[p] : data[p][li] = Continued(Here(p, li))
        /\ \A p \in Procs : Just(p, "getDFG") =>
               \A u \in DOMAIN checkpoint[p] : checkpoint[p][u] = in.gene.data[Plus(in.grid.lower[p], u)]
        /\ full # None =>
               /\ in.gene.linear => saveCheckpoint(in.grid, full) = in.gene.data
               /\ ~in.gene.global => \A fg \in {GeneGridToFullGrid(ConverterInput, [in.gene.sizes EXCEPT ![X] = @ + 1])} :
                      /\ \A v \in DOMAIN fg :
                             v[X] > 0 /\ v[X] < in.grid.sizes[X] - 1 =>
                                 fg[v] = full[sequentialIndex(in.grid.sizes, FromConverter(v))]
                      /\ LET back == FullGridToGeneGrid(fg, [in.gene.sizes EXCEPT ![X] = @ + 1])
                         IN  \A v \in DOMAIN back : back[v] = IF v[V] = 0 THEN 0 ELSE ConverterInput[v]

\* A process that needs values of its neighbours, or of a point somewhere in the domain, gets the
\* right ones.
ValuesRight == EvaluationRight /\ NeighbourValuesRight /\ SerialGridAgrees /\ GeneValuesRight
=============================================================================
