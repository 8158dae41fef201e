--------------------------- MODULE Layout_proofs ---------------------------
(***************************************************************************)
(* Proofs about the arithmetic of the layout, for every number of groups,  *)
(* processes and points: who of the processes of MPISystem writes for      *)
(* whom, and where DistributedFullGrid cuts a grid, so that no process is  *)
(* left without points and the grids of a group, which are of different    *)
(* levels, are cut at the same places.                                     *)
(***************************************************************************)
EXTENDS MPISystem, DistributedFullGrid, TLAPS

-----------------------------------------------------------------------------
(* Ranks *)

\* The quotient and the remainder of a number are determined by their bounds.
LEMMA DivisionUnique ==
    ASSUME NEW n \in Nat \ {0}, NEW q \in Nat, NEW r \in 0..(n - 1), NEW x \in Nat, x = q * n + r
    PROVE  x \div n = q /\ x % n = r
<1>. DEFINE d == x \div n
            m == x % n
<1>1. d \in Nat /\ m \in 0..(n - 1) /\ x = n * d + m
  OBVIOUS
<1>. HIDE DEF d, m
<1>2. ~(d < q)
  <2>. SUFFICES ASSUME d + 1 <= q PROVE FALSE
    BY <1>1
  <2>1. n * (d + 1) <= n * q
    BY <1>1
  <2>2. n * (d + 1) = n * d + n
    BY <1>1
  <2>. QED BY <1>1, <2>1, <2>2
<1>3. ~(q < d)
  <2>. SUFFICES ASSUME q + 1 <= d PROVE FALSE
    BY <1>1
  <2>1. n * (q + 1) <= n * d
    BY <1>1
  <2>2. n * (q + 1) = n * q + n
    OBVIOUS
  <2>. QED BY <1>1, <2>1, <2>2
<1>4. d = q
  BY <1>1, <1>2, <1>3
<1>5. m = r
  BY <1>1, <1>4
<1>. QED BY <1>4, <1>5 DEF d, m

\* A number below a * b has a quotient below a.
LEMMA QuotientBound ==
    ASSUME NEW a \in Nat \ {0}, NEW b \in Nat \ {0}, NEW x \in 0..(a * b - 1)
    PROVE  x \div b \in 0..(a - 1)
<1>. DEFINE d == x \div b
            m == x % b
<1>1. d \in Nat /\ m \in 0..(b - 1) /\ x = b * d + m
  OBVIOUS
<1>. HIDE DEF d, m
<1>2. ~(a <= d)
  <2>. SUFFICES ASSUME a <= d PROVE FALSE
    OBVIOUS
  <2>1. a * b <= b * d
    BY <1>1
  <2>. QED BY <1>1, <2>1
<1>. QED BY <1>1, <1>2 DEF d

\* The process of the output group for local rank r is the process with local rank r of group
\* r % ngroup, wherever the diagonal ends: this is the member of its reduce communicator that the
\* others compute (getDiagonalRanks against getOutputRankInGlobalReduceComm), and the manager is
\* not among them.
THEOREM DiagonalRight ==
    ASSUME NEW nprocs \in Nat \ {0}, NEW ngroup \in Nat \ {0}, NEW r \in 0..(nprocs - 1)
    PROVE  LET rank == getDiagonalRanks(nprocs, ngroup)[r + 1] IN
           /\ rank \in 0..(ngroup * nprocs - 1)
           /\ rank % nprocs = r
           /\ rank \div nprocs = r % ngroup
<1>. DEFINE p == r % ngroup
            diagonal == r \div ngroup
            rank == getDiagonalRanks(nprocs, ngroup)[r + 1]
<1>1. p \in 0..(ngroup - 1) /\ diagonal \in Nat /\ r = ngroup * diagonal + p
  OBVIOUS
<1>2. rank = ((nprocs + 1) * p) + (diagonal * ngroup)
  <2>1. r + 1 \in 1..nprocs /\ (r + 1) - 1 = r
    OBVIOUS
  <2>. QED BY <2>1 DEF getDiagonalRanks
<1>. HIDE DEF p, diagonal, rank
<1>3. rank = p * nprocs + r
  <2>1. (nprocs + 1) * p = nprocs * p + p
    BY <1>1
  <2>. QED BY <1>1, <1>2, <2>1
<1>4. rank \in Nat /\ rank % nprocs = r /\ rank \div nprocs = p
  <2>1. p * nprocs \in Nat
    BY <1>1
  <2>. QED BY <1>1, <1>3, <2>1, DivisionUnique
<1>5. rank < ngroup * nprocs
  <2>1. (p + 1) * nprocs <= ngroup * nprocs
    BY <1>1
  <2>2. (p + 1) * nprocs = p * nprocs + nprocs
    BY <1>1
  <2>. QED BY <1>1, <1>3, <2>1, <2>2
<1>. QED BY <1>4, <1>5 DEF p, rank

\* If the number of parts divides the number of processes per group, there are as many parts as asked
\* for, and each has as many writers, which are neighbours (SplitOutput).
THEOREM PartsRight ==
    ASSUME NEW s, s.nprocs \in Nat \ {0}, s.parts \in 1..s.nprocs, s.nprocs % s.parts = 0
    PROVE  LET size == s.nprocs \div s.parts IN
           /\ size \in Nat \ {0} /\ s.parts * size = s.nprocs
           /\ s.outputGroupRank \in 0..(s.nprocs - 1) =>
                /\ SplitOutput(s).color \in 0..(s.parts - 1)
                /\ SplitOutput(s).key \in 0..(size - 1)
                /\ s.outputGroupRank = SplitOutput(s).color * size + SplitOutput(s).key
<1>. DEFINE size == s.nprocs \div s.parts
<1>1. size \in Nat /\ s.nprocs = s.parts * size
  OBVIOUS
<1>2. size # 0
  BY <1>1
<1>3. /\ SplitOutput(s).color = s.outputGroupRank \div size
      /\ SplitOutput(s).key = s.outputGroupRank % size
  BY DEF SplitOutput, Split, Collective
<1>. HIDE DEF size
<1>4. ASSUME s.outputGroupRank \in 0..(s.nprocs - 1)
      PROVE  /\ s.outputGroupRank \div size \in 0..(s.parts - 1)
             /\ s.outputGroupRank % size \in 0..(size - 1)
             /\ s.outputGroupRank = (s.outputGroupRank \div size) * size + (s.outputGroupRank % size)
  <2>1. s.parts \in Nat \ {0} /\ size \in Nat \ {0} /\ s.outputGroupRank \in 0..(s.parts * size - 1)
    BY <1>1, <1>2, <1>4
  <2>2. s.outputGroupRank \div size \in 0..(s.parts - 1)
    BY <2>1, QuotientBound
  <2>3. \A x \in Nat, n \in Nat \ {0} : x % n \in 0..(n - 1) /\ x = (x \div n) * n + (x % n)
    OBVIOUS
  <2>4. s.outputGroupRank \in Nat /\ size \in Nat \ {0}
    BY <1>1, <1>2, <1>4
  <2>. QED BY <2>2, <2>3, <2>4, Zenon
<1>. QED BY <1>1, <1>2, <1>3, <1>4 DEF size

-----------------------------------------------------------------------------
(* Decompositions *)

LEMMA Division ==
    ASSUME NEW a \in Nat, NEW n \in Nat \ {0}
    PROVE  /\ a \div n \in Nat
           /\ (a \div n) * n <= a
           /\ a < (a \div n + 1) * n
<1>1. a \div n \in Nat /\ a % n \in 0..(n - 1) /\ a = n * (a \div n) + (a % n)
  OBVIOUS
<1>. DEFINE q == a \div n
<1>2. (q + 1) * n = n * q + n /\ q * n = n * q
  BY <1>1
<1>. QED BY <1>1, <1>2

\* The quotient is at most i exactly if the dividend is below the next multiple.
LEMMA DivAtMost ==
    ASSUME NEW a \in Nat, NEW n \in Nat \ {0}, NEW i \in Nat
    PROVE  a \div n <= i <=> a < (i + 1) * n
<1>. DEFINE q == a \div n
<1>1. q \in Nat /\ q * n <= a /\ a < (q + 1) * n
  BY Division
<1>. HIDE DEF q
<1>2. q <= i => (q + 1) * n <= (i + 1) * n
  BY <1>1
<1>3. i + 1 <= q => (i + 1) * n <= q * n
  BY <1>1
<1>4. (i + 1) * n \in Nat /\ (q + 1) * n \in Nat /\ q * n \in Nat
  BY <1>1
<1>5. q <= i \/ i + 1 <= q
  BY <1>1
<1>6. q <= i <=> a < (i + 1) * n
  BY <1>1, <1>2, <1>3, <1>4, <1>5
<1>. QED BY <1>6 DEF q

LEMMA DivIncreases ==
    ASSUME NEW a \in Nat, NEW b \in Nat, NEW n \in Nat \ {0}, a + n <= b
    PROVE  a \div n < b \div n
<1>. DEFINE q == a \div n
            r == b \div n
<1>1. /\ q \in Nat /\ q * n <= a
      /\ r \in Nat /\ (r <= q <=> b < (q + 1) * n)
  BY Division, DivAtMost
<1>. HIDE DEF q, r
<1>2. (q + 1) * n = q * n + n /\ q * n \in Nat
  BY <1>1
<1>3. ~(r <= q)
  BY <1>1, <1>2
<1>4. q < r
  BY <1>1, <1>3
<1>. QED BY <1>4 DEF q, r

\* In the default decomposition of a dimension with at least as many points as processes every process
\* has a point, whichever way the bounds are rounded: setDecomposition's assertion holds.
THEOREM DefaultAllowed ==
    ASSUME NEW points, NEW procs, NEW forward \in BOOLEAN, NEW d \in DOMAIN points,
           procs[d] \in Nat \ {0}, points[d] \in Nat, points[d] >= procs[d]
    PROVE  LET bounds == getDefaultDecomposition(points, procs, forward)[d] IN
           /\ \A j \in 1..procs[d] : bounds[j] \in 0..(points[d] - 1)
           /\ \A j, k \in 1..procs[d] : j < k => bounds[j] < bounds[k]
           /\ bounds[1] = 0
           /\ IsInjective(bounds)
<1>. DEFINE n == procs[d]
            m == points[d]
            bounds == getDefaultDecomposition(points, procs, forward)[d]
            Rounded(j) == IF forward THEN m * (j - 1) + n - 1 ELSE m * (j - 1)
<1>1. n \in Nat \ {0} /\ m \in Nat /\ m >= n
  OBVIOUS
<1>2. /\ DOMAIN bounds = 1..n
      /\ \A j \in 1..n : bounds[j] = Rounded(j) \div n
  BY DEF getDefaultDecomposition, CeilDiv
<1>. HIDE DEF n, m, bounds
<1>3. \A j \in 1..n : m * (j - 1) \in Nat /\ Rounded(j) \in Nat
  BY <1>1
<1>4. ASSUME NEW j \in 1..n, NEW k \in 1..n, j < k
      PROVE  bounds[j] < bounds[k]
  <2>1. m * (j - 1) + m <= m * (k - 1)
    <3>1. m * ((j - 1) + 1) <= m * (k - 1)
      BY <1>1, <1>4
    <3>. QED BY <1>1, <3>1
  <2>2. Rounded(j) + n <= Rounded(k)
    BY <1>1, <1>3, <2>1
  <2>. QED BY <1>1, <1>2, <1>3, <2>2, DivIncreases
<1>5. ASSUME NEW j \in 1..n
      PROVE  bounds[j] \in 0..(m - 1)
  <2>1. m * (j - 1) <= m * (n - 1)
    BY <1>1
  <2>2. m * (n - 1) = m * n - m
    BY <1>1
  <2>3. Rounded(j) < m * n
    BY <1>1, <1>3, <2>1, <2>2
  <2>4. m - 1 \in Nat /\ ((m - 1) + 1) * n = m * n
    BY <1>1
  <2>5. Rounded(j) \div n <= m - 1 /\ Rounded(j) \div n \in Nat
    BY <1>1, <1>3, <2>3, <2>4, DivAtMost, Division
  <2>. QED BY SMTT(30), <1>1, <1>2, <2>5
<1>6. bounds[1] = 0
  <2>1. Rounded(1) \in Nat /\ Rounded(1) < (0 + 1) * n /\ 1 \in 1..n
    BY <1>1
  <2>2. Rounded(1) \div n <= 0 /\ Rounded(1) \div n \in Nat
    BY <1>1, <2>1, DivAtMost, Division
  <2>. QED BY <1>2, <2>1, <2>2
<1>7. IsInjective(bounds)
  <2>. SUFFICES ASSUME NEW j \in 1..n, NEW k \in 1..n, bounds[j] = bounds[k] PROVE j = k
    BY <1>2 DEF IsInjective
  <2>1. ~(j < k) /\ ~(k < j)
    BY <1>4, <1>5
  <2>. QED BY <2>1
<1>. QED BY <1>4, <1>5, <1>6, <1>7 DEF n, m, bounds

\* A point that a coarser grid shares with the reference grid lies behind the same bounds in both, so it
\* is on the same process: x is the index, in the reference grid, of the point with index i in the
\* coarser one (both count from the point at h if there is no boundary).  step, a power of two, is
\* taken to be a positive number: the provers know nothing about powers.
THEOREM DownsampledSamePlace ==
    ASSUME NEW decomposition, NEW reference, NEW level, NEW bdry, NEW d \in DOMAIN decomposition,
           NEW j \in DOMAIN decomposition[d], decomposition[d][j] \in Nat, bdry[d] \in Nat,
           NEW step \in Nat \ {0}, step = Pow2(reference[d] - level[d]),
           NEW i \in Nat, NEW x \in Nat,
           IF bdry[d] > 0 THEN x = i * step ELSE x + 1 = (i + 1) * step
    PROVE  downsampleDecomposition(decomposition, reference, level, bdry)[d][j] <= i
             <=> decomposition[d][j] <= x
<1>. DEFINE bound == decomposition[d][j]
            protrusion == IF bdry[d] > 0 THEN 0 ELSE step - 1
            down == downsampleDecomposition(decomposition, reference, level, bdry)[d][j]
<1>1. /\ bound \in Nat /\ protrusion \in Nat
      /\ down = IF bound <= protrusion THEN 0 ELSE ((bound - protrusion) + step - 1) \div step
  BY DEF downsampleDecomposition, CeilDiv
<1>2. x = i * step + protrusion
  <2>1. (i + 1) * step = i * step + step /\ i * step \in Nat
    OBVIOUS
  <2>2. CASE bdry[d] > 0
    BY <2>1, <2>2
  <2>3. CASE ~(bdry[d] > 0)
    BY <2>1, <2>3
  <2>. QED BY <2>2, <2>3
<1>. HIDE DEF bound, down, protrusion
<1>3. i * step \in Nat /\ (i + 1) * step = i * step + step
  OBVIOUS
<1>4. CASE bound <= protrusion
  BY <1>1, <1>2, <1>3, <1>4 DEF bound, down
<1>5. CASE ~(bound <= protrusion)
  <2>. DEFINE a == (bound - protrusion) + step - 1
  <2>1. a \in Nat
    BY <1>1, <1>5
  <2>2. a \div step <= i <=> a < (i + 1) * step
    BY <2>1, DivAtMost
  <2>3. a < (i + 1) * step <=> bound <= x
    BY <1>1, <1>2, <1>3
  <2>4. down = a \div step
    BY <1>1, <1>5
  <2>5. down <= i <=> bound <= x
    BY <2>2, <2>3, <2>4
  <2>. QED BY <2>5 DEF bound, down
<1>. QED BY <1>4, <1>5

=============================================================================
