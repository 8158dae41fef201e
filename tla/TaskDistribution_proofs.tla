----------------------- MODULE TaskDistribution_proofs -----------------------
(***************************************************************************)
(* Proofs about TaskDistribution: what the load models keep of the         *)
(* durations measured, for any number of tasks and measurements, and what  *)
(* a rescheduling does to the process groups.                              *)
(***************************************************************************)
EXTENDS TaskDistribution, FiniteSetTheorems, SequenceTheorems, WellFoundedInduction, TLAPS

-----------------------------------------------------------------------------
(* Sums of sequences *)

\* The order of the natural numbers.
NatLess == {ss \in Nat \X Nat : ss[1] < ss[2]}

\* A set of natural numbers that has 0 and with every number the next one has all.
LEMMA NatInd ==
    ASSUME NEW I, 0 \in I, \A n \in Nat : n \in I => n + 1 \in I
    PROVE  Nat \subseteq I
<1>. SUFFICES ASSUME NEW m \in Nat, m \notin I PROVE FALSE
  OBVIOUS
<1>. DEFINE J == Nat \ I
<1>1. IsWellFoundedOn(NatLess, Nat)
  BY NatLessThanWellFounded DEF OpToRel, NatLess
<1>2. PICK x \in J : \A y \in J : <<y, x>> \notin NatLess
  <2>1. J \subseteq Nat /\ J # {}
    OBVIOUS
  <2>. HIDE DEF J
  <2>. QED BY <1>1, <2>1, WFMin
<1>3. x \in Nat /\ x # 0
  OBVIOUS
<1>4. x - 1 \in Nat /\ x - 1 < x /\ (x - 1) + 1 = x
  BY <1>3
<1>5. x - 1 \in I
  BY <1>2, <1>4, <1>3 DEF NatLess
<1>. QED BY <1>4, <1>5

\* The function SumOfSeq chooses exists.
LEMMA PartialSumsExist ==
    ASSUME NEW s, NEW m \in Nat
    PROVE  \E f : f = [j \in 0..m |-> IF j = 0 THEN 0 ELSE f[j - 1] + s[j]]
<1>. DEFINE P(n) == \E f : f = [j \in 0..n |-> IF j = 0 THEN 0 ELSE f[j - 1] + s[j]]
            I == {n \in Nat : P(n)}
<1>1. P(0)
  <2>. DEFINE f == [j \in 0..0 |-> 0]
  <2>1. f = [j \in 0..0 |-> IF j = 0 THEN 0 ELSE f[j - 1] + s[j]]
    OBVIOUS
  <2>. QED BY <2>1
<1>2. ASSUME NEW n \in Nat, P(n) PROVE P(n + 1)
  <2>1. PICK f : f = [j \in 0..n |-> IF j = 0 THEN 0 ELSE f[j - 1] + s[j]]
    BY <1>2
  <2>. DEFINE h == [j \in 0..(n + 1) |-> IF j = n + 1 THEN f[n] + s[j] ELSE f[j]]
  <2>2. ASSUME NEW j \in 0..(n + 1) PROVE h[j] = IF j = 0 THEN 0 ELSE h[j - 1] + s[j]
    <3>1. CASE j = n + 1
      BY <3>1
    <3>2. CASE j \in 0..n
      <4>1. h[j] = f[j] /\ f[j] = IF j = 0 THEN 0 ELSE f[j - 1] + s[j]
        BY <2>1, <3>2
      <4>2. j # 0 => h[j - 1] = f[j - 1]
        BY <3>2
      <4>. QED BY <4>1, <4>2
    <3>. QED BY <3>1, <3>2
  <2>3. h = [j \in 0..(n + 1) |-> IF j = 0 THEN 0 ELSE h[j - 1] + s[j]]
    BY <2>2
  <2>. HIDE DEF h
  <2>. QED BY <2>3
<1>. HIDE DEF P
<1>3. 0 \in I /\ \A n \in Nat : n \in I => n + 1 \in I
  BY <1>1, <1>2
<1>4. m \in I
  <2>. HIDE DEF I
  <2>. QED BY <1>3, NatInd
<1>. QED BY <1>4 DEF P

\* SumOfSeq adds up the elements from the left.
LEMMA SumUnfolds ==
    ASSUME NEW s, NEW m \in Nat, Len(s) = m
    PROVE  \E f : /\ f[0] = 0 /\ \A j \in 1..m : f[j] = f[j - 1] + s[j]
                  /\ SumOfSeq(s) = f[m]
<1>. DEFINE sums == CHOOSE f : f = [j \in 0..m |-> IF j = 0 THEN 0 ELSE f[j - 1] + s[j]]
<1>1. SumOfSeq(s) = sums[m]
  BY DEF SumOfSeq
<1>2. sums = [j \in 0..m |-> IF j = 0 THEN 0 ELSE sums[j - 1] + s[j]]
  BY PartialSumsExist
<1>. HIDE DEF sums
<1>3. sums[0] = 0 /\ \A j \in 1..m : sums[j] = sums[j - 1] + s[j]
  BY <1>2
<1>. QED BY <1>1, <1>3

\* If all elements lie between two bounds, the sum lies between their multiples.
LEMMA SumBounds ==
    ASSUME NEW s \in Seq(Nat), NEW lo \in Nat, NEW hi \in Nat,
           \A i \in 1..Len(s) : lo <= s[i] /\ s[i] <= hi
    PROVE  SumOfSeq(s) \in Nat /\ Len(s) * lo <= SumOfSeq(s) /\ SumOfSeq(s) <= Len(s) * hi
<1>. DEFINE m == Len(s)
<1>1. m \in Nat
  OBVIOUS
<1>2. PICK f : /\ f[0] = 0 /\ \A j \in 1..m : f[j] = f[j - 1] + s[j]
               /\ SumOfSeq(s) = f[m]
  BY <1>1, SumUnfolds
<1>3. \A i \in 1..m : s[i] \in Nat /\ lo <= s[i] /\ s[i] <= hi
  OBVIOUS
<1>. HIDE DEF m
<1>. DEFINE Q(j) == f[j] \in Nat /\ j * lo <= f[j] /\ f[j] <= j * hi
            I == {j \in Nat : j <= m => Q(j)}
<1>4. 0 \in I
  BY <1>2
<1>5. ASSUME NEW j \in Nat, j \in I PROVE j + 1 \in I
  <2>. SUFFICES ASSUME j + 1 <= m PROVE Q(j + 1)
    OBVIOUS
  <2>1. Q(j)
    BY <1>1, <1>5
  <2>2. f[j + 1] = f[j] + s[j + 1]
    BY <1>1, <1>2
  <2>3. (j + 1) * lo = j * lo + lo /\ (j + 1) * hi = j * hi + hi
    OBVIOUS
  <2>4. s[j + 1] \in Nat /\ lo <= s[j + 1] /\ s[j + 1] <= hi
    BY <1>1, <1>3
  <2>5. j * lo \in Nat /\ j * hi \in Nat
    OBVIOUS
  <2>. QED BY <2>1, <2>2, <2>3, <2>4, <2>5
<1>6. Q(m)
  <2>1. m \in I
    <3>. HIDE DEF I
    <3>. QED BY <1>1, <1>4, <1>5, NatInd
  <2>. QED BY <1>1, <2>1
<1>. QED BY <1>2, <1>6 DEF m

\* The quotient of a number between two multiples lies between the factors.
LEMMA AverageBetween ==
    ASSUME NEW n \in Nat \ {0}, NEW x \in Nat, NEW lo \in Nat, NEW hi \in Nat,
           n * lo <= x, x <= n * hi
    PROVE  x \div n \in lo..hi
<1>. DEFINE q == x \div n
            r == x % n
<1>1. q \in Nat /\ r \in 0..(n - 1) /\ x = n * q + r
  OBVIOUS
<1>. HIDE DEF q, r
<1>2. ~(q + 1 <= lo)
  <2>. SUFFICES ASSUME q + 1 <= lo PROVE FALSE
    OBVIOUS
  <2>1. n * (q + 1) <= n * lo
    BY <1>1
  <2>2. n * (q + 1) = n * q + n /\ n * q \in Nat /\ n * lo \in Nat
    BY <1>1
  <2>. QED BY <1>1, <2>1, <2>2
<1>3. ~(hi + 1 <= q)
  <2>. SUFFICES ASSUME hi + 1 <= q PROVE FALSE
    OBVIOUS
  <2>1. n * (hi + 1) <= n * q
    BY <1>1
  <2>2. n * (hi + 1) = n * hi + n /\ n * q \in Nat /\ n * hi \in Nat
    BY <1>1
  <2>. QED BY <1>1, <2>1, <2>2
<1>. QED BY <1>1, <1>2, <1>3 DEF q

\* A sequence that is not empty has a smallest and a largest element.
LEMMA BoundsExist ==
    ASSUME NEW s \in Seq(Nat), s # <<>>
    PROVE  /\ \E k \in 1..Len(s) : \A i \in 1..Len(s) : s[k] <= s[i]
           /\ \E k \in 1..Len(s) : \A i \in 1..Len(s) : s[i] <= s[k]
<1>. DEFINE m == Len(s)
            Q(n) == /\ \E k \in 1..n : \A i \in 1..n : s[k] <= s[i]
                    /\ \E k \in 1..n : \A i \in 1..n : s[i] <= s[k]
            I == {n \in Nat : n < m => Q(n + 1)}
<1>1. m \in Nat /\ m # 0 /\ \A i \in 1..m : s[i] \in Nat
  OBVIOUS
<1>. HIDE DEF m
<1>2. 0 \in I
  <2>1. m > 0 => 1 \in 1..1 /\ \A i \in 1..1 : i = 1 /\ s[1] \in Nat /\ s[1] <= s[1]
    BY <1>1
  <2>2. m > 0 => Q(1)
    BY <1>1, <2>1
  <2>. QED BY <2>2, <1>1
<1>3. ASSUME NEW n \in Nat, n \in I PROVE n + 1 \in I
  <2>. SUFFICES ASSUME n + 1 < m PROVE Q((n + 1) + 1)
    OBVIOUS
  <2>1. Q(n + 1)
    BY <1>1, <1>3
  <2>2. s[(n + 1) + 1] \in Nat /\ \A i \in 1..(n + 1) : s[i] \in Nat
    BY <1>1
  <2>3. \A i \in 1..((n + 1) + 1) : i \in 1..(n + 1) \/ i = (n + 1) + 1
    OBVIOUS
  <2>4. \E k \in 1..((n + 1) + 1) : \A i \in 1..((n + 1) + 1) : s[k] <= s[i]
    <3>1. PICK k \in 1..(n + 1) : \A i \in 1..(n + 1) : s[k] <= s[i]
      BY <2>1
    <3>2. CASE s[k] <= s[(n + 1) + 1]
      <4>1. \A i \in 1..((n + 1) + 1) : s[k] <= s[i]
        BY <2>3, <3>1, <3>2
      <4>. QED BY <4>1
    <3>3. CASE ~(s[k] <= s[(n + 1) + 1])
      <4>1. ASSUME NEW i \in 1..((n + 1) + 1) PROVE s[(n + 1) + 1] <= s[i]
        <5>1. s[k] \in Nat /\ s[(n + 1) + 1] \in Nat /\ s[(n + 1) + 1] <= s[k]
          BY <2>2, <3>1, <3>3
        <5>2. CASE i \in 1..(n + 1)
          BY <2>2, <3>1, <5>1, <5>2
        <5>3. CASE i = (n + 1) + 1
          BY <5>1, <5>3
        <5>. QED BY <2>3, <5>2, <5>3
      <4>. QED BY <4>1
    <3>. QED BY <3>2, <3>3
  <2>5. \E k \in 1..((n + 1) + 1) : \A i \in 1..((n + 1) + 1) : s[i] <= s[k]
    <3>1. PICK k \in 1..(n + 1) : \A i \in 1..(n + 1) : s[i] <= s[k]
      BY <2>1
    <3>2. CASE s[(n + 1) + 1] <= s[k]
      <4>1. \A i \in 1..((n + 1) + 1) : s[i] <= s[k]
        BY <2>3, <3>1, <3>2
      <4>. QED BY <4>1
    <3>3. CASE ~(s[(n + 1) + 1] <= s[k])
      <4>1. ASSUME NEW i \in 1..((n + 1) + 1) PROVE s[i] <= s[(n + 1) + 1]
        <5>1. s[k] \in Nat /\ s[(n + 1) + 1] \in Nat /\ s[k] <= s[(n + 1) + 1]
          BY <2>2, <3>1, <3>3
        <5>2. CASE i \in 1..(n + 1)
          BY <2>2, <3>1, <5>1, <5>2
        <5>3. CASE i = (n + 1) + 1
          BY <5>1, <5>3
        <5>. QED BY <2>3, <5>2, <5>3
      <4>. QED BY <4>1
    <3>. QED BY <3>2, <3>3
  <2>. QED BY <2>4, <2>5
<1>4. Q(m)
  <2>. HIDE DEF Q
  <2>1. m - 1 \in Nat /\ (m - 1) + 1 = m
    BY <1>1
  <2>2. m - 1 \in I
    <3>. HIDE DEF I
    <3>. QED BY <1>2, <1>3, <2>1, NatInd
  <2>. QED BY <1>1, <2>1, <2>2
<1>. QED BY <1>4 DEF m

\* Min and Max of a set that has a least or a greatest element.
LEMMA MinIs ==
    ASSUME NEW S \in SUBSET Int, NEW x \in S, \A y \in S : x <= y
    PROVE  Min(S) = x
<1>1. Min(S) \in S /\ \A y \in S : Min(S) <= y
  BY DEF Min
<1>2. Min(S) \in Int /\ x \in Int /\ Min(S) <= x /\ x <= Min(S)
  BY <1>1
<1>. QED BY <1>2

LEMMA MaxIs ==
    ASSUME NEW S \in SUBSET Int, NEW x \in S, \A y \in S : y <= x
    PROVE  Max(S) = x
<1>1. Max(S) \in S /\ \A y \in S : Max(S) >= y
  <2>1. \A y \in S : x >= y
    OBVIOUS
  <2>. QED BY <2>1 DEF Max
<1>2. Max(S) \in Int /\ x \in Int /\ Max(S) >= x /\ x >= Max(S)
  BY <1>1
<1>. QED BY <1>2

\* The smallest and the largest element are Min and Max of the range.
LEMMA RangeBounds ==
    ASSUME NEW s \in Seq(Nat), s # <<>>
    PROVE  /\ Min(Range(s)) \in Nat /\ Max(Range(s)) \in Nat
           /\ \A i \in 1..Len(s) : Min(Range(s)) <= s[i] /\ s[i] <= Max(Range(s))
           /\ \E i \in 1..Len(s) : s[i] = Min(Range(s))
           /\ \E i \in 1..Len(s) : s[i] = Max(Range(s))
<1>1. /\ DOMAIN s = 1..Len(s) /\ \A i \in 1..Len(s) : s[i] \in Nat
  OBVIOUS
<1>2. Range(s) = {s[i] : i \in 1..Len(s)}
  BY <1>1 DEF Range
<1>3. Range(s) \in SUBSET Int
  BY <1>1, <1>2
<1>4. PICK k \in 1..Len(s) : \A i \in 1..Len(s) : s[k] <= s[i]
  BY BoundsExist
<1>5. PICK l \in 1..Len(s) : \A i \in 1..Len(s) : s[i] <= s[l]
  BY BoundsExist
<1>6. Min(Range(s)) = s[k]
  <2>1. s[k] \in Range(s) /\ \A y \in Range(s) : s[k] <= y
    BY <1>2, <1>4
  <2>. QED BY <1>3, <2>1, MinIs
<1>7. Max(Range(s)) = s[l]
  <2>1. s[l] \in Range(s) /\ \A y \in Range(s) : y <= s[l]
    BY <1>2, <1>5
  <2>. QED BY <1>3, <2>1, MaxIs
<1>. QED BY <1>1, <1>4, <1>5, <1>6, <1>7

\* The average of durations that were all received lies between the extremes of what was received.
LEMMA AverageWithin ==
    ASSUME NEW r \in Seq(Nat), NEW s \in Seq(Nat), s # <<>>,
           \A i \in 1..Len(s) : \E j \in 1..Len(r) : s[i] = r[j]
    PROVE  /\ Len(s) \in Nat \ {0}
           /\ SumOfSeq(s) \div Len(s) \in Min(Range(r))..Max(Range(r))
<1>1. Len(s) \in Nat \ {0} /\ 1 \in 1..Len(s)
  OBVIOUS
<1>2. r # <<>>
  BY <1>1
<1>3. PICK lo \in Nat, hi \in Nat :
          /\ lo = Min(Range(r)) /\ hi = Max(Range(r))
          /\ \A j \in 1..Len(r) : lo <= r[j] /\ r[j] <= hi
  BY <1>2, RangeBounds
<1>4. \A i \in 1..Len(s) : lo <= s[i] /\ s[i] <= hi
  BY <1>3
<1>5. SumOfSeq(s) \in Nat /\ Len(s) * lo <= SumOfSeq(s) /\ SumOfSeq(s) <= Len(s) * hi
  BY <1>4, SumBounds
<1>6. SumOfSeq(s) \div Len(s) \in lo..hi
  BY <1>1, <1>5, AverageBetween
<1>. QED BY <1>1, <1>3, <1>6

\* Sequences over a larger set.
LEMMA SeqSubset ==
    ASSUME NEW S, NEW T, S \subseteq T, NEW s \in Seq(S)
    PROVE  s \in Seq(T)
<1>1. Len(s) \in Nat /\ \A i \in 1..Len(s) : s[i] \in S
  BY LenProperties, ElementOfSeq
<1>2. s = [i \in 1..Len(s) |-> s[i]]
  OBVIOUS
<1>3. \A i \in 1..Len(s) : s[i] \in T
  BY <1>1
<1>. QED BY <1>1, <1>2, <1>3

\* A sequence cut in two.
LEMMA CutInTwo ==
    ASSUME NEW S, NEW s \in Seq(S), NEW k \in Nat, Len(s) = k + 1
    PROVE  /\ SubSeq(s, 1, k) \in Seq(S) /\ SubSeq(s, k + 1, Len(s)) \in Seq(S)
           /\ Len(SubSeq(s, k + 1, Len(s))) = 1
           /\ s = SubSeq(s, 1, k) \o SubSeq(s, k + 1, Len(s))
<1>. DEFINE u == SubSeq(s, 1, k)
            v == SubSeq(s, k + 1, Len(s))
<1>1. \A i \in 1..(k + 1) : s[i] \in S
  BY ElementOfSeq
<1>2. u \in Seq(S) /\ Len(u) = k /\ \A i \in 1..k : u[i] = s[i]
  BY <1>1, SubSeqProperties
<1>3. v \in Seq(S) /\ Len(v) = 1 /\ v[1] = s[k + 1]
  BY <1>1, SubSeqProperties
<1>. HIDE DEF u, v
<1>4. u \o v \in Seq(S) /\ Len(u \o v) = k + 1 /\ \A i \in 1..(k + 1) : (u \o v)[i] = s[i]
  <2>1. u \o v \in Seq(S) /\ Len(u \o v) = k + 1
    BY <1>2, <1>3, ConcatProperties
  <2>0. \A i \in 1..(k + 1) : (u \o v)[i] = IF i <= k THEN u[i] ELSE v[i - k]
    BY <1>2, <1>3, ConcatProperties
  <2>. DEFINE w == u \o v
  <2>. HIDE DEF w
  <2>2. \A i \in 1..k : w[i] = u[i]
    <3>. SUFFICES ASSUME NEW i \in 1..k PROVE w[i] = u[i]
      OBVIOUS
    <3>1. i \in 1..(k + 1) /\ i <= k
      OBVIOUS
    <3>. QED BY <2>0, <3>1 DEF w
  <2>3. w[k + 1] = v[1]
    <3>1. k + 1 \in 1..(k + 1) /\ ~(k + 1 <= k) /\ (k + 1) - k = 1
      OBVIOUS
    <3>. QED BY <2>0, <3>1 DEF w
  <2>4. \A i \in 1..(k + 1) : i \in 1..k \/ i = k + 1
    OBVIOUS
  <2>. QED BY <1>2, <1>3, <2>1, <2>2, <2>3, <2>4 DEF w
<1>5. s = u \o v
  BY <1>4, SeqEqual
<1>. QED BY <1>2, <1>3, <1>5 DEF u, v

-----------------------------------------------------------------------------
(* The load model that writes to files *)

Durable == [deque : Seq(Durations), file : Seq(Durations), lastAvg : Nat]

\* The model a has all durations r: the older ones are in the file.
Keeps(a, r) ==
    /\ a \in Durable /\ r \in Seq(Durations)
    /\ r = a.file \o a.deque
    /\ Len(a.deque) <= WriteEvery

\* The average read at the restart is that of durations received.
AverageOf(a, r) == r # <<>> /\ a.lastAvg \in Min(Range(r))..Max(Range(r))

Managed == phase \in {"running", "restarted"}

LoadInv ==
    IF Managed
    THEN /\ DOMAIN average = Tasks /\ DOMAIN received = Tasks
         /\ \A t \in Tasks : Keeps(average[t], received[t])
         /\ phase = "restarted" => \A t \in Tasks : AverageOf(average[t], received[t])
    ELSE average = <<>>

LEMMA DurationsPositive == Durations \subseteq Nat /\ 0 \notin Durations /\ WriteEvery \in Nat \ {0}
  BY DurationsAssumption

\* What is used of sequences of durations.
LEMMA DurationSequences ==
    /\ \A s \in Seq(Durations) : s \in Seq(Nat) /\ Len(s) \in Nat /\ (s # <<>> => Len(s) # 0)
    /\ \A s \in Seq(Durations) : \A i \in 1..Len(s) : s[i] \in Durations
    /\ \A s, t \in Seq(Durations) : s \o t \in Seq(Durations)
    /\ \A s, t \in Seq(Durations) : \A i \in 1..Len(t) :
           Len(s) + i \in 1..Len(s \o t) /\ (s \o t)[Len(s) + i] = t[i]
    /\ \A s, t, u \in Seq(Durations) : (s \o t) \o u = s \o (t \o u)
    /\ \A s \in Seq(Durations), d \in Durations :
           /\ Append(s, d) \in Seq(Durations) /\ Append(s, d) # <<>>
           /\ Len(Append(s, d)) = Len(s) + 1
           /\ \A i \in 1..Len(s) : i \in 1..Len(Append(s, d)) /\ Append(s, d)[i] = s[i]
    /\ \A s, t \in Seq(Durations), d \in Durations : Append(s \o t, d) = s \o Append(t, d)
<1>1. ASSUME NEW s \in Seq(Durations)
      PROVE  /\ s \in Seq(Nat) /\ Len(s) \in Nat /\ (s # <<>> => Len(s) # 0)
             /\ \A i \in 1..Len(s) : s[i] \in Durations
  <2>1. s \in Seq(Nat)
    BY DurationsPositive, SeqSubset
  <2>2. Len(s) \in Nat /\ (s # <<>> => Len(s) # 0)
    BY LenProperties, EmptySeq
  <2>. QED BY <2>1, <2>2, ElementOfSeq
<1>2. ASSUME NEW s \in Seq(Durations), NEW t \in Seq(Durations)
      PROVE  /\ s \o t \in Seq(Durations)
             /\ \A i \in 1..Len(t) : Len(s) + i \in 1..Len(s \o t) /\ (s \o t)[Len(s) + i] = t[i]
             /\ \A u \in Seq(Durations) : (s \o t) \o u = s \o (t \o u)
             /\ \A d \in Durations : Append(s \o t, d) = s \o Append(t, d)
  <2>1. /\ s \o t \in Seq(Durations) /\ Len(s) \in Nat /\ Len(t) \in Nat
        /\ Len(s \o t) = Len(s) + Len(t)
    BY ConcatProperties, LenProperties
  <2>2. \A i \in 1..Len(t) : (s \o t)[Len(s) + i] = t[i]
    OBVIOUS
  <2>3. \A u \in Seq(Durations) : (s \o t) \o u = s \o (t \o u)
    BY ConcatAssociative
  <2>4. ASSUME NEW d \in Durations PROVE Append(s \o t, d) = s \o Append(t, d)
    <3>1. <<d>> \in Seq(Durations)
      OBVIOUS
    <3>2. Append(s \o t, d) = (s \o t) \o <<d>> /\ Append(t, d) = t \o <<d>>
      BY <2>1, AppendIsConcat
    <3>. QED BY <2>3, <3>1, <3>2
  <2>5. \A i \in 1..Len(t) : Len(s) + i \in 1..Len(s \o t)
    BY <2>1
  <2>. QED BY <2>1, <2>2, <2>3, <2>4, <2>5
<1>3. ASSUME NEW s \in Seq(Durations), NEW d \in Durations
      PROVE  /\ Append(s, d) \in Seq(Durations) /\ Append(s, d) # <<>>
             /\ Len(Append(s, d)) = Len(s) + 1
             /\ \A i \in 1..Len(s) : i \in 1..Len(Append(s, d)) /\ Append(s, d)[i] = s[i]
  OBVIOUS
<1>. QED BY <1>1, <1>2, <1>3

\* One duration more is kept with the others.
LEMMA KeepsMore ==
    ASSUME NEW a, NEW r, Keeps(a, r), NEW d \in Durations
    PROVE  /\ Keeps(addDurationInformation(a, d), Append(r, d))
           /\ addDurationInformation(a, d).lastAvg = a.lastAvg
<1>. DEFINE all == Append(a.deque, d)
            n == Len(a.deque)
            b == addDurationInformation(a, d)
<1>1. /\ a \in Durable /\ a.deque \in Seq(Durations) /\ a.file \in Seq(Durations) /\ r \in Seq(Durations)
      /\ r = a.file \o a.deque /\ n <= WriteEvery /\ n \in Nat /\ WriteEvery \in Nat \ {0}
  BY DurationsPositive DEF Keeps, Durable
<1>2. all \in Seq(Durations) /\ Len(all) = n + 1 /\ Append(r, d) \in Seq(Durations)
  <2>1. ASSUME NEW s \in Seq(Durations)
        PROVE  Append(s, d) \in Seq(Durations) /\ Len(Append(s, d)) = Len(s) + 1
    BY AppendProperties
  <2>. DEFINE q == a.deque
  <2>2. q \in Seq(Durations) /\ Len(q) = n /\ r \in Seq(Durations)
    BY <1>1
  <2>. HIDE DEF q, n
  <2>3. Append(q, d) \in Seq(Durations) /\ Len(Append(q, d)) = n + 1 /\ Append(r, d) \in Seq(Durations)
    BY <2>1, <2>2
  <2>. QED BY <2>3 DEF q, n
<1>3. Append(r, d) = a.file \o all
  <2>1. \A s, t \in Seq(Durations) : Append(s \o t, d) = s \o Append(t, d)
    BY DurationSequences
  <2>2. Append(a.file \o a.deque, d) = a.file \o Append(a.deque, d)
    BY <1>1, <2>1
  <2>. QED BY <1>1, <2>2
<1>4. CASE Len(all) > WriteEvery
  <2>1. n = WriteEvery
    BY <1>1, <1>2, <1>4
  <2>. DEFINE old == SubSeq(all, 1, WriteEvery)
              new == SubSeq(all, WriteEvery + 1, Len(all))
  <2>2. b = [a EXCEPT !.deque = new, !.file = @ \o old]
    BY <1>4 DEF addDurationInformation
  <2>3. old \in Seq(Durations) /\ new \in Seq(Durations) /\ Len(new) = 1 /\ all = old \o new
    BY <1>1, <1>2, <2>1, CutInTwo
  <2>. HIDE DEF all, old, new, b
  <2>4. b \in Durable /\ b.deque = new /\ b.file = a.file \o old /\ b.lastAvg = a.lastAvg
    <3>1. a.file \o old \in Seq(Durations)
      BY <1>1, <2>3, ConcatProperties
    <3>. QED BY <1>1, <2>2, <2>3, <3>1 DEF Durable
  <2>5. a.file \o all = (a.file \o old) \o new
    <3>1. \A s, t, u \in Seq(Durations) : (s \o t) \o u = s \o (t \o u)
      BY DurationSequences
    <3>. QED BY <1>1, <2>3, <3>1
  <2>6. Keeps(b, Append(r, d))
    <3>. DEFINE w == Append(r, d)
    <3>1. w = b.file \o b.deque
      BY <1>3, <2>4, <2>5
    <3>2. Len(b.deque) <= WriteEvery
      <4>1. Len(b.deque) = 1
        BY <2>3, <2>4
      <4>2. 1 <= WriteEvery
        BY DurationsPositive
      <4>. QED BY <4>1, <4>2
    <3>3. w \in Seq(Durations) /\ b \in Durable
      BY <1>2, <2>4
    <3>. HIDE DEF w
    <3>4. Keeps(b, w)
      BY <3>1, <3>2, <3>3 DEF Keeps
    <3>. QED BY <3>4 DEF w
  <2>. QED BY <2>4, <2>6 DEF b
<1>5. CASE ~(Len(all) > WriteEvery)
  <2>1. b = [a EXCEPT !.deque = all]
    BY <1>5 DEF addDurationInformation
  <2>. HIDE DEF all, b
  <2>2. b \in Durable /\ b.deque = all /\ b.file = a.file /\ b.lastAvg = a.lastAvg
    BY <1>1, <1>2, <2>1 DEF Durable
  <2>3. Len(all) <= WriteEvery
    BY <1>1, <1>2, <1>5
  <2>4. Keeps(b, Append(r, d))
    <3>1. Append(r, d) = b.file \o b.deque
      BY <1>3, <2>2
    <3>2. Len(b.deque) <= WriteEvery
      BY <2>2, <2>3
    <3>. QED BY <1>2, <2>2, <3>1, <3>2 DEF Keeps
  <2>. QED BY <2>2, <2>4 DEF b
<1>. QED BY <1>4, <1>5

\* What lies between the extremes still does when there is one duration more.
LEMMA AverageOfMore ==
    ASSUME NEW a, NEW b, NEW r \in Seq(Durations), AverageOf(a, r), b.lastAvg = a.lastAvg, NEW d \in Durations
    PROVE  AverageOf(b, Append(r, d))
<1>. DEFINE more == Append(r, d)
<1>1. r \in Seq(Nat) /\ more \in Seq(Nat) /\ more # <<>> /\ r # <<>>
  BY DurationSequences DEF AverageOf
<1>2. \A i \in 1..Len(r) : i \in 1..Len(more) /\ more[i] = r[i]
  OBVIOUS
<1>. HIDE DEF more
<1>3. PICK i \in 1..Len(r), j \in 1..Len(r) : r[i] = Min(Range(r)) /\ r[j] = Max(Range(r))
  BY <1>1, RangeBounds
<1>4. Min(Range(more)) <= r[i] /\ r[j] <= Max(Range(more)) /\ Min(Range(more)) \in Nat /\ Max(Range(more)) \in Nat
  BY <1>1, <1>2, RangeBounds
<1>5. a.lastAvg \in r[i]..r[j] /\ r[i] \in Nat /\ r[j] \in Nat
  BY <1>1, <1>3 DEF AverageOf
<1>. QED BY <1>1, <1>4, <1>5 DEF AverageOf, more

\* The restart keeps all durations, and their average.
LEMMA ReloadedKeeps ==
    ASSUME NEW a, NEW r, Keeps(a, r), r # <<>>
    PROVE  Keeps(Reloaded(a), r) /\ AverageOf(Reloaded(a), r)
<1>1. /\ a.deque \in Seq(Durations) /\ a.file \in Seq(Durations) /\ r \in Seq(Durations) /\ r = a.file \o a.deque
      /\ WriteEvery \in Nat
  BY DurationsPositive DEF Keeps, Durable
<1>2. r \in Seq(Nat)
  BY <1>1, DurationSequences
<1>. DEFINE q == SumOfSeq(r) \div Len(r)
<1>3. q \in Min(Range(r))..Max(Range(r))
  BY <1>2, AverageWithin
<1>4. Min(Range(r)) \in Nat /\ Max(Range(r)) \in Nat
  BY <1>2, RangeBounds
<1>. HIDE DEF q
<1>5. Reloaded(a) = [deque |-> <<>>, file |-> r, lastAvg |-> q]
  BY <1>1 DEF Reloaded, q
<1>6. q \in Nat
  BY <1>3, <1>4
<1>7. r \o <<>> = r /\ Len(<<>>) = 0 /\ <<>> \in Seq(Durations)
  BY <1>1
<1>8. Keeps(Reloaded(a), r)
  BY <1>1, <1>5, <1>6, <1>7 DEF Keeps, Durable
<1>9. AverageOf(Reloaded(a), r)
  BY <1>3, <1>5 DEF AverageOf
<1>. QED BY <1>8, <1>9

\* The steps before the tasks run under the manager.
Preparing ==
    \/ CreateClassical \/ CreateAdaptive \/ MakeFaultTolerant
    \/ StartScript \/ CorrectSubspace \/ WriteAndReadFile
    \/ SplitSystems \/ AssignRoundRobin \/ AssignLoadBalanced \/ AssignFromFile

LEMMA PreparingStep == Preparing => UNCHANGED measured /\ ~Managed /\ ~Managed'
<1>. USE DEF measured, Managed
<1>1. CreateClassical \/ CreateAdaptive => UNCHANGED measured /\ ~Managed /\ ~Managed'
  BY DEF CreateClassical, CreateAdaptive, Created
<1>2. MakeFaultTolerant => UNCHANGED measured /\ ~Managed /\ ~Managed'
  BY DEF MakeFaultTolerant
<1>3. StartScript => UNCHANGED measured /\ ~Managed /\ ~Managed'
  BY DEF StartScript
<1>4. CorrectSubspace => UNCHANGED measured /\ ~Managed /\ ~Managed'
  BY DEF CorrectSubspace
<1>5. WriteAndReadFile => UNCHANGED measured /\ ~Managed /\ ~Managed'
  BY DEF WriteAndReadFile
<1>6. SplitSystems => UNCHANGED measured /\ ~Managed /\ ~Managed'
  BY DEF SplitSystems
<1>7. AssignRoundRobin => UNCHANGED measured /\ ~Managed /\ ~Managed'
  BY DEF AssignRoundRobin, Assign
<1>8. AssignLoadBalanced => UNCHANGED measured /\ ~Managed /\ ~Managed'
  BY DEF AssignLoadBalanced, Assign
<1>9. AssignFromFile => UNCHANGED measured /\ ~Managed /\ ~Managed'
  BY DEF AssignFromFile, Assign
<1>. QED BY <1>1, <1>2, <1>3, <1>4, <1>5, <1>6, <1>7, <1>8, <1>9 DEF Preparing

LEMMA LoadRun == RunUnderManager => LoadInv'
<1>. SUFFICES ASSUME RunUnderManager PROVE LoadInv'
  OBVIOUS
<1>1. /\ phase' = "running" /\ scheme' = scheme
      /\ average' = [t \in Tasks |-> [deque |-> <<>>, file |-> <<>>, lastAvg |-> 0]]
      /\ received' = [t \in Tasks |-> <<>>]
  BY DEF RunUnderManager
<1>2. Tasks' = Tasks
  BY <1>1 DEF Tasks
<1>3. Keeps([deque |-> <<>>, file |-> <<>>, lastAvg |-> 0], <<>>)
  BY DurationsPositive DEF Keeps, Durable
<1>. QED BY <1>1, <1>2, <1>3 DEF LoadInv, Managed

LEMMA LoadMeasure == LoadInv /\ Measure => LoadInv'
<1>. SUFFICES ASSUME LoadInv, Measure PROVE LoadInv'
  OBVIOUS
<1>1. PICK d \in [Tasks -> Durations] :
          /\ average' = [t \in Tasks |-> addDurationInformation(average[t], d[t])]
          /\ received' = [t \in Tasks |-> Append(received[t], d[t])]
  BY DEF Measure
<1>2. phase' = phase /\ scheme' = scheme /\ Managed /\ Managed'
  BY DEF Measure, Managed
<1>3. Tasks' = Tasks
  BY <1>2 DEF Tasks
<1>4. ASSUME NEW t \in Tasks
      PROVE  /\ Keeps(average'[t], received'[t])
             /\ phase = "restarted" => AverageOf(average'[t], received'[t])
  <2>1. Keeps(average[t], received[t]) /\ (phase = "restarted" => AverageOf(average[t], received[t]))
    BY <1>2 DEF LoadInv
  <2>2. /\ average'[t] = addDurationInformation(average[t], d[t])
        /\ received'[t] = Append(received[t], d[t]) /\ d[t] \in Durations
    BY <1>1
  <2>3. received[t] \in Seq(Durations)
    BY <2>1 DEF Keeps
  <2>. QED BY <2>1, <2>2, <2>3, KeepsMore, AverageOfMore
<1>. QED BY <1>1, <1>2, <1>3, <1>4 DEF LoadInv

LEMMA LoadRestart == LoadInv /\ Restart => LoadInv'
<1>. SUFFICES ASSUME LoadInv, Restart PROVE LoadInv'
  OBVIOUS
<1>1. /\ phase = "running" /\ phase' = "restarted" /\ scheme' = scheme /\ received' = received
      /\ average' = [t \in Tasks |-> Reloaded(average[t])]
      /\ \A t \in Tasks : received[t] # <<>>
  BY DEF Restart, Measured
<1>2. Tasks' = Tasks
  BY <1>1 DEF Tasks
<1>3. \A t \in Tasks : Keeps(average[t], received[t]) /\ DOMAIN received = Tasks
  BY <1>1 DEF LoadInv, Managed
<1>4. \A t \in Tasks : Keeps(average'[t], received'[t]) /\ AverageOf(average'[t], received'[t])
  BY <1>1, <1>3, ReloadedKeeps
<1>5. DOMAIN received = Tasks
  BY <1>1 DEF LoadInv, Managed
<1>. QED BY <1>1, <1>2, <1>4, <1>5 DEF LoadInv, Managed

LEMMA LoadInvariant == Spec => []LoadInv
<1>1. Init => LoadInv
  BY DEF Init, LoadInv, Managed
<1>2. LoadInv /\ [Next]_vars => LoadInv'
  <2>. SUFFICES ASSUME LoadInv, [Next]_vars PROVE LoadInv'
    OBVIOUS
  <2>1. CASE Preparing
    BY <2>1, PreparingStep DEF LoadInv, measured
  <2>2. CASE RunUnderManager
    BY <2>2, LoadRun
  <2>3. CASE Measure
    BY <2>3, LoadMeasure
  <2>4. CASE Reschedule
    BY <2>4 DEF Reschedule, LoadInv, Managed, Tasks
  <2>5. CASE Restart
    BY <2>5, LoadRestart
  <2>6. CASE UNCHANGED vars
    BY <2>6 DEF vars, measured, LoadInv, Managed, Tasks
  <2>. QED BY <2>1, <2>2, <2>3, <2>4, <2>5, <2>6 DEF Next, Preparing
<1>. QED BY <1>1, <1>2, PTL DEF Spec

\* No measured duration is lost by the load model that writes to files, it keeps no more than
\* WriteEvery of them in memory, and after a restart the load expected of a task lies between the
\* shortest and the longest of its durations.
THEOREM DurationsAlwaysKept == Spec => []DurationsKept
<1>1. LoadInv => DurationsKept
  <2>. SUFFICES ASSUME LoadInv, NEW t \in DOMAIN average
       PROVE  /\ average[t].file \o average[t].deque = received[t]
              /\ Len(average[t].deque) <= WriteEvery
              /\ phase = "restarted" =>
                    AveragingLoad(t) \in Min(Range(received[t]))..Max(Range(received[t]))
    BY DEF DurationsKept
  <2>1. Managed /\ t \in Tasks
    BY DEF LoadInv
  <2>. DEFINE a == average[t]
              r == received[t]
  <2>2. Keeps(a, r) /\ (phase = "restarted" => AverageOf(a, r))
    BY <2>1 DEF LoadInv
  <2>. HIDE DEF a, r
  <2>3. /\ a.deque \in Seq(Durations) /\ a.file \in Seq(Durations) /\ a.lastAvg \in Nat
        /\ r = a.file \o a.deque /\ Len(a.deque) <= WriteEvery
        /\ r \in Seq(Nat) /\ a.deque \in Seq(Nat) /\ 0 \notin Durations /\ r \in Seq(Durations)
    BY <2>2, DurationsPositive, DurationSequences DEF Keeps, Durable
  <2>4. ASSUME phase = "restarted"
        PROVE  AveragingLoad(t) \in Min(Range(r))..Max(Range(r))
    <3>1. CASE a.deque # <<>>
      <4>1. \A i \in 1..Len(a.deque) :
               Len(a.file) + i \in 1..Len(r) /\ a.deque[i] = r[Len(a.file) + i]
        <5>1. \A x, y \in Seq(Durations) : \A i \in 1..Len(y) :
                 Len(x) + i \in 1..Len(x \o y) /\ (x \o y)[Len(x) + i] = y[i]
          BY DurationSequences
        <5>. QED BY <2>3, <5>1
      <4>2. SumOfSeq(a.deque) \div Len(a.deque) \in Min(Range(r))..Max(Range(r))
        BY <2>3, <3>1, <4>1, AverageWithin
      <4>. QED BY <3>1, <4>2 DEF AveragingLoad, a
    <3>2. CASE a.deque = <<>>
      <4>1. AverageOf(a, r)
        BY <2>2, <2>4
      <4>2. r # <<>> /\ a.lastAvg \in Min(Range(r))..Max(Range(r))
        BY <4>1 DEF AverageOf
      <4>3. PICK i \in 1..Len(r) : r[i] = Min(Range(r))
        BY <2>3, <4>2, RangeBounds
      <4>4. Min(Range(r)) \in Nat /\ Max(Range(r)) \in Nat
        BY <2>3, <4>2, RangeBounds
      <4>5. Min(Range(r)) \in Durations
        <5>1. r[i] \in Durations
          BY <2>3, DurationSequences
        <5>. QED BY <4>3, <5>1
      <4>6. a.lastAvg # 0
        BY <2>3, <4>2, <4>4, <4>5
      <4>. QED BY <3>2, <4>2, <4>6 DEF AveragingLoad, a
    <3>. QED BY <3>1, <3>2
  <2>. QED BY <2>3, <2>4 DEF a, r
<1>. QED BY <1>1, LoadInvariant, PTL

-----------------------------------------------------------------------------
(* Sums over sets *)

Chosen(s) == CHOOSE x \in s : TRUE
SumOver(w, K) == MapThenSumSet(LAMBDA t : w[t], K)

\* f has the sum of w over every subset of S, if they are at most n elements.
Table(w, S, n, f) ==
    f = [s \in {u \in SUBSET S : Cardinality(u) <= n} |->
            IF s = {} THEN 0 ELSE w[Chosen(s)] + f[s \ {Chosen(s)}]]

LEMMA TableExists ==
    ASSUME NEW w, NEW S, IsFiniteSet(S), NEW m \in Nat
    PROVE  \E f : Table(w, S, m, f)
<1>. DEFINE D(n) == {u \in SUBSET S : Cardinality(u) <= n}
            I == {n \in Nat : \E f : Table(w, S, n, f)}
<1>0. \A u \in SUBSET S :
          /\ IsFiniteSet(u) /\ Cardinality(u) \in Nat /\ (Cardinality(u) = 0 <=> u = {})
          /\ u # {} => /\ Chosen(u) \in u /\ u \ {Chosen(u)} \in SUBSET S
                       /\ Cardinality(u \ {Chosen(u)}) = Cardinality(u) - 1
  BY FS_Subset, FS_CardinalityType, FS_EmptySet, FS_RemoveElement DEF Chosen
<1>1. 0 \in I
  <2>. DEFINE f == [s \in D(0) |-> 0]
  <2>1. ASSUME NEW s \in D(0) PROVE s = {}
    <3>1. s \in SUBSET S /\ Cardinality(s) <= 0
      OBVIOUS
    <3>2. Cardinality(s) \in Nat /\ (Cardinality(s) = 0 <=> s = {})
      BY <1>0, <3>1
    <3>. QED BY <3>1, <3>2
  <2>2. f = [s \in D(0) |-> IF s = {} THEN 0 ELSE w[Chosen(s)] + f[s \ {Chosen(s)}]]
    BY <2>1
  <2>3. Table(w, S, 0, f)
    BY <2>2 DEF Table
  <2>. QED BY <2>3
<1>2. ASSUME NEW n \in Nat, n \in I PROVE n + 1 \in I
  <2>1. PICK f : f = [s \in D(n) |-> IF s = {} THEN 0 ELSE w[Chosen(s)] + f[s \ {Chosen(s)}]]
    BY <1>2 DEF Table
  <2>. DEFINE h == [s \in D(n + 1) |-> IF s = {} THEN 0 ELSE w[Chosen(s)] + f[s \ {Chosen(s)}]]
  <2>2. ASSUME NEW s \in D(n)
        PROVE  s \in D(n + 1) /\ h[s] = f[s]
    <3>1. s \in D(n + 1)
      <4>1. s \in SUBSET S /\ Cardinality(s) <= n
        OBVIOUS
      <4>2. Cardinality(s) \in Nat
        BY <1>0, <4>1
      <4>. QED BY <4>1, <4>2
    <3>. QED BY <2>1, <3>1
  <2>3. ASSUME NEW s \in D(n + 1), s # {} PROVE s \ {Chosen(s)} \in D(n)
    BY <1>0, <2>3
  <2>4. ASSUME NEW s \in D(n + 1)
        PROVE  h[s] = IF s = {} THEN 0 ELSE w[Chosen(s)] + h[s \ {Chosen(s)}]
    <3>1. CASE s = {}
      BY <3>1
    <3>2. CASE s # {}
      <4>1. h[s \ {Chosen(s)}] = f[s \ {Chosen(s)}]
        <5>. HIDE DEF h
        <5>. QED BY <2>2, <2>3, <3>2
      <4>. QED BY <3>2, <4>1
    <3>. QED BY <3>1, <3>2
  <2>5. h = [s \in D(n + 1) |-> IF s = {} THEN 0 ELSE w[Chosen(s)] + h[s \ {Chosen(s)}]]
    BY <2>4
  <2>. HIDE DEF h
  <2>6. Table(w, S, n + 1, h)
    BY <2>5 DEF Table
  <2>. QED BY <2>6
<1>3. m \in I
  <2>. HIDE DEF I
  <2>. QED BY <1>1, <1>2, NatInd
<1>. QED BY <1>3

\* The sum over a set is in the table.
LEMMA SumOverTable ==
    ASSUME NEW w, NEW K, IsFiniteSet(K)
    PROVE  \E f : /\ \A s \in SUBSET K : f[s] = IF s = {} THEN 0 ELSE w[Chosen(s)] + f[s \ {Chosen(s)}]
                  /\ SumOver(w, K) = f[K]
<1>. DEFINE E(f) == f = [s \in SUBSET K |-> IF s = {} THEN 0 ELSE w[Chosen(s)] + f[s \ {Chosen(s)}]]
            iter == CHOOSE f : E(f)
<1>1. SumOver(w, K) = iter[K]
  BY DEF SumOver, MapThenSumSet, MapThenFoldSet, Chosen
<1>2. \E f : E(f)
  <2>1. Cardinality(K) \in Nat /\ {u \in SUBSET K : Cardinality(u) <= Cardinality(K)} = SUBSET K
    BY FS_CardinalityType, FS_Subset
  <2>2. PICK f : Table(w, K, Cardinality(K), f)
    BY <2>1, TableExists
  <2>. QED BY <2>1, <2>2 DEF Table
<1>3. E(iter)
  <2>. HIDE DEF E
  <2>. QED BY <1>2
<1>. HIDE DEF iter
<1>4. \A s \in SUBSET K : iter[s] = IF s = {} THEN 0 ELSE w[Chosen(s)] + iter[s \ {Chosen(s)}]
  BY <1>3
<1>. QED BY <1>1, <1>4

\* The table of a set has the tables of its subsets.
LEMMA SumOverChosen ==
    ASSUME NEW w, NEW K, IsFiniteSet(K)
    PROVE  SumOver(w, K) = IF K = {} THEN 0 ELSE w[Chosen(K)] + SumOver(w, K \ {Chosen(K)})
<1>. DEFINE L == K \ {Chosen(K)}
<1>1. PICK f : /\ \A s \in SUBSET K : f[s] = IF s = {} THEN 0 ELSE w[Chosen(s)] + f[s \ {Chosen(s)}]
               /\ SumOver(w, K) = f[K]
  BY SumOverTable
<1>2. L \in SUBSET K /\ IsFiniteSet(L)
  BY FS_Subset
<1>. HIDE DEF L
<1>3. PICK h : /\ \A s \in SUBSET L : h[s] = IF s = {} THEN 0 ELSE w[Chosen(s)] + h[s \ {Chosen(s)}]
               /\ SumOver(w, L) = h[L]
  BY <1>2, SumOverTable
<1>. DEFINE I == {n \in Nat : \A s \in SUBSET L : Cardinality(s) = n => f[s] = h[s]}
<1>4. \A s \in SUBSET L :
          /\ s \in SUBSET K /\ Cardinality(s) \in Nat /\ (Cardinality(s) = 0 <=> s = {})
          /\ s # {} => s \ {Chosen(s)} \in SUBSET L /\ Cardinality(s \ {Chosen(s)}) = Cardinality(s) - 1
  BY <1>2, FS_Subset, FS_CardinalityType, FS_EmptySet, FS_RemoveElement DEF Chosen
<1>5. 0 \in I
  BY <1>1, <1>3, <1>4
<1>6. ASSUME NEW n \in Nat, n \in I PROVE n + 1 \in I
  <2>. SUFFICES ASSUME NEW s \in SUBSET L, Cardinality(s) = n + 1 PROVE f[s] = h[s]
    OBVIOUS
  <2>1. s # {} /\ s \in SUBSET K /\ s \ {Chosen(s)} \in SUBSET L /\ Cardinality(s \ {Chosen(s)}) = n
    BY <1>4
  <2>2. f[s \ {Chosen(s)}] = h[s \ {Chosen(s)}]
    BY <1>6, <2>1
  <2>. QED BY <1>1, <1>3, <2>1, <2>2
<1>7. f[L] = h[L]
  <2>1. Cardinality(L) \in Nat /\ L \in SUBSET L
    BY <1>4
  <2>2. Cardinality(L) \in I
    <3>. HIDE DEF I
    <3>. QED BY <1>5, <1>6, <2>1, NatInd
  <2>. QED BY <2>1, <2>2
<1>8. K \in SUBSET K
  OBVIOUS
<1>. QED BY <1>1, <1>3, <1>7, <1>8 DEF L

\* Whichever element is taken away, the sum is smaller by its weight.
LEMMA SumOverRemove ==
    ASSUME NEW T, NEW w \in [T -> Nat], NEW K \in SUBSET T, IsFiniteSet(K)
    PROVE  /\ SumOver(w, K) \in Nat
           /\ \A x \in K : SumOver(w, K) = w[x] + SumOver(w, K \ {x})
<1>. DEFINE Q(s) == /\ SumOver(w, s) \in Nat
                    /\ \A x \in s : SumOver(w, s) = w[x] + SumOver(w, s \ {x})
            I == {n \in Nat : \A s \in SUBSET K : Cardinality(s) <= n => Q(s)}
<1>1. \A s \in SUBSET K :
          /\ IsFiniteSet(s) /\ Cardinality(s) \in Nat /\ (Cardinality(s) = 0 <=> s = {})
          /\ \A x \in s : s \ {x} \in SUBSET K /\ Cardinality(s \ {x}) = Cardinality(s) - 1 /\ w[x] \in Nat
          /\ s # {} => Chosen(s) \in s
  BY FS_Subset, FS_CardinalityType, FS_EmptySet, FS_RemoveElement DEF Chosen
<1>2. 0 \in I
  BY <1>1, SumOverChosen
<1>3. ASSUME NEW n \in Nat, n \in I PROVE n + 1 \in I
  <2>. SUFFICES ASSUME NEW s \in SUBSET K, Cardinality(s) = n + 1 PROVE Q(s)
    <3>1. \A s \in SUBSET K : Cardinality(s) \in Nat
      BY <1>1
    <3>2. \A s \in SUBSET K : Cardinality(s) <= n => Q(s)
      BY <1>3
    <3>. HIDE DEF Q
    <3>3. ASSUME NEW s \in SUBSET K, Cardinality(s) <= n + 1
          PROVE  Cardinality(s) <= n \/ Cardinality(s) = n + 1
      BY <3>1, <3>3
    <3>. QED BY <3>2, <3>3
  <2>1. s # {} /\ Chosen(s) \in s /\ IsFiniteSet(s)
    BY <1>1
  <2>. DEFINE c == Chosen(s)
  <2>2. SumOver(w, s) = w[c] + SumOver(w, s \ {c})
    BY <2>1, SumOverChosen
  <2>. HIDE DEF c, Q
  <2>3. \A x \in s : Q(s \ {x}) /\ w[x] \in Nat
    BY <1>1, <1>3
  <2>4. c \in s
    BY <2>1 DEF c
  <2>5. SumOver(w, s) \in Nat
    BY <2>2, <2>3, <2>4 DEF Q
  <2>6. ASSUME NEW x \in s PROVE SumOver(w, s) = w[x] + SumOver(w, s \ {x})
    <3>1. CASE x = c
      BY <2>2, <3>1
    <3>2. CASE x # c
      <4>. DEFINE both == SumOver(w, (s \ {c}) \ {x})
      <4>1. SumOver(w, s \ {c}) = w[x] + both
        BY <2>3, <2>4, <3>2 DEF Q
      <4>2. (s \ {x}) \ {c} = (s \ {c}) \ {x}
        OBVIOUS
      <4>3. SumOver(w, s \ {x}) = w[c] + both
        BY <2>3, <2>4, <3>2, <4>2 DEF Q
      <4>4. SumOver(w, s \ {c}) \in Nat /\ SumOver(w, s \ {x}) \in Nat /\ w[x] \in Nat /\ w[c] \in Nat
        BY <2>3, <2>4 DEF Q
      <4>5. both \in Nat
        <5>1. Q((s \ {c}) \ {x})
          <6>1. s \ {c} \in SUBSET K /\ Cardinality(s \ {c}) = n /\ x \in s \ {c}
            BY <1>1, <2>4, <3>2
          <6>2. (s \ {c}) \ {x} \in SUBSET K /\ Cardinality((s \ {c}) \ {x}) <= n
            BY <1>1, <6>1
          <6>. QED BY <1>3, <6>2
        <5>. QED BY <5>1 DEF Q
      <4>. HIDE DEF both
      <4>. QED BY <2>2, <4>1, <4>3, <4>4, <4>5
    <3>. QED BY <3>1, <3>2
  <2>. QED BY <2>5, <2>6 DEF Q
<1>4. Q(K)
  <2>1. Cardinality(K) \in Nat /\ K \in SUBSET K
    BY <1>1
  <2>2. Cardinality(K) \in I
    <3>. HIDE DEF I
    <3>. QED BY <1>2, <1>3, <2>1, NatInd
  <2>. QED BY <2>1, <2>2
<1>. QED BY <1>4

-----------------------------------------------------------------------------
(* Rescheduling *)

LEMMA LeastNumber ==
    ASSUME NEW S \in SUBSET Nat, S # {}
    PROVE  Min(S) \in S /\ \A y \in S : Min(S) <= y
<1>1. PICK x \in S : \A y \in S : <<y, x>> \notin NatLess
  <2>1. IsWellFoundedOn(NatLess, Nat)
    BY NatLessThanWellFounded DEF OpToRel, NatLess
  <2>. QED BY <2>1, WFMin
<1>2. ASSUME NEW y \in S PROVE x <= y
  <2>1. <<y, x>> \notin NatLess /\ x \in Nat /\ y \in Nat
    BY <1>1
  <2>. QED BY <2>1 DEF NatLess
<1>. QED BY <1>2 DEF Min

\* What the durations measured are when tasks are moved: every task has run, and the history of the
\* load model is as long as one run.
Ready ==
    /\ \E n \in Nat : Tasks = 1..n
    /\ Tasks # {}
    /\ owner \in [Tasks -> Nat]
    /\ last \in [Tasks -> Nat]
    /\ \A t \in Tasks : history[t] = <<last[t]>>

Places == [Tasks -> Nat]
TasksOf(place, g) == {t \in Tasks : place[t] = g}
Load(place, g) == SumOver(last, TasksOf(place, g))

\* There is a task, and the tasks are numbered.
LEMMA TaskNumbers ==
    ASSUME Ready
    PROVE  \E n \in Nat : Tasks = 1..n /\ n # 0
<1>1. PICK n \in Nat : Tasks = 1..n
  BY DEF Ready
<1>2. n # 0
  BY <1>1 DEF Ready
<1>. QED BY <1>1, <1>2

\* The numbers that a function on the tasks has are bounded.
LEMMA TasksBounded ==
    ASSUME Ready, NEW f \in [Tasks -> Nat]
    PROVE  /\ f \in Seq(Nat) /\ f # <<>> /\ Len(f) \in Nat \ {0} /\ Tasks = 1..Len(f)
           /\ \E m \in Nat : \A t \in Tasks : f[t] <= m
<1>1. PICK n \in Nat : Tasks = 1..n /\ n # 0
  BY TaskNumbers
<1>2. f \in Seq(Nat) /\ f # <<>> /\ Len(f) = n
  BY <1>1
<1>3. PICK k \in 1..Len(f) : \A i \in 1..Len(f) : f[i] <= f[k]
  BY <1>2, BoundsExist
<1>4. f[k] \in Nat /\ \A t \in Tasks : f[t] <= f[k]
  BY <1>1, <1>2, <1>3
<1>. QED BY <1>1, <1>2, <1>4

LEMMA LoadsAre ==
    ASSUME Ready, NEW place \in Places
    PROVE  /\ IsFiniteSet(Tasks)
           /\ DOMAIN GroupDurations(place) = Range(place)
           /\ Range(place) = {place[t] : t \in Tasks}
           /\ \A g \in Range(place) : g \in Nat /\ GroupDurations(place)[g] = Load(place, g)
           /\ \A g : Load(place, g) \in Nat
<1>1. PICK n \in Nat : Tasks = 1..n
  BY DEF Ready
<1>2. IsFiniteSet(Tasks)
  BY <1>1, FS_Interval
<1>3. Range(place) = {place[t] : t \in Tasks}
  BY DEF Places, Range
<1>4. \A g \in Range(place) : g \in Nat /\ GroupDurations(place)[g] = Load(place, g)
  BY <1>3 DEF GroupDurations, Load, SumOver, TasksOf, Places
<1>5. ASSUME NEW g PROVE Load(place, g) \in Nat
  <2>1. TasksOf(place, g) \in SUBSET Tasks
    BY DEF TasksOf
  <2>2. IsFiniteSet(TasksOf(place, g)) /\ last \in [Tasks -> Nat]
    BY <1>2, <2>1, FS_Subset DEF Ready
  <2>. QED BY <2>1, <2>2, SumOverRemove DEF Load
<1>. QED BY <1>2, <1>3, <1>4, <1>5 DEF GroupDurations

\* The loads have a smallest and a largest one.
LEMMA LoadExtremes ==
    ASSUME Ready, NEW place \in Places
    PROVE  LET load == GroupDurations(place) IN
           /\ Min(Range(load)) \in Nat /\ Max(Range(load)) \in Nat
           /\ \A g \in Range(place) : Min(Range(load)) <= load[g] /\ load[g] <= Max(Range(load))
           /\ \E g \in Range(place) : load[g] = Min(Range(load))
           /\ \E g \in Range(place) : load[g] = Max(Range(load))
<1>. DEFINE load == GroupDurations(place)
            loads == [t \in Tasks |-> load[place[t]]]
<1>1. /\ DOMAIN load = Range(place) /\ Range(place) = {place[t] : t \in Tasks}
      /\ \A g \in Range(place) : load[g] \in Nat
  BY LoadsAre
<1>2. PICK n \in Nat : Tasks = 1..n
  BY DEF Ready
<1>. HIDE DEF load
<1>3. loads \in Seq(Nat) /\ loads # <<>> /\ Len(loads) = n
  <2>1. n # 0
    BY <1>2 DEF Ready
  <2>. QED BY <1>1, <1>2, <2>1
<1>4. \A t \in Tasks : loads[t] = load[place[t]]
  OBVIOUS
<1>5. DOMAIN loads = Tasks
  OBVIOUS
<1>. HIDE DEF loads
<1>6. Range(loads) = Range(load)
  <2>1. Range(loads) = {loads[t] : t \in Tasks}
    BY <1>5 DEF Range
  <2>2. Range(load) = {load[g] : g \in Range(place)}
    BY <1>1 DEF Range
  <2>3. {loads[t] : t \in Tasks} = {load[g] : g \in Range(place)}
    BY <1>1, <1>4
  <2>. QED BY <2>1, <2>2, <2>3
<1>7. /\ Min(Range(load)) \in Nat /\ Max(Range(load)) \in Nat
      /\ \A t \in Tasks : Min(Range(load)) <= load[place[t]] /\ load[place[t]] <= Max(Range(load))
      /\ \E t \in Tasks : load[place[t]] = Min(Range(load))
      /\ \E t \in Tasks : load[place[t]] = Max(Range(load))
  BY <1>2, <1>3, <1>4, <1>6, RangeBounds
<1>. QED BY <1>1, <1>7 DEF load

\* The slowest group has the largest load.
LEMMA FastAndSlow ==
    ASSUME Ready, NEW place \in Places
    PROVE  LET load == GroupDurations(place) IN
           /\ FastestGroup(load) \in Range(place)
           /\ SlowestGroup(load) \in Range(place)
           /\ load[SlowestGroup(load)] = Max(Range(load))
<1>. DEFINE load == GroupDurations(place)
            least == {g \in DOMAIN load : load[g] = Min(Range(load))}
            most == {g \in DOMAIN load : load[g] = Max(Range(load))}
<1>1. /\ DOMAIN load = Range(place) /\ Range(place) = {place[t] : t \in Tasks}
      /\ \A g \in Range(place) : g \in Nat
  BY LoadsAre
<1>2. least # {} /\ most # {}
  BY <1>1, LoadExtremes
<1>3. least \in SUBSET Nat /\ most \in SUBSET Nat
  BY <1>1
<1>. HIDE DEF load
<1>4. FastestGroup(load) = Min(least) /\ SlowestGroup(load) = Max(most)
  BY DEF FastestGroup, SlowestGroup
<1>5. Min(least) \in least
  BY <1>2, <1>3, LeastNumber
<1>6. Max(most) \in most
  <2>3. PICK m \in Nat : \A t \in Tasks : place[t] <= m
    BY TasksBounded DEF Places
  <2>. DEFINE below == {m - g : g \in most}
  <2>4. \A g \in most : g \in Nat /\ g <= m
    BY <1>1, <1>3, <2>3
  <2>. HIDE DEF most
  <2>5. below \in SUBSET Nat /\ below # {}
    BY <1>2, <2>4
  <2>6. PICK g \in most : Min(below) = m - g
    BY <2>5, LeastNumber
  <2>7. \A h \in most : m - g <= m - h
    BY <2>5, <2>6, LeastNumber
  <2>8. \A h \in most : h <= g
    BY <2>4, <2>7
  <2>9. Max(most) = g
    BY <1>3, <2>8, MaxIs
  <2>. QED BY <2>9
<1>. QED BY <1>1, <1>4, <1>5, <1>6 DEF load

\* The prognosis of a task is its last duration.
LEMMA PrognosisIs ==
    ASSUME Ready, NEW t \in Tasks
    PROVE  evalSpecificUOT(t) = last[t]
<1>1. history[t] = <<last[t]>> /\ last[t] \in Nat
  BY DEF Ready
<1>2. Len(<<last[t]>>) = 1 /\ <<last[t]>>[1] = last[t]
  OBVIOUS
<1>3. PICK f : f[0] = 0 /\ f[1] = f[0] + <<last[t]>>[1] /\ SumOfSeq(<<last[t]>>) = f[1]
  <2>. DEFINE s == <<last[t]>>
  <2>. HIDE DEF s
  <2>1. Len(s) = 1
    BY <1>2 DEF s
  <2>2. PICK f : /\ f[0] = 0 /\ \A j \in 1..1 : f[j] = f[j - 1] + s[j]
                 /\ SumOfSeq(s) = f[1]
    BY <2>1, SumUnfolds
  <2>3. f[1] = f[1 - 1] + s[1]
    BY <2>2
  <2>. QED BY <2>2, <2>3 DEF s
<1>4. SumOfSeq(<<last[t]>>) = last[t]
  BY <1>1, <1>2, <1>3
<1>5. last[t] \div 1 = last[t]
  BY <1>1
<1>. QED BY <1>1, <1>2, <1>4, <1>5 DEF evalSpecificUOT

\* The average, whatever it is an average of, is a number.
LEMMA AverageIs == Ready => AverageDuration \in Int
<1>. SUFFICES ASSUME Ready PROVE AverageDuration \in Int
  OBVIOUS
<1>1. last \in Seq(Nat) /\ last # <<>> /\ Len(last) \in Nat \ {0} /\ Tasks = 1..Len(last)
  BY TasksBounded DEF Ready
<1>2. PICK hi \in Nat : \A t \in Tasks : last[t] <= hi
  BY TasksBounded DEF Ready
<1>3. \A i \in 1..Len(last) : 0 <= last[i] /\ last[i] <= hi
  BY <1>1, <1>2 DEF Ready
<1>4. SumOfSeq(last) \in Nat
  BY <1>1, <1>3, SumBounds
<1>. QED BY <1>1, <1>4 DEF AverageDuration

\* The task to move is one of the slowest group.
LEMMA TaskIs ==
    ASSUME Ready, NEW place \in Places
    PROVE  LET load == GroupDurations(place)
               t == TaskToMove(place, load)
           IN  t \in Tasks /\ place[t] = SlowestGroup(load)
<1>. DEFINE load == GroupDurations(place)
            fast == FastestGroup(load)
            slowest == {t \in Tasks : place[t] = SlowestGroup(load)}
            x(t) == load[fast] + evalSpecificUOT(t) - AverageDuration
            Distance(t) == IF x(t) < 0 THEN -x(t) ELSE x(t)
            nearest == {t \in slowest : \A u \in slowest : Distance(t) <= Distance(u)}
<1>1. TaskToMove(place, load) = Min(nearest)
  BY DEF TaskToMove
<1>2. slowest # {}
  BY LoadsAre, FastAndSlow
<1>3. \A t \in slowest : Distance(t) \in Nat /\ t \in Nat
  <2>1. load[fast] \in Nat
    BY LoadsAre, FastAndSlow
  <2>2. \A t \in Tasks : evalSpecificUOT(t) \in Nat
    BY PrognosisIs DEF Ready
  <2>3. AverageDuration \in Int
    BY AverageIs
  <2>4. \A t \in Tasks : t \in Nat
    BY DEF Ready
  <2>. HIDE DEF load, fast
  <2>. QED BY <2>1, <2>2, <2>3, <2>4
<1>. HIDE DEF Distance, slowest
<1>4. {Distance(t) : t \in slowest} \in SUBSET Nat /\ {Distance(t) : t \in slowest} # {}
  BY <1>2, <1>3
<1>5. PICK t \in slowest : \A u \in slowest : Distance(t) <= Distance(u)
  <2>1. PICK d \in {Distance(t) : t \in slowest} : \A e \in {Distance(t) : t \in slowest} : d <= e
    BY <1>4, LeastNumber
  <2>. QED BY <2>1
<1>6. nearest # {} /\ nearest \in SUBSET Nat
  BY <1>3, <1>5
<1>7. Min(nearest) \in slowest
  BY <1>6, LeastNumber
<1>. QED BY <1>1, <1>7 DEF slowest

\* Where the loop's work goes on: no group is left without a task, none is longer than the longest.
Better(place) ==
    /\ place \in Places
    /\ Range(owner) \subseteq Range(place)
    /\ \A g \in Range(place) : Load(place, g) <= Max(Range(GroupDurations(owner)))

\* The next move in place, if it is worth while.
Worth(place) ==
    LET load == GroupDurations(place)
    IN  load[FastestGroup(load)] + last[TaskToMove(place, load)] < load[SlowestGroup(load)]
Moved(place) ==
    LET load == GroupDurations(place) IN [place EXCEPT ![TaskToMove(place, load)] = FastestGroup(load)]

LEMMA MovedBetter ==
    ASSUME Ready, NEW place, Better(place), Worth(place)
    PROVE  Better(Moved(place))
<1>. DEFINE load == GroupDurations(place)
            fast == FastestGroup(load)
            slow == SlowestGroup(load)
            t == TaskToMove(place, load)
            after == [place EXCEPT ![t] = fast]
            M == Max(Range(GroupDurations(owner)))
<1>1. place \in Places
  BY DEF Better
<1>2. /\ fast \in Range(place) /\ slow \in Range(place) /\ t \in Tasks /\ place[t] = slow
  BY <1>1, FastAndSlow, TaskIs
<1>3. /\ fast \in Nat /\ slow \in Nat
      /\ load[fast] = Load(place, fast) /\ load[slow] = Load(place, slow)
  BY <1>1, <1>2, LoadsAre
<1>4. load[fast] + last[t] < load[slow]
  BY DEF Worth
<1>5. Moved(place) = after
  BY DEF Moved
<1>6. last[t] \in Nat /\ last \in [Tasks -> Nat]
  BY <1>2 DEF Ready
<1>. HIDE DEF load, fast, slow, t
<1>7. after \in Places /\ after[t] = fast /\ \A u \in Tasks \ {t} : after[u] = place[u]
  BY <1>1, <1>2, <1>3 DEF Places
<1>. HIDE DEF after
<1>8. IsFiniteSet(Tasks) /\ \A K \in SUBSET Tasks : IsFiniteSet(K)
  BY <1>1, LoadsAre, FS_Subset
<1>9. \A g : TasksOf(place, g) \in SUBSET Tasks /\ TasksOf(after, g) \in SUBSET Tasks
  BY DEF TasksOf
<1>10. \A g : Load(place, g) \in Nat /\ Load(after, g) \in Nat
  BY <1>1, <1>7, LoadsAre
<1>11. Load(place, slow) = last[t] + SumOver(last, TasksOf(place, slow) \ {t})
  <2>1. t \in TasksOf(place, slow)
    BY <1>2 DEF TasksOf
  <2>. QED BY <1>6, <1>8, <1>9, <2>1, SumOverRemove DEF Load
<1>12. fast # slow
  BY <1>3, <1>4, <1>6, <1>10
<1>13. TasksOf(after, slow) = TasksOf(place, slow) \ {t}
  BY <1>2, <1>7, <1>12 DEF TasksOf
<1>14. Load(after, slow) <= Load(place, slow)
  BY <1>6, <1>10, <1>11, <1>13 DEF Load
<1>15. TasksOf(place, slow) \ {t} # {}
  <2>. SUFFICES ASSUME TasksOf(place, slow) \ {t} = {} PROVE FALSE
    OBVIOUS
  <2>1. SumOver(last, {}) = 0
    BY SumOverChosen, FS_EmptySet
  <2>. QED BY <1>3, <1>4, <1>6, <1>10, <1>11, <2>1
<1>16. Load(after, fast) = last[t] + Load(place, fast)
  <2>1. t \in TasksOf(after, fast) /\ TasksOf(after, fast) \ {t} = TasksOf(place, fast)
    BY <1>2, <1>7, <1>12 DEF TasksOf
  <2>2. SumOver(last, TasksOf(after, fast)) = last[t] + SumOver(last, TasksOf(after, fast) \ {t})
    BY <1>6, <1>8, <1>9, <2>1, SumOverRemove
  <2>. QED BY <2>1, <2>2 DEF Load
<1>17. \A g : g # fast /\ g # slow => TasksOf(after, g) = TasksOf(place, g)
  BY <1>2, <1>7 DEF TasksOf
<1>18. Range(place) \subseteq Range(after)
  <2>1. Range(place) = {place[u] : u \in Tasks} /\ Range(after) = {after[u] : u \in Tasks}
    BY <1>1, <1>7, LoadsAre
  <2>2. PICK v \in Tasks \ {t} : place[v] = slow
    BY <1>15 DEF TasksOf
  <2>3. after[v] = slow
    BY <1>7, <2>2
  <2>4. ASSUME NEW u \in Tasks PROVE place[u] \in {after[w] : w \in Tasks}
    BY <1>2, <1>7, <2>2, <2>3
  <2>. QED BY <2>1, <2>4
<1>19. Range(after) \subseteq Range(place)
  <2>1. Range(place) = {place[u] : u \in Tasks} /\ Range(after) = {after[u] : u \in Tasks}
    BY <1>1, <1>7, LoadsAre
  <2>2. ASSUME NEW u \in Tasks PROVE after[u] \in Range(place)
    BY <1>2, <1>7, <2>1
  <2>. QED BY <2>1, <2>2
<1>20. M \in Nat
  <2>1. owner \in Places
    BY DEF Ready, Places
  <2>. QED BY <2>1, LoadExtremes
<1>. HIDE DEF M
<1>21. ASSUME NEW g \in Range(after) PROVE Load(after, g) <= M
  <2>1. Load(place, slow) <= M
    BY <1>2 DEF Better, M
  <2>2. CASE g = fast
    BY <1>3, <1>4, <1>6, <1>10, <1>16, <1>20, <2>1, <2>2
  <2>3. CASE g = slow
    BY <1>10, <1>14, <1>20, <2>1, <2>3
  <2>4. CASE g # fast /\ g # slow
    <3>1. Load(place, g) <= M
      BY <1>19 DEF Better, M
    <3>. QED BY <1>17, <2>4, <3>1 DEF Load
  <2>. QED BY <2>2, <2>3, <2>4
<1>22. Better(after)
  BY <1>7, <1>18, <1>21 DEF Better, M
<1>. QED BY <1>5, <1>22

\* Where the moves leave the tasks (Reschedule).
Result(moves) ==
    LET target == [i \in DOMAIN moves |-> moves[i][1]]
    IN  [t \in Tasks |-> IF t \in Range(target)
                         THEN moves[CHOOSE i \in DOMAIN moves : target[i] = t][2] ELSE owner[t]]

MoveLists == Seq(Tasks \X Nat)
NoTaskTwice(moves) == \A i, j \in DOMAIN moves : moves[i][1] = moves[j][1] => i = j

LEMMA ResultIs ==
    ASSUME NEW moves \in MoveLists, NoTaskTwice(moves)
    PROVE  /\ DOMAIN Result(moves) = Tasks
           /\ \A i \in DOMAIN moves : moves[i][1] \in Tasks /\ Result(moves)[moves[i][1]] = moves[i][2]
           /\ \A t \in Tasks : (\A i \in DOMAIN moves : moves[i][1] # t) => Result(moves)[t] = owner[t]
<1>. DEFINE target == [i \in DOMAIN moves |-> moves[i][1]]
<1>1. Range(target) = {moves[i][1] : i \in DOMAIN moves} /\ \A i \in DOMAIN moves : target[i] = moves[i][1]
  BY DEF Range
<1>2. \A i \in DOMAIN moves : moves[i] \in Tasks \X Nat
  BY DEF MoveLists
<1>. HIDE DEF target
<1>3. Result(moves) = [t \in Tasks |-> IF t \in Range(target)
                         THEN moves[CHOOSE i \in DOMAIN moves : target[i] = t][2] ELSE owner[t]]
  BY DEF Result, target
<1>4. ASSUME NEW i \in DOMAIN moves
      PROVE  moves[i][1] \in Tasks /\ Result(moves)[moves[i][1]] = moves[i][2]
  <2>1. moves[i][1] \in Tasks /\ moves[i][1] \in Range(target)
    BY <1>1, <1>2
  <2>. DEFINE j == CHOOSE k \in DOMAIN moves : target[k] = moves[i][1]
  <2>2. j \in DOMAIN moves /\ target[j] = moves[i][1]
    BY <1>1
  <2>3. Result(moves)[moves[i][1]] = moves[j][2]
    BY <1>3, <2>1
  <2>. HIDE DEF j
  <2>4. j = i
    BY <1>1, <2>2 DEF NoTaskTwice
  <2>. QED BY <2>1, <2>3, <2>4
<1>5. ASSUME NEW t \in Tasks, \A i \in DOMAIN moves : moves[i][1] # t
      PROVE  Result(moves)[t] = owner[t]
  BY <1>1, <1>3, <1>5
<1>. QED BY <1>3, <1>4, <1>5

\* What the loop's state is like before and after an iteration: the copy it works on is where the moves
\* lead, or one move behind, for a task that had been moved before.
Plans == [place : Places, moves : MoveLists, stop : BOOLEAN]
Behind(s) ==
    /\ Worth(s.place) /\ Result(s.moves) = Moved(s.place)
    /\ \E i \in DOMAIN s.moves : s.moves[i][1] = TaskToMove(s.place, GroupDurations(s.place))
GoodPlan(s) ==
    /\ s \in Plans
    /\ NoTaskTwice(s.moves)
    /\ Better(s.place)
    /\ Result(s.moves) = s.place \/ Behind(s)

LEMMA GoodNextMove ==
    ASSUME Ready, NEW s, GoodPlan(s)
    PROVE  GoodPlan(NextMove(s))
<1>. DEFINE load == GroupDurations(s.place)
            t == TaskToMove(s.place, load)
            earlier == {i \in DOMAIN s.moves : s.moves[i][1] = t}
            fast == FastestGroup(load)
            slow == SlowestGroup(load)
            stops == s.stop \/ load[slow] \div AverageDuration < MinInbalance
                            \/ ~WorthMoving(load[fast], evalSpecificUOT(t), load[slow])
            changed == [i \in DOMAIN s.moves |-> IF i \in earlier THEN <<t, fast>> ELSE s.moves[i]]
<1>1. s \in Plans /\ s.place \in Places /\ s.moves \in MoveLists /\ NoTaskTwice(s.moves)
  BY DEF GoodPlan, Plans
<1>2. /\ fast \in Range(s.place) /\ t \in Tasks /\ fast \in Nat
  BY <1>1, FastAndSlow, TaskIs, LoadsAre
<1>3. Moved(s.place) = [s.place EXCEPT ![t] = fast]
  BY DEF Moved
<1>4. CASE stops
  <2>1. NextMove(s) = [s EXCEPT !.stop = TRUE]
    BY <1>4 DEF NextMove
  <2>2. /\ NextMove(s) \in Plans /\ NextMove(s).place = s.place /\ NextMove(s).moves = s.moves
    BY <1>1, <2>1 DEF Plans
  <2>. QED BY <2>2 DEF GoodPlan, Behind
<1>5. CASE ~stops
  <2>1. Worth(s.place)
    <3>1. WorthMoving(load[fast], evalSpecificUOT(t), load[slow])
      BY <1>5
    <3>2. load[fast] + last[t] < load[slow]
      BY <1>2, <3>1, PrognosisIs DEF WorthMoving
    <3>. QED BY <3>2 DEF Worth
  <2>2. Better(Moved(s.place))
    BY <2>1, MovedBetter DEF GoodPlan
  <2>3. CASE earlier # {}
    <3>1. NextMove(s) = [s EXCEPT !.moves = changed]
      BY <1>5, <2>3 DEF NextMove
    <3>. HIDE DEF load, t, fast, slow, stops
    <3>2. changed \in MoveLists /\ DOMAIN changed = DOMAIN s.moves
      <4>1. s.moves \in Seq(Tasks \X Nat) /\ <<t, fast>> \in Tasks \X Nat
        BY <1>1, <1>2 DEF MoveLists
      <4>2. /\ Len(s.moves) \in Nat /\ DOMAIN s.moves = 1..Len(s.moves)
            /\ \A i \in 1..Len(s.moves) : s.moves[i] \in Tasks \X Nat
        BY <4>1, ElementOfSeq, LenProperties
      <4>3. changed \in [1..Len(s.moves) -> Tasks \X Nat]
        BY <4>1, <4>2
      <4>. HIDE DEF changed
      <4>. QED BY <4>2, <4>3 DEF MoveLists
    <3>3. \A i \in DOMAIN s.moves : changed[i][1] = s.moves[i][1]
                                    /\ (s.moves[i][1] = t => changed[i][2] = fast)
                                    /\ (s.moves[i][1] # t => changed[i][2] = s.moves[i][2])
      OBVIOUS
    <3>. HIDE DEF changed
    <3>4. NoTaskTwice(changed)
      BY <1>1, <3>2, <3>3 DEF NoTaskTwice
    <3>5. PICK k \in DOMAIN s.moves : s.moves[k][1] = t
      BY <2>3
    <3>6. ASSUME NEW u \in Tasks
          PROVE  Result(changed)[u] = IF u = t THEN fast ELSE Result(s.moves)[u]
      <4>1. CASE \A i \in DOMAIN s.moves : s.moves[i][1] # u
        <5>1. u # t /\ Result(s.moves)[u] = owner[u]
          BY <1>1, <3>5, <4>1, ResultIs
        <5>2. Result(changed)[u] = owner[u]
          BY <3>2, <3>3, <3>4, <4>1, ResultIs
        <5>. QED BY <5>1, <5>2
      <4>2. ASSUME NEW i \in DOMAIN s.moves, s.moves[i][1] = u
            PROVE  Result(changed)[u] = IF u = t THEN fast ELSE Result(s.moves)[u]
        <5>1. Result(changed)[u] = changed[i][2]
          BY <3>2, <3>3, <3>4, <4>2, ResultIs
        <5>2. Result(s.moves)[u] = s.moves[i][2]
          BY <1>1, <4>2, ResultIs
        <5>. QED BY <3>3, <4>2, <5>1, <5>2
      <4>. QED BY <4>1, <4>2
    <3>7. \A u \in Tasks : \/ Result(s.moves)[u] = s.place[u]
                            \/ (u = t /\ Result(s.moves)[u] = fast)
      <4>1. Moved(s.place) = [u \in Tasks |-> IF u = t THEN fast ELSE s.place[u]]
        BY <1>1, <1>2, <1>3 DEF Places
      <4>2. Result(s.moves) = s.place \/ Result(s.moves) = Moved(s.place)
        BY DEF GoodPlan, Behind
      <4>3. \A u \in Tasks : Moved(s.place)[u] = IF u = t THEN fast ELSE s.place[u]
        BY <4>1
      <4>4. CASE Result(s.moves) = s.place
        BY <4>4
      <4>5. CASE Result(s.moves) = Moved(s.place)
        BY <4>3, <4>5
      <4>. QED BY <4>2, <4>4, <4>5
    <3>8. Result(changed) = Moved(s.place)
      <4>1. DOMAIN Result(changed) = Tasks
        BY <3>2, <3>4, ResultIs
      <4>2. Moved(s.place) = [u \in Tasks |-> IF u = t THEN fast ELSE s.place[u]]
        BY <1>1, <1>2, <1>3 DEF Places
      <4>3. Result(changed) = [u \in Tasks |-> Result(changed)[u]]
        BY <4>1 DEF Result
      <4>. QED BY <3>6, <3>7, <4>2, <4>3
    <3>9. /\ NextMove(s) \in Plans /\ NextMove(s).place = s.place /\ NextMove(s).moves = changed
      BY <1>1, <3>1, <3>2 DEF Plans
    <3>10. Behind(NextMove(s))
      BY <2>1, <3>2, <3>3, <3>5, <3>8, <3>9 DEF Behind, load, t
    <3>. QED BY <3>4, <3>9, <3>10 DEF GoodPlan
  <2>4. CASE earlier = {}
    <3>. DEFINE more == Append(s.moves, <<t, fast>>)
    <3>1. NextMove(s) = [s EXCEPT !.place[t] = fast, !.moves = more]
      BY <1>5, <2>4 DEF NextMove
    <3>2. \A i \in DOMAIN s.moves : s.moves[i][1] # t
      BY <2>4
    <3>3. Result(s.moves) = s.place
      BY <3>2 DEF GoodPlan, Behind
    <3>. HIDE DEF load, t, fast, slow, stops
    <3>4. /\ more \in MoveLists /\ DOMAIN more = 1..(Len(s.moves) + 1) /\ Len(s.moves) \in Nat
          /\ DOMAIN s.moves = 1..Len(s.moves)
          /\ \A i \in 1..Len(s.moves) : more[i] = s.moves[i]
          /\ more[Len(s.moves) + 1] = <<t, fast>>
      <4>1. s.moves \in Seq(Tasks \X Nat) /\ <<t, fast>> \in Tasks \X Nat
        BY <1>1, <1>2 DEF MoveLists
      <4>. QED BY <4>1, AppendProperties, LenProperties DEF MoveLists
    <3>. HIDE DEF more
    <3>5. \A i \in DOMAIN more : \/ (i \in DOMAIN s.moves /\ more[i] = s.moves[i])
                                 \/ (i = Len(s.moves) + 1 /\ more[i] = <<t, fast>>)
      <4>. SUFFICES ASSUME NEW i \in 1..(Len(s.moves) + 1)
           PROVE  \/ (i \in DOMAIN s.moves /\ more[i] = s.moves[i])
                  \/ (i = Len(s.moves) + 1 /\ more[i] = <<t, fast>>)
        BY <3>4
      <4>1. CASE i = Len(s.moves) + 1
        BY <3>4, <4>1
      <4>2. CASE i # Len(s.moves) + 1
        <5>1. i \in 1..Len(s.moves)
          BY <3>4, <4>2
        <5>2. i \in DOMAIN s.moves /\ more[i] = s.moves[i]
          BY <3>4, <5>1, Zenon
        <5>. QED BY <5>2
      <4>. QED BY <4>1, <4>2
    <3>6. NoTaskTwice(more)
      BY <1>1, <3>2, <3>5 DEF NoTaskTwice
    <3>7. ASSUME NEW u \in Tasks
          PROVE  Result(more)[u] = IF u = t THEN fast ELSE Result(s.moves)[u]
      <4>1. CASE u = t
        <5>1. Len(s.moves) + 1 \in DOMAIN more /\ more[Len(s.moves) + 1][1] = t
              /\ more[Len(s.moves) + 1][2] = fast
          BY <3>4
        <5>. QED BY <3>4, <3>6, <4>1, <5>1, ResultIs
      <4>2. CASE u # t /\ \A i \in DOMAIN s.moves : s.moves[i][1] # u
        <5>1. \A i \in DOMAIN more : more[i][1] # u
          BY <3>5, <4>2
        <5>2. Result(more)[u] = owner[u]
          BY <3>4, <3>6, <5>1, ResultIs
        <5>3. Result(s.moves)[u] = owner[u]
          BY <1>1, <4>2, ResultIs
        <5>. QED BY <4>2, <5>2, <5>3
      <4>3. ASSUME u # t, NEW i \in DOMAIN s.moves, s.moves[i][1] = u
            PROVE  Result(more)[u] = Result(s.moves)[u]
        <5>1. i \in DOMAIN more /\ more[i] = s.moves[i]
          BY <3>4
        <5>2. Result(more)[u] = more[i][2]
          BY <3>4, <3>6, <4>3, <5>1, ResultIs
        <5>3. Result(s.moves)[u] = s.moves[i][2]
          BY <1>1, <4>3, ResultIs
        <5>. QED BY <5>1, <5>2, <5>3
      <4>. QED BY <4>1, <4>2, <4>3
    <3>8. Result(more) = Moved(s.place)
      <4>1. DOMAIN Result(more) = Tasks
        BY <3>4, <3>6, ResultIs
      <4>2. Moved(s.place) = [u \in Tasks |-> IF u = t THEN fast ELSE s.place[u]]
        BY <1>1, <1>2, <1>3 DEF Places
      <4>3. Result(more) = [u \in Tasks |-> Result(more)[u]]
        BY <4>1 DEF Result
      <4>. QED BY <3>3, <3>7, <4>2, <4>3
    <3>9. /\ NextMove(s) \in Plans /\ NextMove(s).place = Moved(s.place) /\ NextMove(s).moves = more
      <4>1. Moved(s.place) \in Places
        BY <2>2 DEF Better
      <4>. QED BY <1>1, <1>3, <3>1, <3>4, <4>1 DEF Plans
    <3>. QED BY <2>2, <3>6, <3>8, <3>9 DEF GoodPlan
  <2>. QED BY <2>3, <2>4
<1>. QED BY <1>4, <1>5

Start == [place |-> owner, moves |-> <<>>, stop |-> FALSE]

\* The function in Moves exists.
LEMMA IterationsExist ==
    ASSUME NEW m \in Nat
    PROVE  \E f : f = [k \in 0..m |-> IF k = 0 THEN Start ELSE NextMove(f[k - 1])]
<1>. DEFINE P(n) == \E f : f = [k \in 0..n |-> IF k = 0 THEN Start ELSE NextMove(f[k - 1])]
            I == {n \in Nat : P(n)}
<1>1. P(0)
  <2>. DEFINE f == [k \in 0..0 |-> Start]
  <2>1. f = [k \in 0..0 |-> IF k = 0 THEN Start ELSE NextMove(f[k - 1])]
    OBVIOUS
  <2>. QED BY <2>1
<1>2. ASSUME NEW n \in Nat, P(n) PROVE P(n + 1)
  <2>1. PICK f : f = [k \in 0..n |-> IF k = 0 THEN Start ELSE NextMove(f[k - 1])]
    BY <1>2
  <2>. DEFINE h == [k \in 0..(n + 1) |-> IF k = n + 1 THEN NextMove(f[n]) ELSE f[k]]
  <2>2. ASSUME NEW k \in 0..(n + 1) PROVE h[k] = IF k = 0 THEN Start ELSE NextMove(h[k - 1])
    <3>1. CASE k = n + 1
      BY <3>1
    <3>2. CASE k \in 0..n
      <4>1. h[k] = f[k] /\ f[k] = IF k = 0 THEN Start ELSE NextMove(f[k - 1])
        BY <2>1, <3>2
      <4>2. k # 0 => h[k - 1] = f[k - 1]
        BY <3>2
      <4>. QED BY <4>1, <4>2
    <3>. QED BY <3>1, <3>2
  <2>3. h = [k \in 0..(n + 1) |-> IF k = 0 THEN Start ELSE NextMove(h[k - 1])]
    BY <2>2
  <2>. HIDE DEF h
  <2>. QED BY <2>3
<1>. HIDE DEF P
<1>3. 0 \in I /\ \A n \in Nat : n \in I => n + 1 \in I
  BY <1>1, <1>2
<1>4. m \in I
  <2>. HIDE DEF I
  <2>. QED BY <1>3, NatInd
<1>. QED BY <1>4 DEF P

\* However often the loop runs, its moves make no group longer than the longest.
LEMMA MovesGood ==
    ASSUME Ready, MaxIterations \in Nat
    PROVE  Better(Result(Moves)) /\ DOMAIN Result(Moves) = Tasks
<1>. DEFINE step == CHOOSE f : f = [k \in 0..MaxIterations |->
                                       IF k = 0 THEN Start ELSE NextMove(f[k - 1])]
<1>1. Moves = step[MaxIterations].moves
  BY DEF Moves, Start
<1>2. step = [k \in 0..MaxIterations |-> IF k = 0 THEN Start ELSE NextMove(step[k - 1])]
  BY IterationsExist
<1>. HIDE DEF step
<1>3. GoodPlan(Start)
  <2>1. owner \in Places
    BY DEF Ready, Places
  <2>2. <<>> \in MoveLists /\ DOMAIN <<>> = {} /\ NoTaskTwice(<<>>)
    BY DEF MoveLists, NoTaskTwice
  <2>3. Result(<<>>) = owner
    <3>1. Result(<<>>) = [t \in Tasks |-> Result(<<>>)[t]]
      BY DEF Result
    <3>2. \A t \in Tasks : Result(<<>>)[t] = owner[t]
      BY <2>2, ResultIs
    <3>. QED BY <3>1, <3>2 DEF Ready
  <2>4. Better(owner)
    BY <2>1, LoadsAre, LoadExtremes DEF Better
  <2>. QED BY <2>1, <2>2, <2>3, <2>4 DEF Start, GoodPlan, Plans
<1>. DEFINE I == {k \in Nat : k <= MaxIterations => GoodPlan(step[k])}
<1>4. 0 \in I
  BY <1>2, <1>3
<1>5. ASSUME NEW k \in Nat, k \in I PROVE k + 1 \in I
  <2>. SUFFICES ASSUME k + 1 <= MaxIterations PROVE GoodPlan(step[k + 1])
    OBVIOUS
  <2>1. GoodPlan(step[k])
    BY <1>5
  <2>2. step[k + 1] = NextMove(step[k])
    <3>1. k + 1 \in 0..MaxIterations /\ k + 1 # 0 /\ (k + 1) - 1 = k
      OBVIOUS
    <3>. QED BY <1>2, <3>1
  <2>. QED BY <2>1, <2>2, GoodNextMove
<1>6. GoodPlan(step[MaxIterations])
  <2>1. MaxIterations \in I
    <3>. HIDE DEF I
    <3>. QED BY <1>4, <1>5, NatInd
  <2>. QED BY <2>1
<1>. DEFINE s == step[MaxIterations]
<1>. HIDE DEF s
<1>7. GoodPlan(s)
  BY <1>6 DEF s
<1>8. Better(Result(s.moves))
  <2>1. CASE Result(s.moves) = s.place
    BY <1>7, <2>1 DEF GoodPlan
  <2>2. CASE Behind(s)
    BY <1>7, <2>2, MovedBetter DEF GoodPlan, Behind
  <2>. QED BY <1>7, <2>1, <2>2 DEF GoodPlan
<1>9. DOMAIN Result(s.moves) = Tasks
  BY DEF Result
<1>. QED BY <1>1, <1>8, <1>9 DEF s

-----------------------------------------------------------------------------
(* The manager moves the tasks *)

\* The load model that keeps the durations of one run.
OneRun(t) == history[t] = IF received[t] = <<>> THEN <<>> ELSE <<last[t]>>

\* While the tasks run they are numbered, belong to a group and have their last duration.
OwnerInv ==
    Managed =>
        /\ \E n \in Nat : Tasks = 1..n
        /\ owner \in [Tasks -> Nat]
        /\ last \in [Tasks -> Nat]
        /\ DOMAIN history = Tasks /\ DOMAIN received = Tasks
        /\ \A t \in Tasks : OneRun(t)

\* Before, a scheme that may be run under the manager is as it was constructed.
Constructed ==
    \E i \in Inputs : scheme = createClassicalCombischeme(i[1], i[2]) \/ scheme = createAdaptiveCombischeme(i[1], i[2])
SchemeInv == phase = "created" /\ scheme.groups = <<>> /\ 0 \notin Range(scheme.coeffs) => Constructed

ReschedulingInv == OwnerInv /\ SchemeInv

LEMMA SchemeStep == SchemeInv /\ [Next]_vars => SchemeInv'
<1>. SUFFICES ASSUME SchemeInv, [Next]_vars PROVE SchemeInv'
  OBVIOUS
<1>1. CASE CreateClassical
  <2>1. PICK i \in Inputs : Created(createClassicalCombischeme(i[1], i[2]))
    BY <1>1 DEF CreateClassical
  <2>2. scheme' = createClassicalCombischeme(i[1], i[2])
    BY <2>1 DEF Created
  <2>. QED BY <2>2 DEF SchemeInv, Constructed
<1>2. CASE CreateAdaptive
  <2>1. PICK i \in Inputs : Created(createAdaptiveCombischeme(i[1], i[2]))
    BY <1>2 DEF CreateAdaptive
  <2>2. scheme' = createAdaptiveCombischeme(i[1], i[2])
    BY <2>1 DEF Created
  <2>. QED BY <2>2 DEF SchemeInv, Constructed
<1>3. CASE MakeFaultTolerant
  <2>1. /\ phase = "created" /\ scheme.groups = <<>> /\ 0 \notin Range(scheme.coeffs)
        /\ scheme' = makeFaultTolerant(scheme) /\ scheme' # scheme
    BY <1>3 DEF MakeFaultTolerant
  <2>2. Constructed
    BY <2>1 DEF SchemeInv
  <2>3. 0 \in Range(makeFaultTolerant(scheme).coeffs)
    BY <2>1, <2>2, InputsAssumption DEF Constructed
  <2>. QED BY <2>1, <2>3 DEF SchemeInv
<1>4. CASE StartScript
  BY <1>4 DEF StartScript, SchemeInv
<1>5. CASE CorrectSubspace
  BY <1>5 DEF CorrectSubspace, SchemeInv
<1>6. CASE WriteAndReadFile
  <2>1. PICK g \in GroupCounts :
            LET s == FromFile(SchemeFile(g), scheme.lmin, scheme.lmax)
            IN  s.spaces # <<>> /\ scheme' = s
    BY <1>6 DEF WriteAndReadFile
  <2>. DEFINE file == SchemeFile(g)
  <2>. HIDE DEF file
  <2>2. /\ scheme'.spaces = [j \in DOMAIN file |-> file[j].level] /\ scheme'.spaces # <<>>
        /\ scheme'.groups = [j \in DOMAIN file |-> file[j].group_no]
    BY <2>1 DEF FromFile, file
  <2>3. DOMAIN file # {}
    <3>1. ASSUME DOMAIN file = {} PROVE [j \in DOMAIN file |-> file[j].level] = <<>>
      BY <3>1
    <3>. QED BY <2>2, <3>1
  <2>4. scheme'.groups # <<>>
    <3>1. DOMAIN (scheme'.groups) = DOMAIN file /\ DOMAIN <<>> = {}
      BY <2>2
    <3>. QED BY <2>3, <3>1
  <2>. QED BY <2>4 DEF SchemeInv
<1>7. CASE SplitSystems
  BY <1>7 DEF SplitSystems, SchemeInv
<1>8. CASE AssignRoundRobin \/ AssignLoadBalanced \/ AssignFromFile
  BY <1>8 DEF AssignRoundRobin, AssignLoadBalanced, AssignFromFile, Assign, SchemeInv
<1>9. CASE RunUnderManager
  BY <1>9 DEF RunUnderManager, SchemeInv
<1>10. CASE Measure \/ Reschedule \/ Restart
  BY <1>10 DEF Measure, Reschedule, Restart, SchemeInv
<1>11. CASE UNCHANGED vars
  BY <1>11 DEF vars, SchemeInv, Constructed
<1>. QED BY <1>1, <1>2, <1>3, <1>4, <1>5, <1>6, <1>7, <1>8, <1>9, <1>10, <1>11 DEF Next

LEMMA OwnerRun == SchemeInv /\ RunUnderManager => OwnerInv'
<1>. SUFFICES ASSUME SchemeInv, RunUnderManager PROVE OwnerInv'
  OBVIOUS
<1>1. PICK p \in GroupCounts :
        /\ phase = "created" /\ scheme.groups = <<>> /\ 0 \notin Range(scheme.coeffs)
        /\ \E f \in [Tasks -> 0..(p - 1)] : owner' = f
        /\ last' = [t \in Tasks |-> 0]
        /\ history' = [t \in Tasks |-> <<>>]
        /\ received' = [t \in Tasks |-> <<>>]
        /\ scheme' = scheme
  BY DEF RunUnderManager
<1>2. Tasks' = Tasks
  BY <1>1 DEF Tasks
<1>3. scheme.spaces \in Seq(Seq(Nat))
  BY <1>1, InputsAssumption DEF SchemeInv, Constructed
<1>4. Tasks = 1..Len(scheme.spaces) /\ Len(scheme.spaces) \in Nat
  BY <1>3 DEF Tasks
<1>5. owner' \in [Tasks -> Nat] /\ last' \in [Tasks -> Nat]
  BY <1>1, CountsAssumption
<1>6. \A t \in Tasks : OneRun(t)'
  BY <1>1 DEF OneRun
<1>. QED BY <1>1, <1>2, <1>4, <1>5, <1>6 DEF OwnerInv

LEMMA OwnerMeasure == LastN = 1 /\ OwnerInv /\ LoadInv /\ Measure => OwnerInv'
<1>. SUFFICES ASSUME LastN = 1, OwnerInv, LoadInv, Measure PROVE OwnerInv'
  OBVIOUS
<1>1. PICK d \in [Tasks -> Durations] :
          /\ last' = d
          /\ history' = [t \in Tasks |-> addToHistory(history[t], d[t])]
          /\ received' = [t \in Tasks |-> Append(received[t], d[t])]
          /\ scheme' = scheme /\ owner' = owner
  BY DEF Measure
<1>2. Managed
  BY DEF Measure, Managed
<1>3. Tasks' = Tasks
  BY <1>1 DEF Tasks
<1>4. last' \in [Tasks -> Nat]
  BY <1>1, DurationsPositive
<1>5. ASSUME NEW t \in Tasks PROVE OneRun(t)'
  <2>1. received[t] \in Seq(Durations) /\ d[t] \in Durations
    BY <1>1, <1>2 DEF LoadInv, Keeps
  <2>2. received'[t] # <<>>
    BY <1>1, <2>1, DurationSequences
  <2>3. history[t] = <<>> \/ history[t] = <<last[t]>>
    BY <1>2 DEF OwnerInv, OneRun
  <2>4. addToHistory(history[t], d[t]) = <<d[t]>>
    <3>1. Len(<<>>) = 0 /\ <<>> \o <<d[t]>> = <<d[t]>>
      OBVIOUS
    <3>2. Len(<<last[t]>>) = 1 /\ Tail(<<last[t]>>) = <<>>
      OBVIOUS
    <3>3. CASE history[t] = <<>>
      <4>1. ~(Len(history[t]) >= LastN)
        BY <3>1, <3>3
      <4>. QED BY <3>1, <3>3, <4>1 DEF addToHistory
    <3>4. CASE history[t] = <<last[t]>>
      <4>1. Len(history[t]) >= LastN
        BY <3>2, <3>4
      <4>2. Tail(history[t]) = <<>>
        BY <3>2, <3>4
      <4>. QED BY <3>1, <4>1, <4>2 DEF addToHistory
    <3>. QED BY <2>3, <3>3, <3>4
  <2>. QED BY <1>1, <2>2, <2>4 DEF OneRun
<1>. QED BY <1>1, <1>2, <1>3, <1>4, <1>5 DEF OwnerInv

\* After the tasks have run the rescheduler has what it needs.
LEMMA MeasuredReady ==
    ASSUME OwnerInv, Managed, Measured, Tasks # {}
    PROVE  Ready
<1>1. \A t \in Tasks : history[t] = <<last[t]>>
  BY DEF OwnerInv, Measured, OneRun
<1>. QED BY <1>1 DEF OwnerInv, Ready

\* The manager carries out what the rescheduler returned.
LEMMA RescheduleStep ==
    ASSUME OwnerInv, Reschedule
    PROVE  Ready /\ owner' = Result(Moves)
<1>1. phase = "running" /\ Measured /\ owner' # owner /\ owner' = Result(Moves)
  BY DEF Reschedule, Result
<1>2. Managed
  BY <1>1 DEF Managed
<1>3. Tasks # {}
  <2>. SUFFICES ASSUME Tasks = {} PROVE FALSE
    OBVIOUS
  <2>1. owner = [t \in Tasks |-> owner[t]] /\ owner' = [t \in Tasks |-> owner'[t]]
    BY <1>1, <1>2 DEF OwnerInv, Result
  <2>. QED BY <1>1, <2>1
<1>. QED BY <1>1, <1>2, <1>3, MeasuredReady

LEMMA ReschedulingInvariant ==
    ASSUME LastN = 1
    PROVE  Spec => []ReschedulingInv
<1>1. Init => ReschedulingInv
  BY DEF Init, ReschedulingInv, OwnerInv, SchemeInv, Managed
<1>2. ReschedulingInv /\ LoadInv /\ [Next]_vars => ReschedulingInv'
  <2>. SUFFICES ASSUME OwnerInv, SchemeInv, LoadInv, [Next]_vars PROVE OwnerInv'
    BY SchemeStep DEF ReschedulingInv
  <2>1. CASE Preparing
    BY <2>1, PreparingStep DEF OwnerInv
  <2>2. CASE RunUnderManager
    BY <2>2, OwnerRun
  <2>3. CASE Measure
    BY <2>3, OwnerMeasure
  <2>4. CASE Reschedule
    <3>1. Ready /\ owner' = Result(Moves)
      BY <2>4, RescheduleStep
    <3>2. owner' \in [Tasks -> Nat]
      BY <3>1, MovesGood, CountsAssumption DEF Better, Places
    <3>3. /\ phase' = phase /\ scheme' = scheme /\ last' = last /\ history' = history /\ received' = received
          /\ phase = "running"
      BY <2>4 DEF Reschedule
    <3>4. Tasks' = Tasks
      BY <3>3 DEF Tasks
    <3>. QED BY <3>2, <3>3, <3>4 DEF OwnerInv, OneRun, Managed
  <2>5. CASE Restart
    <3>1. /\ scheme' = scheme /\ last' = last /\ history' = history /\ received' = received /\ owner' = owner
          /\ Managed
      BY <2>5 DEF Restart, Managed
    <3>2. Tasks' = Tasks
      BY <3>1 DEF Tasks
    <3>. QED BY <3>1, <3>2 DEF OwnerInv, OneRun
  <2>6. CASE UNCHANGED vars
    BY <2>6 DEF vars, OwnerInv, Managed, Tasks, OneRun
  <2>. QED BY <2>1, <2>2, <2>3, <2>4, <2>5, <2>6 DEF Next, Preparing
<1>. QED BY <1>1, <1>2, LoadInvariant, PTL DEF Spec

\* If the load model goes by the last run, moving tasks never makes the longest group longer and
\* leaves every group with a task, however many tasks, groups and moves there are.
THEOREM ReschedulingAlwaysHelps ==
    ASSUME LastN = 1
    PROVE  Spec => ReschedulingHelps
<1>. DEFINE Helps ==
        (phase = "running" /\ phase' = "running" /\ owner' # owner) =>
            /\ Range(owner) \subseteq Range(owner')
            /\ Max(Range(GroupDurations(owner'))) <= Max(Range(GroupDurations(owner)))
<1>1. ReschedulingInv /\ [Next]_vars => Helps
  <2>. SUFFICES ASSUME OwnerInv, [Next]_vars, phase = "running", phase' = "running", owner' # owner
       PROVE  /\ Range(owner) \subseteq Range(owner')
              /\ Max(Range(GroupDurations(owner'))) <= Max(Range(GroupDurations(owner)))
    BY DEF ReschedulingInv
  <2>1. Reschedule
    <3>1. CASE Preparing
      BY <3>1, PreparingStep DEF measured
    <3>2. CASE RunUnderManager
      BY <3>2 DEF RunUnderManager
    <3>3. CASE Measure
      BY <3>3 DEF Measure
    <3>4. CASE Restart
      BY <3>4 DEF Restart
    <3>5. CASE UNCHANGED vars
      BY <3>5 DEF vars
    <3>. QED BY <3>1, <3>2, <3>3, <3>4, <3>5 DEF Next, Preparing
  <2>2. PICK place : place = Result(Moves)
    OBVIOUS
  <2>3. Ready /\ owner' = place
    BY <2>1, <2>2, RescheduleStep
  <2>4. Better(place)
    BY <2>2, <2>3, MovesGood, CountsAssumption
  <2>5. place \in Places /\ Range(owner) \subseteq Range(place)
    BY <2>4 DEF Better
  <2>6. PICK g \in Range(place) : GroupDurations(place)[g] = Max(Range(GroupDurations(place)))
    BY <2>3, <2>5, LoadExtremes
  <2>7. Max(Range(GroupDurations(place))) <= Max(Range(GroupDurations(owner)))
    BY <2>3, <2>4, <2>5, <2>6, LoadsAre DEF Better
  <2>. QED BY <2>3, <2>5, <2>7
<1>2. Spec => [][Helps]_vars
  BY <1>1, ReschedulingInvariant, PTL DEF Spec
<1>. QED BY <1>2 DEF ReschedulingHelps

=============================================================================
