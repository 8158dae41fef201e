---------------------- MODULE ThirdLevelManager_proofs ----------------------
(***************************************************************************)
(* Every message between the broker and the systems is understood, for     *)
(* any number of sparse grids, chunks, socket capacities and calls.        *)
(*                                                                         *)
(* The invariant follows the broker from request to request.  A round is   *)
(* one operation; it fixes the messages each system sends and receives in  *)
(* it, the streams OutSlot and InSlot.  The rest of the broker's operation *)
(* is a walk from the numbers of messages it has taken and given to those  *)
(* at the end of the streams (Busy), and the rest of a system's method is  *)
(* a walk of its own (Served).  The sockets hold what is between the two.  *)
(* Walks are concatenated as the operations are, so what a receive puts in *)
(* front of the work is again a walk.                                      *)
(***************************************************************************)
EXTENDS ThirdLevelManager, TLAPS, SequenceTheorems, FiniteSetTheorems, WellFoundedInduction

\* Sequences, of whatever.

AnySeq(q) == \E T : q \in Seq(T)

\* The length of a sequence is its own.
LEMMA AnyLen ==
    ASSUME NEW q, AnySeq(q)
    PROVE  /\ Len(q) \in Nat /\ DOMAIN q = 1..Len(q)
           /\ q = <<>> <=> Len(q) = 0
<1>1. PICK T : q \in Seq(T)
    BY DEF AnySeq
<1> QED BY <1>1, LenProperties, EmptySeq

\* Sequences of the same length with the same elements.
LEMMA AnyEqual ==
    ASSUME NEW q, NEW r, AnySeq(q), AnySeq(r), Len(q) = Len(r), \A n \in 1..Len(q) : q[n] = r[n]
    PROVE  q = r
<1>1. PICK T : q \in Seq(T)
    BY DEF AnySeq
<1>2. PICK U : r \in Seq(U)
    BY DEF AnySeq
<1>3. q \in Seq(T \cup U) /\ r \in Seq(T \cup U)
    BY <1>1, <1>2, SeqMonotonic
<1> QED BY <1>3, SeqEqual

\* One after the other.
LEMMA AnyConcat ==
    ASSUME NEW q, NEW r, AnySeq(q), AnySeq(r)
    PROVE  /\ AnySeq(q \o r)
           /\ Len(q) \in Nat /\ Len(r) \in Nat
           /\ Len(q \o r) = Len(q) + Len(r)
           /\ \A n \in 1..Len(q) : (q \o r)[n] = q[n]
           /\ \A n \in 1..Len(r) : (q \o r)[Len(q) + n] = r[n]
<1>1. PICK T : q \in Seq(T)
    BY DEF AnySeq
<1>2. PICK U : r \in Seq(U)
    BY DEF AnySeq
<1>3. q \in Seq(T \cup U) /\ r \in Seq(T \cup U)
    BY <1>1, <1>2, SeqMonotonic
<1>4. /\ q \o r \in Seq(T \cup U)
      /\ Len(q) \in Nat /\ Len(r) \in Nat
      /\ Len(q \o r) = Len(q) + Len(r)
      /\ \A n \in 1..(Len(q) + Len(r)) : (q \o r)[n] = IF n <= Len(q) THEN q[n] ELSE r[n - Len(q)]
    BY <1>3, ConcatProperties, LenProperties
<1>5. AnySeq(q \o r)
    BY <1>4 DEF AnySeq
<1>6. \A n \in 1..Len(q) : (q \o r)[n] = q[n]
    BY <1>4
<1>7. ASSUME NEW n \in 1..Len(r) PROVE (q \o r)[Len(q) + n] = r[n]
    <2>1. Len(q) + n \in 1..(Len(q) + Len(r)) /\ ~(Len(q) + n <= Len(q)) /\ (Len(q) + n) - Len(q) = n
        BY <1>4
    <2> QED BY <1>4, <2>1
<1> QED BY <1>4, <1>5, <1>6, <1>7

LEMMA AnyAssociative ==
    ASSUME NEW q, NEW r, NEW t, AnySeq(q), AnySeq(r), AnySeq(t)
    PROVE  (q \o r) \o t = q \o (r \o t)
<1>1. PICK T : q \in Seq(T)
    BY DEF AnySeq
<1>2. PICK U : r \in Seq(U)
    BY DEF AnySeq
<1>3. PICK V : t \in Seq(V)
    BY DEF AnySeq
<1>4. /\ q \in Seq((T \cup U) \cup V) /\ r \in Seq((T \cup U) \cup V) /\ t \in Seq((T \cup U) \cup V)
    BY <1>1, <1>2, <1>3, SeqMonotonic
<1> QED BY <1>4, ConcatAssociative

\* Nothing before or after.
LEMMA AnyEmpty ==
    ASSUME NEW q, AnySeq(q)
    PROVE  AnySeq(<<>>) /\ <<>> \o q = q /\ q \o <<>> = q
<1>1. PICK T : q \in Seq(T)
    BY DEF AnySeq
<1>2. <<>> \in Seq({})
    BY EmptySeq
<1> QED BY <1>1, <1>2, ConcatEmptySeq DEF AnySeq

\* One element.
LEMMA AnyOne ==
    ASSUME NEW x
    PROVE  AnySeq(<<x>>) /\ Len(<<x>>) = 1 /\ <<x>>[1] = x
<1>1. <<x>> \in Seq({x})
    OBVIOUS
<1> QED BY <1>1 DEF AnySeq

\* One element in front.
LEMMA AnyCons ==
    ASSUME NEW x, NEW q, AnySeq(q)
    PROVE  /\ AnySeq(<<x>> \o q) /\ <<x>> \o q # <<>>
           /\ Len(q) \in Nat /\ Len(<<x>> \o q) = Len(q) + 1
           /\ Head(<<x>> \o q) = x /\ Tail(<<x>> \o q) = q
           /\ (<<x>> \o q)[1] = x /\ \A n \in 1..Len(q) : (<<x>> \o q)[n + 1] = q[n]
<1> DEFINE t == <<x>> \o q
<1>1. AnySeq(<<x>>) /\ Len(<<x>>) = 1 /\ <<x>>[1] = x
    BY AnyOne
<1>2. /\ AnySeq(t) /\ Len(q) \in Nat /\ Len(t) = 1 + Len(q)
      /\ \A n \in 1..1 : t[n] = <<x>>[n]
      /\ \A n \in 1..Len(q) : t[1 + n] = q[n]
    BY <1>1, AnyConcat
<1>3. t[1] = x
    BY <1>1, <1>2
<1> HIDE DEF t
<1>4. PICK T : t \in Seq(T)
    BY <1>2 DEF AnySeq
<1>5. t # <<>>
    BY <1>2, AnyLen
<1>6. /\ Head(t) = t[1] /\ Tail(t) \in Seq(T) /\ Len(Tail(t)) = Len(t) - 1
      /\ \A n \in 1..Len(Tail(t)) : Tail(t)[n] = t[n + 1]
    BY <1>4, <1>5, HeadTailProperties
<1>7. Len(Tail(t)) = Len(q) /\ \A n \in 1..Len(q) : n + 1 = 1 + n
    BY <1>2, <1>6
<1>8. Tail(t) = q
    <2>1. AnySeq(Tail(t))
        BY <1>6 DEF AnySeq
    <2>2. \A n \in 1..Len(Tail(t)) : Tail(t)[n] = q[n]
        BY <1>2, <1>6, <1>7
    <2> QED BY <1>7, <2>1, <2>2, AnyEqual
<1>9. Len(t) = Len(q) + 1 /\ \A n \in 1..Len(q) : t[n + 1] = q[n]
    BY <1>2, <1>7
<1> QED BY <1>2, <1>3, <1>5, <1>6, <1>8, <1>9 DEF t

\* The first element and the others.
LEMMA AnyTail ==
    ASSUME NEW q, AnySeq(q), q # <<>>
    PROVE  /\ AnySeq(Tail(q)) /\ Len(q) \in Nat /\ Len(q) > 0 /\ Len(Tail(q)) = Len(q) - 1
           /\ Head(q) = q[1] /\ \A n \in 1..(Len(q) - 1) : Tail(q)[n] = q[n + 1]
<1>1. PICK T : q \in Seq(T)
    BY DEF AnySeq
<1>2. /\ Head(q) = q[1] /\ Tail(q) \in Seq(T) /\ Len(Tail(q)) = Len(q) - 1
      /\ \A n \in 1..Len(Tail(q)) : Tail(q)[n] = q[n + 1]
    BY <1>1, HeadTailProperties
<1>3. Len(q) \in Nat /\ Len(q) # 0
    BY AnyLen
<1>4. AnySeq(Tail(q))
    BY <1>2 DEF AnySeq
<1> QED BY <1>2, <1>3, <1>4

\* One element at the end.
LEMMA AnyAppend ==
    ASSUME NEW q, AnySeq(q), NEW x
    PROVE  /\ AnySeq(Append(q, x)) /\ Len(q) \in Nat /\ Len(Append(q, x)) = Len(q) + 1
           /\ \A n \in 1..Len(q) : Append(q, x)[n] = q[n]
           /\ Append(q, x)[Len(q) + 1] = x
<1>1. PICK T : q \in Seq(T)
    BY DEF AnySeq
<1>2. q \in Seq(T \cup {x}) /\ x \in T \cup {x}
    BY <1>1, SeqMonotonic
<1>3. /\ Append(q, x) \in Seq(T \cup {x}) /\ Len(Append(q, x)) = Len(q) + 1
      /\ \A n \in 1..Len(q) : Append(q, x)[n] = q[n]
      /\ Append(q, x)[Len(q) + 1] = x
    BY <1>2, AppendProperties
<1>4. AnySeq(Append(q, x))
    BY <1>3 DEF AnySeq
<1> QED BY <1>3, <1>4, AnyLen

\* A sequence given by its elements.
LEMMA AnyTable ==
    ASSUME NEW m \in Nat, NEW x
    PROVE  /\ AnySeq([n \in 1..m |-> x]) /\ Len([n \in 1..m |-> x]) = m
           /\ \A n \in 1..m : [k \in 1..m |-> x][n] = x
<1>1. [n \in 1..m |-> x] \in Seq({x})
    OBVIOUS
<1>2. Len([n \in 1..m |-> x]) = m
    OBVIOUS
<1> QED BY <1>1, <1>2 DEF AnySeq

\* The order of the natural numbers.
NatLess == {ss \in Nat \X Nat : ss[1] < ss[2]}

\* A set of natural numbers that has 0 and with every number the next one has all.
LEMMA NatInd ==
    ASSUME NEW I, 0 \in I, \A n \in Nat : n \in I => n + 1 \in I
    PROVE  Nat \subseteq I
<1> SUFFICES ASSUME NEW m \in Nat, m \notin I PROVE FALSE
    OBVIOUS
<1> DEFINE J == Nat \ I
<1>1. IsWellFoundedOn(NatLess, Nat)
    BY NatLessThanWellFounded DEF OpToRel, NatLess
<1>2. PICK x \in J : \A y \in J : <<y, x>> \notin NatLess
    <2>1. J \subseteq Nat /\ J # {}
        OBVIOUS
    <2> HIDE DEF J
    <2> QED BY <1>1, <2>1, WFMin
<1>3. x \in Nat /\ x # 0
    OBVIOUS
<1>4. x - 1 \in Nat /\ x - 1 < x /\ (x - 1) + 1 = x
    BY <1>3
<1>5. x - 1 \in I
    BY <1>2, <1>4, <1>3 DEF NatLess
<1> QED BY <1>4, <1>5

\* The function FlattenSeq chooses exists, however long the sequence is.
LEMMA UnfoldsExists ==
    ASSUME NEW ss, NEW m \in Nat
    PROVE \E f : f = [i \in 1..m |-> IF i = 1 THEN ss[i] ELSE f[i - 1] \o ss[i]]
<1> DEFINE P(n) == \E f : f = [i \in 1..n |-> IF i = 1 THEN ss[i] ELSE f[i - 1] \o ss[i]]
           I == {n \in Nat : P(n)}
<1>1. P(0)
    <2> DEFINE f == [i \in 1..0 |-> ss[i]]
    <2>1. f = [i \in 1..0 |-> IF i = 1 THEN ss[i] ELSE f[i - 1] \o ss[i]]
       OBVIOUS
    <2> QED BY <2>1
<1>2. ASSUME NEW n \in Nat, P(n) PROVE P(n + 1)
    <2>1. PICK f : f = [i \in 1..n |-> IF i = 1 THEN ss[i] ELSE f[i - 1] \o ss[i]]
        BY <1>2
    <2> DEFINE h == [i \in 1..(n + 1) |-> IF i = n + 1 THEN (IF i = 1 THEN ss[i] ELSE f[i - 1] \o ss[i]) ELSE f[i]]
    <2>2. ASSUME NEW i \in 1..(n + 1) PROVE h[i] = IF i = 1 THEN ss[i] ELSE h[i - 1] \o ss[i]
        <3>1. CASE i = n + 1
            BY <3>1
        <3>2. CASE i \in 1..n
            <4>1. h[i] = f[i] /\ f[i] = IF i = 1 THEN ss[i] ELSE f[i - 1] \o ss[i]
                BY <2>1, <3>2
            <4>2. i # 1 => h[i - 1] = f[i - 1]
                BY <3>2
            <4> QED BY <4>1, <4>2
        <3> QED BY <3>1, <3>2
    <2>3. h = [i \in 1..(n + 1) |-> IF i = 1 THEN ss[i] ELSE h[i - 1] \o ss[i]]
        BY <2>2
    <2> HIDE DEF h
    <2> QED BY <2>3
<1>3. P(m)
    <2> HIDE DEF P
    <2>1. 0 \in I /\ \A n \in Nat : n \in I => n + 1 \in I
        BY <1>1, <1>2
    <2>2. m \in I
        <3> HIDE DEF I
        <3> QED BY <2>1, NatInd
    <2> QED BY <2>2
<1> QED BY <1>3

\* FlattenSeq is the last value of that function.
LEMMA FlattenUnfolds ==
    ASSUME NEW ss, NEW m \in Nat, Len(ss) = m, m # 0
    PROVE \E f : /\ \A i \in 1..m : f[i] = IF i = 1 THEN ss[i] ELSE f[i - 1] \o ss[i]
                 /\ FlattenSeq(ss) = f[m]
<1> DEFINE flatten == CHOOSE f : f = [i \in 1..m |-> IF i = 1 THEN ss[i] ELSE f[i - 1] \o ss[i]]
<1>1. FlattenSeq(ss) = flatten[m]
    BY DEF FlattenSeq
<1>2. flatten = [i \in 1..m |-> IF i = 1 THEN ss[i] ELSE flatten[i - 1] \o ss[i]]
    BY UnfoldsExists
<1> HIDE DEF flatten
<1>3. \A i \in 1..m : flatten[i] = IF i = 1 THEN ss[i] ELSE flatten[i - 1] \o ss[i]
    BY <1>2
<1> QED BY <1>1, <1>3

-----------------------------------------------------------------------------
\* The two systems.

LEMMA TwoOfThem ==
    ASSUME NEW s \in Systems
    PROVE  /\ OtherThan(s) \in Systems /\ OtherThan(s) # s
           /\ \A x \in Systems : x = s \/ x = OtherThan(s)
           /\ OtherThan(OtherThan(s)) = s
<1>1. IsFiniteSet(Systems) /\ Cardinality(Systems) = 2
    BY ThirdLevelAssumption
<1>2. IsFiniteSet(Systems \ {s}) /\ Cardinality(Systems \ {s}) = 1
    BY <1>1, FS_RemoveElement
<1>3. PICK o : Systems \ {s} = {o}
    BY <1>2, FS_Singleton
<1>4. \A x \in Systems : x # s <=> x = o
    BY <1>3
<1>5. o \in Systems /\ o # s
    BY <1>3
<1>6. OtherThan(s) = o
    BY <1>4, <1>5 DEF OtherThan
<1>7. OtherThan(o) = s
    BY <1>4, <1>5 DEF OtherThan
<1> QED BY <1>4, <1>5, <1>6, <1>7

-----------------------------------------------------------------------------
(***************************************************************************)
(* Rounds.  A round R is one operation of the broker: the exchange of      *)
(* R.what in part R.part of the R.call-th call, of method R.op, begun by   *)
(* the system R.first.  R.checked says whether the systems have            *)
(* assertions, R.grids what the sizes of the sparse grids are.             *)
(***************************************************************************)

Methods == {"combineThirdLevel", "combineThirdLevelFileBased",
            "unifySubspaceSizesThirdLevel", "unifyExtraSparseGrid", "monteCarloThirdLevel"}

Unifying == {"unifySubspaceSizesThirdLevel", "unifyExtraSparseGrid"}

What(op, part) ==
    CASE op = "combineThirdLevel" -> "grid"
      [] op = "combineThirdLevelFileBased" -> "file"
      [] op \in Unifying -> "sizes"
      [] op = "monteCarloThirdLevel" -> IF part = 1 THEN "coords" ELSE "values"

RequestFor(what) ==
    CASE what = "grid" -> "ready_to_combine"
      [] what = "file" -> "ready_to_combine_file"
      [] what = "sizes" -> "ready_to_unify_subspace_sizes"
      [] what \in {"coords", "values"} -> "ready_to_exchange_data"

Whats == {"grid", "file", "sizes", "coords", "values"}

IsRound(R) ==
    /\ R.op \in Methods /\ R.part \in {1, 2} /\ (R.part = 2 => R.op = "monteCarloThirdLevel")
    /\ R.what = What(R.op, R.part)
    /\ R.call \in Nat \ {0} /\ R.first \in Systems /\ R.checked \in BOOLEAN

LEMMA RoundWhat ==
    ASSUME NEW R, IsRound(R)
    PROVE  /\ R.what \in Whats
           /\ R.what = "grid" <=> R.op = "combineThirdLevel"
           /\ R.what = "file" <=> R.op = "combineThirdLevelFileBased"
           /\ R.what = "sizes" <=> R.op \in Unifying
           /\ R.what = "coords" <=> R.op = "monteCarloThirdLevel" /\ R.part = 1
           /\ R.what = "values" <=> R.op = "monteCarloThirdLevel" /\ R.part = 2
BY DEF IsRound, What, Whats, Methods, Unifying

\* How many data transfers a system sends.
Transfers(R, s) ==
    CASE R.what = "grid" -> NumPieces
      [] R.what = "file" -> 0
      [] R.what \in {"sizes", "values"} -> 1
      [] R.what = "coords" -> IF s = R.first \/ R.checked THEN 1 ELSE 0

LEMMA TransfersNat ==
    ASSUME NEW R, IsRound(R), NEW s \in Systems
    PROVE  Transfers(R, s) \in Nat
BY RoundWhat, ThirdLevelAssumption DEF Transfers, Whats

\* What is known of a message at some place of a stream.
TextSlot(t) == [kind |-> t, size |-> <<"", {}>>, data |-> {}, exact |-> FALSE]
SizeOfPiece(R, p) == <<R.what, IF R.what = "grid" THEN {x \in R.grids : x[2] = p} ELSE {}>>
SizeSlot(R, p) == [kind |-> "size", size |-> SizeOfPiece(R, p), data |-> {}, exact |-> FALSE]
DataFrom(R, s) == IF R.what = "sizes" THEN SpacesOf[s] ELSE {<<R.first, R.call>>}
BytesSlot(R, s) ==
    [kind |-> "bytes", size |-> <<"", {}>>, data |-> DataFrom(R, s), exact |-> R.what \in {"sizes", "coords"}]

Fits(m, slot) ==
    /\ m.kind = slot.kind
    /\ slot.kind = "size" => m.size = slot.size
    /\ slot.exact => m.data = slot.data

\* The messages a system has sent when b of its transfers are done, and received when b of the other's are.
OutAt(b) == 1 + (Chunks + 2) * b
InAt(b) == 1 + (Chunks + 1) * b

OutEnd(R, s) == OutAt(Transfers(R, s)) + 1
InEnd(R, s) == InAt(Transfers(R, OtherThan(s)))

Instruction(R, s) ==
    IF R.what = "file" THEN "write_ok" ELSE IF s = R.first THEN "send_first" ELSE "recv_first"

\* The n-th message a system sends in a round, and the n-th it receives.
OutSlot(R, s, n) ==
    LET b == (n - 2) \div (Chunks + 2)
        x == (n - 2) % (Chunks + 2)
    IN  IF n = 1 THEN TextSlot(RequestFor(R.what))
        ELSE IF n = OutEnd(R, s) THEN TextSlot("ready")
        ELSE IF x = 0 THEN TextSlot("sending_data")
        ELSE IF x = 1 THEN SizeSlot(R, b + 1) ELSE BytesSlot(R, s)

InSlot(R, s, n) ==
    LET b == (n - 2) \div (Chunks + 1)
        x == (n - 2) % (Chunks + 1)
    IN  IF n = 1 THEN TextSlot(Instruction(R, s))
        ELSE IF x = 0 THEN SizeSlot(R, b + 1) ELSE BytesSlot(R, OtherThan(s))

LEMMA Division ==
    ASSUME NEW n \in Nat \ {0}, NEW q \in Nat, NEW r \in 0..(n - 1), NEW x \in Nat, x = q * n + r
    PROVE  x \div n = q /\ x % n = r
<1>. DEFINE d == x \div n
            m == x % n
<1>1. d \in Nat /\ m \in 0..(n - 1) /\ x = n * d + m
  OBVIOUS
<1>. HIDE DEF d, m
<1>2. ~(d < q)
  <2>. SUFFICES ASSUME d + 1 <= q PROVE FALSE
    BY <1>1
  <2>1. n * (d + 1) <= n * q
    BY <1>1
  <2>2. n * (d + 1) = n * d + n
    BY <1>1
  <2>. QED BY <1>1, <2>1, <2>2
<1>3. ~(q < d)
  <2>. SUFFICES ASSUME q + 1 <= d PROVE FALSE
    BY <1>1
  <2>1. n * (q + 1) <= n * d
    BY <1>1
  <2>2. n * (q + 1) = n * q + n
    OBVIOUS
  <2>. QED BY <1>1, <2>1, <2>2
<1>4. d = q
  BY <1>1, <1>2, <1>3
<1>5. m = r
  BY <1>1, <1>4
<1>. QED BY <1>4, <1>5 DEF d, m

\* The places between two transfers.
LEMMA AtFacts ==
    ASSUME NEW b \in Nat
    PROVE  /\ OutAt(0) = 1 /\ InAt(0) = 1
           /\ OutAt(b) \in Nat /\ OutAt(b) >= 1 /\ InAt(b) \in Nat /\ InAt(b) >= 1
           /\ OutAt(b + 1) = OutAt(b) + Chunks + 2
           /\ InAt(b + 1) = InAt(b) + Chunks + 1
<1>1. Chunks \in Nat \ {0}
    BY ThirdLevelAssumption
<1>2. (Chunks + 2) * b \in Nat /\ (Chunks + 2) * (b + 1) = (Chunks + 2) * b + Chunks + 2 /\ (Chunks + 2) * 0 = 0
    BY <1>1
<1>3. (Chunks + 1) * b \in Nat /\ (Chunks + 1) * (b + 1) = (Chunks + 1) * b + Chunks + 1 /\ (Chunks + 1) * 0 = 0
    BY <1>1
<1>4. OutAt(0) = 1 /\ OutAt(b) = 1 + (Chunks + 2) * b /\ OutAt(b + 1) = 1 + (Chunks + 2) * (b + 1)
    BY <1>2 DEF OutAt
<1>5. InAt(0) = 1 /\ InAt(b) = 1 + (Chunks + 1) * b /\ InAt(b + 1) = 1 + (Chunks + 1) * (b + 1)
    BY <1>3 DEF InAt
<1> QED BY <1>1, <1>2, <1>3, <1>4, <1>5

\* More transfers, more messages.
LEMMA AtGrows ==
    ASSUME NEW b \in Nat, NEW e \in Nat, b <= e
    PROVE  OutAt(b) <= OutAt(e) /\ InAt(b) <= InAt(e) /\ (b < e => OutAt(b) + Chunks + 2 <= OutAt(e) /\ InAt(b) + Chunks + 1 <= InAt(e))
<1>1. Chunks \in Nat \ {0}
    BY ThirdLevelAssumption
<1>2. PICK d \in Nat : e = b + d
    BY e - b \in Nat /\ e = b + (e - b)
<1>3. /\ (Chunks + 2) * e = (Chunks + 2) * b + (Chunks + 2) * d
      /\ (Chunks + 1) * e = (Chunks + 1) * b + (Chunks + 1) * d
    BY <1>1, <1>2
<1>4. (Chunks + 2) * d \in Nat /\ (Chunks + 1) * d \in Nat /\ (Chunks + 2) * b \in Nat /\ (Chunks + 1) * b \in Nat
    BY <1>1
<1>5. d > 0 => (Chunks + 2) * d >= Chunks + 2 /\ (Chunks + 1) * d >= Chunks + 1
    BY <1>1
<1>6. b < e => d > 0
    BY <1>2
<1> QED BY <1>1, <1>3, <1>4, <1>5, <1>6 DEF OutAt, InAt

\* The messages of a system.
LEMMA OutStream ==
    ASSUME NEW R, IsRound(R), NEW s \in Systems
    PROVE  /\ OutSlot(R, s, 1) = TextSlot(RequestFor(R.what))
           /\ OutSlot(R, s, OutEnd(R, s)) = TextSlot("ready")
           /\ OutEnd(R, s) \in Nat /\ OutEnd(R, s) >= 2
           /\ \A b \in 0..(Transfers(R, s) - 1) :
                /\ OutSlot(R, s, OutAt(b) + 1) = TextSlot("sending_data")
                /\ OutSlot(R, s, OutAt(b) + 2) = SizeSlot(R, b + 1)
                /\ \A x \in 1..Chunks : OutSlot(R, s, OutAt(b) + 2 + x) = BytesSlot(R, s)
                /\ OutAt(b) + Chunks + 2 < OutEnd(R, s)
<1>1. Chunks \in Nat \ {0} /\ Transfers(R, s) \in Nat
    BY ThirdLevelAssumption, TransfersNat
<1>2. OutEnd(R, s) \in Nat /\ OutEnd(R, s) >= 2
    BY <1>1, AtFacts DEF OutEnd
<1>3. OutSlot(R, s, 1) = TextSlot(RequestFor(R.what)) /\ OutSlot(R, s, OutEnd(R, s)) = TextSlot("ready")
    BY <1>2 DEF OutSlot
<1>4. ASSUME NEW b \in 0..(Transfers(R, s) - 1)
      PROVE  /\ OutSlot(R, s, OutAt(b) + 1) = TextSlot("sending_data")
             /\ OutSlot(R, s, OutAt(b) + 2) = SizeSlot(R, b + 1)
             /\ \A x \in 1..Chunks : OutSlot(R, s, OutAt(b) + 2 + x) = BytesSlot(R, s)
             /\ OutAt(b) + Chunks + 2 < OutEnd(R, s)
    <2> DEFINE w == Chunks + 2
    <2>1. b \in Nat /\ b < Transfers(R, s) /\ w \in Nat \ {0} /\ OutAt(b) = 1 + b * w /\ b * w \in Nat
        BY <1>1 DEF OutAt
    <2>2. OutAt(b) + Chunks + 2 < OutEnd(R, s)
        BY <1>1, <2>1, AtGrows, AtFacts DEF OutEnd
    <2>3. ASSUME NEW y \in 0..(w - 1)
          PROVE  /\ OutAt(b) + 1 + y # 1 /\ OutAt(b) + 1 + y # OutEnd(R, s)
                 /\ ((OutAt(b) + 1 + y) - 2) \div w = b /\ ((OutAt(b) + 1 + y) - 2) % w = y
        <3>1. (OutAt(b) + 1 + y) - 2 = b * w + y /\ b * w + y \in Nat
            BY <2>1
        <3>2. (b * w + y) \div w = b /\ (b * w + y) % w = y
            <4> HIDE DEF w
            <4> QED BY <2>1, <3>1, Division
        <3>3. OutAt(b) + 1 + y # 1 /\ OutAt(b) + 1 + y # OutEnd(R, s)
            BY <1>1, <1>2, <2>1, <2>2
        <3> QED BY <3>1, <3>2, <3>3
    <2>4. ASSUME NEW y \in 0..(w - 1)
          PROVE  OutSlot(R, s, OutAt(b) + 1 + y) = IF y = 0 THEN TextSlot("sending_data")
                                                   ELSE IF y = 1 THEN SizeSlot(R, b + 1) ELSE BytesSlot(R, s)
        BY <2>3 DEF OutSlot
    <2>5. 0 \in 0..(w - 1) /\ 1 \in 0..(w - 1) /\ \A x \in 1..Chunks : x + 1 \in 0..(w - 1) /\ x + 1 # 0 /\ x + 1 # 1
        BY <1>1
    <2>6. /\ OutAt(b) + 1 + 0 = OutAt(b) + 1 /\ OutAt(b) + 1 + 1 = OutAt(b) + 2
          /\ \A x \in 1..Chunks : OutAt(b) + 1 + (x + 1) = OutAt(b) + 2 + x
        BY <1>1, <2>1
    <2>7. OutSlot(R, s, OutAt(b) + 1) = TextSlot("sending_data") /\ OutSlot(R, s, OutAt(b) + 2) = SizeSlot(R, b + 1)
        <3> HIDE DEF w
        <3>1. OutSlot(R, s, OutAt(b) + 1 + 0) = TextSlot("sending_data") /\ OutSlot(R, s, OutAt(b) + 1 + 1) = SizeSlot(R, b + 1)
            BY <2>4, <2>5
        <3> QED BY <2>6, <3>1
    <2>8. ASSUME NEW x \in 1..Chunks PROVE OutSlot(R, s, OutAt(b) + 2 + x) = BytesSlot(R, s)
        <3> HIDE DEF w
        <3>1. OutSlot(R, s, OutAt(b) + 1 + (x + 1)) = BytesSlot(R, s)
            BY <2>4, <2>5
        <3> QED BY <2>6, <3>1
    <2> QED BY <2>2, <2>7, <2>8
<1> QED BY <1>2, <1>3, <1>4

\* The messages to a system.
LEMMA InStream ==
    ASSUME NEW R, IsRound(R), NEW s \in Systems
    PROVE  /\ InSlot(R, s, 1) = TextSlot(Instruction(R, s))
           /\ InEnd(R, s) \in Nat /\ InEnd(R, s) >= 1
           /\ \A b \in 0..(Transfers(R, OtherThan(s)) - 1) :
                /\ InSlot(R, s, InAt(b) + 1) = SizeSlot(R, b + 1)
                /\ \A x \in 1..Chunks : InSlot(R, s, InAt(b) + 1 + x) = BytesSlot(R, OtherThan(s))
                /\ InAt(b) + Chunks + 1 <= InEnd(R, s)
<1> DEFINE o == OtherThan(s)
<1>1. Chunks \in Nat \ {0} /\ Transfers(R, o) \in Nat
    BY ThirdLevelAssumption, TransfersNat, TwoOfThem
<1> HIDE DEF o
<1>2. InEnd(R, s) \in Nat /\ InEnd(R, s) >= 1
    BY <1>1, AtFacts DEF InEnd, o
<1>3. InSlot(R, s, 1) = TextSlot(Instruction(R, s))
    BY DEF InSlot
<1>4. ASSUME NEW b \in 0..(Transfers(R, o) - 1)
      PROVE  /\ InSlot(R, s, InAt(b) + 1) = SizeSlot(R, b + 1)
             /\ \A x \in 1..Chunks : InSlot(R, s, InAt(b) + 1 + x) = BytesSlot(R, o)
             /\ InAt(b) + Chunks + 1 <= InEnd(R, s)
    <2> DEFINE w == Chunks + 1
    <2>1. b \in Nat /\ b < Transfers(R, o) /\ w \in Nat \ {0} /\ InAt(b) = 1 + b * w /\ b * w \in Nat
        BY <1>1 DEF InAt
    <2>2. InAt(b) + Chunks + 1 <= InEnd(R, s)
        BY <1>1, <2>1, AtGrows, AtFacts DEF InEnd, o
    <2>3. ASSUME NEW y \in 0..(w - 1)
          PROVE  /\ InAt(b) + 1 + y # 1
                 /\ ((InAt(b) + 1 + y) - 2) \div w = b /\ ((InAt(b) + 1 + y) - 2) % w = y
        <3>1. (InAt(b) + 1 + y) - 2 = b * w + y /\ b * w + y \in Nat
            BY <2>1
        <3>2. (b * w + y) \div w = b /\ (b * w + y) % w = y
            <4> HIDE DEF w
            <4> QED BY <2>1, <3>1, Division
        <3>3. InAt(b) + 1 + y # 1
            BY <1>1, <1>2, <2>1, <2>2
        <3> QED BY <3>1, <3>2, <3>3
    <2>4. ASSUME NEW y \in 0..(w - 1)
          PROVE  InSlot(R, s, InAt(b) + 1 + y) = IF y = 0 THEN SizeSlot(R, b + 1) ELSE BytesSlot(R, o)
        BY <2>3 DEF InSlot, o
    <2>5. 0 \in 0..(w - 1) /\ \A x \in 1..Chunks : x \in 0..(w - 1) /\ x # 0
        BY <1>1
    <2>6. InAt(b) + 1 + 0 = InAt(b) + 1
        BY <1>1, <2>1
    <2>7. InSlot(R, s, InAt(b) + 1) = SizeSlot(R, b + 1)
        <3> HIDE DEF w
        <3>1. InSlot(R, s, InAt(b) + 1 + 0) = SizeSlot(R, b + 1)
            BY <2>4, <2>5
        <3> QED BY <2>6, <3>1
    <2>8. ASSUME NEW x \in 1..Chunks PROVE InSlot(R, s, InAt(b) + 1 + x) = BytesSlot(R, o)
        <3> HIDE DEF w
        <3> QED BY <2>4, <2>5
    <2> QED BY <2>2, <2>7, <2>8
<1> QED BY <1>2, <1>3, <1>4 DEF o

-----------------------------------------------------------------------------
(***************************************************************************)
(* Walks.  A triple <<x, u, v>> of E says that x leads from place u to     *)
(* place v; the elements of a sequence lead from place to place.           *)
(***************************************************************************)
Along(E, q, p) == \A n \in 1..Len(q) : <<q[n], p[n - 1], p[n]>> \in E

Walk(E, q, u, v) == AnySeq(q) /\ \E p : p[0] = u /\ p[Len(q)] = v /\ Along(E, q, p)

LEMMA WalkStays == ASSUME NEW E, NEW u PROVE Walk(E, <<>>, u, u)
<1> DEFINE p == [n \in {0} |-> u]
<1>1. AnySeq(<<>>) /\ Len(<<>>) = 0
    <2>1. <<>> \in Seq({}) /\ Len(<<>>) = 0
        BY EmptySeq
    <2> QED BY <2>1 DEF AnySeq
<1>2. p[0] = u /\ Along(E, <<>>, p)
    BY <1>1 DEF Along
<1> HIDE DEF p
<1> QED BY <1>1, <1>2 DEF Walk

LEMMA WalkNowhere ==
    ASSUME NEW E, NEW u, NEW v, Walk(E, <<>>, u, v)
    PROVE  u = v
<1>1. Len(<<>>) = 0
    BY EmptySeq
<1> QED BY <1>1 DEF Walk

LEMMA WalkHead ==
    ASSUME NEW E, NEW q, NEW u, NEW v, Walk(E, q, u, v), q # <<>>
    PROVE  \E w : <<Head(q), u, w>> \in E /\ Walk(E, Tail(q), w, v)
<1>1. PICK p : p[0] = u /\ p[Len(q)] = v /\ Along(E, q, p)
    BY DEF Walk
<1>2. /\ AnySeq(Tail(q)) /\ Len(q) \in Nat /\ Len(q) > 0 /\ Len(Tail(q)) = Len(q) - 1
      /\ Head(q) = q[1] /\ \A n \in 1..(Len(q) - 1) : Tail(q)[n] = q[n + 1]
    BY AnyTail DEF Walk
<1> DEFINE r == [n \in 0..(Len(q) - 1) |-> p[n + 1]]
<1>3. <<Head(q), u, p[1]>> \in E
    <2>1. 1 \in 1..Len(q) /\ 1 - 1 = 0
        BY <1>2
    <2>2. <<q[1], p[1 - 1], p[1]>> \in E
        BY <1>1, <2>1 DEF Along
    <2> QED BY <1>1, <1>2, <2>1, <2>2
<1>4. r[0] = p[1] /\ r[Len(Tail(q))] = v
    <2>1. r[0] = p[0 + 1] /\ 0 + 1 = 1
        BY <1>2
    <2>2. r[Len(q) - 1] = p[(Len(q) - 1) + 1] /\ (Len(q) - 1) + 1 = Len(q)
        BY <1>2
    <2> HIDE DEF r
    <2> QED BY <1>1, <1>2, <2>1, <2>2
<1>5. Along(E, Tail(q), r)
    <2> SUFFICES ASSUME NEW n \in 1..(Len(q) - 1) PROVE <<Tail(q)[n], r[n - 1], r[n]>> \in E
        BY <1>2 DEF Along
    <2>1. n + 1 \in 1..Len(q) /\ (n + 1) - 1 = n /\ n \in 0..(Len(q) - 1) /\ n - 1 \in 0..(Len(q) - 1) /\ (n - 1) + 1 = n
        BY <1>2
    <2>2. <<q[n + 1], p[(n + 1) - 1], p[n + 1]>> \in E
        BY <1>1, <2>1 DEF Along
    <2>3. r[n - 1] = p[(n - 1) + 1] /\ r[n] = p[n + 1]
        BY <2>1
    <2> HIDE DEF r
    <2> QED BY <1>2, <2>1, <2>2, <2>3
<1> HIDE DEF r
<1>6. Walk(E, Tail(q), p[1], v)
    BY <1>2, <1>4, <1>5 DEF Walk
<1> QED BY <1>3, <1>6

LEMMA WalkConcat ==
    ASSUME NEW E, NEW q, NEW r, NEW u, NEW v, NEW w, Walk(E, q, u, v), Walk(E, r, v, w)
    PROVE  Walk(E, q \o r, u, w)
<1>1. PICK p : p[0] = u /\ p[Len(q)] = v /\ Along(E, q, p)
    BY DEF Walk
<1>2. PICK t : t[0] = v /\ t[Len(r)] = w /\ Along(E, r, t)
    BY DEF Walk
<1> DEFINE m == Len(q)
           l == Len(r)
           f == [n \in 0..(m + l) |-> IF n <= m THEN p[n] ELSE t[n - m]]
<1>3. /\ AnySeq(q \o r) /\ m \in Nat /\ l \in Nat /\ Len(q \o r) = m + l
      /\ \A n \in 1..m : (q \o r)[n] = q[n]
      /\ \A n \in 1..l : (q \o r)[m + n] = r[n]
    BY AnyConcat DEF Walk
<1>4. \A n \in 0..m : f[n] = p[n]
    BY <1>3
<1>5. ASSUME NEW n \in 0..l PROVE f[m + n] = t[n]
    <2>1. CASE n = 0
        BY <1>1, <1>2, <1>3, <2>1
    <2>2. CASE n # 0
        <3>1. m + n \in 0..(m + l) /\ ~(m + n <= m) /\ (m + n) - m = n
            BY <1>3, <2>2
        <3> QED BY <3>1
    <2> QED BY <2>1, <2>2
<1> HIDE DEF f
<1>6. f[0] = u /\ f[m + l] = w
    BY <1>1, <1>2, <1>3, <1>4, <1>5
<1>7. Along(E, q \o r, f)
    <2> SUFFICES ASSUME NEW n \in 1..(m + l) PROVE <<(q \o r)[n], f[n - 1], f[n]>> \in E
        BY <1>3 DEF Along
    <2>1. CASE n \in 1..m
        <3>1. n \in 0..m /\ n - 1 \in 0..m
            BY <1>3, <2>1
        <3>2. <<q[n], p[n - 1], p[n]>> \in E
            BY <1>1, <2>1 DEF Along
        <3> QED BY <1>3, <1>4, <2>1, <3>1, <3>2
    <2>2. CASE n \notin 1..m
        <3>1. PICK k \in 1..l : n = m + k
            <4>1. n - m \in 1..l /\ n = m + (n - m)
                BY <1>3, <2>2
            <4> QED BY <4>1
        <3>2. k \in 0..l /\ k - 1 \in 0..l /\ n - 1 = m + (k - 1)
            BY <1>3, <3>1
        <3>3. <<r[k], t[k - 1], t[k]>> \in E
            BY <1>2, <3>1 DEF Along
        <3>4. f[n] = t[k] /\ f[n - 1] = t[k - 1]
            BY <1>5, <3>1, <3>2
        <3> QED BY <1>3, <3>1, <3>3, <3>4
    <2> QED BY <2>1, <2>2
<1> QED BY <1>3, <1>6, <1>7 DEF Walk

LEMMA WalkOne ==
    ASSUME NEW E, NEW x, NEW u, NEW v, <<x, u, v>> \in E
    PROVE  Walk(E, <<x>>, u, v)
<1> DEFINE p == [n \in 0..1 |-> IF n = 0 THEN u ELSE v]
<1>1. AnySeq(<<x>>) /\ Len(<<x>>) = 1 /\ <<x>>[1] = x
    BY AnyOne
<1>2. p[0] = u /\ p[1] = v
    OBVIOUS
<1> HIDE DEF p
<1>3. Along(E, <<x>>, p)
    <2> SUFFICES ASSUME NEW n \in 1..1 PROVE <<<<x>>[n], p[n - 1], p[n]>> \in E
        BY <1>1 DEF Along
    <2>1. n = 1 /\ n - 1 = 0
        OBVIOUS
    <2> QED BY <1>1, <1>2, <2>1
<1> QED BY <1>1, <1>2, <1>3 DEF Walk

LEMMA WalkCons ==
    ASSUME NEW E, NEW x, NEW q, NEW u, NEW v, NEW w, <<x, u, v>> \in E, Walk(E, q, v, w)
    PROVE  Walk(E, <<x>> \o q, u, w)
BY WalkOne, WalkConcat

\* The same step several times.
LEMMA WalkRepeat ==
    ASSUME NEW E, NEW x, NEW m \in Nat, NEW p, \A n \in 1..m : <<x, p[n - 1], p[n]>> \in E
    PROVE  Walk(E, [n \in 1..m |-> x], p[0], p[m])
<1> DEFINE q == [n \in 1..m |-> x]
<1>1. AnySeq(q) /\ Len(q) = m /\ \A n \in 1..m : q[n] = x
    BY AnyTable
<1> HIDE DEF q
<1>2. Along(E, q, p)
    BY <1>1 DEF Along
<1>3. Walk(E, q, p[0], p[m])
    BY <1>1, <1>2 DEF Walk
<1> QED BY <1>3 DEF q

\* Walks one after the other.
LEMMA WalkFlatten ==
    ASSUME NEW E, NEW ss, NEW m \in Nat \ {0}, Len(ss) = m, NEW p,
           \A n \in 1..m : Walk(E, ss[n], p[n - 1], p[n])
    PROVE  Walk(E, FlattenSeq(ss), p[0], p[m])
<1>1. PICK f : (\A n \in 1..m : f[n] = IF n = 1 THEN ss[n] ELSE f[n - 1] \o ss[n]) /\ FlattenSeq(ss) = f[m]
    BY FlattenUnfolds
<1> DEFINE I == {n \in Nat : n \in 1..m => Walk(E, f[n], p[0], p[n])}
<1>2. 0 \in I
    OBVIOUS
<1>3. ASSUME NEW n \in Nat, n \in I PROVE n + 1 \in I
    <2> SUFFICES ASSUME n + 1 \in 1..m PROVE Walk(E, f[n + 1], p[0], p[n + 1])
        OBVIOUS
    <2>1. Walk(E, ss[n + 1], p[(n + 1) - 1], p[n + 1]) /\ (n + 1) - 1 = n
        OBVIOUS
    <2>2. Walk(E, ss[n + 1], p[n], p[n + 1])
        BY <2>1
    <2>3. f[n + 1] = IF n + 1 = 1 THEN ss[n + 1] ELSE f[(n + 1) - 1] \o ss[n + 1]
        BY <1>1
    <2>4. CASE n = 0
        <3>1. f[n + 1] = ss[n + 1] /\ p[n] = p[0]
            BY <2>3, <2>4
        <3> QED BY <2>2, <3>1
    <2>5. CASE n # 0
        <3>1. n \in 1..m
            BY <2>5
        <3>2. Walk(E, f[n], p[0], p[n])
            BY <1>3, <3>1
        <3>3. f[n + 1] = f[n] \o ss[n + 1]
            <4>1. n + 1 # 1
                BY <2>5
            <4>2. f[n + 1] = f[(n + 1) - 1] \o ss[n + 1]
                BY <2>3, <4>1
            <4> QED BY <2>1, <4>2
        <3> QED BY <2>2, <3>2, <3>3, WalkConcat
    <2> QED BY <2>4, <2>5
<1>4. m \in I
    <2> HIDE DEF I
    <2> QED BY <1>2, <1>3, NatInd
<1>5. Walk(E, f[m], p[0], p[m])
    BY <1>4
<1> QED BY <1>1, <1>5

\* What every step leaves ordered the walk leaves ordered.
LEMMA WalkOrdered ==
    ASSUME NEW E, NEW L, \A x, u, v : <<x, u, v>> \in E => <<u, v>> \in L,
           \A u, v, w : <<u, v>> \in L /\ <<v, w>> \in L => <<u, w>> \in L,
           NEW q, NEW u, NEW v, Walk(E, q, u, v), <<u, u>> \in L
    PROVE  <<u, v>> \in L
<1>1. PICK p : p[0] = u /\ p[Len(q)] = v /\ Along(E, q, p)
    BY DEF Walk
<1>2. Len(q) \in Nat
    BY AnyLen DEF Walk
<1> DEFINE I == {n \in Nat : n \in 0..Len(q) => <<u, p[n]>> \in L}
<1>3. 0 \in I
    BY <1>1
<1>4. ASSUME NEW n \in Nat, n \in I PROVE n + 1 \in I
    <2> SUFFICES ASSUME n + 1 \in 0..Len(q) PROVE <<u, p[n + 1]>> \in L
        OBVIOUS
    <2>1. n + 1 \in 1..Len(q) /\ (n + 1) - 1 = n /\ n \in 0..Len(q)
        BY <1>2
    <2>2. <<q[n + 1], p[(n + 1) - 1], p[n + 1]>> \in E
        BY <1>1, <2>1 DEF Along
    <2>3. <<p[n], p[n + 1]>> \in L
        BY <2>1, <2>2
    <2>4. <<u, p[n]>> \in L
        BY <1>4, <2>1
    <2> QED BY <2>3, <2>4
<1>5. Len(q) \in I
    <2> HIDE DEF I
    <2> QED BY <1>2, <1>3, <1>4, NatInd
<1>6. <<u, p[Len(q)]>> \in L
    BY <1>2, <1>5
<1> QED BY <1>1, <1>6

-----------------------------------------------------------------------------
(***************************************************************************)
(* The walk of a system through a round.  Its places are the numbers of    *)
(* messages it has sent and received.                                      *)
(***************************************************************************)
Places == Nat \X Nat

WalkSteps ==
    [do : {"signal", "sendSize", "sendBytes", "recvSize", "recvBytes", "write", "readReduce"},
     what : Whats \cup {"sending_data", ""},
     piece : Pieces \cup {None},
     how : {"", "wait", "replace", "add", "keep", "compare", "adopt"}]

\* What is done with the last chunk of a transfer.
HowsOf(R, s) ==
    CASE R.what = "grid" -> {"replace", "add"}
      [] R.what \in {"sizes", "values"} -> {"keep"}
      [] R.what = "coords" -> IF s = R.first THEN {"compare"} ELSE {"adopt"}

\* The coordinates are sent back when they have been adopted.
Adopts(R, s) == R.what = "coords" /\ s # R.first

StepEdge(R, s, x, u, v) ==
    \/ /\ x.do = "signal" /\ x.what = "sending_data"
       /\ OutSlot(R, s, u[1] + 1) = TextSlot("sending_data") /\ v = <<u[1] + 1, u[2]>>
    \/ /\ x.do = "sendSize" /\ x.what = R.what
       /\ OutSlot(R, s, u[1] + 1) = SizeSlot(R, x.piece) /\ v = <<u[1] + 1, u[2]>>
    \/ /\ x.do = "sendBytes" /\ x.what = R.what /\ (Adopts(R, s) => u[2] = InEnd(R, s))
       /\ OutSlot(R, s, u[1] + 1) = BytesSlot(R, s) /\ v = <<u[1] + 1, u[2]>>
    \/ /\ x.do = "recvSize" /\ x.what = R.what /\ u[2] + 1 < InEnd(R, s)
       /\ InSlot(R, s, u[2] + 1) = SizeSlot(R, x.piece) /\ v = <<u[1], u[2] + 1>>
    \/ /\ x.do = "recvBytes" /\ x.what = R.what
       /\ R.what # "file" /\ (x.how = "wait" => u[2] + 1 < InEnd(R, s)) /\ x.how \in {"wait"} \cup HowsOf(R, s)
       /\ InSlot(R, s, u[2] + 1) = BytesSlot(R, OtherThan(s)) /\ v = <<u[1], u[2] + 1>>
    \/ x.do \in {"write", "readReduce"} /\ R.what = "file" /\ v = u

StepEdges(R, s) ==
    {e \in WalkSteps \X Places \X Places : StepEdge(R, s, e[1], e[2], e[3])}

LEMMA IsStepEdge ==
    ASSUME NEW R, NEW s, NEW x \in WalkSteps, NEW u \in Places, NEW v \in Places, StepEdge(R, s, x, u, v)
    PROVE  <<x, u, v>> \in StepEdges(R, s)
BY DEF StepEdges

LEMMA StepEdgeIs ==
    ASSUME NEW R, NEW s, NEW x, NEW u, NEW v, <<x, u, v>> \in StepEdges(R, s)
    PROVE  x \in WalkSteps /\ u \in Places /\ v \in Places /\ StepEdge(R, s, x, u, v)
BY DEF StepEdges

\* A system only sends and receives more.
LEMMA StepsGrow ==
    ASSUME NEW R, NEW s, NEW q, NEW u \in Places, NEW v, Walk(StepEdges(R, s), q, u, v)
    PROVE  v \in Places /\ u[1] <= v[1] /\ u[2] <= v[2]
<1> DEFINE L == {l \in Places \X Places : l[1][1] <= l[2][1] /\ l[1][2] <= l[2][2]}
           E == StepEdges(R, s)
<1>1. ASSUME NEW x, NEW a, NEW b, <<x, a, b>> \in E PROVE <<a, b>> \in L
    <2>1. a \in Places /\ b \in Places /\ StepEdge(R, s, x, a, b)
        BY <1>1, StepEdgeIs
    <2>2. a[1] \in Nat /\ a[2] \in Nat
        BY <2>1 DEF Places
    <2>3. b = <<a[1] + 1, a[2]>> \/ b = <<a[1], a[2] + 1>> \/ b = a
        BY <2>1 DEF StepEdge
    <2>4. a[1] <= b[1] /\ a[2] <= b[2]
        BY <2>2, <2>3
    <2> QED BY <2>1, <2>4
<1>2. \A a, b, c : <<a, b>> \in L /\ <<b, c>> \in L => <<a, c>> \in L
    BY DEF Places
<1>3. <<u, u>> \in L
    BY DEF Places
<1>4. <<u, v>> \in L
    <2> HIDE DEF L, E
    <2>1. Walk(E, q, u, v)
        BY DEF E
    <2> QED BY <1>1, <1>2, <1>3, <2>1, WalkOrdered
<1> QED BY <1>4

\* sendData is one transfer.
LEMMA SendRoad ==
    ASSUME NEW R, IsRound(R), NEW s \in Systems, NEW b \in 0..(Transfers(R, s) - 1), NEW in \in Nat,
           NEW p \in Pieces \cup {None}, SizeSlot(R, p) = SizeSlot(R, b + 1),
           Adopts(R, s) => in = InEnd(R, s)
    PROVE  Walk(StepEdges(R, s), SendData(R.what, p), <<OutAt(b), in>>, <<OutAt(b + 1), in>>)
<1> DEFINE E == StepEdges(R, s)
           a == OutAt(b)
           announce == Step("signal", "sending_data", None, "")
           size == Step("sendSize", R.what, p, "")
           bytes == Step("sendBytes", R.what, p, "")
           at == [n \in 0..Chunks |-> <<a + 2 + n, in>>]
<1>1. /\ b \in Nat /\ a \in Nat /\ Chunks \in Nat /\ OutAt(b + 1) = a + 2 + Chunks
      /\ OutSlot(R, s, a + 1) = TextSlot("sending_data")
      /\ OutSlot(R, s, a + 2) = SizeSlot(R, p)
      /\ \A x \in 1..Chunks : OutSlot(R, s, a + 2 + x) = BytesSlot(R, s)
    <2>1. b \in Nat /\ Chunks \in Nat
        BY TransfersNat, ThirdLevelAssumption
    <2> QED BY <2>1, OutStream, AtFacts
<1>2. announce \in WalkSteps /\ size \in WalkSteps /\ bytes \in WalkSteps
    BY RoundWhat DEF WalkSteps, Step
<1>3. /\ announce.do = "signal" /\ announce.what = "sending_data"
      /\ size.do = "sendSize" /\ size.what = R.what /\ size.piece = p
      /\ bytes.do = "sendBytes" /\ bytes.what = R.what
    BY DEF Step
<1>4. SendData(R.what, p) = (<<announce>> \o <<size>>) \o [n \in 1..Chunks |-> bytes]
    BY DEF SendData, Signal
<1> HIDE DEF E, a, announce, size, bytes
<1>5. Walk(E, <<announce>>, <<a, in>>, <<a + 1, in>>)
    <2>1. StepEdge(R, s, announce, <<a, in>>, <<a + 1, in>>)
        BY <1>1, <1>3 DEF StepEdge
    <2>2. <<a, in>> \in Places /\ <<a + 1, in>> \in Places
        BY <1>1 DEF Places
    <2> QED BY <1>2, <2>1, <2>2, IsStepEdge, WalkOne DEF E
<1>6. Walk(E, <<size>>, <<a + 1, in>>, <<a + 2, in>>)
    <2>1. StepEdge(R, s, size, <<a + 1, in>>, <<a + 2, in>>)
        <3>1. (a + 1) + 1 = a + 2
            BY <1>1
        <3> QED BY <1>1, <1>3, <3>1 DEF StepEdge
    <2>2. <<a + 1, in>> \in Places /\ <<a + 2, in>> \in Places
        BY <1>1 DEF Places
    <2> QED BY <1>2, <2>1, <2>2, IsStepEdge, WalkOne DEF E
<1>7. ASSUME NEW n \in 1..Chunks PROVE <<bytes, at[n - 1], at[n]>> \in E
    <2>1. n - 1 \in 0..Chunks /\ n \in 0..Chunks /\ a + 2 + (n - 1) \in Nat /\ a + 2 + n \in Nat
          /\ (a + 2 + (n - 1)) + 1 = a + 2 + n
        BY <1>1
    <2>2. at[n - 1] = <<a + 2 + (n - 1), in>> /\ at[n] = <<a + 2 + n, in>>
        BY <2>1
    <2>3. StepEdge(R, s, bytes, <<a + 2 + (n - 1), in>>, <<a + 2 + n, in>>)
        BY <1>1, <1>3, <2>1 DEF StepEdge
    <2>4. <<a + 2 + (n - 1), in>> \in Places /\ <<a + 2 + n, in>> \in Places
        BY <2>1 DEF Places
    <2> QED BY <1>2, <2>2, <2>3, <2>4, IsStepEdge DEF E
<1>8. at[0] = <<a + 2, in>> /\ at[Chunks] = <<OutAt(b + 1), in>>
    BY <1>1
<1> HIDE DEF at
<1>9. Walk(E, [n \in 1..Chunks |-> bytes], <<a + 2, in>>, <<OutAt(b + 1), in>>)
    BY <1>1, <1>7, <1>8, WalkRepeat
<1>10. Walk(E, (<<announce>> \o <<size>>) \o [n \in 1..Chunks |-> bytes], <<a, in>>, <<OutAt(b + 1), in>>)
    BY <1>5, <1>6, <1>9, WalkConcat
<1> QED BY <1>4, <1>10 DEF E, a

\* recvData and recvAndAddToData are one transfer of the other system.
LEMMA RecvRoad ==
    ASSUME NEW R, IsRound(R), NEW s \in Systems, NEW b \in 0..(Transfers(R, OtherThan(s)) - 1), NEW out \in Nat,
           NEW p \in Pieces \cup {None}, SizeSlot(R, p) = SizeSlot(R, b + 1),
           R.what # "file", NEW how \in HowsOf(R, s)
    PROVE  Walk(StepEdges(R, s), RecvData(R.what, p, how), <<out, InAt(b)>>, <<out, InAt(b + 1)>>)
<1> DEFINE E == StepEdges(R, s)
           a == InAt(b)
           size == Step("recvSize", R.what, p, "")
           wait == Step("recvBytes", R.what, p, "wait")
           last == Step("recvBytes", R.what, p, how)
           at == [n \in 0..(Chunks - 1) |-> <<out, a + 1 + n>>]
<1>1. /\ b \in Nat /\ a \in Nat /\ Chunks \in Nat \ {0} /\ InAt(b + 1) = a + 1 + Chunks
      /\ InSlot(R, s, a + 1) = SizeSlot(R, p)
      /\ \A x \in 1..Chunks : InSlot(R, s, a + 1 + x) = BytesSlot(R, OtherThan(s))
      /\ InEnd(R, s) \in Nat /\ a + 1 + Chunks <= InEnd(R, s)
    <2>1. b \in Nat /\ Chunks \in Nat \ {0}
        BY TransfersNat, TwoOfThem, ThirdLevelAssumption
    <2>2. a \in Nat /\ InAt(b + 1) = a + Chunks + 1
        BY <2>1, AtFacts
    <2>3. a + Chunks + 1 <= InEnd(R, s) /\ InEnd(R, s) \in Nat
          /\ InSlot(R, s, a + 1) = SizeSlot(R, b + 1)
          /\ \A x \in 1..Chunks : InSlot(R, s, a + 1 + x) = BytesSlot(R, OtherThan(s))
        BY InStream
    <2> HIDE DEF a
    <2> QED BY <2>1, <2>2, <2>3
<1>2. size \in WalkSteps /\ wait \in WalkSteps /\ last \in WalkSteps
    <2>1. how \in {"replace", "add", "keep", "compare", "adopt"} /\ R.what \in Whats
        BY RoundWhat DEF HowsOf, Whats
    <2> QED BY <2>1 DEF WalkSteps, Step
<1>3. /\ size.do = "recvSize" /\ size.what = R.what /\ size.piece = p
      /\ wait.do = "recvBytes" /\ wait.what = R.what /\ wait.how = "wait"
      /\ last.do = "recvBytes" /\ last.what = R.what /\ last.how = how
    BY DEF Step
<1>4. RecvData(R.what, p, how) = (<<size>> \o [n \in 1..(Chunks - 1) |-> wait]) \o <<last>>
    BY DEF RecvData
<1> HIDE DEF E, a, size, wait, last
<1>5. Walk(E, <<size>>, <<out, a>>, <<out, a + 1>>)
    <2>1. StepEdge(R, s, size, <<out, a>>, <<out, a + 1>>)
        <3>1. a + 1 < InEnd(R, s)
            BY <1>1
        <3> QED BY <1>1, <1>3, <3>1 DEF StepEdge
    <2>2. <<out, a>> \in Places /\ <<out, a + 1>> \in Places
        BY <1>1 DEF Places
    <2> QED BY <1>2, <2>1, <2>2, IsStepEdge, WalkOne DEF E
<1>6. ASSUME NEW n \in 1..(Chunks - 1) PROVE <<wait, at[n - 1], at[n]>> \in E
    <2>1. n - 1 \in 0..(Chunks - 1) /\ n \in 0..(Chunks - 1) /\ a + 1 + (n - 1) \in Nat /\ a + 1 + n \in Nat
          /\ (a + 1 + (n - 1)) + 1 = a + 1 + n /\ n \in 1..Chunks /\ a + 1 + n < InEnd(R, s)
        BY <1>1
    <2>2. at[n - 1] = <<out, a + 1 + (n - 1)>> /\ at[n] = <<out, a + 1 + n>>
        BY <2>1
    <2>3. StepEdge(R, s, wait, <<out, a + 1 + (n - 1)>>, <<out, a + 1 + n>>)
        BY <1>1, <1>3, <2>1 DEF StepEdge
    <2>4. <<out, a + 1 + (n - 1)>> \in Places /\ <<out, a + 1 + n>> \in Places
        BY <2>1 DEF Places
    <2> QED BY <1>2, <2>2, <2>3, <2>4, IsStepEdge DEF E
<1>7. at[0] = <<out, a + 1>> /\ at[Chunks - 1] = <<out, a + 1 + (Chunks - 1)>>
    BY <1>1
<1> HIDE DEF at
<1>8. Walk(E, [n \in 1..(Chunks - 1) |-> wait], <<out, a + 1>>, <<out, a + 1 + (Chunks - 1)>>)
    <2>1. Chunks - 1 \in Nat
        BY <1>1
    <2> QED BY <1>6, <1>7, <2>1, WalkRepeat
<1>9. Walk(E, <<last>>, <<out, a + 1 + (Chunks - 1)>>, <<out, InAt(b + 1)>>)
    <2>1. (a + 1 + (Chunks - 1)) + 1 = a + 1 + Chunks /\ Chunks \in 1..Chunks /\ a + 1 + (Chunks - 1) \in Nat
        BY <1>1
    <2>2. StepEdge(R, s, last, <<out, a + 1 + (Chunks - 1)>>, <<out, InAt(b + 1)>>)
        <3>1. last.how # "wait" /\ last.how \in HowsOf(R, s) /\ last.what = R.what /\ last.do = "recvBytes"
            BY <1>1, <1>3, RoundWhat DEF HowsOf, Whats
        <3>2. InSlot(R, s, a + 1 + (Chunks - 1) + 1) = BytesSlot(R, OtherThan(s)) /\ InAt(b + 1) = (a + 1 + (Chunks - 1)) + 1
            BY <1>1, <2>1
        <3> QED BY <3>1, <3>2 DEF StepEdge
    <2>3. <<out, a + 1 + (Chunks - 1)>> \in Places /\ <<out, InAt(b + 1)>> \in Places
        BY <1>1, <2>1 DEF Places
    <2> QED BY <1>2, <2>2, <2>3, IsStepEdge, WalkOne DEF E
<1>10. Walk(E, (<<size>> \o [n \in 1..(Chunks - 1) |-> wait]) \o <<last>>, <<out, a>>, <<out, InAt(b + 1)>>)
    BY <1>5, <1>8, <1>9, WalkConcat
<1> QED BY <1>4, <1>10 DEF E, a

\* The exchange of the sparse grids.
LEMMA GridRoad ==
    ASSUME NEW R, IsRound(R), R.what = "grid", NEW s \in Systems
    PROVE  Walk(StepEdges(R, s), ExchangeDsgus(s = R.first), <<OutAt(0), InAt(0)>>, <<OutAt(NumPieces), InAt(NumPieces)>>)
<1> DEFINE o == OtherThan(s)
           E == StepEdges(R, s)
           at == [n \in 0..NumPieces |-> <<OutAt(n), InAt(n)>>]
           ss == [p \in Pieces |-> IF s = R.first THEN SendData("grid", p) \o RecvData("grid", p, "replace")
                                                  ELSE RecvData("grid", p, "add") \o SendData("grid", p)]
<1>1. NumPieces \in Nat \ {0} /\ Transfers(R, s) = NumPieces /\ Transfers(R, o) = NumPieces /\ o \in Systems
    BY ThirdLevelAssumption, TwoOfThem DEF Transfers
<1>2. Len(ss) = NumPieces
    BY <1>1 DEF Pieces
<1>3. ExchangeDsgus(s = R.first) = FlattenSeq(ss)
    BY DEF ExchangeDsgus
<1>4. ASSUME NEW n \in 1..NumPieces PROVE Walk(E, ss[n], at[n - 1], at[n])
    <2>1. n \in Pieces /\ n - 1 \in 0..(NumPieces - 1) /\ (n - 1) + 1 = n /\ n - 1 \in Nat /\ n \in Nat
          /\ n - 1 \in 0..NumPieces /\ n \in 0..NumPieces
        BY <1>1 DEF Pieces
    <2>2. at[n - 1] = <<OutAt(n - 1), InAt(n - 1)>> /\ at[n] = <<OutAt(n), InAt(n)>>
        BY <2>1
    <2>3. OutAt(n - 1) \in Nat /\ OutAt(n) \in Nat /\ InAt(n - 1) \in Nat /\ InAt(n) \in Nat
        BY <2>1, AtFacts
    <2>4. ~Adopts(R, s) /\ R.what # "file" /\ "replace" \in HowsOf(R, s) /\ "add" \in HowsOf(R, s)
        BY DEF Adopts, HowsOf
    <2>5. n - 1 \in 0..(Transfers(R, s) - 1) /\ n - 1 \in 0..(Transfers(R, OtherThan(s)) - 1)
        BY <1>1, <2>1
    <2> DEFINE b == n - 1
    <2>6. b + 1 = n
        BY <2>1
    <2> HIDE DEF b
    <2>7. SizeSlot(R, n) = SizeSlot(R, b + 1)
        BY <2>6
    <2>8. ASSUME NEW in \in Nat PROVE Walk(E, SendData("grid", n), <<OutAt(b), in>>, <<OutAt(b + 1), in>>)
        BY <2>1, <2>4, <2>5, <2>7, SendRoad DEF b
    <2>9. ASSUME NEW out \in Nat, NEW how \in HowsOf(R, s)
          PROVE Walk(E, RecvData("grid", n, how), <<out, InAt(b)>>, <<out, InAt(b + 1)>>)
        BY <2>1, <2>4, <2>5, <2>7, RecvRoad DEF b
    <2>10. CASE s = R.first
        <3>1. ss[n] = SendData("grid", n) \o RecvData("grid", n, "replace")
            BY <2>1, <2>10
        <3>2. Walk(E, SendData("grid", n), <<OutAt(b), InAt(b)>>, <<OutAt(b + 1), InAt(b)>>)
            BY <2>3, <2>8 DEF b
        <3>3. Walk(E, RecvData("grid", n, "replace"), <<OutAt(b + 1), InAt(b)>>, <<OutAt(b + 1), InAt(b + 1)>>)
            BY <2>3, <2>4, <2>6, <2>9
        <3>4. Walk(E, ss[n], <<OutAt(b), InAt(b)>>, <<OutAt(b + 1), InAt(b + 1)>>)
            BY <3>1, <3>2, <3>3, WalkConcat
        <3> QED BY <2>2, <2>6, <3>4 DEF b
    <2>11. CASE s # R.first
        <3>1. ss[n] = RecvData("grid", n, "add") \o SendData("grid", n)
            BY <2>1, <2>11
        <3>2. Walk(E, RecvData("grid", n, "add"), <<OutAt(b), InAt(b)>>, <<OutAt(b), InAt(b + 1)>>)
            BY <2>3, <2>4, <2>9 DEF b
        <3>3. Walk(E, SendData("grid", n), <<OutAt(b), InAt(b + 1)>>, <<OutAt(b + 1), InAt(b + 1)>>)
            BY <2>3, <2>6, <2>8
        <3>4. Walk(E, ss[n], <<OutAt(b), InAt(b)>>, <<OutAt(b + 1), InAt(b + 1)>>)
            BY <3>1, <3>2, <3>3, WalkConcat
        <3> QED BY <2>2, <2>6, <3>4 DEF b
    <2> QED BY <2>10, <2>11
<1>5. at[0] = <<OutAt(0), InAt(0)>> /\ at[NumPieces] = <<OutAt(NumPieces), InAt(NumPieces)>>
    BY <1>1
<1> HIDE DEF at, ss, E
<1>6. Walk(E, FlattenSeq(ss), at[0], at[NumPieces])
    BY <1>1, <1>2, <1>4, WalkFlatten
<1> QED BY <1>3, <1>5, <1>6 DEF E

\* A system that does what it is told ends where the round does.
LEMMA RoleRoad ==
    ASSUME NEW R, IsRound(R), NEW s \in Systems, R.checked <=> s \in debug
    PROVE  Walk(StepEdges(R, s), Role(s, R.what, Instruction(R, s)),
                <<1, 1>>, <<OutEnd(R, s) - 1, InEnd(R, s)>>)
<1> DEFINE o == OtherThan(s)
           E == StepEdges(R, s)
<1>1. Instruction(R, s) \in Instructions /\ R.what \in Whats
    BY RoundWhat DEF Instruction, Instructions
<1>2. o \in Systems /\ o # s /\ R.first \in {s, o} /\ (o = R.first <=> s # R.first)
    BY TwoOfThem DEF IsRound
<1>3. Transfers(R, s) \in Nat /\ Transfers(R, o) \in Nat
    BY <1>2, TransfersNat
<1>4. OutEnd(R, s) - 1 = OutAt(Transfers(R, s)) /\ InEnd(R, s) = InAt(Transfers(R, o))
    BY <1>3, AtFacts DEF OutEnd, InEnd
<1>5. OutAt(0) = 1 /\ InAt(0) = 1 /\ OutAt(0 + 1) = OutAt(1) /\ InAt(0 + 1) = InAt(1) /\ OutAt(1) \in Nat /\ InAt(1) \in Nat
    BY AtFacts
<1>6. None \in Pieces \cup {None} /\ (R.what # "grid" => SizeSlot(R, None) = SizeSlot(R, 0 + 1))
    BY DEF SizeSlot, SizeOfPiece
<1> HIDE DEF E, o
<1>7. ASSUME R.what # "grid", Transfers(R, s) = 1, NEW in \in Nat, Adopts(R, s) => in = InEnd(R, s)
      PROVE  Walk(E, SendData(R.what, None), <<1, in>>, <<OutAt(1), in>>)
    <2>1. 0 \in 0..(Transfers(R, s) - 1)
        BY <1>7
    <2>2. Walk(E, SendData(R.what, None), <<OutAt(0), in>>, <<OutAt(0 + 1), in>>)
        BY <1>6, <1>7, <2>1, SendRoad DEF E
    <2> QED BY <1>5, <2>2
<1>8. ASSUME R.what # "grid", R.what # "file", Transfers(R, o) = 1, NEW out \in Nat, NEW how \in HowsOf(R, s)
      PROVE  Walk(E, RecvData(R.what, None, how), <<out, 1>>, <<out, InAt(1)>>)
    <2>1. 0 \in 0..(Transfers(R, OtherThan(s)) - 1)
        BY <1>8 DEF o
    <2>2. Walk(E, RecvData(R.what, None, how), <<out, InAt(0)>>, <<out, InAt(0 + 1)>>)
        BY <1>6, <1>8, <2>1, RecvRoad DEF E
    <2> QED BY <1>5, <2>2
<1>9. CASE R.what = "grid"
    <2>1. Instruction(R, s) = "send_first" <=> s = R.first
        BY <1>9 DEF Instruction
    <2>2. Role(s, R.what, Instruction(R, s)) = ExchangeDsgus(s = R.first)
        <3>1. Role(s, R.what, Instruction(R, s)) = ExchangeDsgus(Instruction(R, s) = "send_first")
            BY <1>1, <1>9 DEF Role
        <3>2. (Instruction(R, s) = "send_first") = (s = R.first)
            BY <2>1
        <3> QED BY <3>1, <3>2
    <2>3. Transfers(R, s) = NumPieces /\ Transfers(R, o) = NumPieces
        BY <1>9 DEF Transfers
    <2> QED BY <1>4, <1>5, <1>9, <2>2, <2>3, GridRoad DEF E
<1>10. CASE R.what \in {"sizes", "values"}
    <2>1. Transfers(R, s) = 1 /\ Transfers(R, o) = 1 /\ "keep" \in HowsOf(R, s) /\ ~Adopts(R, s)
        BY <1>10 DEF Transfers, HowsOf, Adopts
    <2>2. CASE s = R.first
        <3>1. Role(s, R.what, Instruction(R, s)) = SendData(R.what, None) \o RecvData(R.what, None, "keep")
            BY <1>1, <1>10, <2>2 DEF Role, ExchangeAndKeep, Instruction
        <3>2. Walk(E, SendData(R.what, None), <<1, 1>>, <<OutAt(1), 1>>)
            BY <1>7, <1>10, <2>1
        <3>3. Walk(E, RecvData(R.what, None, "keep"), <<OutAt(1), 1>>, <<OutAt(1), InAt(1)>>)
            BY <1>5, <1>8, <1>10, <2>1
        <3> QED BY <1>4, <2>1, <3>1, <3>2, <3>3, WalkConcat DEF E
    <2>3. CASE s # R.first
        <3>1. Role(s, R.what, Instruction(R, s)) = RecvData(R.what, None, "keep") \o SendData(R.what, None)
            BY <1>1, <1>10, <2>3 DEF Role, ExchangeAndKeep, Instruction
        <3>2. Walk(E, RecvData(R.what, None, "keep"), <<1, 1>>, <<1, InAt(1)>>)
            BY <1>8, <1>10, <2>1
        <3>3. Walk(E, SendData(R.what, None), <<1, InAt(1)>>, <<OutAt(1), InAt(1)>>)
            BY <1>5, <1>7, <1>10, <2>1
        <3> QED BY <1>4, <2>1, <3>1, <3>2, <3>3, WalkConcat DEF E
    <2> QED BY <2>2, <2>3
<1>11. CASE R.what = "coords"
    <2>1. CASE s = R.first
        <3>1. Transfers(R, s) = 1 /\ "compare" \in HowsOf(R, s) /\ ~Adopts(R, s)
            BY <1>11, <2>1 DEF Transfers, HowsOf, Adopts
        <3>2. Walk(E, SendData("coords", None), <<1, 1>>, <<OutAt(1), 1>>)
            BY <1>7, <1>11, <3>1
        <3>3. Role(s, R.what, Instruction(R, s))
                 = SendData("coords", None) \o (IF s \in debug THEN RecvData("coords", None, "compare") ELSE <<>>)
            BY <1>1, <1>11, <2>1 DEF Role, ExchangeCoords, Instruction
        <3>4. CASE s \in debug
            <4>1. Transfers(R, o) = 1
                BY <1>11, <3>4 DEF Transfers
            <4>2. Walk(E, RecvData("coords", None, "compare"), <<OutAt(1), 1>>, <<OutAt(1), InAt(1)>>)
                BY <1>5, <1>8, <1>11, <3>1, <4>1
            <4>3. Role(s, R.what, Instruction(R, s)) = SendData("coords", None) \o RecvData("coords", None, "compare")
                BY <3>3, <3>4
            <4> QED BY <1>4, <3>1, <3>2, <4>1, <4>2, <4>3, WalkConcat DEF E
        <3>5. CASE s \notin debug
            <4>1. Transfers(R, o) = 0
                BY <1>2, <1>11, <2>1, <3>5 DEF Transfers
            <4>2. Role(s, R.what, Instruction(R, s)) = SendData("coords", None) \o <<>>
                BY <3>3, <3>5
            <4>3. Walk(E, <<>>, <<OutAt(1), 1>>, <<OutAt(1), 1>>)
                BY WalkStays
            <4> QED BY <1>4, <1>5, <3>1, <3>2, <4>1, <4>2, <4>3, WalkConcat DEF E
        <3> QED BY <3>4, <3>5
    <2>2. CASE s # R.first
        <3>1. Transfers(R, o) = 1 /\ "adopt" \in HowsOf(R, s)
            BY <1>2, <1>11, <2>2 DEF Transfers, HowsOf
        <3>2. Walk(E, RecvData("coords", None, "adopt"), <<1, 1>>, <<1, InAt(1)>>)
            BY <1>8, <1>11, <3>1
        <3>3. Role(s, R.what, Instruction(R, s))
                 = RecvData("coords", None, "adopt") \o (IF s \in debug THEN SendData("coords", None) ELSE <<>>)
            BY <1>1, <1>11, <2>2 DEF Role, ExchangeCoords, Instruction
        <3>4. CASE s \in debug
            <4>1. Transfers(R, s) = 1 /\ InEnd(R, s) = InAt(1)
                BY <1>4, <1>11, <3>1, <3>4 DEF Transfers
            <4>2. Walk(E, SendData("coords", None), <<1, InAt(1)>>, <<OutAt(1), InAt(1)>>)
                BY <1>5, <1>7, <1>11, <4>1
            <4>3. Role(s, R.what, Instruction(R, s)) = RecvData("coords", None, "adopt") \o SendData("coords", None)
                BY <3>3, <3>4
            <4> QED BY <1>4, <3>1, <3>2, <4>1, <4>2, <4>3, WalkConcat DEF E
        <3>5. CASE s \notin debug
            <4>1. Transfers(R, s) = 0
                BY <1>11, <2>2, <3>5 DEF Transfers, IsRound
            <4>2. Role(s, R.what, Instruction(R, s)) = RecvData("coords", None, "adopt") \o <<>>
                BY <3>3, <3>5
            <4>3. Walk(E, <<>>, <<1, InAt(1)>>, <<1, InAt(1)>>)
                BY WalkStays
            <4> QED BY <1>4, <1>5, <3>1, <3>2, <4>1, <4>2, <4>3, WalkConcat DEF E
        <3> QED BY <3>4, <3>5
    <2> QED BY <2>1, <2>2
<1>12. CASE R.what = "file"
    <2> DEFINE x == Step("write", "", None, "")
               y == Step("readReduce", "", None, "")
               u == <<1, 1>>
    <2>1. Role(s, R.what, Instruction(R, s)) = <<x>> \o <<y>>
        BY <1>1, <1>12 DEF Role, Local
    <2>2. x \in WalkSteps /\ y \in WalkSteps /\ x.do = "write" /\ y.do = "readReduce"
        BY DEF WalkSteps, Step
    <2>3. u \in Places
        BY DEF Places
    <2>4. Transfers(R, s) = 0 /\ Transfers(R, o) = 0
        BY <1>12 DEF Transfers
    <2> HIDE DEF x, y, u
    <2>5. StepEdge(R, s, x, u, u) /\ StepEdge(R, s, y, u, u)
        BY <1>12, <2>2 DEF StepEdge
    <2>6. Walk(E, <<x>>, u, u) /\ Walk(E, <<y>>, u, u)
        BY <2>2, <2>3, <2>5, IsStepEdge, WalkOne DEF E
    <2>7. Walk(E, <<x>> \o <<y>>, u, u)
        BY <2>6, WalkConcat
    <2> QED BY <1>4, <1>5, <2>1, <2>4, <2>7 DEF u, E
<1> QED BY <1>1, <1>9, <1>10, <1>11, <1>12 DEF Whats

-----------------------------------------------------------------------------
(***************************************************************************)
(* The walk of the broker through a round.  Its places are the numbers of  *)
(* messages it has taken from each system and given to it.                 *)
(***************************************************************************)
Spots == [take : [Systems -> Nat], give : [Systems -> Nat]]

Taken(u, s) == [take |-> [u.take EXCEPT ![s] = u.take[s] + 1], give |-> u.give]
Given(u, s) == [take |-> u.take, give |-> [u.give EXCEPT ![s] = u.give[s] + 1]]

\* Before the first message, between the b-th and the next exchange of a piece, and at the end.
StartSpot(R) == [take |-> [s \in Systems |-> IF s = R.first THEN 1 ELSE 0], give |-> [s \in Systems |-> 0]]
PieceSpot(b) == [take |-> [s \in Systems |-> OutAt(b)], give |-> [s \in Systems |-> InAt(b)]]
GridsDone(R) ==
    [take |-> [s \in Systems |-> IF s = R.first THEN OutEnd(R, s) ELSE OutEnd(R, s) - 1],
     give |-> [s \in Systems |-> InEnd(R, s)]]
EndSpot(R) == [take |-> [s \in Systems |-> OutEnd(R, s)], give |-> [s \in Systems |-> InEnd(R, s)]]

\* Nothing is given to a system that has not asked.
NothingUnasked(u) == \A s \in Systems : u.take[s] = 0 => u.give[s] = 0

Jobs == [do : {"send", "expect", "forward", "grids", "optional", "sendBack"}, sys : Systems,
         text : Kinds \cup {""}]

JobEdge(R, x, u, v) ==
    LET s == x.sys
        o == OtherThan(x.sys)
    IN  \/ /\ x.do = "send" /\ InSlot(R, s, u.give[s] + 1) = TextSlot(x.text) /\ v = Given(u, s)
        \/ /\ x.do = "expect" /\ OutSlot(R, s, u.take[s] + 1) = TextSlot(x.text) /\ v = Taken(u, s)
        \/ /\ x.do = "forward" /\ OutSlot(R, s, u.take[s] + 1).kind = x.text
           /\ InSlot(R, o, u.give[o] + 1) = OutSlot(R, s, u.take[s] + 1) /\ v = Given(Taken(u, s), o)
        \/ /\ x.do = "optional" /\ Transfers(R, s) = 1 /\ u.take[s] = OutAt(0) /\ u.give[o] = InAt(0)
           /\ u.take[o] >= 1
           /\ v = [take |-> [u.take EXCEPT ![s] = OutAt(1)], give |-> [u.give EXCEPT ![o] = InAt(1)]]
        \/ /\ x.do = "sendBack" /\ s # R.first /\ Transfers(R, s) \in {0, 1}
           /\ u.take[s] = OutAt(0) /\ u.take[o] = OutEnd(R, o) - 1
           /\ u.give[s] = InEnd(R, s) /\ u.give[o] = InAt(0) /\ v = EndSpot(R)
        \/ /\ x.do = "grids" /\ s = R.first /\ R.what = "grid"
           /\ \E b \in 0..NumPieces : u = PieceSpot(b)
           /\ v = GridsDone(R)

JobEdges(R) ==
    {e \in Jobs \X Spots \X Spots : JobEdge(R, e[1], e[2], e[3]) /\ NothingUnasked(e[3])}

LEMMA IsJobEdge ==
    ASSUME NEW R, NEW x \in Jobs, NEW u \in Spots, NEW v \in Spots, JobEdge(R, x, u, v), NothingUnasked(v)
    PROVE  <<x, u, v>> \in JobEdges(R)
BY DEF JobEdges

LEMMA JobEdgeIs ==
    ASSUME NEW R, NEW x, NEW u, NEW v, <<x, u, v>> \in JobEdges(R)
    PROVE  x \in Jobs /\ u \in Spots /\ v \in Spots /\ JobEdge(R, x, u, v) /\ NothingUnasked(v)
BY DEF JobEdges

LEMMA SpotEqual ==
    ASSUME NEW u \in Spots, NEW v \in Spots,
           \A s \in Systems : u.take[s] = v.take[s] /\ u.give[s] = v.give[s]
    PROVE  u = v
<1>1. u.take \in [Systems -> Nat] /\ v.take \in [Systems -> Nat] /\ u.give \in [Systems -> Nat] /\ v.give \in [Systems -> Nat]
    BY DEF Spots
<1>2. u.take = v.take /\ u.give = v.give
    BY <1>1
<1>3. u = [take |-> u.take, give |-> u.give] /\ v = [take |-> v.take, give |-> v.give]
    BY DEF Spots
<1> QED BY <1>2, <1>3

LEMMA SpotMoves ==
    ASSUME NEW u \in Spots, NEW s \in Systems
    PROVE  /\ Taken(u, s) \in Spots /\ Given(u, s) \in Spots
           /\ Taken(u, s).take[s] = u.take[s] + 1 /\ Given(u, s).give[s] = u.give[s] + 1
           /\ Taken(u, s).give = u.give /\ Given(u, s).take = u.take
           /\ \A x \in Systems : x # s => Taken(u, s).take[x] = u.take[x] /\ Given(u, s).give[x] = u.give[x]
           /\ \A x \in Systems : u.take[x] \in Nat /\ u.give[x] \in Nat
BY DEF Spots, Taken, Given

LEMMA MovesGrow ==
    ASSUME NEW u \in Spots, NEW s \in Systems
    PROVE  \A y \in Systems : /\ u.take[y] <= Taken(u, s).take[y] /\ u.give[y] <= Taken(u, s).give[y]
                              /\ u.take[y] <= Given(u, s).take[y] /\ u.give[y] <= Given(u, s).give[y]
<1> DEFINE t == Taken(u, s)
           g == Given(u, s)
<1>1. /\ t.take[s] = u.take[s] + 1 /\ g.give[s] = u.give[s] + 1
      /\ t.give = u.give /\ g.take = u.take
      /\ \A x \in Systems : x # s => t.take[x] = u.take[x] /\ g.give[x] = u.give[x]
      /\ \A x \in Systems : u.take[x] \in Nat /\ u.give[x] \in Nat
    BY SpotMoves
<1> HIDE DEF t, g
<1>2. \A y \in Systems : u.take[y] <= t.take[y] /\ u.give[y] <= t.give[y] /\ u.take[y] <= g.take[y] /\ u.give[y] <= g.give[y]
    BY <1>1
<1> QED BY <1>2 DEF t, g

LEMMA SpotTypes ==
    ASSUME NEW R, IsRound(R)
    PROVE  /\ StartSpot(R) \in Spots /\ GridsDone(R) \in Spots /\ EndSpot(R) \in Spots
           /\ \A b \in Nat : PieceSpot(b) \in Spots
<1>1. \A s \in Systems : OutEnd(R, s) \in Nat /\ OutEnd(R, s) - 1 \in Nat /\ InEnd(R, s) \in Nat
    BY OutStream, InStream
<1>2. \A b \in Nat : OutAt(b) \in Nat /\ InAt(b) \in Nat
    BY AtFacts
<1> QED BY <1>1, <1>2 DEF StartSpot, GridsDone, EndSpot, PieceSpot, Spots

\* The broker only takes and gives more.
LEMMA JobsGrow ==
    ASSUME NEW R, IsRound(R), NEW q, NEW u \in Spots, NEW v, Walk(JobEdges(R), q, u, v)
    PROVE  v \in Spots /\ \A s \in Systems : u.take[s] <= v.take[s] /\ u.give[s] <= v.give[s]
<1> DEFINE L == {l \in Spots \X Spots : \A s \in Systems : l[1].take[s] <= l[2].take[s] /\ l[1].give[s] <= l[2].give[s]}
           E == JobEdges(R)
<1>0. \A w \in Spots : \A s \in Systems : w.take[s] \in Nat /\ w.give[s] \in Nat
    BY DEF Spots
<1>1. ASSUME NEW x, NEW a, NEW b, <<x, a, b>> \in E PROVE <<a, b>> \in L
    <2>1. x \in Jobs /\ a \in Spots /\ b \in Spots /\ JobEdge(R, x, a, b)
        BY <1>1, JobEdgeIs
    <2> DEFINE s == x.sys
               o == OtherThan(x.sys)
    <2>2. s \in Systems /\ o \in Systems /\ o # s /\ \A y \in Systems : y = s \/ y = o
        BY <2>1, TwoOfThem DEF Jobs
    <2> HIDE DEF s, o
    <2>3. SUFFICES \A y \in Systems : a.take[y] <= b.take[y] /\ a.give[y] <= b.give[y]
        BY <2>1
    <2>4. CASE b = Given(a, s)
        BY <2>1, <2>2, <2>4, MovesGrow
    <2>5. CASE b = Taken(a, s)
        BY <2>1, <2>2, <2>5, MovesGrow
    <2>6. CASE b = Given(Taken(a, s), o)
        <3> DEFINE c == Taken(a, s)
        <3>1. c \in Spots
            BY <2>1, <2>2, SpotMoves
        <3>2. \A y \in Systems : a.take[y] <= c.take[y] /\ a.give[y] <= c.give[y]
            BY <2>1, <2>2, MovesGrow
        <3>3. b = Given(c, o)
            BY <2>6
        <3> HIDE DEF c
        <3>4. \A y \in Systems : c.take[y] <= b.take[y] /\ c.give[y] <= b.give[y]
            BY <2>2, <3>1, <3>3, MovesGrow
        <3> QED BY <1>0, <2>1, <3>1, <3>2, <3>4
    <2>7. CASE /\ a.take[s] = OutAt(0) /\ a.give[o] = InAt(0)
               /\ b = [take |-> [a.take EXCEPT ![s] = OutAt(1)], give |-> [a.give EXCEPT ![o] = InAt(1)]]
        <3>1. OutAt(0) <= OutAt(1) /\ InAt(0) <= InAt(1)
            BY AtGrows
        <3>2. a.take \in [Systems -> Nat] /\ a.give \in [Systems -> Nat]
            BY <2>1 DEF Spots
        <3>3. \A y \in Systems : /\ b.take[y] = IF y = s THEN OutAt(1) ELSE a.take[y]
                                 /\ b.give[y] = IF y = o THEN InAt(1) ELSE a.give[y]
            BY <2>2, <2>7, <3>2
        <3>4. \A y \in Systems : a.take[y] \in Nat /\ a.give[y] \in Nat
            BY <3>2
        <3> QED BY <2>2, <2>7, <3>1, <3>3, <3>4
    <2>8. CASE /\ a.take[s] = OutAt(0) /\ a.take[o] = OutEnd(R, o) - 1
               /\ a.give[s] = InEnd(R, s) /\ a.give[o] = InAt(0) /\ b = EndSpot(R)
        <3>1. OutEnd(R, s) \in Nat /\ OutEnd(R, o) \in Nat /\ InEnd(R, s) \in Nat /\ InEnd(R, o) \in Nat
              /\ OutEnd(R, s) >= 2 /\ InEnd(R, o) >= 1 /\ OutAt(0) = 1 /\ InAt(0) = 1
            BY <2>2, OutStream, InStream, AtFacts
        <3>2. \A y \in Systems : b.take[y] = OutEnd(R, y) /\ b.give[y] = InEnd(R, y)
            BY <2>8 DEF EndSpot
        <3> QED BY <2>2, <2>8, <3>1, <3>2
    <2>9. CASE /\ R.what = "grid"
               /\ \E n \in 0..NumPieces : a = PieceSpot(n)
               /\ b = GridsDone(R)
        <3>1. PICK n \in 0..NumPieces : a = PieceSpot(n)
            BY <2>9
        <3>2. NumPieces \in Nat /\ n \in Nat /\ n <= NumPieces
            BY ThirdLevelAssumption
        <3>3. \A y \in Systems : Transfers(R, y) = NumPieces
            BY <2>9 DEF Transfers
        <3>4. \A y \in Systems : OutEnd(R, y) = OutAt(NumPieces) + 1 /\ InEnd(R, y) = InAt(NumPieces)
            BY <3>3, TwoOfThem DEF OutEnd, InEnd
        <3>5. OutAt(n) <= OutAt(NumPieces) /\ InAt(n) <= InAt(NumPieces) /\ OutAt(NumPieces) \in Nat /\ OutAt(n) \in Nat
            BY <3>2, AtGrows, AtFacts
        <3>6. \A y \in Systems : a.take[y] = OutAt(n) /\ a.give[y] = InAt(n)
            BY <3>1 DEF PieceSpot
        <3>7. \A y \in Systems : b.take[y] \in {OutEnd(R, y), OutEnd(R, y) - 1} /\ b.give[y] = InEnd(R, y)
            BY <2>9 DEF GridsDone
        <3> QED BY <3>4, <3>5, <3>6, <3>7
    <2> QED BY <2>1, <2>4, <2>5, <2>6, <2>7, <2>8, <2>9 DEF JobEdge, s, o
<1>2. ASSUME NEW a, NEW b, NEW c, <<a, b>> \in L, <<b, c>> \in L PROVE <<a, c>> \in L
    <2>1. a \in Spots /\ b \in Spots /\ c \in Spots
        BY <1>2
    <2>2. \A s \in Systems : /\ a.take[s] <= b.take[s] /\ a.give[s] <= b.give[s]
                             /\ b.take[s] <= c.take[s] /\ b.give[s] <= c.give[s]
        BY <1>2
    <2>3. \A s \in Systems : a.take[s] <= c.take[s] /\ a.give[s] <= c.give[s]
        BY <1>0, <2>1, <2>2
    <2> QED BY <2>1, <2>3
<1>3. <<u, u>> \in L
    BY <1>0
<1>4. <<u, v>> \in L
    <2> HIDE DEF L, E
    <2>1. Walk(E, q, u, v)
        BY DEF E
    <2> QED BY <1>1, <1>2, <1>3, <2>1, WalkOrdered
<1> QED BY <1>4

\* A transfer forwarded, from one system to the other.
Forwarded(u, s, b) ==
    [take |-> [u.take EXCEPT ![s] = OutAt(b)], give |-> [u.give EXCEPT ![OtherThan(s)] = InAt(b)]]

LEMMA ForwardedIs ==
    ASSUME NEW u \in Spots, NEW s \in Systems, NEW b \in Nat
    PROVE  /\ Forwarded(u, s, b) \in Spots
           /\ Forwarded(u, s, b).take[s] = OutAt(b)
           /\ Forwarded(u, s, b).take[OtherThan(s)] = u.take[OtherThan(s)]
           /\ Forwarded(u, s, b).give[OtherThan(s)] = InAt(b)
           /\ Forwarded(u, s, b).give[s] = u.give[s]
<1>1. OtherThan(s) \in Systems /\ OtherThan(s) # s
    BY TwoOfThem
<1>2. OutAt(b) \in Nat /\ InAt(b) \in Nat
    BY AtFacts
<1>3. u.take \in [Systems -> Nat] /\ u.give \in [Systems -> Nat]
    BY DEF Spots
<1> QED BY <1>1, <1>2, <1>3 DEF Forwarded, Spots

LEMMA ForwardOne ==
    ASSUME NEW R, NEW s \in Systems, NEW text \in Kinds, NEW u \in Spots,
           OutSlot(R, s, u.take[s] + 1).kind = text,
           InSlot(R, OtherThan(s), u.give[OtherThan(s)] + 1) = OutSlot(R, s, u.take[s] + 1),
           u.take[OtherThan(s)] >= 1
    PROVE  <<Job("forward", s, text), u, Given(Taken(u, s), OtherThan(s))>> \in JobEdges(R)
<1> DEFINE x == Job("forward", s, text)
           o == OtherThan(s)
           t == Taken(u, s)
           v == Given(t, o)
<1>1. o \in Systems /\ o # s /\ \A y \in Systems : y = s \/ y = o
    BY TwoOfThem
<1>2. x \in Jobs /\ x.do = "forward" /\ x.sys = s /\ x.text = text
    BY DEF Job, Jobs
<1>3. t \in Spots /\ t.take[s] = u.take[s] + 1 /\ t.take[o] = u.take[o] /\ u.take[s] \in Nat /\ u.take[o] \in Nat
    BY <1>1, SpotMoves
<1>4. v = Given(Taken(u, s), o)
    OBVIOUS
<1>5. JobEdge(R, x, u, v)
    BY <1>2, <1>4 DEF JobEdge
<1> HIDE DEF t
<1>6. v \in Spots /\ v.take = t.take
    BY <1>1, <1>3, SpotMoves
<1> HIDE DEF v
<1>7. NothingUnasked(v)
    BY <1>1, <1>3, <1>6 DEF NothingUnasked
<1> HIDE DEF x
<1>8. <<x, u, v>> \in JobEdges(R)
    BY <1>2, <1>5, <1>6, <1>7, IsJobEdge
<1> QED BY <1>8 DEF x, v, t, o

\* forwardData is one transfer.
LEMMA ForwardRoad ==
    ASSUME NEW R, IsRound(R), NEW s \in Systems, NEW b \in 0..(Transfers(R, s) - 1), NEW u \in Spots,
           u.take[s] = OutAt(b) + 1, u.give[OtherThan(s)] = InAt(b), u.take[OtherThan(s)] >= 1
    PROVE  Walk(JobEdges(R), ForwardData(s), u, Forwarded(u, s, b + 1))
<1> DEFINE o == OtherThan(s)
           E == JobEdges(R)
           at == [n \in Nat |-> [take |-> [u.take EXCEPT ![s] = u.take[s] + n],
                                 give |-> [u.give EXCEPT ![o] = u.give[o] + n]]]
           size == Job("forward", s, "size")
           bytes == Job("forward", s, "bytes")
           from == [n \in 0..Chunks |-> at[n + 1]]
<1>1. o \in Systems /\ o # s /\ OtherThan(o) = s /\ \A y \in Systems : y = s \/ y = o
    BY TwoOfThem
<1>2. b \in Nat /\ Chunks \in Nat /\ OutAt(b) \in Nat /\ InAt(b) \in Nat
      /\ OutAt(b + 1) = OutAt(b) + Chunks + 2 /\ InAt(b + 1) = InAt(b) + Chunks + 1
    <2>1. b \in Nat /\ Chunks \in Nat
        BY TransfersNat, ThirdLevelAssumption
    <2> QED BY <2>1, AtFacts
<1>3. /\ OutSlot(R, s, OutAt(b) + 2) = SizeSlot(R, b + 1)
      /\ InSlot(R, o, InAt(b) + 1) = SizeSlot(R, b + 1)
      /\ \A x \in 1..Chunks : OutSlot(R, s, OutAt(b) + 2 + x) = BytesSlot(R, s)
      /\ \A x \in 1..Chunks : InSlot(R, o, InAt(b) + 1 + x) = BytesSlot(R, s)
    BY <1>1, OutStream, InStream
<1>4. u.take \in [Systems -> Nat] /\ u.give \in [Systems -> Nat]
    BY DEF Spots
<1>5. ASSUME NEW n \in Nat
      PROVE  /\ at[n] \in Spots
             /\ at[n].take[s] = OutAt(b) + 1 + n /\ at[n].take[o] = u.take[o]
             /\ at[n].give[o] = InAt(b) + n /\ at[n].give[s] = u.give[s]
    BY <1>1, <1>2, <1>4 DEF Spots
<1>6. ASSUME NEW n \in Nat PROVE at[n + 1] = Given(Taken(at[n], s), o)
    <2> DEFINE a == at[n]
               t == Taken(a, s)
               v == Given(t, o)
               w == at[n + 1]
    <2>1. /\ a \in Spots /\ a.take[s] = OutAt(b) + 1 + n /\ a.take[o] = u.take[o]
          /\ a.give[o] = InAt(b) + n /\ a.give[s] = u.give[s]
        BY <1>5
    <2>2. /\ w \in Spots /\ w.take[s] = OutAt(b) + 1 + (n + 1) /\ w.take[o] = u.take[o]
          /\ w.give[o] = InAt(b) + (n + 1) /\ w.give[s] = u.give[s]
        <3>1. n + 1 \in Nat
            OBVIOUS
        <3> HIDE DEF at
        <3> QED BY <1>5, <3>1
    <2> HIDE DEF a, w
    <2>3. t \in Spots /\ t.take[s] = a.take[s] + 1 /\ t.take[o] = a.take[o] /\ t.give = a.give
        BY <1>1, <2>1, SpotMoves
    <2> HIDE DEF t
    <2>4. v \in Spots /\ v.give[o] = t.give[o] + 1 /\ v.give[s] = t.give[s] /\ v.take = t.take
        BY <1>1, <2>3, SpotMoves
    <2> HIDE DEF v
    <2>5. v.take[s] = w.take[s] /\ v.give[o] = w.give[o]
        BY <1>2, <2>1, <2>2, <2>3, <2>4
    <2>6. v.take[o] = w.take[o] /\ v.give[s] = w.give[s]
        BY <2>1, <2>2, <2>3, <2>4
    <2>7. w = v
        <3>1. \A y \in Systems : w.take[y] = v.take[y] /\ w.give[y] = v.give[y]
            BY <1>1, <2>5, <2>6
        <3> QED BY <2>2, <2>4, <3>1, SpotEqual
    <2> QED BY <2>7 DEF a, w, v, t
<1>7. /\ at[0] = u
      /\ at[Chunks + 1] = Forwarded(u, s, b + 1)
    <2>1. at[0] = u
        <3> DEFINE w == at[0]
        <3>1. w \in Spots /\ w.take[s] = OutAt(b) + 1 + 0 /\ w.take[o] = u.take[o] /\ w.give[o] = InAt(b) + 0 /\ w.give[s] = u.give[s]
            BY <1>5
        <3> HIDE DEF w
        <3>2. w.take[s] = u.take[s] /\ w.give[o] = u.give[o]
            BY <1>2, <3>1
        <3>3. \A y \in Systems : w.take[y] = u.take[y] /\ w.give[y] = u.give[y]
            BY <1>1, <3>1, <3>2
        <3>4. w = u
            BY <3>1, <3>3, SpotEqual
        <3> QED BY <3>4 DEF w
    <2>2. at[Chunks + 1] = Forwarded(u, s, b + 1)
        <3> DEFINE w == at[Chunks + 1]
                   f == Forwarded(u, s, b + 1)
        <3>1. Chunks + 1 \in Nat /\ b + 1 \in Nat
            BY <1>2
        <3>2. w \in Spots /\ w.take[s] = OutAt(b) + 1 + (Chunks + 1) /\ w.take[o] = u.take[o] /\ w.give[o] = InAt(b) + (Chunks + 1) /\ w.give[s] = u.give[s]
            <4> HIDE DEF at
            <4> QED BY <1>5, <3>1
        <3>3. f \in Spots /\ f.take[s] = OutAt(b + 1) /\ f.take[o] = u.take[o] /\ f.give[o] = InAt(b + 1) /\ f.give[s] = u.give[s]
            BY <3>1, ForwardedIs
        <3> HIDE DEF w, f
        <3>4. w.take[s] = f.take[s] /\ w.give[o] = f.give[o]
            BY <1>2, <3>2, <3>3
        <3>5. \A y \in Systems : w.take[y] = f.take[y] /\ w.give[y] = f.give[y]
            BY <1>1, <3>2, <3>3, <3>4
        <3>6. w = f
            BY <3>2, <3>3, <3>5, SpotEqual
        <3> QED BY <3>6 DEF w, f
    <2> QED BY <2>1, <2>2
<1>8. ForwardData(s) = <<size>> \o [n \in 1..Chunks |-> bytes]
    BY DEF ForwardData
<1> HIDE DEF at, E
<1>9. <<size, at[0], at[1]>> \in E
    <2> DEFINE a == at[0]
    <2>1. /\ a \in Spots /\ a.take[s] = OutAt(b) + 1 + 0 /\ a.take[o] = u.take[o] /\ a.give[o] = InAt(b) + 0
        BY <1>5
    <2>2. a.take[s] + 1 = OutAt(b) + 2 /\ a.give[o] + 1 = InAt(b) + 1
        BY <1>2, <2>1
    <2>3. SizeSlot(R, b + 1).kind = "size" /\ "size" \in Kinds
        BY DEF SizeSlot, Kinds
    <2>4. at[0 + 1] = Given(Taken(a, s), o) /\ 0 + 1 = 1
        BY <1>6
    <2> HIDE DEF a
    <2>5. <<size, a, Given(Taken(a, s), o)>> \in E
        BY <1>3, <2>1, <2>2, <2>3, ForwardOne DEF E
    <2> QED BY <2>4, <2>5 DEF a
<1>10. ASSUME NEW n \in 1..Chunks PROVE <<bytes, from[n - 1], from[n]>> \in E
    <2> DEFINE a == at[n]
    <2>0. n \in Nat /\ n - 1 \in 0..Chunks /\ n \in 0..Chunks /\ (n - 1) + 1 = n
        BY <1>2
    <2>1. /\ a \in Spots /\ a.take[s] = OutAt(b) + 1 + n /\ a.take[o] = u.take[o] /\ a.give[o] = InAt(b) + n
        BY <1>5, <2>0
    <2>2. a.take[s] + 1 = OutAt(b) + 2 + n /\ a.give[o] + 1 = InAt(b) + 1 + n
        BY <1>2, <2>0, <2>1
    <2>3. BytesSlot(R, s).kind = "bytes" /\ "bytes" \in Kinds
        BY DEF BytesSlot, Kinds
    <2>4. at[n + 1] = Given(Taken(a, s), o)
        BY <1>6, <2>0
    <2>5. from[n - 1] = at[n] /\ from[n] = at[n + 1]
        BY <2>0
    <2> HIDE DEF a, from
    <2>6. <<bytes, a, Given(Taken(a, s), o)>> \in E
        BY <1>3, <2>1, <2>2, <2>3, ForwardOne DEF E
    <2> QED BY <2>4, <2>5, <2>6 DEF a
<1>11. from[0] = at[1] /\ from[Chunks] = at[Chunks + 1]
    <2>1. 0 \in 0..Chunks /\ Chunks \in 0..Chunks /\ 0 + 1 = 1
        BY <1>2
    <2> QED BY <2>1
<1> HIDE DEF from, size, bytes
<1>12. Walk(E, [n \in 1..Chunks |-> bytes], at[1], at[Chunks + 1])
    <2>1. Walk(E, [n \in 1..Chunks |-> bytes], from[0], from[Chunks])
        BY <1>2, <1>10, WalkRepeat
    <2> QED BY <1>11, <2>1
<1>13. Walk(E, <<size>> \o [n \in 1..Chunks |-> bytes], at[0], at[Chunks + 1])
    BY <1>9, <1>12, WalkCons
<1> QED BY <1>7, <1>8, <1>13 DEF E

\* What one job of the broker does.
LEMMA SendJob ==
    ASSUME NEW R, NEW s \in Systems, NEW text \in Kinds, NEW u \in Spots, NothingUnasked(u), u.take[s] >= 1,
           InSlot(R, s, u.give[s] + 1) = TextSlot(text)
    PROVE  Walk(JobEdges(R), SendTo(s, text), u, Given(u, s))
<1> DEFINE x == Job("send", s, text)
           v == Given(u, s)
<1>1. x \in Jobs /\ x.do = "send" /\ x.sys = s /\ x.text = text
    BY DEF Job, Jobs
<1>2. v \in Spots /\ v.take = u.take /\ \A y \in Systems : y # s => v.give[y] = u.give[y]
    BY SpotMoves
<1>3. JobEdge(R, x, u, v)
    BY <1>1 DEF JobEdge
<1> HIDE DEF v
<1>4. NothingUnasked(v)
    BY <1>2 DEF NothingUnasked
<1> HIDE DEF x
<1>5. Walk(JobEdges(R), <<x>>, u, v)
    BY <1>1, <1>2, <1>3, <1>4, IsJobEdge, WalkOne
<1> QED BY <1>5 DEF SendTo, x, v

LEMMA ExpectJob ==
    ASSUME NEW R, NEW s \in Systems, NEW text \in Kinds, NEW u \in Spots, NothingUnasked(u),
           OutSlot(R, s, u.take[s] + 1) = TextSlot(text)
    PROVE  Walk(JobEdges(R), Expect(s, text), u, Taken(u, s))
<1> DEFINE x == Job("expect", s, text)
           v == Taken(u, s)
<1>1. x \in Jobs /\ x.do = "expect" /\ x.sys = s /\ x.text = text
    BY DEF Job, Jobs
<1>2. v \in Spots /\ v.give = u.give /\ v.take[s] = u.take[s] + 1 /\ u.take[s] \in Nat
      /\ \A y \in Systems : y # s => v.take[y] = u.take[y]
    BY SpotMoves
<1>3. JobEdge(R, x, u, v)
    BY <1>1 DEF JobEdge
<1> HIDE DEF v
<1>4. NothingUnasked(v)
    BY <1>2 DEF NothingUnasked
<1> HIDE DEF x
<1>5. Walk(JobEdges(R), <<x>>, u, v)
    BY <1>1, <1>2, <1>3, <1>4, IsJobEdge, WalkOne
<1> QED BY <1>5 DEF Expect, x, v

\* A place by its four numbers.
Spot(s, a, b, c, d) ==
    [take |-> [y \in Systems |-> IF y = s THEN a ELSE b], give |-> [y \in Systems |-> IF y = s THEN c ELSE d]]

LEMMA SpotIs ==
    ASSUME NEW s \in Systems, NEW a \in Nat, NEW b \in Nat, NEW c \in Nat, NEW d \in Nat
    PROVE  /\ Spot(s, a, b, c, d) \in Spots
           /\ Spot(s, a, b, c, d).take[s] = a /\ Spot(s, a, b, c, d).give[s] = c
           /\ Spot(s, a, b, c, d).take[OtherThan(s)] = b /\ Spot(s, a, b, c, d).give[OtherThan(s)] = d
BY TwoOfThem DEF Spot, Spots

\* The same with the numbers of the place behind one name.
Stands(u, s, a, b, c, d) ==
    /\ u \in Spots
    /\ u.take[s] = a /\ u.give[s] = c
    /\ u.take[OtherThan(s)] = b /\ u.give[OtherThan(s)] = d

LEMMA SpotStands ==
    ASSUME NEW s \in Systems, NEW a \in Nat, NEW b \in Nat, NEW c \in Nat, NEW d \in Nat
    PROVE  Stands(Spot(s, a, b, c, d), s, a, b, c, d)
BY TwoOfThem DEF Stands, Spot, Spots

LEMMA SpotFour ==
    ASSUME NEW s \in Systems, NEW u \in Spots,
           NEW a \in Nat, NEW b \in Nat, NEW c \in Nat, NEW d \in Nat,
           u.take[s] = a, u.take[OtherThan(s)] = b, u.give[s] = c, u.give[OtherThan(s)] = d
    PROVE  u = Spot(s, a, b, c, d)
<1> DEFINE v == Spot(s, a, b, c, d)
           o == OtherThan(s)
<1>1. v \in Spots /\ v.take[s] = a /\ v.give[s] = c /\ v.take[o] = b /\ v.give[o] = d
    <2>1. Stands(v, s, a, b, c, d)
        BY SpotStands
    <2> HIDE DEF v
    <2> QED BY <2>1 DEF Stands
<1>2. \A y \in Systems : y = s \/ y = o
    BY TwoOfThem
<1> HIDE DEF v
<1>3. \A y \in Systems : u.take[y] = v.take[y] /\ u.give[y] = v.give[y]
    BY <1>1, <1>2 DEF o
<1>4. u = v
    BY <1>1, <1>3, SpotEqual
<1> QED BY <1>4 DEF v

LEMMA SpotSteps ==
    ASSUME NEW s \in Systems, NEW a \in Nat, NEW b \in Nat, NEW c \in Nat, NEW d \in Nat
    PROVE  /\ Taken(Spot(s, a, b, c, d), s) = Spot(s, a + 1, b, c, d)
           /\ Taken(Spot(s, a, b, c, d), OtherThan(s)) = Spot(s, a, b + 1, c, d)
           /\ Given(Spot(s, a, b, c, d), s) = Spot(s, a, b, c + 1, d)
           /\ Given(Spot(s, a, b, c, d), OtherThan(s)) = Spot(s, a, b, c, d + 1)
           /\ \A n \in Nat : Forwarded(Spot(s, a, b, c, d), s, n) = Spot(s, OutAt(n), b, c, InAt(n))
           /\ \A n \in Nat : Forwarded(Spot(s, a, b, c, d), OtherThan(s), n) = Spot(s, a, OutAt(n), InAt(n), d)
<1> DEFINE u == Spot(s, a, b, c, d)
           o == OtherThan(s)
<1>1. u \in Spots /\ u.take[s] = a /\ u.give[s] = c /\ u.take[o] = b /\ u.give[o] = d
    <2>1. Stands(u, s, a, b, c, d)
        BY SpotStands
    <2> HIDE DEF u
    <2> QED BY <2>1 DEF Stands
<1>2. o \in Systems /\ o # s /\ OtherThan(o) = s
    BY TwoOfThem
<1> HIDE DEF u
<1>3. Taken(u, s) = Spot(s, a + 1, b, c, d)
    <2> DEFINE v == Taken(u, s)
    <2>1. v \in Spots /\ v.take[s] = a + 1 /\ v.take[o] = b /\ v.give[s] = c /\ v.give[o] = d
        BY <1>1, <1>2, SpotMoves
    <2> HIDE DEF v
    <2>2. v = Spot(s, a + 1, b, c, d)
        BY <2>1, SpotFour
    <2> QED BY <2>2 DEF v
<1>4. Taken(u, o) = Spot(s, a, b + 1, c, d)
    <2> DEFINE v == Taken(u, o)
    <2>1. v \in Spots /\ v.take[s] = a /\ v.take[o] = b + 1 /\ v.give[s] = c /\ v.give[o] = d
        BY <1>1, <1>2, SpotMoves
    <2> HIDE DEF v
    <2>2. v = Spot(s, a, b + 1, c, d)
        BY <2>1, SpotFour
    <2> QED BY <2>2 DEF v
<1>5. Given(u, s) = Spot(s, a, b, c + 1, d)
    <2> DEFINE v == Given(u, s)
    <2>1. v \in Spots /\ v.take[s] = a /\ v.take[o] = b /\ v.give[s] = c + 1 /\ v.give[o] = d
        BY <1>1, <1>2, SpotMoves
    <2> HIDE DEF v
    <2>2. v = Spot(s, a, b, c + 1, d)
        BY <2>1, SpotFour
    <2> QED BY <2>2 DEF v
<1>6. Given(u, o) = Spot(s, a, b, c, d + 1)
    <2> DEFINE v == Given(u, o)
    <2>1. v \in Spots /\ v.take[s] = a /\ v.take[o] = b /\ v.give[s] = c /\ v.give[o] = d + 1
        BY <1>1, <1>2, SpotMoves
    <2> HIDE DEF v
    <2>2. v = Spot(s, a, b, c, d + 1)
        BY <2>1, SpotFour
    <2> QED BY <2>2 DEF v
<1>7. ASSUME NEW n \in Nat
      PROVE  Forwarded(u, s, n) = Spot(s, OutAt(n), b, c, InAt(n)) /\ Forwarded(u, o, n) = Spot(s, a, OutAt(n), InAt(n), d)
    <2> DEFINE v == Forwarded(u, s, n)
               w == Forwarded(u, o, n)
    <2>0. OutAt(n) \in Nat /\ InAt(n) \in Nat
        BY AtFacts
    <2>1. v \in Spots /\ v.take[s] = OutAt(n) /\ v.take[o] = b /\ v.give[s] = c /\ v.give[o] = InAt(n)
        <3>1. u \in Spots
            BY <1>1
        <3>2. v \in Spots /\ v.take[s] = OutAt(n) /\ v.give[s] = u.give[s]
            BY <3>1, ForwardedIs
        <3>3. v.take[OtherThan(s)] = u.take[OtherThan(s)] /\ v.give[OtherThan(s)] = InAt(n)
            BY <3>1, ForwardedIs
        <3> HIDE DEF v, w
        <3> QED BY <1>1, <3>2, <3>3
    <2>2. w \in Spots /\ w.take[s] = a /\ w.take[o] = OutAt(n) /\ w.give[s] = InAt(n) /\ w.give[o] = d
        <3>1. /\ w \in Spots /\ w.take[o] = OutAt(n) /\ w.take[OtherThan(o)] = u.take[OtherThan(o)]
              /\ w.give[OtherThan(o)] = InAt(n) /\ w.give[o] = u.give[o]
            BY <1>1, <1>2, ForwardedIs, SMTT(30), ZenonT(30)
        <3> HIDE DEF w, o
        <3> QED BY <1>1, <1>2, <3>1
    <2> HIDE DEF v, w
    <2>3. v = Spot(s, OutAt(n), b, c, InAt(n))
        BY <2>0, <2>1, SpotFour
    <2>4. w = Spot(s, a, OutAt(n), InAt(n), d)
        BY <2>0, <2>2, SpotFour
    <2> QED BY <2>3, <2>4 DEF v, w
<1> QED BY <1>3, <1>4, <1>5, <1>6, <1>7 DEF u, o

LEMMA NamedSpots ==
    ASSUME NEW R, IsRound(R), NEW s \in Systems
    PROVE  /\ s = R.first => StartSpot(R) = Spot(s, 1, 0, 0, 0)
           /\ \A b \in Nat : PieceSpot(b) = Spot(s, OutAt(b), OutAt(b), InAt(b), InAt(b))
           /\ s = R.first => GridsDone(R) = Spot(s, OutEnd(R, s), OutEnd(R, OtherThan(s)) - 1, InEnd(R, s), InEnd(R, OtherThan(s)))
           /\ EndSpot(R) = Spot(s, OutEnd(R, s), OutEnd(R, OtherThan(s)), InEnd(R, s), InEnd(R, OtherThan(s)))
<1> DEFINE o == OtherThan(s)
<1>1. o \in Systems /\ o # s
    BY TwoOfThem
<1>2. /\ OutEnd(R, s) \in Nat /\ OutEnd(R, o) \in Nat /\ OutEnd(R, o) - 1 \in Nat
      /\ InEnd(R, s) \in Nat /\ InEnd(R, o) \in Nat
    BY <1>1, OutStream, InStream
<1>3. s = R.first => StartSpot(R) = Spot(s, 1, 0, 0, 0)
    BY DEF StartSpot, Spot
<1>4. ASSUME NEW b \in Nat PROVE PieceSpot(b) = Spot(s, OutAt(b), OutAt(b), InAt(b), InAt(b))
    BY DEF PieceSpot, Spot
<1>5. ASSUME s = R.first PROVE GridsDone(R) = Spot(s, OutEnd(R, s), OutEnd(R, o) - 1, InEnd(R, s), InEnd(R, o))
    <2> DEFINE v == GridsDone(R)
    <2>1. v \in Spots
        BY SpotTypes
    <2>2. v.take[s] = OutEnd(R, s) /\ v.take[o] = OutEnd(R, o) - 1 /\ v.give[s] = InEnd(R, s) /\ v.give[o] = InEnd(R, o)
        BY <1>1, <1>5 DEF GridsDone
    <2> HIDE DEF v
    <2>3. v = Spot(s, OutEnd(R, s), OutEnd(R, o) - 1, InEnd(R, s), InEnd(R, o))
        BY <1>2, <2>1, <2>2, SpotFour
    <2> QED BY <2>3 DEF v
<1>6. EndSpot(R) = Spot(s, OutEnd(R, s), OutEnd(R, o), InEnd(R, s), InEnd(R, o))
    <2> DEFINE v == EndSpot(R)
    <2>1. v \in Spots
        BY SpotTypes
    <2>2. v.take[s] = OutEnd(R, s) /\ v.take[o] = OutEnd(R, o) /\ v.give[s] = InEnd(R, s) /\ v.give[o] = InEnd(R, o)
        BY <1>1 DEF EndSpot
    <2> HIDE DEF v
    <2>3. v = Spot(s, OutEnd(R, s), OutEnd(R, o), InEnd(R, s), InEnd(R, o))
        BY <1>2, <2>1, <2>2, SpotFour
    <2> QED BY <2>3 DEF v
<1> QED BY <1>3, <1>4, <1>5, <1>6

\* The jobs, from place to place.
LEMMA SpotUnasked ==
    ASSUME NEW s \in Systems, NEW a \in Nat, NEW b \in Nat, NEW c \in Nat, NEW d \in Nat,
           a = 0 => c = 0, b = 0 => d = 0
    PROVE  NothingUnasked(Spot(s, a, b, c, d))
BY TwoOfThem DEF NothingUnasked, Spot

LEMMA SendAt ==
    ASSUME NEW R, NEW s \in Systems, NEW text \in Kinds,
           NEW a \in Nat, NEW b \in Nat, NEW c \in Nat, NEW d \in Nat, a = 0 => c = 0, b = 0 => d = 0
    PROVE  /\ a >= 1 /\ InSlot(R, s, c + 1) = TextSlot(text) =>
                Walk(JobEdges(R), SendTo(s, text), Spot(s, a, b, c, d), Spot(s, a, b, c + 1, d))
           /\ b >= 1 /\ InSlot(R, OtherThan(s), d + 1) = TextSlot(text) =>
                Walk(JobEdges(R), SendTo(OtherThan(s), text), Spot(s, a, b, c, d), Spot(s, a, b, c, d + 1))
<1> DEFINE u == Spot(s, a, b, c, d)
           o == OtherThan(s)
<1>1. u \in Spots /\ u.take[s] = a /\ u.give[s] = c /\ u.take[o] = b /\ u.give[o] = d
    <2>1. Stands(u, s, a, b, c, d)
        BY SpotStands
    <2> HIDE DEF u
    <2> QED BY <2>1 DEF Stands
<1>2. NothingUnasked(u) /\ o \in Systems
    BY SpotUnasked, TwoOfThem
<1>3. Given(u, s) = Spot(s, a, b, c + 1, d) /\ Given(u, o) = Spot(s, a, b, c, d + 1)
    BY SpotSteps
<1> HIDE DEF u, o
<1>4. ASSUME a >= 1, InSlot(R, s, c + 1) = TextSlot(text) PROVE Walk(JobEdges(R), SendTo(s, text), u, Given(u, s))
    BY <1>1, <1>2, <1>4, SendJob
<1>5. ASSUME b >= 1, InSlot(R, o, d + 1) = TextSlot(text) PROVE Walk(JobEdges(R), SendTo(o, text), u, Given(u, o))
    BY <1>1, <1>2, <1>5, SendJob
<1> QED BY <1>3, <1>4, <1>5 DEF u, o

LEMMA ExpectAt ==
    ASSUME NEW R, NEW s \in Systems, NEW text \in Kinds,
           NEW a \in Nat, NEW b \in Nat, NEW c \in Nat, NEW d \in Nat, a = 0 => c = 0, b = 0 => d = 0
    PROVE  /\ OutSlot(R, s, a + 1) = TextSlot(text) =>
                Walk(JobEdges(R), Expect(s, text), Spot(s, a, b, c, d), Spot(s, a + 1, b, c, d))
           /\ OutSlot(R, OtherThan(s), b + 1) = TextSlot(text) =>
                Walk(JobEdges(R), Expect(OtherThan(s), text), Spot(s, a, b, c, d), Spot(s, a, b + 1, c, d))
<1> DEFINE u == Spot(s, a, b, c, d)
           o == OtherThan(s)
<1>1. u \in Spots /\ u.take[s] = a /\ u.give[s] = c /\ u.take[o] = b /\ u.give[o] = d
    <2>1. Stands(u, s, a, b, c, d)
        BY SpotStands
    <2> HIDE DEF u
    <2> QED BY <2>1 DEF Stands
<1>2. NothingUnasked(u) /\ o \in Systems
    BY SpotUnasked, TwoOfThem
<1>3. Taken(u, s) = Spot(s, a + 1, b, c, d) /\ Taken(u, o) = Spot(s, a, b + 1, c, d)
    BY SpotSteps
<1> HIDE DEF u, o
<1>4. ASSUME OutSlot(R, s, a + 1) = TextSlot(text) PROVE Walk(JobEdges(R), Expect(s, text), u, Taken(u, s))
    BY <1>1, <1>2, <1>4, ExpectJob
<1>5. ASSUME OutSlot(R, o, b + 1) = TextSlot(text) PROVE Walk(JobEdges(R), Expect(o, text), u, Taken(u, o))
    BY <1>1, <1>2, <1>5, ExpectJob
<1> QED BY <1>3, <1>4, <1>5 DEF u, o

LEMMA ForwardAt ==
    ASSUME NEW R, IsRound(R), NEW s \in Systems, NEW n \in Nat,
           NEW a \in Nat, NEW b \in Nat, NEW c \in Nat, NEW d \in Nat
    PROVE  /\ n < Transfers(R, s) /\ b >= 1 /\ a = OutAt(n) + 1 /\ d = InAt(n) =>
                Walk(JobEdges(R), ForwardData(s), Spot(s, a, b, c, d), Spot(s, OutAt(n + 1), b, c, InAt(n + 1)))
           /\ n < Transfers(R, OtherThan(s)) /\ a >= 1 /\ b = OutAt(n) + 1 /\ c = InAt(n) =>
                Walk(JobEdges(R), ForwardData(OtherThan(s)), Spot(s, a, b, c, d), Spot(s, a, OutAt(n + 1), InAt(n + 1), d))
<1> DEFINE u == Spot(s, a, b, c, d)
           o == OtherThan(s)
           m == n + 1
<1>1. u \in Spots /\ u.take[s] = a /\ u.give[s] = c /\ u.take[o] = b /\ u.give[o] = d
    <2>1. Stands(u, s, a, b, c, d)
        BY SpotStands
    <2> HIDE DEF u
    <2> QED BY <2>1 DEF Stands
<1>2. o \in Systems /\ OtherThan(o) = s /\ m \in Nat
    BY TwoOfThem
<1>3. Forwarded(u, s, m) = Spot(s, OutAt(m), b, c, InAt(m)) /\ Forwarded(u, o, m) = Spot(s, a, OutAt(m), InAt(m), d)
    BY <1>2, SpotSteps
<1>4. Transfers(R, s) \in Nat /\ Transfers(R, o) \in Nat
    BY <1>2, TransfersNat
<1> HIDE DEF u, o
<1>5. ASSUME n < Transfers(R, s), b >= 1, a = OutAt(n) + 1, d = InAt(n)
      PROVE  Walk(JobEdges(R), ForwardData(s), u, Forwarded(u, s, n + 1))
    <2>1. n \in 0..(Transfers(R, s) - 1)
        BY <1>4, <1>5
    <2>2. u.take[s] = OutAt(n) + 1 /\ u.give[OtherThan(s)] = InAt(n) /\ u.take[OtherThan(s)] >= 1
        BY <1>1, <1>5 DEF o
    <2> QED BY <1>1, <2>1, <2>2, ForwardRoad
<1>6. ASSUME n < Transfers(R, o), a >= 1, b = OutAt(n) + 1, c = InAt(n)
      PROVE  Walk(JobEdges(R), ForwardData(o), u, Forwarded(u, o, n + 1))
    <2>1. n \in 0..(Transfers(R, o) - 1)
        BY <1>4, <1>6
    <2>2. u.take[o] = OutAt(n) + 1 /\ u.give[OtherThan(o)] = InAt(n) /\ u.take[OtherThan(o)] >= 1
        BY <1>1, <1>2, <1>6
    <2> QED BY <1>1, <1>2, <2>1, <2>2, ForwardRoad
<1> QED BY <1>3, <1>5, <1>6 DEF u, o, m

\* Both systems are asked, and told their roles.
LEMMA OpenRoad ==
    ASSUME NEW R, IsRound(R), R.what # "file"
    PROVE  Walk(JobEdges(R), Open(R.first, OtherThan(R.first), RequestFor(R.what)), StartSpot(R), PieceSpot(0))
<1> DEFINE i == R.first
           o == OtherThan(i)
           E == JobEdges(R)
           request == RequestFor(R.what)
<1>1. i \in Systems /\ o \in Systems /\ o # i
    BY TwoOfThem DEF IsRound
<1>2. request \in Kinds /\ "send_first" \in Kinds /\ "recv_first" \in Kinds
    BY RoundWhat DEF Whats, RequestFor, Kinds, Requests, Instructions
<1>3. /\ InSlot(R, i, 0 + 1) = TextSlot("send_first") /\ InSlot(R, o, 0 + 1) = TextSlot("recv_first")
      /\ OutSlot(R, o, 0 + 1) = TextSlot(request)
    <2>1. Instruction(R, i) = "send_first" /\ Instruction(R, o) = "recv_first" /\ 0 + 1 = 1
        BY <1>1 DEF Instruction
    <2>2. InSlot(R, i, 1) = TextSlot(Instruction(R, i)) /\ InSlot(R, o, 1) = TextSlot(Instruction(R, o))
        BY <1>1, InStream
    <2>3. OutSlot(R, o, 1) = TextSlot(request)
        BY <1>1, OutStream
    <2> QED BY <2>1, <2>2, <2>3
<1>4. StartSpot(R) = Spot(i, 1, 0, 0, 0) /\ PieceSpot(0) = Spot(i, 1, 1, 1, 1)
    <2>1. PieceSpot(0) = Spot(i, OutAt(0), OutAt(0), InAt(0), InAt(0)) /\ StartSpot(R) = Spot(i, 1, 0, 0, 0)
        BY <1>1, NamedSpots
    <2> QED BY <2>1, AtFacts
<1> HIDE DEF i, E, request
<1>5. Walk(E, SendTo(i, "send_first"), Spot(i, 1, 0, 0, 0), Spot(i, 1, 0, 1, 0))
    <2>1. Walk(E, SendTo(i, "send_first"), Spot(i, 1, 0, 0, 0), Spot(i, 1, 0, 0 + 1, 0))
        BY <1>1, <1>2, <1>3, SendAt DEF E
    <2> QED BY <2>1
<1>6. Walk(E, Expect(o, request), Spot(i, 1, 0, 1, 0), Spot(i, 1, 1, 1, 0))
    <2>1. Walk(E, Expect(o, request), Spot(i, 1, 0, 1, 0), Spot(i, 1, 0 + 1, 1, 0))
        BY <1>1, <1>2, <1>3, ExpectAt DEF E
    <2> QED BY <2>1
<1>7. Walk(E, SendTo(o, "recv_first"), Spot(i, 1, 1, 1, 0), Spot(i, 1, 1, 1, 1))
    <2>1. Walk(E, SendTo(o, "recv_first"), Spot(i, 1, 1, 1, 0), Spot(i, 1, 1, 1, 0 + 1))
        BY <1>1, <1>2, <1>3, SendAt DEF E
    <2> QED BY <2>1
<1>8. Walk(E, Open(i, o, request), Spot(i, 1, 0, 0, 0), Spot(i, 1, 1, 1, 1))
    <2>1. Walk(E, SendTo(i, "send_first") \o Expect(o, request), Spot(i, 1, 0, 0, 0), Spot(i, 1, 1, 1, 0))
        BY <1>5, <1>6, WalkConcat
    <2>2. Walk(E, (SendTo(i, "send_first") \o Expect(o, request)) \o SendTo(o, "recv_first"), Spot(i, 1, 0, 0, 0), Spot(i, 1, 1, 1, 1))
        BY <1>7, <2>1, WalkConcat
    <2> QED BY <2>2 DEF Open
<1> QED BY <1>4, <1>8 DEF i, E, request

\* How many messages the operations exchange.
LEMMA Ends ==
    ASSUME NEW R, IsRound(R), NEW s \in Systems
    PROVE  /\ OutEnd(R, s) = OutAt(Transfers(R, s)) + 1
           /\ InEnd(R, OtherThan(s)) = InAt(Transfers(R, s)) /\ InEnd(R, s) = InAt(Transfers(R, OtherThan(s)))
           /\ OutEnd(R, s) - 1 = OutAt(Transfers(R, s)) /\ Transfers(R, s) \in Nat
           /\ OutAt(0) = 1 /\ InAt(0) = 1
           /\ \A n \in Nat : OutAt(n) \in Nat /\ OutAt(n) >= 1 /\ InAt(n) \in Nat /\ InAt(n) >= 1
           /\ OutSlot(R, s, OutAt(Transfers(R, s)) + 1) = TextSlot("ready")
           /\ \A n \in Nat : n < Transfers(R, s) => OutSlot(R, s, OutAt(n) + 1) = TextSlot("sending_data")
<1>1. OtherThan(OtherThan(s)) = s /\ Transfers(R, s) \in Nat
    BY TwoOfThem, TransfersNat
<1>2. /\ OutAt(0) = 1 /\ InAt(0) = 1
      /\ \A n \in Nat : OutAt(n) \in Nat /\ OutAt(n) >= 1 /\ InAt(n) \in Nat /\ InAt(n) >= 1
    BY AtFacts
<1>3. OutEnd(R, s) = OutAt(Transfers(R, s)) + 1 /\ OutEnd(R, s) - 1 = OutAt(Transfers(R, s))
    BY <1>1, <1>2 DEF OutEnd
<1>4. InEnd(R, OtherThan(s)) = InAt(Transfers(R, s)) /\ InEnd(R, s) = InAt(Transfers(R, OtherThan(s)))
    BY <1>1 DEF InEnd
<1>5. OutSlot(R, s, OutAt(Transfers(R, s)) + 1) = TextSlot("ready")
    BY <1>3, OutStream
<1>6. ASSUME NEW n \in Nat, n < Transfers(R, s) PROVE OutSlot(R, s, OutAt(n) + 1) = TextSlot("sending_data")
    <2>1. n \in 0..(Transfers(R, s) - 1)
        BY <1>1, <1>6
    <2> QED BY <2>1, OutStream
<1> QED BY <1>1, <1>2, <1>3, <1>4, <1>5, <1>6

LEMMA AnyPair == ASSUME NEW x, NEW y PROVE <<x, y>> = <<x>> \o <<y>>
<1> DEFINE q == <<x>>
           r == <<y>>
           t == <<x, y>>
<1>1. AnySeq(r) /\ Len(r) = 1 /\ r[1] = y
    BY AnyOne
<1>2. t \in Seq({x, y}) /\ Len(t) = 2 /\ t[1] = x /\ t[2] = y
    OBVIOUS
<1> HIDE DEF r, t
<1>3. AnySeq(t)
    BY <1>2 DEF AnySeq
<1>4. /\ AnySeq(q \o r) /\ Len(q \o r) = Len(r) + 1
      /\ (q \o r)[1] = x /\ \A n \in 1..Len(r) : (q \o r)[n + 1] = r[n]
    BY <1>1, AnyCons
<1> HIDE DEF q
<1>5. \A n \in 1..Len(t) : t[n] = (q \o r)[n]
    <2>1. (q \o r)[1 + 1] = r[1]
        BY <1>1, <1>4
    <2> QED BY <1>1, <1>2, <1>4, <2>1
<1>6. t = q \o r
    BY <1>1, <1>2, <1>3, <1>4, <1>5, AnyEqual
<1> QED BY <1>6 DEF q, r, t

\* One transfer, and one back.
LEMMA MiddleSpots ==
    ASSUME NEW i \in Systems, NEW m, m = Spot(i, OutAt(1), 1, 1, InAt(1)),
           NEW e, e = Spot(i, OutAt(1), OutAt(1), InAt(1), InAt(1))
    PROVE  /\ m \in Spots /\ NothingUnasked(m) /\ e \in Spots /\ NothingUnasked(e)
           /\ m.take[i] = OutAt(1) /\ m.take[OtherThan(i)] = 1 /\ m.give[i] = 1 /\ m.give[OtherThan(i)] = InAt(1)
           /\ e = Forwarded(m, OtherThan(i), 1)
<1> DEFINE p == OutAt(1)
           q == InAt(1)
<1>1. p \in Nat /\ q \in Nat /\ p # 0
    BY AtFacts
<1>2. e = Forwarded(m, OtherThan(i), 1)
    BY <1>1, SpotSteps
<1> DEFINE one == 1
<1>3. m = Spot(i, p, one, one, q) /\ e = Spot(i, p, p, q, q) /\ one \in Nat /\ one # 0
    OBVIOUS
<1> HIDE DEF p, q, one
<1>4. m \in Spots /\ m.take[i] = p /\ m.take[OtherThan(i)] = one /\ m.give[i] = one /\ m.give[OtherThan(i)] = q
    <2>1. Stands(m, i, p, one, one, q)
        BY <1>1, <1>3, SpotStands
    <2> QED BY <2>1 DEF Stands
<1>5. e \in Spots
    BY <1>1, <1>3, SpotIs
<1>6. NothingUnasked(m) /\ NothingUnasked(e)
    BY ONLY i \in Systems, <1>1, <1>3, SpotUnasked
<1> QED BY <1>2, <1>4, <1>5, <1>6 DEF p, q, one

\* Both are ready.
LEMMA ReadyRoad ==
    ASSUME NEW R, IsRound(R), NEW s \in Systems
    PROVE  /\ Walk(JobEdges(R), Expect(s, "ready") \o Expect(OtherThan(s), "ready"),
                   Spot(s, OutEnd(R, s) - 1, OutEnd(R, OtherThan(s)) - 1, InEnd(R, s), InEnd(R, OtherThan(s))), EndSpot(R))
           /\ Walk(JobEdges(R), Expect(OtherThan(s), "ready"),
                   Spot(s, OutEnd(R, s), OutEnd(R, OtherThan(s)) - 1, InEnd(R, s), InEnd(R, OtherThan(s))), EndSpot(R))
           /\ Walk(JobEdges(R), Expect(OtherThan(s), "ready") \o Expect(s, "ready"),
                   Spot(s, OutEnd(R, s) - 1, OutEnd(R, OtherThan(s)) - 1, InEnd(R, s), InEnd(R, OtherThan(s))), EndSpot(R))
<1> DEFINE o == OtherThan(s)
           E == JobEdges(R)
           a == OutEnd(R, s) - 1
           b == OutEnd(R, o) - 1
           c == InEnd(R, s)
           d == InEnd(R, o)
<1>1. o \in Systems
    BY TwoOfThem
<1>2. /\ a \in Nat /\ a >= 1 /\ b \in Nat /\ b >= 1 /\ c \in Nat /\ d \in Nat /\ a # 0 /\ b # 0
      /\ OutEnd(R, s) = a + 1 /\ OutEnd(R, o) = b + 1
    BY <1>1, OutStream, InStream
<1>3. OutSlot(R, s, a + 1) = TextSlot("ready") /\ OutSlot(R, o, b + 1) = TextSlot("ready") /\ "ready" \in Kinds
    <2>1. OutSlot(R, s, OutEnd(R, s)) = TextSlot("ready") /\ OutSlot(R, o, OutEnd(R, o)) = TextSlot("ready")
        BY <1>1, OutStream
    <2> HIDE DEF a, b
    <2> QED BY <1>2, <2>1 DEF Kinds
<1>4. EndSpot(R) = Spot(s, a + 1, b + 1, c, d)
    <2>1. EndSpot(R) = Spot(s, OutEnd(R, s), OutEnd(R, o), c, d)
        BY NamedSpots
    <2> HIDE DEF a, b, c, d
    <2> QED BY <1>2, <2>1
<1> HIDE DEF o, a, b, c, d, E
<1>5. Walk(E, Expect(s, "ready"), Spot(s, a, b, c, d), Spot(s, a + 1, b, c, d))
    BY <1>2, <1>3, ExpectAt, ZenonT(30) DEF E
<1>6. Walk(E, Expect(o, "ready"), Spot(s, a + 1, b, c, d), Spot(s, a + 1, b + 1, c, d))
    <2>1. a + 1 \in Nat /\ a + 1 # 0
        BY <1>2
    <2> QED BY <1>2, <1>3, <2>1, ExpectAt DEF E, o
<1>7. Walk(E, Expect(o, "ready"), Spot(s, a, b, c, d), Spot(s, a, b + 1, c, d))
    BY <1>2, <1>3, ExpectAt DEF E, o
<1>8. Walk(E, Expect(s, "ready"), Spot(s, a, b + 1, c, d), Spot(s, a + 1, b + 1, c, d))
    <2>1. b + 1 \in Nat /\ b + 1 # 0
        BY <1>2
    <2> QED BY <1>2, <1>3, <2>1, ExpectAt, ZenonT(30) DEF E
<1>9. /\ Walk(E, Expect(s, "ready") \o Expect(o, "ready"), Spot(s, a, b, c, d), EndSpot(R))
      /\ Walk(E, Expect(o, "ready") \o Expect(s, "ready"), Spot(s, a, b, c, d), EndSpot(R))
    BY <1>4, <1>5, <1>6, <1>7, <1>8, WalkConcat
<1>10. Walk(E, Expect(o, "ready"), Spot(s, OutEnd(R, s), b, c, d), EndSpot(R))
    BY <1>2, <1>4, <1>6
<1> QED BY <1>9, <1>10 DEF o, a, b, c, d, E

\* The operations of the broker that open.
LEMMA OpenedRoad ==
    ASSUME NEW R, IsRound(R), R.what # "file"
    PROVE  Walk(JobEdges(R), Operation(RequestFor(R.what), R.first, OtherThan(R.first)), StartSpot(R), EndSpot(R))
<1> DEFINE i == R.first
           o == OtherThan(i)
           E == JobEdges(R)
           open == Open(i, o, RequestFor(R.what))
<1>1. i \in Systems /\ o \in Systems /\ o # i
    BY TwoOfThem DEF IsRound
<1>2. Walk(E, open, StartSpot(R), Spot(i, 1, 1, 1, 1))
    <2>1. PieceSpot(0) = Spot(i, OutAt(0), OutAt(0), InAt(0), InAt(0))
        BY <1>1, NamedSpots
    <2> QED BY <2>1, AtFacts, OpenRoad
<1>3. /\ OutEnd(R, i) = OutAt(Transfers(R, i)) + 1 /\ OutEnd(R, o) = OutAt(Transfers(R, o)) + 1
      /\ OutEnd(R, i) - 1 = OutAt(Transfers(R, i)) /\ OutEnd(R, o) - 1 = OutAt(Transfers(R, o))
      /\ InEnd(R, i) = InAt(Transfers(R, o)) /\ InEnd(R, o) = InAt(Transfers(R, i))
      /\ Transfers(R, i) \in Nat /\ Transfers(R, o) \in Nat /\ OutAt(0) = 1 /\ InAt(0) = 1
      /\ \A n \in Nat : OutAt(n) \in Nat /\ OutAt(n) >= 1 /\ InAt(n) \in Nat /\ InAt(n) >= 1
    <2>1. /\ OutEnd(R, i) = OutAt(Transfers(R, i)) + 1 /\ OutEnd(R, i) - 1 = OutAt(Transfers(R, i))
          /\ InEnd(R, i) = InAt(Transfers(R, o)) /\ Transfers(R, i) \in Nat /\ OutAt(0) = 1 /\ InAt(0) = 1
          /\ \A n \in Nat : OutAt(n) \in Nat /\ OutAt(n) >= 1 /\ InAt(n) \in Nat /\ InAt(n) >= 1
          /\ InEnd(R, o) = InAt(Transfers(R, i))
        BY <1>1, Ends
    <2>2. OutEnd(R, o) = OutAt(Transfers(R, o)) + 1 /\ OutEnd(R, o) - 1 = OutAt(Transfers(R, o)) /\ Transfers(R, o) \in Nat
        BY <1>1, Ends
    <2> QED BY <2>1, <2>2
<1>4. Spot(i, 1, 1, 1, 1) \in Spots /\ EndSpot(R) \in Spots
    <2>1. Spot(i, 1, 1, 1, 1) \in Spots
        BY <1>1, SpotIs
    <2> QED BY <2>1, SpotTypes
<1>5. NothingUnasked(EndSpot(R))
    BY OutStream DEF NothingUnasked, EndSpot
<1>6. CASE R.what = "grid"
    <2> DEFINE x == Job("grids", i, "")
    <2>1. RequestFor(R.what) = "ready_to_combine"
        BY <1>6 DEF RequestFor
    <2>2. Operation(RequestFor(R.what), i, o) = (open \o <<x>>) \o Expect(o, "ready")
        BY <2>1 DEF Operation
    <2>3. x \in Jobs /\ x.do = "grids" /\ x.sys = i
        BY <1>1 DEF Job, Jobs
    <2>4. GridsDone(R) \in Spots /\ NothingUnasked(GridsDone(R))
        <3>1. \A s \in Systems : OutEnd(R, s) - 1 # 0 /\ OutEnd(R, s) # 0
            BY OutStream
        <3>2. NothingUnasked(GridsDone(R))
            BY <3>1 DEF NothingUnasked, GridsDone
        <3> QED BY <3>2, SpotTypes
    <2>5. Spot(i, 1, 1, 1, 1) = PieceSpot(0) /\ 0 \in 0..NumPieces
        <3>1. PieceSpot(0) = Spot(i, OutAt(0), OutAt(0), InAt(0), InAt(0))
            BY <1>1, NamedSpots
        <3> QED BY <1>3, <3>1, ThirdLevelAssumption
    <2>6. JobEdge(R, x, Spot(i, 1, 1, 1, 1), GridsDone(R))
        BY <1>6, <2>3, <2>5 DEF JobEdge
    <2>7. Walk(E, <<x>>, Spot(i, 1, 1, 1, 1), GridsDone(R))
        BY <1>4, <2>3, <2>4, <2>6, IsJobEdge, WalkOne
    <2>8. GridsDone(R) = Spot(i, OutEnd(R, i), OutEnd(R, o) - 1, InEnd(R, i), InEnd(R, o))
        BY <1>1, NamedSpots
    <2>9. Walk(E, Expect(o, "ready"), GridsDone(R), EndSpot(R))
        BY <1>1, <2>8, ReadyRoad
    <2> HIDE DEF open, E, i, o, x
    <2> QED BY <1>2, <2>2, <2>7, <2>9, WalkConcat DEF E, i, o
<1>7. CASE R.what \in {"sizes", "coords", "values"}
    <2> DEFINE x == Job("optional", i, "")
               mid == Spot(i, OutAt(1), 1, 1, InAt(1))
    <2>1. Transfers(R, i) = 1
        BY <1>7 DEF Transfers
    <2>2. x \in Jobs /\ x.do = "optional" /\ x.sys = i
        BY <1>1 DEF Job, Jobs
    <2>3. mid \in Spots /\ NothingUnasked(mid)
          /\ mid.take[i] = OutAt(1) /\ mid.take[o] = 1 /\ mid.give[i] = 1 /\ mid.give[o] = InAt(1)
        BY <1>1, MiddleSpots
    <2>4. Walk(E, <<x>>, Spot(i, 1, 1, 1, 1), mid)
        <3> DEFINE u == Spot(i, 1, 1, 1, 1)
        <3>1. u \in Spots /\ u.take[i] = 1 /\ u.take[o] = 1 /\ u.give[i] = 1 /\ u.give[o] = 1
            BY <1>1, SpotIs
        <3>2. mid = Forwarded(u, i, 1)
            BY <1>1, SpotSteps
        <3> HIDE DEF u, mid
        <3>3. mid = [take |-> [u.take EXCEPT ![i] = OutAt(1)], give |-> [u.give EXCEPT ![o] = InAt(1)]]
            BY <3>2 DEF Forwarded
        <3>4. JobEdge(R, x, u, mid)
            <4> HIDE DEF x
            <4>1. /\ x.do = "optional" /\ x.sys = i /\ OtherThan(x.sys) = o /\ Transfers(R, i) = 1
                  /\ u.take[i] = OutAt(0) /\ u.give[o] = InAt(0) /\ u.take[o] >= 1
                BY <1>3, <2>1, <2>2, <3>1
            <4> QED BY <3>3, <4>1 DEF JobEdge
        <3>5. Walk(E, <<x>>, u, mid)
            BY <2>2, <2>3, <3>1, <3>4, IsJobEdge, WalkOne
        <3> QED BY <3>5 DEF u
    <2>5. CASE R.what = "sizes"
        <3> DEFINE y == Job("optional", o, "")
                   end == Spot(i, OutAt(1), OutAt(1), InAt(1), InAt(1))
        <3>1. RequestFor(R.what) = "ready_to_unify_subspace_sizes" /\ Transfers(R, o) = 1
            BY <2>5 DEF RequestFor, Transfers
        <3>2. Operation(RequestFor(R.what), i, o) = ((open \o <<x, y>>) \o Expect(i, "ready")) \o Expect(o, "ready")
            BY <3>1 DEF Operation
        <3>3. y \in Jobs /\ y.do = "optional" /\ y.sys = o
            BY <1>1 DEF Job, Jobs
        <3>4. end \in Spots /\ NothingUnasked(end) /\ end = Forwarded(mid, o, 1)
            BY <1>1, MiddleSpots
        <3>5. Walk(E, <<y>>, mid, end)
            <4> HIDE DEF mid, end
            <4>3. end = [take |-> [mid.take EXCEPT ![o] = OutAt(1)], give |-> [mid.give EXCEPT ![i] = InAt(1)]] /\ OtherThan(o) = i
                BY <1>1, <3>4, TwoOfThem DEF Forwarded
            <4>4. OutAt(1) >= 1
                BY <1>3
            <4>5. JobEdge(R, y, mid, end)
                BY <1>3, <2>3, <3>1, <3>3, <4>3, <4>4 DEF JobEdge
            <4> QED BY <2>3, <3>3, <3>4, <4>5, IsJobEdge, WalkOne
        <3>6. Walk(E, Expect(i, "ready") \o Expect(o, "ready"), end, EndSpot(R))
            <4>1. end = Spot(i, OutEnd(R, i) - 1, OutEnd(R, o) - 1, InEnd(R, i), InEnd(R, o))
                BY <1>3, <2>1, <3>1
            <4> QED BY <1>1, <4>1, ReadyRoad
        <3>7. <<x, y>> = <<x>> \o <<y>>
            BY AnyPair
        <3>8. Walk(E, <<x, y>>, Spot(i, 1, 1, 1, 1), end)
            <4> HIDE DEF x, y, mid, end, E
            <4> QED BY <2>4, <3>5, <3>7, WalkConcat
        <3> DEFINE pair == <<x, y>>
                   ei == Expect(i, "ready")
                   eo == Expect(o, "ready")
        <3>9. AnySeq(ei) /\ AnySeq(eo)
            BY AnyOne DEF Expect
        <3>10. Walk(E, pair, Spot(i, 1, 1, 1, 1), end)
            BY <3>8
        <3> HIDE DEF open, E, i, o, x, y, end, mid, pair, ei, eo
        <3>11. Walk(E, open \o pair, StartSpot(R), end)
            BY <1>2, <3>10, WalkConcat
        <3>12. Walk(E, (open \o pair) \o (ei \o eo), StartSpot(R), EndSpot(R))
            BY <3>6, <3>11, WalkConcat DEF ei, eo
        <3>13. AnySeq(open \o pair)
            BY <3>11 DEF Walk
        <3>14. ((open \o pair) \o ei) \o eo = (open \o pair) \o (ei \o eo)
            BY <3>9, <3>13, AnyAssociative
        <3> QED BY <3>2, <3>12, <3>14 DEF E, i, o, pair, ei, eo
    <2>6. CASE R.what \in {"coords", "values"}
        <3> DEFINE y == Job("sendBack", o, "")
        <3>1. RequestFor(R.what) = "ready_to_exchange_data" /\ Transfers(R, o) \in {0, 1}
            BY <2>6 DEF RequestFor, Transfers
        <3>2. Operation(RequestFor(R.what), i, o) = open \o <<x, y>>
            BY <3>1 DEF Operation
        <3>3. y \in Jobs /\ y.do = "sendBack" /\ y.sys = o
            BY <1>1 DEF Job, Jobs
        <3> HIDE DEF mid
        <3>5. JobEdge(R, y, mid, EndSpot(R))
            <4>1. OtherThan(o) = i
                BY <1>1, TwoOfThem
            <4> QED BY <1>1, <1>3, <2>1, <2>3, <3>1, <3>3, <4>1 DEF JobEdge
        <3>6. Walk(E, <<y>>, mid, EndSpot(R))
            BY <1>4, <1>5, <2>3, <3>3, <3>5, IsJobEdge, WalkOne
        <3>7. <<x, y>> = <<x>> \o <<y>>
            BY AnyPair
        <3> HIDE DEF open, E, i, o, x, y
        <3>8. Walk(E, <<x>> \o <<y>>, Spot(i, 1, 1, 1, 1), EndSpot(R))
            BY <2>4, <3>6, WalkConcat
        <3>9. Walk(E, open \o (<<x>> \o <<y>>), StartSpot(R), EndSpot(R))
            BY <1>2, <3>8, WalkConcat
        <3> QED BY <3>2, <3>7, <3>9 DEF E, i, o
    <2> QED BY <1>7, <2>5, <2>6
<1> QED BY <1>6, <1>7, RoundWhat DEF Whats

LEMMA FileRoad ==
    ASSUME NEW R, IsRound(R), R.what = "file"
    PROVE  Walk(JobEdges(R), Operation(RequestFor(R.what), R.first, OtherThan(R.first)), StartSpot(R), EndSpot(R))
<1> DEFINE i == R.first
           o == OtherThan(i)
           E == JobEdges(R)
           tell == SendTo(i, "write_ok")
           ask == Expect(o, "ready_to_combine_file")
           tell2 == SendTo(o, "write_ok")
           ei == Expect(i, "ready")
           eo == Expect(o, "ready")
<1>1. i \in Systems /\ o \in Systems /\ o # i
    BY TwoOfThem DEF IsRound
<1>2. RequestFor(R.what) = "ready_to_combine_file" /\ "ready_to_combine_file" \in Kinds /\ "write_ok" \in Kinds
    BY DEF RequestFor, Kinds, Requests, Instructions
<1>3. /\ InSlot(R, i, 0 + 1) = TextSlot("write_ok") /\ InSlot(R, o, 0 + 1) = TextSlot("write_ok")
      /\ OutSlot(R, o, 0 + 1) = TextSlot("ready_to_combine_file")
    <2>1. Instruction(R, i) = "write_ok" /\ Instruction(R, o) = "write_ok" /\ 0 + 1 = 1
        BY <1>1 DEF Instruction
    <2>2. InSlot(R, i, 1) = TextSlot(Instruction(R, i)) /\ InSlot(R, o, 1) = TextSlot(Instruction(R, o))
        BY <1>1, InStream
    <2>3. OutSlot(R, o, 1) = TextSlot("ready_to_combine_file")
        BY <1>1, <1>2, OutStream
    <2> QED BY <2>1, <2>2, <2>3
<1>4. StartSpot(R) = Spot(i, 1, 0, 0, 0)
    BY <1>1, NamedSpots
<1>5. Spot(i, OutEnd(R, i) - 1, OutEnd(R, o) - 1, InEnd(R, i), InEnd(R, o)) = Spot(i, 1, 1, 1, 1)
    <2>1. Transfers(R, i) = 0 /\ Transfers(R, o) = 0
        BY DEF Transfers
    <2>2. OutEnd(R, i) - 1 = OutAt(0) /\ InEnd(R, o) = InAt(0) /\ OutAt(0) = 1 /\ InAt(0) = 1
        BY <1>1, <2>1, Ends
    <2>3. OutEnd(R, o) - 1 = OutAt(0) /\ InEnd(R, OtherThan(o)) = InAt(0)
        BY <1>1, <2>1, Ends
    <2>4. OtherThan(o) = i
        BY <1>1, TwoOfThem
    <2> QED BY <2>2, <2>3, <2>4
<1>6. Operation(RequestFor(R.what), i, o) = (((tell \o ask) \o tell2) \o ei) \o eo
    BY <1>2 DEF Operation
<1>7. AnySeq(ei) /\ AnySeq(eo)
    BY AnyOne DEF Expect
<1>8. Walk(E, ei \o eo, Spot(i, 1, 1, 1, 1), EndSpot(R))
    <2>1. Walk(E, ei \o eo, Spot(i, OutEnd(R, i) - 1, OutEnd(R, o) - 1, InEnd(R, i), InEnd(R, o)), EndSpot(R))
        BY <1>1, ReadyRoad
    <2> QED BY <1>5, <2>1
<1> HIDE DEF i, E
<1>9. Walk(E, tell, Spot(i, 1, 0, 0, 0), Spot(i, 1, 0, 1, 0))
    <2>1. Walk(E, SendTo(i, "write_ok"), Spot(i, 1, 0, 0, 0), Spot(i, 1, 0, 0 + 1, 0))
        BY <1>1, <1>2, <1>3, SendAt DEF E
    <2> QED BY <2>1
<1>10. Walk(E, ask, Spot(i, 1, 0, 1, 0), Spot(i, 1, 1, 1, 0))
    <2>1. Walk(E, Expect(o, "ready_to_combine_file"), Spot(i, 1, 0, 1, 0), Spot(i, 1, 0 + 1, 1, 0))
        BY <1>1, <1>2, <1>3, ExpectAt DEF E
    <2> QED BY <2>1
<1>11. Walk(E, tell2, Spot(i, 1, 1, 1, 0), Spot(i, 1, 1, 1, 1))
    <2>1. Walk(E, SendTo(o, "write_ok"), Spot(i, 1, 1, 1, 0), Spot(i, 1, 1, 1, 0 + 1))
        BY <1>1, <1>2, <1>3, SendAt DEF E
    <2> QED BY <2>1
<1> HIDE DEF tell, ask, tell2, ei, eo
<1>12. Walk(E, tell \o ask, Spot(i, 1, 0, 0, 0), Spot(i, 1, 1, 1, 0))
    BY <1>9, <1>10, WalkConcat
<1>13. Walk(E, (tell \o ask) \o tell2, Spot(i, 1, 0, 0, 0), Spot(i, 1, 1, 1, 1))
    BY <1>11, <1>12, WalkConcat
<1>14. Walk(E, ((tell \o ask) \o tell2) \o (ei \o eo), Spot(i, 1, 0, 0, 0), EndSpot(R))
    BY <1>8, <1>13, WalkConcat
<1>15. AnySeq((tell \o ask) \o tell2)
    BY <1>13 DEF Walk
<1>16. (((tell \o ask) \o tell2) \o ei) \o eo = ((tell \o ask) \o tell2) \o (ei \o eo)
    BY <1>7, <1>15, AnyAssociative
<1> QED BY <1>4, <1>6, <1>14, <1>16 DEF i, E

\* What the broker does about a request leads it to the end of the round.
LEMMA OperationRoad ==
    ASSUME NEW R, IsRound(R)
    PROVE  Walk(JobEdges(R), Operation(RequestFor(R.what), R.first, OtherThan(R.first)), StartSpot(R), EndSpot(R))
BY FileRoad, OpenedRoad

\* What is left of an operation when the message it waits for is taken.
After(q, text) ==
    LET x == Head(q)
        s == x.sys
        o == OtherThan(s)
    IN  CASE x.do = "grids" /\ text # "ready" ->
                ForwardData(s) \o Expect(o, "sending_data") \o ForwardData(o) \o q
          [] x.do = "optional" /\ text = "sending_data" -> ForwardData(s) \o Tail(q)
          [] x.do = "sendBack" /\ text = "sending_data" ->
                ForwardData(s) \o Expect(o, "ready") \o Expect(s, "ready")
          [] x.do = "sendBack" /\ text # "sending_data" -> Expect(o, "ready")
          [] OTHER -> Tail(q)

LEMMA AnySplit ==
    ASSUME NEW q, AnySeq(q), q # <<>>
    PROVE  q = <<Head(q)>> \o Tail(q)
<1> DEFINE x == Head(q)
           t == Tail(q)
<1>1. AnySeq(t) /\ Len(q) \in Nat /\ Len(q) > 0 /\ Len(t) = Len(q) - 1 /\ x = q[1] /\ \A n \in 1..(Len(q) - 1) : t[n] = q[n + 1]
    BY AnyTail
<1> HIDE DEF x, t
<1>2. AnySeq(<<x>> \o t) /\ Len(<<x>> \o t) = Len(t) + 1 /\ (<<x>> \o t)[1] = x /\ \A n \in 1..Len(t) : (<<x>> \o t)[n + 1] = t[n]
    BY <1>1, AnyCons
<1> DEFINE r == <<x>> \o t
<1> HIDE DEF r
<1>3. AnySeq(r) /\ Len(r) = Len(q) /\ r[1] = q[1] /\ \A n \in 1..(Len(q) - 1) : r[n + 1] = q[n + 1]
    BY <1>1, <1>2 DEF r
<1>4. \A n \in 1..Len(q) : q[n] = r[n]
    <2> SUFFICES ASSUME NEW n \in 1..Len(q) PROVE q[n] = r[n]
        OBVIOUS
    <2>1. CASE n = 1
        BY <1>3, <2>1
    <2>2. CASE n # 1
        <3>1. n - 1 \in 1..(Len(q) - 1) /\ (n - 1) + 1 = n
            BY <1>1, <2>2
        <3>2. r[(n - 1) + 1] = q[(n - 1) + 1]
            BY <1>3, <3>1
        <3> QED BY <3>1, <3>2
    <2> QED BY <2>1, <2>2
<1>5. q = r
    BY <1>3, <1>4, AnyEqual
<1> QED BY <1>5 DEF r, x, t

\* One piece forwarded: the places of the combination's loop.
LEMMA PieceRoad ==
    ASSUME NEW R, IsRound(R), R.what = "grid", NEW n \in Nat, n < NumPieces,
           NEW s \in Systems, s = R.first, NEW q, Walk(JobEdges(R), q, PieceSpot(n + 1), EndSpot(R))
    PROVE  Walk(JobEdges(R), ForwardData(s) \o Expect(OtherThan(s), "sending_data") \o ForwardData(OtherThan(s)) \o q,
                Taken(PieceSpot(n), s), EndSpot(R))
<1> DEFINE o == OtherThan(s)
           E == JobEdges(R)
           a == OutAt(n)
           a2 == OutAt(n + 1)
           b == InAt(n)
           b2 == InAt(n + 1)
           f == ForwardData(s)
           e == Expect(o, "sending_data")
           f2 == ForwardData(o)
<1>1. a \in Nat /\ a2 \in Nat /\ b \in Nat /\ b2 \in Nat /\ a >= 1 /\ a2 >= 1 /\ a # 0 /\ a2 # 0 /\ n + 1 \in Nat
    BY AtFacts
<1>2. o \in Systems /\ Transfers(R, s) = NumPieces /\ Transfers(R, o) = NumPieces
    BY TwoOfThem DEF Transfers
<1>3. Taken(PieceSpot(n), s) = Spot(s, a + 1, a, b, b) /\ PieceSpot(n + 1) = Spot(s, a2, a2, b2, b2)
    <2>1. PieceSpot(n) = Spot(s, a, a, b, b)
        BY NamedSpots
    <2>2. PieceSpot(n + 1) = Spot(s, a2, a2, b2, b2)
        BY <1>1, NamedSpots
    <2> HIDE DEF a, a2, b, b2
    <2>3. Taken(Spot(s, a, a, b, b), s) = Spot(s, a + 1, a, b, b)
        BY <1>1, SpotSteps
    <2> QED BY <2>1, <2>2, <2>3
<1>4. OutSlot(R, o, a + 1) = TextSlot("sending_data") /\ "sending_data" \in Kinds
    BY <1>2, Ends DEF Kinds
<1>5. Walk(E, f, Spot(s, a + 1, a, b, b), Spot(s, a2, a, b, b2))
    <2>1. a + 1 \in Nat
        BY <1>1
    <2> QED BY <1>1, <1>2, <2>1, ForwardAt
<1>6. Walk(E, e, Spot(s, a2, a, b, b2), Spot(s, a2, a + 1, b, b2))
    <2> HIDE DEF a, a2, b, b2
    <2> QED BY <1>1, <1>4, ExpectAt, ZenonT(30) DEF E, o, e
<1>7. Walk(E, f2, Spot(s, a2, a + 1, b, b2), Spot(s, a2, a2, b2, b2))
    <2>1. a + 1 \in Nat
        BY <1>1
    <2> QED BY <1>1, <1>2, <2>1, ForwardAt
<1>8. AnySeq(f) /\ AnySeq(e) /\ AnySeq(f2) /\ AnySeq(q)
    BY <1>5, <1>6, <1>7 DEF Walk
<1> HIDE DEF o, E, a, a2, b, b2, f, e, f2
<1>9. Walk(E, f \o e, Spot(s, a + 1, a, b, b), Spot(s, a2, a + 1, b, b2))
    BY <1>5, <1>6, WalkConcat
<1>10. Walk(E, (f \o e) \o f2, Spot(s, a + 1, a, b, b), PieceSpot(n + 1))
    BY <1>3, <1>7, <1>9, WalkConcat
<1>11. Walk(E, ((f \o e) \o f2) \o q, Spot(s, a + 1, a, b, b), EndSpot(R))
    BY <1>10, WalkConcat DEF E
<1> QED BY <1>3, <1>11 DEF o, E, f, e, f2

LEMMA TakenStep ==
    ASSUME NEW s \in Systems, NEW a \in Nat, NEW b \in Nat, NEW c \in Nat, NEW d \in Nat
    PROVE  Taken(Spot(s, a, b, c, d), s) = Spot(s, a + 1, b, c, d)
BY SpotSteps

LEMMA ForwardedStep ==
    ASSUME NEW s \in Systems, NEW a \in Nat, NEW b \in Nat, NEW c \in Nat, NEW d \in Nat, NEW n \in Nat
    PROVE  Forwarded(Spot(s, a, b, c, d), s, n) = Spot(s, OutAt(n), b, c, InAt(n))
BY SpotSteps

\* The next job of the broker.
LEMMA NextJob ==
    ASSUME NEW R, IsRound(R), NEW q, NEW u \in Spots, Walk(JobEdges(R), q, u, EndSpot(R)), q # <<>>
    PROVE  \E v \in Spots :
             /\ Head(q) \in Jobs /\ Head(q).sys \in Systems
             /\ JobEdge(R, Head(q), u, v) /\ NothingUnasked(v)
             /\ Walk(JobEdges(R), Tail(q), v, EndSpot(R))
             /\ \A s \in Systems : v.take[s] <= OutEnd(R, s) /\ v.give[s] <= InEnd(R, s)
<1>1. PICK v : <<Head(q), u, v>> \in JobEdges(R) /\ Walk(JobEdges(R), Tail(q), v, EndSpot(R))
    BY WalkHead
<1>2. Head(q) \in Jobs /\ v \in Spots /\ JobEdge(R, Head(q), u, v) /\ NothingUnasked(v)
    BY <1>1, JobEdgeIs
<1>3. \A s \in Systems : v.take[s] <= EndSpot(R).take[s] /\ v.give[s] <= EndSpot(R).give[s]
    BY <1>1, <1>2, JobsGrow
<1>4. \A s \in Systems : EndSpot(R).take[s] = OutEnd(R, s) /\ EndSpot(R).give[s] = InEnd(R, s)
    BY DEF EndSpot
<1>5. Head(q).sys \in Systems
    BY <1>2 DEF Jobs
<1> QED BY <1>1, <1>2, <1>3, <1>4, <1>5

\* It sends an instruction,
LEMMA BrokerSends ==
    ASSUME NEW R, IsRound(R), NEW q, NEW u \in Spots, Walk(JobEdges(R), q, u, EndSpot(R)), q # <<>>,
           NEW x, x = Head(q), x.do = "send"
    PROVE  /\ x.sys \in Systems
           /\ u.give[x.sys] + 1 <= InEnd(R, x.sys)
           /\ InSlot(R, x.sys, u.give[x.sys] + 1) = TextSlot(x.text)
           /\ NothingUnasked(Given(u, x.sys)) /\ Given(u, x.sys) \in Spots
           /\ Walk(JobEdges(R), Tail(q), Given(u, x.sys), EndSpot(R))
<1>1. PICK v \in Spots :
             /\ x \in Jobs /\ x.sys \in Systems
             /\ JobEdge(R, x, u, v) /\ NothingUnasked(v)
             /\ Walk(JobEdges(R), Tail(q), v, EndSpot(R))
             /\ \A s \in Systems : v.take[s] <= OutEnd(R, s) /\ v.give[s] <= InEnd(R, s)
    BY NextJob
<1>2. v = Given(u, x.sys) /\ InSlot(R, x.sys, u.give[x.sys] + 1) = TextSlot(x.text)
    BY <1>1 DEF JobEdge
<1>3. v.give[x.sys] = u.give[x.sys] + 1
    BY <1>1, <1>2, SpotMoves
<1> QED BY <1>1, <1>2, <1>3

\* passes a message on,
LEMMA BrokerForwards ==
    ASSUME NEW R, IsRound(R), NEW q, NEW u \in Spots, Walk(JobEdges(R), q, u, EndSpot(R)), q # <<>>,
           NEW x, x = Head(q), x.do = "forward", NEW s, s = x.sys, NEW o, o = OtherThan(s)
    PROVE  /\ s \in Systems
           /\ u.take[s] + 1 <= OutEnd(R, s)
           /\ u.give[o] + 1 <= InEnd(R, o)
           /\ OutSlot(R, s, u.take[s] + 1).kind = x.text
           /\ InSlot(R, o, u.give[o] + 1) = OutSlot(R, s, u.take[s] + 1)
           /\ NothingUnasked(Given(Taken(u, s), o)) /\ Given(Taken(u, s), o) \in Spots
           /\ Walk(JobEdges(R), Tail(q), Given(Taken(u, s), o), EndSpot(R))
<1>1. PICK v \in Spots :
             /\ x \in Jobs /\ x.sys \in Systems
             /\ JobEdge(R, x, u, v) /\ NothingUnasked(v)
             /\ Walk(JobEdges(R), Tail(q), v, EndSpot(R))
             /\ \A y \in Systems : v.take[y] <= OutEnd(R, y) /\ v.give[y] <= InEnd(R, y)
    BY NextJob
<1>2. /\ v = Given(Taken(u, s), o)
      /\ OutSlot(R, s, u.take[s] + 1).kind = x.text
      /\ InSlot(R, o, u.give[o] + 1) = OutSlot(R, s, u.take[s] + 1)
    BY <1>1 DEF JobEdge
<1>3. s \in Systems /\ o \in Systems /\ o # s
    BY <1>1, TwoOfThem
<1> DEFINE t == Taken(u, s)
<1>4. t \in Spots /\ t.take[s] = u.take[s] + 1 /\ t.give = u.give
    BY <1>3, SpotMoves
<1>5. v = Given(t, o)
    BY <1>2
<1> HIDE DEF t
<1>6. v.take = t.take /\ v.give[o] = t.give[o] + 1
    BY <1>3, <1>4, <1>5, SpotMoves
<1>7. v.take[s] <= OutEnd(R, s) /\ v.give[o] <= InEnd(R, o)
    BY <1>1, <1>3
<1> QED BY <1>1, <1>2, <1>3, <1>4, <1>6, <1>7

\* or receives one, and goes on as it says.
LEMMA BrokerReceives ==
    ASSUME NEW R, IsRound(R), NEW q, NEW u \in Spots, Walk(JobEdges(R), q, u, EndSpot(R)), q # <<>>,
           NothingUnasked(u),
           NEW x, x = Head(q), x.do \notin {"send", "forward"}, NEW s, s = x.sys,
           NEW text, text = OutSlot(R, s, u.take[s] + 1).kind
    PROVE  /\ s \in Systems
           /\ u.take[s] + 1 <= OutEnd(R, s)
           /\ text \in Understood(x)
           /\ NothingUnasked(Taken(u, s)) /\ Taken(u, s) \in Spots
           /\ Walk(JobEdges(R), After(q, text), Taken(u, s), EndSpot(R))
<1> DEFINE o == OtherThan(s)
           t == Taken(u, s)
           E == JobEdges(R)
           end == EndSpot(R)
           f == ForwardData(s)
           a == u.take[s]
           b == u.take[o]
           c == u.give[s]
           d == u.give[o]
<1>1. PICK v \in Spots :
             /\ x \in Jobs /\ x.sys \in Systems
             /\ JobEdge(R, x, u, v) /\ NothingUnasked(v)
             /\ Walk(JobEdges(R), Tail(q), v, EndSpot(R))
             /\ \A y \in Systems : v.take[y] <= OutEnd(R, y) /\ v.give[y] <= InEnd(R, y)
    BY NextJob
<1>2. s \in Systems /\ o \in Systems /\ o # s /\ OtherThan(o) = s /\ \A y \in Systems : y = s \/ y = o
    BY <1>1, TwoOfThem
<1>3. /\ t \in Spots /\ t.take[s] = u.take[s] + 1 /\ t.give = u.give
      /\ \A y \in Systems : y # s => t.take[y] = u.take[y]
      /\ \A y \in Systems : u.take[y] \in Nat /\ u.give[y] \in Nat
    BY ONLY u \in Spots, <1>2, SpotMoves
<1>4. NothingUnasked(t)
    <2> HIDE DEF t
    <2> QED BY <1>2, <1>3 DEF NothingUnasked
<1>5. /\ OutEnd(R, s) = OutAt(Transfers(R, s)) + 1 /\ OutEnd(R, s) - 1 = OutAt(Transfers(R, s)) /\ Transfers(R, s) \in Nat
      /\ InEnd(R, o) = InAt(Transfers(R, s)) /\ InEnd(R, s) = InAt(Transfers(R, o))
      /\ OutAt(0) = 1 /\ InAt(0) = 1
      /\ \A n \in Nat : OutAt(n) \in Nat /\ OutAt(n) >= 1 /\ InAt(n) \in Nat /\ InAt(n) >= 1
      /\ OutSlot(R, s, OutAt(Transfers(R, s)) + 1) = TextSlot("ready")
      /\ \A n \in Nat : n < Transfers(R, s) => OutSlot(R, s, OutAt(n) + 1) = TextSlot("sending_data")
    BY <1>2, Ends
<1>6. \A tt : TextSlot(tt).kind = tt
    BY DEF TextSlot
<1>7. a \in Nat /\ b \in Nat /\ c \in Nat /\ d \in Nat
    BY <1>2, <1>3
<1>8. u = Spot(s, a, b, c, d) /\ t = Spot(s, a + 1, b, c, d)
    <2>1. u = Spot(s, a, b, c, d)
        BY <1>2, <1>7, SpotFour, SMTT(30), ZenonT(30)
    <2> HIDE DEF a, b, c, d
    <2>2. Taken(Spot(s, a, b, c, d), s) = Spot(s, a + 1, b, c, d)
        BY ONLY <1>2, <1>7, TakenStep
    <2> QED BY <2>1, <2>2
<1>9. v.take[s] <= OutEnd(R, s)
    BY <1>1, <1>2
<1> SUFFICES /\ a + 1 <= OutEnd(R, s) /\ text \in Understood(x) /\ Walk(E, After(q, text), t, end)
    BY <1>2, <1>3, <1>4
<1>10. CASE x.do = "expect"
    <2>1. v = t /\ OutSlot(R, s, a + 1) = TextSlot(x.text)
        BY <1>1, <1>10 DEF JobEdge
    <2>2. After(q, text) = Tail(q) /\ Understood(x) = {x.text}
        BY <1>10 DEF After, Understood
    <2>3. text = x.text
        BY <2>1, <1>6
    <2> QED BY <1>1, <1>3, <1>9, <2>1, <2>2, <2>3
<1>11. CASE x.do = "optional"
    <2>1. Transfers(R, s) = 1 /\ a = OutAt(0) /\ d = InAt(0) /\ b >= 1
          /\ v = Forwarded(u, s, 1)
        BY <1>1, <1>11 DEF JobEdge, Forwarded
    <2>2. text = "sending_data" /\ Understood(x) = {"sending_data"}
        BY <1>5, <1>6, <1>11, <2>1 DEF Understood
    <2>3. After(q, text) = f \o Tail(q)
        BY <1>11, <2>2 DEF After
    <2>4. v = Spot(s, OutAt(0 + 1), b, c, InAt(0 + 1))
        <3> HIDE DEF a, b, c, d
        <3>1. Forwarded(Spot(s, a, b, c, d), s, 1) = Spot(s, OutAt(1), b, c, InAt(1))
            BY ONLY <1>2, <1>7, 1 \in Nat, ForwardedStep
        <3> QED BY <1>8, <2>1, <3>1
    <2>5. Walk(E, f, t, v)
        <3> HIDE DEF a, b, c, d, t
        <3>1. a + 1 \in Nat /\ a + 1 = OutAt(0) + 1 /\ 0 < Transfers(R, s) /\ 0 \in Nat
            BY <1>7, <2>1
        <3>2. Walk(E, f, Spot(s, a + 1, b, c, d), Spot(s, OutAt(0 + 1), b, c, InAt(0 + 1)))
            BY <1>2, <1>7, <2>1, <3>1, ForwardAt
        <3> QED BY <1>8, <2>4, <3>2
    <2>6. Walk(E, f \o Tail(q), t, end)
        <3> HIDE DEF f, t, E, end
        <3> QED BY <1>1, <2>5, WalkConcat DEF E, end
    <2>7. a + 1 <= OutEnd(R, s)
        <3>1. OutAt(0) <= OutAt(1) /\ OutAt(0) \in Nat /\ OutAt(1) \in Nat
            BY <1>5, AtGrows
        <3> QED BY <1>5, <2>1, <3>1
    <2> QED BY <2>2, <2>3, <2>6, <2>7
<1>12. CASE x.do = "sendBack"
    <2>1. /\ Transfers(R, s) \in {0, 1} /\ a = OutAt(0) /\ b = OutEnd(R, o) - 1
          /\ c = InEnd(R, s) /\ d = InAt(0)
        BY <1>1, <1>12 DEF JobEdge
    <2>2. Understood(x) = {"sending_data", "ready"}
        BY <1>12 DEF Understood
    <2>3. a + 1 <= OutEnd(R, s)
        <3>1. OutAt(0) <= OutAt(1) /\ OutAt(0) \in Nat /\ OutAt(1) \in Nat
            BY <1>5, AtGrows
        <3> QED BY <1>5, <2>1, <3>1
    <2>4. CASE Transfers(R, s) = 0
        <3>1. text = "ready"
            <4>1. OutSlot(R, s, a + 1) = TextSlot("ready")
                BY <1>5, <2>1, <2>4
            <4> QED BY <1>6, <4>1
        <3>2. After(q, text) = Expect(o, "ready")
            BY <1>12, <3>1 DEF After
        <3>3. a + 1 = OutEnd(R, s) /\ d = InEnd(R, o)
            BY <1>5, <2>1, <2>4
        <3>4. t = Spot(s, OutEnd(R, s), OutEnd(R, o) - 1, InEnd(R, s), InEnd(R, o))
            <4> HIDE DEF a, b, c, d, t
            <4> QED BY <1>8, <2>1, <3>3
        <3>5. Walk(E, Expect(o, "ready"), t, end)
            <4> HIDE DEF t
            <4> QED BY <1>2, <3>4, ReadyRoad
        <3> QED BY <2>2, <2>3, <3>1, <3>2, <3>5
    <2>5. CASE Transfers(R, s) = 1
        <3>1. text = "sending_data"
            BY <1>5, <1>6, <2>1, <2>5
        <3> DEFINE es == Expect(s, "ready")
                   eo == Expect(o, "ready")
                   m == Spot(s, OutEnd(R, s) - 1, OutEnd(R, o) - 1, InEnd(R, s), InEnd(R, o))
        <3>2. After(q, text) = (f \o eo) \o es
            BY <1>12, <3>1 DEF After
        <3>3. AnySeq(eo) /\ AnySeq(es)
            BY AnyOne DEF Expect
        <3>4. Walk(E, eo \o es, m, end)
            BY <1>2, ReadyRoad
        <3>5. Walk(E, f, t, m)
            <4>1. OutEnd(R, s) - 1 = OutAt(0 + 1) /\ InEnd(R, o) = InAt(0 + 1)
                BY <1>5, <2>5
            <4>2. b >= 1
                <5>1. OutEnd(R, o) - 1 = OutAt(Transfers(R, o)) /\ Transfers(R, o) \in Nat
                    BY <1>2, Ends
                <5> QED BY <1>5, <2>1, <5>1
            <4> HIDE DEF a, b, c, d, t
            <4>3. a + 1 \in Nat /\ a + 1 = OutAt(0) + 1 /\ 0 < Transfers(R, s) /\ 0 \in Nat
                BY <1>7, <2>1, <2>5
            <4>4. Walk(E, f, Spot(s, a + 1, b, c, d), Spot(s, OutAt(0 + 1), b, c, InAt(0 + 1)))
                BY <1>2, <1>7, <2>1, <4>2, <4>3, ForwardAt
            <4> QED BY <1>8, <2>1, <4>1, <4>4
        <3>6. AnySeq(f)
            BY <3>5 DEF Walk
        <3> HIDE DEF f, t, E, end, es, eo, m
        <3>7. Walk(E, f \o (eo \o es), t, end)
            BY <3>4, <3>5, WalkConcat
        <3>8. (f \o eo) \o es = f \o (eo \o es)
            BY <3>3, <3>6, AnyAssociative
        <3> QED BY <2>2, <2>3, <3>1, <3>2, <3>7, <3>8
    <2> QED BY <2>1, <2>4, <2>5
<1>13. CASE x.do = "grids"
    <2>1. s = R.first /\ R.what = "grid" /\ v = GridsDone(R)
        BY <1>1, <1>13 DEF JobEdge
    <2>2. PICK n \in 0..NumPieces : u = PieceSpot(n)
        BY <1>1, <1>13 DEF JobEdge
    <2>3. Transfers(R, s) = NumPieces /\ Transfers(R, o) = NumPieces /\ n \in Nat /\ NumPieces \in Nat /\ n <= NumPieces
        BY <2>1, ThirdLevelAssumption DEF Transfers
    <2>4. a = OutAt(n) /\ b = OutAt(n) /\ c = InAt(n) /\ d = InAt(n)
        BY <1>2, <2>2 DEF PieceSpot
    <2>5. Understood(x) = {"sending_data", "ready"}
        BY <1>13 DEF Understood
    <2>6. a + 1 <= OutEnd(R, s)
        <3>1. OutAt(n) <= OutAt(NumPieces) /\ OutAt(n) \in Nat /\ OutAt(NumPieces) \in Nat
            BY <1>5, <2>3, AtGrows
        <3> QED BY <1>5, <2>3, <2>4, <3>1
    <2>7. CASE n = NumPieces
        <3>1. text = "ready"
            <4>1. OutSlot(R, s, a + 1) = TextSlot("ready")
                BY <1>5, <2>3, <2>4, <2>7
            <4> QED BY <1>6, <4>1
        <3>2. After(q, text) = Tail(q)
            BY <1>13, <3>1 DEF After
        <3>3. OutEnd(R, o) - 1 = OutAt(NumPieces)
            BY <1>2, <2>3, Ends
        <3>4. GridsDone(R) = Spot(s, OutEnd(R, s), OutEnd(R, o) - 1, InEnd(R, s), InEnd(R, o))
            BY <1>2, <2>1, NamedSpots
        <3>5. a + 1 = OutEnd(R, s) /\ b = OutEnd(R, o) - 1 /\ c = InEnd(R, s) /\ d = InEnd(R, o)
            BY <1>5, <2>3, <2>4, <2>7, <3>3
        <3>6. t = v
            <4> HIDE DEF a, b, c, d, t
            <4> QED BY <1>8, <2>1, <3>4, <3>5
        <3>7. Walk(E, After(q, text), t, end)
            <4> HIDE DEF t
            <4> QED BY <1>1, <3>2, <3>6
        <3> HIDE DEF a, t, E, end
        <3> QED BY <2>5, <2>6, <3>1, <3>7
    <2>8. CASE n < NumPieces
        <3>1. text = "sending_data"
            <4>1. OutSlot(R, s, OutAt(n) + 1) = TextSlot("sending_data")
                BY <1>5, <2>3, <2>8
            <4>2. OutSlot(R, s, a + 1) = TextSlot("sending_data")
                BY <2>4, <4>1
            <4> QED BY <1>6, <4>2
        <3>2. After(q, text) = f \o Expect(o, "sending_data") \o ForwardData(o) \o q
            BY <1>13, <3>1 DEF After
        <3>3. PieceSpot(n + 1) \in Spots /\ n + 1 \in 0..NumPieces
            BY <2>3, <2>8, SpotTypes
        <3>4. JobEdge(R, x, PieceSpot(n + 1), v)
            BY <1>13, <2>1, <3>3 DEF JobEdge
        <3>5. <<x, PieceSpot(n + 1), v>> \in E
            BY <1>1, <3>3, <3>4, IsJobEdge
        <3>6. AnySeq(q) /\ q = <<x>> \o Tail(q)
            BY AnySplit DEF Walk
        <3>7. Walk(E, <<x>> \o Tail(q), PieceSpot(n + 1), EndSpot(R))
            <4> HIDE DEF E
            <4> QED BY <1>1, <3>5, WalkCons DEF E
        <3>8. Walk(E, q, PieceSpot(n + 1), EndSpot(R))
            BY <3>6, <3>7
        <3>9. Walk(E, f \o Expect(o, "sending_data") \o ForwardData(o) \o q, Taken(PieceSpot(n), s), end)
            BY <1>2, <2>1, <2>3, <2>8, <3>8, PieceRoad
        <3> QED BY <2>2, <2>5, <2>6, <3>1, <3>2, <3>9
    <2> QED BY <2>3, <2>7, <2>8
<1> QED BY <1>1, <1>10, <1>11, <1>12, <1>13 DEF Jobs

-----------------------------------------------------------------------------
(***************************************************************************)
(* The invariant.  The methods of a system, as they are left: the request, *)
(* the instruction, what the role adds, and the end.                       *)
(***************************************************************************)
Finish(op) == IF op = "monteCarloThirdLevel" THEN Local("addUp") \o Local("return") ELSE Local("return")

Reduce(op) ==
    CASE op = "unifySubspaceSizesThirdLevel" -> Local("reduceMax")
      [] op = "unifyExtraSparseGrid" -> Local("reduceMin")
      [] OTHER -> <<>>

Second ==
    Signal("ready_to_exchange_data") \o (Fetch("values") \o (Signal("ready") \o Finish("monteCarloThirdLevel")))

Rest(op, part) ==
    IF op = "monteCarloThirdLevel" /\ part = 1 THEN Local("interpolate") \o Second ELSE Finish(op)

Readying(op, part) == Signal("ready") \o Rest(op, part)
Closing(op, part) == Reduce(op) \o Readying(op, part)
Fetching(op, part) == Fetch(What(op, part)) \o Closing(op, part)
Asking(op, part) == Signal(RequestFor(What(op, part))) \o Fetching(op, part)

\* The round after part j of call k.
NextCall(op, k, j) == IF op = "monteCarloThirdLevel" /\ j = 1 THEN k ELSE k + 1
NextPart(op, j) == IF op = "monteCarloThirdLevel" /\ j = 1 THEN 2 ELSE 1

RequestOf(k, j) ==
    IF plan[k] = "finalize" THEN "finished_computation" ELSE RequestFor(What(plan[k], j))

\* A system that has not asked for part j of call k yet,
Unsent(s, k, j) ==
    \/ j = 1 /\ calls[s] = k - 1 /\ todo[s] = <<>> /\ (calls[s] > 0 => plan[calls[s]] \in Methods)
    \/ /\ j = 1 /\ calls[s] = k - 1 /\ calls[s] > 0 /\ plan[calls[s]] \in Methods
       /\ todo[s] \in {Finish(plan[calls[s]]), Local("return")}
    \/ j = 1 /\ calls[s] = k /\ plan[k] = "finalize" /\ todo[s] = Script("finalize")
    \/ /\ calls[s] = k /\ plan[k] \in Methods /\ (j = 2 => plan[k] = "monteCarloThirdLevel")
       /\ todo[s] = Asking(plan[k], j)
       /\ plan[k] = "monteCarloThirdLevel" /\ j = 1 => coords[s] = <<s, k>>
    \/ j = 2 /\ calls[s] = k /\ plan[k] = "monteCarloThirdLevel" /\ todo[s] = Rest(plan[k], 1)

\* and one that has.
Sent(s, k, j) ==
    \/ /\ calls[s] = k /\ plan[k] \in Methods /\ (j = 2 => plan[k] = "monteCarloThirdLevel")
       /\ todo[s] = Fetching(plan[k], j)
       /\ plan[k] = "monteCarloThirdLevel" /\ j = 1 => coords[s] = <<s, k>>
    \/ j = 1 /\ calls[s] = k /\ plan[k] = "finalize" /\ todo[s] \in {Local("return"), <<>>}

Waiting(s, k, j, n) ==
    /\ k \in Nat \ {0} /\ j \in {1, 2}
    /\ \/ n = 0 /\ Unsent(s, k, j)
       \/ n = 1 /\ Sent(s, k, j)

\* A system that has been told its role: out messages sent, in received.
Inside(R, s, out, in) ==
    /\ calls[s] = R.call /\ out >= 1 /\ in >= 1
    /\ \/ \E z : todo[s] = z \o Closing(R.op, R.part)
                 /\ Walk(StepEdges(R, s), z, <<out, in>>, <<OutEnd(R, s) - 1, InEnd(R, s)>>)
       \/ todo[s] = Readying(R.op, R.part) /\ out = OutEnd(R, s) - 1 /\ in = InEnd(R, s)
    /\ R.what = "coords" /\ (s = R.first \/ in = InEnd(R, s)) => coords[s] = <<R.first, R.call>>
    /\ R.what = "sizes" /\ in = InEnd(R, s) => buffer[s] = SpacesOf[OtherThan(s)]

Position(R, s, out, in) ==
    /\ out \in Nat /\ in \in Nat
    /\ \/ in = 0 /\ Waiting(s, R.call, R.part, out)
       \/ Inside(R, s, out, in)
       \/ in = InEnd(R, s) /\ out >= OutEnd(R, s)
          /\ Waiting(s, NextCall(R.op, R.call, R.part), NextPart(R.op, R.part), out - OutEnd(R, s))

\* What is in the sockets.
Outgoing(R, s, out, taken) ==
    /\ Len(toManager[s]) = out - taken
    /\ \A q \in 1..Len(toManager[s]) :
         /\ taken + q <= OutEnd(R, s) => Fits(toManager[s][q], OutSlot(R, s, taken + q))
         /\ taken + q > OutEnd(R, s) =>
              toManager[s][q].kind = RequestOf(NextCall(R.op, R.call, R.part), NextPart(R.op, R.part))

Incoming(R, s, in, given) ==
    /\ Len(toSystem[s]) = given - in
    /\ \A q \in 1..Len(toSystem[s]) : Fits(toSystem[s][q], InSlot(R, s, in + q))

Served(R, s, u) ==
    \E out, in \in Nat :
        Position(R, s, out, in) /\ Outgoing(R, s, out, u.take[s]) /\ Incoming(R, s, in, u.give[s])

\* The sparse grids' sizes once they are unified.
DsguOf(op) ==
    IF op = "unifySubspaceSizesThirdLevel"
    THEN UNION {SpacesOf[s] : s \in Systems}
    ELSE {x \in UNION {SpacesOf[s] : s \in Systems} : \A s \in Systems : x \in SpacesOf[s]}

\* The broker processes a request.
RoundOf(R) ==
    /\ IsRound(R) /\ R.call <= Len(plan) /\ R.op = plan[R.call]
    /\ R.checked <=> debug = Systems
    /\ R.what = "grid" => \E c \in 1..(R.call - 1) : plan[c] \in Unifying /\ R.grids = DsguOf(plan[c])

Busy(R, u) ==
    /\ RoundOf(R) /\ u \in Spots /\ NothingUnasked(u) /\ u.take[R.first] >= 1
    /\ work # <<>> /\ Walk(JobEdges(R), work, u, EndSpot(R))
    /\ Len(accepted) = 2 /\ \A s \in Systems : s \in ToSet(systems)
    /\ \A s \in Systems : Served(R, s, u)

\* The broker waits for a request.
Resting(s, k, j) ==
    /\ toSystem[s] = <<>>
    /\ \/ Waiting(s, k, j, 0) /\ toManager[s] = <<>>
       \/ Waiting(s, k, j, 1) /\ Len(toManager[s]) = 1 /\ toManager[s][1].kind = RequestOf(k, j)
    /\ Len(accepted) = 2 => s \in ToSet(systems)

Gone(s, k, j) ==
    /\ toSystem[s] = <<>> /\ toManager[s] = <<>>
    /\ Waiting(s, k, j, 1) /\ plan[k] = "finalize"
    /\ Len(accepted) = 2 /\ s \notin ToSet(systems)

Idle(k, j) ==
    /\ work = <<>>
    /\ \A s \in Systems : Resting(s, k, j) \/ Gone(s, k, j)

PlanOK ==
    /\ plan \in Seq(Methods \cup {"finalize"})
    /\ \A c \in 1..Len(plan) : plan[c] = "finalize" => c = Len(plan)
    /\ \A c, d \in 1..Len(plan) : plan[c] \in Unifying /\ plan[d] \in Unifying => c = d
    /\ \A c \in 1..Len(plan) : plan[c] = "combineThirdLevel" => \E d \in 1..(c - 1) : plan[d] \in Unifying

Reduced(s, c) ==
    \/ calls[s] > c
    \/ calls[s] = c /\ todo[s] \in {Readying(plan[c], 1), Local("return"), <<>>}

SizesOK(s) ==
    /\ (\A c \in 1..Len(plan) : plan[c] \notin Unifying) => spaces[s] = SpacesOf[s]
    /\ \A c \in 1..Len(plan) : plan[c] \in Unifying =>
         IF Reduced(s, c) THEN dsguSizes[s] = DsguOf(plan[c]) ELSE spaces[s] = SpacesOf[s]

OneOrTwo(q) == q \in {<<>>} \cup {<<s>> : s \in Systems} \cup {<<s, OtherThan(s)>> : s \in Systems}

BrokerOK ==
    /\ OneOrTwo(accepted) /\ OneOrTwo(systems)
    /\ Len(accepted) < 2 => systems = accepted /\ next = 1
    /\ systems # <<>> => next \in 1..Len(systems)

Base ==
    /\ calls \in [Systems -> Nat] /\ \A s \in Systems : calls[s] <= Len(plan)
    /\ debug \in {{}, Systems}
    /\ DOMAIN toManager = Systems /\ DOMAIN toSystem = Systems /\ DOMAIN todo = Systems
    /\ DOMAIN coords = Systems /\ DOMAIN buffer = Systems /\ DOMAIN spaces = Systems /\ DOMAIN dsguSizes = Systems
    /\ \A s \in Systems : AnySeq(toManager[s]) /\ AnySeq(toSystem[s])

Rounds ==
    \/ \E k, j \in Nat : Idle(k, j)
    \/ \E R, u : Busy(R, u)

IInv == Base /\ PlanOK /\ BrokerOK /\ (\A s \in Systems : SizesOK(s)) /\ Rounds

-----------------------------------------------------------------------------
\* The methods, step by step.
SignalStep(text) == Step("signal", text, None, "")
LocalStep(do) == Step(do, "", None, "")

LEMMA Shift ==
    ASSUME NEW a, NEW b, NEW c, AnySeq(a), AnySeq(b), AnySeq(c), NEW h, h = a \o b, NEW t, t = b \o c
    PROVE  h \o c = a \o t
BY AnyAssociative

LEMMA ThreeAndOn ==
    ASSUME NEW a, NEW b, NEW c, NEW d, AnySeq(a), AnySeq(b), AnySeq(c), AnySeq(d)
    PROVE  /\ AnySeq(a \o (b \o (c \o d)))
           /\ ((a \o b) \o c) \o d = a \o (b \o (c \o d))
<1>1. AnySeq(c \o d) /\ AnySeq(a \o b)
    BY AnyConcat
<1>2. AnySeq(b \o (c \o d))
    BY <1>1, AnyConcat
<1>3. AnySeq(a \o (b \o (c \o d)))
    BY <1>2, AnyConcat
<1> DEFINE ab == a \o b
           cd == c \o d
<1>4. AnySeq(ab) /\ AnySeq(cd) /\ ab = a \o b /\ cd = c \o d
    BY <1>1
<1> HIDE DEF ab, cd
<1>5. (ab \o c) \o d = ab \o cd
    BY <1>4, Shift
<1>6. ab \o cd = a \o (b \o cd)
    BY <1>4, Shift
<1> QED BY <1>3, <1>5, <1>6 DEF ab, cd

LEMMA OneStep ==
    ASSUME NEW x
    PROVE  AnySeq(<<x>>) /\ <<x>> # <<>> /\ Head(<<x>>) = x /\ Tail(<<x>>) = <<>>
<1>1. AnySeq(<<x>>)
    BY AnyOne
<1> QED BY <1>1

LEMMA FinishIs ==
    ASSUME NEW op
    PROVE  /\ AnySeq(Finish(op)) /\ AnySeq(Local("return")) /\ AnySeq(<<>>)
           /\ Local("return") # <<>> /\ Head(Local("return")) = LocalStep("return") /\ Tail(Local("return")) = <<>>
           /\ op # "monteCarloThirdLevel" => Finish(op) = Local("return")
           /\ op = "monteCarloThirdLevel" =>
                Finish(op) # <<>> /\ Head(Finish(op)) = LocalStep("addUp") /\ Tail(Finish(op)) = Local("return")
<1> DEFINE r == Local("return")
           a == LocalStep("addUp")
<1>1. AnySeq(r) /\ r # <<>> /\ Head(r) = LocalStep("return") /\ Tail(r) = <<>>
    BY OneStep DEF Local, LocalStep
<1>2. Local("addUp") = <<a>>
    BY DEF Local, LocalStep
<1> HIDE DEF r, a
<1>3. AnySeq(<<a>> \o r) /\ <<a>> \o r # <<>> /\ Head(<<a>> \o r) = a /\ Tail(<<a>> \o r) = r
    BY <1>1, AnyCons
<1>4. Finish(op) = IF op = "monteCarloThirdLevel" THEN <<a>> \o r ELSE r
    BY <1>2 DEF Finish, r
<1>5. AnySeq(<<>>)
    BY <1>1, AnyEmpty
<1> QED BY <1>1, <1>3, <1>4, <1>5 DEF r, a

LEMMA SecondIs ==
    /\ AnySeq(Second) /\ Second = Asking("monteCarloThirdLevel", 2)
<1> DEFINE op == "monteCarloThirdLevel"
           a == Signal("ready_to_exchange_data")
           b == Fetch("values")
           c == Signal("ready")
           d == Finish(op)
<1>1. AnySeq(a) /\ AnySeq(b) /\ AnySeq(c) /\ AnySeq(d)
    BY AnyOne, FinishIs DEF Signal, Fetch
<1>2. Second = a \o (b \o (c \o d))
    BY DEF Second
<1>3. AnySeq(c \o d)
    BY <1>1, AnyConcat
<1>4. Rest(op, 2) = d /\ Reduce(op) = <<>> /\ What(op, 2) = "values" /\ RequestFor("values") = "ready_to_exchange_data"
    BY DEF Rest, Reduce, What, RequestFor, Unifying
<1>5. Closing(op, 2) = <<>> \o (c \o d)
    BY <1>4 DEF Closing, Readying
<1> HIDE DEF a, b, c, d, op
<1>6. Closing(op, 2) = c \o d
    BY <1>3, <1>5, AnyEmpty
<1>7. AnySeq(a \o (b \o (c \o d)))
    BY <1>1, ThreeAndOn
<1>8. Asking(op, 2) = a \o (b \o (c \o d))
    BY <1>4, <1>6 DEF Asking, Fetching, a, b
<1> QED BY <1>2, <1>7, <1>8 DEF op

LEMMA RestIs ==
    ASSUME NEW op, NEW part
    PROVE  /\ AnySeq(Rest(op, part))
           /\ op = "monteCarloThirdLevel" /\ part = 1 =>
                Rest(op, part) # <<>> /\ Head(Rest(op, part)) = LocalStep("interpolate")
                /\ Tail(Rest(op, part)) = Asking(op, 2)
           /\ ~(op = "monteCarloThirdLevel" /\ part = 1) => Rest(op, part) = Finish(op)
<1> DEFINE x == LocalStep("interpolate")
<1>1. Local("interpolate") = <<x>>
    BY DEF Local, LocalStep
<1> HIDE DEF x
<1>2. AnySeq(<<x>> \o Second) /\ <<x>> \o Second # <<>> /\ Head(<<x>> \o Second) = x /\ Tail(<<x>> \o Second) = Second
    BY SecondIs, AnyCons
<1>3. Rest(op, part) = IF op = "monteCarloThirdLevel" /\ part = 1 THEN <<x>> \o Second ELSE Finish(op)
    BY <1>1 DEF Rest
<1> QED BY <1>2, <1>3, SecondIs, FinishIs DEF x

LEMMA ReadyingIs ==
    ASSUME NEW op, NEW part
    PROVE  /\ AnySeq(Readying(op, part)) /\ Readying(op, part) # <<>>
           /\ Head(Readying(op, part)) = SignalStep("ready") /\ Tail(Readying(op, part)) = Rest(op, part)
<1> DEFINE x == SignalStep("ready")
           r == Rest(op, part)
<1>1. Readying(op, part) = <<x>> \o r
    BY DEF Readying, Signal, SignalStep
<1> HIDE DEF x
<1>2. AnySeq(r)
    BY RestIs
<1> HIDE DEF r
<1>3. AnySeq(<<x>> \o r) /\ <<x>> \o r # <<>> /\ Head(<<x>> \o r) = x /\ Tail(<<x>> \o r) = r
    BY <1>2, AnyCons
<1> QED BY <1>1, <1>3 DEF x, r

ReduceStep(op) == LocalStep(IF op = "unifySubspaceSizesThirdLevel" THEN "reduceMax" ELSE "reduceMin")

LEMMA ClosingIs ==
    ASSUME NEW op, NEW part
    PROVE  /\ AnySeq(Closing(op, part)) /\ Closing(op, part) # <<>>
           /\ op \in Unifying => /\ Head(Closing(op, part)) = ReduceStep(op)
                                 /\ Tail(Closing(op, part)) = Readying(op, part)
           /\ op \notin Unifying => Closing(op, part) = Readying(op, part)
<1> DEFINE r == Readying(op, part)
           x == ReduceStep(op)
<1>1. AnySeq(r) /\ r # <<>>
    BY ReadyingIs
<1>2. op \in Unifying => Closing(op, part) = <<x>> \o r
    BY DEF Closing, Reduce, Unifying, Local, ReduceStep, LocalStep
<1>3. op \notin Unifying => Closing(op, part) = <<>> \o r
    BY DEF Closing, Reduce, Unifying
<1> HIDE DEF r, x
<1>4. AnySeq(<<x>> \o r) /\ <<x>> \o r # <<>> /\ Head(<<x>> \o r) = x /\ Tail(<<x>> \o r) = r
    BY <1>1, AnyCons
<1>5. <<>> \o r = r
    BY <1>1, AnyEmpty
<1> QED BY <1>1, <1>2, <1>3, <1>4, <1>5 DEF r, x

LEMMA FetchingIs ==
    ASSUME NEW op, NEW part
    PROVE  /\ AnySeq(Fetching(op, part)) /\ Fetching(op, part) # <<>>
           /\ Head(Fetching(op, part)) = Step("fetch", What(op, part), None, "")
           /\ Tail(Fetching(op, part)) = Closing(op, part)
<1> DEFINE r == Closing(op, part)
           x == Step("fetch", What(op, part), None, "")
<1>1. Fetching(op, part) = <<x>> \o r
    BY DEF Fetching, Fetch
<1>2. AnySeq(r)
    BY ClosingIs
<1> HIDE DEF r, x
<1>3. AnySeq(<<x>> \o r) /\ <<x>> \o r # <<>> /\ Head(<<x>> \o r) = x /\ Tail(<<x>> \o r) = r
    BY <1>2, AnyCons
<1> QED BY <1>1, <1>3 DEF r, x

LEMMA AskingIs ==
    ASSUME NEW op, NEW part
    PROVE  /\ AnySeq(Asking(op, part)) /\ Asking(op, part) # <<>>
           /\ Head(Asking(op, part)) = SignalStep(RequestFor(What(op, part)))
           /\ Tail(Asking(op, part)) = Fetching(op, part)
<1> DEFINE r == Fetching(op, part)
           x == SignalStep(RequestFor(What(op, part)))
<1>1. Asking(op, part) = <<x>> \o r
    BY DEF Asking, Signal, SignalStep
<1>2. AnySeq(r)
    BY FetchingIs
<1> HIDE DEF r, x
<1>3. AnySeq(<<x>> \o r) /\ <<x>> \o r # <<>> /\ Head(<<x>> \o r) = x /\ Tail(<<x>> \o r) = r
    BY <1>2, AnyCons
<1> QED BY <1>1, <1>3 DEF r, x

LEMMA FinalizeIs ==
    /\ AnySeq(Script("finalize")) /\ Script("finalize") # <<>>
    /\ Head(Script("finalize")) = SignalStep("finished_computation")
    /\ Tail(Script("finalize")) = Local("return")
<1> DEFINE r == Local("return")
           x == SignalStep("finished_computation")
<1>1. Script("finalize") = <<x>> \o r
    BY DEF Script, Signal, SignalStep
<1>2. AnySeq(r)
    BY FinishIs
<1> HIDE DEF r, x
<1>3. AnySeq(<<x>> \o r) /\ <<x>> \o r # <<>> /\ Head(<<x>> \o r) = x /\ Tail(<<x>> \o r) = r
    BY <1>2, AnyCons
<1> QED BY <1>1, <1>3 DEF r, x

\* A method is its first part.
LEMMA ScriptIs ==
    ASSUME NEW op \in Methods
    PROVE  Script(op) = Asking(op, 1)
<1> DEFINE q == Signal(RequestFor(What(op, 1)))
           f == Fetch(What(op, 1))
           r == Signal("ready")
           e == Local("return")
           x == Reduce(op)
<1>1. AnySeq(q) /\ AnySeq(f) /\ AnySeq(r) /\ AnySeq(e)
    BY AnyOne DEF Signal, Fetch, Local
<1>2. AnySeq(r \o e)
    BY <1>1, AnyConcat
<1>3. CASE op \in {"combineThirdLevel", "combineThirdLevelFileBased"}
    <2>1. Script(op) = ((q \o f) \o r) \o e
        BY <1>3 DEF Script, What, RequestFor, Unifying
    <2>2. Asking(op, 1) = q \o (f \o (<<>> \o (r \o e)))
        BY <1>3 DEF Asking, Fetching, Closing, Reduce, Readying, Rest, Finish
    <2>3. <<>> \o (r \o e) = r \o e
        BY <1>2, AnyEmpty
    <2>4. ((q \o f) \o r) \o e = q \o (f \o (r \o e))
        <3> HIDE DEF q, f, r, e
        <3> QED BY <1>1, ThreeAndOn
    <2> QED BY <2>1, <2>2, <2>3, <2>4
<1>4. CASE op \in Unifying
    <2>1. AnySeq(x)
        BY <1>4, AnyOne DEF Reduce, Unifying, Local
    <2>2. Script(op) = (((q \o f) \o x) \o r) \o e
        BY <1>4 DEF Script, What, RequestFor, Unifying, Reduce
    <2>3. Asking(op, 1) = q \o (f \o (x \o (r \o e)))
        BY <1>4 DEF Asking, Fetching, Closing, Reduce, Readying, Rest, Finish, Unifying
    <2> HIDE DEF q, f, r, e, x
    <2>4. AnySeq((q \o f) \o x)
        <3>1. AnySeq(q \o f)
            BY <1>1, AnyConcat
        <3> QED BY <2>1, <3>1, AnyConcat
    <2>5. (((q \o f) \o x) \o r) \o e = ((q \o f) \o x) \o (r \o e)
        <3> DEFINE z == (q \o f) \o x
        <3>1. AnySeq(z) /\ AnySeq(r) /\ AnySeq(e)
            BY <1>1, <2>4
        <3> HIDE DEF z
        <3>2. (z \o r) \o e = z \o (r \o e)
            BY <3>1, AnyAssociative
        <3> QED BY <3>2 DEF z
    <2>6. ((q \o f) \o x) \o (r \o e) = q \o (f \o (x \o (r \o e)))
        BY <1>1, <1>2, <2>1, ThreeAndOn
    <2> QED BY <2>2, <2>3, <2>5, <2>6
<1>5. CASE op = "monteCarloThirdLevel"
    <2> DEFINE i == Local("interpolate")
               q2 == Signal("ready_to_exchange_data")
               f2 == Fetch("values")
               a == Local("addUp")
    <2>1. q = q2 /\ f = Fetch("coords")
        BY <1>5 DEF What, RequestFor, Unifying
    <2>2. Script(op) = (((((((q \o f) \o r) \o i) \o q2) \o f2) \o r) \o a) \o e
        BY <1>5, <2>1 DEF Script
    <2>3. Asking(op, 1) = q \o (f \o (<<>> \o (r \o (i \o (q2 \o (f2 \o (r \o (a \o e))))))))
        BY <1>5 DEF Asking, Fetching, Closing, Reduce, Readying, Rest, Finish, Second
    <2>4. AnySeq(i) /\ AnySeq(q2) /\ AnySeq(f2) /\ AnySeq(a)
        BY AnyOne DEF Signal, Fetch, Local
    <2> HIDE DEF q, f, r, e, i, q2, f2, a
    <2> DEFINE t1 == a \o e
               t2 == r \o t1
               t3 == f2 \o t2
               t4 == q2 \o t3
               t5 == i \o t4
               t6 == r \o t5
               h1 == q \o f
               h2 == h1 \o r
               h3 == h2 \o i
               h4 == h3 \o q2
               h5 == h4 \o f2
               h6 == h5 \o r
    <2>5. AnySeq(t1) /\ AnySeq(h1)
        BY <1>1, <2>4, AnyConcat
    <2> HIDE DEF t1, h1
    <2>6. AnySeq(t2) /\ AnySeq(h2)
        BY <1>1, <2>5, AnyConcat
    <2> HIDE DEF t2, h2
    <2>7. AnySeq(t3) /\ AnySeq(h3)
        BY <2>4, <2>6, AnyConcat
    <2> HIDE DEF t3, h3
    <2>8. AnySeq(t4) /\ AnySeq(h4)
        BY <2>4, <2>7, AnyConcat
    <2> HIDE DEF t4, h4
    <2>9. AnySeq(t5) /\ AnySeq(h5)
        BY <2>4, <2>8, AnyConcat
    <2> HIDE DEF t5, h5
    <2>10. AnySeq(t6) /\ AnySeq(h6)
        BY <1>1, <2>9, AnyConcat
    <2> HIDE DEF t6, h6
    <2>11. (h6 \o a) \o e = h6 \o t1
        <3>1. t1 = a \o e
            BY DEF t1
        <3>2. AnySeq(h6) /\ AnySeq(a) /\ AnySeq(e)
            BY <1>1, <2>4, <2>10
        <3> QED BY ONLY <3>1, <3>2, AnyAssociative
    <2>12. h6 \o t1 = h5 \o t2
        <3>1. h6 = h5 \o r /\ t2 = r \o t1
            BY DEF h6, t2
        <3>2. AnySeq(h5) /\ AnySeq(r) /\ AnySeq(t1)
            BY <1>1, <2>4, <2>5, <2>6, <2>7, <2>8, <2>9, <2>10
        <3> QED BY ONLY <3>1, <3>2, AnyAssociative
    <2>13. h5 \o t2 = h4 \o t3
        <3>1. h5 = h4 \o f2 /\ t3 = f2 \o t2
            BY DEF h5, t3
        <3>2. AnySeq(h4) /\ AnySeq(f2) /\ AnySeq(t2)
            BY <1>1, <2>4, <2>5, <2>6, <2>7, <2>8, <2>9, <2>10
        <3> QED BY ONLY <3>1, <3>2, AnyAssociative
    <2>14. h4 \o t3 = h3 \o t4
        <3>1. h4 = h3 \o q2 /\ t4 = q2 \o t3
            BY DEF h4, t4
        <3>2. AnySeq(h3) /\ AnySeq(q2) /\ AnySeq(t3)
            BY <1>1, <2>4, <2>5, <2>6, <2>7, <2>8, <2>9, <2>10
        <3> QED BY ONLY <3>1, <3>2, AnyAssociative
    <2>15. h3 \o t4 = h2 \o t5
        <3>1. h3 = h2 \o i /\ t5 = i \o t4
            BY DEF h3, t5
        <3>2. AnySeq(h2) /\ AnySeq(i) /\ AnySeq(t4)
            BY <1>1, <2>4, <2>5, <2>6, <2>7, <2>8, <2>9, <2>10
        <3> QED BY ONLY <3>1, <3>2, AnyAssociative
    <2>16. h2 \o t5 = h1 \o t6
        <3>1. h2 = h1 \o r /\ t6 = r \o t5
            BY DEF h2, t6
        <3>2. AnySeq(h1) /\ AnySeq(r) /\ AnySeq(t5)
            BY <1>1, <2>4, <2>5, <2>6, <2>7, <2>8, <2>9, <2>10
        <3> QED BY ONLY <3>1, <3>2, AnyAssociative
    <2>17. h1 \o t6 = q \o (f \o t6)
        <3>1. h1 = q \o f
            BY DEF h1
        <3>2. AnySeq(q) /\ AnySeq(f) /\ AnySeq(t6)
            BY <1>1, <2>4, <2>5, <2>6, <2>7, <2>8, <2>9, <2>10
        <3> QED BY ONLY <3>1, <3>2, AnyAssociative
    <2>18. <<>> \o t6 = t6
        BY <2>10, AnyEmpty
    <2>19. Script(op) = (h6 \o a) \o e
        BY <2>2 DEF h1, h2, h3, h4, h5, h6
    <2>20. Asking(op, 1) = q \o (f \o (<<>> \o t6))
        BY <2>3 DEF t1, t2, t3, t4, t5, t6
    <2> QED BY <2>11, <2>12, <2>13, <2>14, <2>15, <2>16, <2>17, <2>18, <2>19, <2>20
<1> QED BY <1>3, <1>4, <1>5 DEF Methods, Unifying

-----------------------------------------------------------------------------
\* What a step leaves to a system, and what it changes.
Kept(s) ==
    /\ todo'[s] = todo[s] /\ calls'[s] = calls[s] /\ coords'[s] = coords[s]
    /\ buffer'[s] = buffer[s] /\ spaces'[s] = spaces[s] /\ dsguSizes'[s] = dsguSizes[s]

SocketsKept(s) == toManager'[s] = toManager[s] /\ toSystem'[s] = toSystem[s]

Others(s) == \A o \in Systems : o # s => Kept(o) /\ SocketsKept(o)

Grown == \A c \in 1..Len(plan) : c \in 1..Len(plan') /\ plan'[c] = plan[c]

LEMMA KeptWaiting ==
    ASSUME Base, NEW s \in Systems, Kept(s), Grown, NEW k, NEW j, NEW n, Waiting(s, k, j, n)
    PROVE  Waiting(s, k, j, n)'
<1>1. calls[s] \in Nat /\ calls[s] <= Len(plan) /\ k \in Nat \ {0} /\ j \in {1, 2}
    BY DEF Base, Waiting
<1>2. calls[s] > 0 => calls[s] \in 1..Len(plan)
    BY <1>1
<1>3. calls[s] > 0 => plan'[calls[s]] = plan[calls[s]]
    BY <1>2 DEF Grown
<1>4. calls[s] = k => calls[s] > 0
    BY <1>1
<1>5. todo'[s] = todo[s] /\ calls'[s] = calls[s] /\ coords'[s] = coords[s]
    BY DEF Kept
<1>6. Unsent(s, k, j) => Unsent(s, k, j)'
    BY <1>3, <1>4, <1>5 DEF Unsent
<1>7. Sent(s, k, j) => Sent(s, k, j)'
    BY <1>3, <1>4, <1>5 DEF Sent
<1> QED BY <1>1, <1>6, <1>7 DEF Waiting

LEMMA KeptInside ==
    ASSUME NEW R, NEW s, Kept(s), NEW out, NEW in, Inside(R, s, out, in)
    PROVE  Inside(R, s, out, in)'
<1>1. todo'[s] = todo[s] /\ calls'[s] = calls[s] /\ coords'[s] = coords[s] /\ buffer'[s] = buffer[s]
    BY DEF Kept
<1> QED BY <1>1 DEF Inside

LEMMA KeptPosition ==
    ASSUME Base, NEW R, NEW s \in Systems, Kept(s), Grown, NEW out, NEW in, Position(R, s, out, in)
    PROVE  Position(R, s, out, in)'
<1>1. ASSUME NEW k, NEW j, NEW n, Waiting(s, k, j, n) PROVE Waiting(s, k, j, n)'
    BY <1>1, KeptWaiting
<1>2. Inside(R, s, out, in) => Inside(R, s, out, in)'
    BY KeptInside
<1> QED BY <1>1, <1>2 DEF Position

\* The request of a round does not change once a system has made the call.
LEMMA RequestKept ==
    ASSUME Base, Grown, NEW s \in Systems, NEW k, NEW j, Waiting(s, k, j, 1)
    PROVE  RequestOf(k, j)' = RequestOf(k, j) /\ k \in 1..Len(plan)
<1>1. calls[s] \in Nat /\ calls[s] <= Len(plan) /\ k \in Nat \ {0} /\ calls[s] = k
    BY DEF Base, Waiting, Sent
<1>2. k \in 1..Len(plan)
    BY <1>1
<1>3. plan'[k] = plan[k]
    BY <1>2 DEF Grown
<1> QED BY <1>2, <1>3 DEF RequestOf

LEMMA KeptSizes ==
    ASSUME Base, NEW s \in Systems, Kept(s), plan' = plan, SizesOK(s)
    PROVE  SizesOK(s)'
<1>1. todo'[s] = todo[s] /\ calls'[s] = calls[s] /\ spaces'[s] = spaces[s] /\ dsguSizes'[s] = dsguSizes[s]
    BY DEF Kept
<1>2. \A c : Reduced(s, c)' <=> Reduced(s, c)
    BY <1>1 DEF Reduced
<1> QED BY <1>1, <1>2 DEF SizesOK

-----------------------------------------------------------------------------
\* The steps of a system.
LEMMA SendFacts ==
    ASSUME Base, NEW s \in Systems, Send(s)
    PROVE  /\ todo[s] # <<>> /\ todo'[s] = Tail(todo[s])
           /\ \E m : /\ toManager'[s] = Append(toManager[s], m)
                     /\ \/ Head(todo[s]).do = "signal" /\ m = Text(Head(todo[s]).what)
                        \/ /\ Head(todo[s]).do = "sendSize"
                           /\ m = [Text("size") EXCEPT !.size = SizeOf(s, Head(todo[s]).what, Head(todo[s]).piece)]
                        \/ /\ Head(todo[s]).do = "sendBytes"
                           /\ m = [Text("bytes") EXCEPT !.data = Payload(s, Head(todo[s]).what, Head(todo[s]).piece)]
           /\ \A o \in Systems : o # s => todo'[o] = todo[o] /\ toManager'[o] = toManager[o]
           /\ DOMAIN todo' = Systems /\ DOMAIN toManager' = Systems
           /\ UNCHANGED <<brokerVars, toSystem, appVars, dataVars, fileVars, result>>
<1> DEFINE x == Head(todo[s])
           m1 == Text(x.what)
           m2 == [Text("size") EXCEPT !.size = SizeOf(s, x.what, x.piece)]
           m3 == [Text("bytes") EXCEPT !.data = Payload(s, x.what, x.piece)]
<1>1. DOMAIN todo = Systems /\ DOMAIN toManager = Systems
    BY DEF Base
<1>2. /\ \/ At(s, "signal") /\ toManager' = [toManager EXCEPT ![s] = Append(toManager[s], m1)]
         \/ At(s, "sendSize") /\ toManager' = [toManager EXCEPT ![s] = Append(toManager[s], m2)]
         \/ At(s, "sendBytes") /\ toManager' = [toManager EXCEPT ![s] = Append(toManager[s], m3)]
      /\ todo' = [todo EXCEPT ![s] = Tail(todo[s])]
      /\ UNCHANGED <<brokerVars, toSystem, appVars, dataVars, fileVars, result>>
    BY DEF Send, Advance, Now
<1> HIDE DEF m1, m2, m3
<1>3. /\ todo'[s] = Tail(todo[s]) /\ DOMAIN todo' = Systems
      /\ \A o \in Systems : o # s => todo'[o] = todo[o]
    BY <1>1, <1>2
<1>4. ASSUME NEW m, toManager' = [toManager EXCEPT ![s] = Append(toManager[s], m)]
      PROVE  /\ toManager'[s] = Append(toManager[s], m) /\ DOMAIN toManager' = Systems
             /\ \A o \in Systems : o # s => toManager'[o] = toManager[o]
    BY <1>1, <1>4
<1>5. CASE At(s, "signal") /\ toManager' = [toManager EXCEPT ![s] = Append(toManager[s], m1)]
    BY <1>2, <1>3, <1>4, <1>5 DEF At, Now, m1
<1>6. CASE At(s, "sendSize") /\ toManager' = [toManager EXCEPT ![s] = Append(toManager[s], m2)]
    BY <1>2, <1>3, <1>4, <1>6 DEF At, Now, m2
<1>7. CASE At(s, "sendBytes") /\ toManager' = [toManager EXCEPT ![s] = Append(toManager[s], m3)]
    BY <1>2, <1>3, <1>4, <1>7 DEF At, Now, m3
<1> QED BY <1>2, <1>5, <1>6, <1>7

LEMMA ReceiveFacts ==
    ASSUME Base, NEW s \in Systems, Receive(s)
    PROVE  /\ toSystem[s] # <<>> /\ toSystem'[s] = Tail(toSystem[s]) /\ DOMAIN toSystem' = Systems
           /\ \A o \in Systems : o # s => toSystem'[o] = toSystem[o]
BY DEF Base, Receive

LEMMA AdvanceFacts ==
    ASSUME Base, NEW s \in Systems, Advance(s)
    PROVE  /\ todo'[s] = Tail(todo[s]) /\ DOMAIN todo' = Systems
           /\ \A o \in Systems : o # s => todo'[o] = todo[o]
BY DEF Base, Advance

LEMMA FetchFacts ==
    ASSUME Base, NEW s \in Systems, FetchInstruction(s)
    PROVE  /\ todo[s] # <<>> /\ Head(todo[s]).do = "fetch"
           /\ todo'[s] = Role(s, Head(todo[s]).what, Head(toSystem[s]).kind) \o Tail(todo[s])
           /\ \A o \in Systems : o # s => todo'[o] = todo[o]
           /\ DOMAIN todo' = Systems
           /\ Receive(s)
           /\ UNCHANGED <<brokerVars, toManager, appVars, dataVars, fileVars, result>>
<1> DEFINE r == Role(s, Head(todo[s]).what, Head(toSystem[s]).kind)
<1>1. DOMAIN todo = Systems
    BY DEF Base
<1>2. /\ todo' = [todo EXCEPT ![s] = r \o Tail(todo[s])]
      /\ todo[s] # <<>> /\ Head(todo[s]).do = "fetch" /\ Receive(s)
      /\ UNCHANGED <<brokerVars, toManager, appVars, dataVars, fileVars, result>>
    BY DEF FetchInstruction, At, Now
<1> HIDE DEF r
<1>3. /\ todo'[s] = r \o Tail(todo[s]) /\ DOMAIN todo' = Systems
      /\ \A o \in Systems : o # s => todo'[o] = todo[o]
    BY <1>1, <1>2
<1> QED BY <1>2, <1>3 DEF r

LEMMA BytesFacts ==
    ASSUME Base, NEW s \in Systems, ReceiveBytes(s), NEW x, x = Head(todo[s]),
           NEW data, data = Head(toSystem[s]).data
    PROVE  /\ todo[s] # <<>> /\ x.do = "recvBytes" /\ Receive(s) /\ Advance(s)
           /\ x.how = "keep" => buffer'[s] = data
           /\ x.how # "keep" => buffer' = buffer
           /\ x.how = "adopt" => coords'[s] = CHOOSE c \in data : TRUE
           /\ x.how # "adopt" => coords' = coords
           /\ DOMAIN buffer' = Systems /\ DOMAIN coords' = Systems
           /\ \A o \in Systems : o # s => buffer'[o] = buffer[o] /\ coords'[o] = coords[o]
           /\ UNCHANGED <<brokerVars, toManager, appVars, spaces, dsguSizes, values, fileVars, result>>
<1> DEFINE c0 == CHOOSE c \in data : TRUE
<1>1. DOMAIN buffer = Systems /\ DOMAIN coords = Systems
    BY DEF Base
<1>2. /\ todo[s] # <<>> /\ x.do = "recvBytes" /\ Receive(s) /\ Advance(s)
      /\ UNCHANGED <<brokerVars, toManager, appVars, spaces, dsguSizes, values, fileVars, result>>
    BY DEF ReceiveBytes, At, Now
<1>3. \/ x.how \in {"wait", "compare", "replace", "add"} /\ buffer' = buffer /\ coords' = coords
      \/ x.how = "keep" /\ buffer' = [buffer EXCEPT ![s] = data] /\ coords' = coords
      \/ x.how = "adopt" /\ coords' = [coords EXCEPT ![s] = c0] /\ buffer' = buffer
    BY DEF ReceiveBytes, Now
<1> HIDE DEF c0
<1>4. /\ x.how = "keep" => buffer'[s] = data
      /\ x.how # "keep" => buffer' = buffer
      /\ x.how = "adopt" => coords'[s] = c0
      /\ x.how # "adopt" => coords' = coords
      /\ DOMAIN buffer' = Systems /\ DOMAIN coords' = Systems
      /\ \A o \in Systems : o # s => buffer'[o] = buffer[o] /\ coords'[o] = coords[o]
    BY <1>1, <1>3
<1> QED BY <1>2, <1>4 DEF c0

LEMMA ReduceFacts ==
    ASSUME Base, NEW s \in Systems, ReduceSizes(s)
    PROVE  /\ todo[s] # <<>> /\ Head(todo[s]).do \in {"reduceMax", "reduceMin"} /\ Advance(s)
           /\ Head(todo[s]).do = "reduceMax" => dsguSizes'[s] = spaces[s] \cup buffer[s]
           /\ Head(todo[s]).do = "reduceMin" => dsguSizes'[s] = spaces[s] \cap buffer[s]
           /\ DOMAIN spaces' = Systems /\ DOMAIN dsguSizes' = Systems
           /\ \A o \in Systems : o # s => spaces'[o] = spaces[o] /\ dsguSizes'[o] = dsguSizes[o]
           /\ UNCHANGED <<brokerVars, socketVars, appVars, grid, coords, values, buffer, fileVars, result>>
BY DEF Base, ReduceSizes, At, Now

LEMMA CallFacts ==
    ASSUME Base, PlanOK, NEW s \in Systems, NEW op \in Operations \cup {"finalize"}, Call(s, op),
           NEW k, k = calls[s] + 1
    PROVE  /\ todo[s] = <<>> /\ (calls[s] > 0 => plan[calls[s]] # "finalize")
           /\ k \in 1..Len(plan') /\ plan'[k] = op /\ op \in Methods \cup {"finalize"}
           /\ Grown /\ plan' \in Seq(Methods \cup {"finalize"})
           /\ \/ plan' = plan
              \/ plan' = Append(plan, op) /\ k = Len(plan) + 1 /\ Len(plan') = k
                 /\ (op # "finalize" => SizesKnown(op))
           /\ calls'[s] = k /\ todo'[s] = Script(op)
           /\ op = "monteCarloThirdLevel" => coords'[s] = <<s, k>>
           /\ op # "monteCarloThirdLevel" => coords' = coords
           /\ DOMAIN todo' = Systems /\ DOMAIN coords' = Systems /\ calls' \in [Systems -> Nat]
           /\ \A o \in Systems : o # s => todo'[o] = todo[o] /\ calls'[o] = calls[o] /\ coords'[o] = coords[o]
           /\ UNCHANGED <<brokerVars, socketVars, debug, spaces, dsguSizes, buffer>>
<1>1. /\ DOMAIN todo = Systems /\ DOMAIN coords = Systems /\ calls \in [Systems -> Nat]
      /\ calls[s] \in Nat /\ calls[s] <= Len(plan) /\ k \in Nat \ {0}
      /\ plan \in Seq(Methods \cup {"finalize"}) /\ Len(plan) \in Nat
    BY DEF Base, PlanOK
<1>2. op \in Methods \cup {"finalize"}
    BY ThirdLevelAssumption DEF Methods
<1>3. /\ todo[s] = <<>> /\ (calls[s] > 0 => plan[calls[s]] # "finalize")
      /\ IF k <= Len(plan) THEN op = plan[k] /\ plan' = plan
         ELSE (op # "finalize" => SizesKnown(op)) /\ plan' = Append(plan, op)
      /\ calls' = [calls EXCEPT ![s] = k]
      /\ todo' = [todo EXCEPT ![s] = Script(op)]
      /\ coords' = IF op = "monteCarloThirdLevel" THEN [coords EXCEPT ![s] = <<s, k>>] ELSE coords
      /\ UNCHANGED <<brokerVars, socketVars, debug, spaces, dsguSizes, buffer>>
    BY DEF Call
<1>4. /\ k \in 1..Len(plan') /\ plan'[k] = op
      /\ Grown /\ plan' \in Seq(Methods \cup {"finalize"})
      /\ \/ plan' = plan
         \/ plan' = Append(plan, op) /\ k = Len(plan) + 1 /\ Len(plan') = k /\ (op # "finalize" => SizesKnown(op))
    <2>1. CASE k <= Len(plan)
        BY <1>1, <1>3, <2>1 DEF Grown
    <2>2. CASE ~(k <= Len(plan))
        <3>1. plan' = Append(plan, op) /\ k = Len(plan) + 1 /\ (op # "finalize" => SizesKnown(op))
            BY <1>1, <1>3, <2>2
        <3>2. Len(plan') = k /\ plan'[k] = op /\ plan' \in Seq(Methods \cup {"finalize"})
              /\ \A c \in 1..Len(plan) : plan'[c] = plan[c]
            BY <1>1, <1>2, <3>1
        <3>3. Grown
            BY <1>1, <3>1, <3>2 DEF Grown
        <3> QED BY <1>1, <3>1, <3>2, <3>3
    <2> QED BY <2>1, <2>2
<1> HIDE DEF Script
<1>5. /\ calls'[s] = k /\ todo'[s] = Script(op)
      /\ DOMAIN todo' = Systems /\ calls' \in [Systems -> Nat]
      /\ \A o \in Systems : o # s => todo'[o] = todo[o] /\ calls'[o] = calls[o]
    BY <1>1, <1>3
<1>6. /\ op = "monteCarloThirdLevel" => coords'[s] = <<s, k>>
      /\ op # "monteCarloThirdLevel" => coords' = coords
      /\ DOMAIN coords' = Systems
      /\ \A o \in Systems : o # s => coords'[o] = coords[o]
    BY <1>1, <1>3
<1> QED BY <1>2, <1>3, <1>4, <1>5, <1>6

LEMMA SimpleFacts ==
    ASSUME NEW s \in Systems, InterpolateValues(s) \/ WriteFile(s) \/ ReadReduce(s) \/ Return(s)
    PROVE  /\ todo[s] # <<>> /\ Head(todo[s]).do \in {"interpolate", "addUp", "write", "readReduce", "return"}
           /\ Advance(s)
           /\ UNCHANGED <<brokerVars, socketVars, appVars, spaces, dsguSizes, coords, buffer>>
<1>1. CASE InterpolateValues(s)
    BY <1>1 DEF InterpolateValues, At, Now
<1>2. CASE WriteFile(s)
    BY <1>2 DEF WriteFile, At, Now, dataVars
<1>3. CASE ReadReduce(s)
    BY <1>3 DEF ReadReduce, At, Now
<1>4. CASE Return(s)
    BY <1>4 DEF Return, At, Now, dataVars
<1> QED BY <1>1, <1>2, <1>3, <1>4

LEMMA SizeFacts ==
    ASSUME NEW s \in Systems, ReceiveSize(s)
    PROVE  /\ todo[s] # <<>> /\ Head(todo[s]).do = "recvSize"
           /\ Receive(s) /\ Advance(s)
           /\ UNCHANGED <<brokerVars, toManager, appVars, spaces, dsguSizes, coords, buffer>>
BY DEF ReceiveSize, At, Now, dataVars

SystemMoves(s) == SystemStep(s) \/ CallMethod(s)

Frame(s) ==
    /\ Others(s) /\ Grown /\ Base'
    /\ UNCHANGED <<brokerVars, debug>>

\* A step of one system is seen by that system only.
LEMMA SystemFrame ==
    ASSUME Base, PlanOK, NEW s \in Systems, SystemMoves(s)
    PROVE  Frame(s)
<1> DEFINE Rest0 == /\ DOMAIN todo' = Systems
                    /\ \A o \in Systems : o # s => todo'[o] = todo[o]
           Same == UNCHANGED <<calls, coords, buffer, spaces, dsguSizes, plan, debug, brokerVars>>
           Sockets == UNCHANGED <<toManager, toSystem>>
<1>1. /\ calls \in [Systems -> Nat] /\ \A o \in Systems : calls[o] <= Len(plan)
      /\ debug \in {{}, Systems}
      /\ DOMAIN toManager = Systems /\ DOMAIN toSystem = Systems /\ DOMAIN todo = Systems
      /\ DOMAIN coords = Systems /\ DOMAIN buffer = Systems /\ DOMAIN spaces = Systems /\ DOMAIN dsguSizes = Systems
      /\ \A o \in Systems : AnySeq(toManager[o]) /\ AnySeq(toSystem[o])
    BY DEF Base
<1>2. plan' = plan => Grown
    BY DEF Grown
<1>3. ASSUME Receive(s)
      PROVE  DOMAIN toSystem' = Systems /\ (\A o \in Systems : AnySeq(toSystem'[o])) /\ (\A o \in Systems : o # s => toSystem'[o] = toSystem[o])
    <2>1. /\ toSystem[s] # <<>> /\ toSystem'[s] = Tail(toSystem[s]) /\ DOMAIN toSystem' = Systems
          /\ \A o \in Systems : o # s => toSystem'[o] = toSystem[o]
        BY <1>3, ReceiveFacts
    <2>2. AnySeq(toSystem'[s])
        BY <1>1, <2>1, AnyTail
    <2>3. \A o \in Systems : o # s => AnySeq(toSystem'[o])
        BY <1>1, <2>1
    <2> QED BY <2>1, <2>2, <2>3
<1>4. CASE Send(s)
    <2>1. /\ Rest0 /\ Same /\ toSystem' = toSystem /\ DOMAIN toManager' = Systems
          /\ \A o \in Systems : o # s => toManager'[o] = toManager[o]
          /\ \E m : toManager'[s] = Append(toManager[s], m)
        BY <1>4, SendFacts DEF appVars, dataVars
    <2>2. AnySeq(toManager'[s])
        BY <1>1, <2>1, AnyAppend
    <2>3. \A o \in Systems : AnySeq(toManager'[o])
        BY <1>1, <2>1, <2>2
    <2>4. Base'
        BY <1>1, <2>1, <2>3 DEF Base
    <2> QED BY <1>2, <2>1, <2>4 DEF Frame, Others, Kept, SocketsKept
<1>5. CASE FetchInstruction(s)
    <2>1. Rest0 /\ Same /\ toManager' = toManager /\ Receive(s)
        BY <1>5, FetchFacts DEF appVars, dataVars
    <2>2. Base'
        BY <1>1, <1>3, <2>1 DEF Base
    <2> QED BY <1>2, <1>3, <2>1, <2>2 DEF Frame, Others, Kept, SocketsKept
<1>6. CASE ReceiveSize(s)
    <2>1. Rest0 /\ Same /\ toManager' = toManager /\ Receive(s)
        BY <1>6, SizeFacts, AdvanceFacts DEF appVars
    <2>2. Base'
        BY <1>1, <1>3, <2>1 DEF Base
    <2> QED BY <1>2, <1>3, <2>1, <2>2 DEF Frame, Others, Kept, SocketsKept
<1>7. CASE ReceiveBytes(s)
    <2>1. /\ Receive(s) /\ Advance(s) /\ DOMAIN buffer' = Systems /\ DOMAIN coords' = Systems
          /\ \A o \in Systems : o # s => buffer'[o] = buffer[o] /\ coords'[o] = coords[o]
          /\ UNCHANGED <<brokerVars, toManager, appVars, spaces, dsguSizes, values, fileVars, result>>
        BY <1>7, BytesFacts
    <2>2. Rest0 /\ plan' = plan /\ calls' = calls /\ debug' = debug
        BY <2>1, AdvanceFacts DEF appVars
    <2>3. Base'
        BY <1>1, <1>3, <2>1, <2>2 DEF Base
    <2> QED BY <1>2, <1>3, <2>1, <2>2, <2>3 DEF Frame, Others, Kept, SocketsKept
<1>8. CASE ReduceSizes(s)
    <2>1. /\ Advance(s) /\ DOMAIN spaces' = Systems /\ DOMAIN dsguSizes' = Systems
          /\ \A o \in Systems : o # s => spaces'[o] = spaces[o] /\ dsguSizes'[o] = dsguSizes[o]
          /\ UNCHANGED <<brokerVars, socketVars, appVars, grid, coords, values, buffer, fileVars, result>>
        BY <1>8, ReduceFacts
    <2>2. Rest0 /\ plan' = plan /\ calls' = calls /\ debug' = debug /\ Sockets
        BY <2>1, AdvanceFacts DEF appVars, socketVars
    <2>3. Base'
        BY <1>1, <2>1, <2>2 DEF Base
    <2> QED BY <1>2, <2>1, <2>2, <2>3 DEF Frame, Others, Kept, SocketsKept
<1>9. CASE InterpolateValues(s) \/ WriteFile(s) \/ ReadReduce(s) \/ Return(s)
    <2>1. Rest0 /\ Same /\ Sockets
        BY <1>9, SimpleFacts, AdvanceFacts DEF appVars, socketVars
    <2>2. Base'
        BY <1>1, <2>1 DEF Base
    <2> QED BY <1>2, <2>1, <2>2 DEF Frame, Others, Kept, SocketsKept
<1>10. CASE CallMethod(s)
    <2>1. PICK op \in Operations \cup {"finalize"} : Call(s, op)
        BY <1>10 DEF CallMethod
    <2> DEFINE k == calls[s] + 1
    <2>2. /\ k \in 1..Len(plan') /\ Grown /\ calls'[s] = k
          /\ Rest0 /\ DOMAIN coords' = Systems /\ calls' \in [Systems -> Nat]
          /\ \A o \in Systems : o # s => calls'[o] = calls[o] /\ coords'[o] = coords[o]
          /\ UNCHANGED <<brokerVars, socketVars, debug, spaces, dsguSizes, buffer>>
        BY <2>1, CallFacts
    <2>3. plan' \in Seq(Methods \cup {"finalize"}) /\ (plan' = plan \/ Len(plan') = Len(plan) + 1)
        BY <2>1, CallFacts
    <2>4. Len(plan) \in Nat /\ Len(plan') \in Nat /\ Len(plan) <= Len(plan')
        BY <2>3 DEF PlanOK
    <2>5. \A o \in Systems : calls'[o] <= Len(plan')
        <3> SUFFICES ASSUME NEW o \in Systems PROVE calls'[o] <= Len(plan')
            OBVIOUS
        <3>1. CASE o = s
            BY <2>2, <3>1
        <3>2. CASE o # s
            <4>1. calls'[o] = calls[o] /\ calls[o] <= Len(plan) /\ calls[o] \in Nat
                BY <1>1, <2>2, <3>2
            <4> QED BY <2>4, <4>1
        <3> QED BY <3>1, <3>2
    <2>6. Base'
        BY <1>1, <2>2, <2>5 DEF Base, socketVars
    <2> QED BY <2>2, <2>6 DEF Frame, Others, Kept, SocketsKept, socketVars
<1> QED BY <1>4, <1>5, <1>6, <1>7, <1>8, <1>9, <1>10 DEF SystemMoves, SystemStep

-----------------------------------------------------------------------------
\* The step a system executes is the one its method says.
LEMMA MoveIs ==
    ASSUME NEW s \in Systems, SystemMoves(s), NEW x, x = Head(todo[s])
    PROVE  /\ todo[s] = <<>> => CallMethod(s)
           /\ todo[s] # <<>> =>
                /\ x.do \in {"signal", "sendSize", "sendBytes"} => Send(s)
                /\ x.do = "fetch" => FetchInstruction(s)
                /\ x.do = "recvSize" => ReceiveSize(s)
                /\ x.do = "recvBytes" => ReceiveBytes(s)
                /\ x.do \in {"reduceMax", "reduceMin"} => ReduceSizes(s)
                /\ x.do \in {"interpolate", "addUp", "write", "readReduce", "return"} =>
                     InterpolateValues(s) \/ WriteFile(s) \/ ReadReduce(s) \/ Return(s)
<1> DEFINE does(d) == todo[s] # <<>> /\ x.do = d
<1>1. CASE Send(s)
    <2>1. does("signal") \/ does("sendSize") \/ does("sendBytes")
        BY <1>1 DEF Send, At, Now
    <2> QED BY <1>1, <2>1
<1>2. CASE FetchInstruction(s)
    <2>1. does("fetch")
        BY <1>2 DEF FetchInstruction, At, Now
    <2> QED BY <1>2, <2>1
<1>3. CASE ReceiveSize(s)
    <2>1. does("recvSize")
        BY <1>3 DEF ReceiveSize, At, Now
    <2> QED BY <1>3, <2>1
<1>4. CASE ReceiveBytes(s)
    <2>1. does("recvBytes")
        BY <1>4 DEF ReceiveBytes, At, Now
    <2> QED BY <1>4, <2>1
<1>5. CASE ReduceSizes(s)
    <2>1. does("reduceMax") \/ does("reduceMin")
        BY <1>5 DEF ReduceSizes, At, Now
    <2> QED BY <1>5, <2>1
<1>6. CASE InterpolateValues(s) \/ WriteFile(s) \/ ReadReduce(s) \/ Return(s)
    <2>1. todo[s] # <<>> /\ x.do \in {"interpolate", "addUp", "write", "readReduce", "return"}
        BY <1>6, SimpleFacts
    <2> QED BY <1>6, <2>1
<1>7. CASE CallMethod(s)
    <2>1. todo[s] = <<>>
        BY <1>7 DEF CallMethod, Call
    <2> QED BY <1>7, <2>1
<1> QED BY <1>1, <1>2, <1>3, <1>4, <1>5, <1>6, <1>7 DEF SystemMoves, SystemStep

LEMMA SignalMove ==
    ASSUME Base, NEW s \in Systems, SystemMoves(s), todo[s] # <<>>, NEW text, Head(todo[s]) = SignalStep(text)
    PROVE  /\ todo'[s] = Tail(todo[s]) /\ toManager'[s] = Append(toManager[s], Text(text))
           /\ UNCHANGED <<toSystem, plan, calls, coords, buffer, spaces, dsguSizes>>
<1> DEFINE x == Head(todo[s])
<1>0. x = Step("signal", text, None, "")
    BY DEF SignalStep
<1> HIDE DEF x
<1>1. x.do = "signal" /\ x.what = text
    BY ONLY <1>0 DEF Step
<1>2. Send(s)
    BY <1>1, MoveIs DEF x
<1>3. /\ todo'[s] = Tail(todo[s])
      /\ UNCHANGED <<brokerVars, toSystem, appVars, dataVars, fileVars, result>>
      /\ \E m : /\ toManager'[s] = Append(toManager[s], m)
                /\ \/ x.do = "signal" /\ m = Text(x.what)
                   \/ x.do = "sendSize"
                   \/ x.do = "sendBytes"
    BY <1>2, SendFacts DEF x
<1>4. toManager'[s] = Append(toManager[s], Text(text))
    BY <1>1, <1>3
<1> QED BY <1>3, <1>4 DEF appVars, dataVars

LEMMA LocalMove ==
    ASSUME Base, NEW s \in Systems, SystemMoves(s), todo[s] # <<>>,
           NEW do \in {"interpolate", "addUp", "return"}, Head(todo[s]) = LocalStep(do)
    PROVE  /\ todo'[s] = Tail(todo[s])
           /\ UNCHANGED <<toManager, toSystem, plan, calls, coords, buffer, spaces, dsguSizes>>
<1> DEFINE x == Head(todo[s])
<1>0. x = Step(do, "", None, "")
    BY DEF LocalStep
<1>2. x = Head(todo[s])
    OBVIOUS
<1> HIDE DEF x
<1>1. x.do = do
    BY ONLY <1>0 DEF Step
<1>3. /\ x.do \in {"interpolate", "addUp", "write", "readReduce", "return"} =>
           InterpolateValues(s) \/ WriteFile(s) \/ ReadReduce(s) \/ Return(s)
    BY ONLY <1>2, todo[s] # <<>>, s \in Systems, SystemMoves(s), MoveIs
<1>4. InterpolateValues(s) \/ WriteFile(s) \/ ReadReduce(s) \/ Return(s)
    BY <1>1, <1>3
<1> QED BY <1>4, SimpleFacts, AdvanceFacts DEF socketVars, appVars

LEMMA CallMove ==
    ASSUME Base, PlanOK, NEW s \in Systems, SystemMoves(s), todo[s] = <<>>,
           NEW k, k = calls[s] + 1
    PROVE  \E op \in Methods \cup {"finalize"} :
             /\ Call(s, op) /\ op \in Operations \cup {"finalize"}
             /\ (calls[s] > 0 => plan[calls[s]] # "finalize")
             /\ plan'[k] = op /\ k \in 1..Len(plan')
             /\ calls'[s] = k /\ todo'[s] = Script(op)
             /\ op = "monteCarloThirdLevel" => coords'[s] = <<s, k>>
             /\ UNCHANGED <<toManager, toSystem, buffer, spaces, dsguSizes>>
<1>1. PICK op \in Operations \cup {"finalize"} : Call(s, op)
    BY MoveIs DEF CallMethod
<1>2. /\ (calls[s] > 0 => plan[calls[s]] # "finalize")
      /\ plan'[k] = op /\ k \in 1..Len(plan') /\ op \in Methods \cup {"finalize"}
      /\ calls'[s] = k /\ todo'[s] = Script(op)
      /\ op = "monteCarloThirdLevel" => coords'[s] = <<s, k>>
      /\ UNCHANGED <<brokerVars, socketVars, debug, spaces, dsguSizes, buffer>>
    BY <1>1, CallFacts
<1> QED BY <1>1, <1>2 DEF socketVars

\* A system between two rounds goes on by itself, asks, or is told its role.
Stays(s, k, j, n) == Waiting(s, k, j, n)' /\ toManager'[s] = toManager[s] /\ toSystem'[s] = toSystem[s]

Asks(s, k, j, n) ==
    /\ n = 0 /\ Waiting(s, k, j, 1)' /\ toSystem'[s] = toSystem[s]
    /\ \E m : toManager'[s] = Append(toManager[s], m) /\ m.kind = RequestOf(k, j)'

IsTold(s, k, j, n) ==
    /\ n = 1 /\ FetchInstruction(s) /\ plan[k] \in Methods /\ k <= Len(plan)
    /\ calls[s] = k /\ todo[s] = Fetching(plan[k], j) /\ (j = 2 => plan[k] = "monteCarloThirdLevel")
    /\ plan[k] = "monteCarloThirdLevel" /\ j = 1 => coords[s] = <<s, k>>

LEMMA UnsentMoves ==
    ASSUME Base, PlanOK, NEW s \in Systems, SystemMoves(s), NEW k \in Nat \ {0}, NEW j \in {1, 2}, Unsent(s, k, j)
    PROVE  Stays(s, k, j, 0) \/ Asks(s, k, j, 0)
<1> DEFINE c == calls[s]
           op == plan[k]
<1>1. c \in Nat /\ c <= Len(plan)
    BY DEF Base
<1>2. "finalize" \notin Methods
    BY DEF Methods
<1>3. CASE j = 1 /\ c = k - 1 /\ todo[s] = <<>>
    <2>1. k = c + 1
        BY <1>1, <1>3
    <2>2. PICK p \in Methods \cup {"finalize"} :
             /\ plan'[k] = p
             /\ calls'[s] = k /\ todo'[s] = Script(p)
             /\ p = "monteCarloThirdLevel" => coords'[s] = <<s, k>>
             /\ UNCHANGED <<toManager, toSystem, buffer, spaces, dsguSizes>>
        BY <1>3, <2>1, CallMove
    <2>3. p \in Methods => Script(p) = Asking(p, 1)
        BY ScriptIs
    <2>4. Unsent(s, k, j)'
        BY <1>3, <2>2, <2>3 DEF Unsent
    <2> QED BY <2>2, <2>4 DEF Stays, Waiting
<1>4. CASE /\ j = 1 /\ c = k - 1 /\ c > 0 /\ plan[c] \in Methods
           /\ todo[s] \in {Finish(plan[c]), Local("return")}
    <2> DEFINE f == plan[c]
    <2>1. CASE todo[s] = Local("return")
        <3>1. todo'[s] = <<>> /\ UNCHANGED <<toManager, toSystem, plan, calls, coords>>
            BY <2>1, FinishIs, LocalMove
        <3>2. Unsent(s, k, j)'
            BY <1>4, <3>1 DEF Unsent
        <3> QED BY <3>1, <3>2 DEF Stays, Waiting
    <2>2. CASE todo[s] # Local("return")
        <3>1. todo[s] = Finish(f) /\ f = "monteCarloThirdLevel"
            BY <1>4, <2>2, FinishIs
        <3>2. todo[s] # <<>> /\ Head(todo[s]) = LocalStep("addUp") /\ Tail(todo[s]) = Local("return")
            BY <3>1, FinishIs
        <3>3. todo'[s] = Local("return") /\ UNCHANGED <<toManager, toSystem, plan, calls, coords>>
            BY <3>2, LocalMove
        <3>4. Unsent(s, k, j)'
            BY <1>4, <3>3 DEF Unsent
        <3> QED BY <3>3, <3>4 DEF Stays, Waiting
    <2> QED BY <2>1, <2>2
<1>5. CASE j = 1 /\ c = k /\ op = "finalize" /\ todo[s] = Script("finalize")
    <2>1. /\ todo'[s] = Local("return") /\ toManager'[s] = Append(toManager[s], Text("finished_computation"))
          /\ UNCHANGED <<toSystem, plan, calls, coords>>
        BY <1>5, FinalizeIs, SignalMove
    <2>2. Sent(s, k, j)'
        BY <1>5, <2>1 DEF Sent
    <2>3. RequestOf(k, j)' = "finished_computation"
        BY <1>5, <2>1 DEF RequestOf
    <2>4. Text("finished_computation").kind = "finished_computation"
        BY DEF Text
    <2>5. Waiting(s, k, j, 1)'
        BY <2>2 DEF Waiting
    <2> QED BY <2>1, <2>3, <2>4, <2>5 DEF Asks
<1>6. CASE /\ c = k /\ op \in Methods /\ (j = 2 => op = "monteCarloThirdLevel")
           /\ todo[s] = Asking(op, j)
           /\ op = "monteCarloThirdLevel" /\ j = 1 => coords[s] = <<s, k>>
    <2> DEFINE r == RequestFor(What(op, j))
    <2>1. /\ todo'[s] = Fetching(op, j) /\ toManager'[s] = Append(toManager[s], Text(r))
          /\ UNCHANGED <<toSystem, plan, calls, coords>>
        BY <1>6, AskingIs, SignalMove
    <2>2. Sent(s, k, j)'
        BY <1>6, <2>1 DEF Sent
    <2>3. RequestOf(k, j)' = r
        BY <1>2, <1>6, <2>1 DEF RequestOf
    <2>4. Text(r).kind = r
        BY DEF Text
    <2>5. Waiting(s, k, j, 1)'
        BY <2>2 DEF Waiting
    <2> HIDE DEF r
    <2> QED BY <2>1, <2>3, <2>4, <2>5 DEF Asks
<1>7. CASE j = 2 /\ c = k /\ op = "monteCarloThirdLevel" /\ todo[s] = Rest(op, 1)
    <2>1. todo'[s] = Asking(op, 2) /\ UNCHANGED <<toManager, toSystem, plan, calls, coords>>
        BY <1>7, RestIs, LocalMove
    <2>2. Unsent(s, k, j)'
        BY <1>7, <2>1 DEF Unsent, Methods
    <2> QED BY <2>1, <2>2 DEF Stays, Waiting
<1> QED BY <1>3, <1>4, <1>5, <1>6, <1>7 DEF Unsent

LEMMA SentMoves ==
    ASSUME Base, PlanOK, NEW s \in Systems, SystemMoves(s), NEW k \in Nat \ {0}, NEW j \in {1, 2}, Sent(s, k, j)
    PROVE  Stays(s, k, j, 1) \/ IsTold(s, k, j, 1)
<1> DEFINE op == plan[k]
<1>1. calls[s] \in Nat /\ calls[s] <= Len(plan)
    BY DEF Base
<1>2. CASE /\ calls[s] = k /\ op \in Methods /\ (j = 2 => op = "monteCarloThirdLevel")
           /\ todo[s] = Fetching(op, j)
           /\ op = "monteCarloThirdLevel" /\ j = 1 => coords[s] = <<s, k>>
    <2>1. todo[s] # <<>> /\ Head(todo[s]) = Step("fetch", What(op, j), None, "")
        BY <1>2, FetchingIs
    <2> DEFINE x == Head(todo[s])
    <2>0. x = Step("fetch", What(op, j), None, "")
        BY <2>1
    <2> HIDE DEF x
    <2>2. x.do = "fetch"
        BY ONLY <2>0 DEF Step
    <2>3. FetchInstruction(s)
        BY <2>1, <2>2, MoveIs DEF x
    <2> QED BY <1>1, <1>2, <2>3 DEF IsTold
<1>3. CASE j = 1 /\ calls[s] = k /\ op = "finalize" /\ todo[s] = Local("return")
    <2>1. todo'[s] = <<>> /\ UNCHANGED <<toManager, toSystem, plan, calls, coords>>
        BY <1>3, FinishIs, LocalMove
    <2>2. Sent(s, k, j)'
        BY <1>3, <2>1 DEF Sent
    <2> QED BY <2>1, <2>2 DEF Stays, Waiting
<1>4. CASE j = 1 /\ calls[s] = k /\ op = "finalize" /\ todo[s] = <<>>
    <2>1. calls[s] > 0 => plan[calls[s]] # "finalize"
        BY <1>4, CallMove
    <2> QED BY <1>1, <1>4, <2>1
<1> QED BY <1>2, <1>3, <1>4 DEF Sent

LEMMA WaitingMoves ==
    ASSUME Base, PlanOK, NEW s \in Systems, SystemMoves(s), NEW k, NEW j, NEW n, Waiting(s, k, j, n)
    PROVE  Stays(s, k, j, n) \/ Asks(s, k, j, n) \/ IsTold(s, k, j, n)
<1>1. k \in Nat \ {0} /\ j \in {1, 2}
    BY DEF Waiting
<1>2. CASE n = 0 /\ Unsent(s, k, j)
    BY <1>1, <1>2, UnsentMoves
<1>3. CASE n = 1 /\ Sent(s, k, j)
    BY <1>1, <1>3, SentMoves
<1> QED BY <1>2, <1>3 DEF Waiting

-----------------------------------------------------------------------------
\* The messages in the sockets, as they are sent and received.
LEMMA IncomingTaken ==
    ASSUME NEW R, NEW s \in Systems, NEW in \in Nat, NEW given \in Nat, Incoming(R, s, in, given),
           AnySeq(toSystem[s]), toSystem[s] # <<>>, toSystem'[s] = Tail(toSystem[s])
    PROVE  /\ Fits(Head(toSystem[s]), InSlot(R, s, in + 1)) /\ in + 1 <= given
           /\ Incoming(R, s, in + 1, given)'
<1> DEFINE q == toSystem[s]
           t == Tail(q)
<1>1. /\ AnySeq(t) /\ Len(q) \in Nat /\ Len(q) > 0 /\ Len(t) = Len(q) - 1
      /\ Head(q) = q[1] /\ \A n \in 1..(Len(q) - 1) : t[n] = q[n + 1]
    BY AnyTail
<1>2. Len(q) = given - in /\ \A n \in 1..Len(q) : Fits(q[n], InSlot(R, s, in + n))
    BY DEF Incoming
<1>3. toSystem'[s] = t
    OBVIOUS
<1> HIDE DEF q, t
<1>4. Fits(Head(q), InSlot(R, s, in + 1)) /\ in + 1 <= given
    BY <1>1, <1>2
<1>5. Len(t) = given - (in + 1)
    BY <1>1, <1>2
<1>6. ASSUME NEW n \in 1..Len(t) PROVE Fits(t[n], InSlot(R, s, (in + 1) + n))
    <2>1. n \in 1..(Len(q) - 1) /\ n + 1 \in 1..Len(q) /\ (in + 1) + n = in + (n + 1)
        BY <1>1
    <2>2. t[n] = q[n + 1]
        BY <1>1, <2>1
    <2>3. Fits(q[n + 1], InSlot(R, s, in + (n + 1)))
        BY <1>2, <2>1
    <2> QED BY <2>1, <2>2, <2>3
<1>7. Incoming(R, s, in + 1, given)'
    BY <1>3, <1>5, <1>6 DEF Incoming
<1> QED BY <1>4, <1>7 DEF q

LEMMA IncomingKept ==
    ASSUME NEW R, NEW s, NEW in, NEW given, Incoming(R, s, in, given), toSystem'[s] = toSystem[s]
    PROVE  Incoming(R, s, in, given)'
BY DEF Incoming

LEMMA OutgoingSent ==
    ASSUME NEW R, NEW s \in Systems, NEW out \in Nat, NEW taken \in Nat, Outgoing(R, s, out, taken),
           AnySeq(toManager[s]), NEW m, toManager'[s] = Append(toManager[s], m),
           OutEnd(R, s) \in Nat, out + 1 <= OutEnd(R, s), Fits(m, OutSlot(R, s, out + 1))
    PROVE  Outgoing(R, s, out + 1, taken)'
<1> DEFINE q == toManager[s]
           a == Append(q, m)
           e == OutEnd(R, s)
<1>1. /\ Len(q) \in Nat /\ Len(a) = Len(q) + 1
      /\ (\A n \in 1..Len(q) : a[n] = q[n]) /\ a[Len(q) + 1] = m
    BY AnyAppend
<1>2. Len(q) = out - taken /\ \A n \in 1..Len(q) : taken + n <= e => Fits(q[n], OutSlot(R, s, taken + n))
    BY DEF Outgoing
<1>3. toManager'[s] = a
    OBVIOUS
<1> HIDE DEF q, a
<1>4. Len(a) = (out + 1) - taken
    BY <1>1, <1>2
<1>5. ASSUME NEW n \in 1..Len(a) PROVE taken + n <= e /\ Fits(a[n], OutSlot(R, s, taken + n))
    <2>1. taken + n <= e
        BY <1>1, <1>2
    <2>2. CASE n = Len(q) + 1
        <3>1. taken + n = out + 1
            BY <1>1, <1>2, <2>2
        <3>2. a[n] = m
            BY <1>1, <2>2
        <3> QED BY <2>1, <3>1, <3>2
    <2>3. CASE n \in 1..Len(q)
        BY <1>1, <1>2, <2>1, <2>3
    <2> QED BY <1>1, <2>2, <2>3
<1>6. \A n \in 1..Len(a) : ~(taken + n > e)
    <2> SUFFICES ASSUME NEW n \in 1..Len(a) PROVE ~(taken + n > e)
        OBVIOUS
    <2>1. taken + n <= e /\ n \in Nat
        BY <1>1, <1>5
    <2> HIDE DEF e
    <2>2. e \in Nat
        BY DEF e
    <2> QED BY <2>1, <2>2
<1> HIDE DEF e
<1>7. /\ Len(a) = (out + 1) - taken
      /\ \A n \in 1..Len(a) : /\ taken + n <= e => Fits(a[n], OutSlot(R, s, taken + n))
                              /\ taken + n > e => FALSE
    BY <1>4, <1>5, <1>6
<1> QED BY <1>3, <1>7 DEF Outgoing, e

LEMMA OutgoingAsked ==
    ASSUME NEW R, NEW s \in Systems, NEW out \in Nat, NEW taken \in Nat, Outgoing(R, s, out, taken),
           AnySeq(toManager[s]), NEW m, toManager'[s] = Append(toManager[s], m),
           OutEnd(R, s) \in Nat, out = OutEnd(R, s),
           m.kind = RequestOf(NextCall(R.op, R.call, R.part), NextPart(R.op, R.part))'
    PROVE  Outgoing(R, s, out + 1, taken)'
<1> DEFINE q == toManager[s]
           a == Append(q, m)
           e == OutEnd(R, s)
           r == RequestOf(NextCall(R.op, R.call, R.part), NextPart(R.op, R.part))'
<1>1. /\ Len(q) \in Nat /\ Len(a) = Len(q) + 1
      /\ (\A n \in 1..Len(q) : a[n] = q[n]) /\ a[Len(q) + 1] = m
    BY AnyAppend
<1>2. Len(q) = out - taken /\ \A n \in 1..Len(q) : taken + n <= e => Fits(q[n], OutSlot(R, s, taken + n))
    BY DEF Outgoing
<1>3. toManager'[s] = a /\ m.kind = r
    OBVIOUS
<1> HIDE DEF q, a, r
<1>4. Len(a) = (out + 1) - taken
    BY <1>1, <1>2
<1>5. ASSUME NEW n \in 1..Len(a)
      PROVE  (taken + n <= e => Fits(a[n], OutSlot(R, s, taken + n))) /\ (taken + n > e => a[n].kind = r)
    <2>1. CASE n = Len(q) + 1
        <3>1. ~(taken + n <= e) /\ a[n] = m
            BY <1>1, <1>2, <2>1
        <3> QED BY <1>3, <3>1
    <2>2. CASE n \in 1..Len(q)
        <3>1. ~(taken + n > e) /\ a[n] = q[n]
            BY <1>1, <1>2, <2>2
        <3> QED BY <1>2, <2>2, <3>1
    <2> QED BY <1>1, <2>1, <2>2
<1> HIDE DEF e
<1>6. /\ Len(a) = (out + 1) - taken
      /\ \A n \in 1..Len(a) : /\ taken + n <= e => Fits(a[n], OutSlot(R, s, taken + n))
                              /\ taken + n > e => a[n].kind = r
    BY <1>4, <1>5
<1> QED BY <1>3, <1>6 DEF Outgoing, e, r

LEMMA OutgoingKept ==
    ASSUME NEW R, NEW s, NEW out \in Nat, NEW taken \in Nat, Outgoing(R, s, out, taken),
           toManager'[s] = toManager[s], OutEnd(R, s) \in Nat,
           \/ out <= OutEnd(R, s)
           \/ RequestOf(NextCall(R.op, R.call, R.part), NextPart(R.op, R.part))'
                = RequestOf(NextCall(R.op, R.call, R.part), NextPart(R.op, R.part))
    PROVE  Outgoing(R, s, out, taken)'
<1> DEFINE q == toManager[s]
           e == OutEnd(R, s)
           r == RequestOf(NextCall(R.op, R.call, R.part), NextPart(R.op, R.part))
<1>1. /\ Len(q) = out - taken
      /\ \A n \in 1..Len(q) : /\ taken + n <= e => Fits(q[n], OutSlot(R, s, taken + n))
                              /\ taken + n > e => q[n].kind = r
    BY DEF Outgoing
<1>2. toManager'[s] = q /\ (out <= e \/ r' = r)
    OBVIOUS
<1> HIDE DEF q, r
<1>3. CASE r' = r
    BY <1>1, <1>2, <1>3 DEF Outgoing, r
<1>4. CASE out <= e
    <2>1. \A n \in 1..Len(q) : ~(taken + n > e)
        BY <1>1, <1>4
    <2> QED BY <1>1, <1>2, <2>1 DEF Outgoing
<1> QED BY <1>2, <1>3, <1>4

LEMMA HeadOfConcat ==
    ASSUME NEW z, NEW r, AnySeq(z), AnySeq(r), z # <<>>
    PROVE  /\ z \o r # <<>> /\ Head(z \o r) = Head(z)
           /\ Tail(z \o r) = Tail(z) \o r /\ AnySeq(Tail(z))
<1> DEFINE x == Head(z)
           t == Tail(z)
<1>1. z = <<x>> \o t /\ AnySeq(t)
    BY AnySplit, AnyTail
<1> HIDE DEF x, t
<1>2. AnySeq(<<x>>) /\ AnySeq(t \o r)
    BY <1>1, AnyOne, AnyConcat
<1>3. z \o r = <<x>> \o (t \o r)
    BY <1>1, <1>2, AnyAssociative
<1>4. /\ <<x>> \o (t \o r) # <<>> /\ Head(<<x>> \o (t \o r)) = x /\ Tail(<<x>> \o (t \o r)) = t \o r
    BY <1>2, AnyCons
<1> QED BY <1>1, <1>3, <1>4 DEF x, t

-----------------------------------------------------------------------------
\* A system is told its role.
LEMMA EndsGrow ==
    ASSUME NEW R, IsRound(R), NEW s \in Systems
    PROVE  /\ OutEnd(R, s) \in Nat /\ InEnd(R, s) \in Nat
           /\ OutEnd(R, s) >= 2 /\ InEnd(R, s) >= 1
           /\ R.what = "sizes" \/ (R.what = "coords" /\ s # R.first) => InEnd(R, s) > 1
<1> DEFINE o == OtherThan(s)
<1>1. OutEnd(R, s) \in Nat /\ InEnd(R, s) \in Nat /\ OutEnd(R, s) >= 2 /\ InEnd(R, s) >= 1
    BY OutStream, InStream
<1>2. o \in Systems /\ (s # R.first => o = R.first)
    BY TwoOfThem DEF IsRound
<1>3. Chunks \in Nat \ {0} /\ InAt(0) = 1 /\ InAt(0 + 1) = InAt(0) + Chunks + 1
    BY AtFacts, ThirdLevelAssumption
<1>4. CASE R.what = "sizes" \/ (R.what = "coords" /\ s # R.first)
    <2>1. Transfers(R, o) = 1
        BY <1>2, <1>4 DEF Transfers
    <2>2. InEnd(R, s) = InAt(1)
        BY <2>1 DEF InEnd
    <2> QED BY <1>1, <1>3, <2>2
<1> QED BY <1>1, <1>4

LEMMA FetchMove ==
    ASSUME Base, PlanOK, NEW R, RoundOf(R), NEW s \in Systems, NEW given \in Nat, Incoming(R, s, 0, given),
           IsTold(s, R.call, R.part, 1)
    PROVE  /\ Inside(R, s, 1, 1)' /\ Incoming(R, s, 1, given)' /\ 1 <= given
           /\ toManager'[s] = toManager[s]
<1> DEFINE k == R.call
           j == R.part
           r == Closing(R.op, R.part)
           x == Head(todo[s])
           role == Role(s, R.what, Instruction(R, s))
           zero == 0
<1>1. IsRound(R) /\ R.op = plan[R.call] /\ (R.checked <=> debug = Systems) /\ R.what = What(R.op, R.part)
    BY DEF RoundOf, IsRound
<1>2. /\ FetchInstruction(s) /\ calls[s] = k /\ todo[s] = Fetching(R.op, j)
      /\ R.op = "monteCarloThirdLevel" /\ j = 1 => coords[s] = <<s, k>>
    BY <1>1 DEF IsTold
<1>3. /\ todo'[s] = Role(s, x.what, Head(toSystem[s]).kind) \o Tail(todo[s])
      /\ Receive(s) /\ toManager' = toManager /\ calls' = calls /\ coords' = coords /\ buffer' = buffer
    BY <1>2, FetchFacts DEF appVars, dataVars
<1>4. toSystem[s] # <<>> /\ toSystem'[s] = Tail(toSystem[s]) /\ AnySeq(toSystem[s])
    BY <1>3, ReceiveFacts DEF Base
<1>5. Tail(todo[s]) = r /\ x = Step("fetch", R.what, None, "") /\ AnySeq(r)
    <2>1. AnySeq(r)
        BY ClosingIs
    <2>2. /\ Head(Fetching(R.op, R.part)) = Step("fetch", What(R.op, R.part), None, "")
          /\ Tail(Fetching(R.op, R.part)) = Closing(R.op, R.part)
        BY FetchingIs
    <2>3. todo[s] = Fetching(R.op, R.part) /\ R.what = What(R.op, R.part)
        BY <1>1, <1>2
    <2> QED BY <2>1, <2>2, <2>3
<1>6. Fits(Head(toSystem[s]), InSlot(R, s, 1)) /\ 1 <= given /\ Incoming(R, s, 1, given)'
    <2>1. zero = 0 /\ zero + 1 = 1 /\ zero \in Nat
        OBVIOUS
    <2> HIDE DEF zero
    <2>2. Incoming(R, s, zero, given)
        BY <2>1
    <2>3. Fits(Head(toSystem[s]), InSlot(R, s, zero + 1)) /\ zero + 1 <= given /\ Incoming(R, s, zero + 1, given)'
        BY <1>4, <2>1, <2>2, IncomingTaken
    <2> QED BY <2>1, <2>3
<1>7. Head(toSystem[s]).kind = Instruction(R, s)
    <2>1. InSlot(R, s, 1) = TextSlot(Instruction(R, s))
        BY <1>1, InStream
    <2> DEFINE slot == InSlot(R, s, 1)
               i == Instruction(R, s)
    <2>2. slot = TextSlot(i)
        BY <2>1
    <2>3. Head(toSystem[s]).kind = slot.kind
        BY <1>6 DEF Fits
    <2> HIDE DEF slot, i
    <2>4. slot.kind = i
        BY ONLY <2>2 DEF TextSlot
    <2>5. Head(toSystem[s]).kind = i
        BY <2>3, <2>4
    <2> QED BY <2>5 DEF i
<1>8. x.what = R.what
    <2> HIDE DEF x
    <2> QED BY ONLY <1>5 DEF Step
<1>9. todo'[s] = role \o r
    BY <1>3, <1>5, <1>7, <1>8
<1>10. R.checked <=> s \in debug
    BY <1>1 DEF Base
<1>11. Walk(StepEdges(R, s), role, <<1, 1>>, <<OutEnd(R, s) - 1, InEnd(R, s)>>)
    BY <1>1, <1>10, RoleRoad
<1>12. R.what = "coords" /\ (s = R.first \/ 1 = InEnd(R, s)) => coords[s] = <<R.first, R.call>>
    <2>1. R.what = "coords" => R.op = "monteCarloThirdLevel" /\ R.part = 1
        BY <1>1, RoundWhat
    <2>2. R.what = "coords" /\ s # R.first => ~(1 = InEnd(R, s))
        BY <1>1, EndsGrow
    <2> QED BY <1>2, <2>1, <2>2
<1>13. R.what = "sizes" /\ 1 = InEnd(R, s) => buffer[s] = SpacesOf[OtherThan(s)]
    BY <1>1, EndsGrow
<1> HIDE DEF role, r
<1>14. Inside(R, s, 1, 1)'
    <2>1. calls'[s] = R.call /\ coords'[s] = coords[s] /\ buffer'[s] = buffer[s]
        BY <1>2, <1>3
    <2>2. 1 >= 1
        OBVIOUS
    <2> QED BY <1>9, <1>11, <1>12, <1>13, <2>1, <2>2 DEF Inside, r
<1> QED BY <1>3, <1>6, <1>14

-----------------------------------------------------------------------------
\* In a combination the sparse grids have their common sizes,
LEMMA GridsKnown ==
    ASSUME Base, NEW R, RoundOf(R), NEW s \in Systems, SizesOK(s), calls[s] = R.call, R.what = "grid"
    PROVE  dsguSizes[s] = R.grids
<1>1. PICK c \in 1..(R.call - 1) : plan[c] \in Unifying /\ R.grids = DsguOf(plan[c])
    BY DEF RoundOf
<1>2. R.call \in Nat \ {0} /\ R.call <= Len(plan) /\ calls[s] <= Len(plan)
    BY DEF RoundOf, IsRound, Base
<1>3. c \in Nat /\ c >= 1 /\ c < R.call
    BY <1>1, <1>2
<1>4. c \in 1..Len(plan)
    BY <1>2, <1>3
<1>5. Reduced(s, c)
    BY <1>2, <1>3 DEF Reduced
<1> QED BY <1>1, <1>4, <1>5 DEF SizesOK

\* and before they are unified, their own.
LEMMA SpacesKnown ==
    ASSUME Base, NEW R, RoundOf(R), NEW s \in Systems, SizesOK(s), calls[s] = R.call, R.what = "sizes",
           todo[s] # <<>>, Head(todo[s]).do \notin {"signal", "return"}
    PROVE  spaces[s] = SpacesOf[s]
<1> DEFINE c == R.call
           x == Head(todo[s])
<1>1. c \in Nat \ {0} /\ c <= Len(plan) /\ R.op = plan[c] /\ R.op \in Unifying
    BY RoundWhat DEF RoundOf, IsRound
<1>2. c \in 1..Len(plan)
    BY <1>1
<1>3. todo[s] # Readying(plan[c], 1)
    <2> SUFFICES ASSUME todo[s] = Readying(plan[c], 1) PROVE FALSE
        OBVIOUS
    <2>1. x = SignalStep("ready")
        BY ReadyingIs
    <2>2. x.do \notin {"signal", "return"}
        OBVIOUS
    <2> HIDE DEF x
    <2>3. x.do = "signal"
        BY ONLY <2>1 DEF SignalStep, Step
    <2> QED BY <2>2, <2>3
<1>4. todo[s] # Local("return")
    <2> SUFFICES ASSUME todo[s] = Local("return") PROVE FALSE
        OBVIOUS
    <2>1. x = LocalStep("return")
        BY FinishIs
    <2>2. x.do \notin {"signal", "return"}
        OBVIOUS
    <2> HIDE DEF x
    <2>3. x.do = "return"
        BY ONLY <2>1 DEF LocalStep, Step
    <2> QED BY <2>2, <2>3
<1>5. ~Reduced(s, c)
    <2>1. ~(calls[s] > c)
        BY <1>1
    <2> HIDE DEF c
    <2>2. todo[s] \notin {Readying(plan[c], 1), Local("return"), <<>>}
        BY <1>3, <1>4
    <2> QED BY <2>1, <2>2 DEF Reduced
<1> HIDE DEF c
<1> QED BY <1>1, <1>2, <1>5 DEF SizesOK

\* What a system sends is what the round has at this place.
LEMMA MessageFits ==
    ASSUME Base, NEW R, RoundOf(R), NEW s \in Systems, SizesOK(s), calls[s] = R.call,
           NEW out \in Nat, NEW in \in Nat, NEW w, NEW x, x = Head(todo[s]), todo[s] # <<>>,
           StepEdge(R, s, x, <<out, in>>, w), x.do \in {"signal", "sendSize", "sendBytes"},
           R.what = "coords" /\ (s = R.first \/ in = InEnd(R, s)) => coords[s] = <<R.first, R.call>>,
           NEW m,
           \/ x.do = "signal" /\ m = Text(x.what)
           \/ x.do = "sendSize" /\ m = [Text("size") EXCEPT !.size = SizeOf(s, x.what, x.piece)]
           \/ x.do = "sendBytes" /\ m = [Text("bytes") EXCEPT !.data = Payload(s, x.what, x.piece)]
    PROVE  w = <<out + 1, in>> /\ Fits(m, OutSlot(R, s, out + 1))
<1> DEFINE u == <<out, in>>
           slot == OutSlot(R, s, out + 1)
<1>1. u[1] = out /\ u[2] = in
    OBVIOUS
<1>2. CASE x.do = "signal"
    <2>1. x.what = "sending_data" /\ slot = TextSlot("sending_data") /\ w = <<out + 1, in>>
        BY <1>2 DEF StepEdge
    <2>2. m = Text("sending_data")
        BY <1>2, <2>1
    <2> HIDE DEF slot
    <2>3. Fits(m, slot)
        BY ONLY <2>1, <2>2 DEF Fits, TextSlot, Text
    <2> QED BY <2>1, <2>3 DEF slot
<1>3. CASE x.do = "sendSize"
    <2> DEFINE p == x.piece
               size == SizeOfPiece(R, p)
    <2>1. x.what = R.what /\ slot = SizeSlot(R, p) /\ w = <<out + 1, in>>
        BY <1>3 DEF StepEdge
    <2>2. SizeOf(s, R.what, p) = size
        <3>1. R.what = "grid" => dsguSizes[s] = R.grids
            BY GridsKnown
        <3> QED BY <3>1 DEF SizeOf, SizeOfPiece
    <2>3. m = [Text("size") EXCEPT !.size = size]
        BY <1>3, <2>1, <2>2
    <2>4. slot = [kind |-> "size", size |-> size, data |-> {}, exact |-> FALSE]
        BY <2>1 DEF SizeSlot
    <2> HIDE DEF slot, size
    <2>5. Fits(m, slot)
        BY ONLY <2>3, <2>4 DEF Fits, Text
    <2> QED BY <2>1, <2>5 DEF slot
<1>4. CASE x.do = "sendBytes"
    <2> DEFINE data == Payload(s, R.what, x.piece)
               wanted == DataFrom(R, s)
               exact == R.what \in {"sizes", "coords"}
    <2>1. x.what = R.what /\ slot = BytesSlot(R, s) /\ w = <<out + 1, in>> /\ (Adopts(R, s) => in = InEnd(R, s))
        BY <1>4 DEF StepEdge
    <2>2. m = [Text("bytes") EXCEPT !.data = data]
        BY <1>4, <2>1
    <2>3. slot = [kind |-> "bytes", size |-> <<"", {}>>, data |-> wanted, exact |-> exact]
        BY <2>1 DEF BytesSlot
    <2>4. R.what = "sizes" => data = wanted
        <3> SUFFICES ASSUME R.what = "sizes" PROVE data = wanted
            OBVIOUS
        <3>1. Head(todo[s]).do \notin {"signal", "return"}
            BY <1>4
        <3>2. spaces[s] = SpacesOf[s]
            BY <3>1, SpacesKnown
        <3> QED BY <3>2 DEF Payload, DataFrom
    <2>5. R.what = "coords" => data = wanted
        <3> SUFFICES ASSUME R.what = "coords" PROVE data = wanted
            OBVIOUS
        <3>1. coords[s] = <<R.first, R.call>>
            BY <2>1 DEF Adopts
        <3> QED BY <3>1 DEF Payload, DataFrom
    <2>6. exact => data = wanted
        BY <2>4, <2>5
    <2> HIDE DEF slot, data, wanted, exact
    <2>7. Fits(m, slot)
        <3>1. m.kind = "bytes" /\ m.data = data
            BY ONLY <2>2 DEF Text
        <3>2. slot.kind = "bytes" /\ slot.data = wanted /\ slot.exact = exact
            BY ONLY <2>3
        <3> QED BY <2>6, <3>1, <3>2 DEF Fits
    <2> QED BY <2>1, <2>7 DEF slot
<1> QED BY <1>2, <1>3, <1>4

-----------------------------------------------------------------------------
\* A system in a round goes on by itself, sends, receives, or is ready.
InsideStays(R, s, out, in) ==
    Inside(R, s, out, in)' /\ toManager'[s] = toManager[s] /\ toSystem'[s] = toSystem[s]

InsideSends(R, s, out, in) ==
    /\ out + 1 < OutEnd(R, s) /\ Inside(R, s, out + 1, in)' /\ toSystem'[s] = toSystem[s]
    /\ \E m : toManager'[s] = Append(toManager[s], m) /\ Fits(m, OutSlot(R, s, out + 1))

InsideReceives(R, s, out, in) ==
    /\ in + 1 <= InEnd(R, s) /\ Inside(R, s, out, in + 1)' /\ toManager'[s] = toManager[s]
    /\ toSystem[s] # <<>> /\ toSystem'[s] = Tail(toSystem[s])

Finishes(R, s, out, in) ==
    /\ out + 1 = OutEnd(R, s) /\ in = InEnd(R, s) /\ toSystem'[s] = toSystem[s]
    /\ Waiting(s, NextCall(R.op, R.call, R.part), NextPart(R.op, R.part), 0)'
    /\ \E m : toManager'[s] = Append(toManager[s], m) /\ Fits(m, OutSlot(R, s, out + 1))

InsideMoving(R, s, out, in) ==
    \/ InsideStays(R, s, out, in) \/ InsideSends(R, s, out, in)
    \/ InsideReceives(R, s, out, in) \/ Finishes(R, s, out, in)

LEMMA InsideGoes ==
    ASSUME NEW R, NEW s, NEW z, NEW out \in Nat, NEW in \in Nat, out >= 1, in >= 1,
           todo'[s] = z \o Closing(R.op, R.part), calls'[s] = R.call,
           Walk(StepEdges(R, s), z, <<out, in>>, <<OutEnd(R, s) - 1, InEnd(R, s)>>),
           R.what = "coords" /\ (s = R.first \/ in = InEnd(R, s)) => coords'[s] = <<R.first, R.call>>,
           R.what = "sizes" /\ in = InEnd(R, s) => buffer'[s] = SpacesOf[OtherThan(s)]
    PROVE  Inside(R, s, out, in)'
BY DEF Inside

\* It is ready when it has sent and received everything.
LEMMA ReadyMoves ==
    ASSUME Base, PlanOK, NEW R, RoundOf(R), NEW s \in Systems, SystemMoves(s), calls[s] = R.call,
           todo[s] = Readying(R.op, R.part), NEW out, out = OutEnd(R, s) - 1, NEW in, in = InEnd(R, s)
    PROVE  Finishes(R, s, out, in)
<1> DEFINE k == NextCall(R.op, R.call, R.part)
           j == NextPart(R.op, R.part)
           slot == OutSlot(R, s, out + 1)
<1>1. /\ IsRound(R) /\ R.op = plan[R.call] /\ R.op \in Methods /\ R.call \in Nat \ {0} /\ R.part \in {1, 2}
      /\ R.part = 2 => R.op = "monteCarloThirdLevel"
    BY DEF RoundOf, IsRound
<1>2. OutEnd(R, s) \in Nat /\ OutSlot(R, s, OutEnd(R, s)) = TextSlot("ready")
    BY <1>1, OutStream
<1>3. out + 1 = OutEnd(R, s) /\ slot = TextSlot("ready")
    BY <1>2
<1>4. /\ todo'[s] = Rest(R.op, R.part) /\ toManager'[s] = Append(toManager[s], Text("ready"))
      /\ UNCHANGED <<toSystem, plan, calls, coords>>
    BY ReadyingIs, SignalMove
<1>5. Fits(Text("ready"), slot)
    <2> HIDE DEF slot
    <2> QED BY ONLY <1>3 DEF Fits, TextSlot, Text
<1>6. Waiting(s, k, j, 0)'
    <2>1. CASE R.op = "monteCarloThirdLevel" /\ R.part = 1
        <3>1. k = R.call /\ j = 2
            BY <2>1 DEF NextCall, NextPart
        <3>2. Unsent(s, R.call, 2)'
            BY <1>1, <1>4, <2>1 DEF Unsent
        <3> HIDE DEF k, j
        <3> QED BY <1>1, <3>1, <3>2 DEF Waiting
    <2>2. CASE ~(R.op = "monteCarloThirdLevel" /\ R.part = 1)
        <3>1. k = R.call + 1 /\ j = 1
            BY <2>2 DEF NextCall, NextPart
        <3> HIDE DEF k, j
        <3>2. todo'[s] = Finish(R.op)
            BY <1>4, <2>2, RestIs
        <3>3. calls'[s] = R.call /\ R.call = k - 1 /\ R.call > 0 /\ k \in Nat \ {0} /\ plan'[R.call] = R.op
            BY <1>1, <1>4, <3>1
        <3>4. Unsent(s, k, j)'
            BY <1>1, <3>1, <3>2, <3>3 DEF Unsent
        <3> QED BY <3>1, <3>3, <3>4 DEF Waiting
    <2> QED BY <2>1, <2>2
<1> QED BY <1>3, <1>4, <1>5, <1>6 DEF Finishes

\* It reduces the sizes when they are exchanged.
LEMMA ClosingMoves ==
    ASSUME Base, PlanOK, NEW R, RoundOf(R), NEW s \in Systems, SystemMoves(s),
           NEW out, NEW in, Inside(R, s, out, in), todo[s] = Closing(R.op, R.part),
           out = OutEnd(R, s) - 1, in = InEnd(R, s)
    PROVE  InsideMoving(R, s, out, in)
<1> DEFINE x == Head(todo[s])
<1>1. calls[s] = R.call /\ out >= 1 /\ in >= 1
    BY DEF Inside
<1>2. CASE R.op \notin Unifying
    <2>1. todo[s] = Readying(R.op, R.part)
        BY <1>2, ClosingIs
    <2>2. Finishes(R, s, out, in)
        BY <1>1, <2>1, ReadyMoves
    <2> QED BY <2>2 DEF InsideMoving
<1>3. CASE R.op \in Unifying
    <2>1. todo[s] # <<>> /\ x = ReduceStep(R.op) /\ Tail(todo[s]) = Readying(R.op, R.part)
        BY <1>3, ClosingIs
    <2>2. x = Head(todo[s])
        OBVIOUS
    <2> HIDE DEF x
    <2>3. x.do \in {"reduceMax", "reduceMin"}
        BY ONLY <2>1 DEF ReduceStep, LocalStep, Step
    <2>4. ReduceSizes(s)
        BY <2>1, <2>2, <2>3, MoveIs
    <2>5. /\ todo'[s] = Readying(R.op, R.part)
          /\ UNCHANGED <<toManager, toSystem, calls, coords, buffer>>
        BY <2>1, <2>4, ReduceFacts, AdvanceFacts DEF socketVars, appVars
    <2>6. Inside(R, s, out, in)'
        BY <1>1, <2>5 DEF Inside
    <2> QED BY <2>5, <2>6 DEF InsideMoving, InsideStays
<1> QED BY <1>2, <1>3

\* In between, it does what its role says.
LEMMA RoleMoves ==
    ASSUME Base, PlanOK, NEW R, RoundOf(R), NEW s \in Systems, SystemMoves(s), SizesOK(s),
           NEW out \in Nat, NEW in \in Nat, Inside(R, s, out, in), NEW given \in Nat, Incoming(R, s, in, given),
           NEW z, z # <<>>, todo[s] = z \o Closing(R.op, R.part),
           Walk(StepEdges(R, s), z, <<out, in>>, <<OutEnd(R, s) - 1, InEnd(R, s)>>)
    PROVE  InsideMoving(R, s, out, in)
<1> DEFINE E == StepEdges(R, s)
           r == Closing(R.op, R.part)
           u == <<out, in>>
           e == <<OutEnd(R, s) - 1, InEnd(R, s)>>
           x == Head(z)
           t == Tail(z)
           oe == OutEnd(R, s)
           ie == InEnd(R, s)
           own == <<R.first, R.call>>
<1>1. /\ calls[s] = R.call /\ out >= 1 /\ in >= 1
      /\ R.what = "coords" /\ (s = R.first \/ in = ie) => coords[s] = own
      /\ R.what = "sizes" /\ in = ie => buffer[s] = SpacesOf[OtherThan(s)]
    BY DEF Inside
<1>2. IsRound(R) /\ oe \in Nat /\ ie \in Nat
    BY EndsGrow DEF RoundOf
<1>3. PICK w : <<x, u, w>> \in E /\ Walk(E, t, w, e)
    BY WalkHead
<1>4. x \in WalkSteps /\ w \in Places /\ StepEdge(R, s, x, u, w)
    BY <1>3, StepEdgeIs
<1>5. w[1] <= oe - 1 /\ w[2] <= ie
    <2> HIDE DEF E, t
    <2>1. e[1] = oe - 1 /\ e[2] = ie
        OBVIOUS
    <2> HIDE DEF e
    <2>2. w[1] <= e[1] /\ w[2] <= e[2]
        BY <1>3, <1>4, StepsGrow DEF E
    <2> QED BY <2>1, <2>2
<1>6. todo[s] # <<>> /\ Head(todo[s]) = x /\ Tail(todo[s]) = t \o r
    <2>1. AnySeq(z) /\ AnySeq(r)
        BY ClosingIs DEF Walk
    <2> HIDE DEF r
    <2>2. z \o r # <<>> /\ Head(z \o r) = Head(z) /\ Tail(z \o r) = Tail(z) \o r
        BY <2>1, HeadOfConcat
    <2>3. todo[s] = z \o r
        BY DEF r
    <2> QED BY <2>2, <2>3
<1>7. u[1] = out /\ u[2] = in
    OBVIOUS
<1>8. x.do \in {"signal", "sendSize", "sendBytes", "recvSize", "recvBytes", "write", "readReduce"}
    BY <1>4 DEF WalkSteps
<1> HIDE DEF x, t, E, e, r, oe, ie
\* A message is sent.
<1>9. CASE x.do \in {"signal", "sendSize", "sendBytes"}
    <2>1. Send(s)
        BY <1>6, <1>9, MoveIs
    <2>2. /\ todo'[s] = t \o r
          /\ UNCHANGED <<brokerVars, toSystem, appVars, dataVars, fileVars, result>>
          /\ \E m : /\ toManager'[s] = Append(toManager[s], m)
                    /\ \/ x.do = "signal" /\ m = Text(x.what)
                       \/ x.do = "sendSize" /\ m = [Text("size") EXCEPT !.size = SizeOf(s, x.what, x.piece)]
                       \/ x.do = "sendBytes" /\ m = [Text("bytes") EXCEPT !.data = Payload(s, x.what, x.piece)]
        BY <1>6, <2>1, SendFacts
    <2>3. UNCHANGED <<toSystem, calls, coords, buffer>>
        BY <2>2 DEF appVars, dataVars
    <2>4. PICK m : /\ toManager'[s] = Append(toManager[s], m)
                   /\ \/ x.do = "signal" /\ m = Text(x.what)
                      \/ x.do = "sendSize" /\ m = [Text("size") EXCEPT !.size = SizeOf(s, x.what, x.piece)]
                      \/ x.do = "sendBytes" /\ m = [Text("bytes") EXCEPT !.data = Payload(s, x.what, x.piece)]
        BY <2>2
    <2>5. x = Head(todo[s]) /\ todo[s] # <<>>
        BY <1>6
    <2>6. R.what = "coords" /\ (s = R.first \/ in = InEnd(R, s)) => coords[s] = <<R.first, R.call>>
        BY <1>1 DEF ie
    <2>7. w = <<out + 1, in>> /\ Fits(m, OutSlot(R, s, out + 1))
        BY ONLY Base, RoundOf(R), s \in Systems, SizesOK(s), <1>1, out \in Nat, in \in Nat, <2>5, <1>4, <1>9, <2>6, <2>4,
                MessageFits
    <2>8. out + 1 < OutEnd(R, s)
        BY <1>2, <1>5, <2>7 DEF oe
    <2>9. Inside(R, s, out + 1, in)'
        <3> DEFINE n == out + 1
        <3>1. n \in Nat /\ n >= 1 /\ w = <<n, in>>
            BY <2>7
        <3>2. todo'[s] = t \o Closing(R.op, R.part) /\ calls'[s] = R.call
            BY <1>1, <2>2, <2>3 DEF r
        <3>3. Walk(StepEdges(R, s), t, <<n, in>>, <<OutEnd(R, s) - 1, InEnd(R, s)>>)
            BY <1>3, <3>1 DEF E, e
        <3>4. R.what = "coords" /\ (s = R.first \/ in = InEnd(R, s)) => coords'[s] = <<R.first, R.call>>
            BY <2>3, <2>6
        <3>5. R.what = "sizes" /\ in = InEnd(R, s) => buffer'[s] = SpacesOf[OtherThan(s)]
            BY <1>1, <2>3 DEF ie
        <3> HIDE DEF n
        <3>6. Inside(R, s, n, in)'
            BY <1>1, <3>1, <3>2, <3>3, <3>4, <3>5, InsideGoes
        <3> QED BY <3>6 DEF n
    <2> QED BY <2>3, <2>4, <2>7, <2>8, <2>9 DEF InsideMoving, InsideSends
\* The size is received.
<1>10. CASE x.do = "recvSize"
    <2>1. ReceiveSize(s)
        BY <1>6, <1>10, MoveIs
    <2>2. Receive(s) /\ Advance(s) /\ UNCHANGED <<toManager, calls, coords, buffer>>
        BY <2>1, SizeFacts DEF appVars
    <2>3. toSystem[s] # <<>> /\ toSystem'[s] = Tail(toSystem[s]) /\ todo'[s] = t \o r
        BY <1>6, <2>2, ReceiveFacts, AdvanceFacts
    <2>4. in + 1 < ie /\ w = <<out, in + 1>>
        BY <1>4, <1>7, <1>10 DEF StepEdge, ie
    <2> DEFINE n == in + 1
    <2>5. n \in Nat /\ n >= 1 /\ n # ie /\ n <= ie
        BY <1>2, <2>4
    <2>6. todo'[s] = t \o Closing(R.op, R.part) /\ calls'[s] = R.call
        BY <1>1, <2>2, <2>3 DEF r
    <2>7. Walk(StepEdges(R, s), t, <<out, n>>, <<OutEnd(R, s) - 1, InEnd(R, s)>>)
        BY <1>3, <2>4 DEF E, e
    <2> HIDE DEF n
    <2>8. R.what = "coords" /\ (s = R.first \/ n = InEnd(R, s)) => coords'[s] = <<R.first, R.call>>
        BY <1>1, <2>2, <2>5 DEF ie
    <2>9. R.what = "sizes" /\ n = InEnd(R, s) => buffer'[s] = SpacesOf[OtherThan(s)]
        BY <2>5 DEF ie
    <2>10. Inside(R, s, out, n)'
        BY <1>1, <2>5, <2>6, <2>7, <2>8, <2>9, InsideGoes
    <2> QED BY <2>2, <2>3, <2>5, <2>10 DEF InsideMoving, InsideReceives, n, ie
\* A chunk is received.
<1>11. CASE x.do = "recvBytes"
    <2> DEFINE h == Head(toSystem[s])
               data == h.data
               n == in + 1
               sent == DataFrom(R, OtherThan(s))
    <2>1. ReceiveBytes(s)
        BY <1>6, <1>11, MoveIs
    <2>2. /\ Receive(s) /\ Advance(s)
          /\ x.how = "keep" => buffer'[s] = data
          /\ x.how # "keep" => buffer' = buffer
          /\ x.how = "adopt" => coords'[s] = CHOOSE c \in data : TRUE
          /\ x.how # "adopt" => coords' = coords
          /\ UNCHANGED <<brokerVars, toManager, appVars, spaces, dsguSizes, values, fileVars, result>>
        <3>1. x = Head(todo[s])
            BY <1>6
        <3> HIDE DEF h
        <3>2. h = Head(toSystem[s])
            BY DEF h
        <3>3. data = Head(toSystem[s]).data
            BY <3>2
        <3> HIDE DEF data
        <3> QED BY ONLY Base, s \in Systems, <2>1, <3>1, <3>3, BytesFacts
    <2>3. toSystem[s] # <<>> /\ toSystem'[s] = Tail(toSystem[s]) /\ todo'[s] = t \o r /\ calls' = calls /\ toManager' = toManager
        BY <1>6, <2>2, ReceiveFacts, AdvanceFacts DEF appVars
    <2>4. /\ w = <<out, n>> /\ R.what # "file" /\ (x.how = "wait" => n < ie)
          /\ x.how \in {"wait"} \cup HowsOf(R, s)
          /\ InSlot(R, s, n) = BytesSlot(R, OtherThan(s))
        BY <1>4, <1>7, <1>11 DEF StepEdge, ie
    <2>5. n \in Nat /\ n >= 1 /\ n <= ie
        BY <1>2, <1>4, <1>5, <2>4
    <2>6. R.what \in {"sizes", "coords"} => data = sent
        <3>1. Fits(h, InSlot(R, s, n))
            BY <2>3, IncomingTaken DEF Base
        <3> DEFINE slot == BytesSlot(R, OtherThan(s))
                   exact == R.what \in {"sizes", "coords"}
        <3>2. slot = [kind |-> "bytes", size |-> <<"", {}>>, data |-> sent, exact |-> exact]
            BY DEF BytesSlot
        <3>3. slot.exact => h.data = slot.data
            BY <2>4, <3>1 DEF Fits
        <3> HIDE DEF slot, sent, exact, h
        <3>4. slot.exact = exact /\ slot.data = sent
            BY ONLY <3>2
        <3> QED BY <3>3, <3>4 DEF exact
    <2> HIDE DEF data, n
    <2>7. R.what = "coords" /\ (s = R.first \/ n = InEnd(R, s)) => coords'[s] = own
        <3> SUFFICES ASSUME R.what = "coords", s = R.first \/ n = InEnd(R, s) PROVE coords'[s] = own
            OBVIOUS
        <3>1. CASE x.how = "wait"
            <4>1. s = R.first /\ coords' = coords
                BY <1>2, <2>2, <2>4, <2>5, <3>1 DEF ie
            <4> QED BY <1>1, <4>1
        <3>2. CASE x.how # "wait" /\ s = R.first
            <4>1. x.how = "compare"
                BY <2>4, <3>2 DEF HowsOf
            <4> QED BY <1>1, <2>2, <3>2, <4>1
        <3>3. CASE x.how # "wait" /\ s # R.first
            <4>1. x.how = "adopt"
                BY <2>4, <3>3 DEF HowsOf
            <4>2. data = {own}
                BY <2>6 DEF DataFrom
            <4>3. coords'[s] = CHOOSE c \in {own} : TRUE
                BY <2>2, <4>1, <4>2
            <4> HIDE DEF own
            <4> QED BY <4>3
        <3> QED BY <3>1, <3>2, <3>3
    <2>8. R.what = "sizes" /\ n = InEnd(R, s) => buffer'[s] = SpacesOf[OtherThan(s)]
        <3> SUFFICES ASSUME R.what = "sizes", n = InEnd(R, s) PROVE buffer'[s] = SpacesOf[OtherThan(s)]
            OBVIOUS
        <3>1. x.how # "wait"
            BY <1>2, <2>4, <2>5 DEF ie
        <3>2. x.how = "keep"
            BY <2>4, <3>1 DEF HowsOf
        <3> QED BY <2>2, <2>6, <3>2 DEF DataFrom
    <2>9. todo'[s] = t \o Closing(R.op, R.part) /\ calls'[s] = R.call
        BY <1>1, <2>3 DEF r
    <2>10. Walk(StepEdges(R, s), t, <<out, n>>, <<OutEnd(R, s) - 1, InEnd(R, s)>>)
        BY <1>3, <2>4 DEF E, e
    <2>11. Inside(R, s, out, n)'
        BY <1>1, <2>5, <2>7, <2>8, <2>9, <2>10, InsideGoes
    <2> QED BY <2>3, <2>5, <2>11 DEF InsideMoving, InsideReceives, n, ie
\* The files are written and read.
<1>12. CASE x.do \in {"write", "readReduce"}
    <2>1. InterpolateValues(s) \/ WriteFile(s) \/ ReadReduce(s) \/ Return(s)
        BY <1>6, <1>12, MoveIs
    <2>2. todo'[s] = t \o r /\ UNCHANGED <<toManager, toSystem, calls, coords, buffer>>
        BY <1>6, <2>1, SimpleFacts, AdvanceFacts DEF socketVars, appVars
    <2>3. w = <<out, in>>
        BY <1>4, <1>12 DEF StepEdge
    <2>4. todo'[s] = t \o Closing(R.op, R.part) /\ calls'[s] = R.call
        BY <1>1, <2>2 DEF r
    <2>5. Walk(StepEdges(R, s), t, <<out, in>>, <<OutEnd(R, s) - 1, InEnd(R, s)>>)
        BY <1>3, <2>3 DEF E, e
    <2>6. R.what = "coords" /\ (s = R.first \/ in = InEnd(R, s)) => coords'[s] = <<R.first, R.call>>
        BY <1>1, <2>2 DEF ie
    <2>7. R.what = "sizes" /\ in = InEnd(R, s) => buffer'[s] = SpacesOf[OtherThan(s)]
        BY <1>1, <2>2 DEF ie
    <2>8. Inside(R, s, out, in)'
        BY <1>1, <2>4, <2>5, <2>6, <2>7, InsideGoes
    <2> QED BY <2>2, <2>8 DEF InsideMoving, InsideStays
<1> QED BY <1>8, <1>9, <1>10, <1>11, <1>12

LEMMA InsideMoves ==
    ASSUME Base, PlanOK, NEW R, RoundOf(R), NEW s \in Systems, SystemMoves(s), SizesOK(s),
           NEW out \in Nat, NEW in \in Nat, Inside(R, s, out, in), NEW given \in Nat, Incoming(R, s, in, given)
    PROVE  InsideMoving(R, s, out, in)
<1> DEFINE r == Closing(R.op, R.part)
           e == <<OutEnd(R, s) - 1, InEnd(R, s)>>
<1>1. CASE \E z : todo[s] = z \o r /\ Walk(StepEdges(R, s), z, <<out, in>>, e)
    <2>1. PICK z : todo[s] = z \o r /\ Walk(StepEdges(R, s), z, <<out, in>>, e)
        BY <1>1
    <2>2. CASE z = <<>>
        <3>1. AnySeq(r)
            BY ClosingIs
        <3>2. <<out, in>> = e
            BY <2>1, <2>2, WalkNowhere
        <3>3. out = OutEnd(R, s) - 1 /\ in = InEnd(R, s)
            BY <3>2
        <3> HIDE DEF r
        <3>4. todo[s] = r
            BY <2>1, <2>2, <3>1, AnyEmpty
        <3> QED BY <3>3, <3>4, ClosingMoves DEF r
    <2>3. CASE z # <<>>
        BY <2>1, <2>3, RoleMoves
    <2> QED BY <2>2, <2>3
<1>2. CASE todo[s] = Readying(R.op, R.part) /\ out = OutEnd(R, s) - 1 /\ in = InEnd(R, s)
    <2>1. calls[s] = R.call
        BY DEF Inside
    <2> QED BY <1>2, <2>1, ReadyMoves DEF InsideMoving
<1> QED BY <1>1, <1>2 DEF Inside

-----------------------------------------------------------------------------
\* A system that takes part in a round keeps to it.
LEMMA InsideBounds ==
    ASSUME NEW R, IsRound(R), NEW s \in Systems, NEW out \in Nat, NEW in \in Nat, Inside(R, s, out, in)
    PROVE  out <= OutEnd(R, s) - 1 /\ in <= InEnd(R, s) /\ out >= 1 /\ in >= 1 /\ calls[s] = R.call
<1> DEFINE e == <<OutEnd(R, s) - 1, InEnd(R, s)>>
           u == <<out, in>>
<1>1. out >= 1 /\ in >= 1 /\ calls[s] = R.call
    BY DEF Inside
<1>2. OutEnd(R, s) \in Nat /\ InEnd(R, s) \in Nat
    BY EndsGrow
<1>3. CASE \E z : Walk(StepEdges(R, s), z, u, e)
    <2>1. PICK z : Walk(StepEdges(R, s), z, u, e)
        BY <1>3
    <2>2. u \in Places /\ u[1] = out /\ u[2] = in /\ e[1] = OutEnd(R, s) - 1 /\ e[2] = InEnd(R, s)
        BY DEF Places
    <2> HIDE DEF u, e
    <2>3. u[1] <= e[1] /\ u[2] <= e[2]
        BY <2>1, <2>2, StepsGrow
    <2> QED BY <1>1, <2>2, <2>3
<1>4. CASE out = OutEnd(R, s) - 1 /\ in = InEnd(R, s)
    BY <1>1, <1>2, <1>4
<1> QED BY <1>3, <1>4 DEF Inside

LEMMA WaitingCount ==
    ASSUME NEW s, NEW k, NEW j, NEW n, Waiting(s, k, j, n)
    PROVE  n \in {0, 1} /\ k \in Nat \ {0} /\ j \in {1, 2}
BY DEF Waiting

LEMMA ServedKept ==
    ASSUME Base, Grown, NEW R, IsRound(R), NEW s \in Systems, Kept(s), SocketsKept(s),
           NEW u \in Spots, Served(R, s, u)
    PROVE  Served(R, s, u)'
<1> DEFINE k == NextCall(R.op, R.call, R.part)
           j == NextPart(R.op, R.part)
           taken == u.take[s]
<1>1. PICK out \in Nat, in \in Nat :
         Position(R, s, out, in) /\ Outgoing(R, s, out, taken) /\ Incoming(R, s, in, u.give[s])
    BY DEF Served
<1>2. taken \in Nat /\ OutEnd(R, s) \in Nat /\ OutEnd(R, s) >= 2
    BY EndsGrow DEF Spots
<1>3. out <= OutEnd(R, s) \/ RequestOf(k, j)' = RequestOf(k, j)
    <2>1. CASE in = 0 /\ Waiting(s, R.call, R.part, out)
        BY <1>2, <2>1, WaitingCount
    <2>2. CASE Inside(R, s, out, in)
        BY <1>2, <2>2, InsideBounds
    <2>3. CASE out >= OutEnd(R, s) /\ Waiting(s, k, j, out - OutEnd(R, s))
        <3>1. CASE out - OutEnd(R, s) = 0
            BY <1>2, <3>1
        <3>2. CASE out - OutEnd(R, s) = 1
            <4> HIDE DEF k, j
            <4>1. Waiting(s, k, j, 1)
                BY <2>3, <3>2
            <4> QED BY <4>1, RequestKept
        <3> QED BY <2>3, <3>1, <3>2, WaitingCount
    <2> QED BY <1>1, <2>1, <2>2, <2>3 DEF Position
<1> HIDE DEF taken
<1>4. Position(R, s, out, in)'
    BY <1>1, KeptPosition
<1>5. Outgoing(R, s, out, taken)'
    BY <1>1, <1>2, <1>3, OutgoingKept DEF SocketsKept, k, j
<1>6. Incoming(R, s, in, u.give[s])'
    BY <1>1, IncomingKept DEF SocketsKept
<1> QED BY <1>4, <1>5, <1>6 DEF Served, taken

\* The request of the round is the one the broker has been told.
LEMMA RoundRequest ==
    ASSUME NEW R, RoundOf(R), Grown
    PROVE  /\ RequestOf(R.call, R.part) = RequestFor(R.what) /\ RequestOf(R.call, R.part)' = RequestFor(R.what)
           /\ RoundOf(R)' <=> (R.checked <=> debug' = Systems)
<1>1. /\ IsRound(R) /\ R.call <= Len(plan) /\ R.op = plan[R.call] /\ R.call \in Nat \ {0}
      /\ R.op \in Methods /\ R.what = What(R.op, R.part)
    BY DEF RoundOf, IsRound
<1>2. R.call \in 1..Len(plan)
    BY <1>1
<1>3. R.call \in 1..Len(plan') /\ plan'[R.call] = R.op
    BY <1>1, <1>2 DEF Grown
<1>4. R.op # "finalize"
    BY <1>1 DEF Methods
<1>5. RequestOf(R.call, R.part) = RequestFor(R.what) /\ RequestOf(R.call, R.part)' = RequestFor(R.what)
    BY <1>1, <1>3, <1>4 DEF RequestOf
<1>6. R.what = "grid" => \E c \in 1..(R.call - 1) : plan'[c] \in Unifying /\ R.grids = DsguOf(plan'[c])
    <2> SUFFICES ASSUME R.what = "grid"
                 PROVE  \E c \in 1..(R.call - 1) : plan'[c] \in Unifying /\ R.grids = DsguOf(plan'[c])
        OBVIOUS
    <2>1. PICK c \in 1..(R.call - 1) : plan[c] \in Unifying /\ R.grids = DsguOf(plan[c])
        BY DEF RoundOf
    <2>2. c \in 1..Len(plan)
        BY <1>1, <1>2
    <2>3. plan'[c] = plan[c]
        BY <2>2 DEF Grown
    <2> QED BY <2>1, <2>3
<1>7. R.call <= Len(plan')
    BY <1>1, <1>3
<1> QED BY <1>1, <1>3, <1>5, <1>6, <1>7 DEF RoundOf

LEMMA ServedMoves ==
    ASSUME Base, PlanOK, NEW R, RoundOf(R), NEW s \in Systems, SystemMoves(s), SizesOK(s),
           NEW u \in Spots, u.give[s] <= InEnd(R, s), Served(R, s, u)
    PROVE  Served(R, s, u)'
<1> DEFINE k == NextCall(R.op, R.call, R.part)
           j == NextPart(R.op, R.part)
           taken == u.take[s]
           given == u.give[s]
           oe == OutEnd(R, s)
           ie == InEnd(R, s)
<1>1. PICK out \in Nat, in \in Nat :
         Position(R, s, out, in) /\ Outgoing(R, s, out, taken) /\ Incoming(R, s, in, given)
    BY DEF Served
<1>2. /\ taken \in Nat /\ given \in Nat /\ oe \in Nat /\ oe >= 2 /\ ie \in Nat /\ ie >= 1
      /\ IsRound(R) /\ AnySeq(toManager[s]) /\ AnySeq(toSystem[s]) /\ Grown
    BY EndsGrow, SystemFrame DEF Spots, RoundOf, Base, Frame
<1> SUFFICES \E a, b \in Nat : Position(R, s, a, b)' /\ Outgoing(R, s, a, taken)' /\ Incoming(R, s, b, given)'
    BY DEF Served
<1> HIDE DEF taken, given
\* It has not been told its role.
<1>3. CASE in = 0 /\ Waiting(s, R.call, R.part, out)
    <2>1. out \in {0, 1} /\ out <= oe /\ out + 1 <= oe
        BY <1>2, <1>3, WaitingCount
    <2>2. CASE Stays(s, R.call, R.part, out)
        <3>1. Position(R, s, out, in)'
            BY <1>3, <2>2 DEF Stays, Position
        <3>2. Outgoing(R, s, out, taken)'
            BY <1>1, <1>2, <2>1, <2>2, OutgoingKept DEF Stays
        <3>3. Incoming(R, s, in, given)'
            BY <1>1, <2>2, IncomingKept DEF Stays
        <3> QED BY <3>1, <3>2, <3>3
    <2>3. CASE Asks(s, R.call, R.part, out)
        <3>1. PICK m : toManager'[s] = Append(toManager[s], m) /\ m.kind = RequestOf(R.call, R.part)'
            BY <2>3 DEF Asks
        <3>2. out = 0 /\ Waiting(s, R.call, R.part, 1)' /\ toSystem'[s] = toSystem[s]
            BY <2>3 DEF Asks
        <3>3. out + 1 = 1
            BY <3>2
        <3> DEFINE slot == OutSlot(R, s, out + 1)
                   text == RequestFor(R.what)
        <3>4. slot = TextSlot(text)
            <4>1. OutSlot(R, s, 1) = TextSlot(text)
                BY <1>2, OutStream
            <4> QED BY <3>3, <4>1
        <3>5. m.kind = text /\ text # "size"
            BY <1>2, <3>1, RoundRequest, RoundWhat DEF RequestFor, Whats
        <3> HIDE DEF slot, text
        <3>6. Fits(m, slot)
            BY ONLY <3>4, <3>5 DEF Fits, TextSlot
        <3>7. Outgoing(R, s, out + 1, taken)'
            BY <1>1, <1>2, <2>1, <3>1, <3>6, OutgoingSent DEF slot
        <3>8. Position(R, s, out + 1, in)'
            BY <1>3, <3>2, <3>3 DEF Position
        <3>9. Incoming(R, s, in, given)'
            BY <1>1, <3>2, IncomingKept
        <3> QED BY <3>7, <3>8, <3>9
    <2>4. CASE IsTold(s, R.call, R.part, out)
        <3>1. out = 1 /\ IsTold(s, R.call, R.part, 1)
            BY <2>4 DEF IsTold
        <3>2. Inside(R, s, 1, 1)' /\ Incoming(R, s, 1, given)' /\ toManager'[s] = toManager[s]
            BY <1>1, <1>2, <1>3, <3>1, FetchMove
        <3>3. Outgoing(R, s, out, taken)'
            BY <1>1, <1>2, <2>1, <3>2, OutgoingKept
        <3>4. Position(R, s, 1, 1)'
            BY <3>2 DEF Position
        <3> QED BY <3>1, <3>2, <3>3, <3>4
    <2>5. Waiting(s, R.call, R.part, out)
        BY <1>3
    <2>6. Stays(s, R.call, R.part, out) \/ Asks(s, R.call, R.part, out) \/ IsTold(s, R.call, R.part, out)
        BY <2>5, WaitingMoves
    <2> QED BY <2>2, <2>3, <2>4, <2>6
\* It is in the round.
<1>4. CASE Inside(R, s, out, in)
    <2>1. out <= oe - 1 /\ in <= ie
        BY <1>2, <1>4, InsideBounds
    <2>2. out <= oe /\ out + 1 <= oe
        BY <1>2, <2>1
    <2>3. CASE InsideStays(R, s, out, in)
        <3>1. Position(R, s, out, in)'
            BY <2>3 DEF InsideStays, Position
        <3>2. Outgoing(R, s, out, taken)'
            BY <1>1, <1>2, <2>2, <2>3, OutgoingKept DEF InsideStays
        <3>3. Incoming(R, s, in, given)'
            BY <1>1, <2>3, IncomingKept DEF InsideStays
        <3> QED BY <3>1, <3>2, <3>3
    <2>4. CASE InsideSends(R, s, out, in)
        <3>1. PICK m : toManager'[s] = Append(toManager[s], m) /\ Fits(m, OutSlot(R, s, out + 1))
            BY <2>4 DEF InsideSends
        <3>2. Outgoing(R, s, out + 1, taken)'
            BY <1>1, <1>2, <2>2, <3>1, OutgoingSent
        <3>3. Position(R, s, out + 1, in)'
            BY <2>4 DEF InsideSends, Position
        <3>4. Incoming(R, s, in, given)'
            BY <1>1, <2>4, IncomingKept DEF InsideSends
        <3> QED BY <3>2, <3>3, <3>4
    <2>5. CASE InsideReceives(R, s, out, in)
        <3>1. Incoming(R, s, in + 1, given)'
            BY <1>1, <1>2, <2>5, IncomingTaken DEF InsideReceives
        <3>2. Outgoing(R, s, out, taken)'
            BY <1>1, <1>2, <2>2, <2>5, OutgoingKept DEF InsideReceives
        <3>3. Position(R, s, out, in + 1)'
            BY <2>5 DEF InsideReceives, Position
        <3> QED BY <3>1, <3>2, <3>3
    <2>6. CASE Finishes(R, s, out, in)
        <3>1. PICK m : toManager'[s] = Append(toManager[s], m) /\ Fits(m, OutSlot(R, s, out + 1))
            BY <2>6 DEF Finishes
        <3>2. Outgoing(R, s, out + 1, taken)'
            BY <1>1, <1>2, <2>2, <3>1, OutgoingSent
        <3>3. Position(R, s, out + 1, in)'
            <4> DEFINE n == out + 1
            <4>1. n = oe /\ in = ie /\ Waiting(s, k, j, 0)'
                BY <2>6 DEF Finishes
            <4>2. n \in Nat /\ n >= oe /\ n - oe = 0
                BY <1>2, <4>1
            <4> HIDE DEF n, oe, ie, k, j
            <4>3. Waiting(s, k, j, n - oe)'
                BY <4>1, <4>2
            <4>4. Position(R, s, n, in)'
                BY <4>1, <4>2, <4>3 DEF Position, oe, ie, k, j
            <4> QED BY <4>4 DEF n
        <3>4. Incoming(R, s, in, given)'
            BY <1>1, <2>6, IncomingKept DEF Finishes
        <3> QED BY <3>2, <3>3, <3>4
    <2> QED BY <1>1, <1>2, <1>4, <2>3, <2>4, <2>5, <2>6, InsideMoves DEF InsideMoving
\* It has left the round.
<1>5. CASE in = ie /\ out >= oe /\ Waiting(s, k, j, out - oe)
    <2> DEFINE n == out - oe
    <2>1. n \in {0, 1} /\ out = oe + n
        BY <1>2, <1>5, WaitingCount
    <2> HIDE DEF n, k, j
    <2>2. Waiting(s, k, j, n)
        BY <1>5 DEF n
    <2>3. CASE Stays(s, k, j, n)
        <3>1. Position(R, s, out, in)'
            BY <1>5, <2>3 DEF Stays, Position, k, j, n
        <3>2. out <= oe \/ RequestOf(k, j)' = RequestOf(k, j)
            <4>1. CASE n = 0
                BY <1>2, <2>1, <4>1
            <4>2. CASE n = 1
                BY <1>2, <2>2, <4>2, RequestKept
            <4> QED BY <2>1, <4>1, <4>2
        <3>3. Outgoing(R, s, out, taken)'
            BY <1>1, <1>2, <2>3, <3>2, OutgoingKept DEF Stays, k, j
        <3>4. Incoming(R, s, in, given)'
            BY <1>1, <2>3, IncomingKept DEF Stays
        <3> QED BY <3>1, <3>3, <3>4
    <2>4. CASE Asks(s, k, j, n)
        <3>1. PICK m : toManager'[s] = Append(toManager[s], m) /\ m.kind = RequestOf(k, j)'
            BY <2>4 DEF Asks
        <3>2. n = 0 /\ Waiting(s, k, j, 1)' /\ toSystem'[s] = toSystem[s]
            BY <2>4 DEF Asks
        <3>3. out = oe
            BY <1>2, <2>1, <3>2
        <3>4. Outgoing(R, s, out + 1, taken)'
            BY <1>1, <1>2, <3>1, <3>3, OutgoingAsked DEF k, j
        <3>5. Position(R, s, out + 1, in)'
            <4> DEFINE l == out + 1
            <4>1. l \in Nat /\ l >= oe /\ l - oe = 1
                BY <1>2, <3>3
            <4> HIDE DEF l, oe, ie
            <4>2. Waiting(s, k, j, l - oe)'
                BY <3>2, <4>1
            <4>3. Position(R, s, l, in)'
                BY <1>5, <4>1, <4>2 DEF Position, oe, ie, k, j
            <4> QED BY <4>3 DEF l
        <3>6. Incoming(R, s, in, given)'
            BY <1>1, <3>2, IncomingKept
        <3> QED BY <3>4, <3>5, <3>6
    <2>5. CASE IsTold(s, k, j, n)
        <3>1. toSystem[s] # <<>>
            BY <2>5, FetchFacts DEF IsTold, Receive
        <3>2. Len(toSystem[s]) = given - in /\ given <= ie
            BY <1>1 DEF Incoming, given
        <3>3. Len(toSystem[s]) \in Nat /\ Len(toSystem[s]) # 0
            BY <1>2, <3>1, AnyLen
        <3> QED BY <1>2, <1>5, <3>2, <3>3
    <2> QED BY <2>2, <2>3, <2>4, <2>5, WaitingMoves
<1> QED BY <1>1, <1>3, <1>4, <1>5 DEF Position

-----------------------------------------------------------------------------
\* A step of a system leaves the broker where it is.
LEMMA BusyMoves ==
    ASSUME Base, PlanOK, \A o \in Systems : SizesOK(o), NEW s \in Systems, SystemMoves(s),
           NEW R, NEW u, Busy(R, u)
    PROVE  Busy(R, u)'
<1>1. /\ RoundOf(R) /\ u \in Spots /\ NothingUnasked(u) /\ u.take[R.first] >= 1
      /\ work # <<>> /\ Walk(JobEdges(R), work, u, EndSpot(R))
      /\ Len(accepted) = 2 /\ \A o \in Systems : o \in ToSet(systems)
    BY DEF Busy
<1>2. \A o \in Systems : Served(R, o, u)
    BY DEF Busy
<1>3. Others(s) /\ Grown /\ UNCHANGED <<accepted, systems, next, work>> /\ debug' = debug
    BY SystemFrame DEF Frame, brokerVars
<1>4. IsRound(R)
    BY <1>1 DEF RoundOf
<1>5. \A o \in Systems : u.give[o] <= InEnd(R, o)
    <2>1. \A o \in Systems : u.give[o] <= EndSpot(R).give[o]
        BY <1>1, <1>4, JobsGrow
    <2>2. \A o \in Systems : EndSpot(R).give[o] = InEnd(R, o)
        BY DEF EndSpot
    <2> QED BY <2>1, <2>2
<1>6. ASSUME NEW o \in Systems PROVE Served(R, o, u)'
    <2>1. CASE o = s
        BY <1>1, <1>2, <1>5, <2>1, ServedMoves
    <2>2. CASE o # s
        <3>1. Kept(o) /\ SocketsKept(o) /\ Served(R, o, u)
            BY <1>2, <1>3, <2>2 DEF Others
        <3> QED BY <1>1, <1>3, <1>4, <3>1, ServedKept
    <2> QED BY <2>1, <2>2
<1>7. RoundOf(R)'
    <2>1. R.checked <=> debug' = Systems
        BY <1>1, <1>3 DEF RoundOf
    <2> QED BY <1>1, <1>3, <2>1, RoundRequest
<1> QED BY <1>1, <1>3, <1>6, <1>7 DEF Busy

LEMMA RestingMoves ==
    ASSUME Base, PlanOK, NEW s \in Systems, SystemMoves(s), NEW k, NEW j, Resting(s, k, j) \/ Gone(s, k, j)
    PROVE  Resting(s, k, j)' \/ Gone(s, k, j)'
<1>1. toSystem[s] = <<>> /\ Grown /\ UNCHANGED <<accepted, systems>>
    BY SystemFrame DEF Frame, Resting, Gone, brokerVars
<1>2. ASSUME NEW n PROVE ~IsTold(s, k, j, n)
    <2> SUFFICES ASSUME IsTold(s, k, j, n) PROVE FALSE
        OBVIOUS
    <2>1. toSystem[s] # <<>>
        BY FetchFacts DEF IsTold, Receive
    <2> QED BY <1>1, <2>1
<1>3. CASE Waiting(s, k, j, 0) /\ toManager[s] = <<>> /\ (Len(accepted) = 2 => s \in ToSet(systems))
    <2>1. CASE Stays(s, k, j, 0)
        BY <1>1, <1>3, <2>1 DEF Stays, Resting
    <2>2. CASE Asks(s, k, j, 0)
        <3>1. PICK m : toManager'[s] = Append(<<>>, m) /\ m.kind = RequestOf(k, j)'
            BY <1>3, <2>2 DEF Asks
        <3>2. Len(toManager'[s]) = 1 /\ toManager'[s][1] = m
            BY <3>1
        <3>3. Waiting(s, k, j, 1)' /\ toSystem'[s] = <<>>
            BY <1>1, <2>2 DEF Asks
        <3>4. Resting(s, k, j)'
            BY <1>1, <1>3, <3>1, <3>2, <3>3 DEF Resting
        <3> QED BY <3>4
    <2> QED BY <1>2, <1>3, <2>1, <2>2, WaitingMoves
<1>4. ASSUME Waiting(s, k, j, 1)
      PROVE  Waiting(s, k, j, 1)' /\ toManager'[s] = toManager[s] /\ toSystem'[s] = toSystem[s]
    BY <1>2, <1>4, WaitingMoves DEF Asks, Stays
<1>5. CASE /\ Waiting(s, k, j, 1) /\ Len(toManager[s]) = 1 /\ toManager[s][1].kind = RequestOf(k, j)
           /\ (Len(accepted) = 2 => s \in ToSet(systems))
    <2>1. RequestOf(k, j)' = RequestOf(k, j)
        BY <1>1, <1>5, RequestKept
    <2> QED BY <1>1, <1>4, <1>5, <2>1 DEF Resting
<1>6. CASE Gone(s, k, j)
    <2>1. Waiting(s, k, j, 1) /\ plan[k] = "finalize" /\ toManager[s] = <<>>
        BY <1>6 DEF Gone
    <2>2. k \in 1..Len(plan)
        BY <1>1, <2>1, RequestKept
    <2>3. plan'[k] = "finalize"
        BY <1>1, <2>1, <2>2 DEF Grown
    <2>4. Waiting(s, k, j, 1)' /\ toManager'[s] = <<>> /\ toSystem'[s] = <<>>
        BY <1>1, <1>4, <2>1
    <2> QED BY <1>1, <1>6, <2>3, <2>4 DEF Gone
<1> QED BY <1>3, <1>5, <1>6 DEF Resting

LEMMA RestingKept ==
    ASSUME Base, NEW s \in Systems, Kept(s), SocketsKept(s), Grown, UNCHANGED <<accepted, systems>>,
           NEW k, NEW j, Resting(s, k, j) \/ Gone(s, k, j)
    PROVE  Resting(s, k, j)' \/ Gone(s, k, j)'
<1>1. toManager'[s] = toManager[s] /\ toSystem'[s] = toSystem[s]
    BY DEF SocketsKept
<1>2. \A n : Waiting(s, k, j, n) => Waiting(s, k, j, n)'
    BY KeptWaiting
<1>3. Waiting(s, k, j, 1) => RequestOf(k, j)' = RequestOf(k, j) /\ plan'[k] = plan[k]
    BY RequestKept DEF Grown
<1>4. CASE Resting(s, k, j)
    BY <1>1, <1>2, <1>3, <1>4 DEF Resting
<1>5. CASE Gone(s, k, j)
    BY <1>1, <1>2, <1>3, <1>5 DEF Gone
<1> QED BY <1>4, <1>5

LEMMA IdleMoves ==
    ASSUME Base, PlanOK, NEW s \in Systems, SystemMoves(s), NEW k, NEW j, Idle(k, j)
    PROVE  Idle(k, j)'
<1>1. Others(s) /\ Grown /\ UNCHANGED <<accepted, systems, next, work>>
    BY SystemFrame DEF Frame, brokerVars
<1>2. ASSUME NEW o \in Systems PROVE Resting(o, k, j)' \/ Gone(o, k, j)'
    <2>1. Resting(o, k, j) \/ Gone(o, k, j)
        BY DEF Idle
    <2>2. CASE o = s
        BY <2>1, <2>2, RestingMoves
    <2>3. CASE o # s
        <3>1. Kept(o) /\ SocketsKept(o)
            BY <1>1, <2>3 DEF Others
        <3> QED BY <1>1, <2>1, <3>1, RestingKept
    <2> QED BY <2>2, <2>3
<1> QED BY <1>1, <1>2 DEF Idle

\* The methods agreed on stay a plan.
LEMMA PlanStays ==
    ASSUME Base, PlanOK, NEW s \in Systems, SystemMoves(s), todo[s] # <<>>
    PROVE  plan' = plan /\ calls' = calls
<1>1. ~CallMethod(s)
    BY DEF CallMethod, Call
<1>2. CASE Send(s)
    BY <1>2, SendFacts DEF appVars
<1>3. CASE FetchInstruction(s)
    BY <1>3, FetchFacts DEF appVars
<1>4. CASE ReceiveSize(s)
    BY <1>4, SizeFacts DEF appVars
<1>5. CASE ReceiveBytes(s)
    BY <1>5 DEF ReceiveBytes, appVars
<1>6. CASE ReduceSizes(s)
    BY <1>6, ReduceFacts DEF appVars
<1>7. CASE InterpolateValues(s) \/ WriteFile(s) \/ ReadReduce(s) \/ Return(s)
    BY <1>7, SimpleFacts DEF appVars
<1> QED BY <1>1, <1>2, <1>3, <1>4, <1>5, <1>6, <1>7 DEF SystemMoves, SystemStep

LEMMA PlanMoves ==
    ASSUME Base, PlanOK, NEW s \in Systems, SystemMoves(s)
    PROVE  PlanOK'
<1>1. /\ plan \in Seq(Methods \cup {"finalize"}) /\ calls[s] \in Nat /\ calls[s] <= Len(plan)
      /\ \A c \in 1..Len(plan) : plan[c] = "finalize" => c = Len(plan)
      /\ \A c, d \in 1..Len(plan) : plan[c] \in Unifying /\ plan[d] \in Unifying => c = d
      /\ \A c \in 1..Len(plan) : plan[c] = "combineThirdLevel" => \E d \in 1..(c - 1) : plan[d] \in Unifying
    BY DEF Base, PlanOK
<1>2. CASE plan' = plan
    BY <1>1, <1>2 DEF PlanOK
<1>3. CASE plan' # plan
    <2>1. todo[s] = <<>>
        BY <1>3, PlanStays
    <2> DEFINE l == Len(plan)
               k == calls[s] + 1
    <2>2. PICK op \in Operations \cup {"finalize"} : Call(s, op)
        BY <2>1, MoveIs DEF CallMethod
    <2>3. /\ plan' = Append(plan, op) /\ k = l + 1 /\ plan' \in Seq(Methods \cup {"finalize"})
          /\ (calls[s] > 0 => plan[calls[s]] # "finalize")
          /\ (op # "finalize" => SizesKnown(op))
        BY <1>3, <2>2, CallFacts
    <2>4. l \in Nat /\ Len(plan') = l + 1 /\ plan'[l + 1] = op /\ \A c \in 1..l : plan'[c] = plan[c]
        BY <1>1, <2>3
    <2>5. calls[s] = l
        BY <1>1, <2>3, <2>4
    <2>6. \A c \in 1..l : plan[c] # "finalize"
        BY <1>1, <2>3, <2>4, <2>5
    <2>7. /\ op = "combineThirdLevel" => \E c \in 1..l : plan[c] \in Unifying
          /\ op \in Unifying => \A c \in 1..l : plan[c] \notin Unifying
        <3>1. DOMAIN plan = 1..l
            BY <1>1
        <3> QED BY <2>3, <3>1 DEF SizesKnown, Unifying
    <2>8. \A c \in 1..(l + 1) : c \in 1..l \/ c = l + 1
        BY <2>4
    <2> HIDE DEF l
    <2>9. \A c \in 1..(l + 1) : plan'[c] = "finalize" => c = l + 1
        BY <2>4, <2>6, <2>8
    <2>10. \A c, d \in 1..(l + 1) : plan'[c] \in Unifying /\ plan'[d] \in Unifying => c = d
        <3>1. \A c, d \in 1..l : plan[c] \in Unifying /\ plan[d] \in Unifying => c = d
            BY <1>1 DEF l
        <3> QED BY <2>4, <2>7, <2>8, <3>1
    <2>11. ASSUME NEW c \in 1..(l + 1), plan'[c] = "combineThirdLevel"
           PROVE  \E d \in 1..(c - 1) : plan'[d] \in Unifying
        <3>1. CASE c = l + 1
            <4>1. PICK d \in 1..l : plan[d] \in Unifying
                BY <2>4, <2>7, <2>11, <3>1
            <4>2. d \in 1..(c - 1)
                BY <2>4, <3>1
            <4> QED BY <2>4, <4>1, <4>2
        <3>2. CASE c \in 1..l
            <4>1. plan[c] = "combineThirdLevel"
                BY <2>4, <2>11, <3>2
            <4>2. PICK d \in 1..(c - 1) : plan[d] \in Unifying
                BY <1>1, <3>2, <4>1 DEF l
            <4>3. d \in 1..l
                BY <2>4, <3>2
            <4> QED BY <2>4, <4>2, <4>3
        <3> QED BY <2>8, <3>1, <3>2
    <2> QED BY <2>3, <2>4, <2>9, <2>10, <2>11 DEF PlanOK
<1> QED BY <1>2, <1>3

-----------------------------------------------------------------------------
(***************************************************************************)
(* The sizes.  While a system unifies them, the reduction is before it or  *)
(* behind it.                                                              *)
(***************************************************************************)
Before(s, op) ==
    \E z : /\ AnySeq(z) /\ todo[s] = z \o Closing(op, 1)
           /\ z = <<>> => buffer[s] = SpacesOf[OtherThan(s)]
           /\ z # <<>> => /\ Head(z).do \notin {"reduceMax", "reduceMin"}
                          /\ Head(z).do = "fetch" => Head(z).what = "sizes"

Behind(s, op) == todo[s] \in {Readying(op, 1), Local("return"), <<>>}

InRound(s) ==
    \/ \E k, j, n : Waiting(s, k, j, n)
    \/ \E R : RoundOf(R) /\ \E out, in \in Nat : Inside(R, s, out, in)

LEMMA EveryoneIsIn ==
    ASSUME Rounds, NEW s \in Systems
    PROVE  InRound(s)
<1>1. ASSUME NEW k, NEW j, Idle(k, j) PROVE InRound(s)
    BY <1>1 DEF Idle, Resting, Gone, InRound
<1>2. ASSUME NEW R, NEW u, Busy(R, u) PROVE InRound(s)
    <2>1. RoundOf(R) /\ Served(R, s, u)
        BY <1>2 DEF Busy
    <2>2. PICK out \in Nat, in \in Nat : Position(R, s, out, in)
        BY <2>1 DEF Served
    <2> QED BY <2>1, <2>2 DEF Position, InRound
<1> QED BY <1>1, <1>2 DEF Rounds

\* What is left of a method is long before the reduction and short behind it.
LEMMA BeforeOrBehind ==
    ASSUME NEW op \in Unifying, NEW z, AnySeq(z)
    PROVE  z \o Closing(op, 1) \notin {Readying(op, 1), Local("return"), <<>>}
<1> DEFINE c == Closing(op, 1)
           r == Readying(op, 1)
           l == Local("return")
<1>1. op # "monteCarloThirdLevel"
    BY DEF Unifying
<1>2. AnySeq(l) /\ Len(l) = 1
    BY AnyOne DEF Local
<1>3. AnySeq(r) /\ r # <<>> /\ Tail(r) = l
    BY <1>1, ReadyingIs, RestIs, FinishIs
<1>4. AnySeq(c) /\ c # <<>> /\ Tail(c) = r
    BY ClosingIs
<1> HIDE DEF c, r, l
<1>5. Len(r) = 2
    <2>1. Len(r) \in Nat /\ Len(Tail(r)) = Len(r) - 1
        BY ONLY <1>3, AnyTail
    <2> QED BY ONLY <1>2, <1>3, <2>1
<1>6. Len(c) = 3
    <2>1. Len(c) \in Nat /\ Len(Tail(c)) = Len(c) - 1
        BY ONLY <1>4, AnyTail
    <2>2. Len(Tail(c)) = 2
        BY ONLY <1>4, <1>5
    <2> QED BY ONLY <2>1, <2>2
<1>7. AnySeq(z \o c) /\ Len(z \o c) = Len(z) + 3 /\ Len(z) \in Nat
    <2>1. AnySeq(z \o c) /\ Len(z \o c) = Len(z) + Len(c) /\ Len(z) \in Nat
        BY ONLY AnySeq(z), <1>4, AnyConcat
    <2> QED BY ONLY <1>6, <2>1
<1>8. z \o c # <<>>
    BY <1>7, AnyLen
<1>9. z \o c \notin {r, l, <<>>}
    BY ONLY <1>2, <1>5, <1>7, <1>8
<1> QED BY <1>9 DEF c, r, l

LEMMA LocalDo ==
    ASSUME NEW do, NEW x, x = LocalStep(do)
    PROVE  x.do = do
BY DEF LocalStep, Step

LEMMA SignalDo ==
    ASSUME NEW text, NEW x, x = SignalStep(text)
    PROVE  x.do = "signal"
BY DEF SignalStep, Step

LEMMA WaitingShape ==
    ASSUME Base, PlanOK, NEW s \in Systems, NEW k, NEW j, NEW n, Waiting(s, k, j, n),
           NEW op, op = plan[calls[s]], op \in Unifying, calls[s] > 0
    PROVE  Before(s, op) \/ Behind(s, op)
<1> DEFINE cl == Closing(op, 1)
<1>1. /\ op # "finalize" /\ op # "monteCarloThirdLevel" /\ op \in Methods /\ j \in {1, 2}
    BY DEF Unifying, Methods, Waiting
<1>2. AnySeq(cl)
    BY ClosingIs
<1>3. ASSUME NEW x, x.do \notin {"reduceMax", "reduceMin"}, x.do = "fetch" => x.what = "sizes", todo[s] = <<x>> \o cl
      PROVE  Before(s, op)
    <2>1. AnySeq(<<x>>) /\ <<x>> # <<>> /\ Head(<<x>>) = x
        BY AnyOne
    <2> QED BY <1>3, <2>1 DEF Before
<1>4. CASE todo[s] = Fetching(op, 1)
    <2> DEFINE x == Step("fetch", What(op, 1), None, "")
    <2>1. todo[s] = <<x>> \o cl
        BY <1>4 DEF Fetching, Fetch
    <2>2. x.do = "fetch" /\ x.what = "sizes"
        BY DEF Step, What, Unifying
    <2> HIDE DEF x, cl
    <2> QED BY <1>3, <2>1, <2>2
<1>5. CASE todo[s] = Asking(op, 1)
    <2> DEFINE x == SignalStep(RequestFor(What(op, 1)))
               y == Step("fetch", What(op, 1), None, "")
               z == <<x>> \o <<y>>
    <2>1. todo[s] = <<x>> \o (<<y>> \o cl)
        BY <1>5 DEF Asking, Fetching, Fetch, Signal, SignalStep
    <2>2. x = SignalStep(RequestFor(What(op, 1)))
        OBVIOUS
    <2> HIDE DEF x, y, cl
    <2>3. AnySeq(<<x>>) /\ AnySeq(<<y>>)
        BY AnyOne
    <2>4. todo[s] = z \o cl
        BY <1>2, <2>1, <2>3, AnyAssociative
    <2>6. AnySeq(z) /\ z # <<>> /\ Head(z) = x
        BY <2>3, AnyCons
    <2>5. x.do = "signal"
        BY ONLY <2>2, SignalDo
    <2> HIDE DEF z
    <2> QED BY <2>4, <2>5, <2>6 DEF Before, cl
<1>6. CASE Unsent(s, k, j)
    <2>1. CASE todo[s] = <<>>
        BY <2>1 DEF Behind
    <2>2. CASE todo[s] \in {Finish(plan[calls[s]]), Local("return")}
        <3>1. Finish(op) = Local("return")
            BY <1>1, FinishIs
        <3> QED BY <2>2, <3>1 DEF Behind
    <2>3. CASE /\ calls[s] = k /\ (j = 2 => plan[k] = "monteCarloThirdLevel") /\ todo[s] = Asking(plan[k], j)
        BY <1>1, <1>5, <2>3
    <2> QED BY <1>1, <1>6, <2>1, <2>2, <2>3 DEF Unsent
<1>7. CASE Sent(s, k, j)
    <2>1. calls[s] = k /\ (j = 2 => plan[k] = "monteCarloThirdLevel") /\ todo[s] = Fetching(plan[k], j)
        BY <1>1, <1>7 DEF Sent
    <2> QED BY <1>1, <1>4, <2>1
<1> QED BY <1>6, <1>7 DEF Waiting

LEMMA InsideShape ==
    ASSUME Base, NEW R, RoundOf(R), NEW s \in Systems, NEW out \in Nat, NEW in \in Nat, Inside(R, s, out, in),
           NEW op, op = plan[calls[s]], op \in Unifying
    PROVE  Before(s, op) \/ Behind(s, op)
<1> DEFINE e == <<OutEnd(R, s) - 1, InEnd(R, s)>>
           u == <<out, in>>
<1>1. R.op = op /\ R.part = 1 /\ R.what = "sizes" /\ IsRound(R) /\ R.call = calls[s]
    <2>1. IsRound(R) /\ R.op = op /\ R.call = calls[s]
        BY DEF RoundOf, Inside
    <2>2. R.part = 1
        BY <2>1 DEF IsRound, Unifying
    <2> QED BY <2>1, <2>2, RoundWhat
<1>2. CASE \E z : todo[s] = z \o Closing(R.op, R.part) /\ Walk(StepEdges(R, s), z, u, e)
    <2>1. PICK z : todo[s] = z \o Closing(op, 1) /\ Walk(StepEdges(R, s), z, u, e)
        BY <1>1, <1>2
    <2>2. AnySeq(z)
        BY <2>1 DEF Walk
    <2>3. z = <<>> => buffer[s] = SpacesOf[OtherThan(s)]
        <3> SUFFICES ASSUME z = <<>> PROVE buffer[s] = SpacesOf[OtherThan(s)]
            OBVIOUS
        <3>1. u = e
            BY <2>1, WalkNowhere
        <3>2. in = InEnd(R, s)
            BY <3>1
        <3> QED BY <1>1, <3>2 DEF Inside
    <2>4. z # <<>> => Head(z).do \notin {"reduceMax", "reduceMin", "fetch"}
        <3> SUFFICES ASSUME z # <<>> PROVE Head(z).do \notin {"reduceMax", "reduceMin", "fetch"}
            OBVIOUS
        <3> DEFINE x == Head(z)
        <3>1. PICK w : <<x, u, w>> \in StepEdges(R, s)
            BY <2>1, WalkHead
        <3>2. x \in WalkSteps
            BY <3>1, StepEdgeIs
        <3> HIDE DEF x
        <3>3. x.do \notin {"reduceMax", "reduceMin", "fetch"}
            BY <3>2 DEF WalkSteps
        <3> QED BY <3>3 DEF x
    <2> QED BY <2>1, <2>2, <2>3, <2>4 DEF Before
<1>3. CASE todo[s] = Readying(R.op, R.part)
    BY <1>1, <1>3 DEF Behind
<1> QED BY <1>2, <1>3 DEF Inside

LEMMA UnifyingShape ==
    ASSUME Base, PlanOK, NEW s \in Systems, InRound(s), NEW op, op = plan[calls[s]], op \in Unifying, calls[s] > 0
    PROVE  Before(s, op) \/ Behind(s, op)
BY WaitingShape, InsideShape DEF InRound

\* Only the methods that unify the sizes reduce them.
LEMMA OnlyUnifying ==
    ASSUME Base, PlanOK, NEW s \in Systems, InRound(s), todo[s] # <<>>,
           NEW x, x = Head(todo[s]), x.do \in {"reduceMax", "reduceMin"}
    PROVE  calls[s] \in 1..Len(plan) /\ plan[calls[s]] \in Unifying
<1>1. calls[s] \in Nat /\ calls[s] <= Len(plan)
    BY DEF Base
<1>2. ASSUME NEW op, NEW j, todo[s] = Fetching(op, j) PROVE FALSE
    <2>1. x = Step("fetch", What(op, j), None, "")
        BY <1>2, FetchingIs
    <2>2. x.do = "fetch"
        BY ONLY <2>1 DEF Step
    <2> QED BY <2>2
<1>3. ASSUME NEW text, x = SignalStep(text) PROVE FALSE
    BY <1>3, SignalDo
<1>4. ASSUME NEW do, x = LocalStep(do), do \notin {"reduceMax", "reduceMin"} PROVE FALSE
    BY <1>4, LocalDo
<1>5. ASSUME NEW op, todo[s] \in {Finish(op), Local("return")} PROVE FALSE
    <2>1. x \in {LocalStep("addUp"), LocalStep("return")}
        BY <1>5, FinishIs
    <2> QED BY <1>4, <2>1
<1>6. ASSUME NEW op, NEW j, todo[s] = Asking(op, j) PROVE FALSE
    BY <1>3, <1>6, AskingIs
<1>7. ASSUME todo[s] = Rest("monteCarloThirdLevel", 1) PROVE FALSE
    <2>1. x = LocalStep("interpolate")
        BY <1>7, RestIs
    <2> QED BY <1>4, <2>1
<1>8. ASSUME todo[s] = Script("finalize") PROVE FALSE
    BY <1>3, <1>8, FinalizeIs
<1>9. ASSUME NEW k, NEW j, NEW n, Waiting(s, k, j, n) PROVE FALSE
    <2>1. CASE Unsent(s, k, j)
        BY <1>5, <1>6, <1>7, <1>8, <2>1 DEF Unsent
    <2>2. CASE Sent(s, k, j)
        BY <1>2, <1>5, <2>2 DEF Sent
    <2> QED BY <1>9, <2>1, <2>2 DEF Waiting
<1>10. ASSUME NEW R, RoundOf(R), NEW out \in Nat, NEW in \in Nat, Inside(R, s, out, in)
       PROVE  calls[s] > 0 /\ plan[calls[s]] \in Unifying
    <2> DEFINE e == <<OutEnd(R, s) - 1, InEnd(R, s)>>
               u == <<out, in>>
               cl == Closing(R.op, R.part)
    <2>1. calls[s] = R.call /\ R.op = plan[R.call] /\ R.call > 0
        BY <1>10 DEF RoundOf, Inside, IsRound
    <2>2. ASSUME todo[s] = Readying(R.op, R.part) PROVE FALSE
        BY <1>3, <2>2, ReadyingIs
    <2>3. CASE \E z : todo[s] = z \o cl /\ Walk(StepEdges(R, s), z, u, e)
        <3>1. PICK z : todo[s] = z \o cl /\ Walk(StepEdges(R, s), z, u, e)
            BY <2>3
        <3>2. AnySeq(cl) /\ AnySeq(z)
            BY <3>1, ClosingIs DEF Walk
        <3>3. CASE z = <<>>
            <4>1. todo[s] = cl
                BY <3>1, <3>2, <3>3, AnyEmpty
            <4>2. R.op \in Unifying
                BY <2>2, <4>1, ClosingIs
            <4> QED BY <2>1, <4>2
        <3>4. CASE z # <<>>
            <4>1. x = Head(z)
                <5> HIDE DEF cl
                <5>1. Head(z \o cl) = Head(z)
                    BY <3>2, <3>4, HeadOfConcat
                <5> QED BY <3>1, <5>1
            <4>2. PICK w : <<x, u, w>> \in StepEdges(R, s)
                BY <3>1, <3>4, <4>1, WalkHead
            <4>3. x \in WalkSteps
                BY <4>2, StepEdgeIs
            <4> QED BY <4>3 DEF WalkSteps
        <3> QED BY <3>3, <3>4
    <2> QED BY <1>10, <2>1, <2>2, <2>3 DEF Inside
<1>11. calls[s] > 0 /\ plan[calls[s]] \in Unifying
    BY <1>9, <1>10 DEF InRound
<1> QED BY <1>1, <1>11

LEMMA StepTodo ==
    ASSUME Base, NEW s \in Systems, SystemMoves(s), todo[s] # <<>>, NEW x, x = Head(todo[s])
    PROVE  /\ x.do = "fetch" => todo'[s] = Role(s, x.what, Head(toSystem[s]).kind) \o Tail(todo[s])
           /\ x.do # "fetch" => todo'[s] = Tail(todo[s])
           /\ x.do \notin {"reduceMax", "reduceMin"} => spaces' = spaces /\ dsguSizes' = dsguSizes
<1>1. ~CallMethod(s)
    BY DEF CallMethod, Call
<1>2. CASE Send(s)
    <2>1. x.do \in {"signal", "sendSize", "sendBytes"}
        BY <1>2 DEF Send, At, Now
    <2>2. todo'[s] = Tail(todo[s]) /\ spaces' = spaces /\ dsguSizes' = dsguSizes
        BY <1>2, SendFacts DEF dataVars
    <2> QED BY <2>1, <2>2
<1>3. CASE FetchInstruction(s)
    <2>1. /\ x.do = "fetch" /\ todo'[s] = Role(s, x.what, Head(toSystem[s]).kind) \o Tail(todo[s])
          /\ spaces' = spaces /\ dsguSizes' = dsguSizes
        BY <1>3, FetchFacts DEF dataVars
    <2> QED BY <2>1
<1>4. CASE ReceiveSize(s)
    <2>1. x.do = "recvSize" /\ todo'[s] = Tail(todo[s]) /\ spaces' = spaces /\ dsguSizes' = dsguSizes
        BY <1>4, SizeFacts, AdvanceFacts
    <2> QED BY <2>1
<1>5. CASE ReceiveBytes(s)
    <2>1. x.do = "recvBytes" /\ Advance(s) /\ spaces' = spaces /\ dsguSizes' = dsguSizes
        BY <1>5 DEF ReceiveBytes, At, Now
    <2> QED BY <2>1, AdvanceFacts
<1>6. CASE ReduceSizes(s)
    <2>1. x.do \in {"reduceMax", "reduceMin"} /\ todo'[s] = Tail(todo[s])
        BY <1>6, ReduceFacts, AdvanceFacts
    <2> QED BY <2>1
<1>7. CASE InterpolateValues(s) \/ WriteFile(s) \/ ReadReduce(s) \/ Return(s)
    <2>1. /\ x.do \in {"interpolate", "addUp", "write", "readReduce", "return"}
          /\ todo'[s] = Tail(todo[s]) /\ spaces' = spaces /\ dsguSizes' = dsguSizes
        BY <1>7, SimpleFacts, AdvanceFacts
    <2> QED BY <2>1
<1> QED BY <1>1, <1>2, <1>3, <1>4, <1>5, <1>6, <1>7 DEF SystemMoves, SystemStep

LEMMA AnyRole ==
    ASSUME NEW s, NEW instruction
    PROVE  AnySeq(Role(s, "sizes", instruction))
<1> DEFINE a == SendData("sizes", None)
           b == RecvData("sizes", None, "keep")
           size == Step("recvSize", "sizes", None, "")
           wait == Step("recvBytes", "sizes", None, "wait")
           last == Step("recvBytes", "sizes", None, "keep")
           announce == Step("signal", "sending_data", None, "")
           mine == Step("sendSize", "sizes", None, "")
           bytes == Step("sendBytes", "sizes", None, "")
<1>1. a = (<<announce>> \o <<mine>>) \o [i \in 1..Chunks |-> bytes]
    BY DEF SendData, Signal
<1>2. b = (<<size>> \o [i \in 1..(Chunks - 1) |-> wait]) \o <<last>>
    BY DEF RecvData
<1>3. Chunks \in Nat /\ Chunks - 1 \in Nat
    BY ThirdLevelAssumption
<1> HIDE DEF a, b, size, wait, last, announce, mine, bytes
<1>4. AnySeq([i \in 1..Chunks |-> bytes]) /\ AnySeq([i \in 1..(Chunks - 1) |-> wait])
    BY <1>3, AnyTable
<1>5. AnySeq(a)
    BY <1>1, <1>4, AnyOne, AnyConcat
<1>6. AnySeq(b)
    BY <1>2, <1>4, AnyOne, AnyConcat
<1>7. AnySeq(a \o b) /\ AnySeq(b \o a)
    BY <1>5, <1>6, AnyConcat
<1>8. Role(s, "sizes", instruction) \in {<<>>, a \o b, b \o a}
    BY DEF Role, ExchangeAndKeep, a, b
<1>9. AnySeq(<<>>)
    BY FinishIs
<1> QED BY <1>7, <1>8, <1>9

LEMMA TwoSizes ==
    ASSUME NEW s \in Systems, NEW op \in Unifying, NEW a, a = SpacesOf[s], NEW b, b = SpacesOf[OtherThan(s)]
    PROVE  /\ op = "unifySubspaceSizesThirdLevel" => DsguOf(op) = a \cup b
           /\ op # "unifySubspaceSizesThirdLevel" => DsguOf(op) = a \cap b
<1> DEFINE o == OtherThan(s)
           all == UNION {SpacesOf[x] : x \in Systems}
<1>1. o \in Systems /\ \A x \in Systems : x = s \/ x = o
    BY TwoOfThem
<1>2. all = a \cup b
    BY <1>1
<1>3. {y \in all : \A x \in Systems : y \in SpacesOf[x]} = a \cap b
    <2>1. \A y : (\A x \in Systems : y \in SpacesOf[x]) <=> y \in a /\ y \in b
        BY <1>1
    <2> HIDE DEF all
    <2> QED BY <1>2, <2>1
<1> QED BY <1>2, <1>3 DEF DsguOf

\* While a method is executed, the sizes stay right.
LEMMA ReducingSizes ==
    ASSUME Base, PlanOK, NEW s \in Systems, InRound(s), SystemMoves(s), SizesOK(s), todo[s] # <<>>,
           Head(todo[s]).do \in {"reduceMax", "reduceMin"}
    PROVE  SizesOK(s)'
<1> DEFINE x == Head(todo[s])
           c == calls[s]
           op == plan[c]
           cl == Closing(op, 1)
<1>1. c \in 1..Len(plan) /\ op \in Unifying /\ c > 0
    <2>1. calls[s] \in 1..Len(plan) /\ plan[calls[s]] \in Unifying
        BY OnlyUnifying
    <2>2. calls[s] \in Nat
        BY DEF Base
    <2> QED BY <2>1, <2>2
<1>2. ~Behind(s, op)
    <2>1. todo[s] = Readying(op, 1) => x.do = "signal"
        BY ReadyingIs, SignalDo
    <2>2. todo[s] = Local("return") => x.do = "return"
        BY FinishIs, LocalDo
    <2> QED BY <2>1, <2>2 DEF Behind
<1>3. Before(s, op)
    BY <1>1, <1>2, UnifyingShape
<1>4. AnySeq(cl)
    BY ClosingIs
<1>5. todo[s] = cl /\ buffer[s] = SpacesOf[OtherThan(s)]
    <2>1. PICK z : /\ AnySeq(z) /\ todo[s] = z \o cl
                   /\ z = <<>> => buffer[s] = SpacesOf[OtherThan(s)]
                   /\ z # <<>> => Head(z).do \notin {"reduceMax", "reduceMin"}
        BY <1>3 DEF Before
    <2> HIDE DEF cl
    <2>2. z = <<>>
        <3> SUFFICES ASSUME z # <<>> PROVE FALSE
            OBVIOUS
        <3>1. Head(z \o cl) = Head(z)
            BY <1>4, <2>1, HeadOfConcat
        <3> QED BY <2>1, <3>1
    <2> QED BY <1>4, <2>1, <2>2, AnyEmpty
<1>6. x = ReduceStep(op) /\ Tail(todo[s]) = Readying(op, 1)
    BY <1>1, <1>5, ClosingIs
<1>7. ReduceSizes(s) /\ plan' = plan /\ calls' = calls
    BY MoveIs, PlanStays
<1>8. /\ todo'[s] = Readying(op, 1)
      /\ x.do = "reduceMax" => dsguSizes'[s] = spaces[s] \cup buffer[s]
      /\ x.do = "reduceMin" => dsguSizes'[s] = spaces[s] \cap buffer[s]
    BY <1>6, <1>7, ReduceFacts, AdvanceFacts
<1>9. x.do = IF op = "unifySubspaceSizesThirdLevel" THEN "reduceMax" ELSE "reduceMin"
    <2> HIDE DEF x, op
    <2>1. x = LocalStep(IF op = "unifySubspaceSizesThirdLevel" THEN "reduceMax" ELSE "reduceMin")
        BY <1>6 DEF ReduceStep
    <2> QED BY ONLY <2>1, LocalDo
<1>10. ~Reduced(s, c)
    <2>1. <<>> \o cl = cl /\ AnySeq(<<>>)
        BY <1>4, AnyEmpty
    <2>2. <<>> \o Closing(op, 1) \notin {Readying(op, 1), Local("return"), <<>>}
        BY <1>1, <2>1, BeforeOrBehind
    <2>3. todo[s] \notin {Readying(op, 1), Local("return"), <<>>}
        BY <1>5, <2>1, <2>2
    <2> QED BY <1>1, <2>3 DEF Reduced
<1>11. spaces[s] = SpacesOf[s]
    BY <1>1, <1>10 DEF SizesOK
<1>12. dsguSizes'[s] = DsguOf(op)
    <2> HIDE DEF x, op, c
    <2>1. CASE op = "unifySubspaceSizesThirdLevel"
        <3>1. dsguSizes'[s] = SpacesOf[s] \cup SpacesOf[OtherThan(s)]
            BY <1>5, <1>8, <1>9, <1>11, <2>1
        <3>2. DsguOf(op) = SpacesOf[s] \cup SpacesOf[OtherThan(s)]
            BY ONLY s \in Systems, <1>1, <2>1, TwoSizes
        <3> QED BY <3>1, <3>2
    <2>2. CASE op # "unifySubspaceSizesThirdLevel"
        <3>1. dsguSizes'[s] = SpacesOf[s] \cap SpacesOf[OtherThan(s)]
            BY <1>5, <1>8, <1>9, <1>11, <2>2
        <3>2. DsguOf(op) = SpacesOf[s] \cap SpacesOf[OtherThan(s)]
            BY ONLY s \in Systems, <1>1, <2>2, TwoSizes
        <3> QED BY <3>1, <3>2
    <2> QED BY <2>1, <2>2
<1>13. Reduced(s, c)'
    <2>1. todo'[s] = Readying(plan'[c], 1) /\ calls'[s] = c
        BY <1>7, <1>8
    <2> HIDE DEF c
    <2>2. calls'[s] = c /\ todo'[s] \in {Readying(plan'[c], 1), Local("return"), <<>>}
        BY <2>1
    <2>3. c' = c
        BY <1>7 DEF c
    <2> QED BY <2>2, <2>3 DEF Reduced
<1>14. \A d \in 1..Len(plan) : plan[d] \in Unifying => d = c
    BY <1>1 DEF PlanOK
<1> QED
    <2>1. c' = c
        BY <1>7
    <2> HIDE DEF c
    <2> QED BY <1>1, <1>7, <1>12, <1>13, <1>14, <2>1 DEF SizesOK

LEMMA SteadySizes ==
    ASSUME Base, PlanOK, NEW s \in Systems, InRound(s), SystemMoves(s), SizesOK(s), todo[s] # <<>>,
           Head(todo[s]).do \notin {"reduceMax", "reduceMin"}
    PROVE  SizesOK(s)'
<1> DEFINE x == Head(todo[s])
           n == calls[s]
<1>1. plan' = plan /\ calls'[s] = n /\ spaces'[s] = spaces[s] /\ dsguSizes'[s] = dsguSizes[s]
    BY PlanStays, StepTodo
<1>2. n \in Nat
    BY DEF Base
<1>3. ASSUME NEW c \in 1..Len(plan), plan[c] \in Unifying, c # n
      PROVE  Reduced(s, c)' <=> Reduced(s, c)
    <2>1. c \in Nat
        OBVIOUS
    <2>2. Reduced(s, c) <=> n > c
        BY <1>3 DEF Reduced
    <2>3. Reduced(s, c)' <=> n > c
        BY <1>1, <1>3 DEF Reduced
    <2> QED BY <2>2, <2>3
<1>4. ASSUME n > 0, plan[n] \in Unifying
      PROVE  Reduced(s, n) <=> (calls'[s] > n \/ (calls'[s] = n /\ todo'[s] \in {Readying(plan'[n], 1), Local("return"), <<>>}))
    <2> DEFINE op == plan[n]
               cl == Closing(op, 1)
    <2>1. CASE Behind(s, op)
        <3>1. Reduced(s, n)
            BY <2>1 DEF Reduced, Behind
        <3>2. CASE todo[s] = Readying(op, 1)
            <4>1. op # "monteCarloThirdLevel"
                BY <1>4 DEF Unifying
            <4>2. Head(todo[s]) = SignalStep("ready") /\ Tail(todo[s]) = Local("return")
                BY <3>2, <4>1, ReadyingIs, RestIs, FinishIs
            <4>3. todo'[s] = Local("return")
                BY <4>2, SignalMove
            <4> QED BY <1>1, <3>1, <4>3
        <3>3. CASE todo[s] = Local("return")
            <4>1. Head(todo[s]) = LocalStep("return") /\ Tail(todo[s]) = <<>>
                BY <3>3, FinishIs
            <4>2. todo'[s] = <<>>
                BY <4>1, LocalMove
            <4> QED BY <1>1, <3>1, <4>2
        <3> QED BY <2>1, <3>2, <3>3 DEF Behind
    <2>2. CASE Before(s, op)
        <3>1. PICK z : /\ AnySeq(z) /\ todo[s] = z \o cl
                       /\ z # <<>> /\ Head(z).do = "fetch" => Head(z).what = "sizes"
            BY <2>2 DEF Before
        <3>2. AnySeq(cl)
            BY ClosingIs
        <3>3. z # <<>>
            <4> SUFFICES ASSUME z = <<>> PROVE FALSE
                OBVIOUS
            <4>1. todo[s] = cl
                BY <3>1, <3>2, AnyEmpty
            <4>2. x = LocalStep(IF op = "unifySubspaceSizesThirdLevel" THEN "reduceMax" ELSE "reduceMin")
                BY <1>4, <4>1, ClosingIs DEF ReduceStep
            <4>3. x.do \notin {"reduceMax", "reduceMin"}
                OBVIOUS
            <4> HIDE DEF x, op
            <4>4. x.do = IF op = "unifySubspaceSizesThirdLevel" THEN "reduceMax" ELSE "reduceMin"
                BY ONLY <4>2, LocalDo
            <4> QED BY <4>3, <4>4
        <3>4. x = Head(z) /\ Tail(todo[s]) = Tail(z) \o cl /\ AnySeq(Tail(z))
            <4> HIDE DEF cl
            <4>1. Head(z \o cl) = Head(z) /\ Tail(z \o cl) = Tail(z) \o cl /\ AnySeq(Tail(z))
                BY <3>1, <3>2, <3>3, HeadOfConcat
            <4> QED BY <3>1, <4>1
        <3>5. \E y : AnySeq(y) /\ todo'[s] = y \o cl
            <4>1. CASE x.do = "fetch"
                <5> DEFINE role == Role(s, "sizes", Head(toSystem[s]).kind)
                           t == Tail(z)
                <5>1. todo'[s] = role \o (t \o cl)
                    BY <3>1, <3>3, <3>4, <4>1, StepTodo
                <5>2. AnySeq(role)
                    BY AnyRole
                <5>3. AnySeq(t)
                    BY <3>4
                <5> HIDE DEF role, t, cl
                <5>4. todo'[s] = (role \o t) \o cl /\ AnySeq(role \o t)
                    BY <3>2, <5>1, <5>2, <5>3, AnyAssociative, AnyConcat
                <5> QED BY <5>4
            <4>2. CASE x.do # "fetch"
                <5>1. todo'[s] = Tail(z) \o cl
                    BY <3>4, <4>2, StepTodo
                <5> HIDE DEF cl
                <5> QED BY <3>4, <5>1
            <4> QED BY <4>1, <4>2
        <3>6. todo[s] \notin {Readying(op, 1), Local("return"), <<>>}
            BY <1>4, <3>1, BeforeOrBehind
        <3>7. todo'[s] \notin {Readying(op, 1), Local("return"), <<>>}
            BY <1>4, <3>5, BeforeOrBehind
        <3>8. plan'[n] = op
            BY <1>1
        <3>9. ~(n > n)
            BY <1>2
        <3>10. ~Reduced(s, n)
            <4> HIDE DEF n
            <4>1. n = calls[s]
                BY DEF n
            <4> QED BY <3>6, <3>9, <4>1 DEF Reduced
        <3> HIDE DEF n, op
        <3> QED BY <1>1, <3>7, <3>8, <3>9, <3>10
    <2> QED BY <1>4, <2>1, <2>2, UnifyingShape
<1>5. (\A c \in 1..Len(plan) : plan[c] \notin Unifying) => spaces[s] = SpacesOf[s]
    BY DEF SizesOK
<1>6. ASSUME NEW c \in 1..Len(plan), plan[c] \in Unifying
      PROVE  Reduced(s, c)' <=> Reduced(s, c)
    <2>1. CASE c = n
        <3>1. n > 0 /\ plan[n] \in Unifying
            BY <1>6, <2>1
        <3>2. Reduced(s, c) <=> (calls'[s] > c \/ (calls'[s] = c /\ todo'[s] \in {Readying(plan'[c], 1), Local("return"), <<>>}))
            <4> HIDE DEF n
            <4> QED BY <1>4, <2>1, <3>1
        <3> QED BY <3>2 DEF Reduced
    <2>2. CASE c # n
        BY <1>3, <1>6, <2>2
    <2> QED BY <2>1, <2>2
<1>7. \A c \in 1..Len(plan) : plan[c] \in Unifying =>
         IF Reduced(s, c) THEN dsguSizes[s] = DsguOf(plan[c]) ELSE spaces[s] = SpacesOf[s]
    BY DEF SizesOK
<1> QED BY <1>1, <1>5, <1>6, <1>7 DEF SizesOK

\* Called again, a system has reduced the sizes if it was to.
LEMMA CallSizes ==
    ASSUME Base, PlanOK, NEW s \in Systems, SystemMoves(s), todo[s] = <<>>, \A o \in Systems : SizesOK(o),
           NEW o \in Systems
    PROVE  SizesOK(o)'
<1> DEFINE k == calls[s] + 1
           l == Len(plan)
<1>1. PICK op \in Operations \cup {"finalize"} : Call(s, op)
    BY MoveIs DEF CallMethod
<1>2. /\ k \in 1..Len(plan') /\ plan'[k] = op /\ op \in Methods \cup {"finalize"} /\ Grown
      /\ \/ plan' = plan
         \/ plan' = Append(plan, op) /\ k = l + 1 /\ Len(plan') = k /\ (op # "finalize" => SizesKnown(op))
      /\ calls'[s] = k /\ todo'[s] = Script(op)
      /\ \A y \in Systems : y # s => todo'[y] = todo[y] /\ calls'[y] = calls[y]
      /\ UNCHANGED <<brokerVars, socketVars, debug, spaces, dsguSizes, buffer>>
    BY <1>1, CallFacts
<1>3. /\ calls[o] \in Nat /\ calls[o] <= l /\ calls[s] \in Nat /\ calls[s] <= l /\ l \in Nat
      /\ plan \in Seq(Methods \cup {"finalize"}) /\ \A c \in 1..l : plan'[c] = plan[c]
    BY <1>2 DEF Base, PlanOK, Grown
<1>4. spaces'[o] = spaces[o] /\ dsguSizes'[o] = dsguSizes[o]
    BY <1>2
<1>5. /\ (\A c \in 1..l : plan[c] \notin Unifying) => spaces[o] = SpacesOf[o]
      /\ \A c \in 1..l : plan[c] \in Unifying =>
           IF Reduced(o, c) THEN dsguSizes[o] = DsguOf(plan[c]) ELSE spaces[o] = SpacesOf[o]
    BY DEF SizesOK
<1>6. ASSUME NEW c \in 1..Len(plan'), plan'[c] \in Unifying, o = s, c = k PROVE ~(calls'[o] > c) /\ todo'[o] \notin {Readying(plan'[c], 1), Local("return"), <<>>}
    <2>1. op = plan'[c] /\ op \in Unifying /\ op \in Methods
        BY <1>2, <1>6 DEF Unifying, Methods
    <2>2. todo'[o] = Asking(op, 1)
        BY <1>2, <1>6, <2>1, ScriptIs
    <2> DEFINE x == SignalStep(RequestFor(What(op, 1)))
               y == Step("fetch", What(op, 1), None, "")
               cl == Closing(op, 1)
               z == <<x>> \o <<y>>
    <2>3. todo'[o] = <<x>> \o (<<y>> \o cl)
        BY <2>2 DEF Asking, Fetching, Fetch, Signal, SignalStep
    <2>4. AnySeq(cl)
        BY ClosingIs
    <2> HIDE DEF x, y, cl
    <2>5. AnySeq(<<x>>) /\ AnySeq(<<y>>)
        BY AnyOne
    <2>6. todo'[o] = z \o cl
        BY <2>3, <2>4, <2>5, AnyAssociative
    <2>7. AnySeq(z)
        BY <2>5, AnyConcat
    <2> HIDE DEF z
    <2>8. z \o Closing(op, 1) \notin {Readying(op, 1), Local("return"), <<>>}
        BY ONLY <2>1, <2>7, BeforeOrBehind
    <2>9. ~(calls'[o] > c)
        BY <1>2, <1>3, <1>6
    <2> QED BY <2>1, <2>6, <2>8, <2>9 DEF cl
<1>7. ASSUME NEW c \in 1..l, plan[c] \in Unifying PROVE Reduced(o, c)' <=> Reduced(o, c)
    <2>1. CASE o # s
        BY <1>2, <1>3, <1>7, <2>1 DEF Reduced
    <2>2. CASE o = s /\ c = k
        <3>1. c \in 1..Len(plan') /\ plan'[c] \in Unifying
            BY <1>2, <1>3, <1>7, <2>2
        <3>2. ~Reduced(o, c)'
            BY <1>6, <2>2, <3>1 DEF Reduced
        <3>3. ~Reduced(o, c)
            BY <1>3, <2>2 DEF Reduced
        <3> QED BY <3>2, <3>3
    <2>3. CASE o = s /\ c # k
        <3>1. Reduced(o, c)' <=> c < k
            BY <1>2, <1>3, <2>3 DEF Reduced
        <3>2. Reduced(o, c) <=> c < k
            BY <1>3, <2>3 DEF Reduced
        <3> QED BY <3>1, <3>2
    <2> QED BY <2>1, <2>2, <2>3
<1>8. CASE plan' = plan
    <2> HIDE DEF k
    <2> QED BY <1>3, <1>4, <1>5, <1>7, <1>8 DEF SizesOK
<1>9. CASE plan' = Append(plan, op) /\ k = l + 1 /\ Len(plan') = k /\ (op # "finalize" => SizesKnown(op))
    <2>1. \A c \in 1..k : c \in 1..l \/ c = k
        BY <1>3, <1>9
    <2>2. (\A c \in 1..Len(plan') : plan'[c] \notin Unifying) => spaces'[o] = SpacesOf[o]
        <3>1. \A c \in 1..l : c \in 1..Len(plan')
            BY <1>3, <1>9
        <3> QED BY <1>3, <1>4, <1>5, <3>1
    <2>3. ASSUME NEW c \in 1..Len(plan'), plan'[c] \in Unifying
          PROVE  IF Reduced(o, c)' THEN dsguSizes'[o] = DsguOf(plan'[c]) ELSE spaces'[o] = SpacesOf[o]
        <3>1. CASE c \in 1..l
            BY <1>3, <1>4, <1>5, <1>7, <2>3, <3>1
        <3>2. CASE c = k
            <4>1. op \in Unifying /\ op # "finalize"
                BY <1>2, <2>3, <3>2 DEF Unifying
            <4>2. \A d \in 1..l : plan[d] \notin Unifying
                <5>1. DOMAIN plan = 1..l
                    BY <1>3
                <5> QED BY <1>9, <4>1, <5>1 DEF SizesKnown, Unifying
            <4>3. spaces'[o] = SpacesOf[o]
                BY <1>4, <1>5, <4>2
            <4>4. ~Reduced(o, c)'
                <5>1. CASE o = s
                    BY <1>6, <2>3, <3>2, <5>1 DEF Reduced
                <5>2. CASE o # s
                    <6>1. calls'[o] = calls[o] /\ calls[o] < c
                        BY <1>2, <1>3, <1>9, <3>2, <5>2
                    <6>2. ~(calls'[o] > c) /\ calls'[o] # c
                        BY <1>3, <1>9, <3>2, <6>1
                    <6> QED BY <6>2 DEF Reduced
                <5> QED BY <5>1, <5>2
            <4> QED BY <4>3, <4>4
        <3> QED BY <1>9, <2>1, <3>1, <3>2
    <2> QED BY <2>2, <2>3 DEF SizesOK
<1> QED BY <1>2, <1>8, <1>9

LEMMA SizesMoves ==
    ASSUME Base, PlanOK, NEW s \in Systems, InRound(s), SystemMoves(s), \A o \in Systems : SizesOK(o),
           NEW o \in Systems
    PROVE  SizesOK(o)'
<1>1. CASE todo[s] = <<>>
    BY <1>1, CallSizes
<1>2. CASE todo[s] # <<>> /\ o = s
    BY <1>2, SteadySizes, ReducingSizes
<1>3. CASE todo[s] # <<>> /\ o # s
    <2>1. Kept(o) /\ plan' = plan
        BY <1>3, SystemFrame, PlanStays DEF Frame, Others
    <2> QED BY <2>1, KeptSizes
<1> QED BY <1>1, <1>2, <1>3

-----------------------------------------------------------------------------
\* The invariant is kept by the systems,
LEMMA SystemKeeps ==
    ASSUME IInv, NEW s \in Systems, SystemMoves(s)
    PROVE  IInv'
<1>1. Base /\ PlanOK /\ BrokerOK /\ (\A o \in Systems : SizesOK(o)) /\ Rounds
    BY DEF IInv
<1>2. Base' /\ UNCHANGED <<accepted, systems, next, work>>
    BY <1>1, SystemFrame DEF Frame, brokerVars
<1>3. PlanOK'
    BY <1>1, PlanMoves
<1>4. BrokerOK'
    BY <1>1, <1>2 DEF BrokerOK
<1>5. \A o \in Systems : SizesOK(o)'
    BY <1>1, EveryoneIsIn, SizesMoves
<1>6. Rounds'
    <2>1. ASSUME NEW k \in Nat, NEW j \in Nat, Idle(k, j) PROVE Rounds'
        <3>1. Idle(k, j)'
            BY <1>1, <2>1, IdleMoves
        <3> QED BY <3>1 DEF Rounds
    <2>2. ASSUME NEW R, NEW u, Busy(R, u) PROVE Rounds'
        <3>1. Busy(R, u)'
            BY <1>1, <2>2, BusyMoves
        <3> QED BY <3>1 DEF Rounds
    <2> QED BY <1>1, <2>1, <2>2 DEF Rounds
<1> QED BY <1>2, <1>3, <1>4, <1>5, <1>6 DEF IInv

\* and it does not depend on the rest.
LEMMA SidesKept ==
    ASSUME Base, NEW s \in Systems, systemSide' = systemSide
    PROVE  Kept(s) /\ Grown /\ plan' = plan /\ debug' = debug /\ PlanOK = PlanOK' /\ (SizesOK(s) => SizesOK(s)')
<1>1. /\ todo' = todo /\ calls' = calls /\ coords' = coords /\ buffer' = buffer /\ spaces' = spaces
      /\ dsguSizes' = dsguSizes /\ plan' = plan /\ debug' = debug
    BY DEF systemSide, appVars, dataVars
<1>2. Kept(s) /\ Grown
    BY <1>1 DEF Kept, Grown
<1>3. PlanOK = PlanOK'
    BY <1>1 DEF PlanOK
<1> QED BY <1>1, <1>2, <1>3, KeptSizes

LEMMA RestKeeps ==
    ASSUME IInv,
           UNCHANGED <<brokerVars, socketVars, appVars, todo, spaces, dsguSizes, coords, buffer>>
    PROVE  IInv'
<1>1. Base /\ PlanOK /\ BrokerOK /\ (\A o \in Systems : SizesOK(o)) /\ Rounds
    BY DEF IInv
<1>2. /\ todo' = todo /\ calls' = calls /\ coords' = coords /\ buffer' = buffer /\ spaces' = spaces
      /\ dsguSizes' = dsguSizes /\ plan' = plan /\ debug' = debug
      /\ toManager' = toManager /\ toSystem' = toSystem
      /\ accepted' = accepted /\ systems' = systems /\ next' = next /\ work' = work
    BY DEF appVars, brokerVars, socketVars
<1>3. Base' /\ PlanOK' /\ BrokerOK' /\ Grown
    BY <1>1, <1>2 DEF Base, PlanOK, BrokerOK, Grown
<1>4. \A o \in Systems : Kept(o) /\ SocketsKept(o)
    BY <1>2 DEF Kept, SocketsKept
<1>5. \A o \in Systems : SizesOK(o)'
    BY <1>1, <1>2, <1>4, KeptSizes
<1>6. ASSUME NEW k \in Nat, NEW j \in Nat, Idle(k, j) PROVE Rounds'
    <2>1. \A o \in Systems : Resting(o, k, j)' \/ Gone(o, k, j)'
        BY <1>1, <1>2, <1>3, <1>4, <1>6, RestingKept DEF Idle
    <2>2. Idle(k, j)'
        BY <1>2, <1>6, <2>1 DEF Idle
    <2> QED BY <2>2 DEF Rounds
<1>7. ASSUME NEW R, NEW u, Busy(R, u) PROVE Rounds'
    <2>1. RoundOf(R) /\ u \in Spots /\ IsRound(R)
        BY <1>7 DEF Busy, RoundOf
    <2>2. \A o \in Systems : Served(R, o, u)'
        BY <1>1, <1>3, <1>4, <1>7, <2>1, ServedKept DEF Busy
    <2>3. RoundOf(R)'
        BY <1>2, <2>1 DEF RoundOf
    <2>4. Busy(R, u)'
        BY <1>2, <1>7, <2>2, <2>3 DEF Busy
    <2> QED BY <2>4 DEF Rounds
<1>8. Rounds'
    BY <1>1, <1>6, <1>7 DEF Rounds
<1> QED BY <1>3, <1>5, <1>8 DEF IInv

-----------------------------------------------------------------------------
\* A message is taken from a system, or given to it.
LEMMA ServedSame ==
    ASSUME NEW R, NEW s, NEW u, NEW v, v.take[s] = u.take[s], v.give[s] = u.give[s], Served(R, s, u)'
    PROVE  Served(R, s, v)'
BY DEF Served

LEMMA OutgoingTaken ==
    ASSUME NEW R, NEW s \in Systems, NEW out \in Nat, NEW taken \in Nat, Outgoing(R, s, out, taken),
           plan' = plan, OutEnd(R, s) \in Nat,
           AnySeq(toManager[s]), toManager[s] # <<>>, toManager'[s] = Tail(toManager[s])
    PROVE  /\ Outgoing(R, s, out, taken + 1)' /\ taken + 1 <= out
           /\ taken + 1 <= OutEnd(R, s) => Fits(Head(toManager[s]), OutSlot(R, s, taken + 1))
<1> DEFINE q == toManager[s]
           t == Tail(q)
           e == OutEnd(R, s)
           r == RequestOf(NextCall(R.op, R.call, R.part), NextPart(R.op, R.part))
<1>1. /\ AnySeq(t) /\ Len(q) \in Nat /\ Len(q) > 0 /\ Len(t) = Len(q) - 1
      /\ Head(q) = q[1] /\ \A n \in 1..(Len(q) - 1) : t[n] = q[n + 1]
    BY AnyTail
<1>2. /\ Len(q) = out - taken
      /\ \A n \in 1..Len(q) : /\ taken + n <= e => Fits(q[n], OutSlot(R, s, taken + n))
                              /\ taken + n > e => q[n].kind = r
    BY DEF Outgoing
<1>3. toManager'[s] = t /\ r' = r
    BY DEF RequestOf
<1> HIDE DEF q, t, r
<1>4. Len(t) = out - (taken + 1) /\ 1 \in 1..Len(q) /\ taken + 1 <= out
    BY <1>1, <1>2
<1>5. ASSUME NEW n \in 1..Len(t)
      PROVE  /\ (taken + 1) + n <= e => Fits(t[n], OutSlot(R, s, (taken + 1) + n))
             /\ (taken + 1) + n > e => t[n].kind = r
    <2>1. n \in 1..(Len(q) - 1) /\ n + 1 \in 1..Len(q) /\ (taken + 1) + n = taken + (n + 1)
        BY <1>1
    <2>2. t[n] = q[n + 1]
        BY <1>1, <2>1
    <2>3. /\ taken + (n + 1) <= e => Fits(q[n + 1], OutSlot(R, s, taken + (n + 1)))
          /\ taken + (n + 1) > e => q[n + 1].kind = r
        BY <1>2, <2>1
    <2> QED BY <2>1, <2>2, <2>3
<1> DEFINE m == taken + 1
<1>6. /\ Len(t) = out - m
      /\ \A n \in 1..Len(t) : /\ m + n <= e => Fits(t[n], OutSlot(R, s, m + n))
                              /\ m + n > e => t[n].kind = r
    BY <1>4, <1>5
<1>7. m <= e => Fits(Head(q), OutSlot(R, s, m))
    BY <1>1, <1>2, <1>4
<1> HIDE DEF m, e
<1>8. Outgoing(R, s, out, m)'
    BY <1>3, <1>6 DEF Outgoing, e, r
<1> QED BY <1>4, <1>7, <1>8 DEF q, m, e

LEMMA IncomingGiven ==
    ASSUME NEW R, NEW s \in Systems, NEW in \in Nat, NEW given \in Nat, Incoming(R, s, in, given),
           AnySeq(toSystem[s]), NEW m, toSystem'[s] = Append(toSystem[s], m), Fits(m, InSlot(R, s, given + 1))
    PROVE  Incoming(R, s, in, given + 1)'
<1> DEFINE q == toSystem[s]
           a == Append(q, m)
<1>1. /\ Len(q) \in Nat /\ Len(a) = Len(q) + 1
      /\ (\A n \in 1..Len(q) : a[n] = q[n]) /\ a[Len(q) + 1] = m
    BY AnyAppend
<1>2. Len(q) = given - in /\ \A n \in 1..Len(q) : Fits(q[n], InSlot(R, s, in + n))
    BY DEF Incoming
<1>3. toSystem'[s] = a
    OBVIOUS
<1> HIDE DEF q, a
<1>4. Len(a) = (given + 1) - in
    BY <1>1, <1>2
<1>5. ASSUME NEW n \in 1..Len(a) PROVE Fits(a[n], InSlot(R, s, in + n))
    <2>1. CASE n = Len(q) + 1
        <3>1. in + n = given + 1 /\ a[n] = m
            BY <1>1, <1>2, <2>1
        <3> QED BY <3>1
    <2>2. CASE n \in 1..Len(q)
        BY <1>1, <1>2, <2>2
    <2> QED BY <1>1, <2>1, <2>2
<1> QED BY <1>3, <1>4, <1>5 DEF Incoming

LEMMA ServedTaken ==
    ASSUME Base, NEW R, IsRound(R), NEW s \in Systems, Kept(s), plan' = plan, NEW u \in Spots, Served(R, s, u),
           toManager[s] # <<>>, toManager'[s] = Tail(toManager[s]), toSystem'[s] = toSystem[s],
           NEW v \in Spots, v.take[s] = u.take[s] + 1, v.give[s] = u.give[s]
    PROVE  Served(R, s, v)'
<1> DEFINE taken == u.take[s]
           given == u.give[s]
<1>1. PICK out \in Nat, in \in Nat :
         Position(R, s, out, in) /\ Outgoing(R, s, out, taken) /\ Incoming(R, s, in, given)
    BY DEF Served
<1>2. taken \in Nat /\ OutEnd(R, s) \in Nat /\ AnySeq(toManager[s]) /\ Grown
    BY EndsGrow DEF Spots, Base, Grown
<1> HIDE DEF taken, given
<1>3. Position(R, s, out, in)' /\ Incoming(R, s, in, given)'
    BY <1>1, <1>2, KeptPosition, IncomingKept
<1>4. Outgoing(R, s, out, taken + 1)'
    BY <1>1, <1>2, OutgoingTaken
<1> QED BY <1>3, <1>4 DEF Served, taken, given

LEMMA ServedGiven ==
    ASSUME Base, NEW R, IsRound(R), NEW s \in Systems, Kept(s), plan' = plan, NEW u \in Spots, Served(R, s, u),
           toManager'[s] = toManager[s], NEW m, toSystem'[s] = Append(toSystem[s], m),
           Fits(m, InSlot(R, s, u.give[s] + 1)),
           NEW v \in Spots, v.take[s] = u.take[s], v.give[s] = u.give[s] + 1
    PROVE  Served(R, s, v)'
<1> DEFINE taken == u.take[s]
           given == u.give[s]
<1>1. PICK out \in Nat, in \in Nat :
         Position(R, s, out, in) /\ Outgoing(R, s, out, taken) /\ Incoming(R, s, in, given)
    BY DEF Served
<1>2. taken \in Nat /\ given \in Nat /\ OutEnd(R, s) \in Nat /\ AnySeq(toSystem[s]) /\ Grown
    BY EndsGrow DEF Spots, Base, Grown
<1>3. Fits(m, InSlot(R, s, given + 1))
    OBVIOUS
<1> HIDE DEF taken, given
<1>4. RequestOf(NextCall(R.op, R.call, R.part), NextPart(R.op, R.part))'
        = RequestOf(NextCall(R.op, R.call, R.part), NextPart(R.op, R.part))
    BY DEF RequestOf
<1>5. Position(R, s, out, in)' /\ Outgoing(R, s, out, taken)'
    BY <1>1, <1>2, <1>4, KeptPosition, OutgoingKept
<1>6. Incoming(R, s, in, given + 1)'
    BY <1>1, <1>2, <1>3, IncomingGiven
<1> QED BY <1>5, <1>6 DEF Served, taken, given

LEMMA HeadFits ==
    ASSUME Base, NEW R, IsRound(R), NEW s \in Systems, NEW u \in Spots, Served(R, s, u), toManager[s] # <<>>,
           u.take[s] + 1 <= OutEnd(R, s)
    PROVE  Fits(Head(toManager[s]), OutSlot(R, s, u.take[s] + 1))
<1> DEFINE taken == u.take[s]
           q == toManager[s]
<1>1. PICK out \in Nat : Outgoing(R, s, out, taken)
    BY DEF Served
<1>2. AnySeq(q) /\ taken \in Nat
    BY DEF Base, Spots
<1>3. Len(q) \in Nat /\ Len(q) > 0 /\ Head(q) = q[1]
    BY <1>2, AnyTail
<1>4. 1 \in 1..Len(q)
    BY <1>3
<1>5. Fits(q[1], OutSlot(R, s, taken + 1))
    BY <1>1, <1>4 DEF Outgoing
<1> QED BY <1>3, <1>5

-----------------------------------------------------------------------------
\* At the end of an operation the broker waits for the next request.
LEMMA ServedToEnd ==
    ASSUME NEW R, IsRound(R), NEW s \in Systems, NEW u, u = EndSpot(R), Served(R, s, u)',
           AnySeq(toManager'[s]), AnySeq(toSystem'[s]), s \in ToSet(systems'),
           NEW k, k = NextCall(R.op, R.call, R.part), NEW j, j = NextPart(R.op, R.part)
    PROVE  Resting(s, k, j)'
<1> DEFINE oe == OutEnd(R, s)
           ie == InEnd(R, s)
           q == toManager'[s]
           p == toSystem'[s]
<1>1. u.take[s] = oe /\ u.give[s] = ie /\ oe \in Nat /\ ie \in Nat /\ oe >= 2
    BY EndsGrow DEF EndSpot
<1>2. PICK out \in Nat, in \in Nat :
         Position(R, s, out, in)' /\ Outgoing(R, s, out, u.take[s])' /\ Incoming(R, s, in, u.give[s])'
    BY DEF Served
<1>3. /\ Len(q) \in Nat /\ Len(p) \in Nat /\ (q = <<>> <=> Len(q) = 0) /\ (p = <<>> <=> Len(p) = 0)
    BY AnyLen
<1>4. Len(q) = out - oe /\ Len(p) = ie - in /\ out >= oe
    BY <1>1, <1>2, <1>3 DEF Outgoing, Incoming
<1>5. ~(in = 0 /\ Waiting(s, R.call, R.part, out)')
    BY <1>1, <1>4 DEF Waiting
<1>6. ~Inside(R, s, out, in)'
    <2> SUFFICES ASSUME Inside(R, s, out, in)' PROVE FALSE
        OBVIOUS
    <2> DEFINE e == <<oe - 1, ie>>
               v == <<out, in>>
    <2>1. (\E z : Walk(StepEdges(R, s), z, v, e)) \/ out = oe - 1
        BY DEF Inside
    <2>2. v \in Places /\ v[1] = out /\ e[1] = oe - 1
        BY DEF Places
    <2> HIDE DEF v, e, oe, ie
    <2>3. out <= oe - 1
        <3>1. CASE \E z : Walk(StepEdges(R, s), z, v, e)
            <4>1. PICK z : Walk(StepEdges(R, s), z, v, e)
                BY <3>1
            <4>2. v[1] <= e[1]
                BY <2>2, <4>1, StepsGrow
            <4> QED BY <2>2, <4>2
        <3> QED BY <1>1, <2>1, <3>1
    <2> QED BY <1>1, <1>4, <2>3
<1>7. in = ie /\ Waiting(s, k, j, out - oe)'
    BY <1>2, <1>5, <1>6 DEF Position
<1> DEFINE n == out - oe
<1>8. Waiting(s, k, j, n)'
    BY <1>7
<1>9. n \in {0, 1} /\ Len(q) = n
    BY <1>4, <1>8 DEF Waiting
<1>10. p = <<>>
    BY <1>1, <1>3, <1>4, <1>7
<1>11. n = 1 => q[1].kind = RequestOf(k, j)'
    <2>1. \A x \in 1..Len(toManager'[s]) : u.take[s] + x > OutEnd(R, s) =>
            toManager'[s][x].kind = RequestOf(NextCall(R.op, R.call, R.part), NextPart(R.op, R.part))'
        BY <1>2 DEF Outgoing
    <2> SUFFICES ASSUME n = 1 PROVE q[1].kind = RequestOf(k, j)'
        OBVIOUS
    <2>2. 1 \in 1..Len(q) /\ u.take[s] + 1 > oe
        BY <1>1, <1>9
    <2> QED BY <2>1, <2>2
<1> HIDE DEF n
<1>12. CASE n = 0
    BY <1>3, <1>8, <1>9, <1>10, <1>12 DEF Resting
<1>13. CASE n = 1
    BY <1>8, <1>9, <1>10, <1>11, <1>13 DEF Resting
<1> QED BY <1>9, <1>12, <1>13

LEMMA RoundEnds ==
    ASSUME NEW R, IsRound(R), NEW u, u = EndSpot(R), \A s \in Systems : Served(R, s, u)', Base', work' = <<>>,
           \A s \in Systems : s \in ToSet(systems')
    PROVE  Rounds'
<1> DEFINE k == NextCall(R.op, R.call, R.part)
           j == NextPart(R.op, R.part)
<1>1. k \in Nat /\ j \in Nat
    BY DEF NextCall, NextPart, IsRound
<1> HIDE DEF k, j
<1>2. ASSUME NEW s \in Systems PROVE Resting(s, k, j)'
    <2>1. AnySeq(toManager'[s]) /\ AnySeq(toSystem'[s])
        BY DEF Base
    <2> QED BY <2>1, ServedToEnd DEF k, j
<1>3. Idle(k, j)'
    BY <1>2 DEF Idle
<1> QED BY <1>1, <1>3 DEF Rounds

\* Where a step of the broker within an operation leads.
LEMMA BrokerGoesOn ==
    ASSUME NEW R, RoundOf(R), NEW u, u \in Spots, NothingUnasked(u), u.take[R.first] >= 1,
           Walk(JobEdges(R), work', u, EndSpot(R)), \A s \in Systems : Served(R, s, u)', Base',
           plan' = plan, debug' = debug,
           Len(accepted') = 2, \A s \in Systems : s \in ToSet(systems')
    PROVE  Rounds'
<1>1. IsRound(R)
    BY DEF RoundOf
<1>2. CASE work' = <<>>
    <2>1. u = EndSpot(R)
        BY <1>2, WalkNowhere
    <2> QED BY <1>1, <1>2, <2>1, RoundEnds
<1>3. CASE work' # <<>>
    <2>1. RoundOf(R)'
        BY DEF RoundOf
    <2>2. Busy(R, u)'
        BY <1>3, <2>1 DEF Busy
    <2> QED BY <2>2 DEF Rounds
<1> QED BY <1>2, <1>3

-----------------------------------------------------------------------------
\* What a step of the broker leaves as it is.
LEMMA BrokerSide ==
    ASSUME IInv, systemSide' = systemSide,
           DOMAIN toManager' = Systems, DOMAIN toSystem' = Systems,
           \A s \in Systems : AnySeq(toManager'[s]) /\ AnySeq(toSystem'[s])
    PROVE  /\ Base' /\ PlanOK' /\ (\A s \in Systems : SizesOK(s)' /\ Kept(s)) /\ Grown
           /\ plan' = plan /\ debug' = debug
<1>1. Base /\ PlanOK /\ (\A s \in Systems : SizesOK(s))
    BY DEF IInv
<1>2. /\ todo' = todo /\ calls' = calls /\ coords' = coords /\ buffer' = buffer /\ spaces' = spaces
      /\ dsguSizes' = dsguSizes /\ plan' = plan /\ debug' = debug
    BY DEF systemSide, appVars, dataVars
<1>3. Base'
    BY <1>1, <1>2 DEF Base
<1>4. PlanOK' /\ Grown
    BY <1>1, <1>2 DEF PlanOK, Grown
<1> QED BY <1>1, <1>2, <1>3, <1>4, SidesKept

LEMMA DeliverFacts ==
    ASSUME Base, NEW s \in Systems, NEW m, Deliver(s, m)
    PROVE  /\ toSystem'[s] = Append(toSystem[s], m) /\ DOMAIN toSystem' = Systems
           /\ \A o \in Systems : o # s => toSystem'[o] = toSystem[o]
           /\ \A o \in Systems : AnySeq(toSystem'[o])
<1>1. /\ toSystem'[s] = Append(toSystem[s], m) /\ DOMAIN toSystem' = Systems
      /\ \A o \in Systems : o # s => toSystem'[o] = toSystem[o]
    BY DEF Base, Deliver
<1>2. \A o \in Systems : AnySeq(toSystem[o])
    BY DEF Base
<1>3. AnySeq(Append(toSystem[s], m))
    BY <1>2, AnyAppend
<1> QED BY <1>1, <1>2, <1>3

LEMMA TakeFacts ==
    ASSUME Base, NEW s \in Systems, Take(s)
    PROVE  /\ toManager[s] # <<>> /\ toManager'[s] = Tail(toManager[s]) /\ DOMAIN toManager' = Systems
           /\ \A o \in Systems : o # s => toManager'[o] = toManager[o]
           /\ \A o \in Systems : AnySeq(toManager'[o])
<1>1. /\ toManager[s] # <<>> /\ toManager'[s] = Tail(toManager[s]) /\ DOMAIN toManager' = Systems
      /\ \A o \in Systems : o # s => toManager'[o] = toManager[o]
    BY DEF Base, Take
<1>2. \A o \in Systems : AnySeq(toManager[o])
    BY DEF Base
<1>3. AnySeq(Tail(toManager[s]))
    BY <1>1, <1>2, AnyTail
<1> QED BY <1>1, <1>2, <1>3

LEMMA BusyFacts ==
    ASSUME IInv, work # <<>>
    PROVE  \E R, u : /\ RoundOf(R) /\ IsRound(R) /\ u \in Spots /\ NothingUnasked(u) /\ u.take[R.first] >= 1
                     /\ Walk(JobEdges(R), work, u, EndSpot(R))
                     /\ Len(accepted) = 2 /\ (\A s \in Systems : s \in ToSet(systems))
                     /\ \A s \in Systems : Served(R, s, u)
<1>1. PICK R, u : Busy(R, u)
    BY DEF IInv, Rounds, Idle
<1> QED BY <1>1 DEF Busy, RoundOf

\* The broker tells a system its role.
LEMMA InstructKeeps ==
    ASSUME IInv, Instruct
    PROVE  IInv'
<1>1. Base /\ BrokerOK /\ work # <<>>
    BY DEF IInv, Instruct, Doing
<1>2. PICK R, u : /\ RoundOf(R) /\ IsRound(R) /\ u \in Spots /\ NothingUnasked(u) /\ u.take[R.first] >= 1
                  /\ Walk(JobEdges(R), work, u, EndSpot(R))
                  /\ Len(accepted) = 2 /\ (\A s \in Systems : s \in ToSet(systems))
                  /\ \A s \in Systems : Served(R, s, u)
    BY <1>1, BusyFacts
<1>x. PICK x : x = Head(work)
    OBVIOUS
<1>s. PICK s : s = x.sys
    OBVIOUS
<1>m. PICK m : m = Text(x.text)
    OBVIOUS
<1>v. PICK v : v = Given(u, s)
    OBVIOUS
<1>q. PICK q : q = Tail(work)
    OBVIOUS
<1>3. /\ x.do = "send" /\ Deliver(s, m) /\ work' = q /\ toManager' = toManager
      /\ accepted' = accepted /\ systems' = systems /\ next' = next /\ systemSide' = systemSide
    BY <1>x, <1>s, <1>m, <1>q DEF Instruct, Doing, Job1
<1>4. /\ s \in Systems /\ InSlot(R, s, u.give[s] + 1) = TextSlot(x.text)
      /\ NothingUnasked(v) /\ v \in Spots /\ Walk(JobEdges(R), q, v, EndSpot(R))
    BY <1>x, <1>s, <1>v, <1>q, <1>1, <1>2, <1>3, BrokerSends
<1>5. Fits(m, TextSlot(x.text))
    <2> DEFINE t == x.text
    <2>1. TextSlot(t).kind = t /\ TextSlot(t).size = <<"", {}>> /\ TextSlot(t).exact = FALSE
          /\ Text(t).kind = t /\ Text(t).size = <<"", {}>>
        BY DEF TextSlot, Text
    <2> HIDE DEF t
    <2> QED BY <1>m, <2>1 DEF Fits, t
<1>6. /\ v.give[s] = u.give[s] + 1 /\ v.take = u.take
      /\ \A o \in Systems : o # s => v.give[o] = u.give[o]
    BY <1>v, <1>2, <1>4, SpotMoves
<1>7. /\ toSystem'[s] = Append(toSystem[s], m) /\ DOMAIN toSystem' = Systems
      /\ \A o \in Systems : o # s => toSystem'[o] = toSystem[o]
      /\ \A o \in Systems : AnySeq(toSystem'[o])
    BY <1>1, <1>3, <1>4, DeliverFacts
<1>8. /\ Base' /\ PlanOK' /\ (\A o \in Systems : SizesOK(o)' /\ Kept(o)) /\ Grown
      /\ plan' = plan /\ debug' = debug
    <2>1. \A o \in Systems : AnySeq(toManager'[o])
        BY <1>1, <1>3 DEF Base
    <2>2. DOMAIN toManager' = Systems
        BY <1>1, <1>3 DEF Base
    <2> QED BY <1>3, <1>7, <2>1, <2>2, BrokerSide
<1>9. BrokerOK'
    BY <1>1, <1>3 DEF BrokerOK
<1>10. ASSUME NEW o \in Systems PROVE Served(R, o, v)'
    <2>1. Kept(o) /\ Served(R, o, u)
        BY <1>2, <1>8
    <2>2. CASE o = s
        <3>1. Fits(m, InSlot(R, o, u.give[o] + 1))
            BY <1>4, <1>5, <2>2
        <3>2. v.take[o] = u.take[o] /\ v.give[o] = u.give[o] + 1
            BY <1>6, <2>2
        <3>3. toManager'[o] = toManager[o] /\ toSystem'[o] = Append(toSystem[o], m)
            BY <1>3, <1>7, <2>2
        <3> QED BY <1>1, <1>2, <1>4, <1>8, <2>1, <3>1, <3>2, <3>3, ServedGiven
    <2>3. CASE o # s
        <3>1. SocketsKept(o)
            BY <1>3, <1>7, <2>3 DEF SocketsKept
        <3>2. Served(R, o, u)'
            BY <1>1, <1>2, <1>8, <2>1, <3>1, ServedKept
        <3>3. v.take[o] = u.take[o] /\ v.give[o] = u.give[o]
            BY <1>6, <2>3
        <3> QED BY <3>2, <3>3, ServedSame
    <2> QED BY <2>2, <2>3
<1>11. v.take[R.first] >= 1
    BY <1>2, <1>6
<1>12. Walk(JobEdges(R), work', v, EndSpot(R)) /\ Len(accepted') = 2 /\ \A o \in Systems : o \in ToSet(systems')
    BY <1>2, <1>3, <1>4
<1>13. Rounds'
    <2> QED BY <1>2, <1>4, <1>8, <1>10, <1>11, <1>12, BrokerGoesOn
<1> QED BY <1>8, <1>9, <1>13 DEF IInv

\* The broker passes a message on.
LEMMA ForwardKeeps ==
    ASSUME IInv, Forward
    PROVE  IInv'
<1>1. Base /\ BrokerOK /\ work # <<>>
    BY DEF IInv, Forward, Doing
<1>2. PICK R, u : /\ RoundOf(R) /\ IsRound(R) /\ u \in Spots /\ NothingUnasked(u) /\ u.take[R.first] >= 1
                  /\ Walk(JobEdges(R), work, u, EndSpot(R))
                  /\ Len(accepted) = 2 /\ (\A s \in Systems : s \in ToSet(systems))
                  /\ \A s \in Systems : Served(R, s, u)
    BY <1>1, BusyFacts
<1>x. PICK x : x = Head(work)
    OBVIOUS
<1>s. PICK s : s = x.sys
    OBVIOUS
<1>o. PICK o : o = OtherThan(s)
    OBVIOUS
<1>m. PICK m : m = Head(toManager[s])
    OBVIOUS
<1>t. PICK t : t = Taken(u, s)
    OBVIOUS
<1>v. PICK v : v = Given(t, o)
    OBVIOUS
<1>q. PICK q : q = Tail(work)
    OBVIOUS
<1>3. /\ x.do = "forward" /\ Take(s) /\ Deliver(o, m) /\ work' = q
      /\ accepted' = accepted /\ systems' = systems /\ next' = next /\ systemSide' = systemSide
    BY <1>x, <1>s, <1>o, <1>m, <1>q DEF Forward, Doing, Job1
<1>4. /\ s \in Systems /\ u.take[s] + 1 <= OutEnd(R, s)
      /\ InSlot(R, o, u.give[o] + 1) = OutSlot(R, s, u.take[s] + 1)
      /\ NothingUnasked(v) /\ v \in Spots /\ Walk(JobEdges(R), q, v, EndSpot(R))
    BY <1>x, <1>s, <1>o, <1>t, <1>v, <1>q, <1>1, <1>2, <1>3, BrokerForwards
<1>5. o \in Systems /\ o # s /\ \A y \in Systems : y = s \/ y = o
    BY <1>o, <1>4, TwoOfThem
<1>6. /\ toManager[s] # <<>> /\ toManager'[s] = Tail(toManager[s]) /\ DOMAIN toManager' = Systems
      /\ \A y \in Systems : y # s => toManager'[y] = toManager[y]
      /\ \A y \in Systems : AnySeq(toManager'[y])
    BY <1>1, <1>3, <1>4, TakeFacts
<1>7. /\ toSystem'[o] = Append(toSystem[o], m) /\ DOMAIN toSystem' = Systems
      /\ \A y \in Systems : y # o => toSystem'[y] = toSystem[y]
      /\ \A y \in Systems : AnySeq(toSystem'[y])
    BY <1>1, <1>3, <1>5, DeliverFacts
<1>8. /\ Base' /\ PlanOK' /\ (\A y \in Systems : SizesOK(y)' /\ Kept(y)) /\ Grown
      /\ plan' = plan /\ debug' = debug
    BY <1>3, <1>6, <1>7, BrokerSide
<1>9. BrokerOK'
    BY <1>1, <1>3 DEF BrokerOK
<1>10. /\ t \in Spots /\ t.take[s] = u.take[s] + 1 /\ t.give = u.give /\ t.take[o] = u.take[o]
       /\ v.take = t.take /\ v.give[o] = t.give[o] + 1 /\ v.give[s] = t.give[s]
       /\ \A y \in Systems : u.take[y] \in Nat
    BY <1>t, <1>v, <1>2, <1>4, <1>5, SpotMoves, SMTT(30), ZenonT(30)
<1>11. Served(R, s, v)'
    <2>1. Kept(s) /\ Served(R, s, u) /\ toSystem'[s] = toSystem[s]
        BY <1>2, <1>4, <1>5, <1>7, <1>8
    <2>2. v.take[s] = u.take[s] + 1 /\ v.give[s] = u.give[s]
        BY <1>10
    <2> QED BY <1>1, <1>2, <1>4, <1>6, <1>8, <2>1, <2>2, ServedTaken
<1>12. Served(R, o, v)'
    <2>1. Kept(o) /\ Served(R, o, u) /\ toManager'[o] = toManager[o]
        BY <1>2, <1>5, <1>6, <1>8
    <2>2. v.take[o] = u.take[o] /\ v.give[o] = u.give[o] + 1
        BY <1>10
    <2>3. Served(R, s, u)
        BY <1>2, <1>4
    <2>4. Fits(m, OutSlot(R, s, u.take[s] + 1))
        BY <1>m, <1>1, <1>2, <1>4, <1>6, <2>3, HeadFits
    <2>5. Fits(m, InSlot(R, o, u.give[o] + 1))
        BY <1>4, <2>4
    <2> QED BY <1>1, <1>2, <1>4, <1>5, <1>7, <1>8, <2>1, <2>2, <2>5, ServedGiven
<1>13. \A y \in Systems : Served(R, y, v)'
    BY <1>5, <1>11, <1>12
<1>14. v.take[R.first] >= 1
    <2>1. R.first \in {s, o}
        BY <1>2, <1>5 DEF IsRound
    <2> QED BY <1>2, <1>4, <1>10, <2>1
<1>15. Walk(JobEdges(R), work', v, EndSpot(R)) /\ Len(accepted') = 2 /\ \A y \in Systems : y \in ToSet(systems')
    BY <1>2, <1>3, <1>4
<1>16. Rounds'
    BY <1>2, <1>4, <1>8, <1>13, <1>14, <1>15, BrokerGoesOn
<1> QED BY <1>8, <1>9, <1>16 DEF IInv

\* The broker takes the message it waits for.
LEMMA ReceiveKeeps ==
    ASSUME IInv, ReceiveMessage
    PROVE  IInv'
<1>1. Base /\ BrokerOK /\ work # <<>>
    BY DEF IInv, ReceiveMessage
<1>2. PICK R, u : /\ RoundOf(R) /\ IsRound(R) /\ u \in Spots /\ NothingUnasked(u) /\ u.take[R.first] >= 1
                  /\ Walk(JobEdges(R), work, u, EndSpot(R))
                  /\ Len(accepted) = 2 /\ (\A s \in Systems : s \in ToSet(systems))
                  /\ \A s \in Systems : Served(R, s, u)
    BY <1>1, BusyFacts
<1>x. PICK x : x = Head(work)
    OBVIOUS
<1>s. PICK s : s = x.sys
    OBVIOUS
<1>m. PICK m : m = Head(toManager[s])
    OBVIOUS
<1>v. PICK v : v = Taken(u, s)
    OBVIOUS
<1>q. PICK q : q = After(work, m.kind)
    OBVIOUS
<1>t. PICK text : text = OutSlot(R, s, u.take[s] + 1).kind
    OBVIOUS
<1>3. /\ x.do \notin {"send", "forward"} /\ Take(s) /\ toSystem' = toSystem
      /\ accepted' = accepted /\ systems' = systems /\ next' = next /\ systemSide' = systemSide
    BY <1>x, <1>s DEF ReceiveMessage, Job1
<1>4. work' = q
    BY <1>q, <1>x, <1>s, <1>m DEF ReceiveMessage, Job1, After
<1>5. /\ s \in Systems /\ u.take[s] + 1 <= OutEnd(R, s)
      /\ NothingUnasked(v) /\ v \in Spots /\ Walk(JobEdges(R), After(work, text), v, EndSpot(R))
    BY <1>x, <1>s, <1>t, <1>v, <1>1, <1>2, <1>3, BrokerReceives
<1>6. /\ toManager[s] # <<>> /\ toManager'[s] = Tail(toManager[s]) /\ DOMAIN toManager' = Systems
      /\ \A y \in Systems : y # s => toManager'[y] = toManager[y]
      /\ \A y \in Systems : AnySeq(toManager'[y])
    BY <1>1, <1>3, <1>5, TakeFacts
<1>7. m.kind = text
    <2>1. Served(R, s, u)
        BY <1>2, <1>5
    <2>2. Fits(m, OutSlot(R, s, u.take[s] + 1))
        BY <1>m, <1>1, <1>2, <1>5, <1>6, <2>1, HeadFits
    <2> QED BY <1>t, <2>2 DEF Fits
<1>8. /\ Base' /\ PlanOK' /\ (\A y \in Systems : SizesOK(y)' /\ Kept(y)) /\ Grown
      /\ plan' = plan /\ debug' = debug
    <2>1. DOMAIN toSystem' = Systems /\ \A y \in Systems : AnySeq(toSystem'[y])
        BY <1>1, <1>3 DEF Base
    <2> QED BY <1>3, <1>6, <2>1, BrokerSide
<1>9. BrokerOK'
    BY <1>1, <1>3 DEF BrokerOK
<1>10. /\ v.take[s] = u.take[s] + 1 /\ v.give = u.give
       /\ \A y \in Systems : y # s => v.take[y] = u.take[y]
       /\ \A y \in Systems : u.take[y] \in Nat
    BY <1>v, <1>2, <1>5, SpotMoves
<1>11. ASSUME NEW y \in Systems PROVE Served(R, y, v)'
    <2>1. Kept(y) /\ Served(R, y, u) /\ toSystem'[y] = toSystem[y]
        BY <1>2, <1>3, <1>8
    <2>2. CASE y = s
        <3>1. v.take[y] = u.take[y] + 1 /\ v.give[y] = u.give[y]
            BY <1>10, <2>2
        <3>2. toManager[y] # <<>> /\ toManager'[y] = Tail(toManager[y])
            BY <1>6, <2>2
        <3> QED BY <1>1, <1>2, <1>5, <1>8, <2>1, <3>1, <3>2, ServedTaken
    <2>3. CASE y # s
        <3>1. SocketsKept(y)
            BY <1>6, <2>1, <2>3 DEF SocketsKept
        <3>2. Served(R, y, u)'
            BY <1>1, <1>2, <1>8, <2>1, <3>1, ServedKept
        <3>3. v.take[y] = u.take[y] /\ v.give[y] = u.give[y]
            BY <1>10, <2>3
        <3> QED BY <3>2, <3>3, ServedSame
    <2> QED BY <2>2, <2>3
<1>12. v.take[R.first] >= 1
    <2>1. R.first \in Systems
        BY <1>2 DEF IsRound
    <2> QED BY <1>2, <1>5, <1>10, <2>1
<1>13. Walk(JobEdges(R), work', v, EndSpot(R)) /\ Len(accepted') = 2 /\ \A y \in Systems : y \in ToSet(systems')
    BY <1>q, <1>2, <1>3, <1>4, <1>5, <1>7
<1>14. Rounds'
    BY <1>2, <1>5, <1>8, <1>11, <1>12, <1>13, BrokerGoesOn
<1> QED BY <1>8, <1>9, <1>14 DEF IInv

-----------------------------------------------------------------------------
\* The lists of the broker: no system, one or both.
LEMMA OneOrTwoIs ==
    ASSUME NEW q, OneOrTwo(q)
    PROVE  /\ Len(q) \in {0, 1, 2} /\ (q = <<>> <=> Len(q) = 0) /\ AnySeq(q)
           /\ \A n \in 1..Len(q) : q[n] \in Systems /\ q[n] \in ToSet(q)
           /\ Len(q) = 2 => /\ q = <<q[1], q[2]>> /\ q[2] = OtherThan(q[1]) /\ q[1] = OtherThan(q[2])
                            /\ \A s \in Systems : s \in ToSet(q)
           /\ Len(q) = 1 => q = <<q[1]>> /\ ToSet(q) = {q[1]}
           /\ Len(q) = 0 => ToSet(q) = {}
<1>1. CASE q = <<>>
    <2>1. Len(q) = 0 /\ DOMAIN q = {} /\ AnySeq(q)
        BY <1>1, EmptySeq DEF AnySeq
    <2> QED BY <1>1, <2>1 DEF ToSet
<1>2. ASSUME NEW s \in Systems, q = <<s>>
      PROVE  /\ Len(q) = 1 /\ q # <<>> /\ q[1] = s /\ AnySeq(q) /\ ToSet(q) = {s}
    <2>1. q \in Seq({s}) /\ Len(q) = 1 /\ q[1] = s /\ DOMAIN q = {1}
        BY <1>2
    <2> QED BY <2>1 DEF AnySeq, ToSet
<1>3. ASSUME NEW s \in Systems, q = <<s, OtherThan(s)>>
      PROVE  /\ Len(q) = 2 /\ q # <<>> /\ q[1] = s /\ q[2] = OtherThan(s) /\ AnySeq(q)
             /\ s \in ToSet(q) /\ OtherThan(s) \in ToSet(q)
    <2> DEFINE o == OtherThan(s)
    <2>1. q = <<s, o>>
        BY <1>3
    <2> HIDE DEF o
    <2>2. q \in Seq({s, o}) /\ Len(q) = 2 /\ q[1] = s /\ q[2] = o /\ DOMAIN q = {1, 2} /\ q # <<>>
        BY <2>1
    <2>3. AnySeq(q)
        BY <2>2 DEF AnySeq
    <2>4. 1 \in DOMAIN q /\ 2 \in DOMAIN q
        BY <2>2
    <2>5. q[1] \in ToSet(q) /\ q[2] \in ToSet(q)
        BY <2>4 DEF ToSet
    <2> QED BY <2>2, <2>3, <2>5 DEF o
<1>4. CASE \E s \in Systems : q = <<s>>
    <2>1. PICK s \in Systems : q = <<s>>
        BY <1>4
    <2>2. /\ Len(q) = 1 /\ q # <<>> /\ q[1] = s /\ AnySeq(q) /\ ToSet(q) = {s}
        BY <1>2, <2>1
    <2> QED BY <2>1, <2>2
<1>5. CASE \E s \in Systems : q = <<s, OtherThan(s)>>
    <2>1. PICK s \in Systems : q = <<s, OtherThan(s)>>
        BY <1>5
    <2>2. /\ Len(q) = 2 /\ q # <<>> /\ q[1] = s /\ q[2] = OtherThan(s) /\ AnySeq(q)
          /\ s \in ToSet(q) /\ OtherThan(s) \in ToSet(q)
        BY <1>3, <2>1
    <2>3. /\ OtherThan(s) \in Systems /\ OtherThan(OtherThan(s)) = s
          /\ \A x \in Systems : x = s \/ x = OtherThan(s)
        BY TwoOfThem
    <2> QED BY <2>1, <2>2, <2>3
<1> QED BY <1>1, <1>4, <1>5 DEF OneOrTwo

LEMMA SubOne ==
    ASSUME NEW T, NEW q \in Seq(T), NEW n \in 1..Len(q)
    PROVE  SubSeq(q, n, n) = <<q[n]>>
<1> DEFINE r == SubSeq(q, n, n)
           x == q[n]
<1>1. n \in Int /\ n <= n /\ n - n + 1 = 1 /\ 1..1 = {1} /\ n + 1 - 1 = n /\ 1 \in 1..1
    OBVIOUS
<1>2. \A i \in n..n : q[i] \in T
    OBVIOUS
<1>3. r \in Seq(T) /\ Len(r) = (IF n <= n THEN n - n + 1 ELSE 0) /\ \A i \in 1..(n - n + 1) : r[i] = q[n + i - 1]
    BY <1>1, <1>2, SubSeqProperties
<1> HIDE DEF r
<1>4. Len(r) = 1 /\ r[1] = x
    BY <1>1, <1>3
<1>5. AnySeq(<<x>>) /\ Len(<<x>>) = 1 /\ <<x>>[1] = x /\ AnySeq(r)
    BY <1>3, AnyOne DEF AnySeq
<1> HIDE DEF x
<1> DEFINE o == <<x>>
<1>6. AnySeq(o) /\ Len(o) = 1 /\ o[1] = x
    BY <1>5
<1> HIDE DEF o
<1>7. \A i \in 1..Len(r) : r[i] = o[i]
    BY <1>1, <1>4, <1>6
<1>8. r = o
    BY <1>4, <1>5, <1>6, <1>7, AnyEqual
<1> QED BY <1>8 DEF r, o, x

LEMMA SmallRemoved ==
    ASSUME NEW a, NEW b
    PROVE  /\ RemoveAt(<<a>>, 1) = <<>>
           /\ RemoveAt(<<a, b>>, 1) = <<b>> /\ RemoveAt(<<a, b>>, 2) = <<a>>
<1> DEFINE q == <<a, b>>
           o == <<a>>
           T == {a, b}
<1>1. /\ q \in Seq(T) /\ Len(q) = 2 /\ q[1] = a /\ q[2] = b
      /\ o \in Seq(T) /\ Len(o) = 1 /\ o[1] = a
    OBVIOUS
<1>3. SubSeq(q, 1, 0) = <<>> /\ SubSeq(q, 3, 2) = <<>> /\ SubSeq(o, 1, 0) = <<>> /\ SubSeq(o, 2, 1) = <<>>
    OBVIOUS
<1>4. SubSeq(q, 2, 2) = <<b>> /\ SubSeq(q, 1, 1) = <<a>>
    <2>1. 1 \in 1..Len(q) /\ 2 \in 1..Len(q)
        BY <1>1
    <2> HIDE DEF q
    <2> QED BY <1>1, <2>1, SubOne
<1>5. /\ <<>> \o <<b>> = <<b>> /\ <<a>> \o <<>> = <<a>> /\ <<>> \o <<>> = <<>>
    OBVIOUS
<1>6. /\ RemoveAt(o, 1) = SubSeq(o, 1, 0) \o SubSeq(o, 2, 1)
      /\ RemoveAt(q, 1) = SubSeq(q, 1, 0) \o SubSeq(q, 2, 2)
      /\ RemoveAt(q, 2) = SubSeq(q, 1, 1) \o SubSeq(q, 3, 2)
    <2>1. 1 - 1 = 0 /\ 1 + 1 = 2 /\ 2 - 1 = 1 /\ 2 + 1 = 3
        OBVIOUS
    <2> HIDE DEF q, o
    <2> QED BY <1>1, <2>1 DEF RemoveAt
<1> QED BY <1>3, <1>4, <1>5, <1>6

\* One is taken out.
LEMMA OneRemoved ==
    ASSUME NEW q, OneOrTwo(q), NEW n \in 1..Len(q)
    PROVE  /\ OneOrTwo(RemoveAt(q, n)) /\ q[n] \notin ToSet(RemoveAt(q, n))
           /\ \A s \in Systems : s # q[n] => (s \in ToSet(RemoveAt(q, n)) <=> s \in ToSet(q))
<1>1. CASE Len(q) = 1
    <2>1. q = <<q[1]>> /\ ToSet(q) = {q[1]} /\ n = 1
        BY <1>1, OneOrTwoIs
    <2>2. RemoveAt(q, n) = <<>>
        BY <2>1, SmallRemoved
    <2>3. OneOrTwo(<<>>) /\ ToSet(<<>>) = {}
        BY DEF OneOrTwo, ToSet
    <2> QED BY <2>1, <2>2, <2>3
<1>2. CASE Len(q) = 2
    <2> DEFINE a == q[1]
               b == q[2]
    <2>1. /\ q = <<a, b>> /\ a \in Systems /\ b \in Systems /\ b = OtherThan(a) /\ a # b
          /\ \A s \in Systems : s \in ToSet(q) /\ (s = a \/ s = b)
        <3>1. 1 \in 1..Len(q) /\ 2 \in 1..Len(q)
            BY <1>2
        <3>2. q = <<a, b>> /\ a \in Systems /\ b \in Systems /\ b = OtherThan(a) /\ \A s \in Systems : s \in ToSet(q)
            BY <1>2, <3>1, OneOrTwoIs
        <3> HIDE DEF a, b
        <3> QED BY <3>2, TwoOfThem
    <2>2. n \in {1, 2}
        BY <1>2
    <2> HIDE DEF a, b
    <2>3. CASE n = 1
        <3>1. RemoveAt(q, n) = <<b>> /\ q[n] = a
            BY <2>1, <2>3, SmallRemoved
        <3>2. OneOrTwo(<<b>>) /\ ToSet(<<b>>) = {b}
            BY <2>1 DEF OneOrTwo, ToSet
        <3> QED BY <2>1, <3>1, <3>2
    <2>4. CASE n = 2
        <3>1. RemoveAt(q, n) = <<a>> /\ q[n] = b
            BY <2>1, <2>4, SmallRemoved
        <3>2. OneOrTwo(<<a>>) /\ ToSet(<<a>>) = {a}
            BY <2>1 DEF OneOrTwo, ToSet
        <3> QED BY <2>1, <3>1, <3>2
    <2> QED BY <2>2, <2>3, <2>4
<1> QED BY <1>1, <1>2, OneOrTwoIs

LEMMA AppendSecond ==
    ASSUME NEW a, NEW s
    PROVE  Append(<<a>>, s) = <<a, s>>
<1> DEFINE one == <<a>>
           two == <<a, s>>
<1>1. /\ AnySeq(one) /\ Len(one) = 1 /\ one[1] = a
    BY AnyOne
<1>2. two \in Seq({a, s}) /\ Len(two) = 2 /\ two[1] = a /\ two[2] = s
    OBVIOUS
<1>3. AnySeq(two)
    BY <1>2 DEF AnySeq
<1> HIDE DEF one, two
<1>4. /\ AnySeq(Append(one, s)) /\ Len(Append(one, s)) = Len(one) + 1
      /\ (\A n \in 1..Len(one) : Append(one, s)[n] = one[n])
      /\ Append(one, s)[Len(one) + 1] = s
    BY ONLY <1>1, AnyAppend, SMTT(30), ZenonT(30)
<1> DEFINE r == Append(one, s)
<1>5. AnySeq(r) /\ Len(r) = Len(one) + 1 /\ (\A n \in 1..Len(one) : r[n] = one[n]) /\ r[Len(one) + 1] = s
    BY <1>4
<1> HIDE DEF r
<1>6. Len(r) = 2 /\ r[1] = a /\ r[2] = s /\ \A n \in 1..2 : n = 1 \/ n = 2
    BY <1>1, <1>5
<1>7. \A n \in 1..Len(r) : r[n] = two[n]
    BY <1>2, <1>6
<1>8. r = two
    BY <1>2, <1>3, <1>5, <1>6, <1>7, AnyEqual
<1> QED BY <1>8 DEF r, one, two

\* One is added.
LEMMA OneAdded ==
    ASSUME NEW q, OneOrTwo(q), NEW s \in Systems, s \notin ToSet(q)
    PROVE  /\ OneOrTwo(Append(q, s)) /\ Len(q) < 2 /\ Append(q, s) # <<>>
           /\ Len(Append(q, s)) \in {1, 2}
<1>1. Len(q) # 2
    BY OneOrTwoIs
<1>2. CASE q = <<>>
    <2>1. Append(q, s) = <<s>>
        BY <1>2
    <2>2. OneOrTwo(<<s>>) /\ <<s>> # <<>> /\ Len(<<s>>) = 1
        BY DEF OneOrTwo
    <2> QED BY <1>2, <2>1, <2>2
<1>3. CASE Len(q) = 1
    <2> DEFINE a == q[1]
    <2>1. q = <<a>> /\ a \in Systems /\ ToSet(q) = {a}
        BY <1>3, OneOrTwoIs
    <2>2. s = OtherThan(a)
        BY <2>1, TwoOfThem
    <2> HIDE DEF a
    <2>3. Append(q, s) = <<a, s>>
        BY <2>1, AppendSecond
    <2>4. OneOrTwo(<<a, s>>) /\ <<a, s>> # <<>> /\ Len(<<a, s>>) = 2
        BY <2>1, <2>2 DEF OneOrTwo
    <2> QED BY <1>3, <2>3, <2>4
<1> QED BY <1>1, <1>2, <1>3, OneOrTwoIs

\* The other one of two.
LEMMA OtherOfTwo ==
    ASSUME OneOrTwo(systems), Len(systems) = 2, NEW s \in Systems
    PROVE  OtherOf(s) = OtherThan(s)
<1> DEFINE a == systems[1]
           b == systems[2]
           I == {i \in 1..Len(systems) : systems[i] = s}
<1>1. /\ systems = <<a, b>> /\ a \in Systems /\ b = OtherThan(a) /\ a = OtherThan(b)
      /\ s \in {a, b} /\ a # b
    <2>1. 1 \in 1..Len(systems) /\ 2 \in 1..Len(systems)
        OBVIOUS
    <2>2. systems = <<a, b>> /\ a \in Systems /\ b = OtherThan(a) /\ a = OtherThan(b)
        BY <2>1, OneOrTwoIs
    <2> HIDE DEF a, b
    <2> QED BY <2>2, TwoOfThem
<1>2. I = {IF s = a THEN 1 ELSE 2}
    BY <1>1
<1>3. \A n \in {1, 2} : Min({n}) = n
    BY DEF Min
<1>4. SelectInSeq(systems, LAMBDA x : x = s) = IF s = a THEN 1 ELSE 2
    <2> HIDE DEF a
    <2>1. SelectInSeq(systems, LAMBDA x : x = s) = IF I # {} THEN Min(I) ELSE 0
        BY DEF SelectInSeq
    <2> HIDE DEF I
    <2> QED BY <1>2, <1>3, <2>1
<1>5. OtherOf(s) = systems[((IF s = a THEN 1 ELSE 2) % 2) + 1]
    BY <1>4 DEF OtherOf
<1>6. OtherOf(s) = IF s = a THEN b ELSE a
    BY <1>5
<1> QED BY <1>1, <1>6

-----------------------------------------------------------------------------
\* A broker that waits for requests.
LEMMA PollingFacts ==
    ASSUME IInv, work = <<>>
    PROVE  \E k, j \in Nat : \A s \in Systems : Resting(s, k, j) \/ Gone(s, k, j)
BY DEF IInv, Rounds, Busy, Idle

LEMMA TwoSystems == Cardinality(Systems) = 2
BY ThirdLevelAssumption

\* No system has sent a request.
LEMMA NoMessageKeeps ==
    ASSUME IInv, NoMessage
    PROVE  IInv'
<1>1. Base /\ BrokerOK /\ work = <<>> /\ Len(accepted) = 2 /\ systems # <<>>
    BY TwoSystems DEF IInv, NoMessage, Polling
<1>2. /\ next' = Following(next, Len(systems)) /\ accepted' = accepted /\ systems' = systems /\ work' = work
      /\ toManager' = toManager /\ toSystem' = toSystem /\ systemSide' = systemSide
    BY DEF NoMessage, socketVars
<1>3. /\ Base' /\ PlanOK' /\ (\A s \in Systems : SizesOK(s)' /\ Kept(s)) /\ Grown
    <2>1. /\ DOMAIN toManager' = Systems /\ DOMAIN toSystem' = Systems
          /\ \A s \in Systems : AnySeq(toManager'[s]) /\ AnySeq(toSystem'[s])
        BY <1>1, <1>2 DEF Base
    <2> QED BY <1>2, <2>1, BrokerSide
<1>4. BrokerOK'
    <2>1. OneOrTwo(systems) /\ OneOrTwo(accepted) /\ next \in 1..Len(systems)
        BY <1>1 DEF BrokerOK
    <2>2. Len(systems) \in Nat
        BY <2>1, OneOrTwoIs
    <2>3. Following(next, Len(systems)) \in 1..Len(systems)
        BY <2>1, <2>2 DEF Following
    <2> QED BY <1>1, <1>2, <2>1, <2>3 DEF BrokerOK
<1>5. PICK k \in Nat, j \in Nat : \A s \in Systems : Resting(s, k, j) \/ Gone(s, k, j)
    BY <1>1, PollingFacts
<1>6. ASSUME NEW s \in Systems PROVE Resting(s, k, j)' \/ Gone(s, k, j)'
    <2>1. SocketsKept(s) /\ Kept(s) /\ (Resting(s, k, j) \/ Gone(s, k, j))
        BY <1>2, <1>3, <1>5 DEF SocketsKept
    <2> QED BY <1>1, <1>2, <1>3, <2>1, RestingKept
<1>7. Idle(k, j)'
    BY <1>1, <1>2, <1>6 DEF Idle
<1> QED BY <1>3, <1>4, <1>7 DEF IInv, Rounds

\* A system connects.
LEMMA AcceptKeeps ==
    ASSUME IInv, NEW a \in Systems, AcceptClient(a)
    PROVE  IInv'
<1>1. Base /\ BrokerOK
    BY DEF IInv
<1>2. /\ a \notin ToSet(accepted) /\ accepted' = Append(accepted, a) /\ systems' = Append(systems, a)
      /\ next' = next /\ work' = work
      /\ toManager' = toManager /\ toSystem' = toSystem /\ systemSide' = systemSide
    BY DEF AcceptClient, socketVars
<1>3. /\ OneOrTwo(accepted') /\ Len(accepted) < 2 /\ accepted' # <<>> /\ Len(accepted') \in {1, 2}
    BY <1>1, <1>2, OneAdded DEF BrokerOK
<1>4. systems = accepted /\ systems' = accepted' /\ next = 1
    BY <1>1, <1>2, <1>3 DEF BrokerOK
<1>5. BrokerOK'
    <2>1. 1 \in 1..Len(systems')
        BY <1>3, <1>4
    <2> QED BY <1>2, <1>3, <1>4, <2>1 DEF BrokerOK
<1>6. /\ Base' /\ PlanOK' /\ (\A s \in Systems : SizesOK(s)' /\ Kept(s)) /\ Grown
    <2>1. /\ DOMAIN toManager' = Systems /\ DOMAIN toSystem' = Systems
          /\ \A s \in Systems : AnySeq(toManager'[s]) /\ AnySeq(toSystem'[s])
        BY <1>1, <1>2 DEF Base
    <2> QED BY <1>2, <2>1, BrokerSide
<1>7. Len(accepted') = 2 => \A s \in Systems : s \in ToSet(systems')
    BY <1>3, <1>4, OneOrTwoIs
<1>8. work = <<>>
    <2> SUFFICES ASSUME work # <<>> PROVE FALSE
        OBVIOUS
    <2>1. Len(accepted) = 2
        BY BusyFacts
    <2> QED BY <1>3, <2>1
<1>9. PICK k \in Nat, j \in Nat : \A s \in Systems : Resting(s, k, j) \/ Gone(s, k, j)
    BY <1>8, PollingFacts
<1>10. ASSUME NEW s \in Systems PROVE Resting(s, k, j)'
    <2>1. Resting(s, k, j)
        <3>1. Len(accepted) # 2
            BY <1>3
        <3> QED BY <1>9, <3>1 DEF Gone
    <2>2. toManager'[s] = toManager[s] /\ toSystem'[s] = toSystem[s] /\ Kept(s)
        BY <1>2, <1>6
    <2>3. \A n : Waiting(s, k, j, n) => Waiting(s, k, j, n)'
        BY <1>1, <1>6, <2>2, KeptWaiting
    <2>4. Waiting(s, k, j, 1) => RequestOf(k, j)' = RequestOf(k, j)
        BY <1>1, <1>6, RequestKept
    <2> QED BY <1>7, <2>1, <2>2, <2>3, <2>4 DEF Resting
<1>11. Idle(k, j)'
    BY <1>2, <1>8, <1>10 DEF Idle
<1> QED BY <1>5, <1>6, <1>11 DEF IInv, Rounds

-----------------------------------------------------------------------------
\* The request the broker takes.
LEMMA RequestTaken ==
    ASSUME IInv, Polling, toManager[systems[next]] # <<>>
    PROVE  \E k, j \in Nat :
             /\ Base /\ PlanOK /\ BrokerOK /\ work = <<>> /\ Len(accepted) = 2
             /\ next \in 1..Len(systems) /\ systems[next] \in Systems
             /\ \A s \in Systems : Resting(s, k, j) \/ Gone(s, k, j)
             /\ Resting(systems[next], k, j) /\ Waiting(systems[next], k, j, 1) /\ Sent(systems[next], k, j)
             /\ k \in 1..Len(plan) /\ calls[systems[next]] = k /\ j \in {1, 2}
             /\ Head(toManager[systems[next]]).kind = RequestOf(k, j)
             /\ Tail(toManager[systems[next]]) = <<>>
             /\ toSystem[systems[next]] = <<>>
             /\ plan[k] \in Methods \cup {"finalize"} /\ (plan[k] = "finalize" => j = 1)
             /\ (plan[k] \in Methods /\ j = 2 => plan[k] = "monteCarloThirdLevel")
<1>1. Base /\ PlanOK /\ BrokerOK /\ work = <<>> /\ Len(accepted) = 2 /\ systems # <<>>
    BY TwoSystems DEF IInv, Polling
<1>2. PICK k \in Nat, j \in Nat : \A s \in Systems : Resting(s, k, j) \/ Gone(s, k, j)
    BY <1>1, PollingFacts
<1>s. PICK s : s = systems[next]
    OBVIOUS
<1>q. PICK q : q = toManager[s]
    OBVIOUS
<1>3. next \in 1..Len(systems) /\ OneOrTwo(systems)
    BY <1>1 DEF BrokerOK
<1>4. s \in Systems /\ s \in ToSet(systems)
    BY <1>s, <1>3, OneOrTwoIs
<1>5. Resting(s, k, j)
    BY <1>2, <1>4 DEF Gone
<1>6. Waiting(s, k, j, 1) /\ Len(q) = 1 /\ q[1].kind = RequestOf(k, j) /\ toSystem[s] = <<>> /\ q # <<>>
    BY <1>s, <1>q, <1>5 DEF Resting
<1>7. AnySeq(q)
    BY <1>q, <1>1, <1>4 DEF Base
<1>8. Head(q) = q[1] /\ Len(Tail(q)) = 0 /\ AnySeq(Tail(q))
    BY <1>6, <1>7, AnyTail
<1>9. Tail(q) = <<>>
    BY <1>8, AnyLen
<1>10. Sent(s, k, j) /\ j \in {1, 2} /\ calls[s] = k /\ k \in Nat \ {0}
    BY <1>6 DEF Waiting, Sent
<1>11. k <= Len(plan) /\ k \in Nat \ {0}
    BY <1>1, <1>4, <1>10 DEF Base
<1>12. k \in 1..Len(plan) /\ "finalize" \notin Methods
    BY <1>1, <1>11 DEF PlanOK, Methods
<1>13. /\ plan[k] \in Methods \cup {"finalize"} /\ (plan[k] = "finalize" => j = 1)
       /\ (plan[k] \in Methods /\ j = 2 => plan[k] = "monteCarloThirdLevel")
    BY <1>10, <1>12 DEF Sent
<1> QED BY <1>s, <1>q, <1>1, <1>2, <1>3, <1>4, <1>5, <1>6, <1>8, <1>9, <1>10, <1>12, <1>13

\* The frame of the step.
LEMMA ProcessFacts ==
    ASSUME IInv, ProcessMessage, NEW s, s = systems[next]
    PROVE  /\ s \in Systems /\ toManager[s] # <<>>
           /\ toManager'[s] = Tail(toManager[s])
           /\ \A o \in Systems : o # s => toManager'[o] = toManager[o]
           /\ toSystem' = toSystem /\ accepted' = accepted
           /\ systems' = IF Head(toManager[s]).kind = "finished_computation" THEN RemoveAt(systems, next) ELSE systems
           /\ next' = Following(next, Len(systems'))
           /\ work' = Operation(Head(toManager[s]).kind, s, OtherOf(s))
           /\ Base' /\ PlanOK' /\ (\A o \in Systems : SizesOK(o)' /\ Kept(o)) /\ Grown
           /\ plan' = plan /\ debug' = debug
           /\ BrokerOK'
<1>1. Polling /\ toManager[s] # <<>>
    BY DEF ProcessMessage
<1>2. Base /\ BrokerOK /\ Len(accepted) = 2 /\ next \in 1..Len(systems) /\ s \in Systems
    BY <1>1, RequestTaken
<1>3. /\ toManager' = [toManager EXCEPT ![s] = Tail(toManager[s])] /\ toSystem' = toSystem /\ accepted' = accepted
      /\ systems' = (IF Head(toManager[s]).kind = "finished_computation" THEN RemoveAt(systems, next) ELSE systems)
      /\ next' = Following(next, Len(systems'))
      /\ work' = Operation(Head(toManager[s]).kind, s, OtherOf(s)) /\ systemSide' = systemSide
    BY DEF ProcessMessage
<1> HIDE DEF Operation, RemoveAt
<1>4. Take(s)
    BY <1>1, <1>3 DEF Take
<1>5. /\ toManager'[s] = Tail(toManager[s]) /\ DOMAIN toManager' = Systems
      /\ \A o \in Systems : o # s => toManager'[o] = toManager[o]
      /\ \A o \in Systems : AnySeq(toManager'[o])
    BY <1>2, <1>4, TakeFacts
<1>6. /\ Base' /\ PlanOK' /\ (\A o \in Systems : SizesOK(o)' /\ Kept(o)) /\ Grown
      /\ plan' = plan /\ debug' = debug
    <2>1. DOMAIN toSystem' = Systems /\ \A o \in Systems : AnySeq(toSystem'[o])
        BY <1>2, <1>3 DEF Base
    <2> QED BY <1>3, <1>5, <2>1, BrokerSide
<1>7. BrokerOK'
    <2>1. OneOrTwo(systems) /\ OneOrTwo(accepted)
        BY <1>2 DEF BrokerOK
    <2>2. OneOrTwo(systems')
        BY <1>2, <1>3, <2>1, OneRemoved
    <2>3. Len(systems') \in Nat /\ (systems' # <<>> => Len(systems') > 0)
        BY <2>2, OneOrTwoIs
    <2>4. next \in Nat /\ next >= 1 /\ Len(systems) \in Nat
        BY <1>2
    <2>5. systems' # <<>> => next' \in 1..Len(systems')
        <3> DEFINE l == Len(systems')
        <3>1. l \in Nat /\ (systems' # <<>> => l > 0) /\ next' = Following(next, l)
            BY <1>3, <2>3
        <3> HIDE DEF l
        <3>2. systems' # <<>> => next' \in 1..l
            BY <2>4, <3>1 DEF Following
        <3> QED BY <3>2 DEF l
    <2> QED BY <1>2, <1>3, <2>1, <2>2, <2>5 DEF BrokerOK
<1> QED BY <1>1, <1>2, <1>3, <1>5, <1>6, <1>7

\* A system logs off.
LEMMA FinishedKeeps ==
    ASSUME IInv, ProcessMessage, Head(toManager[systems[next]]).kind = "finished_computation"
    PROVE  IInv'
<1>s. PICK s : s = systems[next]
    OBVIOUS
<1>1. /\ s \in Systems /\ toManager[s] # <<>>
      /\ toManager'[s] = Tail(toManager[s])
      /\ \A o \in Systems : o # s => toManager'[o] = toManager[o]
      /\ toSystem' = toSystem /\ accepted' = accepted
      /\ systems' = RemoveAt(systems, next)
      /\ work' = Operation("finished_computation", s, OtherOf(s))
      /\ Base' /\ PlanOK' /\ (\A o \in Systems : SizesOK(o)' /\ Kept(o)) /\ Grown
      /\ plan' = plan /\ BrokerOK'
    BY <1>s, ProcessFacts
<1>2. Polling
    BY DEF ProcessMessage
<1>3. PICK k \in Nat, j \in Nat :
         /\ Base /\ BrokerOK /\ Len(accepted) = 2
         /\ next \in 1..Len(systems)
         /\ \A o \in Systems : Resting(o, k, j) \/ Gone(o, k, j)
         /\ Waiting(s, k, j, 1)
         /\ "finished_computation" = RequestOf(k, j)
         /\ Tail(toManager[s]) = <<>> /\ toSystem[s] = <<>>
         /\ plan[k] \in Methods \cup {"finalize"}
         /\ (plan[k] \in Methods /\ j = 2 => plan[k] = "monteCarloThirdLevel") /\ j \in {1, 2}
    BY <1>s, <1>1, <1>2, RequestTaken
<1>4. work' = <<>>
    BY <1>1 DEF Operation
<1>5. plan[k] = "finalize"
    <2> SUFFICES ASSUME plan[k] \in Methods PROVE FALSE
        BY <1>3
    <2>1. "finished_computation" = RequestFor(What(plan[k], j))
        BY <1>3 DEF RequestOf, Methods
    <2> QED BY <2>1 DEF RequestFor, What, Methods, Unifying
<1>6. s \notin ToSet(systems') /\ \A o \in Systems : o # s => (o \in ToSet(systems') <=> o \in ToSet(systems))
    <2>1. OneOrTwo(systems)
        BY <1>3 DEF BrokerOK
    <2> QED BY <1>s, <1>1, <1>3, <2>1, OneRemoved
<1>7. Gone(s, k, j)'
    <2>1. Waiting(s, k, j, 1)'
        BY <1>1, <1>3, KeptWaiting
    <2> QED BY <1>1, <1>3, <1>5, <1>6, <2>1 DEF Gone
<1>8. ASSUME NEW o \in Systems, o # s PROVE Resting(o, k, j)' \/ Gone(o, k, j)'
    <2>1. toManager'[o] = toManager[o] /\ toSystem'[o] = toSystem[o] /\ Kept(o)
        BY <1>1, <1>8
    <2>2. \A n : Waiting(o, k, j, n) => Waiting(o, k, j, n)'
        BY <1>1, <1>3, <2>1, KeptWaiting
    <2>3. RequestOf(k, j)' = RequestOf(k, j) /\ plan'[k] = plan[k]
        BY <1>1 DEF RequestOf
    <2>4. CASE Resting(o, k, j)
        BY <1>1, <1>6, <1>8, <2>1, <2>2, <2>3, <2>4 DEF Resting
    <2>5. CASE Gone(o, k, j)
        BY <1>1, <1>6, <1>8, <2>1, <2>2, <2>3, <2>5 DEF Gone
    <2> QED BY <1>3, <2>4, <2>5
<1>9. Idle(k, j)'
    BY <1>4, <1>7, <1>8 DEF Idle
<1> QED BY <1>1, <1>9 DEF IInv, Rounds

-----------------------------------------------------------------------------
\* The round a request begins.
LEMMA RoundBegins ==
    ASSUME Base, PlanOK, NEW s \in Systems, NEW k \in 1..Len(plan), NEW j \in {1, 2}, plan[k] \in Methods,
           j = 2 => plan[k] = "monteCarloThirdLevel"
    PROVE  \E R : RoundOf(R) /\ R.op = plan[k] /\ R.part = j /\ R.call = k /\ R.first = s /\ R.what = What(plan[k], j)
<1>1. k \in Nat \ {0} /\ k <= Len(plan)
    BY DEF PlanOK
<1>2. \E g : plan[k] = "combineThirdLevel" => \E c \in 1..(k - 1) : plan[c] \in Unifying /\ g = DsguOf(plan[c])
    <2>1. CASE plan[k] = "combineThirdLevel"
        <3>1. PICK c \in 1..(k - 1) : plan[c] \in Unifying
            BY <2>1 DEF PlanOK
        <3> DEFINE g == DsguOf(plan[c])
        <3>2. plan[c] \in Unifying /\ g = DsguOf(plan[c])
            BY <3>1
        <3> HIDE DEF g
        <3> QED BY <3>2
    <2> QED BY <2>1
<1>3. PICK g : plan[k] = "combineThirdLevel" => \E c \in 1..(k - 1) : plan[c] \in Unifying /\ g = DsguOf(plan[c])
    BY <1>2
<1>w. PICK w : w = What(plan[k], j)
    OBVIOUS
<1>p. PICK op : op = plan[k]
    OBVIOUS
<1>c. PICK ch \in BOOLEAN : ch <=> debug = Systems
    OBVIOUS
<1> DEFINE R == [op |-> op, part |-> j, what |-> w, call |-> k, first |-> s, checked |-> ch, grids |-> g]
<1>4. R.op = op /\ R.part = j /\ R.what = w /\ R.call = k /\ R.first = s /\ R.checked = ch /\ R.grids = g
    OBVIOUS
<1> HIDE DEF R
<1>5. IsRound(R)
    BY <1>w, <1>p, <1>c, <1>1, <1>4 DEF IsRound
<1>6. R.what = "grid" => op = "combineThirdLevel"
    BY <1>4, <1>5, RoundWhat
<1>7. R.what = "grid" => \E c \in 1..(R.call - 1) : plan[c] \in Unifying /\ R.grids = DsguOf(plan[c])
    BY <1>p, <1>3, <1>4, <1>6
<1>8. RoundOf(R)
    BY <1>p, <1>c, <1>1, <1>4, <1>5, <1>7 DEF RoundOf
<1> QED BY <1>w, <1>p, <1>4, <1>8

\* A system joins a round that begins.
LEMMA JoinsServed ==
    ASSUME Base', NEW R, IsRound(R), NEW s \in Systems, NEW n \in {0, 1}, Waiting(s, R.call, R.part, n)',
           toSystem'[s] = <<>>, NEW u, u.give[s] = 0, u.take[s] \in {0, n},
           Len(toManager'[s]) = n - u.take[s],
           n - u.take[s] = 1 => toManager'[s][1].kind = RequestFor(R.what)
    PROVE  Served(R, s, u)'
<1>1. n \in Nat /\ u.take[s] \in Nat /\ 0 \in Nat
    OBVIOUS
<1>2. Position(R, s, n, 0)'
    BY <1>1 DEF Position
<1>3. Incoming(R, s, 0, u.give[s])'
    <2>1. Len(toSystem'[s]) = 0
        BY EmptySeq
    <2> QED BY <2>1 DEF Incoming
<1>4. Outgoing(R, s, n, u.take[s])'
    <2>1. OutEnd(R, s) \in Nat /\ OutEnd(R, s) >= 2 /\ OutSlot(R, s, 1) = TextSlot(RequestFor(R.what))
        BY OutStream
    <2>2. CASE Len(toManager'[s]) = 0
        BY <2>2 DEF Outgoing
    <2>3. CASE Len(toManager'[s]) = 1
        <3>1. u.take[s] = 0 /\ n = 1
            <4>1. n - u.take[s] = 1
                BY <2>3
            <4> QED BY <4>1
        <3> DEFINE m == toManager'[s][1]
                   text == RequestFor(R.what)
        <3>2. m.kind = text /\ text # "size"
            BY <3>1, RoundWhat DEF RequestFor, Whats
        <3> HIDE DEF m, text
        <3>3. Fits(m, TextSlot(text))
            BY ONLY <3>2 DEF Fits, TextSlot
        <3>4. ASSUME NEW q \in 1..Len(toManager'[s]) PROVE q = 1
            BY <2>3
        <3>5. ~(u.take[s] + 1 > OutEnd(R, s)) /\ u.take[s] + 1 = 1
            BY <2>1, <3>1
        <3>6. Fits(toManager'[s][1], OutSlot(R, s, u.take[s] + 1))
            BY <2>1, <3>3, <3>5 DEF m, text
        <3>7. Len(toManager'[s]) = n - u.take[s]
            OBVIOUS
        <3> QED BY <3>4, <3>5, <3>6, <3>7 DEF Outgoing
    <2>4. Len(toManager'[s]) \in {0, 1}
        BY <1>1
    <2> QED BY <2>2, <2>3, <2>4
<1> QED BY <1>1, <1>2, <1>3, <1>4 DEF Served

LEMMA RequestedKeeps ==
    ASSUME IInv, ProcessMessage, Head(toManager[systems[next]]).kind # "finished_computation"
    PROVE  IInv'
<1>s. PICK s : s = systems[next]
    OBVIOUS
<1>r. PICK request : request = Head(toManager[s]).kind
    OBVIOUS
<1>1. /\ s \in Systems /\ toManager[s] # <<>>
      /\ toManager'[s] = Tail(toManager[s])
      /\ \A o \in Systems : o # s => toManager'[o] = toManager[o]
      /\ toSystem' = toSystem /\ accepted' = accepted /\ systems' = systems
      /\ work' = Operation(request, s, OtherOf(s))
      /\ Base' /\ PlanOK' /\ (\A o \in Systems : SizesOK(o)' /\ Kept(o)) /\ Grown
      /\ plan' = plan /\ debug' = debug /\ BrokerOK'
    BY <1>s, <1>r, ProcessFacts
<1>2. Polling
    BY DEF ProcessMessage
<1>3. PICK k \in Nat, j \in Nat :
         /\ Base /\ PlanOK /\ BrokerOK /\ Len(accepted) = 2
         /\ \A o \in Systems : Resting(o, k, j) \/ Gone(o, k, j)
         /\ Waiting(s, k, j, 1) /\ k \in 1..Len(plan) /\ j \in {1, 2}
         /\ request = RequestOf(k, j)
         /\ Tail(toManager[s]) = <<>> /\ toSystem[s] = <<>>
         /\ plan[k] \in Methods \cup {"finalize"}
         /\ (plan[k] \in Methods /\ j = 2 => plan[k] = "monteCarloThirdLevel")
    BY <1>s, <1>r, <1>1, <1>2, RequestTaken
<1>4. plan[k] \in Methods /\ plan[k] # "finalize" /\ request = RequestFor(What(plan[k], j))
    BY <1>s, <1>r, <1>3 DEF RequestOf, Methods
<1>5. PICK R : RoundOf(R) /\ R.op = plan[k] /\ R.part = j /\ R.call = k /\ R.first = s /\ R.what = What(plan[k], j)
    BY <1>1, <1>3, <1>4, RoundBegins
<1>6. IsRound(R) /\ request = RequestFor(R.what)
    BY <1>4, <1>5 DEF RoundOf
<1>7. \A o \in Systems : Resting(o, k, j) /\ o \in ToSet(systems)
    BY <1>3, <1>4 DEF Gone, Resting
<1>8. OtherOf(s) = OtherThan(s)
    <2>1. OneOrTwo(systems)
        BY <1>3 DEF BrokerOK
    <2>2. s \in ToSet(systems) /\ OtherThan(s) \in ToSet(systems) /\ s # OtherThan(s)
        BY <1>1, <1>7, TwoOfThem
    <2>3. Len(systems) = 2
        BY <2>1, <2>2, OneOrTwoIs
    <2> QED BY <1>1, <2>1, <2>3, OtherOfTwo
<1>u. PICK u : u = StartSpot(R)
    OBVIOUS
<1>9. /\ u \in Spots /\ u.take[s] = 1 /\ u.give[s] = 0
      /\ \A o \in Systems : o # s => u.take[o] = 0 /\ u.give[o] = 0
    BY <1>u, <1>1, <1>5, <1>6, SpotTypes DEF StartSpot
<1>10. NothingUnasked(u) /\ u.take[R.first] >= 1
    BY <1>5, <1>9 DEF NothingUnasked
<1>11. Walk(JobEdges(R), work', u, EndSpot(R))
    BY <1>u, <1>1, <1>5, <1>6, <1>8, OperationRoad
<1>12. Served(R, s, u)'
    <2>1. Waiting(s, k, j, 1)'
        BY <1>1, <1>3, KeptWaiting
    <2>2. toSystem'[s] = <<>> /\ Len(toManager'[s]) = 0
        BY <1>1, <1>3, EmptySeq
    <2>n. PICK n \in {0, 1} : n = 1
        OBVIOUS
    <2>3. /\ Waiting(s, R.call, R.part, n)' /\ u.take[s] \in {0, n} /\ Len(toManager'[s]) = n - u.take[s]
          /\ n - u.take[s] # 1
        BY <1>5, <1>9, <2>n, <2>1, <2>2
    <2> QED BY <1>1, <1>6, <1>9, <2>2, <2>3, JoinsServed
<1>13. ASSUME NEW o \in Systems, o # s PROVE Served(R, o, u)'
    <2>1. toManager'[o] = toManager[o] /\ toSystem'[o] = toSystem[o] /\ Kept(o) /\ Resting(o, k, j)
        BY <1>1, <1>7, <1>13
    <2>2. PICK n \in {0, 1} : /\ Waiting(o, k, j, n) /\ Len(toManager[o]) = n
                              /\ n = 1 => toManager[o][1].kind = RequestOf(k, j)
        <3>1. CASE Waiting(o, k, j, 0) /\ toManager[o] = <<>>
            <4>1. Len(toManager[o]) = 0
                BY <3>1, EmptySeq
            <4> QED BY <3>1, <4>1
        <3> QED BY <2>1, <3>1 DEF Resting
    <2>3. Waiting(o, k, j, n)'
        BY <1>1, <1>3, <2>1, <2>2, KeptWaiting
    <2>4. u.take[o] = 0 /\ u.give[o] = 0 /\ n - 0 = n
        BY <1>9, <1>13
    <2>5. toSystem'[o] = <<>>
        BY <2>1 DEF Resting
    <2>6. /\ Waiting(o, R.call, R.part, n)' /\ u.take[o] \in {0, n} /\ Len(toManager'[o]) = n - u.take[o]
          /\ n - u.take[o] = 1 => toManager'[o][1].kind = RequestFor(R.what)
        BY <1>3, <1>5, <1>6, <2>1, <2>2, <2>3, <2>4
    <2> QED BY <1>1, <1>6, <2>4, <2>5, <2>6, JoinsServed
<1>14. Rounds'
    <2>1. \A o \in Systems : Served(R, o, u)'
        BY <1>12, <1>13
    <2>2. Len(accepted') = 2 /\ \A o \in Systems : o \in ToSet(systems')
        BY <1>1, <1>3, <1>7
    <2> QED BY <1>1, <1>5, <1>9, <1>10, <1>11, <2>1, <2>2, BrokerGoesOn
<1> QED BY <1>1, <1>14 DEF IInv

-----------------------------------------------------------------------------
(***************************************************************************)
(* What the invariant says of the messages.                                *)
(***************************************************************************)

\* What a system does with the message it reads.
Reads(s, x, h) ==
    /\ x.do = "fetch" => h.kind \in IF x.what = "file" THEN {"write_ok"} ELSE {"send_first", "recv_first"}
    /\ x.do = "recvSize" => h.kind = "size"
    /\ x.do = "recvBytes" => h.kind = "bytes"
    /\ x.do = "recvSize" => h.size = SizeOf(s, x.what, x.piece)
    /\ x.do = "recvBytes" /\ x.how = "compare" => h.data = {coords[s]}

\* Only local steps and signals read nothing.
LEMMA SilentReads ==
    ASSUME NEW s, NEW x, NEW h, (\E t : x = SignalStep(t)) \/ (\E t \in {"reduceMax", "reduceMin"} : x = LocalStep(t))
    PROVE  Reads(s, x, h)
<1>1. CASE \E t : x = SignalStep(t)
    <2>1. PICK t : x = SignalStep(t)
        BY <1>1
    <2>2. x.do = "signal"
        BY ONLY <2>1 DEF SignalStep, Step
    <2> QED BY ONLY <2>2 DEF Reads
<1>2. CASE \E t \in {"reduceMax", "reduceMin"} : x = LocalStep(t)
    <2>1. PICK t \in {"reduceMax", "reduceMin"} : x = LocalStep(t)
        BY <1>2
    <2>2. x.do \in {"reduceMax", "reduceMin"}
        BY ONLY <2>1 DEF LocalStep, Step
    <2> QED BY ONLY <2>2 DEF Reads
<1> QED BY <1>1, <1>2

\* The step of a round reads the message of the round.
LEMMA StepReads ==
    ASSUME Base, NEW R, RoundOf(R), NEW s \in Systems, SizesOK(s), calls[s] = R.call,
           NEW out \in Nat, NEW in \in Nat, NEW w, NEW x, StepEdge(R, s, x, <<out, in>>, w),
           NEW h, Fits(h, InSlot(R, s, in + 1)),
           R.what = "coords" /\ (s = R.first \/ in = InEnd(R, s)) => coords[s] = <<R.first, R.call>>
    PROVE  Reads(s, x, h)
<1> DEFINE slot == InSlot(R, s, in + 1)
           v == <<out, in>>
<1>1. v[2] = in
    OBVIOUS
<1>2. StepEdge(R, s, x, v, w) /\ Fits(h, slot)
    OBVIOUS
<1> HIDE DEF v
<1>3. CASE x.do = "recvSize"
    <2> DEFINE size == SizeOfPiece(R, x.piece)
    <2>1. x.what = R.what /\ slot = SizeSlot(R, x.piece)
        BY <1>1, <1>2, <1>3 DEF StepEdge
    <2>2. SizeOf(s, R.what, x.piece) = size
        <3>1. R.what = "grid" => dsguSizes[s] = R.grids
            BY GridsKnown
        <3> QED BY <3>1 DEF SizeOf, SizeOfPiece
    <2>3. slot.kind = "size" /\ slot.size = size
        BY <2>1 DEF SizeSlot
    <2> HIDE DEF slot, size
    <2>4. h.kind = "size" /\ h.size = size
        BY <1>2, <2>3 DEF Fits
    <2> QED BY <1>3, <2>1, <2>2, <2>4 DEF Reads
<1>4. CASE x.do = "recvBytes"
    <2> DEFINE data == DataFrom(R, OtherThan(s))
               exact == R.what \in {"sizes", "coords"}
    <2>1. /\ slot = BytesSlot(R, OtherThan(s)) /\ x.how \in {"wait"} \cup HowsOf(R, s)
          /\ R.what \in {"grid", "sizes", "coords", "values"}
        <3>1. R.what \in Whats
            BY RoundWhat DEF RoundOf
        <3> QED BY <1>1, <1>2, <1>4, <3>1 DEF StepEdge, Whats
    <2>2. slot.kind = "bytes" /\ slot.data = data /\ slot.exact = exact
        <3>1. slot = [kind |-> "bytes", size |-> <<"", {}>>, data |-> data, exact |-> exact]
            BY <2>1 DEF BytesSlot
        <3> HIDE DEF slot, data, exact
        <3> QED BY ONLY <3>1
    <2>3. x.how = "compare" => R.what = "coords" /\ s = R.first
        BY <2>1 DEF HowsOf
    <2>4. R.what = "coords" => exact /\ data = {<<R.first, R.call>>}
        BY DEF DataFrom
    <2> HIDE DEF slot, data, exact
    <2>5. h.kind = "bytes" /\ (exact => h.data = data)
        BY <1>2, <2>2 DEF Fits
    <2>6. x.how = "compare" => h.data = {coords[s]}
        BY <2>3, <2>4, <2>5
    <2> QED BY <1>4, <2>5, <2>6 DEF Reads
<1>5. x.do \in {"signal", "sendSize", "sendBytes", "recvSize", "recvBytes", "write", "readReduce"}
    BY <1>2 DEF StepEdge
<1>6. CASE x.do \notin {"recvSize", "recvBytes"}
    BY <1>5, <1>6 DEF Reads
<1> QED BY <1>3, <1>4, <1>6

LEMMA SystemReads ==
    ASSUME IInv, NEW s \in Systems, toSystem[s] # <<>>
    PROVE  todo[s] # <<>> /\ Reads(s, Head(todo[s]), Head(toSystem[s]))
<1>0. Base /\ SizesOK(s)
    BY DEF IInv
<1>1. work # <<>>
    BY PollingFacts DEF Resting, Gone
<1>2. PICK R, u : /\ RoundOf(R) /\ IsRound(R) /\ u \in Spots /\ NothingUnasked(u)
                  /\ Walk(JobEdges(R), work, u, EndSpot(R)) /\ Served(R, s, u)
    BY <1>1, BusyFacts
<1>3. PICK out \in Nat, in \in Nat :
         Position(R, s, out, in) /\ Outgoing(R, s, out, u.take[s]) /\ Incoming(R, s, in, u.give[s])
    BY <1>2 DEF Served
<1>4. AnySeq(toManager[s]) /\ AnySeq(toSystem[s]) /\ u.take[s] \in Nat /\ u.give[s] \in Nat
    BY <1>0, <1>2 DEF Base, Spots
<1>5. /\ Len(toSystem[s]) \in Nat /\ Len(toSystem[s]) > 0 /\ Head(toSystem[s]) = toSystem[s][1]
      /\ Len(toManager[s]) \in Nat
    BY <1>4, AnyTail, AnyLen
<1>6. u.give[s] > in /\ u.take[s] <= out
    BY <1>3, <1>4, <1>5 DEF Incoming, Outgoing
<1>7. u.give[s] <= InEnd(R, s) /\ InEnd(R, s) \in Nat
    <2>1. u.give[s] <= EndSpot(R).give[s]
        BY <1>2, JobsGrow
    <2>2. EndSpot(R).give[s] = InEnd(R, s)
        BY DEF EndSpot
    <2> QED BY <1>2, <2>1, <2>2, EndsGrow
<1>h. PICK h : h = Head(toSystem[s])
    OBVIOUS
<1>8. Fits(h, InSlot(R, s, in + 1))
    <2>1. 1 \in 1..Len(toSystem[s])
        BY <1>5
    <2>2. Fits(toSystem[s][1], InSlot(R, s, in + 1))
        BY <1>3, <2>1 DEF Incoming
    <2> QED BY <1>h, <1>5, <2>2
<1>x. PICK x : x = Head(todo[s])
    OBVIOUS
<1> SUFFICES todo[s] # <<>> /\ Reads(s, x, h)
    BY <1>h, <1>x
<1>9. CASE in = 0 /\ Waiting(s, R.call, R.part, out)
    <2>1. out = 1
        <3>1. out \in {0, 1}
            BY <1>9 DEF Waiting
        <3>2. u.take[s] # 0
            BY <1>2, <1>6, <1>9 DEF NothingUnasked
        <3> QED BY <1>4, <1>6, <3>1, <3>2
    <2>2. Sent(s, R.call, R.part) /\ plan[R.call] = R.op /\ R.op \in Methods
        BY <1>2, <1>9, <2>1 DEF Waiting, RoundOf, IsRound
    <2>3. todo[s] = Fetching(R.op, R.part)
        BY <2>2 DEF Sent, Methods
    <2>4. todo[s] # <<>> /\ x = Step("fetch", R.what, None, "")
        BY <1>x, <1>2, <2>3, FetchingIs DEF IsRound
    <2>5. InSlot(R, s, in + 1) = TextSlot(Instruction(R, s))
        BY <1>2, <1>9, InStream
    <2>6. h.kind = Instruction(R, s)
        <3>1. TextSlot(Instruction(R, s)).kind = Instruction(R, s)
            BY DEF TextSlot
        <3> QED BY <1>8, <2>5, <3>1 DEF Fits
    <2>7. x.do = "fetch" /\ x.what = R.what
        BY <2>4 DEF Step
    <2> QED BY <2>4, <2>6, <2>7 DEF Reads, Instruction
<1>10. CASE Inside(R, s, out, in)
    <2>1. calls[s] = R.call
        BY <1>10 DEF Inside
    <2>2. R.what = "coords" /\ (s = R.first \/ in = InEnd(R, s)) => coords[s] = <<R.first, R.call>>
        BY <1>10 DEF Inside
    <2>3. CASE todo[s] = Readying(R.op, R.part)
        <3>1. todo[s] # <<>> /\ x = SignalStep("ready")
            BY <1>x, <2>3, ReadyingIs
        <3> QED BY <3>1, SilentReads
    <2>4. CASE todo[s] = Closing(R.op, R.part)
        <3>1. todo[s] # <<>> /\ x \in {SignalStep("ready"), LocalStep("reduceMax"), LocalStep("reduceMin")}
            BY <1>x, <2>4, ClosingIs, ReadyingIs DEF ReduceStep
        <3> QED BY <3>1, SilentReads
    <2>5. ASSUME NEW z, todo[s] = z \o Closing(R.op, R.part),
                 Walk(StepEdges(R, s), z, <<out, in>>, <<OutEnd(R, s) - 1, InEnd(R, s)>>)
          PROVE  todo[s] # <<>> /\ Reads(s, x, h)
        <3>1. AnySeq(z) /\ AnySeq(Closing(R.op, R.part))
            BY <2>5, ClosingIs DEF Walk
        <3>2. CASE z = <<>>
            <4>1. todo[s] = Closing(R.op, R.part)
                BY <2>5, <3>1, <3>2, AnyEmpty
            <4> QED BY <2>4, <4>1
        <3>3. CASE z # <<>>
            <4>1. todo[s] # <<>> /\ x = Head(z)
                BY <1>x, <2>5, <3>1, <3>3, HeadOfConcat
            <4>2. PICK w : <<Head(z), <<out, in>>, w>> \in StepEdges(R, s)
                BY <2>5, <3>3, WalkHead
            <4>3. StepEdge(R, s, x, <<out, in>>, w)
                BY <4>1, <4>2, StepEdgeIs
            <4> QED BY <1>0, <1>2, <1>8, <2>1, <2>2, <4>1, <4>3, StepReads
        <3> QED BY <3>2, <3>3
    <2> QED BY <1>10, <2>3, <2>5 DEF Inside
<1>11. ~(in = InEnd(R, s))
    BY <1>4, <1>6, <1>7
<1> QED BY <1>3, <1>9, <1>10, <1>11 DEF Position

\* What the broker reads inside an operation.
LEMMA BrokerUnderstands ==
    ASSUME IInv, work # <<>>, Job1.do # "send", toManager[Job1.sys] # <<>>
    PROVE  Head(toManager[Job1.sys]).kind \in Understood(Job1)
<1>1. PICK R, u : /\ RoundOf(R) /\ IsRound(R) /\ u \in Spots /\ NothingUnasked(u)
                  /\ Walk(JobEdges(R), work, u, EndSpot(R))
                  /\ \A s \in Systems : Served(R, s, u)
    BY BusyFacts
<1>x. PICK x : x = Head(work)
    OBVIOUS
<1>s. PICK s : s = x.sys
    OBVIOUS
<1>o. PICK o : o = OtherThan(s)
    OBVIOUS
<1>t. PICK text : text = OutSlot(R, s, u.take[s] + 1).kind
    OBVIOUS
<1>2. Job1 = x /\ x.do # "send" /\ toManager[s] # <<>>
    BY <1>x, <1>s DEF Job1
<1>3. s \in Systems /\ u.take[s] + 1 <= OutEnd(R, s) /\ text \in Understood(x)
    <2>1. CASE x.do = "forward"
        <3>1. /\ s \in Systems /\ u.take[s] + 1 <= OutEnd(R, s)
              /\ OutSlot(R, s, u.take[s] + 1).kind = x.text
            BY <1>1, <1>x, <1>s, <1>o, <2>1, BrokerForwards
        <3>2. Understood(x) = {x.text}
            BY <2>1 DEF Understood
        <3> QED BY <1>t, <3>1, <3>2
    <2>2. CASE x.do # "forward"
        BY <1>1, <1>x, <1>s, <1>t, <1>2, <2>2, BrokerReceives
    <2> QED BY <2>1, <2>2
<1>4. Fits(Head(toManager[s]), OutSlot(R, s, u.take[s] + 1))
    <2>1. Base /\ Served(R, s, u)
        BY <1>1, <1>3 DEF IInv
    <2> QED BY <1>1, <1>2, <1>3, <2>1, HeadFits
<1>5. Head(toManager[s]).kind = text
    BY <1>t, <1>4 DEF Fits
<1> QED BY <1>s, <1>2, <1>3, <1>5

\* What it reads between two operations.
LEMMA RequestUnderstood ==
    ASSUME IInv, Polling, toManager[systems[next]] # <<>>
    PROVE  \/ Head(toManager[systems[next]]).kind = "finished_computation"
           \/ Head(toManager[systems[next]]).kind \in Requests /\ Len(systems) = 2
<1>s. PICK s : s = systems[next]
    OBVIOUS
<1>1. PICK k \in Nat, j \in Nat :
         /\ BrokerOK /\ Len(accepted) = 2 /\ s \in Systems
         /\ \A o \in Systems : Resting(o, k, j) \/ Gone(o, k, j)
         /\ j \in {1, 2} /\ Head(toManager[s]).kind = RequestOf(k, j)
         /\ plan[k] \in Methods \cup {"finalize"}
         /\ (plan[k] \in Methods /\ j = 2 => plan[k] = "monteCarloThirdLevel")
    BY <1>s, RequestTaken
<1>2. CASE plan[k] = "finalize"
    BY <1>s, <1>1, <1>2 DEF RequestOf
<1>3. CASE plan[k] # "finalize"
    <2>1. plan[k] \in Methods
        BY <1>1, <1>3
    <2>2. RequestOf(k, j) = RequestFor(What(plan[k], j))
        BY <1>3 DEF RequestOf
    <2>3. RequestFor(What(plan[k], j)) \in Requests
        BY <1>1, <2>1 DEF RequestFor, What, Methods, Unifying, Requests
    <2>4. \A o \in Systems : o \in ToSet(systems)
        BY <1>1, <1>3 DEF Gone, Resting
    <2>5. s \in ToSet(systems) /\ OtherThan(s) \in ToSet(systems) /\ s # OtherThan(s)
        BY <1>1, <2>4, TwoOfThem
    <2>6. OneOrTwo(systems)
        BY <1>1 DEF BrokerOK
    <2>7. Len(systems) = 2
        BY <2>5, <2>6, OneOrTwoIs
    <2> QED BY <1>s, <1>1, <2>2, <2>3, <2>7
<1> QED BY <1>2, <1>3

LEMMA Understand == ASSUME IInv PROVE MessagesUnderstood
<1>1. work # <<>> /\ Job1.do # "send" /\ toManager[Job1.sys] # <<>> =>
        Head(toManager[Job1.sys]).kind \in Understood(Job1)
    BY BrokerUnderstands
<1>2. Polling /\ toManager[systems[next]] # <<>> =>
        \/ Head(toManager[systems[next]]).kind = "finished_computation"
        \/ Head(toManager[systems[next]]).kind \in Requests /\ Len(systems) = 2
    BY RequestUnderstood
<1>3. ASSUME NEW s \in Systems, toSystem[s] # <<>>
      PROVE  LET kind == Head(toSystem[s]).kind
             IN  /\ At(s, "fetch") => kind \in IF Now(s).what = "file" THEN {"write_ok"}
                                               ELSE {"send_first", "recv_first"}
                 /\ At(s, "recvSize") => kind = "size"
                 /\ At(s, "recvBytes") => kind = "bytes"
                 /\ At(s, "recvSize") =>
                      Head(toSystem[s]).size = SizeOf(s, Now(s).what, Now(s).piece)
                 /\ At(s, "recvBytes") /\ Now(s).how = "compare" =>
                      Head(toSystem[s]).data = {coords[s]}
    <2>1. Reads(s, Head(todo[s]), Head(toSystem[s]))
        BY <1>3, SystemReads
    <2>2. PICK x : x = Head(todo[s])
        OBVIOUS
    <2>3. PICK h : h = Head(toSystem[s])
        OBVIOUS
    <2>4. Reads(s, x, h) /\ Now(s) = x
        BY <2>1, <2>2, <2>3 DEF Now
    <2> QED BY <2>3, <2>4 DEF Reads, At
<1>4. \A s \in Systems : todo[s] = <<>> => toSystem[s] = <<>>
    BY SystemReads
<1> QED BY ONLY <1>1, <1>2, <1>3, <1>4 DEF MessagesUnderstood

-----------------------------------------------------------------------------
\* It holds at the start,
LEMMA Begins ==
    ASSUME Builds \subseteq {{}, Systems}, Init
    PROVE  IInv
<1>1. /\ accepted = <<>> /\ systems = <<>> /\ next = 1 /\ work = <<>>
      /\ toManager = [s \in Systems |-> <<>>] /\ toSystem = [s \in Systems |-> <<>>]
      /\ debug \in Builds /\ plan = <<>> /\ calls = [s \in Systems |-> 0] /\ todo = [s \in Systems |-> <<>>]
      /\ spaces = SpacesOf /\ dsguSizes = [s \in Systems |-> None]
      /\ coords = [s \in Systems |-> <<s, 0>>] /\ buffer = [s \in Systems |-> {}]
    BY DEF Init
<1>2. Len(<<>>) = 0 /\ <<>> \in Seq(Methods \cup {"finalize"}) /\ AnySeq(<<>>)
    BY EmptySeq DEF AnySeq
<1>3. Len(plan) = 0 /\ plan \in Seq(Methods \cup {"finalize"})
    BY <1>1, <1>2
<1>4. Base
    <2>1. DOMAIN spaces = Systems
        BY <1>1, ThirdLevelAssumption
    <2>2. debug \in {{}, Systems}
        BY <1>1
    <2>3. calls \in [Systems -> Nat] /\ \A s \in Systems : calls[s] <= Len(plan)
        BY <1>1, <1>3
    <2>4. /\ DOMAIN toManager = Systems /\ DOMAIN toSystem = Systems /\ DOMAIN todo = Systems
          /\ DOMAIN coords = Systems /\ DOMAIN buffer = Systems /\ DOMAIN dsguSizes = Systems
        BY <1>1
    <2>5. \A s \in Systems : AnySeq(toManager[s]) /\ AnySeq(toSystem[s])
        BY <1>1, <1>2
    <2> QED BY <2>1, <2>2, <2>3, <2>4, <2>5 DEF Base
<1>5. PlanOK
    BY <1>3 DEF PlanOK
<1>6. BrokerOK
    BY <1>1, <1>2 DEF BrokerOK, OneOrTwo
<1>7. ASSUME NEW s \in Systems PROVE SizesOK(s)
    BY <1>1, <1>3 DEF SizesOK
<1>8. Idle(1, 1)
    <2>1. ASSUME NEW s \in Systems PROVE Resting(s, 1, 1)
        <3>1. calls[s] = 0 /\ todo[s] = <<>> /\ toManager[s] = <<>> /\ toSystem[s] = <<>>
            BY <1>1
        <3>2. Unsent(s, 1, 1)
            BY <3>1 DEF Unsent
        <3>3. Waiting(s, 1, 1, 0)
            BY <3>2 DEF Waiting
        <3>4. Len(accepted) # 2
            BY <1>1, <1>2
        <3> QED BY <3>1, <3>3, <3>4 DEF Resting
    <2> QED BY <1>1, <2>1 DEF Idle
<1>9. Rounds
    <2>1. 1 \in Nat
        OBVIOUS
    <2> QED BY <1>8, <2>1 DEF Rounds
<1> QED BY <1>4, <1>5, <1>6, <1>7, <1>9 DEF IInv

\* and every step keeps it.
LEMMA Continues ==
    ASSUME IInv, [Next]_vars
    PROVE  IInv'
<1>1. CASE NoMessage
    BY <1>1, NoMessageKeeps
<1>2. CASE ProcessMessage
    BY <1>2, FinishedKeeps, RequestedKeeps
<1>3. CASE Instruct
    BY <1>3, InstructKeeps
<1>4. CASE Forward
    BY <1>4, ForwardKeeps
<1>5. CASE ReceiveMessage
    BY <1>5, ReceiveKeeps
<1>6. CASE TransferFile
    BY <1>6, RestKeeps DEF TransferFile, dataVars
<1>7. ASSUME NEW s \in Systems, AcceptClient(s) PROVE IInv'
    BY <1>7, AcceptKeeps
<1>8. ASSUME NEW s \in Systems, CallMethod(s) \/ SystemStep(s) PROVE IInv'
    BY <1>8, SystemKeeps DEF SystemMoves
<1>9. CASE UNCHANGED vars
    BY <1>9, RestKeeps DEF vars, dataVars
<1> QED BY <1>1, <1>2, <1>3, <1>4, <1>5, <1>6, <1>7, <1>8, <1>9 DEF Next, Broker

-----------------------------------------------------------------------------
\* Whatever the order in which the two systems get ready, every message is taken where it is meant:
\* the broker's assertions on texts hold, its operations run with both systems connected, the systems
\* read roles, sizes and data when they wait for them, the remote data has the size of the local
\* data, and the coordinates sent back are those that were sent.  The systems are built alike, both
\* with assertions or both without.
THEOREM MessagesRight == ASSUME Builds \subseteq {{}, Systems} PROVE Spec => []MessagesUnderstood
<1>1. Init => IInv
    BY Begins
<1>2. IInv /\ [Next]_vars => IInv'
    BY Continues
<1>3. IInv => MessagesUnderstood
    BY Understand
<1> QED BY <1>1, <1>2, <1>3, PTL DEF Spec

-----------------------------------------------------------------------------
(* What the specification promises that broker and systems implement (ImplementsExchange), for any  *)
(* number of systems: nobody is more than one method ahead, and systems that have returned from the *)
(* same method have the same outcome.                                                               *)

VARIABLES joined, left

Abstract == INSTANCE ThirdLevelExchange

CallMethods == Operations \cup {"finalize"}

ExchangeTypes ==
    /\ plan \in Seq(CallMethods)
    /\ joined \in [Systems -> Nat]
    /\ left \in [Systems -> Nat]
    /\ DOMAIN result = Systems

\* A system is in at most one call, which is a call of the plan.
OneCall ==
    \A s \in Systems :
        /\ joined[s] \in {left[s], left[s] + 1}
        /\ joined[s] <= Len(plan)

\* A method, but the last one, ends after every system has called it.
Rendezvous ==
    \A s, o \in Systems :
        left[s] > 0 /\ plan[left[s]] # "finalize" => joined[o] >= left[s]

\* No system is more than one call ahead of another.
InStep == \A s, o \in Systems : joined[s] <= joined[o] + 1

\* Systems that have returned from the same call hold the same outcome.
SameOutcome ==
    \A s, o \in Systems : left[s] > 0 /\ left[s] = left[o] => result[s] = result[o]

ExchangeInv == ExchangeTypes /\ OneCall /\ Rendezvous /\ InStep /\ SameOutcome

LEMMA JoinStep ==
    ASSUME ExchangeInv, NEW s \in Systems, Abstract!Join(s)
    PROVE  ExchangeInv'
<1>1. /\ plan \in Seq(CallMethods) /\ joined \in [Systems -> Nat] /\ left \in [Systems -> Nat]
      /\ joined[s] = left[s] /\ joined' = [joined EXCEPT ![s] = @ + 1]
      /\ UNCHANGED <<left, result>>
      /\ joined[s] > 0 => plan[joined[s]] # "finalize"
  BY DEF Abstract!Join, ExchangeInv, ExchangeTypes
<1>2. /\ plan' \in Seq(CallMethods) /\ Len(plan') \in Nat /\ Len(plan) <= Len(plan')
      /\ joined[s] + 1 <= Len(plan')
      /\ \A k \in 1..Len(plan) : plan'[k] = plan[k]
  <2>1. joined[s] <= Len(plan) /\ Len(plan) \in Nat
    BY <1>1 DEF ExchangeInv, OneCall
  <2>2. CASE joined[s] < Len(plan)
    BY <1>1, <2>1, <2>2 DEF Abstract!Join
  <2>3. CASE ~(joined[s] < Len(plan))
    <3>1. PICK op \in CallMethods : plan' = Append(plan, op)
      BY <2>3 DEF Abstract!Join, CallMethods
    <3>. QED BY <1>1, <2>1, <2>3, <3>1
  <2>. QED BY <2>2, <2>3
<1>3. joined' \in [Systems -> Nat] /\ \A o \in Systems : joined'[o] >= joined[o]
  BY <1>1
<1>4. ExchangeTypes'
  BY <1>1, <1>2, <1>3 DEF ExchangeInv, ExchangeTypes
<1>5. OneCall'
  BY <1>1, <1>2 DEF ExchangeInv, OneCall
<1>6. Rendezvous'
  <2>. SUFFICES ASSUME NEW t \in Systems, NEW o \in Systems, left[t] > 0, plan'[left[t]] # "finalize"
       PROVE  joined'[o] >= left[t]
    BY <1>1 DEF Rendezvous
  <2>1. left[t] \in 1..Len(plan)
    BY <1>1 DEF ExchangeInv, OneCall
  <2>2. joined[o] >= left[t]
    BY <1>2, <2>1 DEF ExchangeInv, Rendezvous
  <2>. QED BY <1>1, <1>3, <2>2
<1>7. InStep'
  <2>1. \A o \in Systems : joined[s] <= joined[o]
    BY <1>1 DEF ExchangeInv, Rendezvous
  <2>. QED BY <1>1, <1>3, <2>1 DEF ExchangeInv, InStep
<1>8. SameOutcome'
  BY <1>1 DEF ExchangeInv, SameOutcome
<1>. QED BY <1>4, <1>5, <1>6, <1>7, <1>8 DEF ExchangeInv

LEMMA LeaveStep ==
    ASSUME ExchangeInv, NEW s \in Systems, Abstract!Leave(s)
    PROVE  ExchangeInv'
<1>1. /\ plan \in Seq(CallMethods) /\ joined \in [Systems -> Nat] /\ left \in [Systems -> Nat]
      /\ left' = [left EXCEPT ![s] = joined[s]] /\ left[s] < joined[s]
      /\ UNCHANGED <<plan, joined>>
      /\ plan[joined[s]] # "finalize" => \A o \in Systems : joined[o] >= joined[s]
  BY DEF Abstract!Leave, ExchangeInv, ExchangeTypes
<1>2. PICK x : /\ \A o \in Systems : left[o] = joined[s] => result[o] = x
               /\ result' = [result EXCEPT ![s] = x]
  BY DEF Abstract!Leave
<1>3. ExchangeTypes'
  BY <1>1, <1>2 DEF ExchangeInv, ExchangeTypes
<1>4. OneCall'
  BY <1>1 DEF ExchangeInv, OneCall
<1>5. Rendezvous'
  BY <1>1 DEF ExchangeInv, Rendezvous
<1>6. InStep'
  BY <1>1 DEF ExchangeInv, InStep
<1>7. SameOutcome'
  BY <1>1, <1>2 DEF ExchangeInv, ExchangeTypes, SameOutcome
<1>. QED BY <1>3, <1>4, <1>5, <1>6, <1>7 DEF ExchangeInv

LEMMA ExchangeInvariant == Abstract!Spec => []ExchangeInv
<1>1. Abstract!Init => ExchangeInv
  BY DEF Abstract!Init, ExchangeInv, ExchangeTypes, OneCall, Rendezvous, InStep, SameOutcome, CallMethods
<1>2. ExchangeInv /\ [Abstract!Next]_(Abstract!vars) => ExchangeInv'
  <2>. SUFFICES ASSUME ExchangeInv, [Abstract!Next]_(Abstract!vars) PROVE ExchangeInv'
    OBVIOUS
  <2>1. CASE Abstract!Next
    BY <2>1, JoinStep, LeaveStep DEF Abstract!Next
  <2>2. CASE UNCHANGED Abstract!vars
    BY <2>2 DEF Abstract!vars, ExchangeInv, ExchangeTypes, OneCall, Rendezvous, InStep, SameOutcome
  <2>. QED BY <2>1, <2>2
<1>. QED BY <1>1, <1>2, PTL DEF Abstract!Spec

\* The systems that have returned from the same method have the same outcome, and until they log off
\* none of them returns before all have called.
THEOREM OutcomesAgree == Abstract!Spec => [](SameOutcome /\ Rendezvous)
  BY ExchangeInvariant, PTL DEF ExchangeInv

\* No application is more than one method ahead of another, so what a system brings to a call cannot
\* be taken for what it brings to a later one.
THEOREM SystemsInStep == Abstract!Spec => []InStep
  BY ExchangeInvariant, PTL DEF ExchangeInv
=============================================================================
