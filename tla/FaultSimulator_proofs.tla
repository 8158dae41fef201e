------------------------ MODULE FaultSimulator_proofs ------------------------
(***************************************************************************)
(* Proofs about FaultSimulator, for communicators and trees of any size    *)
(* and any programs.                                                       *)
(***************************************************************************)
EXTENDS FaultSimulator, FiniteSetTheorems, TLAPS

-----------------------------------------------------------------------------
(* The tree *)

LEMMA LeastNumber ==
    ASSUME NEW S \in SUBSET Nat, S # {}
    PROVE  \E x \in S : \A y \in S : x <= y
<1>1. PICK x \in S : \A y \in S : ~(<<y, x>> \in OpToRel(<, Nat))
  BY NatLessThanWellFounded, WFMin
<1>2. \A y \in S : ~(y < x)
  BY <1>1 DEF OpToRel
<1>. QED BY <1>2

\* The numbers of p's successors.
Children(p) == {n \in Procs : \E k \in 0..(TreeSuccessors - 1) : n = p * TreeSuccessors + k + 1}

LEMMA SuccessorsAre == \A p \in Procs : Successors[p] = Children(p)
<1>. SUFFICES ASSUME NEW p \in Procs PROVE Successors[p] = Children(p)
  OBVIOUS
<1>1. N \in Nat /\ p \in Nat /\ p < N /\ TreeSuccessors \in Nat \ {0}
  BY SimulatorAssumption DEF Procs
<1>2. ConvertId(p - 0, N) = p
  BY <1>1 DEF ConvertId
<1>3. p * TreeSuccessors \in Nat
  BY <1>1
<1>4. \A k \in 0..(TreeSuccessors - 1) : p * TreeSuccessors + k + 1 < N =>
          ConvertId(p * TreeSuccessors + k + 1 + 0, N) = p * TreeSuccessors + k + 1
  BY <1>1, <1>3 DEF ConvertId
<1>5. Successors[p] = {ConvertId(p * TreeSuccessors + i + 1 + 0, N) :
                          i \in {j \in 0..(TreeSuccessors - 1) : p * TreeSuccessors + j + 1 < N}}
  BY <1>2 DEF Successors, Bcast_Get_Successors, Root
<1>6. Successors[p] = {p * TreeSuccessors + i + 1 :
                          i \in {j \in 0..(TreeSuccessors - 1) : p * TreeSuccessors + j + 1 < N}}
  BY <1>4, <1>5
<1>7. \A k \in 0..(TreeSuccessors - 1) : p * TreeSuccessors + k + 1 \in Procs <=> p * TreeSuccessors + k + 1 < N
  BY <1>1, <1>3 DEF Procs
<1>. QED BY <1>6, <1>7 DEF Children

\* A successor has a greater number than its predecessor, which is the only one it has.
LEMMA Upwards ==
    ASSUME NEW p \in Procs, NEW q \in Successors[p]
    PROVE  q \in Procs /\ p \in Nat /\ q \in Nat /\ p < q
<1>1. p \in Nat /\ TreeSuccessors \in Nat \ {0}
  BY SimulatorAssumption DEF Procs
<1>2. q \in Procs /\ q \in Nat
  BY SuccessorsAre, SimulatorAssumption DEF Children, Procs
<1>3. PICK k \in 0..(TreeSuccessors - 1) : q = p * TreeSuccessors + k + 1
  BY SuccessorsAre DEF Children
<1>4. p * 1 <= p * TreeSuccessors
  BY <1>1
<1>. QED BY <1>1, <1>2, <1>3, <1>4

LEMMA OnePredecessor ==
    ASSUME NEW p \in Procs, NEW r \in Procs, NEW q \in Successors[p], q \in Successors[r]
    PROVE  p = r
<1>1. p \in Nat /\ r \in Nat /\ TreeSuccessors \in Nat \ {0}
  BY SimulatorAssumption DEF Procs
<1>2. PICK k \in 0..(TreeSuccessors - 1) : q = p * TreeSuccessors + k + 1
  BY SuccessorsAre DEF Children
<1>3. PICK j \in 0..(TreeSuccessors - 1) : q = r * TreeSuccessors + j + 1
  BY SuccessorsAre DEF Children
<1>4. \A a, b \in Nat : a < b => a * TreeSuccessors + TreeSuccessors <= b * TreeSuccessors
  <2>. SUFFICES ASSUME NEW a \in Nat, NEW b \in Nat, a < b
                PROVE  a * TreeSuccessors + TreeSuccessors <= b * TreeSuccessors
    OBVIOUS
  <2>1. (a + 1) * TreeSuccessors <= b * TreeSuccessors
    BY <1>1
  <2>2. (a + 1) * TreeSuccessors = a * TreeSuccessors + TreeSuccessors
    BY <1>1
  <2>. QED BY <2>1, <2>2
<1>5. p * TreeSuccessors \in Nat /\ r * TreeSuccessors \in Nat
  BY <1>1
<1>6. ~(p < r) /\ ~(r < p)
  BY <1>1, <1>2, <1>3, <1>4, <1>5
<1>. QED BY <1>1, <1>6

LEMMA HasPredecessor ==
    ASSUME NEW q \in Procs, q # Root
    PROVE  \E p \in Procs : q \in Successors[p]
<1>. DEFINE p == (q - 1) \div TreeSuccessors
            k == (q - 1) % TreeSuccessors
<1>1. q \in Nat \ {0} /\ q < N /\ N \in Nat /\ TreeSuccessors \in Nat \ {0}
  BY SimulatorAssumption DEF Procs, Root
<1>2. q - 1 \in Nat
  BY <1>1
<1>3. p \in Nat /\ k \in 0..(TreeSuccessors - 1) /\ q - 1 = TreeSuccessors * p + k
  BY <1>1, <1>2
<1>. HIDE DEF p, k
<1>4. p * 1 <= p * TreeSuccessors /\ TreeSuccessors * p = p * TreeSuccessors
  BY <1>1, <1>3
<1>5. p \in Procs
  BY <1>1, <1>3, <1>4 DEF Procs
<1>6. q = p * TreeSuccessors + k + 1
  BY <1>1, <1>3, <1>4
<1>. QED BY <1>3, <1>5, <1>6, SuccessorsAre DEF Children

\* The processes whose parts of a reduction p forwards, and p.
Subtree(p) ==
    {q \in Procs : \A X \in SUBSET Procs :
        p \in X /\ (\A r \in X : Successors[r] \subseteq X) => q \in X}

LEMMA SubtreeLeast ==
    ASSUME NEW p \in Procs, NEW X \in SUBSET Procs, p \in X, \A r \in X : Successors[r] \subseteq X
    PROVE  Subtree(p) \subseteq X
BY DEF Subtree

LEMMA SubtreeClosed ==
    ASSUME NEW p \in Procs
    PROVE  /\ p \in Subtree(p) /\ Subtree(p) \subseteq Procs
           /\ \A q \in Subtree(p) : Successors[q] \subseteq Subtree(p)
<1>1. p \in Subtree(p) /\ Subtree(p) \subseteq Procs
  BY DEF Subtree
<1>2. ASSUME NEW q \in Subtree(p), NEW c \in Successors[q]
      PROVE  c \in Subtree(p)
  <2>1. c \in Procs
    BY <1>1, Upwards
  <2>. QED BY <2>1 DEF Subtree
<1>. QED BY <1>1, <1>2

LEMMA SubtreeSplit ==
    ASSUME NEW p \in Procs
    PROVE  Subtree(p) = {p} \cup UNION {Subtree(c) : c \in Successors[p]}
<1>. DEFINE X == {p} \cup UNION {Subtree(c) : c \in Successors[p]}
<1>1. \A c \in Successors[p] : c \in Procs
  BY Upwards
<1>2. X \subseteq Procs
  BY <1>1, SubtreeClosed
<1>3. ASSUME NEW r \in X PROVE Successors[r] \subseteq X
  <2>1. CASE r = p
    <3>1. \A c \in Successors[p] : c \in Subtree(c)
      BY <1>1, SubtreeClosed
    <3>. QED BY <2>1, <3>1
  <2>2. CASE r # p
    <3>1. PICK c \in Successors[p] : r \in Subtree(c)
      BY <2>2
    <3>2. Successors[r] \subseteq Subtree(c)
      BY <1>1, <3>1, SubtreeClosed
    <3>. QED BY <3>2
  <2>. QED BY <2>1, <2>2
<1>4. Subtree(p) \subseteq X
  <2>. HIDE DEF X
  <2>1. p \in X
    BY DEF X
  <2>. QED BY <1>2, <1>3, <2>1, SubtreeLeast
<1>5. ASSUME NEW c \in Successors[p] PROVE Subtree(c) \subseteq Subtree(p)
  <2>1. c \in Subtree(p) /\ Subtree(p) \in SUBSET Procs /\ \A r \in Subtree(p) : Successors[r] \subseteq Subtree(p)
    BY SubtreeClosed
  <2>. QED BY <1>1, <2>1, SubtreeLeast
<1>. QED BY <1>4, <1>5, SubtreeClosed

\* Above a process of a subtree, which is not its root, there is another one of the subtree.
LEMMA SubtreeAbove ==
    ASSUME NEW a \in Procs, NEW p \in Procs, NEW q \in Successors[p], q \in Subtree(a), q # a
    PROVE  p \in Subtree(a)
<1>. SUFFICES ASSUME p \notin Subtree(a) PROVE FALSE
  OBVIOUS
<1>. DEFINE X == Subtree(a) \ {q}
<1>1. X \subseteq Procs /\ a \in X
  BY SubtreeClosed
<1>2. ASSUME NEW r \in X PROVE Successors[r] \subseteq X
  <2>1. Successors[r] \subseteq Subtree(a) /\ r \in Procs
    BY SubtreeClosed
  <2>2. q \notin Successors[r]
    BY <2>1, OnePredecessor
  <2>. QED BY <2>1, <2>2
<1>3. Subtree(a) \subseteq X
  <2>. HIDE DEF X
  <2>. QED BY <1>1, <1>2, SubtreeLeast
<1>. QED BY <1>3

LEMMA SubtreeBelow ==
    ASSUME NEW a \in Procs, NEW q \in Subtree(a)
    PROVE  q \in Nat /\ a \in Nat /\ a <= q
<1>. DEFINE X == {r \in Procs : a <= r}
<1>1. Procs \subseteq Nat
  BY SimulatorAssumption DEF Procs
<1>2. ASSUME NEW r \in X PROVE Successors[r] \subseteq X
  <2>1. \A c \in Successors[r] : c \in Procs /\ r < c /\ c \in Nat /\ r \in Nat
    BY Upwards
  <2>. QED BY <1>1, <2>1
<1>3. Subtree(a) \subseteq X
  <2>1. a \in X /\ X \subseteq Procs
    BY <1>1
  <2>. HIDE DEF X
  <2>. QED BY <1>2, <2>1, SubtreeLeast
<1>. QED BY <1>1, <1>3

LEMMA SubtreeRoot == Root \in Procs /\ Subtree(Root) = Procs
<1>1. Root \in Procs /\ Procs \subseteq Nat
  BY SimulatorAssumption DEF Procs, Root
<1>. DEFINE S == Procs \ Subtree(Root)
<1>2. ASSUME S # {} PROVE FALSE
  <2>1. PICK x \in S : \A y \in S : x <= y
    BY <1>1, <1>2, LeastNumber
  <2>2. x # Root
    BY <1>1, SubtreeClosed
  <2>3. PICK p \in Procs : x \in Successors[p]
    BY <2>2, HasPredecessor
  <2>4. p \notin S
    BY <1>1, <2>1, <2>3, Upwards
  <2>5. p \in Subtree(Root)
    BY <2>4
  <2>. QED BY <1>1, <2>3, <2>5, SubtreeClosed
<1>. QED BY <1>1, <1>2, SubtreeClosed

LEMMA SubtreesDisjoint ==
    ASSUME NEW p \in Procs, NEW a \in Successors[p], NEW b \in Successors[p], a # b
    PROVE  Subtree(a) \cap Subtree(b) = {}
<1>. DEFINE S == Subtree(a) \cap Subtree(b)
<1>1. a \in Procs /\ b \in Procs /\ p < a /\ p < b /\ p \in Nat /\ a \in Nat /\ b \in Nat
  BY Upwards
<1>2. S \subseteq Nat /\ S \subseteq Procs
  BY <1>1, SubtreeBelow, SubtreeClosed
<1>3. p \notin Subtree(a) /\ p \notin Subtree(b)
  BY <1>1, SubtreeBelow
<1>4. ASSUME S # {} PROVE FALSE
  <2>1. PICK r \in S : \A y \in S : r <= y
    BY <1>2, <1>4, LeastNumber
  <2>2. r # a
    BY <1>1, <1>3, SubtreeAbove
  <2>3. r # b
    BY <1>1, <1>3, SubtreeAbove
  <2>4. r \in Procs /\ r # Root
    BY <1>1, <1>2, <2>1, SubtreeBelow DEF Root
  <2>5. PICK s \in Procs : r \in Successors[s]
    BY <2>4, HasPredecessor
  <2>6. s \in Subtree(a)
    BY <1>1, <2>2, <2>5, SubtreeAbove
  <2>7. s \in Subtree(b)
    BY <1>1, <2>3, <2>5, SubtreeAbove
  <2>8. s < r /\ s \in Nat /\ r \in Nat
    BY <2>5, Upwards
  <2>. QED BY <2>1, <2>6, <2>7, <2>8
<1>. QED BY <1>4

\* How many processes of D are below the successors in J.
Below(D, J) == D \cap UNION {Subtree(c) : c \in J}

LEMMA ProcsFinite == \A D \in SUBSET Procs : IsFiniteSet(D) /\ Cardinality(D) \in Nat
<1>1. IsFiniteSet(Procs)
  BY SimulatorAssumption, FS_Interval DEF Procs
<1>. QED BY <1>1, FS_Subset, FS_CardinalityType

LEMMA CountJoined ==
    ASSUME NEW D \in SUBSET Procs, NEW p \in Procs, NEW q \in Successors[p],
           NEW J \in SUBSET (Successors[p] \ {q})
    PROVE  /\ Cardinality(Below(D, J)) \in Nat /\ Cardinality(D \cap Subtree(q)) \in Nat
           /\ Cardinality(Below(D, J \cup {q})) = Cardinality(D \cap Subtree(q)) + Cardinality(Below(D, J))
<1>. DEFINE S == D \cap Subtree(q)
            T == Below(D, J)
<1>1. S \in SUBSET Procs /\ T \in SUBSET Procs
  BY DEF Below
<1>2. Below(D, J \cup {q}) = S \cup T
  BY DEF Below
<1>3. S \cap T = {}
  BY SubtreesDisjoint DEF Below
<1>. HIDE DEF S, T
<1>4. Cardinality(S \cup T) = Cardinality(S) + Cardinality(T) - Cardinality(S \cap T)
  BY <1>1, ProcsFinite, FS_Union
<1>5. Cardinality(S \cap T) = 0
  BY <1>3, FS_EmptySet
<1>6. Cardinality(S) \in Nat /\ Cardinality(T) \in Nat
  BY <1>1, ProcsFinite
<1>7. Cardinality(S \cup T) = Cardinality(S) + Cardinality(T)
  BY <1>4, <1>5, <1>6
<1>. QED BY <1>2, <1>6, <1>7 DEF S, T

LEMMA CountSelf ==
    ASSUME NEW D \in SUBSET Procs, NEW p \in Procs
    PROVE  /\ Cardinality(Below(D, Successors[p])) \in Nat
           /\ Cardinality(D \cap Subtree(p)) =
                Cardinality(Below(D, Successors[p])) + IF p \in D THEN 1 ELSE 0
<1>. DEFINE T == Below(D, Successors[p])
<1>1. T \in SUBSET Procs
  BY DEF Below
<1>2. p \notin T
  <2>1. \A c \in Successors[p] : p \notin Subtree(c)
    BY Upwards, SubtreeBelow
  <2>. QED BY <2>1 DEF Below
<1>3. D \cap Subtree(p) = IF p \in D THEN T \cup {p} ELSE T
  BY SubtreeSplit DEF Below
<1>4. Cardinality(T \cup {p}) = Cardinality(T) + 1
  <2>. HIDE DEF T
  <2>. QED BY <1>1, <1>2, ProcsFinite, FS_AddElement
<1>5. Cardinality(T) \in Nat
  BY <1>1, ProcsFinite
<1>. QED BY <1>3, <1>4, <1>5

-----------------------------------------------------------------------------
(* Types *)

NextOps == {"Default", "Shrink", "Comm_free", "Finalize"}
AliveLabels == {"idle", "check", "reduce", "collect", "bcast", "real", "returned", "nbc",
                "send", "recv", "recvReal", "test"}
Labels == AliveLabels \cup {"dead", "Shrink", "Comm_free", "Finalize", "exited"}
Texts == {"I_AM_ALIVE", "I_AM_ALIVE_NB", "I_AM_DEAD", "COMM_IS_REVOKED"}

Vectors == [dead : Nat, nbc : Nat \cup {None}, rank : Procs, op : NextOps]
DeadMessages == [op : NextOps \cup {"RevokedComm"}, dead : SUBSET Procs, nbc : Nat \cup {None}]
Comms == [comm_revoked : BOOLEAN, dead_nodes : SUBSET Procs, dead_set : SUBSET Procs,
          Recent_Icollectives : Nat, received : SUBSET Procs, vector : Vectors,
          Ireduce_Active : BOOLEAN, tag : Tags, completed : BOOLEAN]
Roots == [Dead_Processes_Root : SUBSET Procs, recent : SUBSET Procs, Last_Send_Vector : Vectors \cup {None}]
\* A root whose check was cancelled by a revocation asks the rank it finds in an unset vector.
Nets == [reduce : [Tags -> [Procs -> Seq(Vectors)]],
         bcast : [Tags -> [Procs -> Seq(DeadMessages)]],
         nbcBcast : [Procs -> Seq(SUBSET Procs)],
         revokeBcast : [Procs -> Seq({"revoke"})],
         dead : SUBSET Procs, revoke : Int,
         nbcRequest : SUBSET (Procs \cup {None.rank}), nbcResponse : Nat \cup {None},
         p2p : [Procs \X Procs -> Seq(Texts)],
         data : [Procs \X Procs -> Int]]

Types ==
    /\ program \in Programs
    /\ at \in [Procs -> Nat \ {0}]
    /\ sync \in [Procs -> 0..2]
    /\ pc \in [Procs -> Labels]
    /\ alive \in [Procs -> BOOLEAN]
    /\ comm \in [Procs -> Comms]
    /\ root \in Roots
    /\ net \in Nets
    /\ outcome \in [Procs -> Seq((SUBSET Procs) \cup {Revoked})]

\* Where processes are: the dead in their loop, the others in an operation of their program.
PlaceOf(p) ==
    /\ alive[p] => pc[p] \in AliveLabels \cup {"exited"}
    /\ ~alive[p] => pc[p] \in {"dead", "Shrink", "Comm_free", "Finalize", "exited"}
    /\ pc[p] = "collect" => p = Root
    /\ pc[p] = "bcast" => p # Root
    /\ pc[p] \in AliveLabels \ {"idle"} => at[p] \in 1..Len(program.ops)
    /\ pc[p] \in {"send", "recv", "recvReal", "test"} => program.ops[at[p]].op \in PointToPoint
    /\ comm[p].Ireduce_Active =>
          ~alive[p] /\ pc[p] = "dead" /\ comm[p].received = {} /\ comm[p].vector.dead = 0
    /\ comm[p].received \subseteq Successors[p]
Places == \A p \in Procs : PlaceOf(p)

TypeInv == Types /\ Places

LEMMA InitTypes == Init => TypeInv
<1>. SUFFICES ASSUME Init PROVE TypeInv
  OBVIOUS
<1>1. \A p \in Procs : Send_Vector(p, 0, "Default") \in Vectors
  BY DEF Send_Vector, Vectors, NextOps
<1>2. comm \in [Procs -> Comms]
  <2>1. \A p \in Procs : [comm_revoked |-> FALSE, dead_nodes |-> {}, dead_set |-> {},
                 Recent_Icollectives |-> 0, received |-> {}, vector |-> Send_Vector(p, 0, "Default"),
                 Ireduce_Active |-> FALSE, tag |-> Normal, completed |-> FALSE] \in Comms
    BY <1>1 DEF Comms, Tags
  <2>. QED BY <2>1 DEF Init
<1>3. net \in Nets
  BY DEF Init, Nets, Tags
<1>4. root \in Roots
  BY DEF Init, Roots
<1>5. Types
  <2>1. /\ program \in Programs /\ at = [p \in Procs |-> 1] /\ sync = [p \in Procs |-> 0]
        /\ pc = [p \in Procs |-> "idle"] /\ alive = [p \in Procs |-> TRUE]
        /\ outcome = [p \in Procs |-> <<>>]
    BY DEF Init
  <2>. QED BY <1>2, <1>3, <1>4, <2>1 DEF Types, Labels, AliveLabels
<1>6. Places
  BY DEF Init, Places, PlaceOf, AliveLabels, PointToPoint
<1>. QED BY <1>5, <1>6 DEF TypeInv

LEMMA ForwardType ==
    ASSUME NEW S, NEW c \in [Procs -> Seq(S)], NEW p \in Procs, NEW m \in S
    PROVE  ToSuccessors(c, p, m) \in [Procs -> Seq(S)]
BY DEF ToSuccessors

LEMMA PassOnType ==
    ASSUME NEW S, NEW c \in [Procs -> Seq(S)], NEW p \in Procs, c[p] # <<>>
    PROVE  /\ Head(c[p]) \in S /\ Tail(c[p]) \in Seq(S)
           /\ Sim_FT_Custom_Ibcast_NRoot(c, p) \in [Procs -> Seq(S)]
<1>. DEFINE m == Head(c[p])
            rest == [c EXCEPT ![p] = Tail(c[p])]
<1>1. m \in S /\ Tail(c[p]) \in Seq(S) /\ rest \in [Procs -> Seq(S)]
  OBVIOUS
<1>. HIDE DEF m, rest
<1>2. ToSuccessors(rest, p, m) \in [Procs -> Seq(S)]
  BY <1>1, ForwardType
<1>. QED BY <1>1, <1>2 DEF Sim_FT_Custom_Ibcast_NRoot, m, rest

\* What a step leaves of p's part in the reductions.
SamePart(p) ==
    /\ comm'[p].Ireduce_Active = comm[p].Ireduce_Active
    /\ comm'[p].received = comm[p].received
    /\ comm'[p].vector.dead = comm[p].vector.dead
    /\ comm'[p].tag = comm[p].tag

LEMMA OthersStay ==
    ASSUME TypeInv, Types', program' = program, NEW p \in Procs, PlaceOf(p)',
           \A q \in Procs \ {p} : at'[q] = at[q] /\ pc'[q] = pc[q] /\ alive'[q] = alive[q] /\ SamePart(q)
    PROVE  TypeInv'
BY DEF TypeInv, Places, PlaceOf, SamePart

LEMMA OptionType ==
    ASSUME TypeInv, NEW p \in Procs, pc[p] \in AliveLabels \ {"idle"}
    PROVE  /\ Op(p).op \in Ops /\ Option(p) \in NextOps
           /\ Op(p).op \in PointToPoint => Op(p).from \in Procs /\ Op(p).to \in Procs
<1>1. program \in Programs /\ at[p] \in 1..Len(program.ops)
  BY DEF TypeInv, Types, Places, PlaceOf
<1>2. Op(p).op \in Ops /\ (Op(p).op \in PointToPoint => {Op(p).from, Op(p).to} \subseteq Procs)
  BY <1>1, ProgramsAssumption DEF Op
<1>3. Option(p) \in NextOps
  BY <1>2 DEF Option, NextOp, NextOps
<1>. QED BY <1>2, <1>3

LEMMA ReduceOpType ==
    ASSUME NEW a \in Vectors, NEW b \in Vectors
    PROVE  /\ customReduceOp(a, b) \in Vectors
           /\ customReduceOp(a, b).dead = a.dead + b.dead
<1>1. /\ a.dead \in Nat /\ a.nbc \in Nat \cup {None} /\ a.rank \in Procs /\ a.op \in NextOps
      /\ b.dead \in Nat /\ b.nbc \in Nat \cup {None} /\ b.rank \in Procs /\ b.op \in NextOps
  BY DEF Vectors
<1>. DEFINE n == IF b.nbc < a.nbc THEN a.nbc ELSE b.nbc
            r == IF b.nbc < a.nbc THEN a.rank ELSE b.rank
            o == IF b.op = "Default" THEN a.op ELSE b.op
<1>2. n \in Nat \cup {None} /\ r \in Procs /\ o \in NextOps /\ a.dead + b.dead \in Nat
  BY <1>1
<1>3. customReduceOp(a, b) = [dead |-> a.dead + b.dead, nbc |-> n, rank |-> r, op |-> o]
  BY DEF customReduceOp
<1>. HIDE DEF n, r, o
<1>. QED BY <1>2, <1>3 DEF Vectors

LEMMA ReceiveReduceTypes ==
    ASSUME TypeInv, NEW p \in Procs, NEW q \in Procs, ReceiveReduce(p, q)
    PROVE  TypeInv'
<1>. DEFINE tag == comm[p].tag
            rest == [net.reduce EXCEPT ![tag][q] = Tail(@)]
            part == Head(net.reduce[tag][q])
            sum == customReduceOp(part, comm[p].vector)
            joined == comm[p].received \cup {q}
<1>1. /\ UNCHANGED <<program, at, sync, pc, alive, root, outcome>>
      /\ pc[p] = "reduce" \/ (pc[p] = "dead" /\ ~comm[p].Ireduce_Active)
      /\ q \in Successors[p] /\ net.reduce[tag][q] # <<>>
      /\ comm' = [comm EXCEPT ![p].vector = sum, ![p].received = joined]
      /\ net' = [net EXCEPT !.reduce = rest]
  BY DEF ReceiveReduce
<1>2. tag \in Tags /\ comm[p].vector \in Vectors /\ net.reduce[tag][q] \in Seq(Vectors)
  BY SMTT(30) DEF TypeInv, Types, Comms, Nets
<1>3. part \in Vectors
  BY <1>1, <1>2
<1>4. sum \in Vectors
  BY <1>2, <1>3, ReduceOpType
<1>5. rest \in [Tags -> [Procs -> Seq(Vectors)]]
  BY <1>2, <1>1 DEF TypeInv, Types, Nets
<1>. HIDE DEF tag, rest, part, sum, joined
<1>6. net' \in Nets
  BY <1>1, <1>5 DEF TypeInv, Types, Nets
<1>7. comm' \in [Procs -> Comms]
  <2>1. comm[p] \in Comms /\ joined \in SUBSET Procs
    BY DEF TypeInv, Types, Comms, joined
  <2>2. [comm[p] EXCEPT !.vector = sum, !.received = joined] \in Comms
    BY <1>4, <2>1 DEF Comms
  <2>. QED BY <1>1, <2>2 DEF TypeInv, Types
<1>8. Types'
  BY <1>1, <1>6, <1>7 DEF TypeInv, Types
<1>9. PlaceOf(p)'
  BY <1>1 DEF TypeInv, Types, Comms, Places, PlaceOf, joined
<1>. QED BY <1>1, <1>8, <1>9, OthersStay DEF TypeInv, Types, Comms, SamePart

\* What Done and Return do to the program of p.
LEMMA DoneFacts ==
    ASSUME Types, NEW p \in Procs, Done(p)
    PROVE  /\ at' \in [Procs -> Nat \ {0}] /\ sync' \in [Procs -> 0..2] /\ pc' \in [Procs -> Labels]
           /\ pc'[p] = "idle"
           /\ \A q \in Procs \ {p} : at'[q] = at[q] /\ pc'[q] = pc[q]
BY DEF Types, Done, Goto, Labels, AliveLabels

LEMMA ReturnFacts ==
    ASSUME Types, NEW p \in Procs, NEW o \in (SUBSET Procs) \cup {Revoked}, Return(p, o)
    PROVE  /\ at' \in [Procs -> Nat \ {0}] /\ sync' \in [Procs -> 0..2] /\ pc' \in [Procs -> Labels]
           /\ outcome' = [outcome EXCEPT ![p] = Append(outcome[p], o)]
           /\ outcome' \in [Procs -> Seq((SUBSET Procs) \cup {Revoked})]
           /\ pc'[p] \in {"idle", "real", "returned"} /\ (pc'[p] # "idle" => at'[p] = at[p])
           /\ \A q \in Procs \ {p} : at'[q] = at[q] /\ pc'[q] = pc[q]
<1>1. outcome' = [outcome EXCEPT ![p] = Append(outcome[p], o)]
  BY DEF Return
<1>2. outcome' \in [Procs -> Seq((SUBSET Procs) \cup {Revoked})]
  BY <1>1 DEF Types
<1>3. CASE Done(p)
  BY <1>1, <1>2, <1>3, DoneFacts
<1>4. CASE ~Done(p)
  <2>1. /\ UNCHANGED <<at, sync>>
        /\ \E l \in {"real", "returned"} : pc' = [pc EXCEPT ![p] = l]
    BY <1>4 DEF Return, Goto
  <2>. QED BY <1>1, <1>2, <2>1 DEF Types, Labels, AliveLabels
<1>. QED BY <1>3, <1>4

\* A step of p that leaves communicator, messages and the others alone.
LEMMA ProgramTypes ==
    ASSUME TypeInv, NEW p \in Procs, alive[p],
           Skip(p) \/ CallCollective(p) \/ CheckRevoked(p) \/ SecondCheck(p)
    PROVE  TypeInv'
<1>1. UNCHANGED <<program, alive, comm, root, net>>
  BY DEF Skip, CallCollective, CheckRevoked, SecondCheck
<1>2. ~comm[p].Ireduce_Active /\ comm[p].received \subseteq Successors[p]
  BY DEF TypeInv, Places, PlaceOf
<1>3. CASE Skip(p)
  <2>1. Done(p) /\ outcome' = outcome
    BY <1>3 DEF Skip
  <2>2. Types'
    BY <1>1, <2>1, DoneFacts DEF TypeInv, Types
  <2>3. PlaceOf(p)'
    BY <1>1, <1>2, <2>1, DoneFacts DEF TypeInv, PlaceOf, AliveLabels
  <2>. QED BY <1>1, <2>1, <2>2, <2>3, DoneFacts, OthersStay DEF TypeInv, SamePart
<1>4. CASE CheckRevoked(p)
  <2>1. Return(p, Revoked) /\ pc[p] = "check" /\ Revoked \in (SUBSET Procs) \cup {Revoked}
    BY <1>4 DEF CheckRevoked
  <2>2. at[p] \in 1..Len(program.ops)
    BY <2>1 DEF TypeInv, Places, PlaceOf, AliveLabels
  <2>3. Types'
    BY <1>1, <2>1, ReturnFacts DEF TypeInv, Types
  <2>4. PlaceOf(p)'
    BY <1>1, <1>2, <2>1, <2>2, ReturnFacts DEF TypeInv, PlaceOf, AliveLabels
  <2>. QED BY <1>1, <2>1, <2>3, <2>4, ReturnFacts, OthersStay DEF TypeInv, SamePart
<1>5. CASE CallCollective(p) \/ SecondCheck(p)
  <2>1. /\ \E n \in 1..2 : sync' = [sync EXCEPT ![p] = n]
        /\ pc' = [pc EXCEPT ![p] = "check"] /\ UNCHANGED <<at, outcome>>
    BY <1>5 DEF CallCollective, SecondCheck, Goto
  <2>2. at[p] \in 1..Len(program.ops)
    <3>1. program \in Programs /\ at[p] \in Nat \ {0}
      BY DEF TypeInv, Types
    <3>2. Len(program.ops) \in Nat
      BY <3>1, ProgramsAssumption
    <3>3. at[p] <= Len(program.ops) \/ pc[p] \in {"returned", "nbc"}
      BY <1>5 DEF CallCollective, Begin, SecondCheck
    <3>. QED BY <3>1, <3>2, <3>3 DEF TypeInv, Places, PlaceOf, AliveLabels
  <2>3. Types'
    BY <1>1, <2>1 DEF TypeInv, Types, Labels, AliveLabels
  <2>4. PlaceOf(p)'
    BY <1>1, <1>2, <2>1, <2>2 DEF TypeInv, Types, PlaceOf, AliveLabels
  <2>. QED BY <1>1, <2>1, <2>3, <2>4, OthersStay DEF TypeInv, SamePart, Types
<1>. QED BY <1>3, <1>4, <1>5

\* A step of p in its operation.
LEMMA AtInRange ==
    ASSUME TypeInv, NEW p \in Procs, at[p] <= Len(program.ops)
    PROVE  at[p] \in 1..Len(program.ops) /\ program.ops[at[p]].op \in Ops
<1>1. program \in Programs /\ at[p] \in Nat \ {0}
  BY DEF TypeInv, Types
<1>2. Len(program.ops) \in Nat
  BY <1>1, ProgramsAssumption
<1>3. at[p] \in 1..Len(program.ops)
  BY <1>1, <1>2
<1>. QED BY <1>1, <1>3, ProgramsAssumption

\* Handling a message of the layer moves no process.
LEMMA QuietTypes ==
    ASSUME TypeInv, UNCHANGED <<program, at, sync, pc, alive, outcome>>,
           comm' \in [Procs -> Comms], root' \in Roots, net' \in Nets, \A q \in Procs : SamePart(q)
    PROVE  TypeInv'
BY DEF TypeInv, Types, Places, PlaceOf, SamePart

\* A step that changes no more than the dead_set of p, to S.
NewKnown(p, S) ==
    /\ comm' \in [Procs -> Comms]
    /\ \A q \in Procs : /\ SamePart(q)
                        /\ comm'[q].dead_nodes = comm[q].dead_nodes
                        /\ comm'[q].comm_revoked = comm[q].comm_revoked
                        /\ comm'[q].dead_set = IF q = p THEN S ELSE comm[q].dead_set

LEMMA NewDeadSet ==
    ASSUME Types, NEW p \in Procs, NEW S \in SUBSET Procs, comm' = [comm EXCEPT ![p].dead_set = S]
    PROVE  NewKnown(p, S)
<1>. DEFINE c == [comm[p] EXCEPT !.dead_set = S]
<1>1. comm \in [Procs -> Comms] /\ comm[p] \in Comms
  BY DEF Types
<1>2. /\ c \in Comms
      /\ c.Ireduce_Active = comm[p].Ireduce_Active /\ c.received = comm[p].received
      /\ c.vector = comm[p].vector /\ c.dead_nodes = comm[p].dead_nodes
      /\ c.comm_revoked = comm[p].comm_revoked /\ c.tag = comm[p].tag /\ c.dead_set = S
  BY <1>1 DEF Comms
<1>3. comm' = [comm EXCEPT ![p] = c]
  OBVIOUS
<1>. HIDE DEF c
<1>. QED BY <1>1, <1>2, <1>3 DEF SamePart, NewKnown

\* What the steps of the background operations change.
SameTree == net'.reduce = net.reduce /\ net'.bcast = net.bcast
SameRevoke == net'.revoke = net.revoke /\ net'.revokeBcast = net.revokeBcast
Stays == UNCHANGED <<program, at, sync, pc, alive, outcome>>

LEMMA ReceiveDeadMsgsFacts ==
    ASSUME Types, Sim_FT_Receive_dead_msgs_root
    PROVE  /\ Stays /\ SameTree /\ SameRevoke
           /\ net' \in Nets /\ net'.nbcBcast = net.nbcBcast /\ net'.p2p = net.p2p
           /\ root' \in Roots /\ root'.Last_Send_Vector = root.Last_Send_Vector
           /\ \E d \in net.dead :
                /\ d \in Procs
                /\ net'.dead = net.dead \ {d}
                /\ root'.Dead_Processes_Root = root.Dead_Processes_Root \cup {d}
                /\ root'.recent = root.recent \cup {d}
                /\ NewKnown(Root, comm[Root].dead_set \cup {d})
<1>1. PICK d \in net.dead :
        /\ net' = [net EXCEPT !.dead = net.dead \ {d}]
        /\ root' = [root EXCEPT !.Dead_Processes_Root = root.Dead_Processes_Root \cup {d},
                                !.recent = root.recent \cup {d}]
        /\ comm' = [comm EXCEPT ![Root].dead_set = comm[Root].dead_set \cup {d}]
        /\ UNCHANGED <<program, at, sync, pc, alive, outcome>>
  BY DEF Sim_FT_Receive_dead_msgs_root
<1>. DEFINE left == net.dead \ {d}
<1>2. net \in Nets /\ root \in Roots /\ comm \in [Procs -> Comms]
  BY DEF Types
<1>3. d \in Procs /\ left \in SUBSET Procs
  BY <1>2 DEF Nets
<1>4. NewKnown(Root, comm[Root].dead_set \cup {d})
  <2>1. comm[Root].dead_set \cup {d} \in SUBSET Procs
    BY <1>2, <1>3, SubtreeRoot DEF Comms
  <2>. QED BY <1>1, <2>1, SubtreeRoot, NewDeadSet
<1>5. /\ root' \in Roots /\ root'.Last_Send_Vector = root.Last_Send_Vector
      /\ root'.Dead_Processes_Root = root.Dead_Processes_Root \cup {d}
      /\ root'.recent = root.recent \cup {d}
  BY <1>1, <1>2, <1>3 DEF Roots
<1>6. net' = [net EXCEPT !.dead = left]
  BY <1>1
<1>. HIDE DEF left
<1>7. net' \in Nets
  BY <1>2, <1>3, <1>6 DEF Nets
<1>8. /\ net'.dead = left /\ net'.nbcBcast = net.nbcBcast /\ net'.p2p = net.p2p /\ SameTree /\ SameRevoke
  BY <1>2, <1>6 DEF Nets, SameTree, SameRevoke
<1>. QED BY <1>1, <1>3, <1>4, <1>5, <1>7, <1>8 DEF Stays, left

LEMMA NbcBcastRootFacts ==
    ASSUME Types, Sim_FT_NBC_bcast_root
    PROVE  /\ Stays /\ SameTree /\ SameRevoke /\ comm' = comm
           /\ net' \in Nets /\ net'.dead = net.dead /\ net'.p2p = net.p2p
           /\ net'.nbcBcast = ToSuccessors(net.nbcBcast, Root, root.recent)
           /\ root' \in Roots /\ root'.Last_Send_Vector = root.Last_Send_Vector
           /\ root'.Dead_Processes_Root = root.Dead_Processes_Root /\ root'.recent = {}
<1>. DEFINE sent == ToSuccessors(net.nbcBcast, Root, root.recent)
<1>1. /\ net' = [net EXCEPT !.nbcBcast = sent]
      /\ root' = [root EXCEPT !.recent = {}]
      /\ UNCHANGED <<program, at, sync, pc, alive, comm, outcome>>
  BY DEF Sim_FT_NBC_bcast_root
<1>2. net \in Nets /\ root \in Roots
  BY DEF Types
<1>3. sent \in [Procs -> Seq(SUBSET Procs)]
  <2>1. net.nbcBcast \in [Procs -> Seq(SUBSET Procs)] /\ root.recent \in SUBSET Procs
    BY <1>2 DEF Nets, Roots
  <2>. QED BY <2>1, SubtreeRoot, ForwardType
<1>. HIDE DEF sent
<1>4. net' \in Nets /\ net'.nbcBcast = sent
  BY <1>1, <1>2, <1>3 DEF Nets
<1>5. net'.dead = net.dead /\ net'.p2p = net.p2p /\ SameTree /\ SameRevoke
  BY <1>1, <1>2 DEF Nets, SameTree, SameRevoke
<1>6. /\ root' \in Roots /\ root'.Last_Send_Vector = root.Last_Send_Vector
      /\ root'.Dead_Processes_Root = root.Dead_Processes_Root /\ root'.recent = {}
  BY <1>1, <1>2 DEF Roots
<1>. QED BY <1>1, <1>4, <1>5, <1>6 DEF Stays, sent

LEMMA NbcBcastFacts ==
    ASSUME Types, NEW p \in Procs, Sim_FT_NBC_bcast_Nroot(p)
    PROVE  /\ Stays /\ SameTree /\ SameRevoke /\ root' = root
           /\ net.nbcBcast[p] # <<>>
           /\ InOrder => net.bcast[Normal][p] = <<>>
           /\ net' \in Nets /\ net'.dead = net.dead /\ net'.p2p = net.p2p
           /\ net'.nbcBcast = Sim_FT_Custom_Ibcast_NRoot(net.nbcBcast, p)
           /\ NewKnown(p, comm[p].dead_set \cup Head(net.nbcBcast[p]))
<1>. DEFINE sent == Sim_FT_Custom_Ibcast_NRoot(net.nbcBcast, p)
            known == comm[p].dead_set \cup Head(net.nbcBcast[p])
<1>1. /\ net' = [net EXCEPT !.nbcBcast = sent]
      /\ comm' = [comm EXCEPT ![p].dead_set = known]
      /\ UNCHANGED <<program, at, sync, pc, alive, root, outcome>>
      /\ net.nbcBcast[p] # <<>>
      /\ InOrder => net.bcast[Normal][p] = <<>>
  BY DEF Sim_FT_NBC_bcast_Nroot
<1>2. net \in Nets /\ comm[p] \in Comms
  BY DEF Types
<1>3. sent \in [Procs -> Seq(SUBSET Procs)] /\ known \in SUBSET Procs
  <2>1. net.nbcBcast \in [Procs -> Seq(SUBSET Procs)] /\ comm[p].dead_set \in SUBSET Procs
    BY <1>2 DEF Nets, Comms
  <2>. QED BY <1>1, <2>1, PassOnType
<1>. HIDE DEF sent, known
<1>4. net' \in Nets /\ net'.nbcBcast = sent
  BY <1>1, <1>2, <1>3 DEF Nets
<1>5. net'.dead = net.dead /\ net'.p2p = net.p2p /\ SameTree /\ SameRevoke
  BY <1>1, <1>2 DEF Nets, SameTree, SameRevoke
<1>6. NewKnown(p, known)
  BY <1>1, <1>3, NewDeadSet
<1>. QED BY <1>1, <1>4, <1>5, <1>6 DEF Stays, sent, known

\* A step that changes messages which are not the tree's and say nothing of the dead.
OtherMessages == SameTree /\ net'.dead = net.dead /\ net'.nbcBcast = net.nbcBcast

LEMMA AnswerNbcFacts ==
    ASSUME Types, NEW p \in Procs, AnswerNbcRequest(p)
    PROVE  /\ Stays /\ OtherMessages /\ SameRevoke /\ comm' = comm /\ root' = root
           /\ net' \in Nets /\ net'.p2p = net.p2p
<1>. DEFINE left == net.nbcRequest \ {p}
            own == comm[p].Recent_Icollectives
<1>1. /\ net' = [net EXCEPT !.nbcRequest = left, !.nbcResponse = own]
      /\ UNCHANGED <<program, at, sync, pc, alive, comm, root, outcome>>
  BY DEF AnswerNbcRequest
<1>2. net \in Nets /\ comm[p] \in Comms
  BY DEF Types
<1>3. left \in SUBSET (Procs \cup {None.rank}) /\ own \in Nat \cup {None}
  BY <1>2 DEF Nets, Comms
<1>. HIDE DEF left, own
<1>4. net' \in Nets
  BY <1>1, <1>2, <1>3 DEF Nets
<1>5. OtherMessages /\ SameRevoke /\ net'.p2p = net.p2p
  BY <1>1, <1>2 DEF Nets, OtherMessages, SameTree, SameRevoke
<1>. QED BY <1>1, <1>4, <1>5 DEF Stays

LEMMA CheckCommRevokedFacts ==
    ASSUME Types, NEW p \in Procs, Sim_FT_Check_comm_revoked(p)
    PROVE  /\ Stays /\ OtherMessages /\ root' = root /\ net' \in Nets /\ net'.p2p = net.p2p
           /\ comm' \in [Procs -> Comms] /\ \A q \in Procs : SamePart(q)
           /\ comm'[p].comm_revoked
<1>. DEFINE c == [comm[p] EXCEPT !.comm_revoked = TRUE]
<1>1. /\ comm' = [comm EXCEPT ![p] = c]
      /\ UNCHANGED <<program, at, sync, pc, alive, root, outcome>>
  BY DEF Sim_FT_Check_comm_revoked
<1>2. net \in Nets /\ comm \in [Procs -> Comms] /\ comm[p] \in Comms
  BY DEF Types
<1>3. /\ c \in Comms /\ c.comm_revoked
      /\ c.Ireduce_Active = comm[p].Ireduce_Active /\ c.received = comm[p].received
      /\ c.vector = comm[p].vector /\ c.tag = comm[p].tag
  BY <1>2 DEF Comms
<1>. HIDE DEF c
<1>4. comm' \in [Procs -> Comms] /\ (\A q \in Procs : SamePart(q)) /\ comm'[p].comm_revoked
  BY <1>1, <1>2, <1>3 DEF SamePart
<1>5. \E b \in [Procs -> Seq({"revoke"})], n \in Int :
          net' = [net EXCEPT !.revoke = n, !.revokeBcast = b]
  <2>1. net.revokeBcast \in [Procs -> Seq({"revoke"})] /\ net.revoke \in Int /\ net.revoke - 1 \in Int
    BY <1>2 DEF Nets
  <2>2. CASE net' = [net EXCEPT !.revoke = @ - 1,
                                !.revokeBcast = IF comm[p].comm_revoked THEN @
                                                ELSE ToSuccessors(@, p, "revoke")]
    <3>. DEFINE b == IF comm[p].comm_revoked THEN net.revokeBcast
                     ELSE ToSuccessors(net.revokeBcast, p, "revoke")
                n == net.revoke - 1
    <3>1. b \in [Procs -> Seq({"revoke"})] /\ n \in Int
      BY <2>1, ForwardType
    <3>2. net' = [net EXCEPT !.revoke = n, !.revokeBcast = b]
      BY <2>2
    <3>. HIDE DEF b, n
    <3>. QED BY <3>1, <3>2
  <2>3. CASE /\ net.revokeBcast[p] # <<>>
             /\ net' = [net EXCEPT !.revokeBcast = Sim_FT_Custom_Ibcast_NRoot(@, p)]
    <3>. DEFINE b == Sim_FT_Custom_Ibcast_NRoot(net.revokeBcast, p)
                n == net.revoke
    <3>1. b \in [Procs -> Seq({"revoke"})] /\ n \in Int
      BY <2>1, <2>3, PassOnType
    <3>2. net' = [net EXCEPT !.revokeBcast = b]
      BY <2>3
    <3>. HIDE DEF b
    <3>3. net' = [net EXCEPT !.revoke = n, !.revokeBcast = b]
      BY <1>2, <3>2 DEF Nets
    <3>. HIDE DEF n
    <3>. QED BY <3>1, <3>3
  <2>. QED BY <2>2, <2>3 DEF Sim_FT_Check_comm_revoked
<1>6. PICK b \in [Procs -> Seq({"revoke"})], n \in Int :
          net' = [net EXCEPT !.revoke = n, !.revokeBcast = b]
  BY <1>5
<1>7. net' \in Nets
  BY <1>2, <1>6 DEF Nets
<1>8. OtherMessages /\ net'.p2p = net.p2p
  BY <1>2, <1>6 DEF Nets, OtherMessages, SameTree
<1>. QED BY <1>1, <1>4, <1>7, <1>8 DEF Stays

LEMMA AnswerReduceRevokedFacts ==
    ASSUME Types, NEW p \in Procs, AnswerReduceRevoked(p)
    PROVE  /\ Stays /\ comm' = comm /\ root' = root /\ net' \in Nets /\ comm[p].comm_revoked
<1>1. PICK q \in Successors[p] :
        /\ net.reduce[Normal][q] # <<>>
        /\ net' = [net EXCEPT !.reduce[Normal][q] = Tail(@),
                              !.bcast[Normal][q] = Append(@, [op |-> "RevokedComm", dead |-> {}, nbc |-> 0])]
        /\ UNCHANGED <<program, at, sync, pc, alive, comm, root, outcome>>
        /\ comm[p].comm_revoked
  BY DEF AnswerReduceRevoked
<1>. DEFINE m == [op |-> "RevokedComm", dead |-> {}, nbc |-> 0]
            red == [net.reduce EXCEPT ![Normal][q] = Tail(@)]
            bc == [net.bcast EXCEPT ![Normal][q] = Append(@, m)]
<1>2. net \in Nets /\ q \in Procs /\ Normal \in Tags /\ m \in DeadMessages
  BY Upwards DEF Types, Tags, DeadMessages
<1>3. /\ net.reduce \in [Tags -> [Procs -> Seq(Vectors)]]
      /\ net.bcast \in [Tags -> [Procs -> Seq(DeadMessages)]]
  BY <1>2 DEF Nets
<1>. HIDE DEF m
<1>4. red \in [Tags -> [Procs -> Seq(Vectors)]] /\ bc \in [Tags -> [Procs -> Seq(DeadMessages)]]
  BY <1>1, <1>2, <1>3
<1>5. net' = [net EXCEPT !.reduce = red, !.bcast = bc]
  BY <1>1, <1>2 DEF Nets, m
<1>. HIDE DEF red, bc
<1>6. net' \in Nets
  BY <1>2, <1>4, <1>5 DEF Nets
<1>. QED BY <1>1, <1>6 DEF Stays

\* A message in s says that its sender is dead.
SaysDead(s) == \E k \in 1..Len(s) : s[k] = "I_AM_DEAD"

LEMMA SaysDeadLemma ==
    ASSUME NEW s \in Seq(Texts)
    PROVE  /\ s # <<>> => Tail(s) \in Seq(Texts) /\ (SaysDead(Tail(s)) => SaysDead(s))
           /\ s # <<>> => (Head(s) = "I_AM_DEAD" => SaysDead(s))
           /\ \A t \in Texts : /\ Append(s, t) \in Seq(Texts)
                               /\ SaysDead(Append(s, t)) => SaysDead(s) \/ t = "I_AM_DEAD"
BY DEF SaysDead

\* No process that is alive tells another one that it is dead.
NoNewDead == \A a, b \in Procs : SaysDead(net'.p2p[<<a, b>>]) => SaysDead(net.p2p[<<a, b>>]) \/ ~alive[a]

LEMMA AnswerAliveFacts ==
    ASSUME Types, NEW p \in Procs, AnswerAlive(p)
    PROVE  /\ Stays /\ OtherMessages /\ SameRevoke /\ comm' = comm /\ root' = root
           /\ net' \in Nets /\ NoNewDead
<1>1. PICK q \in Procs \ {p}, text \in {"COMM_IS_REVOKED", "I_AM_DEAD"}, answers \in BOOLEAN :
        /\ net.p2p[<<q, p>>] # <<>>
        /\ text = "I_AM_DEAD" => ~alive[p]
        /\ net' = [net EXCEPT !.p2p[<<q, p>>] = Tail(@),
                              !.p2p[<<p, q>>] = IF answers THEN Append(@, text) ELSE @]
        /\ UNCHANGED <<program, at, sync, pc, alive, comm, root, outcome>>
  <2>1. PICK q \in Procs \ {p} :
        /\ net.p2p[<<q, p>>] # <<>>
        /\ LET answered == IF alive[p] THEN {"I_AM_ALIVE", "I_AM_ALIVE_NB"} ELSE {"I_AM_ALIVE"}
               answer == IF alive[p] THEN "COMM_IS_REVOKED" ELSE "I_AM_DEAD"
           IN  net' = [net EXCEPT !.p2p[<<q, p>>] = Tail(@),
                                  !.p2p[<<p, q>>] = IF Head(net.p2p[<<q, p>>]) \in answered
                                                    THEN Append(@, answer) ELSE @]
        /\ UNCHANGED <<program, at, sync, pc, alive, comm, root, outcome>>
    BY DEF AnswerAlive
  <2>. DEFINE answered == IF alive[p] THEN {"I_AM_ALIVE", "I_AM_ALIVE_NB"} ELSE {"I_AM_ALIVE"}
              text == IF alive[p] THEN "COMM_IS_REVOKED" ELSE "I_AM_DEAD"
              answers == Head(net.p2p[<<q, p>>]) \in answered
  <2>2. /\ text \in {"COMM_IS_REVOKED", "I_AM_DEAD"} /\ answers \in BOOLEAN
        /\ text = "I_AM_DEAD" => ~alive[p]
    OBVIOUS
  <2>3. net' = [net EXCEPT !.p2p[<<q, p>>] = Tail(@),
                           !.p2p[<<p, q>>] = IF answers THEN Append(@, text) ELSE @]
    BY <2>1
  <2>. HIDE DEF answers, text
  <2>. QED BY <2>1, <2>2, <2>3
<1>. DEFINE taken == [net.p2p EXCEPT ![<<q, p>>] = Tail(@)]
            queues == [taken EXCEPT ![<<p, q>>] = IF answers THEN Append(@, text) ELSE @]
<1>2. net \in Nets
  BY DEF Types
<1>3. taken \in [Procs \X Procs -> Seq(Texts)]
  BY <1>1, <1>2 DEF Nets
<1>4. queues \in [Procs \X Procs -> Seq(Texts)]
  <2>. HIDE DEF taken
  <2>1. text \in Texts
    BY <1>1 DEF Texts
  <2>. QED BY <1>3, <2>1
<1>5. net' = [net EXCEPT !.p2p = queues]
  BY <1>1, <1>2 DEF Nets
<1>. HIDE DEF queues
<1>6. net' \in Nets
  BY <1>2, <1>4, <1>5 DEF Nets
<1>7. OtherMessages /\ SameRevoke /\ net'.p2p = queues
  BY <1>2, <1>5 DEF Nets, OtherMessages, SameTree, SameRevoke
<1>8. ASSUME NEW a \in Procs, NEW b \in Procs, SaysDead(queues[<<a, b>>])
      PROVE  SaysDead(net.p2p[<<a, b>>]) \/ ~alive[a]
  <2>1. net.p2p \in [Procs \X Procs -> Seq(Texts)]
    BY <1>2 DEF Nets
  <2>2. SaysDead(taken[<<a, b>>]) => SaysDead(net.p2p[<<a, b>>])
    <3>1. taken[<<a, b>>] = IF <<a, b>> = <<q, p>> THEN Tail(net.p2p[<<q, p>>]) ELSE net.p2p[<<a, b>>]
      BY <2>1
    <3>2. net.p2p[<<q, p>>] \in Seq(Texts)
      BY <2>1
    <3>. QED BY <1>1, <3>1, <3>2, SaysDeadLemma
  <2>. HIDE DEF taken
  <2>3. queues[<<a, b>>] = IF <<a, b>> = <<p, q>> /\ answers THEN Append(taken[<<p, q>>], text)
                           ELSE taken[<<a, b>>]
    BY <1>3 DEF queues
  <2>4. taken[<<p, q>>] \in Seq(Texts) /\ text \in Texts
    BY <1>1, <1>3 DEF Texts
  <2>5. CASE <<a, b>> = <<p, q>> /\ answers
    <3>1. a = p /\ SaysDead(Append(taken[<<p, q>>], text)) /\ taken[<<p, q>>] = taken[<<a, b>>]
      BY <1>8, <2>3, <2>5
    <3>2. SaysDead(taken[<<a, b>>]) \/ text = "I_AM_DEAD"
      BY <2>4, <3>1, SaysDeadLemma
    <3>. QED BY <1>1, <2>2, <3>1, <3>2
  <2>6. CASE ~(<<a, b>> = <<p, q>> /\ answers)
    BY <1>8, <2>2, <2>3, <2>6
  <2>. QED BY <2>5, <2>6
<1>. QED BY <1>1, <1>6, <1>7, <1>8 DEF Stays, NoNewDead

LEMMA BackgroundTypes ==
    ASSUME TypeInv, NEW p \in Procs, Background(p)
    PROVE  TypeInv'
<1>. USE DEF Stays
<1>1. Types
  BY DEF TypeInv
<1>2. comm' = comm => (\A q \in Procs : SamePart(q)) /\ comm' \in [Procs -> Comms]
  BY <1>1 DEF SamePart, Types
<1>3. root' = root => root' \in Roots
  BY <1>1 DEF Types
<1>4. CASE Sim_FT_Receive_dead_msgs_root
  BY <1>1, <1>4, ReceiveDeadMsgsFacts, QuietTypes DEF NewKnown
<1>5. CASE Sim_FT_NBC_bcast_root
  BY <1>1, <1>2, <1>5, NbcBcastRootFacts, QuietTypes
<1>6. CASE Sim_FT_NBC_bcast_Nroot(p)
  BY <1>1, <1>3, <1>6, NbcBcastFacts, QuietTypes DEF NewKnown
<1>7. CASE AnswerNbcRequest(p)
  BY <1>1, <1>2, <1>3, <1>7, AnswerNbcFacts, QuietTypes
<1>8. CASE Sim_FT_Check_comm_revoked(p)
  BY <1>1, <1>3, <1>8, CheckCommRevokedFacts, QuietTypes
<1>9. CASE AnswerReduceRevoked(p)
  BY <1>1, <1>2, <1>3, <1>9, AnswerReduceRevokedFacts, QuietTypes
<1>10. CASE AnswerAlive(p)
  BY <1>1, <1>2, <1>3, <1>10, AnswerAliveFacts, QuietTypes
<1>. QED BY <1>4, <1>5, <1>6, <1>7, <1>8, <1>9, <1>10 DEF Background

-----------------------------------------------------------------------------
(* The programs *)

\* A step does not undo a revocation.
RevokeKept ==
    /\ \A q \in Procs : comm[q].comm_revoked => comm'[q].comm_revoked
    /\ net.revoke > 0 => net'.revoke > 0
    /\ \A q \in Procs : net.revokeBcast[q] # <<>> => net'.revokeBcast[q] # <<>>

LEMMA RevokeKeptRevoking == RevokeKept /\ Revoking => Revoking'
BY DEF RevokeKept, Revoking

\* A step of p's program outside the reductions and broadcasts of Check_dead_processes.
Quiet(p) ==
    /\ UNCHANGED <<program, alive, root, outcome>> /\ OtherMessages /\ NoNewDead
    /\ alive[p]
    /\ pc[p] \notin {"check", "reduce", "collect", "bcast"}
    /\ pc'[p] \notin {"reduce", "collect", "bcast"}
    /\ \A q \in Procs \ {p} : pc'[q] = pc[q] /\ comm'[q] = comm[q]
    /\ SamePart(p)
    /\ comm'[p].dead_nodes = comm[p].dead_nodes
    /\ comm[p].dead_set \subseteq comm'[p].dead_set
    /\ comm'[p].dead_set \subseteq comm[p].dead_set \cup {q \in Procs : SaysDead(net.p2p[<<q, p>>])}

\* What the steps of programs share.
LEMMA ProgramStep ==
    ASSUME TypeInv, NEW p \in Procs, UNCHANGED <<program, alive, root, outcome>>,
           comm' \in [Procs -> Comms], net' \in Nets, SamePart(p),
           at' \in [Procs -> Nat \ {0}], sync' \in [Procs -> 0..2], pc' \in [Procs -> Labels],
           \A q \in Procs \ {p} : at'[q] = at[q] /\ pc'[q] = pc[q] /\ comm'[q] = comm[q],
           PlaceOf(p)'
    PROVE  TypeInv'
<1>1. \A q \in Procs \ {p} : SamePart(q)
  BY DEF SamePart
<1>2. Types'
  BY DEF TypeInv, Types
<1>. QED BY <1>1, <1>2, OthersStay

LEMMA CallCollectiveFacts ==
    ASSUME TypeInv, NEW p \in Procs, Skip(p) \/ CallCollective(p) \/ SecondCheck(p)
    PROVE  TypeInv' /\ Quiet(p) /\ RevokeKept
<1>1. UNCHANGED <<program, alive, comm, root, net, outcome>>
  BY DEF Skip, CallCollective, SecondCheck
<1>2. /\ pc[p] \in {"idle", "returned", "nbc"} /\ pc'[p] \in {"idle", "check"}
      /\ \A q \in Procs \ {p} : pc'[q] = pc[q]
  BY DEF Skip, CallCollective, SecondCheck, Begin, Done, Goto, TypeInv, Types
<1>3. alive[p]
  BY DEF Skip, CallCollective, SecondCheck, Begin, TypeInv, Places, PlaceOf
<1>4. TypeInv'
  BY <1>3, ProgramTypes
<1>5. OtherMessages /\ NoNewDead /\ RevokeKept /\ SamePart(p)
  BY <1>1 DEF OtherMessages, SameTree, NoNewDead, RevokeKept, SamePart
<1>. QED BY <1>1, <1>2, <1>3, <1>4, <1>5 DEF Quiet

LEMMA CallIcollectiveFacts ==
    ASSUME TypeInv, NEW p \in Procs, CallIcollective(p)
    PROVE  TypeInv' /\ Quiet(p) /\ RevokeKept
<1>. DEFINE c == [comm[p] EXCEPT !.Recent_Icollectives = IF comm[p].comm_revoked THEN @ ELSE @ + 1]
<1>1. /\ comm' = [comm EXCEPT ![p] = c] /\ Done(p) /\ UNCHANGED <<program, alive, root, net, outcome>>
      /\ pc[p] = "idle" /\ alive[p]
  BY DEF CallIcollective, Begin
<1>2. comm \in [Procs -> Comms] /\ comm[p] \in Comms /\ Types
  BY DEF TypeInv, Types
<1>3. /\ c \in Comms /\ c.comm_revoked = comm[p].comm_revoked
      /\ c.Ireduce_Active = comm[p].Ireduce_Active /\ c.received = comm[p].received
      /\ c.vector = comm[p].vector /\ c.tag = comm[p].tag
      /\ c.dead_set = comm[p].dead_set /\ c.dead_nodes = comm[p].dead_nodes
  BY <1>2 DEF Comms
<1>. HIDE DEF c
<1>4. comm' \in [Procs -> Comms] /\ comm'[p] = c /\ \A q \in Procs \ {p} : comm'[q] = comm[q]
  BY <1>1, <1>2, <1>3
<1>5. SamePart(p) /\ comm'[p].dead_set = comm[p].dead_set /\ comm'[p].dead_nodes = comm[p].dead_nodes
  BY <1>3, <1>4 DEF SamePart
<1>6. PlaceOf(p)'
  BY <1>1, <1>2, <1>5, DoneFacts DEF TypeInv, Places, PlaceOf, SamePart, AliveLabels
<1>7. net' \in Nets
  BY <1>1 DEF TypeInv, Types
<1>8. TypeInv'
  BY <1>1, <1>2, <1>4, <1>5, <1>6, <1>7, DoneFacts, ProgramStep
<1>9. OtherMessages /\ NoNewDead /\ RevokeKept
  BY <1>1, <1>3, <1>4 DEF OtherMessages, SameTree, NoNewDead, RevokeKept
<1>. QED BY <1>1, <1>2, <1>4, <1>5, <1>8, <1>9, DoneFacts DEF Quiet

LEMMA CommRevokeFacts ==
    ASSUME TypeInv, NEW p \in Procs, MPI_Comm_revoke(p)
    PROVE  TypeInv' /\ Quiet(p) /\ RevokeKept
<1>1. Done(p) /\ UNCHANGED <<program, alive, root, outcome>> /\ pc[p] = "idle" /\ alive[p]
  BY DEF MPI_Comm_revoke, Begin
<1>2. comm \in [Procs -> Comms] /\ comm[p] \in Comms /\ net \in Nets /\ Types
  BY DEF TypeInv, Types
<1>3. /\ comm' \in [Procs -> Comms] /\ SamePart(p)
      /\ comm'[p].dead_set = comm[p].dead_set /\ comm'[p].dead_nodes = comm[p].dead_nodes
      /\ comm[p].comm_revoked => comm'[p].comm_revoked
      /\ \A q \in Procs \ {p} : comm'[q] = comm[q]
  <2>1. CASE comm' = comm
    BY <1>2, <2>1 DEF SamePart
  <2>2. CASE comm' = [comm EXCEPT ![p].comm_revoked = TRUE]
    <3>. DEFINE c == [comm[p] EXCEPT !.comm_revoked = TRUE]
    <3>1. /\ c \in Comms /\ c.comm_revoked
          /\ c.Ireduce_Active = comm[p].Ireduce_Active /\ c.received = comm[p].received
          /\ c.vector = comm[p].vector /\ c.tag = comm[p].tag
          /\ c.dead_set = comm[p].dead_set /\ c.dead_nodes = comm[p].dead_nodes
      BY <1>2 DEF Comms
    <3>2. comm' = [comm EXCEPT ![p] = c]
      BY <2>2
    <3>. HIDE DEF c
    <3>. QED BY <1>2, <3>1, <3>2 DEF SamePart
  <2>. QED BY <2>1, <2>2 DEF MPI_Comm_revoke
<1>4. /\ net' \in Nets /\ OtherMessages /\ net'.p2p = net.p2p
      /\ net.revoke > 0 => net'.revoke > 0
      /\ net'.revokeBcast = net.revokeBcast
  <2>1. CASE net' = net
    BY <1>2, <2>1 DEF OtherMessages, SameTree
  <2>2. CASE net' = [net EXCEPT !.revoke = @ + 1]
    <3>. DEFINE n == net.revoke + 1
    <3>1. n \in Int /\ (net.revoke > 0 => n > 0)
      BY <1>2 DEF Nets
    <3>2. net' = [net EXCEPT !.revoke = n]
      BY <2>2
    <3>. HIDE DEF n
    <3>. QED BY <1>2, <3>1, <3>2 DEF Nets, OtherMessages, SameTree
  <2>. QED BY <2>1, <2>2 DEF MPI_Comm_revoke
<1>5. PlaceOf(p)'
  BY <1>1, <1>2, <1>3, DoneFacts DEF TypeInv, Places, PlaceOf, SamePart, AliveLabels
<1>6. TypeInv'
  BY <1>1, <1>2, <1>3, <1>4, <1>5, DoneFacts, ProgramStep
<1>7. NoNewDead /\ RevokeKept
  BY <1>3, <1>4 DEF NoNewDead, RevokeKept
<1>. QED BY <1>1, <1>2, <1>3, <1>4, <1>6, <1>7, DoneFacts DEF Quiet

\* The messages after p has received one from q.
Taken(q, p) == [net.p2p EXCEPT ![<<q, p>>] = Tail(@)]

LEMMA TakeText ==
    ASSUME TypeInv, NEW q \in Procs, NEW p \in Procs, net.p2p[<<q, p>>] # <<>>
    PROVE  /\ Taken(q, p) \in [Procs \X Procs -> Seq(Texts)]
           /\ \A a, b \in Procs : SaysDead(Taken(q, p)[<<a, b>>]) => SaysDead(net.p2p[<<a, b>>])
           /\ Head(net.p2p[<<q, p>>]) = "I_AM_DEAD" => SaysDead(net.p2p[<<q, p>>])
<1>1. net.p2p \in [Procs \X Procs -> Seq(Texts)] /\ net.p2p[<<q, p>>] \in Seq(Texts)
  BY DEF TypeInv, Types, Nets
<1>. QED BY <1>1, SaysDeadLemma DEF Taken

\* The step has changed the communicator of p, to c.
LEMMA OwnComm ==
    ASSUME TypeInv, NEW p \in Procs, NEW c \in Comms, comm' = [comm EXCEPT ![p] = c],
           c.Ireduce_Active = comm[p].Ireduce_Active, c.received = comm[p].received,
           c.vector = comm[p].vector, c.tag = comm[p].tag
    PROVE  /\ comm' \in [Procs -> Comms] /\ SamePart(p) /\ comm'[p] = c
           /\ \A q \in Procs \ {p} : comm'[q] = comm[q]
<1>1. comm \in [Procs -> Comms]
  BY DEF TypeInv, Types
<1>. QED BY <1>1 DEF SamePart

LEMMA NoteDeadFacts ==
    ASSUME TypeInv, NEW p \in Procs, NEW q \in Procs, net.p2p[<<q, p>>] # <<>>, NoteDead(p, q)
    PROVE  /\ comm' \in [Procs -> Comms] /\ SamePart(p)
           /\ comm'[p].dead_nodes = comm[p].dead_nodes /\ comm'[p].comm_revoked = comm[p].comm_revoked
           /\ comm[p].dead_set \subseteq comm'[p].dead_set
           /\ comm'[p].dead_set \subseteq comm[p].dead_set \cup {d \in Procs : SaysDead(net.p2p[<<d, p>>])}
           /\ \A d \in Procs \ {p} : comm'[d] = comm[d]
<1>1. comm \in [Procs -> Comms] /\ comm[p] \in Comms /\ Types
  BY DEF TypeInv, Types
<1>2. CASE Answer(p, q) = "I_AM_DEAD"
  <2>. DEFINE S == comm[p].dead_set \cup {q}
              c == [comm[p] EXCEPT !.dead_set = S]
  <2>1. S \in SUBSET Procs
    BY <1>1 DEF Comms
  <2>2. SaysDead(net.p2p[<<q, p>>])
    BY <1>2, TakeText DEF Answer
  <2>3. S \subseteq comm[p].dead_set \cup {d \in Procs : SaysDead(net.p2p[<<d, p>>])}
    BY <2>2
  <2>4. comm[p].dead_set \subseteq S
    OBVIOUS
  <2>5. comm' = [comm EXCEPT ![p].dead_set = S]
    BY <1>2 DEF NoteDead
  <2>. HIDE DEF S
  <2>6. /\ c \in Comms /\ c.comm_revoked = comm[p].comm_revoked
        /\ c.Ireduce_Active = comm[p].Ireduce_Active /\ c.received = comm[p].received
        /\ c.vector = comm[p].vector /\ c.tag = comm[p].tag
        /\ c.dead_set = S /\ c.dead_nodes = comm[p].dead_nodes
    BY <1>1, <2>1 DEF Comms
  <2>7. comm' = [comm EXCEPT ![p] = c]
    BY <2>5
  <2>. HIDE DEF c
  <2>. QED BY <1>1, <2>3, <2>4, <2>6, <2>7, OwnComm
<1>3. CASE Answer(p, q) # "I_AM_DEAD"
  BY <1>1, <1>3 DEF NoteDead, SamePart
<1>. QED BY <1>2, <1>3

\* p and its partner are in the communicator.
LEMMA PartnerIn ==
    ASSUME TypeInv, NEW p \in Procs, at[p] \in 1..Len(program.ops), Op(p).op \in PointToPoint
    PROVE  Op(p).from \in Procs /\ Op(p).to \in Procs /\ Partner(p) \in Procs
<1>1. program \in Programs
  BY DEF TypeInv, Types
<1>2. {Op(p).from, Op(p).to} \subseteq Procs
  BY <1>1, ProgramsAssumption DEF Op
<1>. QED BY <1>2 DEF Partner

LEMMA SendFacts ==
    ASSUME TypeInv, NEW p \in Procs, Sim_FT_MPI_Send(p)
    PROVE  TypeInv' /\ Quiet(p) /\ RevokeKept
<1>. DEFINE q == Op(p).to
            data == [net.data EXCEPT ![<<p, q>>] = IF IsAlive(Answer(p, q)) THEN @ + 1 ELSE @]
<1>1. /\ pc[p] = "send" /\ net.p2p[<<q, p>>] # <<>> /\ Done(p)
      /\ UNCHANGED <<program, alive, root, outcome>>
  BY DEF Sim_FT_MPI_Send
<1>2. comm \in [Procs -> Comms] /\ net \in Nets /\ Types
  BY DEF TypeInv, Types
<1>3. alive[p] /\ at[p] \in 1..Len(program.ops) /\ Op(p).op \in PointToPoint
  BY <1>1 DEF TypeInv, Places, PlaceOf, AliveLabels, Op
<1>4. q \in Procs
  BY <1>3, PartnerIn
<1>. HIDE DEF q
<1>5. /\ net' \in Nets /\ OtherMessages /\ SameRevoke /\ NoNewDead
      /\ comm' = comm \/ NoteDead(p, q)
  <2>1. CASE comm[p].comm_revoked
    BY <1>2, <2>1 DEF Sim_FT_MPI_Send, OtherMessages, SameTree, SameRevoke, NoNewDead
  <2>2. CASE ~comm[p].comm_revoked
    <3>1. net' = [net EXCEPT !.p2p = Taken(q, p), !.data = data] /\ NoteDead(p, q)
      BY <1>2, <2>2 DEF Sim_FT_MPI_Send, q, Nets, Taken
    <3>2. data \in [Procs \X Procs -> Int]
      BY <1>2, <1>4 DEF Nets
    <3>3. /\ Taken(q, p) \in [Procs \X Procs -> Seq(Texts)]
          /\ \A a, b \in Procs : SaysDead(Taken(q, p)[<<a, b>>]) => SaysDead(net.p2p[<<a, b>>])
      BY <1>1, <1>4, TakeText
    <3>. HIDE DEF data
    <3>4. net' \in Nets
      BY <1>2, <3>1, <3>2, <3>3 DEF Nets
    <3>5. OtherMessages /\ SameRevoke /\ net'.p2p = Taken(q, p)
      BY <1>2, <3>1 DEF Nets, OtherMessages, SameTree, SameRevoke
    <3>. QED BY <3>1, <3>3, <3>4, <3>5 DEF NoNewDead
  <2>. QED BY <2>1, <2>2
<1>6. /\ comm' \in [Procs -> Comms] /\ SamePart(p)
      /\ comm'[p].dead_nodes = comm[p].dead_nodes /\ comm'[p].comm_revoked = comm[p].comm_revoked
      /\ comm[p].dead_set \subseteq comm'[p].dead_set
      /\ comm'[p].dead_set \subseteq comm[p].dead_set \cup {d \in Procs : SaysDead(net.p2p[<<d, p>>])}
      /\ \A d \in Procs \ {p} : comm'[d] = comm[d]
  <2>1. CASE comm' = comm
    BY <1>2, <2>1 DEF SamePart
  <2>. QED BY <1>1, <1>4, <1>5, <2>1, NoteDeadFacts
<1>7. PlaceOf(p)'
  BY <1>1, <1>2, <1>3, <1>6, DoneFacts DEF TypeInv, Places, PlaceOf, SamePart, AliveLabels
<1>8. TypeInv'
  BY <1>1, <1>2, <1>5, <1>6, <1>7, DoneFacts, ProgramStep
<1>9. RevokeKept
  BY <1>5, <1>6 DEF RevokeKept, SameRevoke
<1>. QED BY <1>1, <1>2, <1>3, <1>5, <1>6, <1>8, <1>9, DoneFacts DEF Quiet

LEMMA RecvFacts ==
    ASSUME TypeInv, NEW p \in Procs, Sim_FT_MPI_Recv(p)
    PROVE  TypeInv' /\ Quiet(p) /\ RevokeKept
<1>. DEFINE q == Op(p).from
<1>1. /\ pc[p] = "recv" /\ net.p2p[<<q, p>>] # <<>>
      /\ UNCHANGED <<program, alive, root, outcome>>
      /\ net' = [net EXCEPT !.p2p = Taken(q, p)] /\ NoteDead(p, q)
      /\ Done(p) \/ (Goto(p, "recvReal") /\ UNCHANGED <<at, sync>>)
  BY DEF Sim_FT_MPI_Recv, Taken
<1>2. comm \in [Procs -> Comms] /\ net \in Nets /\ Types
  BY DEF TypeInv, Types
<1>3. alive[p] /\ at[p] \in 1..Len(program.ops) /\ Op(p).op \in PointToPoint
  BY <1>1 DEF TypeInv, Places, PlaceOf, AliveLabels, Op
<1>4. q \in Procs
  BY <1>3, PartnerIn
<1>5. net' \in Nets /\ OtherMessages /\ SameRevoke /\ NoNewDead
  <2>1. /\ Taken(q, p) \in [Procs \X Procs -> Seq(Texts)]
        /\ \A a, b \in Procs : SaysDead(Taken(q, p)[<<a, b>>]) => SaysDead(net.p2p[<<a, b>>])
    BY <1>1, <1>4, TakeText
  <2>2. net' \in Nets
    BY <1>1, <1>2, <2>1 DEF Nets
  <2>3. OtherMessages /\ SameRevoke /\ net'.p2p = Taken(q, p)
    BY <1>1, <1>2 DEF Nets, OtherMessages, SameTree, SameRevoke
  <2>. QED BY <2>1, <2>2, <2>3 DEF NoNewDead
<1>. HIDE DEF q
<1>6. /\ comm' \in [Procs -> Comms] /\ SamePart(p)
      /\ comm'[p].dead_nodes = comm[p].dead_nodes /\ comm'[p].comm_revoked = comm[p].comm_revoked
      /\ comm[p].dead_set \subseteq comm'[p].dead_set
      /\ comm'[p].dead_set \subseteq comm[p].dead_set \cup {d \in Procs : SaysDead(net.p2p[<<d, p>>])}
      /\ \A d \in Procs \ {p} : comm'[d] = comm[d]
  BY <1>1, <1>4, NoteDeadFacts
<1>7. /\ at' \in [Procs -> Nat \ {0}] /\ sync' \in [Procs -> 0..2] /\ pc' \in [Procs -> Labels]
      /\ pc'[p] = "idle" \/ (pc'[p] = "recvReal" /\ at' = at)
      /\ \A d \in Procs \ {p} : at'[d] = at[d] /\ pc'[d] = pc[d]
  <2>1. CASE Done(p)
    BY <1>2, <2>1, DoneFacts
  <2>2. CASE Goto(p, "recvReal") /\ UNCHANGED <<at, sync>>
    BY <1>2, <2>2 DEF Goto, Types, Labels, AliveLabels
  <2>. QED BY <1>1, <2>1, <2>2
<1>8. PlaceOf(p)'
  BY <1>1, <1>2, <1>3, <1>6, <1>7 DEF TypeInv, Places, PlaceOf, SamePart, AliveLabels, Op
<1>9. TypeInv'
  BY <1>1, <1>2, <1>5, <1>6, <1>7, <1>8, ProgramStep
<1>10. RevokeKept
  BY <1>5, <1>6 DEF RevokeKept, SameRevoke
<1>. QED BY <1>1, <1>2, <1>3, <1>5, <1>6, <1>7, <1>9, <1>10 DEF Quiet

LEMMA RealRecvFacts ==
    ASSUME TypeInv, NEW p \in Procs, RealRecv(p)
    PROVE  TypeInv' /\ Quiet(p) /\ RevokeKept
<1>. DEFINE q == Op(p).from
            data == [net.data EXCEPT ![<<q, p>>] = @ - 1]
<1>1. /\ pc[p] = "recvReal" /\ Done(p) /\ net' = [net EXCEPT !.data = data]
      /\ UNCHANGED <<program, alive, comm, root, outcome>>
  BY DEF RealRecv
<1>2. comm \in [Procs -> Comms] /\ net \in Nets /\ Types
  BY DEF TypeInv, Types
<1>3. alive[p] /\ at[p] \in 1..Len(program.ops) /\ Op(p).op \in PointToPoint
  BY <1>1 DEF TypeInv, Places, PlaceOf, AliveLabels, Op
<1>4. q \in Procs
  BY <1>3, PartnerIn
<1>5. data \in [Procs \X Procs -> Int]
  BY <1>2, <1>4 DEF Nets
<1>. HIDE DEF q, data
<1>6. net' \in Nets
  BY <1>1, <1>2, <1>5 DEF Nets
<1>7. OtherMessages /\ SameRevoke /\ net'.p2p = net.p2p
  BY <1>1, <1>2 DEF Nets, OtherMessages, SameTree, SameRevoke
<1>8. SamePart(p) /\ comm' \in [Procs -> Comms]
  BY <1>1, <1>2 DEF SamePart
<1>9. PlaceOf(p)'
  BY <1>1, <1>2, <1>3, <1>8, DoneFacts DEF TypeInv, Places, PlaceOf, SamePart, AliveLabels
<1>10. TypeInv'
  BY <1>1, <1>2, <1>6, <1>8, <1>9, DoneFacts, ProgramStep
<1>11. RevokeKept /\ NoNewDead
  BY <1>1, <1>7 DEF RevokeKept, SameRevoke, NoNewDead
<1>. QED BY <1>1, <1>2, <1>3, <1>7, <1>8, <1>10, <1>11, DoneFacts DEF Quiet

LEMMA TestFacts ==
    ASSUME TypeInv, NEW p \in Procs, Sim_FT_MPI_Test(p)
    PROVE  TypeInv' /\ Quiet(p) /\ RevokeKept
<1>. DEFINE q == Partner(p)
            data == [net.data EXCEPT ![<<q, p>>] = IF Sends(p) THEN @ ELSE @ - 1]
            Same == UNCHANGED <<comm, net>>
            Completes == comm' = [comm EXCEPT ![p].completed = TRUE] /\ net' = [net EXCEPT !.data = data]
            Answered == NoteDead(p, q) /\ net.p2p[<<q, p>>] # <<>> /\ net' = [net EXCEPT !.p2p = Taken(q, p)]
<1>1. /\ pc[p] = "test" /\ UNCHANGED <<program, alive, root, outcome>>
      /\ Done(p) \/ UNCHANGED <<pc, at, sync>>
      /\ Same \/ Completes \/ Answered
  BY DEF Sim_FT_MPI_Test, Taken
<1>2. comm \in [Procs -> Comms] /\ comm[p] \in Comms /\ net \in Nets /\ Types
  BY DEF TypeInv, Types
<1>3. alive[p] /\ at[p] \in 1..Len(program.ops) /\ Op(p).op \in PointToPoint
  BY <1>1 DEF TypeInv, Places, PlaceOf, AliveLabels, Op
<1>4. q \in Procs
  BY <1>3, PartnerIn
<1>. HIDE DEF q
<1>5. /\ net' \in Nets /\ OtherMessages /\ SameRevoke /\ NoNewDead
      /\ comm' \in [Procs -> Comms] /\ SamePart(p)
      /\ comm'[p].dead_nodes = comm[p].dead_nodes /\ comm'[p].comm_revoked = comm[p].comm_revoked
      /\ comm[p].dead_set \subseteq comm'[p].dead_set
      /\ comm'[p].dead_set \subseteq comm[p].dead_set \cup {d \in Procs : SaysDead(net.p2p[<<d, p>>])}
      /\ \A d \in Procs \ {p} : comm'[d] = comm[d]
  <2>1. CASE Same
    BY <1>2, <2>1 DEF SamePart, OtherMessages, SameTree, SameRevoke, NoNewDead
  <2>2. CASE Completes
    <3>. DEFINE c == [comm[p] EXCEPT !.completed = TRUE]
    <3>1. /\ c \in Comms /\ c.comm_revoked = comm[p].comm_revoked
          /\ c.Ireduce_Active = comm[p].Ireduce_Active /\ c.received = comm[p].received
          /\ c.vector = comm[p].vector /\ c.tag = comm[p].tag
          /\ c.dead_set = comm[p].dead_set /\ c.dead_nodes = comm[p].dead_nodes
      BY <1>2 DEF Comms
    <3>2. comm' = [comm EXCEPT ![p] = c] /\ net' = [net EXCEPT !.data = data]
      BY <2>2
    <3>3. data \in [Procs \X Procs -> Int]
      BY <1>2, <1>4 DEF Nets
    <3>. HIDE DEF c, data
    <3>4. net' \in Nets
      BY <1>2, <3>2, <3>3 DEF Nets
    <3>5. OtherMessages /\ SameRevoke /\ net'.p2p = net.p2p
      BY <1>2, <3>2 DEF Nets, OtherMessages, SameTree, SameRevoke
    <3>. QED BY <3>1, <3>2, <3>4, <3>5, OwnComm DEF NoNewDead
  <2>3. CASE Answered
    <3>1. /\ Taken(q, p) \in [Procs \X Procs -> Seq(Texts)]
          /\ \A a, b \in Procs : SaysDead(Taken(q, p)[<<a, b>>]) => SaysDead(net.p2p[<<a, b>>])
      BY <1>4, <2>3, TakeText
    <3>2. net' \in Nets
      BY <1>2, <2>3, <3>1 DEF Nets
    <3>3. OtherMessages /\ SameRevoke /\ net'.p2p = Taken(q, p)
      BY <1>2, <2>3 DEF Nets, OtherMessages, SameTree, SameRevoke
    <3>. QED BY <1>4, <2>3, <3>1, <3>2, <3>3, NoteDeadFacts DEF NoNewDead
  <2>. QED BY <1>1, <2>1, <2>2, <2>3
<1>. HIDE DEF Same, Completes, Answered
<1>6. /\ at' \in [Procs -> Nat \ {0}] /\ sync' \in [Procs -> 0..2] /\ pc' \in [Procs -> Labels]
      /\ pc'[p] = "idle" \/ (pc'[p] = "test" /\ at' = at)
      /\ \A d \in Procs \ {p} : at'[d] = at[d] /\ pc'[d] = pc[d]
  <2>1. CASE Done(p)
    BY <1>2, <2>1, DoneFacts
  <2>2. CASE UNCHANGED <<pc, at, sync>>
    BY <1>1, <1>2, <2>2 DEF Types
  <2>. QED BY <1>1, <2>1, <2>2
<1>7. PlaceOf(p)'
  BY <1>1, <1>2, <1>3, <1>5, <1>6 DEF TypeInv, Places, PlaceOf, SamePart, AliveLabels, Op
<1>8. TypeInv'
  BY <1>1, <1>2, <1>5, <1>6, <1>7, ProgramStep
<1>9. RevokeKept
  BY <1>5 DEF RevokeKept, SameRevoke
<1>. QED BY <1>1, <1>2, <1>3, <1>5, <1>6, <1>8, <1>9 DEF Quiet

LEMMA CallP2PFacts ==
    ASSUME TypeInv, NEW p \in Procs, CallP2P(p)
    PROVE  TypeInv' /\ Quiet(p) /\ RevokeKept
<1>. DEFINE q == Partner(p)
            isend == Sends(p) /\ Op(p).op = "IsendIrecv"
            irecv == ~Sends(p) /\ Op(p).op # "Send"
            text == IF isend \/ irecv THEN "I_AM_ALIVE_NB" ELSE "I_AM_ALIVE"
            told == [net.p2p EXCEPT ![<<p, q>>] = Append(@, text)]
            data == [net.data EXCEPT ![<<p, q>>] = IF isend THEN @ + 1 ELSE @]
            Announces == /\ net' = [net EXCEPT !.p2p = told, !.data = data]
                         /\ comm' = [comm EXCEPT ![p].completed = FALSE]
<1>1. Begin(p) /\ Op(p).op \in PointToPoint /\ UNCHANGED <<program, alive, root, outcome>>
  BY DEF CallP2P
<1>2. comm \in [Procs -> Comms] /\ comm[p] \in Comms /\ net \in Nets /\ Types
  BY DEF TypeInv, Types
<1>3. alive[p] /\ at[p] \in 1..Len(program.ops) /\ pc[p] = "idle"
  BY <1>1, AtInRange DEF Begin
<1>4. q \in Procs /\ text \in Texts /\ text # "I_AM_DEAD"
  BY <1>1, <1>3, PartnerIn DEF Texts
<1>5. /\ (Done(p) /\ UNCHANGED <<net, comm>>)
          \/ (Announces /\ UNCHANGED <<at, sync>> /\ \E l \in {"test", "send", "recv"} : Goto(p, l))
  <2>1. CASE comm[p].comm_revoked
    BY <2>1 DEF CallP2P
  <2>2. CASE ~comm[p].comm_revoked
    <3>1. net' = [Announce(net, p, q, text) EXCEPT !.data[<<p, q>>] = IF isend THEN @ + 1 ELSE @]
      BY <2>2 DEF CallP2P
    <3>2. Announce(net, p, q, text) = [net EXCEPT !.p2p = told]
      BY <1>2 DEF Announce, Nets
    <3>3. Announce(net, p, q, text).data = net.data
      <4>. HIDE DEF told
      <4>. QED BY <1>2, <3>2 DEF Nets
    <3>4. net' = [Announce(net, p, q, text) EXCEPT !.data = data]
      BY <3>1, <3>3
    <3>5. net' = [net EXCEPT !.p2p = told, !.data = data]
      <4>. HIDE DEF told, data
      <4>. QED BY <1>2, <3>2, <3>4 DEF Nets
    <3>6. UNCHANGED <<at, sync>> /\ \E l \in {"test", "send", "recv"} : Goto(p, l)
      BY <2>2 DEF CallP2P
    <3>7. comm' = [comm EXCEPT ![p].completed = FALSE]
      BY <2>2 DEF CallP2P
    <3>. QED BY <3>5, <3>6, <3>7
  <2>. QED BY <2>1, <2>2
<1>. HIDE DEF q, text, isend
<1>6. /\ net' \in Nets /\ OtherMessages /\ SameRevoke /\ NoNewDead
      /\ comm' \in [Procs -> Comms] /\ SamePart(p)
      /\ comm'[p].dead_nodes = comm[p].dead_nodes /\ comm'[p].comm_revoked = comm[p].comm_revoked
      /\ comm'[p].dead_set = comm[p].dead_set
      /\ \A d \in Procs \ {p} : comm'[d] = comm[d]
  <2>1. CASE UNCHANGED <<net, comm>>
    BY <1>2, <2>1 DEF SamePart, OtherMessages, SameTree, SameRevoke, NoNewDead
  <2>2. CASE Announces
    <3>. DEFINE c == [comm[p] EXCEPT !.completed = FALSE]
    <3>1. /\ c \in Comms /\ c.comm_revoked = comm[p].comm_revoked
          /\ c.Ireduce_Active = comm[p].Ireduce_Active /\ c.received = comm[p].received
          /\ c.vector = comm[p].vector /\ c.tag = comm[p].tag
          /\ c.dead_set = comm[p].dead_set /\ c.dead_nodes = comm[p].dead_nodes
      BY <1>2 DEF Comms
    <3>2. comm' = [comm EXCEPT ![p] = c] /\ net' = [net EXCEPT !.p2p = told, !.data = data]
      BY <2>2
    <3>3. data \in [Procs \X Procs -> Int]
      BY <1>2, <1>4 DEF Nets
    <3>4. net.p2p \in [Procs \X Procs -> Seq(Texts)]
      BY <1>2 DEF Nets
    <3>5. told \in [Procs \X Procs -> Seq(Texts)]
      BY <1>4, <3>4
    <3>6. \A a, b \in Procs : SaysDead(told[<<a, b>>]) => SaysDead(net.p2p[<<a, b>>])
      <4>1. \A a, b \in Procs : told[<<a, b>>] = IF <<a, b>> = <<p, q>> THEN Append(net.p2p[<<p, q>>], text)
                                                 ELSE net.p2p[<<a, b>>]
        BY <1>4, <3>4
      <4>2. net.p2p[<<p, q>>] \in Seq(Texts)
        BY <1>4, <3>4
      <4>3. SaysDead(Append(net.p2p[<<p, q>>], text)) => SaysDead(net.p2p[<<p, q>>])
        BY <1>4, <4>2, SaysDeadLemma
      <4>. QED BY <4>1, <4>3
    <3>. HIDE DEF c, data, told
    <3>7. net' \in Nets
      BY <1>2, <3>2, <3>3, <3>5 DEF Nets
    <3>8. OtherMessages /\ SameRevoke /\ net'.p2p = told
      BY <1>2, <3>2 DEF Nets, OtherMessages, SameTree, SameRevoke
    <3>. QED BY <3>1, <3>2, <3>6, <3>7, <3>8, OwnComm DEF NoNewDead
  <2>. QED BY <1>5, <2>1, <2>2
<1>. HIDE DEF Announces
<1>7. /\ at' \in [Procs -> Nat \ {0}] /\ sync' \in [Procs -> 0..2] /\ pc' \in [Procs -> Labels]
      /\ pc'[p] = "idle" \/ (pc'[p] \in {"test", "send", "recv"} /\ at' = at)
      /\ \A d \in Procs \ {p} : at'[d] = at[d] /\ pc'[d] = pc[d]
  <2>1. CASE Done(p)
    BY <1>2, <2>1, DoneFacts
  <2>2. CASE UNCHANGED <<at, sync>> /\ \E l \in {"test", "send", "recv"} : Goto(p, l)
    BY <1>2, <2>2 DEF Goto, Types, Labels, AliveLabels
  <2>. QED BY <1>5, <2>1, <2>2
<1>8. PlaceOf(p)'
  BY <1>1, <1>2, <1>3, <1>6, <1>7 DEF TypeInv, Places, PlaceOf, SamePart, AliveLabels, Op
<1>9. TypeInv'
  BY <1>1, <1>2, <1>6, <1>7, <1>8, ProgramStep
<1>10. RevokeKept
  BY <1>6 DEF RevokeKept, SameRevoke
<1>. QED BY <1>1, <1>2, <1>3, <1>6, <1>7, <1>9, <1>10 DEF Quiet

LEMMA RequestNbcFacts ==
    ASSUME TypeInv, NEW p \in Procs, RequestNbc(p)
    PROVE  TypeInv' /\ Quiet(p) /\ RevokeKept
<1>. DEFINE own == comm[p].Recent_Icollectives
            asked == net.nbcRequest \cup {root.Last_Send_Vector.rank}
<1>1. /\ pc[p] = "returned" /\ pc' = [pc EXCEPT ![p] = "nbc"]
      /\ UNCHANGED <<program, at, sync, alive, comm, root, outcome>>
      /\ net' = [net EXCEPT !.nbcResponse = own] \/ net' = [net EXCEPT !.nbcRequest = asked]
  BY DEF RequestNbc, Goto
<1>2. comm \in [Procs -> Comms] /\ comm[p] \in Comms /\ net \in Nets /\ root \in Roots /\ Types
  BY DEF TypeInv, Types
<1>3. own \in Nat \cup {None} /\ asked \in SUBSET (Procs \cup {None.rank})
  <2>1. root.Last_Send_Vector \in Vectors \cup {None}
    BY <1>2 DEF Roots
  <2>2. root.Last_Send_Vector.rank \in Procs \cup {None.rank}
    BY <2>1 DEF Vectors
  <2>. QED BY <1>2, <2>2 DEF Nets, Comms
<1>. HIDE DEF own, asked
<1>4. net' \in Nets
  <2>1. CASE net' = [net EXCEPT !.nbcResponse = own]
    BY <1>2, <1>3, <2>1 DEF Nets
  <2>2. CASE net' = [net EXCEPT !.nbcRequest = asked]
    BY <1>2, <1>3, <2>2 DEF Nets
  <2>. QED BY <1>1, <2>1, <2>2
<1>5. OtherMessages /\ SameRevoke /\ net'.p2p = net.p2p
  BY <1>1, <1>2 DEF Nets, OtherMessages, SameTree, SameRevoke
<1>6. alive[p] /\ at[p] \in 1..Len(program.ops)
  BY <1>1 DEF TypeInv, Places, PlaceOf, AliveLabels
<1>7. SamePart(p) /\ comm' \in [Procs -> Comms]
  BY <1>1, <1>2 DEF SamePart
<1>8. /\ at' \in [Procs -> Nat \ {0}] /\ sync' \in [Procs -> 0..2] /\ pc' \in [Procs -> Labels]
      /\ pc'[p] = "nbc" /\ at' = at
      /\ \A d \in Procs \ {p} : at'[d] = at[d] /\ pc'[d] = pc[d]
  BY <1>1, <1>2 DEF Types, Labels, AliveLabels
<1>9. PlaceOf(p)'
  BY <1>1, <1>2, <1>6, <1>7, <1>8 DEF TypeInv, Places, PlaceOf, SamePart, AliveLabels
<1>10. TypeInv'
  BY <1>1, <1>2, <1>4, <1>7, <1>8, <1>9, ProgramStep
<1>11. RevokeKept /\ NoNewDead
  BY <1>1, <1>5 DEF RevokeKept, SameRevoke, NoNewDead
<1>. QED BY <1>1, <1>2, <1>5, <1>6, <1>7, <1>8, <1>10, <1>11 DEF Quiet

-----------------------------------------------------------------------------
(* The reductions and broadcasts of Check_dead_processes *)

\* A step that only p takes part in, besides messages.
Alone(p) == /\ program' = program
            /\ \A q \in Procs \ {p} : /\ at'[q] = at[q] /\ pc'[q] = pc[q] /\ alive'[q] = alive[q]
                                      /\ comm'[q] = comm[q] /\ outcome'[q] = outcome[q]

\* The messages outside the tree stay as they are.
OutsideTree ==
    /\ SameRevoke /\ net'.dead = net.dead /\ net'.nbcBcast = net.nbcBcast /\ net'.p2p = net.p2p

LEMMA AloneTypes ==
    ASSUME TypeInv, NEW p \in Procs, Types', Alone(p), PlaceOf(p)'
    PROVE  TypeInv'
BY OthersStay DEF Alone, SamePart

LEMMA AloneComm ==
    ASSUME Types, NEW p \in Procs, NEW c \in Comms, comm' = [comm EXCEPT ![p] = c]
    PROVE  /\ comm' \in [Procs -> Comms] /\ comm'[p] = c
           /\ \A q \in Procs \ {p} : comm'[q] = comm[q]
BY DEF Types

LEMMA BeginReduceFacts ==
    ASSUME TypeInv, NEW p \in Procs, BeginReduce(p)
    PROVE  /\ TypeInv' /\ Alone(p) /\ UNCHANGED <<at, alive, root, net, outcome>>
           /\ pc[p] = "check" /\ pc'[p] = "reduce" /\ alive[p]
           /\ comm'[p].received = {} /\ comm'[p].vector.dead = 0
           /\ comm'[p].tag = IF comm[p].comm_revoked THEN Revoke ELSE Normal
           /\ comm'[p].Ireduce_Active = comm[p].Ireduce_Active
           /\ comm'[p].dead_nodes = comm[p].dead_nodes /\ comm'[p].dead_set = comm[p].dead_set
           /\ comm'[p].comm_revoked = comm[p].comm_revoked
<1>. DEFINE v == Send_Vector(p, comm[p].Recent_Icollectives, Option(p))
            t == IF comm[p].comm_revoked THEN Revoke ELSE Normal
            c == [comm[p] EXCEPT !.vector = v, !.received = {}, !.tag = t]
<1>1. /\ pc[p] = "check" /\ pc' = [pc EXCEPT ![p] = "reduce"]
      /\ UNCHANGED <<program, at, sync, alive, root, net, outcome>>
      /\ comm' = [comm EXCEPT ![p] = c]
  BY DEF BeginReduce, Goto
<1>2. comm[p] \in Comms /\ comm[p].Recent_Icollectives \in Nat /\ Types
  BY DEF TypeInv, Types, Comms
<1>3. /\ alive[p] /\ at[p] \in 1..Len(program.ops) /\ Option(p) \in NextOps
      /\ comm[p].Ireduce_Active = FALSE
  BY <1>1, <1>2, OptionType DEF TypeInv, Places, PlaceOf, AliveLabels, Comms
<1>4. v \in Vectors /\ v.dead = 0 /\ t \in Tags
  BY <1>2, <1>3 DEF Send_Vector, Vectors, Tags
<1>. HIDE DEF v
<1>5. /\ c \in Comms /\ c.received = {} /\ c.vector = v /\ c.tag = t
      /\ c.Ireduce_Active = comm[p].Ireduce_Active
      /\ c.dead_nodes = comm[p].dead_nodes /\ c.dead_set = comm[p].dead_set
      /\ c.comm_revoked = comm[p].comm_revoked
  BY <1>2, <1>4 DEF Comms
<1>. HIDE DEF c
<1>6. comm' \in [Procs -> Comms] /\ comm'[p] = c /\ \A q \in Procs \ {p} : comm'[q] = comm[q]
  BY <1>1, <1>2, <1>5, AloneComm
<1>7. pc' \in [Procs -> Labels] /\ pc'[p] = "reduce" /\ \A q \in Procs \ {p} : pc'[q] = pc[q]
  BY <1>1, <1>2 DEF Types, Labels, AliveLabels
<1>8. Types'
  BY <1>1, <1>2, <1>6, <1>7 DEF Types
<1>9. PlaceOf(p)'
  BY <1>1, <1>3, <1>5, <1>6, <1>7 DEF PlaceOf, AliveLabels, PointToPoint
<1>10. Alone(p)
  BY <1>1, <1>6, <1>7 DEF Alone
<1>. QED BY <1>1, <1>3, <1>4, <1>5, <1>6, <1>7, <1>8, <1>9, <1>10, AloneTypes

LEMMA ReceiveReduceFacts ==
    ASSUME TypeInv, NEW p \in Procs, NEW q \in Procs, ReceiveReduce(p, q)
    PROVE  /\ TypeInv' /\ Alone(p) /\ UNCHANGED <<at, pc, alive, root, outcome>> /\ OutsideTree
           /\ pc[p] = "reduce" \/ (pc[p] = "dead" /\ ~comm[p].Ireduce_Active)
           /\ q \in Successors[p] \ comm[p].received
           /\ net.reduce[comm[p].tag][q] # <<>>
           /\ net'.reduce = [net.reduce EXCEPT ![comm[p].tag][q] = Tail(@)] /\ net'.bcast = net.bcast
           /\ comm'[p].received = comm[p].received \cup {q}
           /\ comm'[p].vector.dead = Head(net.reduce[comm[p].tag][q]).dead + comm[p].vector.dead
           /\ comm'[p].tag = comm[p].tag /\ comm'[p].Ireduce_Active = comm[p].Ireduce_Active
           /\ comm'[p].dead_nodes = comm[p].dead_nodes /\ comm'[p].dead_set = comm[p].dead_set
           /\ comm'[p].comm_revoked = comm[p].comm_revoked
<1>. DEFINE tag == comm[p].tag
            rest == [net.reduce EXCEPT ![tag][q] = Tail(@)]
            part == Head(net.reduce[tag][q])
            sum == customReduceOp(part, comm[p].vector)
            joined == comm[p].received \cup {q}
            c == [comm[p] EXCEPT !.vector = sum, !.received = joined]
<1>1. /\ UNCHANGED <<program, at, sync, pc, alive, root, outcome>>
      /\ pc[p] = "reduce" \/ (pc[p] = "dead" /\ ~comm[p].Ireduce_Active)
      /\ q \in Successors[p] \ comm[p].received /\ net.reduce[tag][q] # <<>>
      /\ comm' = [comm EXCEPT ![p] = c]
      /\ net' = [net EXCEPT !.reduce = rest]
  BY DEF ReceiveReduce
<1>2. /\ net \in Nets /\ comm[p] \in Comms /\ Types
      /\ tag \in Tags /\ comm[p].vector \in Vectors /\ net.reduce[tag][q] \in Seq(Vectors)
  <2>1. net \in Nets /\ comm[p] \in Comms /\ Types
    BY DEF TypeInv, Types
  <2>2. tag \in Tags /\ comm[p].vector \in Vectors
    BY <2>1 DEF Comms
  <2>3. net.reduce \in [Tags -> [Procs -> Seq(Vectors)]]
    BY <2>1 DEF Nets
  <2>. QED BY <2>1, <2>2, <2>3
<1>3. part \in Vectors
  BY <1>1, <1>2
<1>4. sum \in Vectors /\ sum.dead = part.dead + comm[p].vector.dead
  BY <1>2, <1>3, ReduceOpType
<1>5. joined \in SUBSET Procs
  BY <1>2 DEF Comms
<1>. HIDE DEF tag, rest, part, sum, joined
<1>6. /\ c \in Comms /\ c.received = joined /\ c.vector = sum /\ c.tag = comm[p].tag
      /\ c.Ireduce_Active = comm[p].Ireduce_Active
      /\ c.dead_nodes = comm[p].dead_nodes /\ c.dead_set = comm[p].dead_set
      /\ c.comm_revoked = comm[p].comm_revoked
  BY <1>2, <1>4, <1>5 DEF Comms
<1>. HIDE DEF c
<1>7. comm'[p] = c /\ \A d \in Procs \ {p} : comm'[d] = comm[d]
  BY <1>1, <1>2, <1>6, AloneComm
<1>8. net'.reduce = rest /\ net'.bcast = net.bcast /\ OutsideTree
  BY <1>1, <1>2 DEF Nets, OutsideTree, SameRevoke
<1>9. TypeInv'
  BY ReceiveReduceTypes
<1>10. Alone(p)
  BY <1>1, <1>7 DEF Alone
<1>. QED BY <1>1, <1>4, <1>6, <1>7, <1>8, <1>9, <1>10 DEF rest, tag, part, joined

\* p's part has gone up the tree, or is complete at its root.
LEMMA CustomReduceFacts ==
    ASSUME TypeInv, NEW p \in Procs, Sim_FT_Custom_Reduce(p)
    PROVE  /\ TypeInv' /\ Alone(p) /\ UNCHANGED <<at, alive, comm, outcome>> /\ OutsideTree
           /\ pc[p] = "reduce" /\ alive[p] /\ comm[p].received = Successors[p]
           /\ net'.bcast = net.bcast
           /\ root'.Dead_Processes_Root = root.Dead_Processes_Root /\ root'.recent = root.recent
           /\ p = Root => /\ pc'[p] = "collect" /\ net'.reduce = net.reduce
                          /\ root'.Last_Send_Vector = comm[p].vector
           /\ p # Root => /\ pc'[p] = "bcast" /\ root' = root
                          /\ net'.reduce = [net.reduce EXCEPT ![comm[p].tag][p] = Append(@, comm[p].vector)]
<1>. DEFINE sent == [net.reduce EXCEPT ![comm[p].tag][p] = Append(@, comm[p].vector)]
<1>1. /\ pc[p] = "reduce" /\ comm[p].received = Successors[p]
      /\ UNCHANGED <<program, at, sync, alive, comm, outcome>>
      /\ p = Root => /\ pc' = [pc EXCEPT ![p] = "collect"]
                     /\ root' = [root EXCEPT !.Last_Send_Vector = comm[p].vector] /\ net' = net
      /\ p # Root => /\ pc' = [pc EXCEPT ![p] = "bcast"]
                     /\ net' = [net EXCEPT !.reduce = sent] /\ root' = root
  BY DEF Sim_FT_Custom_Reduce, Goto
<1>2. /\ net \in Nets /\ comm[p] \in Comms /\ root \in Roots /\ Types
      /\ comm[p].tag \in Tags /\ comm[p].vector \in Vectors
  BY DEF TypeInv, Types, Comms
<1>3. alive[p] /\ at[p] \in 1..Len(program.ops)
  BY <1>1 DEF TypeInv, Places, PlaceOf, AliveLabels
<1>4. sent \in [Tags -> [Procs -> Seq(Vectors)]]
  BY <1>2 DEF Nets
<1>. HIDE DEF sent
<1>5. /\ net' \in Nets /\ net'.bcast = net.bcast /\ OutsideTree
      /\ p = Root => net'.reduce = net.reduce
      /\ p # Root => net'.reduce = sent
  <2>1. CASE p = Root
    BY <1>1, <1>2, <2>1 DEF OutsideTree, SameRevoke
  <2>2. CASE p # Root
    BY <1>1, <1>2, <1>4, <2>2 DEF Nets, OutsideTree, SameRevoke
  <2>. QED BY <2>1, <2>2
<1>6. /\ root' \in Roots
      /\ root'.Dead_Processes_Root = root.Dead_Processes_Root /\ root'.recent = root.recent
      /\ p = Root => root'.Last_Send_Vector = comm[p].vector
      /\ p # Root => root' = root
  <2>1. CASE p = Root
    BY <1>1, <1>2, <2>1 DEF Roots
  <2>2. CASE p # Root
    BY <1>1, <1>2, <2>2
  <2>. QED BY <2>1, <2>2
<1>7. /\ pc' \in [Procs -> Labels] /\ \A q \in Procs \ {p} : pc'[q] = pc[q]
      /\ pc'[p] = IF p = Root THEN "collect" ELSE "bcast"
  BY <1>1, <1>2 DEF Types, Labels, AliveLabels
<1>8. Types'
  BY <1>1, <1>2, <1>5, <1>6, <1>7 DEF Types
<1>9. PlaceOf(p)'
  BY <1>1, <1>3, <1>7 DEF TypeInv, Places, PlaceOf, AliveLabels
<1>10. Alone(p)
  BY <1>1, <1>7 DEF Alone
<1>. QED BY <1>1, <1>3, <1>5, <1>6, <1>7, <1>8, <1>9, <1>10, AloneTypes DEF sent

LEMMA CustomIreduceFacts ==
    ASSUME TypeInv, NEW p \in Procs, Sim_FT_Custom_Ireduce(p)
    PROVE  /\ TypeInv' /\ Alone(p) /\ UNCHANGED <<at, pc, alive, outcome>> /\ OutsideTree
           /\ pc[p] = "dead" /\ ~alive[p] /\ ~comm[p].Ireduce_Active /\ comm[p].received = Successors[p]
           /\ net'.bcast = net.bcast
           /\ root'.Dead_Processes_Root = root.Dead_Processes_Root /\ root'.recent = root.recent
           /\ comm'[p].Ireduce_Active /\ comm'[p].received = {} /\ comm'[p].tag = comm[p].tag
           /\ comm'[p].dead_nodes = comm[p].dead_nodes /\ comm'[p].dead_set = comm[p].dead_set
           /\ comm'[p].comm_revoked = comm[p].comm_revoked
           /\ \E sum \in Vectors :
                /\ sum.dead = comm[p].vector.dead + 1
                /\ p = Root => net'.reduce = net.reduce /\ root'.Last_Send_Vector = sum
                /\ p # Root => /\ root' = root
                               /\ net'.reduce = [net.reduce EXCEPT ![comm[p].tag][p] = Append(@, sum)]
<1>. DEFINE sum == [comm[p].vector EXCEPT !.dead = @ + 1]
            sent == [net.reduce EXCEPT ![comm[p].tag][p] = Append(@, sum)]
            v == Send_Vector(p, comm[p].Recent_Icollectives, "Default")
            c == [comm[p] EXCEPT !.Ireduce_Active = TRUE, !.received = {}, !.vector = v]
<1>1. /\ pc[p] = "dead" /\ ~comm[p].Ireduce_Active /\ comm[p].received = Successors[p]
      /\ UNCHANGED <<program, at, sync, pc, alive, outcome>>
      /\ p = Root => root' = [root EXCEPT !.Last_Send_Vector = sum] /\ net' = net
      /\ p # Root => net' = [net EXCEPT !.reduce = sent] /\ root' = root
      /\ comm' = [comm EXCEPT ![p] = c]
  BY DEF Sim_FT_Custom_Ireduce
<1>2. /\ net \in Nets /\ comm[p] \in Comms /\ root \in Roots /\ Types
      /\ comm[p].tag \in Tags /\ comm[p].vector \in Vectors /\ comm[p].Recent_Icollectives \in Nat
  BY DEF TypeInv, Types, Comms
<1>3. ~alive[p]
  BY <1>1 DEF TypeInv, Places, PlaceOf, AliveLabels
<1>4. sum \in Vectors /\ sum.dead = comm[p].vector.dead + 1 /\ v \in Vectors /\ v.dead = 0
  BY <1>2 DEF Vectors, Send_Vector, NextOps
<1>. HIDE DEF sum, v
<1>5. sent \in [Tags -> [Procs -> Seq(Vectors)]]
  BY <1>2, <1>4 DEF Nets
<1>. HIDE DEF sent
<1>6. /\ c \in Comms /\ c.Ireduce_Active /\ c.received = {} /\ c.vector = v /\ c.tag = comm[p].tag
      /\ c.dead_nodes = comm[p].dead_nodes /\ c.dead_set = comm[p].dead_set
      /\ c.comm_revoked = comm[p].comm_revoked
  BY <1>2, <1>4 DEF Comms
<1>. HIDE DEF c
<1>7. comm' \in [Procs -> Comms] /\ comm'[p] = c /\ \A d \in Procs \ {p} : comm'[d] = comm[d]
  BY <1>1, <1>2, <1>6, AloneComm
<1>8. /\ net' \in Nets /\ net'.bcast = net.bcast /\ OutsideTree
      /\ p = Root => net'.reduce = net.reduce
      /\ p # Root => net'.reduce = sent
  <2>1. CASE p = Root
    BY <1>1, <1>2, <2>1 DEF OutsideTree, SameRevoke
  <2>2. CASE p # Root
    BY <1>1, <1>2, <1>5, <2>2 DEF Nets, OutsideTree, SameRevoke
  <2>. QED BY <2>1, <2>2
<1>9. /\ root' \in Roots
      /\ root'.Dead_Processes_Root = root.Dead_Processes_Root /\ root'.recent = root.recent
      /\ p = Root => root'.Last_Send_Vector = sum
      /\ p # Root => root' = root
  <2>1. CASE p = Root
    BY <1>1, <1>2, <1>4, <2>1 DEF Roots
  <2>2. CASE p # Root
    BY <1>1, <1>2, <2>2
  <2>. QED BY <2>1, <2>2
<1>10. Types'
  BY <1>1, <1>2, <1>7, <1>8, <1>9 DEF Types
<1>11. PlaceOf(p)'
  BY <1>1, <1>3, <1>4, <1>6, <1>7 DEF TypeInv, Places, PlaceOf, AliveLabels, PointToPoint
<1>12. Alone(p)
  BY <1>1, <1>7 DEF Alone
<1>. QED BY <1>1, <1>3, <1>4, <1>6, <1>7, <1>8, <1>9, <1>10, <1>11, <1>12, AloneTypes DEF sent

\* The broadcast that ends a check, as the root sends it.
LEMMA DeadBcastFacts ==
    ASSUME TypeInv, NEW p \in Procs, Sim_FT_Custom_Dead_bcast(p)
    PROVE  /\ TypeInv' /\ Alone(p) /\ UNCHANGED <<alive, root>> /\ OutsideTree
           /\ p = Root /\ pc[p] = "collect" /\ alive[p] /\ pc'[p] \in {"idle", "real", "returned"}
           /\ Cardinality(root.Dead_Processes_Root) >= root.Last_Send_Vector.dead
           /\ net'.reduce = net.reduce
           /\ \E m \in DeadMessages :
                /\ m.dead = root.Dead_Processes_Root /\ m.op \in NextOps
                /\ net'.bcast = [net.bcast EXCEPT ![comm[p].tag] = ToSuccessors(@, p, m)]
           /\ outcome' = [outcome EXCEPT ![p] = Append(outcome[p], root.Dead_Processes_Root)]
           /\ comm'[p].dead_nodes = root.Dead_Processes_Root
           /\ comm'[p].dead_set = IF root.Dead_Processes_Root = {} THEN comm[p].dead_nodes ELSE comm[p].dead_set
           /\ comm'[p].received = comm[p].received /\ comm'[p].tag = comm[p].tag
           /\ comm'[p].Ireduce_Active = comm[p].Ireduce_Active /\ ~comm[p].Ireduce_Active
           /\ comm'[p].vector.dead = comm[p].vector.dead
           /\ comm'[p].comm_revoked = comm[p].comm_revoked
<1>. DEFINE dead == root.Dead_Processes_Root
            n == IF Option(p) = "Comm_free" THEN net.nbcResponse ELSE 0
            m == [op |-> Option(p), dead |-> dead, nbc |-> n]
            sent == [net.bcast EXCEPT ![comm[p].tag] = ToSuccessors(@, p, m)]
            known == IF dead = {} THEN comm[p].dead_nodes ELSE comm[p].dead_set
            v == [comm[p].vector EXCEPT !.nbc = n]
            c == [comm[p] EXCEPT !.dead_nodes = dead, !.dead_set = known, !.vector = v]
<1>1. /\ p = Root /\ pc[p] = "collect" /\ Cardinality(dead) >= root.Last_Send_Vector.dead
      /\ net' = [net EXCEPT !.bcast = sent]
      /\ comm' = [comm EXCEPT ![p].dead_nodes = dead, ![p].dead_set = known, ![p].vector.nbc = n]
      /\ Return(p, dead) /\ UNCHANGED <<program, alive, root>>
  BY DEF Sim_FT_Custom_Dead_bcast
<1>2. net \in Nets /\ comm \in [Procs -> Comms] /\ comm[p] \in Comms /\ root \in Roots /\ Types
  BY DEF TypeInv, Types
<1>3. /\ comm[p].tag \in Tags /\ comm[p].vector \in Vectors /\ dead \in SUBSET Procs
      /\ net.bcast \in [Tags -> [Procs -> Seq(DeadMessages)]] /\ n \in Nat \cup {None}
      /\ known \in SUBSET Procs
  BY <1>2 DEF Comms, Roots, Nets
<1>4. /\ alive[p] /\ at[p] \in 1..Len(program.ops) /\ Option(p) \in NextOps
      /\ ~comm[p].Ireduce_Active
  BY <1>1, OptionType DEF TypeInv, Places, PlaceOf, AliveLabels
<1>5. m \in DeadMessages /\ m.dead = dead /\ m.op \in NextOps
  <2>. HIDE DEF n, dead
  <2>. QED BY <1>3, <1>4 DEF DeadMessages
<1>6. comm' = [comm EXCEPT ![p] = c]
  <2>. HIDE DEF n, dead, known
  <2>. QED BY <1>1, <1>2, <1>3 DEF Comms
<1>. HIDE DEF m, n, known
<1>7. ToSuccessors(net.bcast[comm[p].tag], p, m) \in [Procs -> Seq(DeadMessages)]
  BY <1>3, <1>5, ForwardType
<1>8. sent \in [Tags -> [Procs -> Seq(DeadMessages)]]
  BY <1>3, <1>7
<1>. HIDE DEF sent, dead
<1>9. /\ net' \in Nets /\ net'.reduce = net.reduce /\ net'.bcast = sent /\ OutsideTree
  BY <1>1, <1>2, <1>8 DEF Nets, OutsideTree, SameRevoke
<1>10. v \in Vectors /\ v.dead = comm[p].vector.dead
  BY <1>3 DEF Vectors
<1>. HIDE DEF v
<1>11. /\ c \in Comms /\ c.Ireduce_Active = comm[p].Ireduce_Active /\ c.received = comm[p].received
       /\ c.vector = v /\ c.tag = comm[p].tag /\ c.dead_nodes = dead /\ c.dead_set = known
       /\ c.comm_revoked = comm[p].comm_revoked
  BY <1>2, <1>3, <1>10 DEF Comms
<1>. HIDE DEF c
<1>12. comm' \in [Procs -> Comms] /\ comm'[p] = c /\ \A d \in Procs \ {p} : comm'[d] = comm[d]
  BY <1>2, <1>6, <1>11, AloneComm
<1>13. /\ at' \in [Procs -> Nat \ {0}] /\ sync' \in [Procs -> 0..2] /\ pc' \in [Procs -> Labels]
       /\ outcome' = [outcome EXCEPT ![p] = Append(outcome[p], dead)]
       /\ outcome' \in [Procs -> Seq((SUBSET Procs) \cup {Revoked})]
       /\ pc'[p] \in {"idle", "real", "returned"} /\ (pc'[p] # "idle" => at'[p] = at[p])
       /\ \A q \in Procs \ {p} : at'[q] = at[q] /\ pc'[q] = pc[q]
  BY <1>1, <1>2, <1>3, ReturnFacts
<1>14. Types'
  BY <1>1, <1>2, <1>9, <1>12, <1>13 DEF Types
<1>15. PlaceOf(p)'
  BY <1>1, <1>4, <1>10, <1>11, <1>12, <1>13 DEF TypeInv, Places, PlaceOf, AliveLabels
<1>16. \A q \in Procs \ {p} : outcome'[q] = outcome[q]
  BY <1>2, <1>13 DEF Types
<1>17. Alone(p)
  BY <1>1, <1>12, <1>13, <1>16 DEF Alone
<1>. QED BY <1>1, <1>4, <1>5, <1>9, <1>10, <1>11, <1>12, <1>13, <1>14, <1>15, <1>17, AloneTypes DEF sent, known, dead

\* The same when the root has failed.
LEMMA DeadBcastDeadFacts ==
    ASSUME TypeInv, NEW p \in Procs, DeadBcastDead(p), root.Last_Send_Vector \in Vectors
    PROVE  /\ TypeInv' /\ Alone(p) /\ UNCHANGED <<at, alive, root, outcome>> /\ OutsideTree
           /\ p = Root /\ pc[p] = "dead" /\ ~alive[p] /\ comm[p].Ireduce_Active
           /\ pc'[p] \in {"dead", "Shrink", "Comm_free", "Finalize"}
           /\ Cardinality(root.Dead_Processes_Root) >= root.Last_Send_Vector.dead
           /\ net'.reduce = net.reduce
           /\ \E m \in DeadMessages :
                /\ m.dead = root.Dead_Processes_Root /\ m.op \in NextOps
                /\ net'.bcast = [net.bcast EXCEPT ![comm[p].tag] = ToSuccessors(@, p, m)]
           /\ comm'[p].dead_nodes = comm[p].dead_nodes /\ comm'[p].dead_set = comm[p].dead_set
           /\ comm'[p].received = {} /\ comm'[p].vector.dead = 0
           /\ comm'[p].tag = comm[p].tag /\ ~comm'[p].Ireduce_Active
           /\ comm'[p].comm_revoked = comm[p].comm_revoked
<1>. DEFINE dead == root.Dead_Processes_Root
            op == IF dead = Procs THEN "Finalize" ELSE root.Last_Send_Vector.op
            n == IF op = "Comm_free" THEN net.nbcResponse ELSE 0
            m == [op |-> op, dead |-> dead, nbc |-> n]
            sent == [net.bcast EXCEPT ![comm[p].tag] = ToSuccessors(@, p, m)]
            nbc == IF op = "Comm_free" THEN n ELSE comm[p].vector.nbc
            tag == IF op = "RevokedComm" THEN Revoke ELSE comm[p].tag
            v == [comm[p].vector EXCEPT !.nbc = nbc]
            c == [comm[p] EXCEPT !.Ireduce_Active = FALSE, !.vector = v, !.tag = tag]
            label == IF op \in {"Shrink", "Comm_free", "Finalize"} THEN op ELSE "dead"
<1>1. /\ p = Root /\ pc[p] = "dead" /\ comm[p].Ireduce_Active
      /\ Cardinality(dead) >= root.Last_Send_Vector.dead
      /\ net' = [net EXCEPT !.bcast = sent]
      /\ Follow(p, op, n) /\ UNCHANGED <<program, at, sync, alive, root, outcome>>
  BY DEF DeadBcastDead
<1>2. net \in Nets /\ comm \in [Procs -> Comms] /\ comm[p] \in Comms /\ root \in Roots /\ Types
  BY DEF TypeInv, Types
<1>3. /\ comm[p].tag \in Tags /\ comm[p].vector \in Vectors /\ dead \in SUBSET Procs
      /\ net.bcast \in [Tags -> [Procs -> Seq(DeadMessages)]] /\ n \in Nat \cup {None}
  BY <1>2 DEF Comms, Roots, Nets
<1>4. ~alive[p] /\ comm[p].received = {} /\ comm[p].vector.dead = 0
  BY <1>1 DEF TypeInv, Places, PlaceOf
<1>5. op \in NextOps /\ label \in {"dead", "Shrink", "Comm_free", "Finalize"}
  BY DEF Vectors, NextOps
<1>6. m \in DeadMessages /\ m.dead = dead /\ m.op \in NextOps
  <2>. HIDE DEF n, dead, op
  <2>. QED BY <1>3, <1>5 DEF DeadMessages
<1>7. tag = comm[p].tag /\ nbc \in Nat \cup {None}
  <2>1. comm[p].vector.nbc \in Nat \cup {None}
    BY <1>3 DEF Vectors
  <2>. HIDE DEF op, n
  <2>. QED BY <1>3, <1>5, <2>1 DEF NextOps
<1>8. comm' = [comm EXCEPT ![p] = c] /\ pc' = [pc EXCEPT ![p] = label]
  <2>. HIDE DEF n, op
  <2>. QED BY <1>1, <1>2, <1>3 DEF Comms, Follow, Goto
<1>. HIDE DEF m, n, op, nbc, tag, label
<1>9. ToSuccessors(net.bcast[comm[p].tag], p, m) \in [Procs -> Seq(DeadMessages)]
  BY <1>3, <1>6, ForwardType
<1>10. sent \in [Tags -> [Procs -> Seq(DeadMessages)]]
  BY <1>3, <1>9
<1>. HIDE DEF sent, dead
<1>11. /\ net' \in Nets /\ net'.reduce = net.reduce /\ net'.bcast = sent /\ OutsideTree
  BY <1>1, <1>2, <1>10 DEF Nets, OutsideTree, SameRevoke
<1>12. v \in Vectors /\ v.dead = comm[p].vector.dead
  BY <1>3, <1>7 DEF Vectors
<1>. HIDE DEF v
<1>13. /\ c \in Comms /\ c.Ireduce_Active = FALSE /\ c.received = comm[p].received
       /\ c.vector = v /\ c.tag = comm[p].tag
       /\ c.dead_nodes = comm[p].dead_nodes /\ c.dead_set = comm[p].dead_set
       /\ c.comm_revoked = comm[p].comm_revoked
  BY <1>2, <1>3, <1>7, <1>12 DEF Comms
<1>. HIDE DEF c
<1>14. comm' \in [Procs -> Comms] /\ comm'[p] = c /\ \A d \in Procs \ {p} : comm'[d] = comm[d]
  BY <1>2, <1>8, <1>13, AloneComm
<1>15. pc' \in [Procs -> Labels] /\ pc'[p] = label /\ \A q \in Procs \ {p} : pc'[q] = pc[q]
  BY <1>2, <1>5, <1>8 DEF Types, Labels
<1>16. Types'
  BY <1>1, <1>2, <1>11, <1>14, <1>15 DEF Types
<1>17. PlaceOf(p)'
  BY <1>1, <1>4, <1>5, <1>13, <1>14, <1>15 DEF PlaceOf, AliveLabels
<1>18. Alone(p)
  BY <1>1, <1>14, <1>15 DEF Alone
<1>. QED BY <1>1, <1>4, <1>5, <1>6, <1>11, <1>12, <1>13, <1>14, <1>15, <1>16, <1>17, <1>18, AloneTypes DEF sent, dead

\* A process passes the broadcast on, and leaves the check.
LEMMA PassBcastFacts ==
    ASSUME TypeInv, NEW p \in Procs, ReceiveDeadBcast(p)
    PROVE  /\ TypeInv' /\ Alone(p) /\ UNCHANGED <<alive, root>> /\ OutsideTree
           /\ pc[p] = "bcast" /\ alive[p] /\ pc'[p] \in {"idle", "real", "returned"}
           /\ net'.reduce = net.reduce /\ net.bcast[comm[p].tag][p] # <<>>
           /\ net'.bcast = [net.bcast EXCEPT ![comm[p].tag] = Sim_FT_Custom_Ibcast_NRoot(@, p)]
           /\ comm'[p].received = comm[p].received /\ comm'[p].tag = comm[p].tag
           /\ comm'[p].Ireduce_Active = comm[p].Ireduce_Active /\ ~comm[p].Ireduce_Active
           /\ comm'[p].vector.dead = comm[p].vector.dead
           /\ comm[p].comm_revoked => comm'[p].comm_revoked
           /\ LET m == Head(net.bcast[comm[p].tag][p]) IN
                /\ m \in DeadMessages
                /\ m.op # "RevokedComm" =>
                    /\ comm'[p].dead_nodes = IF Cardinality(m.dead) \in {0, Cardinality(comm[p].dead_nodes)}
                                             THEN comm[p].dead_nodes ELSE m.dead
                    /\ comm'[p].dead_set = IF Cardinality(comm[p].dead_set) # Cardinality(comm'[p].dead_nodes)
                                           THEN comm'[p].dead_nodes ELSE comm[p].dead_set
                    /\ outcome' = [outcome EXCEPT ![p] = Append(outcome[p], m.dead)]
<1>. DEFINE old == net.bcast[comm[p].tag]
            m == Head(old[p])
            sent == [net.bcast EXCEPT ![comm[p].tag] = Sim_FT_Custom_Ibcast_NRoot(@, p)]
            nodes == IF Cardinality(m.dead) \in {0, Cardinality(comm[p].dead_nodes)}
                     THEN comm[p].dead_nodes ELSE m.dead
            o == IF m.op = "RevokedComm" THEN Revoked ELSE m.dead
            reads == IF m.op = "RevokedComm" THEN {comm[p].dead_nodes, Procs} ELSE {nodes}
            v == [comm[p].vector EXCEPT !.nbc = m.nbc]
<1>1. /\ pc[p] = "bcast" /\ old[p] # <<>>
      /\ net' = [net EXCEPT !.bcast = sent]
      /\ Return(p, o) /\ UNCHANGED <<program, alive, root>>
  BY DEF ReceiveDeadBcast
<1>2. PICK read \in reads :
        comm' = [comm EXCEPT
                    ![p].dead_nodes = read,
                    ![p].dead_set = IF Cardinality(@) # Cardinality(read) THEN read ELSE @,
                    ![p].comm_revoked = @ \/ m.op = "RevokedComm",
                    ![p].vector.nbc = m.nbc]
  BY DEF ReceiveDeadBcast
<1>3. net \in Nets /\ comm \in [Procs -> Comms] /\ comm[p] \in Comms /\ root \in Roots /\ Types
  BY DEF TypeInv, Types
<1>4. /\ comm[p].tag \in Tags /\ comm[p].vector \in Vectors
      /\ comm[p].dead_nodes \in SUBSET Procs /\ comm[p].dead_set \in SUBSET Procs
      /\ comm[p].comm_revoked \in BOOLEAN
      /\ net.bcast \in [Tags -> [Procs -> Seq(DeadMessages)]]
  BY <1>3 DEF Comms, Nets
<1>5. old \in [Procs -> Seq(DeadMessages)]
  BY <1>4
<1>. HIDE DEF old
<1>6. m \in DeadMessages /\ Sim_FT_Custom_Ibcast_NRoot(old, p) \in [Procs -> Seq(DeadMessages)]
  BY <1>1, <1>5, PassOnType
<1>7. sent \in [Tags -> [Procs -> Seq(DeadMessages)]]
  BY <1>4, <1>6 DEF old
<1>8. alive[p] /\ at[p] \in 1..Len(program.ops) /\ ~comm[p].Ireduce_Active
  BY <1>1 DEF TypeInv, Places, PlaceOf, AliveLabels
<1>. DEFINE known == IF Cardinality(comm[p].dead_set) # Cardinality(read) THEN read ELSE comm[p].dead_set
            revoked == comm[p].comm_revoked \/ m.op = "RevokedComm"
            c == [comm[p] EXCEPT !.dead_nodes = read, !.dead_set = known, !.comm_revoked = revoked, !.vector = v]
<1>. HIDE DEF m
<1>9. comm' = [comm EXCEPT ![p] = c]
  <2>. HIDE DEF reads
  <2>. QED BY <1>2, <1>3, <1>4 DEF Comms
<1>10. /\ m.dead \in SUBSET Procs /\ m.nbc \in Nat \cup {None} /\ nodes \in SUBSET Procs
       /\ read \in SUBSET Procs /\ known \in SUBSET Procs /\ o \in (SUBSET Procs) \cup {Revoked}
       /\ revoked \in BOOLEAN
  BY <1>4, <1>6, <1>2 DEF DeadMessages
<1>11. v \in Vectors /\ v.dead = comm[p].vector.dead
  BY <1>4, <1>10 DEF Vectors
<1>12. comm[p].comm_revoked => revoked
  OBVIOUS
<1>13. m.op # "RevokedComm" => read = nodes /\ o = m.dead
  BY <1>2
<1>. HIDE DEF sent, o, reads, v, revoked
<1>14. /\ net' \in Nets /\ net'.reduce = net.reduce /\ net'.bcast = sent /\ OutsideTree
  BY <1>1, <1>3, <1>7 DEF Nets, OutsideTree, SameRevoke
<1>. HIDE DEF nodes
<1>15. known = IF Cardinality(comm[p].dead_set) # Cardinality(read) THEN read ELSE comm[p].dead_set
  OBVIOUS
<1>. HIDE DEF known
<1>16. /\ c \in Comms /\ c.Ireduce_Active = comm[p].Ireduce_Active /\ c.received = comm[p].received
       /\ c.vector = v /\ c.tag = comm[p].tag /\ c.dead_nodes = read /\ c.dead_set = known
       /\ c.comm_revoked = revoked
  BY <1>3, <1>10, <1>11 DEF Comms
<1>. HIDE DEF c
<1>17. comm' \in [Procs -> Comms] /\ comm'[p] = c /\ \A d \in Procs \ {p} : comm'[d] = comm[d]
  BY <1>3, <1>9, <1>16, AloneComm
<1>18. /\ at' \in [Procs -> Nat \ {0}] /\ sync' \in [Procs -> 0..2] /\ pc' \in [Procs -> Labels]
       /\ outcome' = [outcome EXCEPT ![p] = Append(outcome[p], o)]
       /\ outcome' \in [Procs -> Seq((SUBSET Procs) \cup {Revoked})]
       /\ pc'[p] \in {"idle", "real", "returned"} /\ (pc'[p] # "idle" => at'[p] = at[p])
       /\ \A q \in Procs \ {p} : at'[q] = at[q] /\ pc'[q] = pc[q]
  BY <1>1, <1>3, <1>10, ReturnFacts
<1>19. Types'
  BY <1>1, <1>3, <1>14, <1>17, <1>18 DEF Types
<1>20. PlaceOf(p)'
  BY <1>1, <1>8, <1>11, <1>16, <1>17, <1>18 DEF TypeInv, Places, PlaceOf, AliveLabels
<1>21. \A q \in Procs \ {p} : outcome'[q] = outcome[q]
  BY <1>3, <1>18 DEF Types
<1>22. Alone(p)
  BY <1>1, <1>17, <1>18, <1>21 DEF Alone
<1>23. TypeInv'
  BY <1>19, <1>20, <1>22, AloneTypes
<1>24. m.op # "RevokedComm" =>
         /\ comm'[p].dead_nodes = nodes
         /\ comm'[p].dead_set = IF Cardinality(comm[p].dead_set) # Cardinality(comm'[p].dead_nodes)
                                THEN comm'[p].dead_nodes ELSE comm[p].dead_set
         /\ outcome' = [outcome EXCEPT ![p] = Append(outcome[p], m.dead)]
  BY <1>13, <1>15, <1>16, <1>17, <1>18
<1>. QED BY <1>1, <1>6, <1>8, <1>11, <1>12, <1>14, <1>16, <1>17, <1>18, <1>22, <1>23, <1>24 DEF sent, old, m, nodes

LEMMA PassBcastDeadFacts ==
    ASSUME TypeInv, NEW p \in Procs, ReceiveDeadBcastDead(p)
    PROVE  /\ TypeInv' /\ Alone(p) /\ UNCHANGED <<at, alive, root, outcome>> /\ OutsideTree
           /\ pc[p] = "dead" /\ ~alive[p] /\ comm[p].Ireduce_Active
           /\ pc'[p] \in {"dead", "Shrink", "Comm_free", "Finalize"}
           /\ net'.reduce = net.reduce /\ net.bcast[comm[p].tag][p] # <<>>
           /\ net'.bcast = [net.bcast EXCEPT ![comm[p].tag] = Sim_FT_Custom_Ibcast_NRoot(@, p)]
           /\ Head(net.bcast[comm[p].tag][p]) \in DeadMessages
           /\ comm'[p].dead_nodes = comm[p].dead_nodes /\ comm'[p].dead_set = comm[p].dead_set
           /\ comm'[p].received = {} /\ comm'[p].vector.dead = 0 /\ ~comm'[p].Ireduce_Active
           /\ Head(net.bcast[comm[p].tag][p]).op # "RevokedComm" => comm'[p].tag = comm[p].tag
           /\ comm'[p].comm_revoked = comm[p].comm_revoked
<1>. DEFINE old == net.bcast[comm[p].tag]
            m == Head(old[p])
            sent == [net.bcast EXCEPT ![comm[p].tag] = Sim_FT_Custom_Ibcast_NRoot(@, p)]
            nbc == IF m.op = "Comm_free" THEN m.nbc ELSE comm[p].vector.nbc
            tag == IF m.op = "RevokedComm" THEN Revoke ELSE comm[p].tag
            v == [comm[p].vector EXCEPT !.nbc = nbc]
            c == [comm[p] EXCEPT !.Ireduce_Active = FALSE, !.vector = v, !.tag = tag]
            label == IF m.op \in {"Shrink", "Comm_free", "Finalize"} THEN m.op ELSE "dead"
<1>1. /\ pc[p] = "dead" /\ comm[p].Ireduce_Active /\ old[p] # <<>>
      /\ net' = [net EXCEPT !.bcast = sent]
      /\ Follow(p, m.op, m.nbc) /\ UNCHANGED <<program, at, sync, alive, root, outcome>>
  BY DEF ReceiveDeadBcastDead
<1>2. net \in Nets /\ comm \in [Procs -> Comms] /\ comm[p] \in Comms /\ root \in Roots /\ Types
  BY DEF TypeInv, Types
<1>3. /\ comm[p].tag \in Tags /\ comm[p].vector \in Vectors
      /\ net.bcast \in [Tags -> [Procs -> Seq(DeadMessages)]]
  BY <1>2 DEF Comms, Nets
<1>4. old \in [Procs -> Seq(DeadMessages)]
  BY <1>3
<1>. HIDE DEF old
<1>5. m \in DeadMessages /\ Sim_FT_Custom_Ibcast_NRoot(old, p) \in [Procs -> Seq(DeadMessages)]
  BY <1>1, <1>4, PassOnType
<1>6. sent \in [Tags -> [Procs -> Seq(DeadMessages)]]
  BY <1>3, <1>5 DEF old
<1>7. ~alive[p] /\ comm[p].received = {} /\ comm[p].vector.dead = 0
  BY <1>1 DEF TypeInv, Places, PlaceOf
<1>. HIDE DEF m
<1>8. comm' = [comm EXCEPT ![p] = c] /\ pc' = [pc EXCEPT ![p] = label]
  BY <1>1, <1>2, <1>3 DEF Comms, Follow, Goto
<1>9. label \in {"dead", "Shrink", "Comm_free", "Finalize"} /\ tag \in Tags /\ nbc \in Nat \cup {None}
  <2>1. comm[p].vector.nbc \in Nat \cup {None} /\ m.nbc \in Nat \cup {None}
    BY <1>3, <1>5 DEF Vectors, DeadMessages
  <2>. QED BY <1>3, <2>1 DEF Tags
<1>10. m.op # "RevokedComm" => tag = comm[p].tag
  OBVIOUS
<1>. HIDE DEF sent, nbc, tag, label
<1>11. /\ net' \in Nets /\ net'.reduce = net.reduce /\ net'.bcast = sent /\ OutsideTree
  BY <1>1, <1>2, <1>6 DEF Nets, OutsideTree, SameRevoke
<1>12. v \in Vectors /\ v.dead = comm[p].vector.dead
  BY <1>3, <1>9 DEF Vectors
<1>. HIDE DEF v
<1>13. /\ c \in Comms /\ c.Ireduce_Active = FALSE /\ c.received = comm[p].received
       /\ c.vector = v /\ c.tag = tag
       /\ c.dead_nodes = comm[p].dead_nodes /\ c.dead_set = comm[p].dead_set
       /\ c.comm_revoked = comm[p].comm_revoked
  BY <1>2, <1>3, <1>9, <1>12 DEF Comms
<1>. HIDE DEF c
<1>14. comm' \in [Procs -> Comms] /\ comm'[p] = c /\ \A d \in Procs \ {p} : comm'[d] = comm[d]
  BY <1>2, <1>8, <1>13, AloneComm
<1>15. pc' \in [Procs -> Labels] /\ pc'[p] = label /\ \A q \in Procs \ {p} : pc'[q] = pc[q]
  BY <1>2, <1>8, <1>9 DEF Types, Labels
<1>16. Types'
  BY <1>1, <1>2, <1>11, <1>14, <1>15 DEF Types
<1>17. PlaceOf(p)'
  BY <1>1, <1>7, <1>9, <1>13, <1>14, <1>15 DEF PlaceOf, AliveLabels
<1>18. Alone(p)
  BY <1>1, <1>14, <1>15 DEF Alone
<1>. QED BY <1>1, <1>5, <1>7, <1>9, <1>10, <1>11, <1>12, <1>13, <1>14, <1>15, <1>16, <1>17, <1>18, AloneTypes DEF sent, old, m

LEMMA RequestNbcDeadFacts ==
    ASSUME TypeInv, NEW p \in Procs, RequestNbcDead(p)
    PROVE  /\ TypeInv' /\ Stays /\ UNCHANGED <<comm, root>> /\ OutsideTree /\ SameTree
<1>. DEFINE asked == {root.Last_Send_Vector.rank}
<1>1. /\ UNCHANGED <<program, at, sync, pc, alive, comm, root, outcome>>
      /\ net' = [net EXCEPT !.nbcRequest = asked]
  BY DEF RequestNbcDead
<1>2. net \in Nets /\ root \in Roots /\ Types
  BY DEF TypeInv, Types
<1>3. asked \in SUBSET (Procs \cup {None.rank})
  <2>1. root.Last_Send_Vector \in Vectors \cup {None}
    BY <1>2 DEF Roots
  <2>. QED BY <2>1 DEF Vectors
<1>. HIDE DEF asked
<1>4. net' \in Nets
  BY <1>1, <1>2, <1>3 DEF Nets
<1>5. OutsideTree /\ SameTree
  BY <1>1, <1>2 DEF Nets, OutsideTree, SameTree, SameRevoke
<1>6. \A q \in Procs : SamePart(q)
  BY <1>1 DEF SamePart
<1>7. TypeInv'
  BY <1>1, <1>2, <1>4, <1>6, QuietTypes DEF Types
<1>. QED BY <1>1, <1>5, <1>7 DEF Stays

LEMMA SwitchTagsFacts ==
    ASSUME TypeInv, NEW p \in Procs, SwitchTags(p)
    PROVE  /\ TypeInv' /\ Stays /\ UNCHANGED <<root, net>> /\ comm[p].comm_revoked
           /\ comm'[p].comm_revoked /\ \A q \in Procs \ {p} : comm'[q] = comm[q]
<1>. DEFINE c == [comm[p] EXCEPT !.tag = Revoke]
<1>1. /\ UNCHANGED <<program, at, sync, pc, alive, root, net, outcome>>
      /\ comm' = [comm EXCEPT ![p] = c] /\ comm[p].comm_revoked
  BY DEF SwitchTags, NewTags
<1>2. net \in Nets /\ comm[p] \in Comms /\ Types
  BY DEF TypeInv, Types
<1>3. /\ c \in Comms /\ c.Ireduce_Active = comm[p].Ireduce_Active /\ c.received = comm[p].received
      /\ c.vector = comm[p].vector /\ c.comm_revoked = comm[p].comm_revoked
  BY <1>2 DEF Comms, Tags
<1>. HIDE DEF c
<1>4. comm' \in [Procs -> Comms] /\ comm'[p] = c /\ \A d \in Procs \ {p} : comm'[d] = comm[d]
  BY <1>1, <1>2, <1>3, AloneComm
<1>5. Types'
  BY <1>1, <1>2, <1>4 DEF Types
<1>6. PlaceOf(p)'
  BY <1>1, <1>3, <1>4 DEF TypeInv, Places, PlaceOf
<1>7. Alone(p)
  BY <1>1, <1>4 DEF Alone
<1>. QED BY <1>1, <1>3, <1>4, <1>5, <1>6, <1>7, AloneTypes DEF Stays

LEMMA KillMeFacts ==
    ASSUME TypeInv, NEW p \in Procs, Sim_FT_kill_me(p)
    PROVE  /\ TypeInv' /\ program' = program /\ UNCHANGED <<at, root, outcome>> /\ SameTree /\ SameRevoke
           /\ net'.p2p = net.p2p /\ net'.nbcBcast = net.nbcBcast /\ net'.dead = net.dead \cup {p}
           /\ pc[p] = "idle" /\ alive[p] /\ pc'[p] = "dead"
           /\ alive' = [alive EXCEPT ![p] = FALSE]
           /\ \A q \in Procs \ {p} : pc'[q] = pc[q] /\ comm'[q] = comm[q]
           /\ comm'[p].received = {} /\ comm'[p].vector.dead = 0
           /\ comm'[p].tag = IF comm[p].comm_revoked THEN Revoke ELSE Normal
           /\ ~comm'[p].Ireduce_Active /\ ~comm[p].Ireduce_Active
           /\ comm'[p].dead_nodes = comm[p].dead_nodes /\ comm'[p].dead_set = comm[p].dead_set
           /\ comm'[p].comm_revoked = comm[p].comm_revoked
<1>. DEFINE v == Send_Vector(p, comm[p].Recent_Icollectives, "Default")
            t == IF comm[p].comm_revoked THEN Revoke ELSE Normal
            c == [comm[p] EXCEPT !.vector = v, !.received = {}, !.tag = t]
            failed == net.dead \cup {p}
<1>1. /\ pc[p] = "idle" /\ alive[p] /\ pc' = [pc EXCEPT ![p] = "dead"]
      /\ alive' = [alive EXCEPT ![p] = FALSE]
      /\ UNCHANGED <<program, at, sync, root, outcome>>
      /\ comm' = [comm EXCEPT ![p] = c]
      /\ net' = [net EXCEPT !.dead = failed]
  BY DEF Sim_FT_kill_me, Goto
<1>2. comm[p] \in Comms /\ comm[p].Recent_Icollectives \in Nat /\ net \in Nets /\ Types
  BY DEF TypeInv, Types, Comms
<1>3. ~comm[p].Ireduce_Active
  BY <1>1 DEF TypeInv, Places, PlaceOf
<1>4. v \in Vectors /\ v.dead = 0 /\ t \in Tags
  BY <1>2 DEF Send_Vector, Vectors, Tags, NextOps
<1>5. failed \in SUBSET Procs
  BY <1>2 DEF Nets
<1>. HIDE DEF v, failed
<1>6. /\ c \in Comms /\ c.received = {} /\ c.vector = v /\ c.tag = t
      /\ c.Ireduce_Active = comm[p].Ireduce_Active
      /\ c.dead_nodes = comm[p].dead_nodes /\ c.dead_set = comm[p].dead_set
      /\ c.comm_revoked = comm[p].comm_revoked
  BY <1>2, <1>4 DEF Comms
<1>. HIDE DEF c
<1>7. comm' \in [Procs -> Comms] /\ comm'[p] = c /\ \A q \in Procs \ {p} : comm'[q] = comm[q]
  BY <1>1, <1>2, <1>6, AloneComm
<1>8. /\ pc' \in [Procs -> Labels] /\ pc'[p] = "dead" /\ \A q \in Procs \ {p} : pc'[q] = pc[q]
      /\ alive' \in [Procs -> BOOLEAN] /\ ~alive'[p] /\ \A q \in Procs \ {p} : alive'[q] = alive[q]
  BY <1>1, <1>2 DEF Types, Labels
<1>9. net' \in Nets
  BY <1>1, <1>2, <1>5 DEF Nets
<1>10. /\ net'.dead = failed /\ SameTree /\ SameRevoke
       /\ net'.p2p = net.p2p /\ net'.nbcBcast = net.nbcBcast
  BY <1>1, <1>2 DEF Nets, SameTree, SameRevoke
<1>11. Types'
  BY <1>1, <1>2, <1>7, <1>8, <1>9 DEF Types
<1>12. PlaceOf(p)'
  BY <1>3, <1>6, <1>7, <1>8 DEF PlaceOf, AliveLabels
<1>13. TypeInv'
  BY <1>1, <1>7, <1>8, <1>11, <1>12, OthersStay DEF SamePart
<1>. QED BY <1>1, <1>3, <1>4, <1>6, <1>7, <1>8, <1>10, <1>13 DEF failed

LEMMA RealCollectiveFacts ==
    ASSUME TypeInv, RealCollective
    PROVE  /\ TypeInv' /\ UNCHANGED <<program, alive, comm, root, net, outcome>>
           /\ \A p \in Procs : pc[p] \notin {"check", "reduce", "collect", "bcast"}
           /\ \A p \in Procs : pc'[p] \notin {"check", "reduce", "collect", "bcast"}
<1>1. PICK op \in {"Collective", "Shrink", "Comm_free", "Finalize"} :
        /\ \A p \in Procs : IF alive[p] THEN pc[p] = "real" /\ Op(p).op = op ELSE pc[p] = op
        /\ pc' = [p \in Procs |-> IF op \in {"Comm_free", "Finalize"} THEN "exited"
                                  ELSE IF alive[p] THEN "idle" ELSE "dead"]
        /\ at' = [p \in Procs |-> IF alive[p] THEN at[p] + 1 ELSE at[p]]
        /\ sync' = [p \in Procs |-> 0]
        /\ UNCHANGED <<program, alive, comm, root, net, outcome>>
  BY DEF RealCollective
<1>2. Types /\ \A p \in Procs : PlaceOf(p)
  BY DEF TypeInv, Places
<1>3. pc' \in [Procs -> Labels] /\ at' \in [Procs -> Nat \ {0}] /\ sync' \in [Procs -> 0..2]
  BY <1>1, <1>2 DEF Types, Labels, AliveLabels
<1>4. Types'
  BY <1>1, <1>2, <1>3 DEF Types
<1>5. ASSUME NEW p \in Procs PROVE PlaceOf(p)'
  <2>1. pc'[p] \in {"exited", IF alive[p] THEN "idle" ELSE "dead"}
    BY <1>1
  <2>2. pc[p] # "dead"
    BY <1>1
  <2>3. ~comm[p].Ireduce_Active /\ comm[p].received \subseteq Successors[p]
    BY <1>2, <2>2 DEF PlaceOf
  <2>. QED BY <1>1, <2>1, <2>3 DEF PlaceOf, AliveLabels
<1>. QED BY <1>1, <1>4, <1>5 DEF TypeInv, Places

-----------------------------------------------------------------------------
(* What is on the way along the edges of the tree, until the communicator is revoked *)

\* p has passed its part of the reduction on and waits for the broadcast.
Waits(p) == pc[p] \in {"collect", "bcast"} \/ comm[p].Ireduce_Active

\* p collects the parts of its successors, and has those of Joined(p).
Collecting(p) == pc[p] = "reduce" \/ (~alive[p] /\ ~comm[p].Ireduce_Active)
Joined(p) == IF Collecting(p) THEN comm[p].received ELSE {}

up(q) == net.reduce[Normal][q]
down(q) == net.bcast[Normal][q]

\* The successor q of p has nothing on the way, its part is on the way, its part has been
\* received, or the broadcast is on the way.
Edge(p, q) ==
    \/ ~Waits(q) /\ up(q) = <<>> /\ down(q) = <<>> /\ ~Waits(p) /\ q \notin Joined(p)
    \/ Waits(q) /\ Len(up(q)) = 1 /\ down(q) = <<>> /\ ~Waits(p) /\ q \notin Joined(p)
    \/ Waits(q) /\ up(q) = <<>> /\ down(q) = <<>> /\ (Waits(p) \/ q \in Joined(p))
    \/ Waits(q) /\ up(q) = <<>> /\ Len(down(q)) = 1 /\ ~Waits(p) /\ q \notin Joined(p)

Edges == /\ \A p \in Procs : \A q \in Successors[p] : Edge(p, q)
         /\ up(Root) = <<>> /\ down(Root) = <<>>
         /\ \A p \in Procs : comm[p].tag = Normal

\* A part that is on the way, that p collects, or that the root has counts the dead.
PartRight(q) == up(q) # <<>> => Head(up(q)).dead = Cardinality(DeadProcs \cap Subtree(q))
SumRight(p) == Collecting(p) => comm[p].vector.dead = Cardinality(Below(DeadProcs, Joined(p)))
TotalRight == Waits(Root) => root.Last_Send_Vector.dead = Cardinality(DeadProcs)
Counts == (\A p \in Procs : PartRight(p) /\ SumRight(p)) /\ TotalRight

TreeInv == Edges /\ Counts

\* The root has a vector when it waits for the broadcast it will send.
LastSet == Waits(Root) => root.Last_Send_Vector \in Vectors

LEMMA InitTree == Init => TreeInv /\ LastSet
<1>. SUFFICES ASSUME Init PROVE TreeInv /\ LastSet
  OBVIOUS
<1>1. /\ \A p \in Procs : /\ pc[p] = "idle" /\ alive[p] /\ ~comm[p].Ireduce_Active
                          /\ comm[p].tag = Normal /\ comm[p].received = {}
  BY DEF Init
<1>2. \A p \in Procs : up(p) = <<>> /\ down(p) = <<>>
  <2>1. net.reduce = [t \in Tags |-> [p \in Procs |-> <<>>]] /\ net.bcast = [t \in Tags |-> [p \in Procs |-> <<>>]]
    BY DEF Init
  <2>. QED BY <2>1 DEF up, down, Tags
<1>3. \A p \in Procs : ~Waits(p) /\ ~Collecting(p) /\ Joined(p) = {}
  BY <1>1 DEF Waits, Collecting, Joined
<1>4. \A p \in Procs : \A q \in Successors[p] : q \in Procs
  BY Upwards
<1>5. Edges
  BY <1>1, <1>2, <1>3, <1>4, SubtreeRoot DEF Edges, Edge
<1>. QED BY <1>2, <1>3, <1>5, SubtreeRoot DEF TreeInv, Counts, PartRight, SumRight, TotalRight, LastSet

LEMMA TreeTypes ==
    ASSUME TypeInv
    PROVE  \A p \in Procs : /\ up(p) \in Seq(Vectors) /\ down(p) \in Seq(DeadMessages)
                            /\ Waits(p) \in BOOLEAN /\ Collecting(p) \in BOOLEAN
                            /\ Collecting(p) => ~Waits(p)
                            /\ Joined(p) \subseteq Successors[p]
                            /\ comm[p].vector.dead \in Nat
<1>1. net \in Nets /\ \A p \in Procs : comm[p] \in Comms
  BY DEF TypeInv, Types
<1>2. net.reduce \in [Tags -> [Procs -> Seq(Vectors)]] /\ net.bcast \in [Tags -> [Procs -> Seq(DeadMessages)]]
  BY <1>1 DEF Nets
<1>3. \A p \in Procs : comm[p].Ireduce_Active \in BOOLEAN /\ comm[p].vector \in Vectors
  BY <1>1 DEF Comms
<1>4. ASSUME NEW p \in Procs PROVE Collecting(p) => ~Waits(p)
  <2>1. PlaceOf(p)
    BY DEF TypeInv, Places
  <2>. QED BY <2>1 DEF PlaceOf, Collecting, Waits, AliveLabels
<1>5. \A p \in Procs : Joined(p) \subseteq Successors[p]
  BY DEF Joined, TypeInv, Places, PlaceOf
<1>. QED BY <1>2, <1>3, <1>4, <1>5 DEF Vectors, Tags, up, down, Waits, Collecting

\* All below a process that waits wait.
LEMMA AllBelowWait ==
    ASSUME Edges, NEW q \in Procs, Waits(q)
    PROVE  \A r \in Subtree(q) : Waits(r)
<1>. DEFINE X == {r \in Procs : Waits(r)}
<1>1. ASSUME NEW r \in X PROVE Successors[r] \subseteq X
  <2>1. \A s \in Successors[r] : s \in Procs /\ Edge(r, s)
    BY Upwards DEF Edges
  <2>. QED BY <2>1 DEF Edge
<1>2. X \in SUBSET Procs /\ q \in X
  OBVIOUS
<1>. HIDE DEF X
<1>3. Subtree(q) \subseteq X
  BY <1>1, <1>2, SubtreeLeast
<1>. QED BY <1>3 DEF X

\* What a step leaves of the tree's view of q.
SameView(q) ==
    /\ Waits(q)' <=> Waits(q)
    /\ Collecting(q)' <=> Collecting(q)
    /\ Joined(q)' = Joined(q)
    /\ comm'[q].vector.dead = comm[q].vector.dead
    /\ comm'[q].tag = comm[q].tag

LEMMA AloneViews ==
    ASSUME NEW p \in Procs, Alone(p)
    PROVE  \A q \in Procs \ {p} : SameView(q)
BY DEF Alone, SameView, Waits, Collecting, Joined

LEMMA CalmTree ==
    ASSUME TreeInv, \A q \in Procs : SameView(q), SameTree, alive' = alive,
           root'.Last_Send_Vector = root.Last_Send_Vector
    PROVE  TreeInv'
<1>1. \A q \in Procs : up(q)' = up(q) /\ down(q)' = down(q)
  BY DEF SameTree, up, down
<1>2. DeadProcs' = DeadProcs
  BY DEF DeadProcs
<1>3. Edges'
  <2>1. ASSUME NEW p \in Procs, NEW q \in Successors[p] PROVE Edge(p, q)'
    <3>1. q \in Procs /\ Edge(p, q)
      BY Upwards DEF TreeInv, Edges
    <3>. QED BY <1>1, <3>1 DEF Edge, SameView
  <2>. QED BY <1>1, <2>1, SubtreeRoot DEF TreeInv, Edges, SameView
<1>4. Counts'
  BY <1>1, <1>2, SubtreeRoot DEF TreeInv, Counts, PartRight, SumRight, TotalRight, SameView
<1>. QED BY <1>3, <1>4 DEF TreeInv

LEMMA BelowNothing == \A D : Cardinality(Below(D, {})) = 0
<1>1. \A D : Below(D, {}) = {}
  BY DEF Below
<1>. QED BY <1>1, FS_EmptySet

\* p enters the reduction.
LEMMA BeginTree ==
    ASSUME TypeInv, TreeInv, ~Revoking, NEW p \in Procs, BeginReduce(p)
    PROVE  TreeInv'
<1>1. /\ Alone(p) /\ UNCHANGED <<alive, root, net>>
      /\ pc[p] = "check" /\ pc'[p] = "reduce" /\ alive[p]
      /\ comm'[p].received = {} /\ comm'[p].vector.dead = 0 /\ comm'[p].tag = Normal
      /\ ~comm'[p].Ireduce_Active /\ ~comm[p].Ireduce_Active
  BY BeginReduceFacts DEF Revoking, TypeInv, Places, PlaceOf
<1>2. ~Waits(p) /\ ~Waits(p)' /\ Joined(p) = {} /\ Joined(p)' = {}
  BY <1>1 DEF Waits, Joined, Collecting
<1>3. \A q \in Procs \ {p} : SameView(q)
  BY <1>1, AloneViews
<1>4. /\ \A q \in Procs : up(q)' = up(q) /\ down(q)' = down(q)
      /\ DeadProcs' = DeadProcs
  BY <1>1 DEF up, down, DeadProcs
<1>5. \A q \in Procs : (Waits(q)' <=> Waits(q)) /\ Joined(q)' = Joined(q)
  BY <1>2, <1>3 DEF SameView
<1>6. Edges'
  <2>1. ASSUME NEW r \in Procs, NEW q \in Successors[r] PROVE Edge(r, q)'
    <3>1. q \in Procs /\ Edge(r, q)
      BY Upwards DEF TreeInv, Edges
    <3>. QED BY <1>4, <1>5, <3>1 DEF Edge
  <2>2. \A q \in Procs : comm'[q].tag = Normal
    BY <1>1, <1>3 DEF SameView, TreeInv, Edges
  <2>. QED BY <1>4, <2>1, <2>2, SubtreeRoot DEF TreeInv, Edges
<1>7. SumRight(p)'
  BY <1>1, <1>2, BelowNothing DEF SumRight
<1>8. \A q \in Procs \ {p} : SumRight(q)'
  BY <1>3, <1>4 DEF TreeInv, Counts, SumRight, SameView
<1>9. (\A q \in Procs : PartRight(q)') /\ TotalRight'
  BY <1>1, <1>4, <1>5, SubtreeRoot DEF TreeInv, Counts, PartRight, TotalRight
<1>. QED BY <1>6, <1>7, <1>8, <1>9 DEF TreeInv, Counts

\* p receives the part of its successor a.
LEMMA ReceiveTree ==
    ASSUME TypeInv, TreeInv, NEW p \in Procs, NEW a \in Procs, ReceiveReduce(p, a)
    PROVE  TreeInv'
<1>1. /\ Alone(p) /\ UNCHANGED <<pc, alive, root>>
      /\ pc[p] = "reduce" \/ (pc[p] = "dead" /\ ~comm[p].Ireduce_Active)
      /\ a \in Successors[p] \ comm[p].received
      /\ net.reduce[Normal][a] # <<>>
      /\ net'.reduce = [net.reduce EXCEPT ![Normal][a] = Tail(@)] /\ net'.bcast = net.bcast
      /\ comm'[p].received = comm[p].received \cup {a}
      /\ comm'[p].vector.dead = Head(net.reduce[Normal][a]).dead + comm[p].vector.dead
      /\ comm'[p].tag = comm[p].tag /\ comm'[p].Ireduce_Active = comm[p].Ireduce_Active
  <2>1. comm[p].tag = Normal
    BY DEF TreeInv, Edges
  <2>. QED BY ZenonT(30), <2>1, ReceiveReduceFacts
<1>2. /\ up(a) # <<>> /\ up(a)' = Tail(up(a)) /\ \A q \in Procs \ {a} : up(q)' = up(q)
      /\ \A q \in Procs : down(q)' = down(q)
  <2>1. net.reduce \in [Tags -> [Procs -> Seq(Vectors)]]
    BY DEF TypeInv, Types, Nets
  <2>. QED BY <1>1, <2>1 DEF up, down, Tags
<1>3. Collecting(p) /\ Collecting(p)' /\ Joined(p) = comm[p].received /\ Joined(p)' = Joined(p) \cup {a}
  <2>1. alive[p] => pc[p] # "dead"
    BY DEF TypeInv, Places, PlaceOf, AliveLabels
  <2>. QED BY <1>1, <2>1 DEF Collecting, Joined
<1>4. Waits(p)' <=> Waits(p)
  BY <1>1 DEF Waits
<1>5. \A q \in Procs \ {p} : SameView(q)
  BY <1>1, AloneViews
<1>6. Edge(p, a) /\ a \in Procs /\ Len(up(a)) = 1 /\ Waits(a) /\ down(a) = <<>> /\ ~Waits(p) /\ a # p
  <2>1. Edge(p, a) /\ a # p
    BY <1>1, Upwards DEF TreeInv, Edges
  <2>. QED BY <1>2, <2>1 DEF Edge
<1>7. up(a)' = <<>>
  BY <1>2, <1>6, TreeTypes
<1>8. \A q \in Procs : Waits(q)' <=> Waits(q)
  BY <1>4, <1>5 DEF SameView
<1>9. DeadProcs' = DeadProcs
  BY <1>1 DEF DeadProcs
<1>10. Edges'
  <2>1. Edge(p, a)'
    BY <1>2, <1>3, <1>6, <1>7, <1>8 DEF Edge
  <2>2. ASSUME NEW r \in Procs, NEW q \in Successors[r], q # a PROVE Edge(r, q)'
    <3>1. q \in Procs /\ Edge(r, q)
      BY Upwards DEF TreeInv, Edges
    <3>2. q \in Joined(r)' <=> q \in Joined(r)
      BY <1>3, <1>5, <2>2 DEF SameView
    <3>. QED BY <1>2, <1>8, <2>2, <3>1, <3>2 DEF Edge
  <2>3. \A r \in Procs : a \in Successors[r] => r = p
    BY <1>1, OnePredecessor
  <2>4. \A q \in Procs : comm'[q].tag = Normal
    BY <1>1, <1>5 DEF SameView, TreeInv, Edges
  <2>5. a # Root
    BY <1>1, Upwards DEF Root
  <2>. QED BY <1>2, <2>1, <2>2, <2>3, <2>4, <2>5, SubtreeRoot DEF TreeInv, Edges
<1>11. SumRight(p)'
  <2>. DEFINE D == DeadProcs
              J == Joined(p)
  <2>1. Head(up(a)).dead = Cardinality(D \cap Subtree(a)) /\ comm[p].vector.dead = Cardinality(Below(D, J))
    BY <1>2, <1>3, <1>6 DEF TreeInv, Counts, PartRight, SumRight
  <2>2. D \in SUBSET Procs /\ J \in SUBSET (Successors[p] \ {a}) /\ a \in Successors[p]
    BY <1>1, <1>3, TreeTypes DEF DeadProcs
  <2>3. DeadProcs' = D /\ Joined(p)' = J \cup {a}
    BY <1>3, <1>9
  <2>. HIDE DEF D, J
  <2>4. Cardinality(Below(D, J \cup {a})) = Cardinality(D \cap Subtree(a)) + Cardinality(Below(D, J))
    BY ZenonT(30), <2>2, CountJoined
  <2>5. comm'[p].vector.dead = Cardinality(Below(D, J \cup {a}))
    BY <1>1, <2>1, <2>4 DEF up
  <2>6. comm'[p].vector.dead = Cardinality(Below(DeadProcs', Joined(p)'))
    BY <2>3, <2>5
  <2>. QED BY <2>6 DEF SumRight
<1>12. \A q \in Procs \ {p} : SumRight(q)'
  BY <1>5, <1>9 DEF TreeInv, Counts, SumRight, SameView
<1>13. (\A q \in Procs : PartRight(q)') /\ TotalRight'
  BY <1>1, <1>2, <1>7, <1>8, <1>9, SubtreeRoot DEF TreeInv, Counts, PartRight, TotalRight
<1>. QED BY <1>10, <1>11, <1>12, <1>13 DEF TreeInv, Counts

\* p's part is complete: it goes up, or is the root's.
PassesUp(p, sum) ==
    /\ p = Root => net'.reduce = net.reduce /\ root'.Last_Send_Vector = sum
    /\ p # Root => root' = root /\ net'.reduce = [net.reduce EXCEPT ![Normal][p] = Append(@, sum)]

LEMMA ForwardTree ==
    ASSUME TypeInv, TreeInv, NEW p \in Procs, Sim_FT_Custom_Reduce(p) \/ Sim_FT_Custom_Ireduce(p)
    PROVE  TreeInv' /\ (LastSet => LastSet')
<1>1. /\ Alone(p) /\ alive' = alive /\ comm[p].received = Successors[p]
      /\ Collecting(p) /\ ~Waits(p) /\ Waits(p)' /\ ~Collecting(p)'
      /\ net'.bcast = net.bcast /\ comm'[p].tag = Normal
      /\ \E sum \in Vectors :
            /\ sum.dead = comm[p].vector.dead + IF p \in DeadProcs THEN 1 ELSE 0
            /\ PassesUp(p, sum)
  <2>1. comm[p].tag = Normal /\ comm[p].vector \in Vectors /\ comm[p].vector.dead \in Nat
    BY TreeTypes DEF TreeInv, Edges, TypeInv, Types, Comms
  <2>2. CASE Sim_FT_Custom_Reduce(p)
    <3>1. /\ Alone(p) /\ UNCHANGED <<alive, comm>>
          /\ pc[p] = "reduce" /\ alive[p] /\ comm[p].received = Successors[p]
          /\ net'.bcast = net.bcast /\ pc'[p] \in {"collect", "bcast"}
          /\ PassesUp(p, comm[p].vector)
      BY <2>1, <2>2, CustomReduceFacts DEF PassesUp
    <3>2. Collecting(p) /\ ~Waits(p) /\ Waits(p)' /\ ~Collecting(p)' /\ p \notin DeadProcs
      BY <3>1, TreeTypes DEF Collecting, Waits, DeadProcs
    <3>. QED BY <2>1, <3>1, <3>2
  <2>3. CASE Sim_FT_Custom_Ireduce(p)
    <3>1. /\ Alone(p) /\ UNCHANGED <<pc, alive>>
          /\ pc[p] = "dead" /\ ~alive[p] /\ ~comm[p].Ireduce_Active /\ comm[p].received = Successors[p]
          /\ net'.bcast = net.bcast /\ comm'[p].Ireduce_Active /\ comm'[p].tag = comm[p].tag
      BY <2>3, CustomIreduceFacts
    <3>2. Collecting(p) /\ ~Waits(p) /\ Waits(p)' /\ ~Collecting(p)' /\ p \in DeadProcs
      BY <3>1 DEF Collecting, Waits, DeadProcs
    <3>3. \E sum \in Vectors :
            /\ sum.dead = comm[p].vector.dead + 1
            /\ PassesUp(p, sum)
      <4>1. PICK sum \in Vectors :
                /\ sum.dead = comm[p].vector.dead + 1
                /\ p = Root => net'.reduce = net.reduce /\ root'.Last_Send_Vector = sum
                /\ p # Root => /\ root' = root
                               /\ net'.reduce = [net.reduce EXCEPT ![comm[p].tag][p] = Append(@, sum)]
        BY <2>3, CustomIreduceFacts
      <4>2. PassesUp(p, sum)
        BY <2>1, <4>1 DEF PassesUp
      <4>. QED BY <4>1, <4>2
    <3>. QED BY <2>1, <3>1, <3>2, <3>3
  <2>. QED BY <2>2, <2>3
<1>2. PICK sum \in Vectors :
        /\ sum.dead = comm[p].vector.dead + IF p \in DeadProcs THEN 1 ELSE 0
        /\ p = Root => net'.reduce = net.reduce /\ root'.Last_Send_Vector = sum
        /\ p # Root => /\ root' = root
                       /\ net'.reduce = [net.reduce EXCEPT ![Normal][p] = Append(@, sum)]
  BY <1>1 DEF PassesUp
<1>3. /\ p # Root => up(p)' = Append(up(p), sum)
      /\ p = Root => up(p)' = up(p)
      /\ \A q \in Procs \ {p} : up(q)' = up(q)
      /\ \A q \in Procs : down(q)' = down(q)
  <2>1. net.reduce \in [Tags -> [Procs -> Seq(Vectors)]]
    BY DEF TypeInv, Types, Nets
  <2>. QED BY <1>1, <1>2, <2>1 DEF up, down, Tags
<1>4. Joined(p) = Successors[p] /\ Joined(p)' = {}
  BY <1>1 DEF Joined
<1>5. \A q \in Procs \ {p} : SameView(q)
  BY <1>1, AloneViews
<1>6. DeadProcs' = DeadProcs /\ DeadProcs \in SUBSET Procs
  BY <1>1 DEF DeadProcs
<1>7. sum.dead = Cardinality(DeadProcs \cap Subtree(p))
  <2>1. comm[p].vector.dead = Cardinality(Below(DeadProcs, Successors[p]))
    BY <1>1, <1>4 DEF TreeInv, Counts, SumRight
  <2>. QED BY <1>2, <1>6, <2>1, CountSelf
<1>8. \A r \in Procs : p \in Successors[r] =>
          up(p) = <<>> /\ down(p) = <<>> /\ ~Waits(r) /\ p \notin Joined(r) /\ r # p
  <2>1. \A r \in Procs : p \in Successors[r] => Edge(r, p) /\ r # p
    BY Upwards DEF TreeInv, Edges
  <2>. QED BY <1>1, <2>1 DEF Edge
<1>9. p # Root => up(p) = <<>>
  BY <1>8, HasPredecessor
<1>10. Edges'
  <2>1. ASSUME NEW r \in Procs, p \in Successors[r] PROVE Edge(r, p)'
    <3>1. up(p) = <<>> /\ down(p) = <<>> /\ ~Waits(r) /\ p \notin Joined(r) /\ r # p
      BY <1>8, <2>1
    <3>2. p # Root
      BY <2>1, Upwards DEF Root
    <3>3. Len(up(p)') = 1
      BY <1>3, <3>1, <3>2
    <3>. QED BY <1>1, <1>3, <1>5, <3>1, <3>3 DEF Edge, SameView
  <2>2. ASSUME NEW q \in Successors[p] PROVE Edge(p, q)'
    <3>1. q \in Procs /\ q # p /\ Edge(p, q) /\ q \in Joined(p)
      BY <1>4, Upwards DEF TreeInv, Edges
    <3>. QED BY <1>1, <1>3, <1>5, <3>1 DEF Edge, SameView
  <2>3. ASSUME NEW r \in Procs \ {p}, NEW q \in Successors[r], q # p PROVE Edge(r, q)'
    <3>1. q \in Procs /\ Edge(r, q)
      BY Upwards DEF TreeInv, Edges
    <3>. QED BY <1>3, <1>5, <2>3, <3>1 DEF Edge, SameView
  <2>4. \A q \in Procs : comm'[q].tag = Normal
    BY <1>1, <1>5 DEF SameView, TreeInv, Edges
  <2>5. up(Root)' = <<>> /\ down(Root)' = <<>>
    BY <1>3, SubtreeRoot DEF TreeInv, Edges
  <2>. QED BY <2>1, <2>2, <2>3, <2>4, <2>5 DEF Edges
<1>11. SumRight(p)' /\ \A q \in Procs \ {p} : SumRight(q)'
  BY <1>1, <1>5, <1>6 DEF TreeInv, Counts, SumRight, SameView
<1>12. PartRight(p)' /\ \A q \in Procs \ {p} : PartRight(q)'
  <2>1. p # Root => Head(up(p)') = sum
    BY <1>3, <1>9
  <2>2. p = Root => up(p)' = <<>>
    BY <1>3 DEF TreeInv, Edges
  <2>. QED BY <1>3, <1>6, <1>7, <2>1, <2>2 DEF TreeInv, Counts, PartRight
<1>13. TotalRight' /\ (LastSet => LastSet')
  <2>1. CASE p = Root
    <3>1. sum.dead = Cardinality(DeadProcs)
      <4>1. DeadProcs \cap Procs = DeadProcs
        BY <1>6
      <4>. QED BY <1>7, <2>1, <4>1, SubtreeRoot
    <3>. QED BY <1>2, <1>6, <2>1, <3>1 DEF TotalRight, LastSet
  <2>2. CASE p # Root
    <3>1. Waits(Root)' <=> Waits(Root)
      BY <1>5, <2>2, SubtreeRoot DEF SameView
    <3>. QED BY <1>2, <1>6, <2>2, <3>1 DEF TreeInv, Counts, TotalRight, LastSet
  <2>. QED BY <2>1, <2>2
<1>. QED BY <1>10, <1>11, <1>12, <1>13 DEF TreeInv, Counts

\* Until a revocation no broadcast on the way says that the communicator is revoked.
NoRevokedComm == \A q \in Procs : down(q) # <<>> => Head(down(q)).op # "RevokedComm"

\* p, which waits, learns of the broadcast m, which the root begins, and passes it on.
Release(p, m) ==
    /\ Alone(p) /\ UNCHANGED <<alive, root>> /\ OutsideTree /\ net'.reduce = net.reduce
    /\ Waits(p) /\ ~Waits(p)' /\ pc'[p] \notin {"check", "reduce"} /\ comm'[p].tag = Normal
    /\ Collecting(p)' => comm'[p].received = {} /\ comm'[p].vector.dead = 0
    /\ m.op # "RevokedComm" /\ m.dead \in SUBSET Procs
    /\ p = Root => /\ m.dead = root.Dead_Processes_Root /\ down(p)' = down(p)
                   /\ Cardinality(m.dead) >= root.Last_Send_Vector.dead
    /\ p # Root => down(p) # <<>> /\ m = Head(down(p)) /\ down(p)' = Tail(down(p))
    /\ \A q \in Procs : q # p => down(q)' = IF q \in Successors[p] THEN Append(down(q), m) ELSE down(q)
    /\ comm[p].comm_revoked => comm'[p].comm_revoked
    /\ ~alive[p] => /\ comm'[p].dead_set = comm[p].dead_set /\ comm'[p].dead_nodes = comm[p].dead_nodes
                    /\ outcome' = outcome
    /\ alive[p] =>
        /\ pc[p] \in {"collect", "bcast"}
        /\ outcome' = [outcome EXCEPT ![p] = Append(outcome[p], m.dead)]
        /\ p = Root => /\ comm'[p].dead_nodes = m.dead
                       /\ comm'[p].dead_set = IF m.dead = {} THEN comm[p].dead_nodes ELSE comm[p].dead_set
        /\ p # Root =>
            /\ comm'[p].dead_nodes = IF Cardinality(m.dead) \in {0, Cardinality(comm[p].dead_nodes)}
                                     THEN comm[p].dead_nodes ELSE m.dead
            /\ comm'[p].dead_set = IF Cardinality(comm[p].dead_set) # Cardinality(comm'[p].dead_nodes)
                                   THEN comm'[p].dead_nodes ELSE comm[p].dead_set

LEMMA ReleaseRoot ==
    ASSUME TypeInv, TreeInv, LastSet, NEW p \in Procs, Sim_FT_Custom_Dead_bcast(p) \/ DeadBcastDead(p)
    PROVE  TypeInv' /\ \E m \in DeadMessages : Release(p, m)
<1>1. comm[p].tag = Normal /\ net.bcast \in [Tags -> [Procs -> Seq(DeadMessages)]]
  BY DEF TreeInv, Edges, TypeInv, Types, Nets
<1>4. p \notin Successors[p]
  BY Upwards
<1>2. CASE Sim_FT_Custom_Dead_bcast(p)
  <2>1. PICK m \in DeadMessages :
                /\ m.dead = root.Dead_Processes_Root /\ m.op \in NextOps
                /\ net'.bcast = [net.bcast EXCEPT ![comm[p].tag] = ToSuccessors(@, p, m)]
    BY <1>2, DeadBcastFacts
  <2>2. /\ \A q \in Procs : q # p => down(q)' = IF q \in Successors[p] THEN Append(down(q), m) ELSE down(q)
        /\ down(p)' = down(p)
    BY <1>1, <1>4, <2>1 DEF down, ToSuccessors, Tags
  <2>3. Waits(p) /\ ~Waits(p)' /\ ~Collecting(p)'
    BY <1>2, DeadBcastFacts DEF Waits, Collecting
  <2>4. m.op # "RevokedComm" /\ m.dead \in SUBSET Procs
    BY <2>1 DEF NextOps, DeadMessages
  <2>5. Release(p, m)
    <3>1. /\ Alone(p) /\ UNCHANGED <<alive, root>> /\ OutsideTree /\ net'.reduce = net.reduce
          /\ p = Root /\ pc[p] = "collect" /\ alive[p] /\ pc'[p] \in {"idle", "real", "returned"}
          /\ comm'[p].tag = comm[p].tag /\ comm'[p].comm_revoked = comm[p].comm_revoked
      BY <1>2, DeadBcastFacts
    <3>2. /\ Cardinality(root.Dead_Processes_Root) >= root.Last_Send_Vector.dead
          /\ outcome' = [outcome EXCEPT ![p] = Append(outcome[p], root.Dead_Processes_Root)]
          /\ comm'[p].dead_nodes = root.Dead_Processes_Root
          /\ comm'[p].dead_set = IF root.Dead_Processes_Root = {} THEN comm[p].dead_nodes ELSE comm[p].dead_set
      BY <1>2, DeadBcastFacts
    <3>. QED BY <1>1, <2>1, <2>2, <2>3, <2>4, <3>1, <3>2 DEF Release
  <2>. QED BY <1>2, <2>5, DeadBcastFacts
<1>3. CASE DeadBcastDead(p)
  <2>. root.Last_Send_Vector \in Vectors
    BY <1>3 DEF LastSet, Waits, DeadBcastDead
  <2>1. PICK m \in DeadMessages :
                /\ m.dead = root.Dead_Processes_Root /\ m.op \in NextOps
                /\ net'.bcast = [net.bcast EXCEPT ![comm[p].tag] = ToSuccessors(@, p, m)]
    BY <1>3, DeadBcastDeadFacts
  <2>2. /\ \A q \in Procs : q # p => down(q)' = IF q \in Successors[p] THEN Append(down(q), m) ELSE down(q)
        /\ down(p)' = down(p)
    BY <1>1, <1>4, <2>1 DEF down, ToSuccessors, Tags
  <2>3. Waits(p) /\ ~Waits(p)'
    BY <1>3, DeadBcastDeadFacts DEF Waits
  <2>4. m.op # "RevokedComm" /\ m.dead \in SUBSET Procs
    BY <2>1 DEF NextOps, DeadMessages
  <2>5. Release(p, m)
    BY <1>1, <1>3, <2>1, <2>2, <2>3, <2>4, DeadBcastDeadFacts DEF Release
  <2>. QED BY <1>3, <2>5, DeadBcastDeadFacts
<1>. QED BY <1>2, <1>3

LEMMA ReleaseOther ==
    ASSUME TypeInv, TreeInv, NoRevokedComm, NEW p \in Procs, ReceiveDeadBcast(p) \/ ReceiveDeadBcastDead(p)
    PROVE  TypeInv' /\ \E m \in DeadMessages : Release(p, m)
<1>. DEFINE m == Head(down(p))
<1>1. comm[p].tag = Normal /\ net.bcast \in [Tags -> [Procs -> Seq(DeadMessages)]]
  BY DEF TreeInv, Edges, TypeInv, Types, Nets
<1>2. net.bcast[comm[p].tag] = net.bcast[Normal] /\ net.bcast[comm[p].tag][p] = down(p)
  BY <1>1 DEF down
<1>3. down(p) # <<>> /\ net'.bcast = [net.bcast EXCEPT ![Normal] = Sim_FT_Custom_Ibcast_NRoot(@, p)]
  BY ZenonT(30), <1>1, <1>2, PassBcastFacts, PassBcastDeadFacts
<1>4. p \notin Successors[p]
  BY Upwards
<1>5. /\ \A q \in Procs : q # p => down(q)' = IF q \in Successors[p] THEN Append(down(q), m) ELSE down(q)
      /\ down(p)' = Tail(down(p))
  BY <1>1, <1>3, <1>4 DEF down, Sim_FT_Custom_Ibcast_NRoot, ToSuccessors, Tags
<1>6. m \in DeadMessages /\ m.op # "RevokedComm"
  BY <1>3, TreeTypes DEF NoRevokedComm
<1>7. p # Root
  BY <1>3 DEF TreeInv, Edges
<1>8. m.dead \in SUBSET Procs
  BY <1>6 DEF DeadMessages
<1>9. CASE ReceiveDeadBcast(p)
  <2>1. Waits(p) /\ ~Waits(p)' /\ ~Collecting(p)'
    BY <1>9, PassBcastFacts DEF Waits, Collecting
  <2>2. Head(net.bcast[comm[p].tag][p]) = m
    BY <1>2
  <2>3. /\ comm'[p].dead_nodes = IF Cardinality(m.dead) \in {0, Cardinality(comm[p].dead_nodes)}
                                 THEN comm[p].dead_nodes ELSE m.dead
        /\ comm'[p].dead_set = IF Cardinality(comm[p].dead_set) # Cardinality(comm'[p].dead_nodes)
                                           THEN comm'[p].dead_nodes ELSE comm[p].dead_set
        /\ outcome' = [outcome EXCEPT ![p] = Append(outcome[p], m.dead)]
    BY ZenonT(30), <1>6, <1>9, <2>2, PassBcastFacts
  <2>. HIDE DEF m
  <2>4. Release(p, m)
    BY <1>1, <1>3, <1>5, <1>6, <1>7, <1>8, <1>9, <2>1, <2>3, PassBcastFacts DEF Release, m
  <2>. QED BY <1>6, <1>9, <2>4, PassBcastFacts
<1>10. CASE ReceiveDeadBcastDead(p)
  <2>1. Waits(p) /\ ~Waits(p)'
    BY <1>10, PassBcastDeadFacts DEF Waits
  <2>2. Head(net.bcast[comm[p].tag][p]) = m
    BY <1>2
  <2>3. comm'[p].tag = Normal
    BY <1>1, <1>6, <1>10, <2>2, PassBcastDeadFacts
  <2>. HIDE DEF m
  <2>4. Release(p, m)
    BY <1>1, <1>3, <1>5, <1>6, <1>7, <1>8, <1>10, <2>1, <2>3, PassBcastDeadFacts DEF Release, m
  <2>. QED BY <1>6, <1>10, <2>4, PassBcastDeadFacts
<1>. QED BY <1>9, <1>10

\* p learns of the broadcast.
LEMMA ReleaseTree ==
    ASSUME TypeInv, TypeInv', TreeInv, NEW p \in Procs, NEW m \in DeadMessages, Release(p, m)
    PROVE  TreeInv' /\ (LastSet => LastSet') /\ (NoRevokedComm => NoRevokedComm')
<1>1. /\ Waits(p) /\ ~Waits(p)' /\ DeadProcs' = DeadProcs
      /\ \A q \in Procs : up(q)' = up(q)
  BY DEF Release, up, DeadProcs
<1>10. \A q \in Procs : q # p => down(q)' = IF q \in Successors[p] THEN Append(down(q), m) ELSE down(q)
  BY DEF Release
<1>11. Append(<<>>, m) = <<m>>
  OBVIOUS
<1>2. \A q \in Procs \ {p} : SameView(q)
  BY AloneViews DEF Release
<1>3. /\ \A q \in Procs \ {p} : (Waits(q)' <=> Waits(q)) /\ Joined(q)' = Joined(q)
      /\ Joined(p)' = {} /\ Joined(p) = {}
  BY <1>1, <1>2, TreeTypes DEF SameView, Release, Joined
<1>4. p # Root => Len(down(p)) = 1 /\ down(p)' = <<>> /\ up(p) = <<>> /\ \E r \in Procs : p \in Successors[r] /\ ~Waits(r) /\ p \notin Joined(r)
  <2>. SUFFICES ASSUME p # Root
                PROVE  Len(down(p)) = 1 /\ down(p)' = <<>> /\ up(p) = <<>> /\ \E r \in Procs : p \in Successors[r] /\ ~Waits(r) /\ p \notin Joined(r)
    OBVIOUS
  <2>1. PICK r \in Procs : p \in Successors[r]
    BY HasPredecessor
  <2>2. Edge(r, p) /\ down(p) # <<>> /\ down(p)' = Tail(down(p)) /\ down(p) \in Seq(DeadMessages)
    BY <2>1, TreeTypes DEF TreeInv, Edges, Release
  <2>3. Len(down(p)) = 1 /\ up(p) = <<>> /\ ~Waits(r) /\ p \notin Joined(r)
    BY <1>1, <2>2 DEF Edge
  <2>4. Tail(down(p)) = <<>>
    BY <2>2, <2>3
  <2>. QED BY <2>1, <2>2, <2>3, <2>4
<1>5. Edges'
  <2>1. ASSUME NEW q \in Successors[p] PROVE Edge(p, q)'
    <3>1. q \in Procs /\ q # p /\ Edge(p, q)
      BY Upwards DEF TreeInv, Edges
    <3>2. Waits(q) /\ up(q) = <<>> /\ down(q) = <<>>
      BY <1>1, <1>3, <3>1 DEF Edge
    <3>3. down(q)' = <<m>>
      BY <1>10, <1>11, <3>1, <3>2
    <3>4. Len(down(q)') = 1
      BY <3>3
    <3>. QED BY <1>1, <1>3, <3>1, <3>2, <3>4 DEF Edge
  <2>2. ASSUME NEW r \in Procs, p \in Successors[r] PROVE Edge(r, p)'
    <3>1. p # Root /\ r # p
      BY <2>2, Upwards DEF Root
    <3>2. ~Waits(r) /\ p \notin Joined(r)
      BY <1>4, <2>2, <3>1, OnePredecessor
    <3>. QED BY <1>1, <1>3, <1>4, <3>1, <3>2 DEF Edge
  <2>3. ASSUME NEW r \in Procs \ {p}, NEW q \in Successors[r], q # p PROVE Edge(r, q)'
    <3>1. q \in Procs /\ Edge(r, q) /\ q \notin Successors[p]
      BY Upwards, OnePredecessor DEF TreeInv, Edges
    <3>2. down(q)' = down(q)
      BY <2>3, <3>1 DEF Release
    <3>. QED BY <1>1, <1>3, <2>3, <3>1, <3>2 DEF Edge
  <2>4. \A q \in Procs : comm'[q].tag = Normal
    BY <1>2 DEF SameView, TreeInv, Edges, Release
  <2>5. up(Root)' = <<>> /\ down(Root)' = <<>>
    <3>1. Root \in Procs /\ \A r \in Procs : Root \notin Successors[r]
      BY SubtreeRoot, Upwards DEF Root
    <3>2. CASE p # Root
      BY <1>1, <1>10, <3>1, <3>2 DEF TreeInv, Edges
    <3>3. CASE p = Root
      BY <1>1, <3>3 DEF Release, TreeInv, Edges
    <3>. QED BY <3>2, <3>3
  <2>. QED BY <2>1, <2>2, <2>3, <2>4, <2>5 DEF Edges
<1>6. SumRight(p)'
  BY <1>3, BelowNothing DEF SumRight, Release
<1>7. \A q \in Procs \ {p} : SumRight(q)'
  BY <1>1, <1>2 DEF TreeInv, Counts, SumRight, SameView
<1>8. (\A q \in Procs : PartRight(q)') /\ TotalRight' /\ (LastSet => LastSet')
  BY <1>1, <1>3, SubtreeRoot DEF TreeInv, Counts, PartRight, TotalRight, LastSet, Release
<1>9. ASSUME NoRevokedComm, NEW q \in Procs, down(q)' # <<>> PROVE Head(down(q)').op # "RevokedComm"
  <2>1. CASE q \in Successors[p]
    <3>1. q # p /\ Edge(p, q)
      BY <2>1, Upwards DEF TreeInv, Edges
    <3>2. down(q) = <<>>
      BY <1>1, <3>1 DEF Edge
    <3>3. down(q)' = <<m>>
      BY <1>10, <1>11, <2>1, <3>1, <3>2
    <3>. QED BY <3>3 DEF Release
  <2>2. CASE q \notin Successors[p] /\ q # p
    BY <1>9, <2>2 DEF Release, NoRevokedComm
  <2>3. CASE q = p
    BY <1>4, <1>5, <1>9, <2>3 DEF Edges
  <2>. QED BY <2>1, <2>2, <2>3
<1>. QED BY <1>5, <1>6, <1>7, <1>8, <1>9 DEF TreeInv, Counts, NoRevokedComm

-----------------------------------------------------------------------------
(* Types and the root's vector are right in all behaviours *)

LEMMA LastKept ==
    ASSUME LastSet, Waits(Root)' => Waits(Root), root'.Last_Send_Vector = root.Last_Send_Vector
    PROVE  LastSet'
BY DEF LastSet

LEMMA BackgroundLast ==
    ASSUME TypeInv, LastSet, NEW p \in Procs, Background(p)
    PROVE  LastSet'
<1>. Root \in Procs /\ Types
  BY SubtreeRoot DEF TypeInv
<1>1. SUFFICES Stays /\ SamePart(Root) /\ root'.Last_Send_Vector = root.Last_Send_Vector
  BY LastKept DEF Stays, SamePart, Waits
<1>2. CASE Sim_FT_Receive_dead_msgs_root
  BY <1>2, ReceiveDeadMsgsFacts DEF NewKnown
<1>3. CASE Sim_FT_NBC_bcast_root
  BY <1>3, NbcBcastRootFacts DEF SamePart
<1>4. CASE Sim_FT_NBC_bcast_Nroot(p)
  BY <1>4, NbcBcastFacts DEF NewKnown
<1>5. CASE AnswerNbcRequest(p)
  BY <1>5, AnswerNbcFacts DEF SamePart
<1>6. CASE Sim_FT_Check_comm_revoked(p)
  BY <1>6, CheckCommRevokedFacts
<1>7. CASE AnswerReduceRevoked(p)
  BY <1>7, AnswerReduceRevokedFacts DEF SamePart
<1>8. CASE AnswerAlive(p)
  BY <1>8, AnswerAliveFacts DEF SamePart
<1>. QED BY <1>2, <1>3, <1>4, <1>5, <1>6, <1>7, <1>8 DEF Background

\* The steps of p's program outside Check_dead_processes.
QuietStep(p) ==
    \/ Skip(p) \/ CallCollective(p) \/ SecondCheck(p) \/ CallIcollective(p) \/ MPI_Comm_revoke(p)
    \/ CallP2P(p) \/ Sim_FT_MPI_Send(p) \/ Sim_FT_MPI_Recv(p) \/ RealRecv(p) \/ Sim_FT_MPI_Test(p)
    \/ RequestNbc(p)

LEMMA QuietStepFacts ==
    ASSUME TypeInv, NEW p \in Procs, QuietStep(p)
    PROVE  TypeInv' /\ Quiet(p) /\ RevokeKept
BY CallCollectiveFacts, CallIcollectiveFacts, CommRevokeFacts, CallP2PFacts, SendFacts, RecvFacts,
   RealRecvFacts, TestFacts, RequestNbcFacts DEF QuietStep

LEMMA QuietLast ==
    ASSUME LastSet, NEW p \in Procs, Quiet(p)
    PROVE  LastSet'
<1>1. Waits(Root)' => Waits(Root)
  BY SubtreeRoot DEF Quiet, SamePart, Waits
<1>. QED BY <1>1, LastKept DEF Quiet

LEMMA CheckRevokedFacts ==
    ASSUME TypeInv, NEW p \in Procs, CheckRevoked(p)
    PROVE  /\ TypeInv' /\ UNCHANGED <<program, alive, comm, root, net>> /\ comm[p].comm_revoked
           /\ pc'[p] \in {"idle", "real", "returned"} /\ \A q \in Procs \ {p} : pc'[q] = pc[q]
<1>1. alive[p]
  BY DEF CheckRevoked, TypeInv, Places, PlaceOf
<1>2. UNCHANGED <<program, alive, comm, root, net>> /\ comm[p].comm_revoked /\ Return(p, Revoked)
  BY DEF CheckRevoked
<1>3. pc'[p] \in {"idle", "real", "returned"} /\ \A q \in Procs \ {p} : pc'[q] = pc[q]
  BY <1>2, ReturnFacts DEF TypeInv
<1>. QED BY <1>1, <1>2, <1>3, ProgramTypes

LEMMA TypeStep ==
    ASSUME TypeInv, LastSet, [Next]_vars
    PROVE  TypeInv' /\ LastSet'
<1>. Root \in Procs /\ Types
  BY SubtreeRoot DEF TypeInv
<1>1. ASSUME NEW p \in Procs, Background(p) PROVE TypeInv' /\ LastSet'
  BY <1>1, BackgroundTypes, BackgroundLast
<1>2. ASSUME NEW p \in Procs, QuietStep(p) PROVE TypeInv' /\ LastSet'
  BY <1>2, QuietStepFacts, QuietLast
<1>3. ASSUME NEW p \in Procs, CheckRevoked(p) PROVE TypeInv' /\ LastSet'
  <2>1. Waits(Root)' => Waits(Root)
    BY <1>3, CheckRevokedFacts DEF Waits
  <2>. QED BY <1>3, <2>1, CheckRevokedFacts, LastKept
<1>4. ASSUME NEW p \in Procs, BeginReduce(p) PROVE TypeInv' /\ LastSet'
  <2>1. Waits(Root)' => Waits(Root)
    BY <1>4, BeginReduceFacts DEF Waits, Alone
  <2>. QED BY <1>4, <2>1, BeginReduceFacts, LastKept
<1>5. ASSUME NEW p \in Procs, NEW q \in Procs, ReceiveReduce(p, q) PROVE TypeInv' /\ LastSet'
  <2>1. Waits(Root)' => Waits(Root)
    BY <1>5, ReceiveReduceFacts DEF Waits, Alone
  <2>. QED BY <1>5, <2>1, ReceiveReduceFacts, LastKept
<1>6. ASSUME NEW p \in Procs, Sim_FT_Custom_Reduce(p) PROVE TypeInv' /\ LastSet'
  <2>1. comm[p].vector \in Vectors
    BY DEF TypeInv, Types, Comms
  <2>2. CASE p = Root
    BY <1>6, <2>1, <2>2, CustomReduceFacts DEF LastSet
  <2>3. CASE p # Root
    <3>1. Waits(Root)' => Waits(Root)
      BY <1>6, <2>3, CustomReduceFacts DEF Waits, Alone
    <3>. QED BY <1>6, <2>3, <3>1, CustomReduceFacts, LastKept
  <2>. QED BY <2>2, <2>3
<1>7. ASSUME NEW p \in Procs, Sim_FT_Custom_Ireduce(p) PROVE TypeInv' /\ LastSet'
  <2>2. CASE p = Root
    BY <1>7, <2>2, CustomIreduceFacts DEF LastSet
  <2>3. CASE p # Root
    <3>1. Waits(Root)' => Waits(Root)
      BY <1>7, <2>3, CustomIreduceFacts DEF Waits, Alone
    <3>2. root' = root
      BY <1>7, <2>3, CustomIreduceFacts
    <3>. QED BY <1>7, <3>1, <3>2, CustomIreduceFacts, LastKept
  <2>. QED BY <2>2, <2>3
<1>8. ASSUME NEW p \in Procs, Sim_FT_Custom_Dead_bcast(p) PROVE TypeInv' /\ LastSet'
  <2>1. Waits(Root)' => Waits(Root)
    BY <1>8, DeadBcastFacts DEF Waits, Alone
  <2>. QED BY <1>8, <2>1, DeadBcastFacts, LastKept
<1>9. ASSUME NEW p \in Procs, ReceiveDeadBcast(p) PROVE TypeInv' /\ LastSet'
  <2>1. Waits(Root)' => Waits(Root)
    BY <1>9, PassBcastFacts DEF Waits, Alone
  <2>. QED BY <1>9, <2>1, PassBcastFacts, LastKept
<1>10. ASSUME NEW p \in Procs, DeadBcastDead(p) PROVE TypeInv' /\ LastSet'
  <2>1. root.Last_Send_Vector \in Vectors
    BY <1>10 DEF LastSet, Waits, DeadBcastDead
  <2>2. Waits(Root)' => Waits(Root)
    BY <1>10, <2>1, DeadBcastDeadFacts DEF Waits, Alone
  <2>. QED BY <1>10, <2>1, <2>2, DeadBcastDeadFacts, LastKept
<1>11. ASSUME NEW p \in Procs, ReceiveDeadBcastDead(p) PROVE TypeInv' /\ LastSet'
  <2>1. Waits(Root)' => Waits(Root)
    BY <1>11, PassBcastDeadFacts DEF Waits, Alone
  <2>. QED BY <1>11, <2>1, PassBcastDeadFacts, LastKept
<1>12. ASSUME NEW p \in Procs, SwitchTags(p) PROVE TypeInv' /\ LastSet'
  <2>1. Waits(Root)' => Waits(Root)
    <3>1. comm \in [Procs -> Comms] /\ comm' = [comm EXCEPT ![p].tag = Revoke] /\ pc' = pc
      BY <1>12 DEF SwitchTags, Types
    <3>2. comm'[Root].Ireduce_Active = comm[Root].Ireduce_Active
      BY <3>1 DEF Comms
    <3>. QED BY <3>1, <3>2 DEF Waits
  <2>. QED BY <1>12, <2>1, SwitchTagsFacts, LastKept
<1>13. ASSUME NEW p \in Procs, RequestNbcDead(p) PROVE TypeInv' /\ LastSet'
  <2>1. Waits(Root)' => Waits(Root)
    BY <1>13, RequestNbcDeadFacts DEF Waits, Stays
  <2>. QED BY <1>13, <2>1, RequestNbcDeadFacts, LastKept
<1>14. ASSUME NEW p \in Procs, Sim_FT_kill_me(p) PROVE TypeInv' /\ LastSet'
  <2>1. Waits(Root)' => Waits(Root)
    BY <1>14, KillMeFacts DEF Waits
  <2>. QED BY <1>14, <2>1, KillMeFacts, LastKept
<1>15. ASSUME RealCollective PROVE TypeInv' /\ LastSet'
  <2>1. Waits(Root)' => Waits(Root)
    BY <1>15, RealCollectiveFacts DEF Waits
  <2>. QED BY <1>15, <2>1, RealCollectiveFacts, LastKept
<1>16. CASE UNCHANGED vars
  BY <1>16 DEF vars, TypeInv, Types, Places, PlaceOf, LastSet, Waits
<1>17. ASSUME NEW p \in Procs, Operation(p) PROVE TypeInv' /\ LastSet'
  BY <1>2, <1>3, <1>4, <1>5, <1>6, <1>8, <1>9, <1>17 DEF Operation, QuietStep
<1>18. ASSUME NEW p \in Procs, Dead(p) PROVE TypeInv' /\ LastSet'
  BY <1>7, <1>10, <1>11, <1>12, <1>13, <1>18 DEF Dead
<1>. QED BY <1>1, <1>14, <1>15, <1>16, <1>17, <1>18 DEF Next

\* Type correctness: the members of the layer's structures keep their types, and every process
\* is where its program, or the loop of Sim_FT_kill_me, lets it be.
THEOREM TypeCorrect == Spec => []TypeInv
<1>1. Init => TypeInv /\ LastSet
  BY InitTypes, InitTree
<1>2. (TypeInv /\ LastSet) /\ [Next]_vars => (TypeInv /\ LastSet)'
  BY TypeStep
<1>. QED BY <1>1, <1>2, PTL DEF Spec

-----------------------------------------------------------------------------
(* Until a revocation every step keeps the tree right *)

\* p fails: no part that is on the way, or has been received, comes from above p.
LEMMA KillTree ==
    ASSUME TypeInv, TreeInv, ~Revoking, NEW p \in Procs, Sim_FT_kill_me(p)
    PROVE  TreeInv'
<1>1. /\ SameTree /\ pc[p] = "idle" /\ alive[p] /\ pc'[p] = "dead" /\ alive' = [alive EXCEPT ![p] = FALSE]
      /\ \A q \in Procs \ {p} : pc'[q] = pc[q] /\ comm'[q] = comm[q]
      /\ comm'[p].received = {} /\ comm'[p].vector.dead = 0 /\ comm'[p].tag = Normal
      /\ ~comm'[p].Ireduce_Active /\ ~comm[p].Ireduce_Active /\ UNCHANGED root
  BY KillMeFacts DEF Revoking
<1>2. \A q \in Procs : up(q)' = up(q) /\ down(q)' = down(q)
  BY <1>1 DEF SameTree, up, down
<1>3. alive \in [Procs -> BOOLEAN]
  BY DEF TypeInv, Types
<1>4. DeadProcs' = DeadProcs \cup {p} /\ \A q \in Procs \ {p} : alive'[q] = alive[q]
  BY <1>1, <1>3 DEF DeadProcs
<1>5. ~Waits(p) /\ ~Waits(p)' /\ Joined(p) = {} /\ Joined(p)' = {}
  BY <1>1 DEF Waits, Joined, Collecting
<1>6. \A q \in Procs \ {p} : SameView(q)
  BY <1>1, <1>4 DEF SameView, Waits, Collecting, Joined
<1>7. \A q \in Procs : (Waits(q)' <=> Waits(q)) /\ Joined(q)' = Joined(q)
  BY <1>5, <1>6 DEF SameView
<1>8. Edges'
  <2>1. ASSUME NEW r \in Procs, NEW q \in Successors[r] PROVE Edge(r, q)'
    <3>1. q \in Procs /\ Edge(r, q)
      BY Upwards DEF TreeInv, Edges
    <3>. QED BY <1>2, <1>7, <3>1 DEF Edge
  <2>2. \A q \in Procs : comm'[q].tag = Normal
    BY <1>1, <1>6 DEF SameView, TreeInv, Edges
  <2>. QED BY <1>2, <2>1, <2>2, SubtreeRoot DEF TreeInv, Edges
<1>9. \A q \in Procs : Waits(q) => p \notin Subtree(q)
  BY <1>5, AllBelowWait DEF TreeInv
<1>10. \A q \in Procs : PartRight(q)'
  <2>. SUFFICES ASSUME NEW q \in Procs, up(q) # <<>> PROVE Head(up(q)).dead = Cardinality(DeadProcs' \cap Subtree(q))
    BY <1>2 DEF PartRight
  <2>1. q # Root
    BY DEF TreeInv, Edges
  <2>2. PICK r \in Procs : q \in Successors[r]
    BY <2>1, HasPredecessor
  <2>3. Waits(q)
    BY <2>2 DEF TreeInv, Edges, Edge
  <2>4. DeadProcs' \cap Subtree(q) = DeadProcs \cap Subtree(q)
    BY <1>4, <1>9, <2>3
  <2>. QED BY <2>4 DEF TreeInv, Counts, PartRight
<1>11. SumRight(p)'
  BY <1>1, <1>5, BelowNothing DEF SumRight
<1>12. \A q \in Procs \ {p} : SumRight(q)'
  <2>. SUFFICES ASSUME NEW q \in Procs, q # p, Collecting(q)
                PROVE  comm'[q].vector.dead = Cardinality(Below(DeadProcs', Joined(q)))
    BY <1>6, <1>7 DEF SumRight, SameView
  <2>1. \A c \in Joined(q) : c \in Procs /\ Waits(c)
    <3>1. \A c \in Joined(q) : c \in Successors[q] /\ c \in Procs /\ Edge(q, c)
      BY TreeTypes, Upwards DEF TreeInv, Edges
    <3>. QED BY <3>1 DEF Edge
  <2>2. Below(DeadProcs', Joined(q)) = Below(DeadProcs, Joined(q))
    BY <1>4, <1>9, <2>1 DEF Below
  <2>. QED BY <1>6, <2>2 DEF TreeInv, Counts, SumRight, SameView
<1>13. TotalRight'
  BY <1>5, <1>7, <1>9, SubtreeRoot DEF TotalRight
<1>. QED BY <1>8, <1>10, <1>11, <1>12, <1>13 DEF TreeInv, Counts

\* A step that changes nothing any process knows about failures.
Unseen ==
    /\ UNCHANGED <<alive, outcome>> /\ net'.bcast = net.bcast
    /\ \A q \in Procs : /\ comm'[q].dead_set = comm[q].dead_set /\ comm'[q].dead_nodes = comm[q].dead_nodes
                        /\ InCheck(q)' <=> InCheck(q)
    /\ root'.Dead_Processes_Root = root.Dead_Processes_Root /\ root'.recent = root.recent
    /\ net'.dead = net.dead /\ net'.nbcBcast = net.nbcBcast /\ NoNewDead

SameTexts == net'.p2p = net.p2p => NoNewDead

LEMMA SameTextsLemma == SameTexts
BY DEF SameTexts, NoNewDead

\* What a step is as long as nobody revokes the communicator.
StepKind ==
    \/ Unseen
    \/ Sim_FT_Receive_dead_msgs_root /\ SameTree
    \/ Sim_FT_NBC_bcast_root /\ SameTree
    \/ \E p \in Procs : \/ Sim_FT_NBC_bcast_Nroot(p)
                        \/ Quiet(p)
                        \/ Sim_FT_kill_me(p)
                        \/ \E m \in DeadMessages : Release(p, m)

LEMMA SameDown ==
    ASSUME NoRevokedComm, net'.bcast = net.bcast
    PROVE  NoRevokedComm'
BY DEF NoRevokedComm, down

LEMMA BackgroundTree ==
    ASSUME TypeInv, TreeInv, NoRevokedComm, ~Revoking, NEW p \in Procs, Background(p)
    PROVE  Revoking' \/ (TreeInv' /\ NoRevokedComm' /\ StepKind)
<1>. Types
  BY DEF TypeInv
<1>1. ASSUME Stays, SameTree, \A q \in Procs : SamePart(q), root'.Last_Send_Vector = root.Last_Send_Vector
      PROVE  TreeInv' /\ NoRevokedComm'
  <2>1. \A q \in Procs : SameView(q)
    BY <1>1 DEF Stays, SamePart, SameView, Waits, Collecting, Joined
  <2>. QED BY <1>1, <2>1, CalmTree, SameDown DEF Stays, SameTree
<1>2. CASE Sim_FT_Receive_dead_msgs_root
  BY <1>1, <1>2, ReceiveDeadMsgsFacts DEF NewKnown, StepKind
<1>3. CASE Sim_FT_NBC_bcast_root
  BY <1>1, <1>3, NbcBcastRootFacts DEF SamePart, StepKind
<1>4. CASE Sim_FT_NBC_bcast_Nroot(p)
  BY <1>1, <1>4, NbcBcastFacts DEF NewKnown, StepKind
<1>5. CASE AnswerNbcRequest(p)
  <2>1. Unseen
    BY <1>5, AnswerNbcFacts, SameTextsLemma DEF Unseen, Stays, OtherMessages, SameTree, SameTexts, InCheck
  <2>. QED BY <1>1, <1>5, <2>1, AnswerNbcFacts DEF SamePart, StepKind, OtherMessages
<1>6. CASE Sim_FT_Check_comm_revoked(p)
  BY <1>6, CheckCommRevokedFacts DEF Revoking
<1>7. CASE AnswerReduceRevoked(p)
  BY <1>7, AnswerReduceRevokedFacts DEF Revoking
<1>8. CASE AnswerAlive(p)
  <2>1. Unseen
    BY <1>8, AnswerAliveFacts DEF Unseen, Stays, OtherMessages, SameTree, InCheck
  <2>. QED BY <1>1, <1>8, <2>1, AnswerAliveFacts DEF SamePart, StepKind, OtherMessages
<1>. QED BY <1>2, <1>3, <1>4, <1>5, <1>6, <1>7, <1>8 DEF Background

LEMMA TreeStep ==
    ASSUME TypeInv, LastSet, TreeInv, NoRevokedComm, ~Revoking, [Next]_vars
    PROVE  Revoking' \/ (TreeInv' /\ NoRevokedComm' /\ StepKind)
<1>. DEFINE Goal == Revoking' \/ (TreeInv' /\ NoRevokedComm' /\ StepKind)
<1>1. ASSUME NEW p \in Procs, Background(p) PROVE Goal
  BY <1>1, BackgroundTree
<1>2. ASSUME NEW p \in Procs, QuietStep(p) PROVE Goal
  <2>1. Quiet(p)
    BY <1>2, QuietStepFacts
  <2>2. \A q \in Procs : SameView(q)
    BY <2>1 DEF Quiet, SameView, SamePart, Waits, Collecting, Joined
  <2>3. SameTree /\ UNCHANGED <<alive, root>> /\ net'.bcast = net.bcast
    BY <2>1 DEF Quiet, OtherMessages, SameTree
  <2>. QED BY <2>1, <2>2, <2>3, CalmTree, SameDown DEF StepKind
<1>3. ASSUME NEW p \in Procs, CheckRevoked(p) PROVE Goal
  BY <1>3, CheckRevokedFacts DEF Revoking
<1>4. ASSUME NEW p \in Procs, BeginReduce(p) PROVE Goal
  <2>1. Unseen
    BY <1>4, BeginReduceFacts, SameTextsLemma DEF Unseen, Alone, SameTexts, InCheck
  <2>. QED BY <1>4, <2>1, BeginTree, BeginReduceFacts, SameDown DEF StepKind
<1>5. ASSUME NEW p \in Procs, NEW q \in Procs, ReceiveReduce(p, q) PROVE Goal
  <2>1. Unseen
    BY <1>5, ReceiveReduceFacts, SameTextsLemma DEF Unseen, Alone, OutsideTree, SameTexts, InCheck
  <2>. QED BY <1>5, <2>1, ReceiveTree, ReceiveReduceFacts, SameDown DEF StepKind
<1>6. ASSUME NEW p \in Procs, Sim_FT_Custom_Reduce(p) PROVE Goal
  <2>1. Unseen
    BY <1>6, CustomReduceFacts, SameTextsLemma DEF Unseen, Alone, OutsideTree, SameTexts, InCheck
  <2>. QED BY <1>6, <2>1, ForwardTree, CustomReduceFacts, SameDown DEF StepKind
<1>7. ASSUME NEW p \in Procs, Sim_FT_Custom_Ireduce(p) PROVE Goal
  <2>1. Unseen
    BY <1>7, CustomIreduceFacts, SameTextsLemma DEF Unseen, Alone, OutsideTree, SameTexts, InCheck
  <2>. QED BY <1>7, <2>1, ForwardTree, CustomIreduceFacts, SameDown DEF StepKind
<1>8. ASSUME NEW p \in Procs, Sim_FT_Custom_Dead_bcast(p) \/ DeadBcastDead(p) PROVE Goal
  <2>1. TypeInv' /\ \E m \in DeadMessages : Release(p, m)
    BY <1>8, ReleaseRoot
  <2>. QED BY <2>1, ReleaseTree DEF StepKind
<1>9. ASSUME NEW p \in Procs, ReceiveDeadBcast(p) \/ ReceiveDeadBcastDead(p) PROVE Goal
  <2>1. TypeInv' /\ \E m \in DeadMessages : Release(p, m)
    BY <1>9, ReleaseOther
  <2>. QED BY <2>1, ReleaseTree DEF StepKind
<1>10. ASSUME NEW p \in Procs, SwitchTags(p) PROVE Goal
  BY <1>10, SwitchTagsFacts DEF Revoking
<1>11. ASSUME NEW p \in Procs, RequestNbcDead(p) PROVE Goal
  <2>1. Unseen
    BY <1>11, RequestNbcDeadFacts, SameTextsLemma DEF Unseen, Stays, SameTree, OutsideTree, SameTexts, InCheck
  <2>2. \A q \in Procs : SameView(q)
    BY <1>11, RequestNbcDeadFacts DEF Stays, SameView, Waits, Collecting, Joined
  <2>. QED BY <1>11, <2>1, <2>2, RequestNbcDeadFacts, CalmTree, SameDown DEF StepKind, Stays, SameTree
<1>12. ASSUME NEW p \in Procs, Sim_FT_kill_me(p) PROVE Goal
  BY <1>12, KillTree, KillMeFacts, SameDown DEF StepKind, SameTree
<1>13. ASSUME RealCollective PROVE Goal
  <2>1. Unseen
    BY <1>13, RealCollectiveFacts, SameTextsLemma DEF Unseen, SameTexts, InCheck
  <2>2. \A q \in Procs : SameView(q)
    BY <1>13, RealCollectiveFacts DEF SameView, Waits, Collecting, Joined
  <2>3. SameTree /\ UNCHANGED <<alive, root>> /\ net'.bcast = net.bcast
    BY <1>13, RealCollectiveFacts DEF SameTree
  <2>. QED BY <2>1, <2>2, <2>3, CalmTree, SameDown DEF StepKind
<1>14. CASE UNCHANGED vars
  <2>1. Unseen
    BY <1>14, SameTextsLemma DEF vars, Unseen, SameTexts, InCheck
  <2>2. \A q \in Procs : SameView(q)
    BY <1>14 DEF vars, SameView, Waits, Collecting, Joined
  <2>3. SameTree /\ UNCHANGED <<alive, root>> /\ net'.bcast = net.bcast
    BY <1>14 DEF vars, SameTree
  <2>. QED BY <2>1, <2>2, <2>3, CalmTree, SameDown DEF StepKind
<1>15. ASSUME NEW p \in Procs, Operation(p) PROVE Goal
  BY <1>2, <1>3, <1>4, <1>5, <1>6, <1>8, <1>9, <1>15 DEF Operation, QuietStep
<1>16. ASSUME NEW p \in Procs, Dead(p) PROVE Goal
  BY <1>7, <1>8, <1>9, <1>10, <1>11, <1>16 DEF Dead
<1>. QED BY <1>1, <1>12, <1>13, <1>14, <1>15, <1>16 DEF Next

-----------------------------------------------------------------------------
(* A revocation is not taken back *)

LEMMA SameRevokeKept ==
    ASSUME SameRevoke, \A q \in Procs : comm[q].comm_revoked => comm'[q].comm_revoked
    PROVE  RevokeKept
BY DEF SameRevoke, RevokeKept

LEMMA RevokingStep ==
    ASSUME TypeInv, LastSet, Revoking, [Next]_vars
    PROVE  Revoking'
<1>. Types
  BY DEF TypeInv
<1>. USE SameRevokeKept, RevokeKeptRevoking
<1>1. ASSUME NEW p \in Procs, Background(p) PROVE Revoking'
  <2>2. CASE Sim_FT_Receive_dead_msgs_root
    BY <2>2, ReceiveDeadMsgsFacts DEF NewKnown
  <2>3. CASE Sim_FT_NBC_bcast_root
    BY <2>3, NbcBcastRootFacts
  <2>4. CASE Sim_FT_NBC_bcast_Nroot(p)
    BY <2>4, NbcBcastFacts DEF NewKnown
  <2>5. CASE AnswerNbcRequest(p)
    BY <2>5, AnswerNbcFacts
  <2>6. CASE Sim_FT_Check_comm_revoked(p)
    BY <2>6, CheckCommRevokedFacts DEF Revoking
  <2>7. CASE AnswerReduceRevoked(p)
    BY <2>7, AnswerReduceRevokedFacts DEF Revoking
  <2>8. CASE AnswerAlive(p)
    BY <2>8, AnswerAliveFacts
  <2>. QED BY <1>1, <2>2, <2>3, <2>4, <2>5, <2>6, <2>7, <2>8 DEF Background
<1>2. ASSUME NEW p \in Procs, QuietStep(p) PROVE Revoking'
  BY <1>2, QuietStepFacts
<1>3. ASSUME NEW p \in Procs, CheckRevoked(p) PROVE Revoking'
  BY <1>3, CheckRevokedFacts DEF Revoking
<1>4. ASSUME NEW p \in Procs, BeginReduce(p) PROVE Revoking'
  BY <1>4, BeginReduceFacts DEF Alone, SameRevoke
<1>5. ASSUME NEW p \in Procs, NEW q \in Procs, ReceiveReduce(p, q) PROVE Revoking'
  BY <1>5, ReceiveReduceFacts DEF Alone, OutsideTree
<1>6. ASSUME NEW p \in Procs, Sim_FT_Custom_Reduce(p) PROVE Revoking'
  BY <1>6, CustomReduceFacts DEF OutsideTree
<1>7. ASSUME NEW p \in Procs, Sim_FT_Custom_Ireduce(p) PROVE Revoking'
  BY <1>7, CustomIreduceFacts DEF Alone, OutsideTree
<1>8. ASSUME NEW p \in Procs, Sim_FT_Custom_Dead_bcast(p) PROVE Revoking'
  BY <1>8, DeadBcastFacts DEF Alone, OutsideTree
<1>9. ASSUME NEW p \in Procs, ReceiveDeadBcast(p) PROVE Revoking'
  <2>1. Alone(p) /\ OutsideTree /\ (comm[p].comm_revoked => comm'[p].comm_revoked)
    BY <1>9, PassBcastFacts
  <2>2. \A q \in Procs : comm[q].comm_revoked => comm'[q].comm_revoked
    BY <2>1 DEF Alone
  <2>. QED BY <2>1, <2>2 DEF OutsideTree
<1>10. ASSUME NEW p \in Procs, DeadBcastDead(p) PROVE Revoking'
  <2>1. root.Last_Send_Vector \in Vectors
    BY <1>10 DEF LastSet, Waits, DeadBcastDead
  <2>. QED BY <1>10, <2>1, DeadBcastDeadFacts DEF Alone, OutsideTree
<1>11. ASSUME NEW p \in Procs, ReceiveDeadBcastDead(p) PROVE Revoking'
  <2>1. Alone(p) /\ OutsideTree /\ comm'[p].comm_revoked = comm[p].comm_revoked
    BY <1>11, PassBcastDeadFacts
  <2>2. \A q \in Procs : comm[q].comm_revoked => comm'[q].comm_revoked
    BY <2>1 DEF Alone
  <2>. QED BY <2>1, <2>2 DEF OutsideTree
<1>12. ASSUME NEW p \in Procs, SwitchTags(p) PROVE Revoking'
  BY <1>12, SwitchTagsFacts DEF Revoking
<1>13. ASSUME NEW p \in Procs, RequestNbcDead(p) PROVE Revoking'
  BY <1>13, RequestNbcDeadFacts DEF OutsideTree
<1>14. ASSUME NEW p \in Procs, Sim_FT_kill_me(p) PROVE Revoking'
  BY <1>14, KillMeFacts
<1>15. ASSUME RealCollective PROVE Revoking'
  BY <1>15, RealCollectiveFacts DEF SameRevoke
<1>16. CASE UNCHANGED vars
  BY <1>16 DEF vars, Revoking
<1>17. ASSUME NEW p \in Procs, Operation(p) PROVE Revoking'
  BY <1>2, <1>3, <1>4, <1>5, <1>6, <1>8, <1>9, <1>17 DEF Operation, QuietStep
<1>18. ASSUME NEW p \in Procs, Dead(p) PROVE Revoking'
  BY <1>7, <1>10, <1>11, <1>12, <1>13, <1>18 DEF Dead
<1>. QED BY <1>1, <1>14, <1>15, <1>16, <1>17, <1>18 DEF Next

-----------------------------------------------------------------------------
(* What the root knows *)

RootKnown ==
    root.Dead_Processes_Root \subseteq DeadProcs /\ root.recent \subseteq DeadProcs /\ net.dead \subseteq DeadProcs

LEMMA DeadGrow ==
    ASSUME TypeInv, StepKind
    PROVE  /\ DeadProcs \subseteq DeadProcs' /\ \A p \in Procs : alive'[p] => alive[p]
           /\ (\E p \in Procs : Sim_FT_kill_me(p)) \/ alive' = alive
<1>. Types /\ alive \in [Procs -> BOOLEAN]
  BY DEF TypeInv, Types
<1>1. CASE \E p \in Procs : Sim_FT_kill_me(p)
  <2>1. PICK p \in Procs : alive' = [alive EXCEPT ![p] = FALSE]
    BY <1>1, KillMeFacts
  <2>. QED BY <1>1, <2>1 DEF DeadProcs
<1>2. CASE ~\E p \in Procs : Sim_FT_kill_me(p)
  <2>1. alive' = alive
    BY <1>2, ReceiveDeadMsgsFacts, NbcBcastRootFacts, NbcBcastFacts
       DEF StepKind, Unseen, Stays, Quiet, Release
  <2>. QED BY <2>1 DEF DeadProcs
<1>. QED BY <1>1, <1>2

LEMMA RootKnownStep ==
    ASSUME TypeInv, RootKnown, StepKind
    PROVE  RootKnown'
<1>. Types
  BY DEF TypeInv
<1>. USE DeadGrow
<1>1. ASSUME root'.Dead_Processes_Root = root.Dead_Processes_Root, root'.recent = root.recent, net'.dead = net.dead
      PROVE  RootKnown'
  BY <1>1 DEF RootKnown
<1>2. CASE Sim_FT_Receive_dead_msgs_root
  BY <1>2, ReceiveDeadMsgsFacts DEF RootKnown
<1>3. CASE Sim_FT_NBC_bcast_root
  BY <1>3, NbcBcastRootFacts DEF RootKnown
<1>4. ASSUME NEW p \in Procs, Sim_FT_kill_me(p) PROVE RootKnown'
  <2>1. net'.dead = net.dead \cup {p} /\ root' = root /\ alive' = [alive EXCEPT ![p] = FALSE]
    BY <1>4, KillMeFacts
  <2>2. p \in DeadProcs'
    BY <2>1 DEF DeadProcs, Types
  <2>. QED BY <2>1, <2>2 DEF RootKnown
<1>5. ASSUME NEW p \in Procs, Sim_FT_NBC_bcast_Nroot(p) PROVE RootKnown'
  BY <1>1, <1>5, NbcBcastFacts
<1>6. ASSUME NEW p \in Procs, Quiet(p) PROVE RootKnown'
  BY <1>1, <1>6 DEF Quiet, OtherMessages
<1>7. ASSUME NEW p \in Procs, NEW m \in DeadMessages, Release(p, m) PROVE RootKnown'
  BY <1>1, <1>7 DEF Release, OutsideTree
<1>8. CASE Unseen
  BY <1>1, <1>8 DEF Unseen
<1>. QED BY <1>2, <1>3, <1>4, <1>5, <1>6, <1>7, <1>8 DEF StepKind

\* The root waits for the message of every process the reduction has counted as dead.
LEMMA RootKnowsAll ==
    ASSUME TypeInv, TreeInv, RootKnown, NEW m \in DeadMessages, Release(Root, m)
    PROVE  m.dead = DeadProcs
<1>1. /\ Waits(Root) /\ m.dead = root.Dead_Processes_Root
      /\ Cardinality(m.dead) >= root.Last_Send_Vector.dead
  BY DEF Release
<1>2. root.Last_Send_Vector.dead = Cardinality(DeadProcs)
  BY <1>1 DEF TreeInv, Counts, TotalRight
<1>. DEFINE D == DeadProcs
            S == m.dead
<1>3. S \subseteq D /\ D \in SUBSET Procs /\ S \in SUBSET Procs /\ Cardinality(S) >= Cardinality(D)
  BY <1>1, <1>2 DEF RootKnown, DeadProcs
<1>. HIDE DEF D, S
<1>4. IsFiniteSet(D) /\ Cardinality(D) \in Nat /\ Cardinality(S) \in Nat
  BY <1>3, ProcsFinite
<1>5. Cardinality(S) <= Cardinality(D) /\ (Cardinality(S) = Cardinality(D) => S = D)
  BY <1>3, <1>4, FS_Subset
<1>6. S = D
  BY <1>3, <1>4, <1>5
<1>. QED BY <1>6 DEF D, S

-----------------------------------------------------------------------------
(* Every round of reduction and broadcast has one verdict *)

\* The calls of Check_dead_processes that p has begun.
Entered(p) == Len(outcome[p]) + IF InCheck(p) THEN 1 ELSE 0

\* R[p] counts the broadcasts p has learned of, dead or alive; V[k] is the k-th the root began.
OutcomesRight(R, V) == \A p \in Procs :
    /\ Len(outcome[p]) <= R[p]
    /\ alive[p] => Len(outcome[p]) = R[p]
    /\ \A k \in 1..Len(outcome[p]) : outcome[p][k] = V[k]

RoundsRight(R, V) == \A p \in Procs : \A q \in Successors[p] :
    /\ R[p] = R[q] + IF down(q) = <<>> THEN 0 ELSE 1
    /\ down(q) # <<>> => Head(down(q)).dead = V[R[p]]

VerdictsRight(V) == \A k \in 1..Len(V) : V[k] \subseteq DeadProcs /\ \A q \in Procs \ V[k] : Entered(q) >= k

Rounds(R, V) ==
    /\ R \in [Procs -> Nat] /\ V \in Seq(SUBSET Procs) /\ Len(V) = R[Root]
    /\ OutcomesRight(R, V) /\ RoundsRight(R, V) /\ VerdictsRight(V)

LEMMA InitRounds == Init => Rounds([p \in Procs |-> 0], <<>>)
<1>. SUFFICES ASSUME Init PROVE Rounds([p \in Procs |-> 0], <<>>)
  OBVIOUS
<1>. DEFINE R == [p \in Procs |-> 0]
            V == <<>>
<1>1. \A p \in Procs : down(p) = <<>>
  <2>1. net.bcast = [t \in Tags |-> [p \in Procs |-> <<>>]]
    BY DEF Init
  <2>. QED BY <2>1 DEF down, Tags
<1>2. \A p \in Procs : outcome[p] = <<>> /\ Len(outcome[p]) = 0
  BY DEF Init
<1>3. R \in [Procs -> Nat] /\ (\A p \in Procs : R[p] = 0) /\ V \in Seq(SUBSET Procs) /\ Len(V) = 0
  OBVIOUS
<1>. HIDE DEF R, V
<1>4. \A p \in Procs : \A q \in Successors[p] : q \in Procs
  BY Upwards
<1>5. OutcomesRight(R, V) /\ RoundsRight(R, V) /\ VerdictsRight(V)
  BY <1>1, <1>2, <1>3, <1>4 DEF OutcomesRight, RoundsRight, VerdictsRight
<1>6. Rounds(R, V)
  BY <1>3, <1>5, SubtreeRoot DEF Rounds
<1>. QED BY <1>6 DEF R, V

LEMMA OutcomeTypes ==
    ASSUME TypeInv
    PROVE  \A p \in Procs : outcome[p] \in Seq((SUBSET Procs) \cup {Revoked}) /\ Len(outcome[p]) \in Nat /\ Entered(p) \in Nat
<1>1. \A p \in Procs : outcome[p] \in Seq((SUBSET Procs) \cup {Revoked})
  BY DEF TypeInv, Types
<1>2. \A p \in Procs : Len(outcome[p]) \in Nat
  BY <1>1
<1>3. ASSUME NEW p \in Procs PROVE Entered(p) \in Nat
  <2>1. CASE InCheck(p)
    BY <1>2, <2>1 DEF Entered
  <2>2. CASE ~InCheck(p)
    BY <1>2, <2>2 DEF Entered
  <2>. QED BY <2>1, <2>2
<1>. QED BY <1>1, <1>2, <1>3

\* Nobody has learned of more broadcasts than the root has begun.
LEMMA RootFirst ==
    ASSUME NEW R, NEW V, Rounds(R, V)
    PROVE  \A p \in Procs : R[p] \in Nat /\ R[p] <= R[Root]
<1>. DEFINE X == {p \in Procs : R[p] <= R[Root]}
<1>1. R \in [Procs -> Nat] /\ Root \in Procs
  BY SubtreeRoot DEF Rounds
<1>2. ASSUME NEW p \in X PROVE Successors[p] \subseteq X
  <2>1. ASSUME NEW q \in Successors[p] PROVE q \in X
    <3>1. q \in Procs /\ R[p] = R[q] + IF down(q) = <<>> THEN 0 ELSE 1
      BY Upwards DEF Rounds, RoundsRight
    <3>. QED BY <1>1, <3>1
  <2>. QED BY <2>1
<1>3. X \in SUBSET Procs /\ Root \in X
  BY <1>1
<1>. HIDE DEF X
<1>4. Procs \subseteq X
  BY <1>1, <1>2, <1>3, SubtreeLeast, SubtreeRoot
<1>. QED BY <1>1, <1>4 DEF X

\* When the root waits all have learned of the same broadcasts.
LEMMA AllInRound ==
    ASSUME TreeInv, NEW R, NEW V, Rounds(R, V), Waits(Root)
    PROVE  \A p \in Procs : Waits(p) /\ R[p] = R[Root]
<1>. DEFINE X == {p \in Procs : R[p] = R[Root]}
<1>1. R \in [Procs -> Nat] /\ Root \in Procs
  BY SubtreeRoot DEF Rounds
<1>2. \A p \in Procs : Waits(p)
  BY SubtreeRoot, AllBelowWait DEF TreeInv
<1>3. ASSUME NEW p \in X PROVE Successors[p] \subseteq X
  <2>1. ASSUME NEW q \in Successors[p] PROVE q \in X
    <3>1. q \in Procs /\ R[p] = R[q] + IF down(q) = <<>> THEN 0 ELSE 1
      BY Upwards DEF Rounds, RoundsRight
    <3>2. down(q) = <<>>
      BY <1>2, <3>1 DEF TreeInv, Edges, Edge
    <3>. QED BY <1>1, <3>1, <3>2
  <2>. QED BY <2>1
<1>4. X \in SUBSET Procs /\ Root \in X
  BY <1>1
<1>. HIDE DEF X
<1>5. Procs \subseteq X
  BY <1>1, <1>3, <1>4, SubtreeLeast, SubtreeRoot
<1>. QED BY <1>2, <1>5 DEF X

\* A step in which nobody learns of a broadcast.
LEMMA NoRound ==
    ASSUME TypeInv, NEW R, NEW V, Rounds(R, V), outcome' = outcome, net'.bcast = net.bcast,
           DeadProcs \subseteq DeadProcs', \A p \in Procs : alive'[p] => alive[p],
           \A p \in Procs : InCheck(p) => InCheck(p)'
    PROVE  Rounds(R, V)'
<1>1. \A p \in Procs : down(p)' = down(p)
  BY DEF down
<1>2. ASSUME NEW p \in Procs PROVE Entered(p)' \in Nat /\ Entered(p) \in Nat /\ Entered(p)' >= Entered(p)
  <2>1. Len(outcome[p]) \in Nat /\ outcome'[p] = outcome[p]
    BY OutcomeTypes
  <2>2. CASE InCheck(p)
    <3>1. InCheck(p)'
      BY <2>2
    <3>. QED BY <2>1, <2>2, <3>1 DEF Entered
  <2>3. CASE ~InCheck(p) /\ InCheck(p)'
    BY <2>1, <2>3 DEF Entered
  <2>4. CASE ~InCheck(p) /\ ~InCheck(p)'
    BY <2>1, <2>4 DEF Entered
  <2>. QED BY <2>2, <2>3, <2>4
<1>3. OutcomesRight(R, V)'
  BY DEF Rounds, OutcomesRight
<1>4. RoundsRight(R, V)'
  BY <1>1, Upwards DEF Rounds, RoundsRight
<1>5. VerdictsRight(V)'
  <2>1. \A k \in 1..Len(V) : V[k] \subseteq DeadProcs /\ \A q \in Procs \ V[k] : Entered(q) >= k
    BY DEF Rounds, VerdictsRight
  <2>2. Len(V) \in Nat
    BY DEF Rounds
  <2>3. \A k \in 1..Len(V) : \A q \in Procs \ V[k] : Entered(q)' >= k
    BY <1>2, <2>1, <2>2
  <2>. QED BY <2>1, <2>3 DEF VerdictsRight
<1>. QED BY <1>3, <1>4, <1>5 DEF Rounds

\* Learning of a broadcast ends the call an alive process has entered.
LEMMA ReleaseOutcome ==
    ASSUME TypeInv, NEW p \in Procs, NEW m \in DeadMessages, Release(p, m)
    PROVE  /\ \A q \in Procs \ {p} : outcome'[q] = outcome[q]
           /\ ~alive[p] => outcome'[p] = outcome[p]
           /\ alive[p] => /\ Entered(p) = Len(outcome[p]) + 1
                          /\ Len(outcome'[p]) = Len(outcome[p]) + 1 /\ outcome'[p][Len(outcome[p]) + 1] = m.dead
                          /\ \A k \in 1..Len(outcome[p]) : outcome'[p][k] = outcome[p][k]
           /\ \A q \in Procs : Entered(q)' = Entered(q)
<1>1. /\ \A q \in Procs \ {p} : outcome'[q] = outcome[q] /\ pc'[q] = pc[q]
      /\ ~alive[p] => outcome'[p] = outcome[p]
      /\ ~InCheck(p)'
  BY DEF Release, Alone, InCheck, Waits
<1>2. \A q \in Procs \ {p} : Entered(q)' = Entered(q)
  BY <1>1 DEF Entered, InCheck
<1>3. m.dead \in (SUBSET Procs) \cup {Revoked} /\ outcome[p] \in Seq((SUBSET Procs) \cup {Revoked}) /\ Len(outcome[p]) \in Nat
  BY OutcomeTypes DEF Release
<1>4. CASE alive[p]
  <2>1. outcome'[p] = Append(outcome[p], m.dead) /\ InCheck(p)
    BY <1>4 DEF Release, InCheck, TypeInv, Types
  <2>2. /\ Len(outcome'[p]) = Len(outcome[p]) + 1 /\ outcome'[p][Len(outcome[p]) + 1] = m.dead
        /\ \A k \in 1..Len(outcome[p]) : outcome'[p][k] = outcome[p][k]
    BY <1>3, <2>1
  <2>3. Entered(p) = Len(outcome[p]) + 1
    BY <2>1 DEF Entered
  <2>4. Entered(p)' = Len(outcome'[p]) + 0
    BY <1>1 DEF Entered
  <2>. QED BY <1>1, <1>2, <1>3, <1>4, <2>2, <2>3, <2>4
<1>5. CASE ~alive[p]
  <2>1. ~InCheck(p)
    BY <1>5 DEF TypeInv, Places, PlaceOf, InCheck
  <2>2. Entered(p)' = Entered(p)
    BY <1>1, <1>5, <2>1 DEF Entered
  <2>. QED BY <1>1, <1>2, <1>5, <2>2
<1>. QED BY <1>4, <1>5

\* The root begins a broadcast, with the processes that are dead, when all others have entered.
LEMMA RootRound ==
    ASSUME TypeInv, TreeInv, TreeInv', RootKnown, NEW R, NEW V, Rounds(R, V),
           NEW m \in DeadMessages, Release(Root, m)
    PROVE  \E R1, V1 : Rounds(R1, V1)'
<1>. DEFINE r == R[Root]
            R1 == [R EXCEPT ![Root] = r + 1]
            V1 == Append(V, m.dead)
<1>1. /\ R \in [Procs -> Nat] /\ V \in Seq(SUBSET Procs) /\ Len(V) = r /\ Root \in Procs /\ r \in Nat
      /\ m.dead = DeadProcs /\ m.dead \in SUBSET Procs
      /\ DeadProcs' = DeadProcs /\ alive' = alive /\ Waits(Root)
  BY SubtreeRoot, RootKnowsAll DEF Rounds, Release, DeadProcs
<1>2. \A p \in Procs : Waits(p) /\ R[p] = r
  BY <1>1, AllInRound
<1>3. /\ R1 \in [Procs -> Nat] /\ R1[Root] = r + 1 /\ \A p \in Procs \ {Root} : R1[p] = r
      /\ V1 \in Seq(SUBSET Procs) /\ Len(V1) = r + 1 /\ V1[r + 1] = m.dead
      /\ \A k \in 1..r : V1[k] = V[k]
  BY <1>1, <1>2
<1>. HIDE DEF R1, V1, r
<1>4. \A p \in Procs : Len(outcome[p]) \in Nat
  BY OutcomeTypes
<1>5. /\ \A q \in Procs \ {Root} : outcome'[q] = outcome[q]
      /\ ~alive[Root] => outcome'[Root] = outcome[Root]
      /\ alive[Root] => /\ Len(outcome'[Root]) = Len(outcome[Root]) + 1
                        /\ outcome'[Root][Len(outcome[Root]) + 1] = m.dead
                        /\ \A k \in 1..Len(outcome[Root]) : outcome'[Root][k] = outcome[Root][k]
      /\ \A q \in Procs : Entered(q)' = Entered(q)
  BY <1>1, ReleaseOutcome
<1>6. OutcomesRight(R1, V1)'
  <2>. SUFFICES ASSUME NEW p \in Procs
                PROVE  /\ Len(outcome'[p]) <= R1[p]
                       /\ alive[p] => Len(outcome'[p]) = R1[p]
                       /\ \A k \in 1..Len(outcome'[p]) : outcome'[p][k] = V1[k]
    BY <1>1 DEF OutcomesRight
  <2>1. /\ Len(outcome[p]) <= r
        /\ alive[p] => Len(outcome[p]) = r
        /\ \A k \in 1..Len(outcome[p]) : outcome[p][k] = V[k]
    BY <1>2 DEF Rounds, OutcomesRight
  <2>2. \A k \in 1..Len(outcome[p]) : outcome[p][k] = V1[k]
    BY <1>1, <1>3, <1>4, <2>1
  <2>3. CASE p # Root
    <3>1. outcome'[p] = outcome[p] /\ R1[p] = r
      BY <1>3, <1>5, <2>3
    <3>. QED BY <2>1, <2>2, <3>1
  <2>4. CASE p = Root /\ ~alive[p]
    <3>1. outcome'[p] = outcome[p] /\ R1[p] = r + 1 /\ Len(outcome[p]) \in Nat
      BY <1>3, <1>4, <1>5, <2>4
    <3>2. Len(outcome[p]) <= r + 1
      BY <1>1, <2>1, <3>1
    <3>. QED BY <2>2, <2>4, <3>1, <3>2
  <2>5. CASE p = Root /\ alive[p]
    <3>1. Len(outcome[p]) = r /\ Len(outcome'[p]) = Len(outcome[p]) + 1 /\ R1[p] = r + 1
      BY <1>3, <1>5, <2>1, <2>5
    <3>2. outcome'[p][r + 1] = m.dead /\ \A k \in 1..r : outcome'[p][k] = outcome[p][k]
      BY <1>5, <2>5, <3>1
    <3>3. ASSUME NEW k \in 1..(r + 1) PROVE outcome'[p][k] = V1[k]
      <4>1. CASE k \in 1..r
        BY <2>2, <3>1, <3>2, <4>1
      <4>2. CASE k = r + 1
        BY <1>3, <3>2, <4>2
      <4>. QED BY <1>1, <4>1, <4>2
    <3>. QED BY <1>1, <3>1, <3>3
  <2>. QED BY <2>3, <2>4, <2>5
<1>7. RoundsRight(R1, V1)'
  <2>. SUFFICES ASSUME NEW p \in Procs, NEW q \in Successors[p]
                PROVE  /\ R1[p] = R1[q] + IF down(q)' = <<>> THEN 0 ELSE 1
                       /\ down(q)' # <<>> => Head(down(q)').dead = V1[R1[p]]
    BY DEF RoundsRight
  <2>1. q \in Procs /\ q # Root /\ Edge(p, q) /\ q # p
    BY Upwards DEF TreeInv, Edges, Root
  <2>2. down(q) = <<>>
    BY <1>2, <2>1 DEF Edge
  <2>3. down(q)' = IF q \in Successors[Root] THEN Append(<<>>, m) ELSE <<>>
    BY <2>1, <2>2 DEF Release
  <2>4. CASE p = Root
    <3>1. down(q)' = <<m>>
      BY <2>3, <2>4
    <3>2. down(q)' # <<>> /\ Head(down(q)') = m
      BY <3>1
    <3>. QED BY <1>1, <1>3, <2>1, <2>4, <3>2
  <2>5. CASE p # Root
    <3>1. q \notin Successors[Root]
      BY <1>1, <2>5, OnePredecessor
    <3>. QED BY <1>1, <1>3, <2>1, <2>3, <2>5, <3>1
  <2>. QED BY <2>4, <2>5
<1>8. VerdictsRight(V1)'
  <2>0. Len(V1) = r + 1 /\ DeadProcs' = DeadProcs /\ \A q \in Procs : Entered(q)' = Entered(q)
    BY <1>1, <1>3, <1>5
  <2>. SUFFICES ASSUME NEW k \in 1..(r + 1)
                PROVE  V1[k] \subseteq DeadProcs /\ \A q \in Procs \ V1[k] : Entered(q) >= k
    BY <2>0 DEF VerdictsRight
  <2>1. CASE k \in 1..r
    BY <1>1, <1>3, <2>1 DEF Rounds, VerdictsRight
  <2>2. CASE k = r + 1
    <3>1. ASSUME NEW q \in Procs, alive[q] PROVE Entered(q) = r + 1
      <4>1. Waits(q) /\ Len(outcome[q]) = r
        BY <1>2, <3>1 DEF Rounds, OutcomesRight
      <4>2. InCheck(q)
        BY <3>1, <4>1 DEF Waits, InCheck, TypeInv, Places, PlaceOf
      <4>. QED BY <4>1, <4>2 DEF Entered
    <3>2. V1[k] = DeadProcs
      BY <1>1, <1>3, <2>2
    <3>3. \A q \in Procs \ V1[k] : Entered(q) = r + 1
      BY <3>1, <3>2 DEF DeadProcs
    <3>4. r + 1 >= k
      BY <1>1, <2>2
    <3>. QED BY <3>2, <3>3, <3>4
  <2>. QED BY <1>1, <2>1, <2>2
<1>9. Rounds(R1, V1)'
  BY <1>3, <1>6, <1>7, <1>8 DEF Rounds
<1>. QED BY <1>9

\* p is passed the broadcast the root has begun as many rounds ago as p is behind.
LEMMA OtherVerdict ==
    ASSUME TypeInv, TreeInv, NEW R, NEW V, Rounds(R, V), NEW p \in Procs, p # Root,
           NEW m \in DeadMessages, Release(p, m)
    PROVE  /\ R[p] + 1 \in 1..Len(V) /\ m.dead = V[R[p] + 1] /\ down(p)' = <<>>
           /\ \A r \in Procs : p \in Successors[r] => R[r] = R[p] + 1 /\ r # p
<1>1. PICK a \in Procs : p \in Successors[a]
  BY HasPredecessor
<1>2. down(p) # <<>> /\ m = Head(down(p)) /\ down(p)' = Tail(down(p)) /\ Edge(a, p)
  BY <1>1 DEF Release, TreeInv, Edges
<1>3. down(p) \in Seq(DeadMessages) /\ Len(down(p)) = 1
  BY <1>2, TreeTypes DEF Edge
<1>4. down(p)' = <<>>
  BY <1>2, <1>3
<1>5. R[a] = R[p] + 1 /\ m.dead = V[R[a]]
  BY <1>1, <1>2 DEF Rounds, RoundsRight
<1>6. R[a] \in Nat /\ R[p] \in Nat /\ R[a] <= Len(V) /\ Len(V) \in Nat
  BY RootFirst DEF Rounds
<1>7. \A r \in Procs : p \in Successors[r] => r = a /\ r # p
  BY <1>1, OnePredecessor, Upwards
<1>. QED BY <1>4, <1>5, <1>6, <1>7

LEMMA OtherRound ==
    ASSUME TypeInv, TreeInv, NEW R, NEW V, Rounds(R, V), NEW p \in Procs, p # Root,
           NEW m \in DeadMessages, Release(p, m)
    PROVE  \E R1 : Rounds(R1, V)'
<1>. DEFINE n == R[p]
            R1 == [R EXCEPT ![p] = n + 1]
<1>1. /\ R \in [Procs -> Nat] /\ V \in Seq(SUBSET Procs) /\ Len(V) \in Nat /\ Len(V) = R[Root] /\ n \in Nat
      /\ DeadProcs' = DeadProcs /\ alive' = alive /\ Waits(p)
  BY RootFirst DEF Rounds, Release, DeadProcs
<1>2. /\ n + 1 \in 1..Len(V) /\ m.dead = V[n + 1] /\ down(p)' = <<>>
      /\ \A r \in Procs : p \in Successors[r] => R[r] = n + 1 /\ r # p
  BY OtherVerdict
<1>3. /\ \A q \in Procs \ {p} : outcome'[q] = outcome[q]
      /\ ~alive[p] => outcome'[p] = outcome[p]
      /\ alive[p] => /\ Len(outcome'[p]) = Len(outcome[p]) + 1
                     /\ outcome'[p][Len(outcome[p]) + 1] = m.dead
                     /\ \A k \in 1..Len(outcome[p]) : outcome'[p][k] = outcome[p][k]
      /\ \A q \in Procs : Entered(q)' = Entered(q)
  BY ReleaseOutcome
<1>4. R1 \in [Procs -> Nat] /\ R1[p] = n + 1 /\ \A q \in Procs \ {p} : R1[q] = R[q]
  BY <1>1
<1>5. R1[Root] = R[Root]
  BY <1>4, SubtreeRoot
<1>6. Append(<<>>, m) = <<m>>
  OBVIOUS
<1>7. \A q \in Procs : q # p => down(q)' = IF q \in Successors[p] THEN Append(down(q), m) ELSE down(q)
  BY DEF Release
<1>8. R[p] = n
  OBVIOUS
<1>. HIDE DEF R1, n
<1>9. \A q \in Procs : Len(outcome[q]) \in Nat
  BY OutcomeTypes
<1>10. OutcomesRight(R1, V)'
  <2>. SUFFICES ASSUME NEW q \in Procs
                PROVE  /\ Len(outcome'[q]) <= R1[q]
                       /\ alive[q] => Len(outcome'[q]) = R1[q]
                       /\ \A k \in 1..Len(outcome'[q]) : outcome'[q][k] = V[k]
    BY <1>1 DEF OutcomesRight
  <2>1. /\ Len(outcome[q]) <= R[q]
        /\ alive[q] => Len(outcome[q]) = R[q]
        /\ \A k \in 1..Len(outcome[q]) : outcome[q][k] = V[k]
    BY DEF Rounds, OutcomesRight
  <2>2. CASE q # p
    BY <1>3, <1>4, <2>1, <2>2
  <2>3. CASE q = p /\ ~alive[p]
    BY <1>1, <1>3, <1>4, <1>8, <1>9, <2>1, <2>3
  <2>4. CASE q = p /\ alive[p]
    <3>1. Len(outcome'[p]) = n + 1 /\ outcome'[p][n + 1] = m.dead /\ \A k \in 1..n : outcome'[p][k] = outcome[p][k]
      BY <1>3, <1>8, <2>1, <2>4
    <3>. QED BY <1>1, <1>2, <1>4, <1>8, <2>1, <2>4, <3>1
  <2>. QED BY <2>2, <2>3, <2>4
<1>11. RoundsRight(R1, V)'
  <2>. SUFFICES ASSUME NEW r \in Procs, NEW q \in Successors[r]
                PROVE  /\ R1[r] = R1[q] + IF down(q)' = <<>> THEN 0 ELSE 1
                       /\ down(q)' # <<>> => Head(down(q)').dead = V[R1[r]]
    BY DEF RoundsRight
  <2>1. /\ q \in Procs /\ q # r /\ Edge(r, q)
        /\ R[r] = R[q] + IF down(q) = <<>> THEN 0 ELSE 1
        /\ down(q) # <<>> => Head(down(q)).dead = V[R[r]]
    BY Upwards DEF TreeInv, Edges, Rounds, RoundsRight
  <2>2. CASE r = p
    <3>1. down(q) = <<>>
      BY <1>1, <2>1, <2>2 DEF Edge
    <3>2. down(q)' = <<m>>
      BY <1>6, <1>7, <2>1, <2>2, <3>1
    <3>3. down(q)' # <<>> /\ Head(down(q)') = m
      BY <3>2
    <3>. QED BY <1>1, <1>2, <1>4, <1>8, <2>1, <2>2, <3>1, <3>3
  <2>3. CASE q = p
    BY <1>1, <1>2, <1>4, <2>1, <2>3
  <2>4. CASE r # p /\ q # p
    <3>1. q \notin Successors[p]
      BY <2>4, OnePredecessor
    <3>2. down(q)' = down(q)
      BY <1>7, <2>1, <2>4, <3>1
    <3>. QED BY <1>4, <2>1, <2>4, <3>2
  <2>. QED BY <2>2, <2>3, <2>4
<1>12. VerdictsRight(V)'
  BY <1>1, <1>3 DEF Rounds, VerdictsRight
<1>13. Rounds(R1, V)'
  BY <1>1, <1>4, <1>5, <1>10, <1>11, <1>12 DEF Rounds
<1>. QED BY <1>13

LEMMA RoundsStep ==
    ASSUME TypeInv, TypeInv', TreeInv, TreeInv', RootKnown, NEW R, NEW V, Rounds(R, V), StepKind
    PROVE  \E R1, V1 : Rounds(R1, V1)'
<1>. Types
  BY DEF TypeInv
<1>1. ASSUME outcome' = outcome, net'.bcast = net.bcast, \A p \in Procs : InCheck(p) => InCheck(p)'
      PROVE  Rounds(R, V)'
  BY <1>1, DeadGrow, NoRound
<1>2. CASE Unseen
  BY <1>1, <1>2 DEF Unseen
<1>3. CASE Sim_FT_Receive_dead_msgs_root
  BY <1>1, <1>3, ReceiveDeadMsgsFacts DEF Stays, SameTree, InCheck
<1>4. CASE Sim_FT_NBC_bcast_root
  BY <1>1, <1>4, NbcBcastRootFacts DEF Stays, SameTree, InCheck
<1>5. ASSUME NEW p \in Procs, Sim_FT_NBC_bcast_Nroot(p) PROVE Rounds(R, V)'
  BY <1>1, <1>5, NbcBcastFacts DEF Stays, SameTree, InCheck
<1>6. ASSUME NEW p \in Procs, Quiet(p) PROVE Rounds(R, V)'
  BY <1>1, <1>6 DEF Quiet, OtherMessages, SameTree, InCheck
<1>7. ASSUME NEW p \in Procs, Sim_FT_kill_me(p) PROVE Rounds(R, V)'
  BY <1>1, <1>7, KillMeFacts DEF SameTree, InCheck
<1>8. ASSUME NEW p \in Procs, NEW m \in DeadMessages, Release(p, m) PROVE \E R1, V1 : Rounds(R1, V1)'
  <2>1. CASE p = Root
    BY <1>8, <2>1, RootRound
  <2>2. CASE p # Root
    BY <1>8, <2>2, OtherRound
  <2>. QED BY <2>1, <2>2
<1>. QED BY <1>2, <1>3, <1>4, <1>5, <1>6, <1>7, <1>8 DEF StepKind

-----------------------------------------------------------------------------
(* Until a revocation the checks implement CollectiveAgreement *)

\* The calls begun, as the abstract specification has them.
EnteredCalls == [p \in Procs |-> Len(outcome[p]) + IF InCheck(p) THEN 1 ELSE 0]

LEMMA EnteredCallsAre == EnteredCalls = [p \in Procs |-> Entered(p)]
BY DEF EnteredCalls, Entered

\* One step of the agreement, or none.
AgreementStep == Agreement!Next \/ UNCHANGED <<DeadProcs, EnteredCalls, outcome>>

LEMMA AgreementStutter ==
    ASSUME alive' = alive, outcome' = outcome, \A p \in Procs : InCheck(p)' <=> InCheck(p)
    PROVE  AgreementStep
<1>1. \A p \in Procs : Entered(p)' = Entered(p)
  <2>. SUFFICES ASSUME NEW p \in Procs PROVE Entered(p)' = Entered(p)
    OBVIOUS
  <2>1. CASE InCheck(p)
    <3>1. InCheck(p)'
      BY <2>1
    <3>. QED BY <2>1, <3>1 DEF Entered
  <2>2. CASE ~InCheck(p)
    <3>1. ~InCheck(p)'
      BY <2>2
    <3>. QED BY <2>2, <3>1 DEF Entered
  <2>. QED BY <2>1, <2>2
<1>2. DeadProcs' = DeadProcs
  BY DEF DeadProcs
<1>3. EnteredCalls' = EnteredCalls
  BY <1>1 DEF EnteredCalls, Entered
<1>. QED BY <1>2, <1>3 DEF AgreementStep

LEMMA AgreementEnter ==
    ASSUME TypeInv, NEW p \in Procs, Quiet(p), pc'[p] = "check"
    PROVE  AgreementStep
<1>1. /\ DeadProcs' = DeadProcs /\ outcome' = outcome /\ p \notin DeadProcs
      /\ ~InCheck(p) /\ InCheck(p)' /\ \A q \in Procs \ {p} : InCheck(q)' <=> InCheck(q)
  BY DEF Quiet, InCheck, DeadProcs
<1>2. EnteredCalls[p] = Len(outcome[p]) /\ EnteredCalls'[p] = Len(outcome[p]) + 1
  <2>1. Len(outcome[p]) \in Nat
    BY OutcomeTypes
  <2>. QED BY <1>1, <2>1 DEF EnteredCalls
<1>3. ASSUME NEW q \in Procs \ {p} PROVE EnteredCalls'[q] = EnteredCalls[q]
  BY <1>1 DEF Quiet, EnteredCalls, InCheck
<1>4. EnteredCalls' = [EnteredCalls EXCEPT ![p] = EnteredCalls[p] + 1]
  BY <1>2, <1>3 DEF EnteredCalls
<1>5. Agreement!Enter(p)
  BY <1>1, <1>2, <1>4 DEF Agreement!Enter, EnteredCalls
<1>. QED BY <1>5 DEF AgreementStep, Agreement!Next

LEMMA AgreementFail ==
    ASSUME TypeInv, NEW p \in Procs, Sim_FT_kill_me(p)
    PROVE  AgreementStep
<1>1. /\ pc[p] = "idle" /\ pc'[p] = "dead" /\ alive[p] /\ alive' = [alive EXCEPT ![p] = FALSE]
      /\ outcome' = outcome /\ \A q \in Procs \ {p} : pc'[q] = pc[q]
  BY KillMeFacts
<1>2. DeadProcs' = DeadProcs \cup {p} /\ p \notin DeadProcs
  BY <1>1 DEF DeadProcs, TypeInv, Types
<1>3. ~InCheck(p) /\ \A q \in Procs : InCheck(q)' <=> InCheck(q)
  BY <1>1 DEF InCheck
<1>4. EnteredCalls' = EnteredCalls
  BY <1>1, <1>3 DEF EnteredCalls, InCheck
<1>5. EnteredCalls[p] = Len(outcome[p])
  BY <1>3, OutcomeTypes DEF EnteredCalls
<1>6. Agreement!Fail(p)
  BY <1>1, <1>2, <1>4, <1>5 DEF Agreement!Fail, EnteredCalls
<1>. QED BY <1>6 DEF AgreementStep, Agreement!Next

LEMMA AgreementReturn ==
    ASSUME TypeInv, TreeInv, RootKnown, NEW R, NEW V, Rounds(R, V),
           NEW p \in Procs, NEW m \in DeadMessages, Release(p, m)
    PROVE  AgreementStep
<1>. DEFINE call == Entered(p)
<1>1. /\ alive' = alive /\ DeadProcs' = DeadProcs /\ m.dead \in SUBSET Procs
      /\ \A q \in Procs : Entered(q)' = Entered(q)
  BY ReleaseOutcome DEF Release, DeadProcs
<1>2. EnteredCalls' = EnteredCalls
  BY <1>1 DEF EnteredCalls, Entered
<1>3. CASE ~alive[p]
  <2>1. outcome' = outcome
    BY <1>3 DEF Release
  <2>. QED BY <1>1, <1>2, <2>1 DEF AgreementStep
<1>4. CASE alive[p]
  <2>1. /\ call = Len(outcome[p]) + 1 /\ Len(outcome[p]) = R[p] /\ R[p] \in Nat /\ R[p] <= R[Root]
        /\ outcome' = [outcome EXCEPT ![p] = Append(outcome[p], m.dead)]
    BY <1>4, ReleaseOutcome, RootFirst DEF Rounds, OutcomesRight, Release
  <2>2. \A q \in Procs : /\ Len(outcome[q]) \in Nat /\ Len(outcome[q]) <= R[q] /\ R[q] <= R[Root] /\ R[q] \in Nat
                         /\ \A k \in 1..Len(outcome[q]) : outcome[q][k] = V[k]
    BY OutcomeTypes, RootFirst DEF Rounds, OutcomesRight
  <2>3. /\ \A q \in Procs : Len(outcome[q]) >= call => outcome[q][call] = m.dead
        /\ m.dead \subseteq DeadProcs /\ \A q \in Procs \ m.dead : Entered(q) >= call
    <3>1. CASE p = Root
      <4>1. m.dead = DeadProcs /\ Waits(Root)
        BY <3>1, RootKnowsAll DEF Release
      <4>2. ASSUME NEW q \in Procs, alive[q] PROVE Entered(q) = call
        <5>1. Waits(q) /\ Len(outcome[q]) = Len(outcome[p])
          BY <3>1, <4>1, <4>2, <2>1, AllInRound DEF Rounds, OutcomesRight
        <5>2. InCheck(q)
          BY <4>2, <5>1 DEF Waits, InCheck, TypeInv, Places, PlaceOf
        <5>. QED BY <2>1, <5>1, <5>2 DEF Entered
      <4>3. \A q \in Procs : Len(outcome[q]) < call
        BY <2>1, <2>2, <3>1
      <4>4. \A q \in Procs \ m.dead : Entered(q) >= call
        BY <2>1, <4>1, <4>2 DEF DeadProcs
      <4>. QED BY <2>1, <2>2, <4>1, <4>3, <4>4
    <3>2. CASE p # Root
      <4>1. R[p] + 1 \in 1..Len(V) /\ m.dead = V[R[p] + 1]
        BY <3>2, OtherVerdict
      <4>2. m.dead \subseteq DeadProcs /\ \A q \in Procs \ m.dead : Entered(q) >= R[p] + 1
        BY <4>1 DEF Rounds, VerdictsRight
      <4>3. \A q \in Procs : Len(outcome[q]) >= call => outcome[q][call] = m.dead
        BY <2>1, <2>2, <4>1
      <4>. QED BY <2>1, <4>2, <4>3
    <3>. QED BY <3>1, <3>2
  <2>4. \A q \in Procs : EnteredCalls[q] = Entered(q)
    BY EnteredCallsAre
  <2>. HIDE DEF call
  <2>5. /\ Len(outcome[p]) < EnteredCalls[p]
        /\ \A q \in Procs : Len(outcome[q]) >= EnteredCalls[p] => outcome[q][EnteredCalls[p]] = m.dead
        /\ m.dead \subseteq DeadProcs /\ \A q \in Procs \ m.dead : EnteredCalls[q] >= EnteredCalls[p]
    <3>1. EnteredCalls[p] = call
      BY <2>4 DEF call
    <3>. QED BY <2>1, <2>3, <2>4, <3>1
  <2>6. outcome' = [outcome EXCEPT ![p] = Append(outcome[p], m.dead)]
    BY <2>1
  <2>7. Agreement!Return(p, m.dead)
    BY <1>1, <1>2, <2>5, <2>6 DEF Agreement!Return, EnteredCalls
  <2>. QED BY <1>1, <2>7 DEF AgreementStep, Agreement!Next
<1>. QED BY <1>3, <1>4

LEMMA AgreementSteps ==
    ASSUME TypeInv, TreeInv, RootKnown, NEW R, NEW V, Rounds(R, V), StepKind
    PROVE  AgreementStep
<1>. Types
  BY DEF TypeInv
<1>2. CASE Unseen
  BY <1>2, AgreementStutter DEF Unseen
<1>3. CASE Sim_FT_Receive_dead_msgs_root
  BY <1>3, ReceiveDeadMsgsFacts, AgreementStutter DEF Stays, InCheck
<1>4. CASE Sim_FT_NBC_bcast_root
  BY <1>4, NbcBcastRootFacts, AgreementStutter DEF Stays, InCheck
<1>5. ASSUME NEW p \in Procs, Sim_FT_NBC_bcast_Nroot(p) PROVE AgreementStep
  BY <1>5, NbcBcastFacts, AgreementStutter DEF Stays, InCheck
<1>6. ASSUME NEW p \in Procs, Quiet(p) PROVE AgreementStep
  <2>1. CASE pc'[p] = "check"
    BY <1>6, <2>1, AgreementEnter
  <2>2. CASE pc'[p] # "check"
    BY <1>6, <2>2, AgreementStutter DEF Quiet, InCheck
  <2>. QED BY <2>1, <2>2
<1>7. ASSUME NEW p \in Procs, Sim_FT_kill_me(p) PROVE AgreementStep
  BY <1>7, AgreementFail
<1>8. ASSUME NEW p \in Procs, NEW m \in DeadMessages, Release(p, m) PROVE AgreementStep
  BY <1>8, AgreementReturn
<1>. QED BY <1>2, <1>3, <1>4, <1>5, <1>6, <1>7, <1>8 DEF StepKind

Uniform == TreeInv /\ NoRevokedComm /\ RootKnown /\ \E R, V : Rounds(R, V)

UniformInv == TypeInv /\ LastSet /\ (Revoking \/ Uniform)

LEMMA UniformInit == Init => UniformInv
<1>. SUFFICES ASSUME Init PROVE UniformInv
  OBVIOUS
<1>1. NoRevokedComm
  <2>1. net.bcast = [t \in Tags |-> [p \in Procs |-> <<>>]]
    BY DEF Init
  <2>. QED BY <2>1 DEF NoRevokedComm, down, Tags
<1>2. RootKnown
  BY DEF Init, RootKnown
<1>. QED BY <1>1, <1>2, InitTypes, InitTree, InitRounds DEF UniformInv, Uniform

LEMMA UniformStep ==
    ASSUME UniformInv, [Next]_vars
    PROVE  UniformInv' /\ (Revoking' \/ AgreementStep)
<1>1. TypeInv /\ LastSet /\ TypeInv' /\ LastSet'
  BY TypeStep DEF UniformInv
<1>2. CASE Revoking
  BY <1>1, <1>2, RevokingStep DEF UniformInv
<1>3. CASE ~Revoking
  <2>1. Uniform
    BY <1>3 DEF UniformInv
  <2>2. PICK R, V : Rounds(R, V)
    BY <2>1 DEF Uniform
  <2>3. Revoking' \/ (TreeInv' /\ NoRevokedComm' /\ StepKind)
    BY <1>1, <1>3, <2>1, TreeStep DEF Uniform
  <2>4. ASSUME TreeInv', NoRevokedComm', StepKind PROVE Uniform' /\ AgreementStep
    <3>1. RootKnown'
      BY <1>1, <2>1, <2>4, RootKnownStep DEF Uniform
    <3>2. \E R1, V1 : Rounds(R1, V1)'
      BY <1>1, <2>1, <2>2, <2>4, RoundsStep DEF Uniform
    <3>3. AgreementStep
      BY <1>1, <2>1, <2>2, <2>4, AgreementSteps DEF Uniform
    <3>. QED BY <2>4, <3>1, <3>2, <3>3 DEF Uniform
  <2>. QED BY <1>1, <2>3, <2>4 DEF UniformInv
<1>. QED BY <1>2, <1>3

LEMMA UniformAlways == Spec => [](UniformInv)
BY UniformInit, UniformStep, PTL DEF Spec

\* Until the communicator is revoked the reductions count, along any tree, the processes that
\* have failed, which is how many messages of dead processes the root waits for.
DeadCounted == Revoking \/ Counts

THEOREM ReductionsCount == Spec => []DeadCounted
<1>1. UniformInv => DeadCounted
  BY DEF UniformInv, Uniform, TreeInv, DeadCounted
<1>. QED BY <1>1, UniformAlways, PTL

\* Until the communicator is revoked every step of Check_dead_processes is one the agreement
\* allows: a process fails, enters a call, or returns from it with the verdict all others have,
\* which names every process that does not take part.
THEOREM VerdictUntilRevoked == Spec => [][Revoking' \/ AgreementStep]_vars
<1>1. UniformInv /\ [Next]_vars => Revoking' \/ AgreementStep
  BY UniformStep
<1>. QED BY <1>1, UniformAlways, PTL DEF Spec

\* A communicator that nobody revokes: all checks of all processes agree.
THEOREM VerdictUniform == Spec /\ []~Revoking => UniformVerdict
<1>1. Init => Agreement!Init
  <2>. SUFFICES ASSUME Init PROVE Agreement!Init
    OBVIOUS
  <2>1. DeadProcs = {}
    BY DEF Init, DeadProcs
  <2>2. outcome = [p \in Procs |-> <<>>]
    BY DEF Init
  <2>3. \A p \in Procs : ~InCheck(p)
    BY DEF Init, InCheck
  <2>4. EnteredCalls = [p \in Procs |-> 0]
    <3>1. \A p \in Procs : EnteredCalls[p] = 0
      BY <2>2, <2>3 DEF EnteredCalls
    <3>. QED BY <3>1 DEF EnteredCalls
  <2>. QED BY <2>1, <2>2, <2>4 DEF Agreement!Init, EnteredCalls
<1>2. UniformInv /\ [Next]_vars /\ ~Revoking' => [Agreement!Next]_(Agreement!vars)
  <2>. SUFFICES ASSUME UniformInv, [Next]_vars, ~Revoking' PROVE [Agreement!Next]_(Agreement!vars)
    OBVIOUS
  <2>1. AgreementStep
    BY UniformStep
  <2>. QED BY <2>1 DEF AgreementStep, Agreement!vars, EnteredCalls
<1>. QED BY <1>1, <1>2, UniformAlways, PTL DEF Spec, UniformVerdict, Agreement!Spec

-----------------------------------------------------------------------------
(* Until a revocation a process takes only failed processes for dead *)

\* What p takes for dead, the messages of SIM_FT_NBC_BCAST on the way to p, and the verdict.
Heard(p) == comm[p].dead_set \cup comm[p].dead_nodes
Pending(p) == UNION {net.nbcBcast[p][k] : k \in 1..Len(net.nbcBcast[p])}
Told(p) == IF down(p) = <<>> THEN {} ELSE Head(down(p)).dead

Known ==
    /\ RootKnown /\ root.Dead_Processes_Root \subseteq comm[Root].dead_set
    /\ \A p \in Procs : Heard(p) \subseteq DeadProcs /\ Pending(p) \subseteq DeadProcs /\ Told(p) \subseteq DeadProcs
    /\ \A p, q \in Procs : SaysDead(net.p2p[<<p, q>>]) => ~alive[p]

\* A verdict names all its receivers take for dead: the receiver replaces what it knows by it.
\* MPI's order keeps the messages of SIM_FT_NBC_BCAST behind it.
Reports == \A a \in Procs : down(a) # <<>> =>
    /\ \A q \in Subtree(a) : Heard(q) \subseteq Told(a)
    /\ \A q \in Subtree(a) : q # a => Pending(q) \subseteq Told(a)

\* Outside a check the reported processes are in the set point-to-point operations look at.
Listed == \A p \in Procs : alive[p] /\ ~InCheck(p) => comm[p].dead_nodes \subseteq comm[p].dead_set

LEMMA InitKnown == Init => Known /\ Reports /\ Listed
<1>. SUFFICES ASSUME Init PROVE Known /\ Reports /\ Listed
  OBVIOUS
<1>1. \A p \in Procs : comm[p].dead_set = {} /\ comm[p].dead_nodes = {}
  BY DEF Init
<1>2. \A p \in Procs : net.nbcBcast[p] = <<>> /\ Len(net.nbcBcast[p]) = 0
  BY DEF Init
<1>3. \A p \in Procs : Pending(p) = {} /\ Heard(p) = {}
  BY <1>1, <1>2 DEF Pending, Heard
<1>4. \A p \in Procs : down(p) = <<>>
  <2>1. net.bcast = [t \in Tags |-> [p \in Procs |-> <<>>]]
    BY DEF Init
  <2>. QED BY <2>1 DEF down, Tags
<1>5. RootKnown /\ root.Dead_Processes_Root = {}
  BY DEF Init, RootKnown
<1>6. \A p, q \in Procs : ~SaysDead(net.p2p[<<p, q>>])
  <2>1. \A p, q \in Procs : net.p2p[<<p, q>>] = <<>>
    BY DEF Init
  <2>2. ~SaysDead(<<>>)
    BY DEF SaysDead
  <2>. QED BY <2>1, <2>2
<1>. QED BY <1>1, <1>3, <1>4, <1>5, <1>6 DEF Known, Reports, Listed, Told

LEMMA AppendPending ==
    ASSUME NEW s \in Seq(SUBSET Procs), NEW h \in SUBSET Procs
    PROVE  \A k \in 1..Len(Append(s, h)) : Append(s, h)[k] = h \/ \E j \in 1..Len(s) : Append(s, h)[k] = s[j]
<1>1. Len(s) \in Nat /\ Len(Append(s, h)) = Len(s) + 1 /\ Append(s, h)[Len(s) + 1] = h
  OBVIOUS
<1>2. \A k \in 1..Len(s) : Append(s, h)[k] = s[k]
  OBVIOUS
<1>3. \A k \in 1..(Len(s) + 1) : k = Len(s) + 1 \/ k \in 1..Len(s)
  BY <1>1
<1>. QED BY <1>1, <1>2, <1>3

LEMMA TailPending ==
    ASSUME NEW s \in Seq(SUBSET Procs), s # <<>>
    PROVE  /\ Head(s) \in SUBSET Procs /\ \E j \in 1..Len(s) : Head(s) = s[j]
           /\ Tail(s) \in Seq(SUBSET Procs)
           /\ \A k \in 1..Len(Tail(s)) : \E j \in 1..Len(s) : Tail(s)[k] = s[j]
<1>1. Len(s) \in Nat \ {0} /\ Head(s) = s[1] /\ Tail(s) \in Seq(SUBSET Procs) /\ Len(Tail(s)) = Len(s) - 1
  OBVIOUS
<1>2. \A k \in 1..Len(Tail(s)) : Tail(s)[k] = s[k + 1] /\ k + 1 \in 1..Len(s)
  BY <1>1
<1>. QED BY <1>1, <1>2

\* The set d is sent to the successors of p.
LEMMA SentPending ==
    ASSUME TypeInv, NEW p \in Procs, NEW d \in SUBSET Procs,
           net'.nbcBcast = ToSuccessors(net.nbcBcast, p, d)
    PROVE  \A q \in Procs : Pending(q)' \subseteq Pending(q) \cup IF q \in Successors[p] THEN d ELSE {}
<1>. SUFFICES ASSUME NEW q \in Procs
              PROVE  Pending(q)' \subseteq Pending(q) \cup IF q \in Successors[p] THEN d ELSE {}
  OBVIOUS
<1>1. net.nbcBcast[q] \in Seq(SUBSET Procs)
  BY DEF TypeInv, Types, Nets
<1>2. net'.nbcBcast[q] = IF q \in Successors[p] THEN Append(net.nbcBcast[q], d) ELSE net.nbcBcast[q]
  BY DEF ToSuccessors
<1>3. CASE q \in Successors[p]
  BY <1>1, <1>2, <1>3, AppendPending DEF Pending
<1>4. CASE q \notin Successors[p]
  BY <1>2, <1>4 DEF Pending
<1>. QED BY <1>3, <1>4

\* p takes the first set on the way to it and passes it on.
LEMMA PassedPending ==
    ASSUME TypeInv, NEW p \in Procs, net.nbcBcast[p] # <<>>,
           net'.nbcBcast = Sim_FT_Custom_Ibcast_NRoot(net.nbcBcast, p)
    PROVE  LET d == Head(net.nbcBcast[p]) IN
           /\ d \subseteq Pending(p)
           /\ Pending(p)' \subseteq Pending(p)
           /\ \A q \in Procs : q # p => Pending(q)' \subseteq Pending(q) \cup IF q \in Successors[p] THEN d ELSE {}
<1>. DEFINE d == Head(net.nbcBcast[p])
<1>1. \A q \in Procs : net.nbcBcast[q] \in Seq(SUBSET Procs)
  BY DEF TypeInv, Types, Nets
<1>2. p \notin Successors[p]
  BY Upwards
<1>3. net.nbcBcast \in [Procs -> Seq(SUBSET Procs)]
  BY DEF TypeInv, Types, Nets
<1>4. /\ net'.nbcBcast[p] = Tail(net.nbcBcast[p])
      /\ \A q \in Procs \ {p} :
            net'.nbcBcast[q] = IF q \in Successors[p] THEN Append(net.nbcBcast[q], d) ELSE net.nbcBcast[q]
  BY <1>2, <1>3 DEF Sim_FT_Custom_Ibcast_NRoot, ToSuccessors
<1>5. d \in SUBSET Procs /\ d \subseteq Pending(p) /\ Pending(p)' \subseteq Pending(p)
  <2>. DEFINE s == net.nbcBcast[p]
  <2>1. s \in Seq(SUBSET Procs) /\ s # <<>> /\ net'.nbcBcast[p] = Tail(s) /\ d = Head(s)
    BY <1>1, <1>4
  <2>2. Pending(p) = UNION {s[k] : k \in 1..Len(s)} /\ Pending(p)' = UNION {Tail(s)[k] : k \in 1..Len(Tail(s))}
    BY <2>1 DEF Pending
  <2>. HIDE DEF s, d
  <2>. QED BY <2>1, <2>2, TailPending
<1>6. ASSUME NEW q \in Procs, q # p PROVE Pending(q)' \subseteq Pending(q) \cup IF q \in Successors[p] THEN d ELSE {}
  <2>. HIDE DEF d
  <2>1. CASE q \in Successors[p]
    <3>. DEFINE s == net.nbcBcast[q]
    <3>1. s \in Seq(SUBSET Procs) /\ net'.nbcBcast[q] = Append(s, d)
      BY <1>1, <1>4, <1>6, <2>1
    <3>2. Pending(q) = UNION {s[k] : k \in 1..Len(s)}
      BY DEF Pending
    <3>3. Pending(q)' = UNION {Append(s, d)[k] : k \in 1..Len(Append(s, d))}
      BY <3>1 DEF Pending
    <3>. HIDE DEF s
    <3>. QED BY <1>5, <2>1, <3>1, <3>2, <3>3, AppendPending
  <2>2. CASE q \notin Successors[p]
    BY <1>4, <1>6, <2>2 DEF Pending
  <2>. QED BY <2>1, <2>2
<1>. QED BY <1>5, <1>6

LEMMA SameTold ==
    ASSUME net'.bcast = net.bcast
    PROVE  \A p \in Procs : down(p)' = down(p) /\ Told(p)' = Told(p)
BY DEF down, Told

\* The verdict m is on the way to the successors of p instead of p.
LEMMA ReleaseDown ==
    ASSUME TypeInv, TreeInv, NEW p \in Procs, NEW m \in DeadMessages, Release(p, m)
    PROVE  /\ \A q \in Successors[p] : q \in Procs /\ q # p /\ down(q)' # <<>> /\ Told(q)' = m.dead
           /\ down(p)' = <<>>
           /\ \A q \in Procs \ {p} : q \notin Successors[p] => down(q)' = down(q) /\ Told(q)' = Told(q)
           /\ p # Root => down(p) # <<>> /\ m.dead = Told(p)
           /\ p = Root => m.dead = root.Dead_Processes_Root
<1>1. Waits(p) /\ \A q \in Procs : q # p => down(q)' = IF q \in Successors[p] THEN Append(down(q), m) ELSE down(q)
  BY DEF Release
<1>2. Append(<<>>, m) = <<m>>
  OBVIOUS
<1>3. ASSUME NEW q \in Successors[p] PROVE q \in Procs /\ q # p /\ down(q)' # <<>> /\ Told(q)' = m.dead
  <2>1. q \in Procs /\ q # p /\ Edge(p, q)
    BY Upwards DEF TreeInv, Edges
  <2>2. down(q) = <<>>
    BY <1>1, <2>1 DEF Edge
  <2>3. down(q)' = <<m>>
    BY <1>1, <1>2, <2>1, <2>2
  <2>4. down(q)' # <<>> /\ Head(down(q)') = m
    BY <2>3
  <2>. QED BY <2>1, <2>4 DEF Told
<1>4. down(p)' = <<>>
  <2>1. CASE p = Root
    BY <2>1 DEF Release, TreeInv, Edges
  <2>2. CASE p # Root
    <3>1. PICK r \in Procs : p \in Successors[r]
      BY <2>2, HasPredecessor
    <3>2. Edge(r, p) /\ down(p) # <<>> /\ down(p)' = Tail(down(p)) /\ down(p) \in Seq(DeadMessages)
      BY <2>2, <3>1, TreeTypes DEF TreeInv, Edges, Release
    <3>3. Len(down(p)) = 1
      BY <3>2 DEF Edge
    <3>. QED BY <3>2, <3>3
  <2>. QED BY <2>1, <2>2
<1>. QED BY <1>1, <1>3, <1>4 DEF Release, Told

LEMMA KnownStep ==
    ASSUME TypeInv, TreeInv, Known, StepKind
    PROVE  Known'
<1>. Types /\ Root \in Procs
  BY SubtreeRoot DEF TypeInv
<1>1. RootKnown' /\ DeadProcs \subseteq DeadProcs' /\ \A p \in Procs : alive'[p] => alive[p]
  BY RootKnownStep, DeadGrow DEF Known
<1>2. ASSUME NoNewDead PROVE \A p, q \in Procs : SaysDead(net'.p2p[<<p, q>>]) => ~alive'[p]
  BY <1>1, <1>2 DEF NoNewDead, Known
<1>3. ASSUME net'.p2p = net.p2p PROVE NoNewDead
  BY <1>3 DEF NoNewDead
<1>4. CASE Unseen
  <2>1. \A p \in Procs : Heard(p)' = Heard(p) /\ Pending(p)' = Pending(p) /\ Told(p)' = Told(p)
    BY <1>4, SameTold DEF Unseen, Heard, Pending
  <2>. QED BY <1>1, <1>2, <1>4, <2>1 DEF Known, Unseen
<1>5. CASE Sim_FT_Receive_dead_msgs_root
  <2>1. /\ SameTree /\ net'.nbcBcast = net.nbcBcast /\ net'.p2p = net.p2p
        /\ \E d \in net.dead : /\ root'.Dead_Processes_Root = root.Dead_Processes_Root \cup {d}
                               /\ NewKnown(Root, comm[Root].dead_set \cup {d})
    BY <1>5, ReceiveDeadMsgsFacts
  <2>2. PICK d \in net.dead : /\ root'.Dead_Processes_Root = root.Dead_Processes_Root \cup {d}
                              /\ NewKnown(Root, comm[Root].dead_set \cup {d})
    BY <2>1
  <2>3. d \in DeadProcs
    BY DEF Known, RootKnown
  <2>4. \A p \in Procs : Heard(p)' \subseteq Heard(p) \cup {d} /\ Pending(p)' = Pending(p) /\ Told(p)' = Told(p)
    BY <2>1, <2>2, SameTold DEF NewKnown, Heard, Pending, SameTree
  <2>5. root'.Dead_Processes_Root \subseteq comm'[Root].dead_set
    BY <2>2 DEF NewKnown, Known
  <2>. QED BY <1>1, <1>2, <1>3, <2>1, <2>3, <2>4, <2>5 DEF Known
<1>6. CASE Sim_FT_NBC_bcast_root
  <2>1. /\ SameTree /\ comm' = comm /\ net'.p2p = net.p2p
        /\ net'.nbcBcast = ToSuccessors(net.nbcBcast, Root, root.recent)
        /\ root'.Dead_Processes_Root = root.Dead_Processes_Root
    BY <1>6, NbcBcastRootFacts
  <2>2. root.recent \subseteq DeadProcs /\ root.recent \in SUBSET Procs
    BY DEF Known, RootKnown, DeadProcs
  <2>3. \A p \in Procs : Heard(p)' = Heard(p) /\ Pending(p)' \subseteq Pending(p) \cup root.recent /\ Told(p)' = Told(p)
    BY <2>1, <2>2, SentPending, SameTold DEF Heard, SameTree
  <2>. QED BY <1>1, <1>2, <1>3, <2>1, <2>2, <2>3 DEF Known
<1>7. ASSUME NEW p \in Procs, Sim_FT_NBC_bcast_Nroot(p) PROVE Known'
  <2>. DEFINE d == Head(net.nbcBcast[p])
  <2>1. /\ SameTree /\ root' = root /\ net'.p2p = net.p2p /\ net.nbcBcast[p] # <<>>
        /\ net'.nbcBcast = Sim_FT_Custom_Ibcast_NRoot(net.nbcBcast, p)
        /\ NewKnown(p, comm[p].dead_set \cup d)
    BY <1>7, NbcBcastFacts
  <2>2. d \subseteq Pending(p) /\ \A q \in Procs : Pending(q)' \subseteq Pending(q) \cup d
    BY <2>1, PassedPending
  <2>. HIDE DEF d
  <2>3. d \subseteq DeadProcs
    BY <2>2 DEF Known
  <2>4. \A q \in Procs : Heard(q)' \subseteq Heard(q) \cup d /\ Told(q)' = Told(q)
    BY <2>1, SameTold DEF NewKnown, Heard, SameTree
  <2>5. root'.Dead_Processes_Root \subseteq comm'[Root].dead_set
    BY <2>1 DEF NewKnown, Known
  <2>. QED BY <1>1, <1>2, <1>3, <2>1, <2>2, <2>3, <2>4, <2>5 DEF Known
<1>8. ASSUME NEW p \in Procs, Quiet(p) PROVE Known'
  <2>1. /\ NoNewDead /\ UNCHANGED <<alive, root>> /\ net'.nbcBcast = net.nbcBcast /\ net'.bcast = net.bcast
        /\ \A q \in Procs \ {p} : comm'[q] = comm[q]
        /\ comm'[p].dead_nodes = comm[p].dead_nodes /\ comm[p].dead_set \subseteq comm'[p].dead_set
        /\ comm'[p].dead_set \subseteq comm[p].dead_set \cup {q \in Procs : SaysDead(net.p2p[<<q, p>>])}
    BY <1>8 DEF Quiet, OtherMessages, SameTree
  <2>2. {q \in Procs : SaysDead(net.p2p[<<q, p>>])} \subseteq DeadProcs
    BY DEF Known, DeadProcs
  <2>3. \A q \in Procs : Heard(q)' \subseteq Heard(q) \cup DeadProcs /\ Pending(q)' = Pending(q) /\ Told(q)' = Told(q)
    BY <2>1, <2>2, SameTold DEF Heard, Pending
  <2>4. root'.Dead_Processes_Root \subseteq comm'[Root].dead_set
    BY <2>1 DEF Known
  <2>. QED BY <1>1, <1>2, <2>1, <2>3, <2>4 DEF Known
<1>9. ASSUME NEW p \in Procs, Sim_FT_kill_me(p) PROVE Known'
  <2>1. /\ SameTree /\ net'.nbcBcast = net.nbcBcast /\ net'.p2p = net.p2p /\ root' = root
        /\ \A q \in Procs : comm'[q].dead_set = comm[q].dead_set /\ comm'[q].dead_nodes = comm[q].dead_nodes
    BY <1>9, KillMeFacts
  <2>2. \A q \in Procs : Heard(q)' = Heard(q) /\ Pending(q)' = Pending(q) /\ Told(q)' = Told(q)
    BY <2>1, SameTold DEF Heard, Pending, SameTree
  <2>. QED BY <1>1, <1>2, <1>3, <2>1, <2>2 DEF Known
<1>10. ASSUME NEW p \in Procs, NEW m \in DeadMessages, Release(p, m) PROVE Known'
  <2>1. /\ UNCHANGED <<alive, root>> /\ net'.nbcBcast = net.nbcBcast /\ net'.p2p = net.p2p
        /\ \A q \in Procs \ {p} : comm'[q] = comm[q]
    BY <1>10 DEF Release, OutsideTree, Alone
  <2>2. m.dead \subseteq DeadProcs
    BY <1>10, ReleaseDown DEF Known, RootKnown
  <2>3. Heard(p)' \subseteq Heard(p) \cup m.dead
    BY <1>10 DEF Release, Heard
  <2>4. \A q \in Procs : Heard(q)' \subseteq Heard(q) \cup m.dead /\ Pending(q)' = Pending(q)
    BY <2>1, <2>3 DEF Heard, Pending
  <2>5. \A q \in Procs : Told(q)' \subseteq Told(q) \cup m.dead
    BY <1>10, ReleaseDown DEF Told
  <2>6. root'.Dead_Processes_Root \subseteq comm'[Root].dead_set
    <3>1. CASE p # Root \/ ~alive[p]
      BY <1>10, <2>1, <3>1 DEF Release, Known
    <3>2. CASE p = Root /\ alive[p]
      BY <1>10, <2>1, <3>2 DEF Release, Known
    <3>. QED BY <3>1, <3>2
  <2>. QED BY <1>1, <1>2, <1>3, <2>1, <2>2, <2>4, <2>5, <2>6 DEF Known
<1>. QED BY <1>4, <1>5, <1>6, <1>7, <1>8, <1>9, <1>10 DEF StepKind

\* Below a process a verdict is on the way to, all wait; the root is not among them.
LEMMA ToldWait ==
    ASSUME TreeInv, NEW a \in Procs, down(a) # <<>>
    PROVE  /\ a # Root /\ Root \notin Subtree(a)
           /\ \A q \in Subtree(a) : q \in Procs /\ Waits(q)
<1>1. a # Root
  BY DEF TreeInv, Edges
<1>2. PICK r \in Procs : a \in Successors[r]
  BY <1>1, HasPredecessor
<1>3. Waits(a)
  BY <1>2 DEF TreeInv, Edges, Edge
<1>4. \A q \in Subtree(a) : Waits(q) /\ q \in Procs
  BY <1>3, AllBelowWait, SubtreeClosed DEF TreeInv
<1>5. Root \notin Subtree(a)
  <2>1. Root \in Subtree(a) => a <= Root
    BY SubtreeBelow
  <2>2. a \in Nat
    BY SubtreeClosed, SubtreeBelow
  <2>. QED BY <1>1, <2>1, <2>2 DEF Root
<1>. QED BY <1>1, <1>4, <1>5

LEMMA ReportsKept ==
    ASSUME Reports, net'.bcast = net.bcast,
           \A a \in Procs : down(a) # <<>> =>
               /\ \A q \in Subtree(a) : Heard(q)' \subseteq Told(a)
               /\ \A q \in Subtree(a) : q # a => Pending(q)' \subseteq Told(a)
    PROVE  Reports'
BY SameTold DEF Reports

LEMMA ReportsReleased ==
    ASSUME TypeInv, TreeInv, RootKnown, Known, Reports, NEW p \in Procs, NEW m \in DeadMessages, Release(p, m)
    PROVE  Reports'
<1>1. /\ \A q \in Procs : Pending(q)' = Pending(q)
      /\ \A q \in Procs \ {p} : Heard(q)' = Heard(q)
  BY DEF Release, OutsideTree, Alone, Pending, Heard
<1>2. SUFFICES ASSUME NEW a \in Procs, down(a)' # <<>>
               PROVE  /\ \A q \in Subtree(a) : Heard(q)' \subseteq Told(a)'
                      /\ \A q \in Subtree(a) : q # a => Pending(q)' \subseteq Told(a)'
  BY DEF Reports
<1>3. a # p
  BY <1>2, ReleaseDown
<1>4. CASE a \in Successors[p]
  <2>1. Told(a)' = m.dead
    BY <1>4, ReleaseDown
  <2>2. p \notin Subtree(a) /\ a \in Subtree(p)
    <3>1. p < a /\ p \in Nat /\ a \in Nat
      BY <1>4, Upwards
    <3>. QED BY <1>4, <3>1, SubtreeBelow, SubtreeClosed
  <2>3. \A q \in Subtree(a) : q \in Procs /\ q # p
    BY <2>2, SubtreeClosed
  <2>4. CASE p = Root
    <3>1. m.dead = DeadProcs
      BY <2>4, RootKnowsAll
    <3>. QED BY <1>1, <2>1, <2>3, <3>1 DEF Known
  <2>5. CASE p # Root
    <3>1. down(p) # <<>> /\ m.dead = Told(p)
      BY <2>5, ReleaseDown
    <3>2. \A q \in Subtree(a) : q \in Subtree(p)
      <4>1. /\ Subtree(p) \in SUBSET Procs /\ \A q \in Subtree(p) : Successors[q] \subseteq Subtree(p)
        BY SubtreeClosed
      <4>. QED BY <2>2, <4>1, SubtreeLeast
    <3>. QED BY <1>1, <2>1, <2>3, <3>1, <3>2 DEF Reports
  <2>. QED BY <2>4, <2>5
<1>5. CASE a \notin Successors[p]
  <2>1. down(a) # <<>> /\ Told(a)' = Told(a)
    BY <1>2, <1>3, <1>5, ReleaseDown
  <2>2. p \notin Subtree(a)
    <3>1. CASE p = Root
      BY <2>1, <3>1, ToldWait
    <3>2. CASE p # Root
      <4>1. PICK r \in Procs : p \in Successors[r]
        BY <3>2, HasPredecessor
      <4>2. ~Waits(r)
        BY <3>2, <4>1, ReleaseDown DEF TreeInv, Edges, Edge
      <4>3. r \notin Subtree(a)
        BY <2>1, <4>2, ToldWait
      <4>. QED BY <1>3, <4>1, <4>3, SubtreeAbove
    <3>. QED BY <3>1, <3>2
  <2>3. \A q \in Subtree(a) : q \in Procs /\ q # p
    BY <2>2, SubtreeClosed
  <2>. QED BY <1>1, <2>1, <2>3 DEF Reports
<1>. QED BY <1>4, <1>5

LEMMA ReportsStep ==
    ASSUME InOrder, TypeInv, TreeInv, Known, Reports, StepKind
    PROVE  Reports'
<1>. Types /\ Root \in Procs
  BY SubtreeRoot DEF TypeInv
<1>1. ASSUME net'.bcast = net.bcast, net'.nbcBcast = net.nbcBcast,
             \A a \in Procs : down(a) # <<>> => \A q \in Subtree(a) : Heard(q)' \subseteq Heard(q)
      PROVE  Reports'
  <2>1. \A q \in Procs : Pending(q)' = Pending(q)
    BY <1>1 DEF Pending
  <2>2. \A a \in Procs : \A q \in Subtree(a) : q \in Procs
    BY SubtreeClosed
  <2>3. \A a \in Procs : down(a) # <<>> =>
               /\ \A q \in Subtree(a) : Heard(q)' \subseteq Told(a)
               /\ \A q \in Subtree(a) : q # a => Pending(q)' \subseteq Told(a)
    BY <1>1, <2>1, <2>2 DEF Reports
  <2>. QED BY <1>1, <2>3, ReportsKept
<1>2. CASE Unseen
  <2>1. \A a \in Procs : \A q \in Subtree(a) : Heard(q)' = Heard(q)
    BY <1>2, SubtreeClosed DEF Unseen, Heard
  <2>. QED BY <1>1, <1>2, <2>1 DEF Unseen
<1>3. CASE Sim_FT_Receive_dead_msgs_root
  <2>1. SameTree /\ net'.nbcBcast = net.nbcBcast /\ \E S : NewKnown(Root, S)
    BY <1>3, ReceiveDeadMsgsFacts
  <2>2. \A q \in Procs \ {Root} : Heard(q)' = Heard(q)
    BY <2>1 DEF NewKnown, Heard
  <2>3. \A a \in Procs : down(a) # <<>> => \A q \in Subtree(a) : Heard(q)' = Heard(q)
    BY <2>2, ToldWait
  <2>. QED BY <1>1, <2>1, <2>3 DEF SameTree
<1>4. CASE Sim_FT_NBC_bcast_root
  <2>1. /\ SameTree /\ comm' = comm /\ net'.nbcBcast = ToSuccessors(net.nbcBcast, Root, root.recent)
        /\ root.recent \in SUBSET Procs
    BY <1>4, NbcBcastRootFacts DEF Types, Roots
  <2>2. \A q \in Procs : q \notin Successors[Root] => Pending(q)' \subseteq Pending(q)
    BY <2>1, SentPending
  <2>3. ASSUME NEW a \in Procs, down(a) # <<>>, NEW q \in Subtree(a), q # a PROVE Pending(q)' \subseteq Told(a)
    <3>1. q \in Procs /\ Root \notin Subtree(a)
      BY <2>3, ToldWait
    <3>2. q \notin Successors[Root]
      BY <2>3, <3>1, SubtreeAbove
    <3>. QED BY <2>2, <2>3, <3>1, <3>2 DEF Reports
  <2>4. \A a \in Procs : down(a) # <<>> => \A q \in Subtree(a) : Heard(q)' \subseteq Told(a)
    BY <2>1 DEF Heard, Reports
  <2>. QED BY <2>1, <2>3, <2>4, ReportsKept DEF SameTree
<1>5. ASSUME NEW p \in Procs, Sim_FT_NBC_bcast_Nroot(p) PROVE Reports'
  <2>. DEFINE d == Head(net.nbcBcast[p])
  <2>1. /\ SameTree /\ net.nbcBcast[p] # <<>> /\ down(p) = <<>>
        /\ net'.nbcBcast = Sim_FT_Custom_Ibcast_NRoot(net.nbcBcast, p)
        /\ NewKnown(p, comm[p].dead_set \cup d)
    BY <1>5, NbcBcastFacts DEF down
  <2>2. /\ d \subseteq Pending(p) /\ Pending(p)' \subseteq Pending(p)
        /\ \A q \in Procs : q # p => Pending(q)' \subseteq Pending(q) \cup IF q \in Successors[p] THEN d ELSE {}
    BY <2>1, PassedPending
  <2>. HIDE DEF d
  <2>3. \A q \in Procs : Heard(q)' \subseteq Heard(q) \cup IF q = p THEN d ELSE {}
    BY <2>1 DEF NewKnown, Heard
  <2>4. ASSUME NEW a \in Procs, down(a) # <<>>, p \in Subtree(a) PROVE d \subseteq Told(a)
    BY <2>1, <2>2, <2>4 DEF Reports
  <2>5. ASSUME NEW a \in Procs, down(a) # <<>>, NEW q \in Subtree(a) PROVE Heard(q)' \subseteq Told(a)
    <3>1. q \in Procs /\ Heard(q) \subseteq Told(a)
      BY <2>5, ToldWait DEF Reports
    <3>. QED BY <2>3, <2>4, <2>5, <3>1
  <2>6. ASSUME NEW a \in Procs, down(a) # <<>>, NEW q \in Subtree(a), q # a PROVE Pending(q)' \subseteq Told(a)
    <3>1. q \in Procs /\ Pending(q) \subseteq Told(a)
      BY <2>6, ToldWait DEF Reports
    <3>2. q \in Successors[p] => p \in Subtree(a)
      BY <2>6, SubtreeAbove
    <3>3. q # p => Pending(q)' \subseteq Told(a)
      BY <2>2, <2>4, <2>6, <3>1, <3>2
    <3>. QED BY <2>2, <3>1, <3>3
  <2>. QED BY <2>1, <2>5, <2>6, ReportsKept DEF SameTree
<1>6. ASSUME NEW p \in Procs, Quiet(p) PROVE Reports'
  <2>1. /\ net'.nbcBcast = net.nbcBcast /\ net'.bcast = net.bcast
        /\ \A q \in Procs \ {p} : Heard(q)' = Heard(q)
    BY <1>6 DEF Quiet, OtherMessages, SameTree, Heard
  <2>2. ~Waits(p)
    BY <1>6 DEF Quiet, Waits, TypeInv, Places, PlaceOf
  <2>3. \A a \in Procs : down(a) # <<>> => \A q \in Subtree(a) : Heard(q)' = Heard(q)
    BY <2>1, <2>2, ToldWait
  <2>. QED BY <1>1, <2>1, <2>3
<1>7. ASSUME NEW p \in Procs, Sim_FT_kill_me(p) PROVE Reports'
  <2>1. /\ SameTree /\ net'.nbcBcast = net.nbcBcast
        /\ \A q \in Procs : comm'[q].dead_set = comm[q].dead_set /\ comm'[q].dead_nodes = comm[q].dead_nodes
    BY <1>7, KillMeFacts
  <2>2. \A a \in Procs : \A q \in Subtree(a) : Heard(q)' = Heard(q)
    BY <2>1, SubtreeClosed DEF Heard
  <2>. QED BY <1>1, <2>1, <2>2 DEF SameTree
<1>8. ASSUME NEW p \in Procs, NEW m \in DeadMessages, Release(p, m) PROVE Reports'
  BY <1>8, ReportsReleased DEF Known
<1>. QED BY <1>2, <1>3, <1>4, <1>5, <1>6, <1>7, <1>8 DEF StepKind

\* A process takes over the verdict, although it only compares the sizes of the sets.
LEMMA VerdictTaken ==
    ASSUME TypeInv, TreeInv, Known, Reports, NEW p \in Procs, alive[p], NEW m \in DeadMessages, Release(p, m)
    PROVE  comm'[p].dead_nodes \subseteq comm'[p].dead_set
<1>. DEFINE D == m.dead
            nodes == comm[p].dead_nodes
            set == comm[p].dead_set
<1>1. CASE p = Root
  BY <1>1 DEF Release, Known
<1>2. CASE p # Root
  <2>1. /\ comm'[p].dead_nodes = IF Cardinality(D) \in {0, Cardinality(nodes)} THEN nodes ELSE D
        /\ comm'[p].dead_set = IF Cardinality(set) # Cardinality(comm'[p].dead_nodes)
                               THEN comm'[p].dead_nodes ELSE set
    BY <1>2 DEF Release
  <2>2. nodes \subseteq D /\ set \subseteq D /\ D \in SUBSET Procs
    <3>1. p \in Subtree(p) /\ down(p) # <<>> /\ D = Told(p) /\ D \in SUBSET Procs
      BY <1>2, ReleaseDown, SubtreeClosed DEF Release
    <3>. QED BY <3>1 DEF Reports, Heard
  <2>. HIDE DEF D, nodes, set
  <2>3. IsFiniteSet(D) /\ IsFiniteSet(nodes)
    BY <2>2, ProcsFinite
  <2>4. Cardinality(D) = 0 => D = {}
    BY <2>3, FS_EmptySet
  <2>5. Cardinality(D) = Cardinality(nodes) => D = nodes
    BY <2>2, <2>3, FS_Subset
  <2>6. comm'[p].dead_nodes = D
    BY <2>1, <2>2, <2>4, <2>5
  <2>7. Cardinality(set) = Cardinality(D) => set = D
    BY <2>2, <2>3, FS_Subset
  <2>. QED BY <2>1, <2>6, <2>7
<1>. QED BY <1>1, <1>2

LEMMA ListedStep ==
    ASSUME TypeInv, TreeInv, Known, Reports, Listed, StepKind
    PROVE  Listed'
<1>. Types /\ Root \in Procs
  BY SubtreeRoot DEF TypeInv
<1>1. \A p \in Procs : alive'[p] => alive[p]
  BY DeadGrow
<1>2. ASSUME \A p \in Procs : /\ comm'[p].dead_nodes = comm[p].dead_nodes /\ comm[p].dead_set \subseteq comm'[p].dead_set
                              /\ InCheck(p) => InCheck(p)'
      PROVE  Listed'
  BY <1>1, <1>2 DEF Listed
<1>3. CASE Unseen
  BY <1>2, <1>3 DEF Unseen
<1>4. CASE Sim_FT_Receive_dead_msgs_root
  BY <1>2, <1>4, ReceiveDeadMsgsFacts DEF NewKnown, Stays, InCheck
<1>5. CASE Sim_FT_NBC_bcast_root
  BY <1>2, <1>5, NbcBcastRootFacts DEF Stays, InCheck
<1>6. ASSUME NEW p \in Procs, Sim_FT_NBC_bcast_Nroot(p) PROVE Listed'
  BY <1>2, <1>6, NbcBcastFacts DEF NewKnown, Stays, InCheck
<1>7. ASSUME NEW p \in Procs, Quiet(p) PROVE Listed'
  BY <1>2, <1>7 DEF Quiet, InCheck
<1>8. ASSUME NEW p \in Procs, Sim_FT_kill_me(p) PROVE Listed'
  BY <1>2, <1>8, KillMeFacts DEF InCheck
<1>9. ASSUME NEW p \in Procs, NEW m \in DeadMessages, Release(p, m) PROVE Listed'
  <2>1. \A q \in Procs \ {p} : comm'[q] = comm[q] /\ pc'[q] = pc[q]
    BY <1>9 DEF Release, Alone
  <2>2. alive[p] => comm'[p].dead_nodes \subseteq comm'[p].dead_set
    BY <1>9, VerdictTaken
  <2>. QED BY <1>1, <2>1, <2>2 DEF Listed, InCheck
<1>. QED BY <1>3, <1>4, <1>5, <1>6, <1>7, <1>8, <1>9 DEF StepKind


\* What is heard is right in any order of the messages, the rest in that of MPI.
KnownRight == TreeInv /\ NoRevokedComm /\ Known /\ (InOrder => Reports /\ Listed)

KnownInv == TypeInv /\ LastSet /\ (Revoking \/ KnownRight)

LEMMA KnownInvInit == Init => KnownInv
<1>1. Init => NoRevokedComm
  <2>. SUFFICES ASSUME Init PROVE NoRevokedComm
    OBVIOUS
  <2>1. net.bcast = [t \in Tags |-> [p \in Procs |-> <<>>]]
    BY DEF Init
  <2>. QED BY <2>1 DEF NoRevokedComm, down, Tags
<1>. QED BY <1>1, InitTypes, InitTree, InitKnown DEF KnownInv, KnownRight

LEMMA KnownInvStep ==
    ASSUME KnownInv, [Next]_vars
    PROVE  KnownInv'
<1>1. TypeInv /\ LastSet /\ TypeInv' /\ LastSet'
  BY TypeStep DEF KnownInv
<1>2. CASE Revoking
  BY <1>1, <1>2, RevokingStep DEF KnownInv
<1>3. CASE ~Revoking
  <2>1. KnownRight
    BY <1>3 DEF KnownInv
  <2>2. Revoking' \/ (TreeInv' /\ NoRevokedComm' /\ StepKind)
    BY <1>1, <1>3, <2>1, TreeStep DEF KnownRight
  <2>3. ASSUME TreeInv', NoRevokedComm', StepKind PROVE KnownRight'
    <3>1. Known'
      BY <1>1, <2>1, <2>3, KnownStep DEF KnownRight
    <3>2. InOrder => Reports'
      BY <1>1, <2>1, <2>3, ReportsStep DEF KnownRight
    <3>3. InOrder => Listed'
      BY <1>1, <2>1, <2>3, ListedStep DEF KnownRight
    <3>. QED BY <2>3, <3>1, <3>2, <3>3 DEF KnownRight
  <2>. QED BY <1>1, <2>2, <2>3 DEF KnownInv
<1>. QED BY <1>2, <1>3

LEMMA KnownAlways == Spec => [](KnownInv)
BY KnownInvInit, KnownInvStep, PTL DEF Spec

\* Until the communicator is revoked a process takes only failed processes for dead, whichever
\* of the three ways it has heard of them: a verdict, SIM_FT_NBC_BCAST, or the answer of a dead
\* partner; and nothing on the way to it says otherwise.
HeardAreDead ==
    Revoking \/ \A p \in Procs : Heard(p) \cup Pending(p) \cup Told(p) \subseteq DeadProcs

THEOREM OnlyTheDead == Spec => []HeardAreDead
<1>1. KnownInv => HeardAreDead
  BY DEF KnownInv, KnownRight, Known, HeardAreDead
<1>. QED BY <1>1, KnownAlways, PTL

\* Where MPI keeps the order of broadcasts, the processes a check has reported stay, for the
\* whole communicator, in the set that point-to-point operations look at.
THEOREM ReportedStayDead == ASSUME InOrder PROVE Spec => []DeadAreDead
<1>1. KnownInv => DeadAreDead
  BY DEF KnownInv, KnownRight, Known, Listed, Heard, DeadAreDead
<1>. QED BY <1>1, KnownAlways, PTL

-----------------------------------------------------------------------------
(* What the specification promises that the simulator implements (UniformVerdict): the processes    *)
(* that return from the same call of Check_dead_processes agree on its outcome, and nobody alive is *)
(* reported dead, whatever else they do in between.                                                 *)

VARIABLES dead, entered

Calls == INSTANCE CollectiveAgreement

Outcomes == (SUBSET Procs) \cup {Revoked}

CallTypes ==
    /\ dead \in SUBSET Procs
    /\ entered \in [Procs -> Nat]
    /\ outcome \in [Procs -> Seq(Outcomes)]

\* A process is in at most one call.
OneCallEach == \A p \in Procs : entered[p] \in {Len(outcome[p]), Len(outcome[p]) + 1}

\* Two processes that have returned from the same call have the same outcome.
UniformOutcome ==
    \A p, q \in Procs : \A call \in 1..Len(outcome[p]) :
        call <= Len(outcome[q]) => outcome[p][call] = outcome[q][call]

\* Only processes that have failed are reported dead, and all others have entered the call.
Accuracy ==
    \A p \in Procs : \A call \in 1..Len(outcome[p]) :
        outcome[p][call] # Revoked =>
            /\ outcome[p][call] \subseteq dead
            /\ \A q \in Procs \ outcome[p][call] : entered[q] >= call

AgreementInv == CallTypes /\ OneCallEach /\ UniformOutcome /\ Accuracy

\* The process that has failed before a call it did not enter is in every outcome of this call.
Completeness ==
    \A p, q \in Procs : \A call \in 1..Len(outcome[p]) :
        outcome[p][call] # Revoked /\ entered[q] < call => q \in outcome[p][call]

LEMMA InitAgreement == Calls!Init => AgreementInv
  BY DEF Calls!Init, AgreementInv, CallTypes, OneCallEach, UniformOutcome, Accuracy

LEMMA ReturnStep ==
    ASSUME AgreementInv, NEW p \in Procs, NEW o \in Outcomes, Calls!Return(p, o)
    PROVE  AgreementInv'
<1>. USE DEF Calls!Return
<1>1. /\ outcome \in [Procs -> Seq(Outcomes)] /\ entered \in [Procs -> Nat]
      /\ dead' = dead /\ entered' = entered
  BY DEF AgreementInv, CallTypes
<1>2. entered[p] = Len(outcome[p]) + 1 /\ Len(outcome[p]) \in Nat
  BY <1>1 DEF AgreementInv, OneCallEach
<1>3. /\ outcome'[p] = Append(outcome[p], o)
      /\ Len(outcome'[p]) = entered[p] /\ outcome'[p][entered[p]] = o
      /\ \A call \in 1..Len(outcome[p]) : outcome'[p][call] = outcome[p][call]
  BY <1>1, <1>2
<1>4. \A q \in Procs \ {p} : outcome'[q] = outcome[q]
  BY <1>1
<1>5. CallTypes'
  BY <1>1 DEF CallTypes, AgreementInv
<1>6. OneCallEach'
  BY <1>1, <1>2, <1>3, <1>4 DEF AgreementInv, OneCallEach
<1>7. \A q \in Procs : Len(outcome[q]) >= entered[p] => outcome[q][entered[p]] = o
  OBVIOUS
<1>. HIDE DEF Calls!Return
<1>8. UniformOutcome'
  <2>. SUFFICES ASSUME NEW q \in Procs, NEW r \in Procs, NEW call \in 1..Len(outcome'[q]),
                       call <= Len(outcome'[r])
       PROVE  outcome'[q][call] = outcome'[r][call]
    BY DEF UniformOutcome
  <2>1. CASE call = entered[p]
    <3>1. \A s \in Procs : Len(outcome'[s]) >= call => outcome'[s][call] = o
      BY <1>3, <1>4, <1>7, <2>1
    <3>2. outcome' \in [Procs -> Seq(Outcomes)]
      BY <1>5 DEF CallTypes
    <3>. QED BY <3>1, <3>2
  <2>2. CASE call # entered[p]
    <3>1. \A s \in Procs : call <= Len(outcome'[s]) =>
              call \in 1..Len(outcome[s]) /\ outcome'[s][call] = outcome[s][call]
      <4>1. \A s \in Procs : Len(outcome[s]) \in Nat
        BY <1>1
      <4>2. ASSUME NEW s \in Procs \ {p}, call <= Len(outcome'[s])
            PROVE  call \in 1..Len(outcome[s]) /\ outcome'[s][call] = outcome[s][call]
        BY <1>4, <4>1, <4>2
      <4>3. ASSUME call <= Len(outcome'[p])
            PROVE  call \in 1..Len(outcome[p]) /\ outcome'[p][call] = outcome[p][call]
        BY <1>2, <1>3, <2>2, <4>3
      <4>. QED BY <4>2, <4>3
    <3>2. outcome' \in [Procs -> Seq(Outcomes)]
      BY <1>5 DEF CallTypes
    <3>. QED BY <3>1, <3>2 DEF AgreementInv, UniformOutcome
  <2>. QED BY <2>1, <2>2
<1>9. Accuracy'
  <2>. SUFFICES ASSUME NEW q \in Procs, NEW call \in 1..Len(outcome'[q]),
                       outcome'[q][call] # Revoked
       PROVE  /\ outcome'[q][call] \subseteq dead
              /\ \A r \in Procs \ outcome'[q][call] : entered[r] >= call
    BY <1>1 DEF Accuracy
  <2>1. CASE q = p /\ call = entered[p]
    BY <1>3, <2>1 DEF Calls!Return
  <2>2. CASE ~(q = p /\ call = entered[p])
    <3>1. call \in 1..Len(outcome[q]) /\ outcome'[q][call] = outcome[q][call]
      BY <1>1, <1>2, <1>3, <1>4, <2>2
    <3>. QED BY <3>1 DEF AgreementInv, Accuracy
  <2>. QED BY <2>1, <2>2
<1>. QED BY <1>5, <1>6, <1>8, <1>9 DEF AgreementInv

LEMMA OtherSteps ==
    ASSUME AgreementInv, NEW p \in Procs, Calls!Fail(p) \/ Calls!Enter(p)
    PROVE  AgreementInv'
<1>1. CASE Calls!Fail(p)
  BY <1>1 DEF Calls!Fail, AgreementInv, CallTypes, OneCallEach, UniformOutcome, Accuracy
<1>2. CASE Calls!Enter(p)
  <2>. USE <1>2 DEF Calls!Enter
  <2>1. /\ entered \in [Procs -> Nat] /\ outcome \in [Procs -> Seq(Outcomes)]
        /\ UNCHANGED <<dead, outcome>>
        /\ \A q \in Procs : entered'[q] \in Nat /\ entered'[q] >= entered[q]
    BY DEF AgreementInv, CallTypes
  <2>2. CallTypes'
    BY <2>1 DEF AgreementInv, CallTypes
  <2>3. OneCallEach'
    BY <2>1 DEF AgreementInv, OneCallEach
  <2>4. UniformOutcome'
    BY <2>1 DEF AgreementInv, UniformOutcome
  <2>5. Accuracy'
    BY <2>1 DEF AgreementInv, Accuracy
  <2>. QED BY <2>2, <2>3, <2>4, <2>5 DEF AgreementInv
<1>. QED BY <1>1, <1>2

LEMMA AgreementInvariant == Calls!Spec => []AgreementInv
<1>1. Calls!Init => AgreementInv
  BY InitAgreement
<1>2. AgreementInv /\ [Calls!Next]_(Calls!vars) => AgreementInv'
  <2>. SUFFICES ASSUME AgreementInv, [Calls!Next]_(Calls!vars) PROVE AgreementInv'
    OBVIOUS
  <2>1. CASE Calls!Next
    BY <2>1, ReturnStep, OtherSteps DEF Calls!Next, Outcomes
  <2>2. CASE UNCHANGED Calls!vars
    BY <2>2 DEF Calls!vars, AgreementInv, CallTypes, OneCallEach, UniformOutcome, Accuracy
  <2>. QED BY <2>1, <2>2
<1>. QED BY <1>1, <1>2, PTL DEF Calls!Spec

\* The processes that return from the same collective call agree on the processes that are dead, or
\* that the communicator is revoked, whenever each of them returns.
THEOREM CallsAgree == Calls!Spec => []UniformOutcome
  BY AgreementInvariant, PTL DEF AgreementInv

\* Nobody alive is reported dead, and a process that failed before it entered a call is in every
\* verdict of this call.
THEOREM CallVerdictsRight == Calls!Spec => [](Accuracy /\ Completeness)
<1>1. AgreementInv => Accuracy /\ Completeness
  <2>. SUFFICES ASSUME AgreementInv, NEW p \in Procs, NEW q \in Procs, NEW call \in 1..Len(outcome[p]),
                       outcome[p][call] # Revoked, entered[q] < call
       PROVE  q \in outcome[p][call]
    BY DEF AgreementInv, Completeness
  <2>1. entered[q] \in Nat /\ call \in Nat
    BY DEF AgreementInv, CallTypes
  <2>. QED BY <2>1 DEF AgreementInv, Accuracy
<1>. QED BY <1>1, AgreementInvariant, PTL
=============================================================================
