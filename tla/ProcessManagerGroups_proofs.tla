---------------------- MODULE ProcessManagerGroups_proofs ----------------------
(***************************************************************************)
(* The groups call the collectives of globalReduceComm in the same order,  *)
(* and their component grids are in the form each command expects, through *)
(* all the methods of ProcessManager.                                      *)
(*                                                                         *)
(* The methods fix the order of the collectives.  What a group has still   *)
(* to do, the rest of its handler, the commands under way to it and those  *)
(* the method has still to send, is a path through that order, on which    *)
(* hierarchization and dehierarchization alternate.                        *)
(*                                                                         *)
(* The sparse grids they reduce, broadcast and exchange have the same      *)
(* size: they differ until the reduction of the first INIT_DSGUS, which    *)
(* includes every task, and agree up to broadcasts under way afterwards.   *)
(***************************************************************************)
EXTENDS ProcessManager_proofs

-----------------------------------------------------------------------------
\* Paths.

\* The forms of a group's component grids.
Form == {"nodal", "hierarchical"}

\* Where a group is: the collectives it has called, and the form of its grids.
Place == Nat \X Form

\* The labels of seq lead from a to b, by the labelled edges of R.
Path(R, seq, a, b) ==
    \E f \in [1..(Len(seq) + 1) -> Place] :
        /\ f[1] = a
        /\ f[Len(seq) + 1] = b
        /\ \A i \in 1..Len(seq) : <<seq[i], f[i], f[i + 1]>> \in R

\* Nothing leads nowhere else.
LEMMA PathEmpty ==
    ASSUME NEW R, NEW a \in Place, NEW b \in Place
    PROVE  Path(R, <<>>, a, b) <=> a = b
<1>1. Len(<<>>) = 0
    OBVIOUS
<1>2. ASSUME a = b PROVE Path(R, <<>>, a, b)
    <2> DEFINE f == [i \in 1..1 |-> a]
    <2>1. f \in [1..(Len(<<>>) + 1) -> Place] /\ f[1] = a /\ f[Len(<<>>) + 1] = b
        BY <1>1, <1>2
    <2>2. \A i \in 1..Len(<<>>) : <<(<<>>)[i], f[i], f[i + 1]>> \in R
        BY <1>1
    <2> HIDE DEF f
    <2> QED BY <2>1, <2>2 DEF Path
<1>3. ASSUME Path(R, <<>>, a, b) PROVE a = b
    BY <1>1, <1>3 DEF Path
<1> QED BY <1>2, <1>3

\* The ends of a path are places.
LEMMA PathEnds ==
    ASSUME NEW R, NEW L, NEW s \in Seq(L), NEW a, NEW b, Path(R, s, a, b)
    PROVE  a \in Place /\ b \in Place
<1>1. Len(s) \in Nat
    BY LenProperties
<1> QED BY <1>1 DEF Path

\* One label.
LEMMA PathOne ==
    ASSUME NEW R, NEW e, NEW a \in Place, NEW b \in Place, <<e, a, b>> \in R
    PROVE  Path(R, <<e>>, a, b)
<1> DEFINE f == [i \in 1..2 |-> IF i = 1 THEN a ELSE b]
           s == <<e>>
<1>1. Len(s) = 1 /\ s[1] = e
    OBVIOUS
<1>2. f \in [1..2 -> Place] /\ f[1] = a /\ f[2] = b
    OBVIOUS
<1> HIDE DEF f, s
<1>3. \A i \in 1..1 : i = 1 /\ <<s[i], f[i], f[i + 1]>> \in R
    BY <1>1, <1>2
<1>4. Path(R, s, a, b)
    BY <1>1, <1>2, <1>3 DEF Path
<1> QED BY <1>4 DEF s

\* The first label of a path, and the rest.
LEMMA PathHead ==
    ASSUME NEW R, NEW L, NEW s \in Seq(L), s # <<>>, NEW a, NEW b, Path(R, s, a, b)
    PROVE  \E c \in Place : <<Head(s), a, c>> \in R /\ Path(R, Tail(s), c, b)
<1>1. PICK f \in [1..(Len(s) + 1) -> Place] :
        /\ f[1] = a /\ f[Len(s) + 1] = b /\ \A i \in 1..Len(s) : <<s[i], f[i], f[i + 1]>> \in R
    BY DEF Path
<1> DEFINE r == Tail(s)
           n == Len(r)
           h == [i \in 1..(n + 1) |-> f[i + 1]]
<1>2. /\ Len(s) \in Nat \ {0} /\ n = Len(s) - 1 /\ n \in Nat /\ Head(s) = s[1]
      /\ \A i \in 1..(Len(s) - 1) : r[i] = s[i + 1]
    BY HeadTailProperties, LenProperties, EmptySeq
<1> HIDE DEF r, n
<1>3. \A i \in 1..(n + 1) : i + 1 \in 1..(Len(s) + 1) /\ f[i + 1] \in Place
    BY <1>1, <1>2
<1>4. h \in [1..(n + 1) -> Place] /\ h[1] = f[2] /\ h[n + 1] = b
    <2>1. 1 \in 1..(n + 1) /\ n + 1 \in 1..(n + 1) /\ (n + 1) + 1 = Len(s) + 1
        BY <1>2
    <2>2. h[1] = f[1 + 1] /\ h[n + 1] = f[(n + 1) + 1]
        BY <2>1
    <2> QED BY <1>1, <1>3, <2>1, <2>2
<1>5. \A i \in 1..n : <<r[i], h[i], h[i + 1]>> \in R
    <2> SUFFICES ASSUME NEW i \in 1..n PROVE <<r[i], h[i], h[i + 1]>> \in R
        OBVIOUS
    <2>1. i \in 1..(n + 1) /\ i + 1 \in 1..(n + 1) /\ i + 1 \in 1..Len(s) /\ i \in 1..(Len(s) - 1)
        BY <1>2
    <2>2. h[i] = f[i + 1] /\ h[i + 1] = f[(i + 1) + 1] /\ r[i] = s[i + 1]
        BY <1>2, <2>1
    <2> QED BY <1>1, <2>1, <2>2
<1> HIDE DEF h
<1>6. Path(R, r, f[2], b)
    BY <1>4, <1>5 DEF Path, n
<1>7. <<s[1], a, f[2]>> \in R /\ f[2] \in Place
    <2>1. 1 \in 1..Len(s) /\ 1 + 1 = 2 /\ 2 \in 1..(Len(s) + 1)
        BY <1>2
    <2> QED BY <1>1, <2>1
<1> QED BY <1>2, <1>6, <1>7 DEF r

\* One path after another.
LEMMA PathConcat ==
    ASSUME NEW R, NEW L, NEW s \in Seq(L), NEW t \in Seq(L), NEW a, NEW b, NEW c,
           Path(R, s, a, c), Path(R, t, c, b)
    PROVE  Path(R, s \o t, a, b)
<1>1. PICK f \in [1..(Len(s) + 1) -> Place] :
        /\ f[1] = a /\ f[Len(s) + 1] = c /\ \A i \in 1..Len(s) : <<s[i], f[i], f[i + 1]>> \in R
    BY DEF Path
<1>2. PICK h \in [1..(Len(t) + 1) -> Place] :
        /\ h[1] = c /\ h[Len(t) + 1] = b /\ \A i \in 1..Len(t) : <<t[i], h[i], h[i + 1]>> \in R
    BY DEF Path
<1> DEFINE m == Len(s)
           n == Len(t)
           u == s \o t
           k == [i \in 1..(m + n + 1) |-> IF i \in 1..m THEN f[i] ELSE h[i - m]]
<1>3. /\ m \in Nat /\ n \in Nat /\ Len(u) = m + n
      /\ \A i \in 1..m : u[i] = s[i]
      /\ \A i \in 1..n : u[m + i] = t[i]
    BY ConcatParts, LenProperties
<1> HIDE DEF m, n, u
<1>4. \A i \in 1..(m + n + 1) : i \notin 1..m => i - m \in 1..(n + 1) /\ k[i] = h[i - m]
    BY <1>3
<1>5. \A i \in 1..(m + 1) : k[i] = f[i]
    <2>1. k[m + 1] = h[1]
        <3>1. m + 1 \in 1..(m + n + 1) /\ m + 1 \notin 1..m /\ (m + 1) - m = 1
            BY <1>3
        <3> QED BY <1>4, <3>1
    <2>2. \A i \in 1..m : i \in 1..(m + n + 1)
        BY <1>3
    <2>3. f[m + 1] = h[1]
        BY <1>1, <1>2 DEF m
    <2>4. \A i \in 1..(m + 1) : i \in 1..m \/ i = m + 1
        BY <1>3
    <2> QED BY <2>1, <2>2, <2>3, <2>4
<1>6. k \in [1..(m + n + 1) -> Place]
    <2>1. \A i \in 1..m : f[i] \in Place
        BY <1>1, <1>3 DEF m
    <2>2. \A i \in 1..(n + 1) : h[i] \in Place
        BY <1>2 DEF n
    <2> QED BY <1>4, <2>1, <2>2
<1> HIDE DEF k
<1>7. k[1] = a /\ k[m + n + 1] = b
    <2>1. k[1] = f[1]
        <3>1. 1 \in 1..(m + 1)
            BY <1>3
        <3> QED BY <1>5, <3>1
    <2>2. k[m + n + 1] = h[(m + n + 1) - m] /\ (m + n + 1) - m = n + 1
        <3>1. m + n + 1 \in 1..(m + n + 1) /\ m + n + 1 \notin 1..m
            BY <1>3
        <3>2. (m + n + 1) - m = n + 1
            BY <1>3
        <3> QED BY <1>4, <3>1, <3>2
    <2> QED BY <1>1, <1>2, <2>1, <2>2 DEF n
<1>8. ASSUME NEW i \in 1..(m + n) PROVE <<u[i], k[i], k[i + 1]>> \in R
    <2>1. CASE i \in 1..m
        <3>1. /\ i \in 1..(m + n + 1) /\ i \in 1..(m + 1)
              /\ i + 1 \in 1..(m + n + 1) /\ i + 1 \in 1..(m + 1)
            BY <1>3, <2>1
        <3>2. k[i] = f[i] /\ k[i + 1] = f[i + 1] /\ u[i] = s[i]
            BY <1>3, <1>5, <2>1, <3>1
        <3> QED BY <1>1, <2>1, <3>2 DEF m
    <2>2. CASE i \notin 1..m
        <3> DEFINE j == i - m
        <3>1. j \in 1..n /\ i = m + j
            BY <1>3, <2>2
        <3>2. k[i] = h[j] /\ k[i + 1] = h[j + 1]
            <4>1. i + 1 \in 1..(m + n + 1) /\ i + 1 \notin 1..m /\ (i + 1) - m = j + 1
                BY <1>3, <2>2
            <4>2. i \in 1..(m + n + 1)
                BY <1>3
            <4>3. k[i + 1] = h[(i + 1) - m]
                BY <1>4, <4>1
            <4>4. k[i] = h[i - m]
                BY <1>4, <2>2, <4>2
            <4> QED BY <4>1, <4>3, <4>4
        <3>3. u[i] = t[j]
            BY <1>3, <3>1
        <3> HIDE DEF j
        <3> QED BY <1>2, <3>1, <3>2, <3>3 DEF n
    <2> QED BY <2>1, <2>2
<1>9. Path(R, u, a, b)
    BY <1>3, <1>6, <1>7, <1>8 DEF Path
<1> QED BY <1>9 DEF u

\* One label more.
LEMMA PathAppend ==
    ASSUME NEW R, NEW L, NEW s \in Seq(L), NEW e \in L, NEW a, NEW b, NEW c \in Place,
           Path(R, s, a, c), <<e, c, b>> \in R, b \in Place
    PROVE  Path(R, Append(s, e), a, b)
<1>1. Path(R, <<e>>, c, b)
    BY PathOne
<1>2. s \in Seq(L) /\ e \in L /\ <<e>> \in Seq(L)
    OBVIOUS
<1>3. Append(s, e) = s \o <<e>>
    BY <1>2, AppendIsConcat
<1>4. Path(R, s \o <<e>>, a, b)
    BY <1>1, <1>2, PathConcat
<1> QED BY <1>3, <1>4

\* More edges.
LEMMA PathMore ==
    ASSUME NEW R, NEW Q, R \subseteq Q, NEW s, NEW a, NEW b, Path(R, s, a, b)
    PROVE  Path(Q, s, a, b)
BY DEF Path

\* Labels that lead nowhere else.
LEMMA PathStill ==
    ASSUME NEW R, NEW L, NEW s \in Seq(L), NEW a \in Place, \A i \in 1..Len(s) : <<s[i], a, a>> \in R
    PROVE  Path(R, s, a, a)
<1> DEFINE f == [i \in 1..(Len(s) + 1) |-> a]
<1>1. Len(s) \in Nat
    BY LenProperties
<1>2. f \in [1..(Len(s) + 1) -> Place] /\ \A i \in 1..(Len(s) + 1) : f[i] = a
    OBVIOUS
<1>3. 1 \in 1..(Len(s) + 1) /\ Len(s) + 1 \in 1..(Len(s) + 1)
      /\ \A i \in 1..Len(s) : i \in 1..(Len(s) + 1) /\ i + 1 \in 1..(Len(s) + 1)
    BY <1>1
<1> HIDE DEF f
<1>4. \A i \in 1..Len(s) : <<s[i], f[i], f[i + 1]>> \in R
    BY <1>2, <1>3
<1> QED BY <1>2, <1>3, <1>4 DEF Path

\* Labels that lead nowhere else, but one.
LEMMA PathOnce ==
    ASSUME NEW R, NEW L, NEW s \in Seq(L), NEW a \in Place, NEW b \in Place, NEW k \in 1..Len(s),
           <<s[k], a, b>> \in R,
           \A i \in 1..Len(s) : i # k => <<s[i], a, a>> \in R /\ <<s[i], b, b>> \in R
    PROVE  Path(R, s, a, b)
<1> DEFINE f == [i \in 1..(Len(s) + 1) |-> IF i <= k THEN a ELSE b]
<1>1. Len(s) \in Nat
    BY LenProperties
<1>2. f \in [1..(Len(s) + 1) -> Place] /\ \A i \in 1..(Len(s) + 1) : f[i] = IF i <= k THEN a ELSE b
    OBVIOUS
<1>3. f[1] = a /\ f[Len(s) + 1] = b
    BY <1>1
<1> HIDE DEF f
<1>4. ASSUME NEW i \in 1..Len(s) PROVE <<s[i], f[i], f[i + 1]>> \in R
    <2>1. i \in 1..(Len(s) + 1) /\ i + 1 \in 1..(Len(s) + 1)
        BY <1>1
    <2>2. CASE i = k
        BY <1>1, <1>2, <2>1, <2>2
    <2>3. CASE i # k
        <3>1. i <= k <=> i + 1 <= k
            BY <1>1, <2>3
        <3>2. f[i] = f[i + 1] /\ (f[i] = a \/ f[i] = b)
            BY <1>2, <2>1, <3>1
        <3> QED BY <2>3, <3>2
    <2> QED BY <2>2, <2>3
<1> QED BY <1>2, <1>3, <1>4 DEF Path

-----------------------------------------------------------------------------
\* The ways of the handlers and of the commands.

\* The collectives of globalReduceComm.
Collectives == {"reduceSizes", "reduceGlobal", "reduceValues", "dsg", "sizes"}

\* The steps of the handlers that neither call a collective nor transform the grids.
Local == {"initDsg", "sendDsg", "recvDsg", "waitBcast", "gatherSizes", "scatterSizes",
          "scatterExtra", "zero", "write", "readReduce", "removeToken", "sendValues"}

Transforms == {"reduceLocal", "distribute"}

\* The steps of the handlers.
Handled == Local \cup Transforms \cup
           {"reduceSizes", "reduceGlobal", "reduceValues", "bcastDsg", "takeDsg", "bcastSizes", "takeSizes"}

\* From a to b a group calls the collective, which is the next one of the order S, or none.
Calls(S, collective, a, b) ==
    IF collective = "none" THEN b[1] = a[1]
    ELSE a[1] < Len(S) /\ S[a[1] + 1] = collective /\ b[1] = a[1] + 1

\* What a step of a handler does: the third level group is the root of the broadcasts, the grids
\* are hierarchized when they are nodal and the other way round.
StepWays(S, g) ==
    {w \in Handled \X Place \X Place :
        /\ Calls(S, CollectiveOf(w[1]), w[2], w[3])
        /\ w[1] \in {"bcastDsg", "bcastSizes"} => g = TLGroup
        /\ w[1] \in {"takeDsg", "takeSizes"} => g # TLGroup
        /\ w[1] = "reduceLocal" => w[2][2] = "nodal" /\ w[3][2] = "hierarchical"
        /\ w[1] = "distribute" => w[2][2] = "hierarchical" /\ w[3][2] = "nodal"
        /\ w[1] \notin Transforms => w[3][2] = w[2][2]}

Roots == {"COMBINE_THIRD_LEVEL", "COMBINE_READ_DSGS_AND_REDUCE", "COMBINE_THIRD_LEVEL_FILE",
          "REDUCE_SUBSPACE_SIZES_TL"}

Leaves == {"WAIT_FOR_TL_COMBI_RESULT", "WAIT_FOR_TL_SIZE_UPDATE"}

Interpolations == {"INTERPOLATE_VALUES", "INTERPOLATE_VALUES_AND_SEND_BACK",
                   "INTERPOLATE_VALUES_AND_WRITE_SINGLE_FILE"}

\* The collective in the handler of a command; no handler has two.
CollectiveIn(sig) ==
    CASE sig = "INIT_DSGUS" -> "reduceSizes"
      [] sig \in {"COMBINE", "COMBINE_LOCAL_AND_GLOBAL"} -> "reduceGlobal"
      [] sig \in ThirdLevelCommands -> "dsg"
      [] sig \in {"REDUCE_SUBSPACE_SIZES_TL", "WAIT_FOR_TL_SIZE_UPDATE"} -> "sizes"
      [] sig \in Interpolations -> "reduceValues"
      [] OTHER -> "none"

\* The commands that use nodal values, or give a group a task that has some.
NeedNodal == NodalUsers \cup {"RUN_FIRST", "RESCHEDULE_ADD_TASK"}

\* What a command does, "none" being no command.
SignalWays(S, g) ==
    {w \in (PG!Signals \cup {"none"}) \X Place \X Place :
        /\ Calls(S, CollectiveIn(w[1]), w[2], w[3])
        /\ w[1] \in Roots => g = TLGroup
        /\ w[1] \in Leaves => g # TLGroup
        /\ w[1] \notin {"ADD_TASK", "RECOMPUTE"}
        /\ w[1] \in NeedNodal \cup {"COMBINE", "COMBINE_LOCAL_AND_GLOBAL"} => w[2][2] = "nodal"
        /\ w[1] \in ThirdLevelCommands => w[2][2] = "hierarchical"
        /\ w[3][2] = IF w[1] = "COMBINE_LOCAL_AND_GLOBAL" THEN "hierarchical"
                     ELSE IF w[1] \in ThirdLevelCommands THEN "nodal"
                     ELSE w[2][2]}

\* The parts of a place.
LEMMA PlaceParts ==
    /\ \A a \in Place : a[1] \in Nat /\ a[2] \in Form /\ a = <<a[1], a[2]>>
    /\ \A n \in Nat, m \in Form : <<n, m>> \in Place
BY DEF Place

\* Steps that do nothing of interest here.
LEMMA LocalWays ==
    ASSUME NEW S, NEW g, NEW x \in Local, NEW a \in Place
    PROVE  x \in Handled /\ <<x, a, a>> \in StepWays(S, g)
<1>1. CollectiveOf(x) = "none" /\ x \notin Transforms /\ x \in Handled
      /\ x \notin {"bcastDsg", "bcastSizes", "takeDsg", "takeSizes"}
    BY DEF Local, CollectiveOf, Transforms, Handled
<1>2. <<x, a, a>> \in Handled \X Place \X Place
    BY <1>1
<1> QED BY <1>1, <1>2 DEF StepWays, Calls, Transforms

\* Steps that call a collective.
LEMMA CollectiveWays ==
    ASSUME NEW S, NEW g, NEW x \in Handled \ (Local \cup Transforms), NEW a \in Place, NEW b \in Place,
           b[2] = a[2], Calls(S, CollectiveOf(x), a, b),
           x \in {"bcastDsg", "bcastSizes"} => g = TLGroup,
           x \in {"takeDsg", "takeSizes"} => g # TLGroup
    PROVE  <<x, a, b>> \in StepWays(S, g)
BY DEF StepWays, Transforms

\* Steps that transform the grids.
LEMMA TransformWays ==
    ASSUME NEW S, NEW g, NEW n \in Nat
    PROVE  /\ <<"reduceLocal", <<n, "nodal">>, <<n, "hierarchical">>>> \in StepWays(S, g)
           /\ <<"distribute", <<n, "hierarchical">>, <<n, "nodal">>>> \in StepWays(S, g)
<1>1. <<n, "nodal">> \in Place /\ <<n, "hierarchical">> \in Place
    BY DEF Place, Form
<1>2. "reduceLocal" \in Handled /\ "distribute" \in Handled
    BY DEF Handled, Transforms
<1>3. CollectiveOf("reduceLocal") = "none" /\ CollectiveOf("distribute") = "none"
    BY DEF CollectiveOf
<1> QED BY <1>1, <1>2, <1>3 DEF StepWays, Calls, Transforms

\* The steps of a handler around its collective.
LEMMA AroundCollective ==
    ASSUME NEW S, NEW g, NEW s \in Seq(Handled), NEW k \in 1..Len(s), NEW a \in Place, NEW b \in Place,
           \A i \in 1..Len(s) : i # k => s[i] \in Local,
           <<s[k], a, b>> \in StepWays(S, g)
    PROVE  Path(StepWays(S, g), s, a, b)
<1>1. \A i \in 1..Len(s) : i # k => <<s[i], a, a>> \in StepWays(S, g) /\ <<s[i], b, b>> \in StepWays(S, g)
    BY LocalWays
<1> QED BY <1>1, PathOnce

\* The rest of a handler after its collective: the grids get the combined solution.
LEMMA ThenDistribute ==
    ASSUME NEW S, NEW g, NEW s \in Seq(Handled), NEW t \in Seq(Handled), NEW k \in 1..Len(s),
           NEW n \in Nat, NEW a \in Place,
           \A i \in 1..Len(s) : i # k => s[i] \in Local,
           <<s[k], a, <<n, "hierarchical">>>> \in StepWays(S, g),
           Len(t) # 0, t[1] = "distribute", \A i \in 1..Len(t) : i # 1 => t[i] \in Local
    PROVE  Path(StepWays(S, g), s \o t, a, <<n, "nodal">>)
<1>1. <<n, "nodal">> \in Place /\ <<n, "hierarchical">> \in Place
    BY DEF Place, Form
<1>2. Path(StepWays(S, g), s, a, <<n, "hierarchical">>)
    BY <1>1, AroundCollective
<1>3. 1 \in 1..Len(t) /\ <<t[1], <<n, "hierarchical">>, <<n, "nodal">>>> \in StepWays(S, g)
    <2>1. Len(t) \in Nat
        BY LenProperties
    <2>2. <<"distribute", <<n, "hierarchical">>, <<n, "nodal">>>> \in StepWays(S, g)
        BY TransformWays
    <2> QED BY <2>1, <2>2
<1>4. Path(StepWays(S, g), t, <<n, "hierarchical">>, <<n, "nodal">>)
    BY <1>1, <1>3, AroundCollective
<1> QED BY <1>2, <1>4, PathConcat

\* The handlers.
LEMMA HandlerTable ==
    /\ HandlerOf("INIT_DSGUS") = <<"initDsg", "reduceSizes">>
    /\ HandlerOf("COMBINE") = <<"reduceLocal", "reduceGlobal", "distribute">>
    /\ HandlerOf("COMBINE_LOCAL_AND_GLOBAL") = <<"reduceLocal", "reduceGlobal">>
    /\ HandlerOf("COMBINE_THIRD_LEVEL") = <<"sendDsg", "recvDsg", "bcastDsg", "distribute", "waitBcast">>
    /\ HandlerOf("WAIT_FOR_TL_COMBI_RESULT") = <<"takeDsg", "distribute">>
    /\ HandlerOf("COMBINE_WRITE_DSGS") = <<"write">>
    /\ HandlerOf("COMBINE_READ_DSGS_AND_REDUCE")
            = <<"readReduce", "bcastDsg", "distribute", "removeToken", "waitBcast">>
    /\ HandlerOf("COMBINE_THIRD_LEVEL_FILE")
            = <<"write", "readReduce", "bcastDsg", "distribute", "removeToken", "waitBcast">>
    /\ HandlerOf("REDUCE_SUBSPACE_SIZES_TL") = <<"gatherSizes", "scatterSizes", "bcastSizes", "zero">>
    /\ HandlerOf("REDUCE_SUBSPACE_SIZES_TL_AND_ALLOCATE_EXTRA_SG") = <<"gatherSizes", "scatterExtra", "zero">>
    /\ HandlerOf("WAIT_FOR_TL_SIZE_UPDATE") = <<"takeSizes", "zero">>
    /\ HandlerOf("INTERPOLATE_VALUES") = <<"reduceValues">>
    /\ HandlerOf("INTERPOLATE_VALUES_AND_WRITE_SINGLE_FILE") = <<"reduceValues">>
    /\ HandlerOf("INTERPOLATE_VALUES_AND_SEND_BACK") = <<"reduceValues", "sendValues">>
BY DEF HandlerOf, WaitForThirdLevelCombiResult, InterpolateAndWrite

\* The collectives.
LEMMA CollectiveTable ==
    /\ CollectiveIn("INIT_DSGUS") = "reduceSizes"
    /\ CollectiveIn("COMBINE") = "reduceGlobal" /\ CollectiveIn("COMBINE_LOCAL_AND_GLOBAL") = "reduceGlobal"
    /\ \A sig \in ThirdLevelCommands : CollectiveIn(sig) = "dsg"
    /\ CollectiveIn("REDUCE_SUBSPACE_SIZES_TL") = "sizes" /\ CollectiveIn("WAIT_FOR_TL_SIZE_UPDATE") = "sizes"
    /\ \A sig \in Interpolations : CollectiveIn(sig) = "reduceValues"
BY DEF CollectiveIn, ThirdLevelCommands, Interpolations

\* The commands whose handlers are all local, or empty, call no collective.
LEMMA NoCollective ==
    ASSUME NEW sig,
           sig \notin {"INIT_DSGUS", "COMBINE", "COMBINE_LOCAL_AND_GLOBAL", "REDUCE_SUBSPACE_SIZES_TL",
                       "WAIT_FOR_TL_SIZE_UPDATE"} \cup ThirdLevelCommands \cup Interpolations
    PROVE  CollectiveIn(sig) = "none"
BY DEF CollectiveIn

\* The collectives of the steps.
LEMMA StepTable ==
    /\ \A x \in {"reduceSizes", "reduceGlobal", "reduceValues"} : CollectiveOf(x) = x
    /\ CollectiveOf("bcastDsg") = "dsg" /\ CollectiveOf("takeDsg") = "dsg"
    /\ CollectiveOf("bcastSizes") = "sizes" /\ CollectiveOf("takeSizes") = "sizes"
    /\ \A x \in Local \cup Transforms : CollectiveOf(x) = "none" /\ x \in Handled
    /\ {"reduceSizes", "reduceGlobal", "reduceValues", "bcastDsg", "takeDsg", "bcastSizes", "takeSizes"}
            = Handled \ (Local \cup Transforms)
    /\ Local \cap Transforms = {}
BY DEF CollectiveOf, Local, Transforms, Handled

\* A handler with a collective and no transformation.
LEMMA OneCollective ==
    ASSUME NEW S, NEW g, NEW s \in Seq(Handled), NEW k \in 1..Len(s), NEW a \in Place, NEW b \in Place,
           s[k] \in Handled \ (Local \cup Transforms),
           \A i \in 1..Len(s) : i # k => s[i] \in Local,
           b[2] = a[2], Calls(S, CollectiveOf(s[k]), a, b),
           s[k] \in {"bcastDsg", "bcastSizes"} => g = TLGroup,
           s[k] \in {"takeDsg", "takeSizes"} => g # TLGroup
    PROVE  /\ Path(StepWays(S, g), s, a, b)
           /\ \A i \in 1..Len(s) : s[i] \notin Transforms
<1>1. <<s[k], a, b>> \in StepWays(S, g)
    BY CollectiveWays
<1>2. \A i \in 1..Len(s) : s[i] \notin Transforms
    BY DEF Local, Transforms
<1> QED BY <1>1, <1>2, AroundCollective

\* What is known of a command that makes its way.
LEMMA SignalFacts ==
    ASSUME NEW S, NEW g, NEW sig, NEW a, NEW b, <<sig, a, b>> \in SignalWays(S, g)
    PROVE  /\ sig \in PG!Signals \cup {"none"} /\ a \in Place /\ b \in Place
           /\ Calls(S, CollectiveIn(sig), a, b)
           /\ sig \in Roots => g = TLGroup
           /\ sig \in Leaves => g # TLGroup
           /\ sig \notin {"ADD_TASK", "RECOMPUTE"}
           /\ sig \in NeedNodal \cup {"COMBINE", "COMBINE_LOCAL_AND_GLOBAL"} => a[2] = "nodal"
           /\ sig \in ThirdLevelCommands => a[2] = "hierarchical" /\ b[2] = "nodal"
           /\ sig = "COMBINE_LOCAL_AND_GLOBAL" => b[2] = "hierarchical"
           /\ sig \notin ThirdLevelCommands /\ sig # "COMBINE_LOCAL_AND_GLOBAL" => b[2] = a[2]
<1> DEFINE w == <<sig, a, b>>
<1>1. w \in SignalWays(S, g) /\ w[1] = sig /\ w[2] = a /\ w[3] = b
    OBVIOUS
<1>2. "COMBINE_LOCAL_AND_GLOBAL" \notin ThirdLevelCommands
    BY DEF ThirdLevelCommands
<1> HIDE DEF w
<1>3. /\ Calls(S, CollectiveIn(w[1]), w[2], w[3])
      /\ w[1] \in Roots => g = TLGroup
      /\ w[1] \in Leaves => g # TLGroup
      /\ w[1] \notin {"ADD_TASK", "RECOMPUTE"}
      /\ w[1] \in NeedNodal \cup {"COMBINE", "COMBINE_LOCAL_AND_GLOBAL"} => w[2][2] = "nodal"
      /\ w[1] \in ThirdLevelCommands => w[2][2] = "hierarchical"
      /\ w[3][2] = IF w[1] = "COMBINE_LOCAL_AND_GLOBAL" THEN "hierarchical"
                   ELSE IF w[1] \in ThirdLevelCommands THEN "nodal"
                   ELSE w[2][2]
      /\ w \in (PG!Signals \cup {"none"}) \X Place \X Place
    BY <1>1 DEF SignalWays
<1> QED BY <1>1, <1>2, <1>3

\* The handlers without a transformation of the grids.
LEMMA QuietHandlers ==
    ASSUME NEW S, NEW g, NEW sig \in PG!Signals, NEW a, NEW b, <<sig, a, b>> \in SignalWays(S, g),
           sig \notin {"COMBINE", "COMBINE_LOCAL_AND_GLOBAL"} \cup ThirdLevelCommands
    PROVE  /\ HandlerOf(sig) \in Seq(Handled)
           /\ Path(StepWays(S, g), HandlerOf(sig), a, b)
           /\ \A i \in 1..Len(HandlerOf(sig)) : HandlerOf(sig)[i] \notin Transforms
<1> DEFINE s == HandlerOf(sig)
           Goal == /\ s \in Seq(Handled) /\ Path(StepWays(S, g), s, a, b)
                   /\ \A i \in 1..Len(s) : s[i] \notin Transforms
<1> SUFFICES Goal
    OBVIOUS
<1>1. /\ a \in Place /\ b \in Place /\ b[2] = a[2] /\ Calls(S, CollectiveIn(sig), a, b)
      /\ sig \in Roots => g = TLGroup
      /\ sig \in Leaves => g # TLGroup
    BY SignalFacts
<1>2. /\ \A x \in Local : x \in Handled /\ x \notin Transforms
      /\ Handled \ (Local \cup Transforms)
            = {"reduceSizes", "reduceGlobal", "reduceValues", "bcastDsg", "takeDsg", "bcastSizes", "takeSizes"}
    BY StepTable
<1>3. CollectiveIn(sig) = "none" => a = b
    BY <1>1, PlaceParts DEF Calls
<1>4. ASSUME CollectiveIn(sig) = "none", s \in Seq(Handled), \A i \in 1..Len(s) : s[i] \in Local PROVE Goal
    <2> HIDE DEF s
    <2>1. \A i \in 1..Len(s) : <<s[i], a, a>> \in StepWays(S, g)
        BY <1>1, <1>4, LocalWays
    <2>2. Path(StepWays(S, g), s, a, a)
        BY <1>1, <1>4, <2>1, PathStill
    <2> QED BY <1>2, <1>3, <1>4, <2>2
<1>5. ASSUME s \in Seq(Handled), NEW k \in 1..Len(s),
             s[k] \in Handled \ (Local \cup Transforms), \A i \in 1..Len(s) : i # k => s[i] \in Local,
             CollectiveOf(s[k]) = CollectiveIn(sig),
             s[k] \in {"bcastDsg", "bcastSizes"} => g = TLGroup,
             s[k] \in {"takeDsg", "takeSizes"} => g # TLGroup
      PROVE  Goal
    <2> HIDE DEF s
    <2> QED BY <1>1, <1>5, OneCollective
<1>6. CASE sig = "INIT_DSGUS"
    <2>1. s = <<"initDsg", "reduceSizes">> /\ CollectiveIn(sig) = "reduceSizes"
        BY <1>6, HandlerTable, CollectiveTable
    <2>2. "initDsg" \in Local /\ "reduceSizes" \in Handled \ (Local \cup Transforms)
          /\ CollectiveOf("reduceSizes") = "reduceSizes"
        BY <1>2, StepTable DEF Local
    <2> QED
        <3> DEFINE k == 2
        <3>1. s \in Seq(Handled) /\ k \in 1..Len(s) /\ s[k] = "reduceSizes"
              /\ \A i \in 1..Len(s) : i # k => s[i] \in Local
            BY <1>2, <2>1, <2>2
        <3> HIDE DEF s, k, Goal
        <3> QED BY <1>5, <2>1, <2>2, <3>1
<1>7. CASE sig \in {"INTERPOLATE_VALUES", "INTERPOLATE_VALUES_AND_WRITE_SINGLE_FILE",
                    "INTERPOLATE_VALUES_AND_SEND_BACK"}
    <2>1. s \in {<<"reduceValues">>, <<"reduceValues", "sendValues">>} /\ CollectiveIn(sig) = "reduceValues"
        BY <1>7, HandlerTable, CollectiveTable DEF Interpolations
    <2>2. "sendValues" \in Local /\ "reduceValues" \in Handled \ (Local \cup Transforms)
          /\ CollectiveOf("reduceValues") = "reduceValues"
        BY <1>2, StepTable DEF Local
    <2>3. <<"reduceValues">> \in Seq(Handled) /\ <<"reduceValues", "sendValues">> \in Seq(Handled)
        BY <1>2, <2>2
    <2> QED
        <3> DEFINE k == 1
        <3>1. s \in Seq(Handled) /\ k \in 1..Len(s) /\ s[k] = "reduceValues"
              /\ \A i \in 1..Len(s) : i # k => s[i] \in Local
            <4>1. CASE s = <<"reduceValues">>
                BY <2>2, <2>3, <4>1
            <4>2. CASE s = <<"reduceValues", "sendValues">>
                BY <2>2, <2>3, <4>2
            <4> QED BY <2>1, <4>1, <4>2
        <3> HIDE DEF s, k, Goal
        <3> QED BY <1>5, <2>1, <2>2, <3>1
<1>8. CASE sig = "REDUCE_SUBSPACE_SIZES_TL"
    <2>1. s = <<"gatherSizes", "scatterSizes", "bcastSizes", "zero">> /\ CollectiveIn(sig) = "sizes"
          /\ g = TLGroup
        BY <1>1, <1>8, HandlerTable, CollectiveTable DEF Roots
    <2>2. {"gatherSizes", "scatterSizes", "zero"} \subseteq Local
          /\ "bcastSizes" \in Handled \ (Local \cup Transforms) /\ CollectiveOf("bcastSizes") = "sizes"
        BY <1>2, StepTable DEF Local
    <2> QED
        <3> DEFINE k == 3
        <3>1. s \in Seq(Handled) /\ k \in 1..Len(s) /\ s[k] = "bcastSizes"
              /\ \A i \in 1..Len(s) : i # k => s[i] \in Local
            BY <1>2, <2>1, <2>2
        <3> HIDE DEF s, k, Goal
        <3> QED BY <1>5, <2>1, <2>2, <3>1
<1>9. CASE sig = "WAIT_FOR_TL_SIZE_UPDATE"
    <2>1. s = <<"takeSizes", "zero">> /\ CollectiveIn(sig) = "sizes" /\ g # TLGroup
        BY <1>1, <1>9, HandlerTable, CollectiveTable DEF Leaves
    <2>2. "zero" \in Local /\ "takeSizes" \in Handled \ (Local \cup Transforms)
          /\ CollectiveOf("takeSizes") = "sizes"
        BY <1>2, StepTable DEF Local
    <2> QED
        <3> DEFINE k == 1
        <3>1. s \in Seq(Handled) /\ k \in 1..Len(s) /\ s[k] = "takeSizes"
              /\ \A i \in 1..Len(s) : i # k => s[i] \in Local
            BY <1>2, <2>1, <2>2
        <3> HIDE DEF s, k, Goal
        <3> QED BY <1>5, <2>1, <2>2, <3>1
<1> DEFINE Calling == {"INIT_DSGUS", "REDUCE_SUBSPACE_SIZES_TL", "WAIT_FOR_TL_SIZE_UPDATE"} \cup Interpolations
<1>10. CASE sig \notin Calling
    <2>1. CollectiveIn(sig) = "none"
        BY <1>10, NoCollective
    <2>2. {"write", "gatherSizes", "scatterExtra", "zero"} \subseteq Local
        BY DEF Local
    <2>3. CASE sig = "COMBINE_WRITE_DSGS"
        <3>1. s = <<"write">>
            BY <2>3, HandlerTable
        <3>2. s \in Seq(Handled) /\ \A i \in 1..Len(s) : s[i] \in Local
            BY <1>2, <2>2, <3>1
        <3> HIDE DEF s, Goal
        <3> QED BY <1>4, <2>1, <3>2
    <2>4. CASE sig = "REDUCE_SUBSPACE_SIZES_TL_AND_ALLOCATE_EXTRA_SG"
        <3>1. s = <<"gatherSizes", "scatterExtra", "zero">>
            BY <2>4, HandlerTable
        <3>2. s \in Seq(Handled) /\ \A i \in 1..Len(s) : s[i] \in Local
            BY <1>2, <2>2, <3>1
        <3> HIDE DEF s, Goal
        <3> QED BY <1>4, <2>1, <3>2
    <2>5. CASE sig \notin {"COMBINE_WRITE_DSGS", "REDUCE_SUBSPACE_SIZES_TL_AND_ALLOCATE_EXTRA_SG"}
        <3>1. s = <<>>
            BY <1>10, <2>5 DEF HandlerOf, ThirdLevelCommands, Interpolations
        <3>2. s \in Seq(Handled) /\ \A i \in 1..Len(s) : s[i] \in Local
            BY <3>1
        <3> HIDE DEF s, Goal
        <3> QED BY <1>4, <2>1, <3>2
    <2> QED BY <2>3, <2>4, <2>5
<1> QED BY <1>6, <1>7, <1>8, <1>9, <1>10 DEF Interpolations

\* Two labels.
LEMMA PathTwo ==
    ASSUME NEW R, NEW x, NEW y, NEW a \in Place, NEW b \in Place, NEW c \in Place,
           <<x, a, c>> \in R, <<y, c, b>> \in R
    PROVE  Path(R, <<x, y>>, a, b)
<1> DEFINE f == [i \in 1..3 |-> IF i = 1 THEN a ELSE IF i = 2 THEN c ELSE b]
           s == <<x, y>>
<1>1. Len(s) = 2 /\ s[1] = x /\ s[2] = y
    OBVIOUS
<1>2. f \in [1..3 -> Place] /\ f[1] = a /\ f[2] = c /\ f[3] = b
    OBVIOUS
<1> HIDE DEF f, s
<1>3. \A i \in 1..2 : <<s[i], f[i], f[i + 1]>> \in R
    <2>1. \A i \in 1..2 : (i = 1 /\ i + 1 = 2) \/ (i = 2 /\ i + 1 = 3)
        OBVIOUS
    <2> QED BY <1>1, <1>2, <2>1
<1>4. Len(s) + 1 = 3 /\ Len(s) = 2 /\ f[Len(s) + 1] = b
    BY <1>1, <1>2
<1>5. Path(R, s, a, b)
    BY <1>2, <1>3, <1>4 DEF Path
<1> QED BY <1>5 DEF s

\* Three labels.
LEMMA PathThree ==
    ASSUME NEW R, NEW x, NEW y, NEW z, NEW a \in Place, NEW b \in Place, NEW c \in Place, NEW d \in Place,
           <<x, a, c>> \in R, <<y, c, d>> \in R, <<z, d, b>> \in R
    PROVE  Path(R, <<x, y, z>>, a, b)
<1> DEFINE f == [i \in 1..4 |-> IF i = 1 THEN a ELSE IF i = 2 THEN c ELSE IF i = 3 THEN d ELSE b]
           s == <<x, y, z>>
<1>1. Len(s) = 3 /\ s[1] = x /\ s[2] = y /\ s[3] = z
    OBVIOUS
<1>2. f \in [1..4 -> Place] /\ f[1] = a /\ f[2] = c /\ f[3] = d /\ f[4] = b
    OBVIOUS
<1> HIDE DEF f, s
<1>3. \A i \in 1..3 : <<s[i], f[i], f[i + 1]>> \in R
    <2>1. \A i \in 1..3 : (i = 1 /\ i + 1 = 2) \/ (i = 2 /\ i + 1 = 3) \/ (i = 3 /\ i + 1 = 4)
        OBVIOUS
    <2> QED BY <1>1, <1>2, <2>1
<1>4. Len(s) + 1 = 4 /\ Len(s) = 3 /\ f[Len(s) + 1] = b
    BY <1>1, <1>2
<1>5. Path(R, s, a, b)
    BY <1>2, <1>3, <1>4 DEF Path
<1> QED BY <1>5 DEF s

\* The handlers of a combination within the system.
LEMMA CombineHandlers ==
    ASSUME NEW S, NEW g, NEW sig \in {"COMBINE", "COMBINE_LOCAL_AND_GLOBAL"}, NEW a, NEW b,
           <<sig, a, b>> \in SignalWays(S, g)
    PROVE  /\ HandlerOf(sig) \in Seq(Handled)
           /\ Path(StepWays(S, g), HandlerOf(sig), a, b)
<1> DEFINE R == StepWays(S, g)
           c == <<a[1], "hierarchical">>
           d == <<a[1] + 1, "hierarchical">>
<1>1. sig \notin ThirdLevelCommands
    BY DEF ThirdLevelCommands
<1>2. /\ a \in Place /\ b \in Place /\ Calls(S, "reduceGlobal", a, b) /\ a[2] = "nodal"
      /\ sig = "COMBINE_LOCAL_AND_GLOBAL" => b[2] = "hierarchical"
      /\ sig = "COMBINE" => b[2] = "nodal"
    BY <1>1, SignalFacts, CollectiveTable
<1>3. a[1] \in Nat /\ a = <<a[1], "nodal">> /\ c \in Place /\ d \in Place
    <2>1. a[1] \in Nat /\ a[1] + 1 \in Nat /\ a = <<a[1], "nodal">> /\ "hierarchical" \in Form
        BY <1>2, PlaceParts DEF Form
    <2> QED BY <2>1, PlaceParts
<1>4. a[1] < Len(S) /\ S[a[1] + 1] = "reduceGlobal" /\ b[1] = a[1] + 1
    BY <1>2 DEF Calls
<1>5. b = <<a[1] + 1, b[2]>>
    BY <1>2, <1>4, PlaceParts
<1>6. <<"reduceLocal", a, c>> \in R /\ <<"distribute", d, <<a[1] + 1, "nodal">>>> \in R
    <2>1. a[1] + 1 \in Nat
        BY <1>3
    <2> DEFINE n == a[1]
    <2>2. <<"reduceLocal", <<n, "nodal">>, <<n, "hierarchical">>>> \in R
        BY <1>3, TransformWays
    <2>3. <<"distribute", <<n + 1, "hierarchical">>, <<n + 1, "nodal">>>> \in R
        BY <2>1, TransformWays
    <2> QED BY <1>3, <2>2, <2>3
<1>7. <<"reduceGlobal", c, d>> \in R
    <2>1. "reduceGlobal" \in Handled \ (Local \cup Transforms) /\ CollectiveOf("reduceGlobal") = "reduceGlobal"
        BY StepTable
    <2>2. Calls(S, "reduceGlobal", c, d) /\ d[2] = c[2]
        BY <1>4 DEF Calls
    <2> HIDE DEF c, d
    <2> QED BY <1>3, <2>1, <2>2, CollectiveWays
<1>8. "reduceLocal" \in Handled /\ "reduceGlobal" \in Handled /\ "distribute" \in Handled
    BY StepTable DEF Transforms
<1> HIDE DEF R, c
<1> HIDE DEF d
<1>9. CASE sig = "COMBINE_LOCAL_AND_GLOBAL"
    <2>1. b = d
        BY <1>2, <1>5, <1>9 DEF d
    <2>2. HandlerOf(sig) = <<"reduceLocal", "reduceGlobal">> /\ <<"reduceLocal", "reduceGlobal">> \in Seq(Handled)
        <3>1. <<"reduceLocal", "reduceGlobal">> \in Seq(Handled)
            BY <1>8
        <3> QED BY <1>9, <3>1, HandlerTable
    <2>3. Path(R, <<"reduceLocal", "reduceGlobal">>, a, b)
        BY <1>2, <1>3, <1>6, <1>7, <2>1, PathTwo
    <2> QED BY <2>2, <2>3 DEF R
<1>10. CASE sig = "COMBINE"
    <2>1. b = <<a[1] + 1, "nodal">>
        BY <1>2, <1>5, <1>10
    <2>2. HandlerOf(sig) = <<"reduceLocal", "reduceGlobal", "distribute">> /\ <<"reduceLocal", "reduceGlobal", "distribute">> \in Seq(Handled)
        <3>1. <<"reduceLocal", "reduceGlobal", "distribute">> \in Seq(Handled)
            BY <1>8
        <3> QED BY <1>10, <3>1, HandlerTable
    <2>3. <<"distribute", d, b>> \in R
        BY <1>6, <2>1
    <2>4. Path(R, <<"reduceLocal", "reduceGlobal", "distribute">>, a, b)
        BY <1>2, <1>3, <1>6, <1>7, <2>3, PathThree
    <2> QED BY <2>2, <2>4 DEF R
<1> QED BY <1>9, <1>10

\* The handlers of a combination with the remote system.
LEMMA ThirdLevelHandlers ==
    ASSUME NEW S, NEW g, NEW sig \in ThirdLevelCommands, NEW a, NEW b,
           <<sig, a, b>> \in SignalWays(S, g)
    PROVE  /\ HandlerOf(sig) \in Seq(Handled)
           /\ Path(StepWays(S, g), HandlerOf(sig), a, b)
<1> DEFINE R == StepWays(S, g)
           n == a[1] + 1
           d == <<n, "hierarchical">>
           Goal == HandlerOf(sig) \in Seq(Handled) /\ Path(R, HandlerOf(sig), a, b)
<1> SUFFICES Goal
    OBVIOUS
<1>1. /\ a \in Place /\ b \in Place /\ Calls(S, "dsg", a, b) /\ a[2] = "hierarchical" /\ b[2] = "nodal"
      /\ sig \in Roots => g = TLGroup
      /\ sig \in Leaves => g # TLGroup
    BY SignalFacts, CollectiveTable
<1>2. a[1] < Len(S) /\ S[a[1] + 1] = "dsg" /\ b[1] = a[1] + 1
    BY <1>1 DEF Calls
<1>3. a[1] \in Nat /\ n \in Nat /\ d \in Place /\ b = <<n, "nodal">>
    BY <1>1, <1>2, PlaceParts DEF Form
<1>4. Calls(S, "dsg", a, d) /\ d[2] = a[2]
    BY <1>1, <1>2 DEF Calls
<1>5. ASSUME NEW s \in Seq(Handled), NEW t \in Seq(Handled), NEW k \in 1..Len(s),
             \A i \in 1..Len(s) : i # k => s[i] \in Local,
             s[k] \in {"bcastDsg", "takeDsg"}, s[k] = "bcastDsg" <=> g = TLGroup,
             Len(t) # 0, t[1] = "distribute", \A i \in 1..Len(t) : i # 1 => t[i] \in Local,
             HandlerOf(sig) = s \o t
      PROVE  Goal
    <2>1. s[k] \in Handled \ (Local \cup Transforms) /\ CollectiveOf(s[k]) = "dsg"
        BY <1>5, StepTable
    <2> HIDE DEF d
    <2>2. <<s[k], a, d>> \in R
        BY <1>1, <1>3, <1>4, <1>5, <2>1, CollectiveWays
    <2> HIDE DEF n, R
    <2>3. Path(R, s \o t, a, <<n, "nodal">>)
        BY <1>1, <1>3, <1>5, <2>2, ThenDistribute DEF d, R
    <2>4. s \o t \in Seq(Handled)
        BY ConcatParts
    <2> QED BY <1>3, <1>5, <2>3, <2>4
<1>6. {"sendDsg", "recvDsg", "waitBcast", "write", "readReduce", "removeToken"} \subseteq Local
      /\ "distribute" \in Handled /\ "bcastDsg" \in Handled /\ "takeDsg" \in Handled
      /\ \A x \in Local : x \in Handled
    BY StepTable DEF Local, Handled, Transforms
<1>7. CASE sig = "COMBINE_THIRD_LEVEL"
    <2> DEFINE s == <<"sendDsg", "recvDsg", "bcastDsg">>
               t == <<"distribute", "waitBcast">>
               k == 3
    <2>1. HandlerOf(sig) = s \o t
        BY <1>7, HandlerTable
    <2>2. g = TLGroup
        BY <1>1, <1>7 DEF Roots
    <2>3. s \in Seq(Handled) /\ k \in 1..Len(s) /\ s[k] = "bcastDsg"
          /\ \A i \in 1..Len(s) : i # k => s[i] \in Local
        BY <1>6
    <2>4. t \in Seq(Handled) /\ Len(t) # 0 /\ t[1] = "distribute"
          /\ \A i \in 1..Len(t) : i # 1 => t[i] \in Local
        BY <1>6
    <2> HIDE DEF s, t, k, Goal
    <2> QED BY <1>5, <2>1, <2>2, <2>3, <2>4
<1>8. CASE sig = "WAIT_FOR_TL_COMBI_RESULT"
    <2> DEFINE s == <<"takeDsg">>
               t == <<"distribute">>
               k == 1
    <2>1. HandlerOf(sig) = s \o t
        BY <1>8, HandlerTable
    <2>2. g # TLGroup
        BY <1>1, <1>8 DEF Leaves
    <2>3. s \in Seq(Handled) /\ k \in 1..Len(s) /\ s[k] = "takeDsg"
          /\ \A i \in 1..Len(s) : i # k => s[i] \in Local
        BY <1>6
    <2>4. t \in Seq(Handled) /\ Len(t) # 0 /\ t[1] = "distribute"
          /\ \A i \in 1..Len(t) : i # 1 => t[i] \in Local
        BY <1>6
    <2> HIDE DEF s, t, k, Goal
    <2> QED BY <1>5, <2>1, <2>2, <2>3, <2>4
<1>9. CASE sig = "COMBINE_READ_DSGS_AND_REDUCE"
    <2> DEFINE s == <<"readReduce", "bcastDsg">>
               t == <<"distribute", "removeToken", "waitBcast">>
               k == 2
    <2>1. HandlerOf(sig) = s \o t
        BY <1>9, HandlerTable
    <2>2. g = TLGroup
        BY <1>1, <1>9 DEF Roots
    <2>3. s \in Seq(Handled) /\ k \in 1..Len(s) /\ s[k] = "bcastDsg"
          /\ \A i \in 1..Len(s) : i # k => s[i] \in Local
        BY <1>6
    <2>4. t \in Seq(Handled) /\ Len(t) # 0 /\ t[1] = "distribute"
          /\ \A i \in 1..Len(t) : i # 1 => t[i] \in Local
        BY <1>6
    <2> HIDE DEF s, t, k, Goal
    <2> QED BY <1>5, <2>1, <2>2, <2>3, <2>4
<1>10. CASE sig = "COMBINE_THIRD_LEVEL_FILE"
    <2> DEFINE s == <<"write", "readReduce", "bcastDsg">>
               t == <<"distribute", "removeToken", "waitBcast">>
               k == 3
    <2>1. HandlerOf(sig) = s \o t
        BY <1>10, HandlerTable
    <2>2. g = TLGroup
        BY <1>1, <1>10 DEF Roots
    <2>3. s \in Seq(Handled) /\ k \in 1..Len(s) /\ s[k] = "bcastDsg"
          /\ \A i \in 1..Len(s) : i # k => s[i] \in Local
        BY <1>6
    <2>4. t \in Seq(Handled) /\ Len(t) # 0 /\ t[1] = "distribute"
          /\ \A i \in 1..Len(t) : i # 1 => t[i] \in Local
        BY <1>6
    <2> HIDE DEF s, t, k, Goal
    <2> QED BY <1>5, <2>1, <2>2, <2>3, <2>4
<1> QED BY <1>7, <1>8, <1>9, <1>10 DEF ThirdLevelCommands

\* A handler does what its command does, and those of the commands that need nodal values
\* do not transform the grids.
LEMMA HandlerPath ==
    ASSUME NEW S, NEW g, NEW sig \in PG!Signals, NEW a, NEW b, <<sig, a, b>> \in SignalWays(S, g)
    PROVE  /\ HandlerOf(sig) \in Seq(Handled)
           /\ Path(StepWays(S, g), HandlerOf(sig), a, b)
           /\ sig \in NeedNodal => \A i \in 1..Len(HandlerOf(sig)) : HandlerOf(sig)[i] \notin Transforms
<1>1. sig \in NeedNodal => sig \notin {"COMBINE", "COMBINE_LOCAL_AND_GLOBAL"} \cup ThirdLevelCommands
    BY DEF NeedNodal, NodalUsers, ThirdLevelCommands, PG!NormSignals
<1>2. CASE sig \in {"COMBINE", "COMBINE_LOCAL_AND_GLOBAL"}
    BY <1>1, <1>2, CombineHandlers
<1>3. CASE sig \in ThirdLevelCommands
    BY <1>1, <1>3, ThirdLevelHandlers
<1>4. CASE sig \notin {"COMBINE", "COMBINE_LOCAL_AND_GLOBAL"} \cup ThirdLevelCommands
    BY <1>4, QuietHandlers
<1> QED BY <1>2, <1>3, <1>4

-----------------------------------------------------------------------------
\* The ways of the methods.

CommandWays(S, g) ==
    {w \in PG!Command \X Place \X Place : <<w[1].sig, w[2], w[3]>> \in SignalWays(S, g)}

\* The command a step of a method sends to a group; "assign" may send it to another one, and
\* "runNext" may send none.
Sent(s, g) ==
    CASE s.do = "assign" -> "RUN_FIRST"
      [] s.do = "add" /\ s.group = g -> "RESCHEDULE_ADD_TASK"
      [] s.do = "remove" /\ s.group = g -> "RESCHEDULE_REMOVE_TASK"
      [] s.do = "runNext" /\ s.group = g -> "RUN_NEXT"
      [] s.do = "exit" /\ s.group = g -> "EXIT"
      [] s.do \in {"send", "sendUnchecked", "norms"} /\ s.group = g -> s.sig
      [] OTHER -> "none"

TodoWays(S, g) ==
    {w \in StepType \X Place \X Place : <<Sent(w[1], g), w[2], w[3]>> \in SignalWays(S, g)}

\* The steps that take a group from a to b.
Goes(S, g, a, b) == {s \in Seq(StepType) : Path(TodoWays(S, g), s, a, b)}

\* The commands that leave the place as it is.
LEMMA StillSignals ==
    ASSUME NEW S, NEW g, NEW a \in Place, NEW sig \in PG!Signals \cup {"none"},
           CollectiveIn(sig) = "none", sig \notin {"ADD_TASK", "RECOMPUTE"},
           sig \in NeedNodal => a[2] = "nodal"
    PROVE  <<sig, a, a>> \in SignalWays(S, g)
<1>1. /\ sig \notin Roots /\ sig \notin Leaves /\ sig \notin ThirdLevelCommands
      /\ sig \notin {"COMBINE", "COMBINE_LOCAL_AND_GLOBAL"}
    <2>1. "reduceGlobal" # "none" /\ "dsg" # "none" /\ "sizes" # "none"
        OBVIOUS
    <2>2. Roots \cup Leaves \subseteq
            ThirdLevelCommands \cup {"REDUCE_SUBSPACE_SIZES_TL", "WAIT_FOR_TL_SIZE_UPDATE"}
        BY DEF Roots, Leaves, ThirdLevelCommands
    <2> QED BY <2>1, <2>2, CollectiveTable
<1>2. Calls(S, CollectiveIn(sig), a, a)
    BY DEF Calls
<1> DEFINE w == <<sig, a, a>>
<1>3. w[1] = sig /\ w[2] = a /\ w[3] = a /\ w \in (PG!Signals \cup {"none"}) \X Place \X Place
    OBVIOUS
<1> HIDE DEF w
<1>4. w \in SignalWays(S, g)
    BY <1>1, <1>2, <1>3 DEF SignalWays
<1> QED BY <1>4 DEF w

\* No command.
LEMMA NoSignal ==
    ASSUME NEW S, NEW g, NEW a, NEW b
    PROVE  <<"none", a, b>> \in SignalWays(S, g) <=> a = b /\ a \in Place
<1>1. "none" \notin NeedNodal /\ "none" \notin ThirdLevelCommands
    BY DEF NeedNodal, NodalUsers, ThirdLevelCommands, PG!NormSignals
<1>2. CollectiveIn("none") = "none"
    BY NoCollective, <1>1 DEF Interpolations
<1>3. a \in Place => <<"none", a, a>> \in SignalWays(S, g)
    BY <1>1, <1>2, StillSignals
<1>4. ASSUME <<"none", a, b>> \in SignalWays(S, g) PROVE a = b /\ a \in Place
    <2>1. a \in Place /\ b \in Place /\ a[2] = b[2] /\ Calls(S, "none", a, b)
        BY <1>1, <1>2, <1>4, SignalFacts
    <2> QED BY <2>1, PlaceParts DEF Calls
<1> QED BY <1>3, <1>4

\* The steps that send the group nothing.
LEMMA StillSteps ==
    ASSUME NEW S, NEW g, NEW s \in StepType, NEW a \in Place, Sent(s, g) = "none"
    PROVE  <<s, a, a>> \in TodoWays(S, g)
BY NoSignal DEF TodoWays

LEMMA GoesThen ==
    ASSUME NEW S, NEW g, NEW a, NEW b, NEW c, NEW s \in Goes(S, g, a, c), NEW t \in Goes(S, g, c, b)
    PROVE  s \o t \in Goes(S, g, a, b)
<1>1. s \in Seq(StepType) /\ t \in Seq(StepType)
    BY DEF Goes
<1>2. s \o t \in Seq(StepType)
    BY <1>1, ConcatParts
<1>3. Path(TodoWays(S, g), s, a, c) /\ Path(TodoWays(S, g), t, c, b)
    BY DEF Goes
<1>4. Path(TodoWays(S, g), s \o t, a, b)
    BY <1>1, <1>3, PathConcat
<1> QED BY <1>2, <1>4 DEF Goes

\* Steps that leave the place as it is.
LEMMA GoesStill ==
    ASSUME NEW S, NEW g, NEW s \in Seq(StepType), NEW a \in Place,
           \A i \in 1..Len(s) : <<Sent(s[i], g), a, a>> \in SignalWays(S, g)
    PROVE  s \in Goes(S, g, a, a)
<1>1. \A i \in 1..Len(s) : <<s[i], a, a>> \in TodoWays(S, g)
    BY ElementOfSeq DEF TodoWays
<1>2. Path(TodoWays(S, g), s, a, a)
    BY <1>1, PathStill
<1> QED BY <1>2 DEF Goes

\* Steps that send the group nothing.
LEMMA GoesNowhere ==
    ASSUME NEW S, NEW g, NEW s \in Seq(StepType), NEW a \in Place, \A i \in 1..Len(s) : Sent(s[i], g) = "none"
    PROVE  s \in Goes(S, g, a, a)
BY NoSignal, GoesStill

\* Steps of which one sends the group its command.
LEMMA GoesOnce ==
    ASSUME NEW S, NEW g, NEW s \in Seq(StepType), NEW a \in Place, NEW b \in Place, NEW k \in 1..Len(s),
           <<Sent(s[k], g), a, b>> \in SignalWays(S, g),
           \A i \in 1..Len(s) : i # k => Sent(s[i], g) = "none"
    PROVE  s \in Goes(S, g, a, b)
<1>1. <<s[k], a, b>> \in TodoWays(S, g)
    BY ElementOfSeq DEF TodoWays
<1>2. \A i \in 1..Len(s) : i # k => <<s[i], a, a>> \in TodoWays(S, g) /\ <<s[i], b, b>> \in TodoWays(S, g)
    BY ElementOfSeq, StillSteps
<1>3. Path(TodoWays(S, g), s, a, b)
    BY <1>1, <1>2, PathOnce
<1> QED BY <1>3 DEF Goes

\* The kinds of steps that are made of parts.
LEMMA StepParts ==
    ASSUME NEW do \in Kinds, NEW h \in Groups \cup {None}, NEW sig \in Sigs, NEW t \in Tasks \cup {None}
    PROVE  LET s == Step(do, h, sig, t)
           IN  s \in StepType /\ s.do = do /\ s.group = h /\ s.sig = sig /\ s.task = t
BY DEF Step, StepType

\* The kinds that send no command.
LEMMA SilentSteps ==
    ASSUME NEW s \in StepType, NEW g,
           s.do \notin {"assign", "add", "remove", "runNext", "exit", "send", "sendUnchecked", "norms"}
    PROVE  Sent(s, g) = "none"
BY DEF Sent

\* One step that sends the group nothing.
LEMMA OneSilent ==
    ASSUME NEW S, NEW g, NEW s \in StepType, NEW a \in Place, Sent(s, g) = "none"
    PROVE  <<s>> \in Goes(S, g, a, a)
<1> DEFINE q == <<s>>
<1>1. q \in Seq(StepType) /\ Len(q) = 1 /\ q[1] = s
    OBVIOUS
<1>2. \A i \in 1..1 : i = 1
    OBVIOUS
<1> HIDE DEF q
<1>3. q \in Goes(S, g, a, a)
    BY <1>1, <1>2, GoesNowhere
<1> QED BY <1>3 DEF q

\* The manager waits.
LEMMA Waits ==
    ASSUME NEW S, NEW g, NEW a \in Place
    PROVE  /\ WaitAll \in Goes(S, g, a, a) /\ FetchInstruction \in Goes(S, g, a, a)
           /\ \A h \in Groups : WaitFor(h) \in Goes(S, g, a, a)
<1>1. {"waitAll", "fetchInstruction", "waitFor"} \subseteq Kinds /\ None \in Sigs
    BY SigsIn DEF Kinds, PlainKinds
<1>2. ASSUME NEW do \in {"waitAll", "fetchInstruction", "waitFor"}, NEW h \in Groups \cup {None}
      PROVE  <<Step(do, h, None, None)>> \in Goes(S, g, a, a)
    <2> DEFINE s == Step(do, h, None, None)
    <2>1. s \in StepType /\ s.do = do
        BY <1>1, StepParts
    <2> HIDE DEF s
    <2>2. Sent(s, g) = "none"
        BY <2>1, SilentSteps
    <2>3. <<s>> \in Goes(S, g, a, a)
        BY <2>1, <2>2, OneSilent
    <2> QED BY <2>3 DEF s
<1> QED BY <1>2 DEF WaitAll, FetchInstruction, WaitFor

SendKinds == {"send", "sendUnchecked", "norms"}

\* The steps that send a command.
LEMMA SendSteps ==
    ASSUME NEW kind \in SendKinds, NEW h \in Groups, NEW sig \in Sigs, NEW g
    PROVE  LET s == Step(kind, h, sig, None)
           IN  s \in StepType /\ s.group = h /\ Sent(s, g) = IF h = g THEN sig ELSE "none"
<1> DEFINE s == Step(kind, h, sig, None)
<1>1. s \in StepType /\ s.do = kind /\ s.group = h /\ s.sig = sig
    BY StepParts DEF SendKinds, Kinds, PlainKinds
<1> HIDE DEF s
<1>2. Sent(s, g) = IF h = g THEN sig ELSE "none"
    BY <1>1 DEF Sent, SendKinds
<1> QED BY <1>1, <1>2 DEF s

\* One command to one group.
LEMMA OneSend ==
    ASSUME NEW S, NEW g, NEW kind \in SendKinds, NEW h \in Groups, NEW sig \in Sigs,
           NEW a \in Place, NEW b \in Place,
           IF h = g THEN <<sig, a, b>> \in SignalWays(S, g) ELSE a = b
    PROVE  <<Step(kind, h, sig, None)>> \in Goes(S, g, a, b)
<1> DEFINE s == Step(kind, h, sig, None)
           q == <<s>>
<1>1. s \in StepType /\ Sent(s, g) = IF h = g THEN sig ELSE "none"
    BY SendSteps
<1> HIDE DEF s
<1>2. q \in Seq(StepType) /\ Len(q) = 1 /\ q[1] = s
    BY <1>1
<1>3. <<Sent(s, g), a, b>> \in SignalWays(S, g)
    BY <1>1, NoSignal
<1>4. \A i \in 1..1 : i = 1
    OBVIOUS
<1> HIDE DEF q
<1>5. 1 \in 1..Len(q) /\ \A i \in 1..Len(q) : i # 1 => Sent(q[i], g) = "none"
    BY <1>2, <1>4
<1>6. q \in Goes(S, g, a, b)
    BY <1>2, <1>3, <1>5, GoesOnce
<1> QED BY <1>6 DEF q, s

\* A command to every group.
LEMMA EveryGroup ==
    ASSUME NEW S, NEW g \in Groups, NEW q \in [Groups -> StepType], NEW sig,
           NEW a \in Place, NEW b \in Place, <<sig, a, b>> \in SignalWays(S, g),
           \A h \in Groups : Sent(q[h], g) = IF h = g THEN sig ELSE "none"
    PROVE  q \in Goes(S, g, a, b)
<1>1. NumGroups \in Nat /\ Groups = 1..NumGroups
    BY ManagerAssumption DEF Groups
<1>2. q \in Seq(StepType) /\ Len(q) = NumGroups
    BY <1>1
<1>3. g \in 1..Len(q) /\ Sent(q[g], g) = sig /\ \A i \in 1..Len(q) : i # g => Sent(q[i], g) = "none"
    BY <1>1, <1>2
<1> QED BY <1>2, <1>3, GoesOnce

\* A command to all groups, with the waits before and after.
LEMMA RoundWays ==
    ASSUME NEW S, NEW g \in Groups, NEW sig \in Sigs, NEW a \in Place, NEW b \in Place,
           <<sig, a, b>> \in SignalWays(S, g)
    PROVE  WaitAll \o CommandAll(sig) \o WaitAll \in Goes(S, g, a, b)
<1> DEFINE q == CommandAll(sig)
<1>1. \A h \in Groups : q[h] = Step("send", h, sig, None)
    BY DEF CommandAll, Command
<1>2. \A h \in Groups : q[h] \in StepType /\ Sent(q[h], g) = IF h = g THEN sig ELSE "none"
    BY <1>1, SendSteps DEF SendKinds
<1>3. q \in [Groups -> StepType]
    BY <1>2 DEF CommandAll
<1> HIDE DEF q
<1>4. q \in Goes(S, g, a, b)
    BY <1>2, <1>3, EveryGroup
<1>5. WaitAll \in Goes(S, g, a, a) /\ WaitAll \in Goes(S, g, b, b)
    BY Waits
<1>6. WaitAll \o q \in Goes(S, g, a, b)
    BY <1>4, <1>5, GoesThen
<1>7. WaitAll \o q \o WaitAll \in Goes(S, g, a, b)
    BY <1>5, <1>6, GoesThen
<1> QED BY <1>7 DEF q

\* The rounds of runnext and exit.
LEMMA StepRoundWays ==
    ASSUME NEW S, NEW g \in Groups, NEW a \in Place, NEW do, NEW sig,
           <<do, sig>> \in {<<"runNext", "RUN_NEXT">>, <<"exit", "EXIT">>},
           <<sig, a, a>> \in SignalWays(S, g)
    PROVE  [h \in Groups |-> Step(do, h, sig, None)] \in Goes(S, g, a, a)
<1> DEFINE q == [h \in Groups |-> Step(do, h, sig, None)]
<1>1. do \in {"runNext", "exit"} /\ do \in Kinds /\ sig \in Sigs
      /\ (do = "runNext" => sig = "RUN_NEXT") /\ (do = "exit" => sig = "EXIT")
    BY SigsIn DEF Kinds, PlainKinds
<1>2. ASSUME NEW h \in Groups PROVE q[h] \in StepType /\ Sent(q[h], g) = IF h = g THEN sig ELSE "none"
    <2> DEFINE s == Step(do, h, sig, None)
    <2>1. s \in StepType /\ s.do = do /\ s.group = h /\ q[h] = s
        BY <1>1, StepParts
    <2> HIDE DEF s
    <2>2. Sent(s, g) = IF h = g THEN sig ELSE "none"
        BY <1>1, <2>1 DEF Sent
    <2> HIDE DEF q
    <2> QED BY <2>1, <2>2
<1>3. q \in [Groups -> StepType]
    BY <1>2
<1> HIDE DEF q
<1>4. q \in Goes(S, g, a, a)
    BY <1>2, <1>3, EveryGroup
<1> QED BY <1>4 DEF q

\* A command to the third level group.
LEMMA ThirdLevelWays ==
    ASSUME NEW S, NEW g \in Groups, NEW sig \in Sigs, NEW a \in Place, NEW b \in Place,
           IF TLGroup = g THEN <<sig, a, b>> \in SignalWays(S, g) ELSE a = b
    PROVE  CommandTLGroup(sig) \in Goes(S, g, a, b)
<1>1. TLGroup \in Groups
    BY ManagerAssumption
<1> DEFINE s == <<Command(TLGroup, sig)>>
<1>2. s \in Goes(S, g, a, b)
    BY <1>1, OneSend DEF Command, SendKinds
<1> HIDE DEF s
<1>3. WaitFor(TLGroup) \in Goes(S, g, a, a) /\ WaitFor(TLGroup) \in Goes(S, g, b, b)
    BY <1>1, Waits
<1>4. WaitFor(TLGroup) \o s \in Goes(S, g, a, b)
    BY <1>2, <1>3, GoesThen
<1>5. WaitFor(TLGroup) \o s \o WaitFor(TLGroup) \in Goes(S, g, a, b)
    BY <1>3, <1>4, GoesThen
<1> QED BY <1>5 DEF CommandTLGroup, s

\* Every group but the third level group is one of the others.
LEMMA OthersAll ==
    ASSUME NEW g \in Groups, g # TLGroup
    PROVE  \E k \in 1..(NumGroups - 1) : Others[k] = g /\ \A i \in 1..(NumGroups - 1) : i # k => Others[i] # g
<1>1. NumGroups \in Nat \ {0} /\ TLGroup \in 1..NumGroups /\ g \in 1..NumGroups
    BY ManagerAssumption DEF Groups
<1> DEFINE k == IF g < TLGroup THEN g ELSE g - 1
<1>2. k \in 1..(NumGroups - 1) /\ Others[k] = g
    BY <1>1 DEF Others
<1> HIDE DEF k
<1> QED BY <1>2, OthersRight

\* The others learn their sizes.
LEMMA TellSizesWays ==
    ASSUME NEW S, NEW g \in Groups, NEW a \in Place, NEW b \in Place,
           IF g # TLGroup THEN <<"WAIT_FOR_TL_SIZE_UPDATE", a, b>> \in SignalWays(S, g) ELSE a = b
    PROVE  TellOthersSizes \in Goes(S, g, a, b)
<1> DEFINE q == TellOthersSizes
           n == NumGroups - 1
           sig == "WAIT_FOR_TL_SIZE_UPDATE"
<1>1. n \in Nat /\ DOMAIN Others = 1..n /\ \A i \in 1..n : Others[i] \in Groups /\ Others[i] # TLGroup
    BY OthersRight, ManagerAssumption
<1>2. \A i \in 1..n : q[i] = Step("send", Others[i], sig, None)
    BY <1>1 DEF TellOthersSizes, Command
<1>3. sig \in Sigs
    BY SigsIn DEF PG!CheckedSignals
<1>4. \A i \in 1..n : q[i] \in StepType /\ Sent(q[i], g) = IF Others[i] = g THEN sig ELSE "none"
    BY <1>1, <1>2, <1>3, SendSteps DEF SendKinds
<1>5. q = [i \in 1..n |-> q[i]]
    BY <1>1 DEF TellOthersSizes
<1> HIDE DEF q, n
<1>6. q \in [1..n -> StepType]
    BY <1>4, <1>5
<1>7. q \in Seq(StepType) /\ Len(q) = n
    BY <1>1, <1>6
<1>8. CASE g = TLGroup
    <2>1. \A i \in 1..n : Sent(q[i], g) = "none"
        BY <1>1, <1>4, <1>8
    <2>2. q \in Goes(S, g, a, a)
        BY <1>7, <2>1, GoesNowhere
    <2> QED BY <1>8, <2>2 DEF q
<1>9. CASE g # TLGroup
    <2>1. PICK k \in 1..n : Others[k] = g /\ \A i \in 1..n : i # k => Others[i] # g
        BY <1>9, OthersAll DEF n
    <2>2. Sent(q[k], g) = sig /\ \A i \in 1..n : i # k => Sent(q[i], g) = "none"
        BY <1>4, <2>1
    <2>3. q \in Goes(S, g, a, b)
        BY <1>7, <1>9, <2>1, <2>2, GoesOnce
    <2> QED BY <2>3 DEF q
<1> QED BY <1>8, <1>9

\* Parts that follow each other.
LEMMA FlattenGoes ==
    ASSUME NEW S, NEW g, NEW m \in Nat, NEW ss \in [1..m -> Seq(StepType)], NEW p \in [1..(m + 1) -> Place],
           \A i \in 1..m : ss[i] \in Goes(S, g, p[i], p[i + 1])
    PROVE  FlattenSeq(ss) \in Goes(S, g, p[1], p[m + 1])
<1>1. Len(ss) = m /\ ss \in Seq(Seq(StepType))
    OBVIOUS
<1>2. CASE m = 0
    <2>1. ss = <<>>
        BY <1>2
    <2>2. FlattenSeq(ss) = <<>>
        BY <2>1, FlattenEmpty
    <2>3. p[m + 1] = p[1] /\ p[1] \in Place /\ <<>> \in Seq(StepType)
        BY <1>2
    <2>4. <<>> \in Goes(S, g, p[1], p[1])
        BY <2>3, PathEmpty DEF Goes
    <2> QED BY <2>2, <2>3, <2>4
<1>3. CASE m # 0
    <2>1. PICK f : /\ \A i \in 1..m : f[i] = IF i = 1 THEN ss[i] ELSE f[i - 1] \o ss[i]
                   /\ FlattenSeq(ss) = f[m]
        BY <1>1, <1>3, FlattenUnfolds
    <2> DEFINE I == {i \in Nat : i \in 1..m => f[i] \in Goes(S, g, p[1], p[i + 1])}
    <2>2. 0 \in I
        OBVIOUS
    <2>3. ASSUME NEW n \in Nat, n \in I PROVE n + 1 \in I
        <3> SUFFICES ASSUME n + 1 \in 1..m PROVE f[n + 1] \in Goes(S, g, p[1], p[(n + 1) + 1])
            OBVIOUS
        <3>1. CASE n = 0
            <4>1. f[1] = ss[1] /\ 1 \in 1..m /\ n + 1 = 1
                BY <2>1, <3>1
            <4> QED BY <4>1
        <3>2. CASE n # 0
            <4>1. n \in 1..m /\ n + 1 # 1 /\ (n + 1) - 1 = n
                BY <3>2
            <4>2. f[n] \in Goes(S, g, p[1], p[n + 1])
                BY <2>3, <4>1
            <4>3. f[n + 1] = f[n] \o ss[n + 1]
                BY <2>1, <4>1
            <4>4. ss[n + 1] \in Goes(S, g, p[n + 1], p[(n + 1) + 1])
                OBVIOUS
            <4> HIDE DEF I
            <4> QED BY <4>2, <4>3, <4>4, GoesThen
        <3> QED BY <3>1, <3>2
    <2> HIDE DEF I
    <2>4. Nat \subseteq I
        BY <2>2, <2>3, NatInd
    <2>5. m \in 1..m
        BY <1>3
    <2> QED BY <2>1, <2>4, <2>5 DEF I
<1> QED BY <1>2, <1>3

\* Parts that leave the place as it is.
LEMMA FlattenStill ==
    ASSUME NEW S, NEW g, NEW a \in Place, NEW m \in Nat, NEW ss \in [1..m -> Seq(StepType)],
           \A i \in 1..m : ss[i] \in Goes(S, g, a, a)
    PROVE  FlattenSeq(ss) \in Goes(S, g, a, a)
<1> DEFINE p == [i \in 1..(m + 1) |-> a]
<1>1. p \in [1..(m + 1) -> Place] /\ p[1] = a /\ p[m + 1] = a
    OBVIOUS
<1>2. \A i \in 1..m : p[i] = a /\ p[i + 1] = a
    OBVIOUS
<1> HIDE DEF p
<1>3. FlattenSeq(ss) \in Goes(S, g, p[1], p[m + 1])
    BY <1>1, <1>2, FlattenGoes
<1> QED BY <1>1, <1>3

\* The others are told of the combination result.
LEMMA TellWays ==
    ASSUME NEW S, NEW g \in Groups, NEW a \in Place, NEW b \in Place,
           IF g # TLGroup THEN <<"WAIT_FOR_TL_COMBI_RESULT", a, b>> \in SignalWays(S, g) ELSE a = b
    PROVE  TellOthers \in Goes(S, g, a, b)
<1> DEFINE m == NumGroups - 1
           sig == "WAIT_FOR_TL_COMBI_RESULT"
           ss == [i \in DOMAIN Others |-> WaitFor(Others[i]) \o <<Command(Others[i], sig)>>]
<1>1. m \in Nat /\ DOMAIN Others = 1..m /\ \A i \in 1..m : Others[i] \in Groups /\ Others[i] # TLGroup
    BY OthersRight, ManagerAssumption
<1>2. sig \in Sigs /\ "send" \in SendKinds
    BY SigsIn DEF PG!CheckedSignals, SendKinds
<1>3. ASSUME NEW i \in 1..m, NEW c \in Place, NEW d \in Place,
             IF Others[i] = g THEN <<sig, c, d>> \in SignalWays(S, g) ELSE c = d
      PROVE  WaitFor(Others[i]) \o <<Command(Others[i], sig)>> \in Goes(S, g, c, d)
    <2> DEFINE s == <<Command(Others[i], sig)>>
               w == WaitFor(Others[i])
    <2>1. s \in Goes(S, g, c, d)
        BY <1>1, <1>2, <1>3, OneSend DEF Command
    <2>2. w \in Goes(S, g, c, c)
        BY <1>1, Waits
    <2> HIDE DEF s, w
    <2>3. w \o s \in Goes(S, g, c, d)
        BY <2>1, <2>2, GoesThen
    <2> QED BY <2>3 DEF s, w
<1>4. \E k \in 1..(m + 1) : IF g = TLGroup THEN k = m + 1
                            ELSE k \in 1..m /\ Others[k] = g /\ \A i \in 1..m : i # k => Others[i] # g
    BY <1>1, OthersAll
<1>5. PICK k \in 1..(m + 1) : IF g = TLGroup THEN k = m + 1
                              ELSE k \in 1..m /\ Others[k] = g /\ \A i \in 1..m : i # k => Others[i] # g
    BY <1>4
<1> DEFINE p == [i \in 1..(m + 1) |-> IF i <= k THEN a ELSE b]
<1>6. p \in [1..(m + 1) -> Place] /\ p[1] = a /\ p[m + 1] = b
    <2>1. 1 \in 1..(m + 1) /\ m + 1 \in 1..(m + 1) /\ 1 <= k
        BY <1>1
    <2>2. g # TLGroup => ~(m + 1 <= k)
        BY <1>1, <1>5
    <2> QED BY <2>1, <2>2
<1>7. \A i \in 1..m : /\ p[i] \in Place /\ p[i + 1] \in Place
                      /\ i # k => p[i] = p[i + 1]
                      /\ i = k => p[i] = a /\ p[i + 1] = b
    BY <1>1
<1> HIDE DEF p, m
<1>8. \A i \in 1..m : ss[i] \in Goes(S, g, p[i], p[i + 1])
    <2> SUFFICES ASSUME NEW i \in 1..m PROVE ss[i] \in Goes(S, g, p[i], p[i + 1])
        OBVIOUS
    <2>1. ss[i] = WaitFor(Others[i]) \o <<Command(Others[i], sig)>>
        BY <1>1
    <2>2. IF Others[i] = g THEN <<sig, p[i], p[i + 1]>> \in SignalWays(S, g) ELSE p[i] = p[i + 1]
        <3>1. CASE Others[i] = g
            <4>1. i = k /\ g # TLGroup
                BY <1>1, <1>5, <3>1
            <4> QED BY <1>7, <3>1, <4>1
        <3>2. CASE Others[i] # g
            <4>1. i # k
                BY <1>1, <1>5, <3>2
            <4> QED BY <1>7, <3>2, <4>1
        <3> QED BY <3>1, <3>2
    <2> HIDE DEF ss
    <2> QED BY <1>3, <1>7, <2>1, <2>2
<1>9. DOMAIN ss = 1..m /\ ss = [i \in 1..m |-> ss[i]]
    BY <1>1
<1> HIDE DEF ss
<1>10. ss \in [1..m -> Seq(StepType)]
    BY <1>8, <1>9 DEF Goes
<1>11. FlattenSeq(ss) \in Goes(S, g, p[1], p[m + 1])
    BY <1>1, <1>6, <1>8, <1>10, FlattenGoes
<1> QED BY <1>6, <1>11 DEF TellOthers, ss

\* All groups interpolate, the last one first.
LEMMA InterpolationWays ==
    ASSUME NEW S, NEW g \in Groups, NEW a \in Place, NEW b \in Place,
           NEW first \in Interpolations,
           \A sig \in Interpolations : <<sig, a, b>> \in SignalWays(S, g)
    PROVE  InterpolateAll(first) \in Goes(S, g, a, b)
<1> DEFINE n == NumGroups - 1
           sig == "INTERPOLATE_VALUES"
           q == [h \in 1..n |-> Step("sendUnchecked", h, sig, None)]
           s == <<Step("sendUnchecked", NumGroups, first, None)>>
<1>1. n \in Nat /\ NumGroups \in Groups /\ Groups = 1..NumGroups /\ 1..n = Groups \ {NumGroups}
    BY ManagerAssumption DEF Groups
<1>2. first \in Sigs /\ sig \in Sigs /\ sig \in Interpolations /\ "sendUnchecked" \in SendKinds
    BY SigsIn DEF Interpolations, PG!UncheckedSignals, SendKinds
<1>3. \A h \in 1..n : q[h] \in StepType /\ Sent(q[h], g) = IF h = g THEN sig ELSE "none"
    BY <1>1, <1>2, SendSteps
<1>4. q \in [1..n -> StepType]
    BY <1>3
<1>5. q \in Seq(StepType) /\ Len(q) = n
    BY <1>1, <1>4
<1>6. CASE g = NumGroups
    <2>1. s \in Goes(S, g, a, b)
        BY <1>1, <1>2, <1>6, OneSend
    <2> HIDE DEF s, q, n
    <2>2. \A i \in 1..n : Sent(q[i], g) = "none"
        BY <1>1, <1>3, <1>6
    <2>3. q \in Goes(S, g, b, b)
        BY <1>5, <2>2, GoesNowhere
    <2>4. s \o q \in Goes(S, g, a, b)
        BY <2>1, <2>3, GoesThen
    <2> QED BY <2>4 DEF s, q, n, InterpolateAll
<1>7. CASE g # NumGroups
    <2>1. s \in Goes(S, g, a, a)
        BY <1>1, <1>2, <1>7, OneSend
    <2> HIDE DEF s, q, n
    <2>2. g \in 1..n /\ Sent(q[g], g) = sig /\ \A i \in 1..n : i # g => Sent(q[i], g) = "none"
        BY <1>1, <1>3, <1>7
    <2>3. q \in Goes(S, g, a, b)
        <3>1. <<Sent(q[g], g), a, b>> \in SignalWays(S, g)
            BY <1>2, <2>2
        <3> QED BY <1>5, <2>2, <3>1, GoesOnce
    <2>4. s \o q \in Goes(S, g, a, b)
        BY <2>1, <2>3, GoesThen
    <2> QED BY <2>4 DEF s, q, n, InterpolateAll
<1> QED BY <1>6, <1>7

\* The commands that transform no grids and call no collective, and those of them that need
\* nodal values.
StillAlways == {"UPDATE_COMBI_PARAMETERS", "PARALLEL_EVAL", "WRITE_DSGS_TO_DISK", "COMBINE_WRITE_DSGS",
                "WRITE_DSG_MINMAX_COEFFICIENTS", "REDUCE_SUBSPACE_SIZES_TL_AND_ALLOCATE_EXTRA_SG",
                "EXIT", "RESCHEDULE_REMOVE_TASK"}

StillNodal == {"RUN_FIRST", "RUN_NEXT", "GET_L2_NORM", "WRITE_INTERPOLATED_VALUES_PER_GRID",
               "RESCHEDULE_ADD_TASK"}

LEMMA StillCommands ==
    ASSUME NEW S, NEW g, NEW a \in Place,
           NEW sig \in StillAlways \cup StillNodal, sig \in StillNodal => a[2] = "nodal"
    PROVE  sig \in Sigs /\ <<sig, a, a>> \in SignalWays(S, g)
<1>1. sig \in PG!Signals /\ sig \in Sigs
    BY SigsIn DEF StillAlways, StillNodal, Sigs, PG!Signals, PG!CheckedSignals, PG!UncheckedSignals,
       PG!NormSignals, PG!TaskSignals
<1>2. sig \notin {"INIT_DSGUS", "COMBINE", "COMBINE_LOCAL_AND_GLOBAL", "REDUCE_SUBSPACE_SIZES_TL",
                  "WAIT_FOR_TL_SIZE_UPDATE"} \cup ThirdLevelCommands \cup Interpolations
    BY DEF StillAlways, StillNodal, ThirdLevelCommands, Interpolations
<1>3. sig \notin {"ADD_TASK", "RECOMPUTE"}
    BY DEF StillAlways, StillNodal
<1>4. sig \in NeedNodal => sig \in StillNodal
    BY DEF StillAlways, StillNodal, NeedNodal, NodalUsers, PG!NormSignals
<1>5. CollectiveIn(sig) = "none"
    BY <1>2, NoCollective
<1> QED BY <1>1, <1>3, <1>4, <1>5, StillSignals

\* One step, of a kind that sends a still command or none.
LEMMA OneStill ==
    ASSUME NEW S, NEW g, NEW s \in StepType, NEW a \in Place, <<Sent(s, g), a, a>> \in SignalWays(S, g)
    PROVE  <<s>> \in Goes(S, g, a, a)
<1> DEFINE q == <<s>>
<1>1. q \in Seq(StepType) /\ Len(q) = 1 /\ q[1] = s
    OBVIOUS
<1>2. \A i \in 1..1 : i = 1
    OBVIOUS
<1> HIDE DEF q
<1>3. q \in Goes(S, g, a, a)
    BY <1>1, <1>2, GoesStill
<1> QED BY <1>3 DEF q

\* Norms, and interpolated values per grid.
LEMMA EvaluationWays ==
    ASSUME NEW S, NEW g \in Groups, NEW a \in Place, a[2] = "nodal"
    PROVE  /\ Script("getLpNorms") \in Goes(S, g, a, a)
           /\ Script("writeInterpolatedValuesPerGrid") \in Goes(S, g, a, a)
<1>1. NumGroups \in Nat /\ Groups = 1..NumGroups
    BY ManagerAssumption DEF Groups
<1>2. /\ \A sig \in {"GET_L2_NORM", "WRITE_INTERPOLATED_VALUES_PER_GRID"} :
            sig \in Sigs /\ <<sig, a, a>> \in SignalWays(S, g)
      /\ "norms" \in SendKinds /\ "sendUnchecked" \in SendKinds
    BY StillCommands DEF StillAlways, StillNodal, SendKinds
<1>3. ASSUME NEW h \in Groups
      PROVE  <<Step("norms", h, "GET_L2_NORM", None), Step("reply", h, None, None)>> \in Goes(S, g, a, a)
    <2> DEFINE x == Step("norms", h, "GET_L2_NORM", None)
               y == Step("reply", h, None, None)
               q == <<x, y>>
    <2>1. x \in StepType /\ Sent(x, g) \in {"GET_L2_NORM", "none"}
        BY <1>2, SendSteps
    <2>2. y \in StepType /\ y.do = "reply"
        BY SigsIn, StepParts DEF Kinds, PlainKinds
    <2> HIDE DEF x, y
    <2>3. Sent(y, g) = "none"
        BY <2>2, SilentSteps
    <2>4. q \in Seq(StepType) /\ Len(q) = 2 /\ q[1] = x /\ q[2] = y
        BY <2>1, <2>2
    <2>5. \A i \in 1..2 : i = 1 \/ i = 2
        OBVIOUS
    <2>6. <<"none", a, a>> \in SignalWays(S, g)
        BY NoSignal
    <2> HIDE DEF q
    <2>7. q \in Goes(S, g, a, a)
        <3>1. \A i \in 1..Len(q) : <<Sent(q[i], g), a, a>> \in SignalWays(S, g)
            BY <1>2, <2>1, <2>3, <2>4, <2>5, <2>6
        <3> QED BY <2>4, <3>1, GoesStill
    <2> QED BY <2>7 DEF q, x, y
<1>4. ASSUME NEW h \in Groups
      PROVE  <<Step("sendUnchecked", h, "WRITE_INTERPOLATED_VALUES_PER_GRID", None)>> \o WaitFor(h)
                \in Goes(S, g, a, a)
    <2> DEFINE x == <<Step("sendUnchecked", h, "WRITE_INTERPOLATED_VALUES_PER_GRID", None)>>
    <2>1. x \in Goes(S, g, a, a)
        BY <1>2, OneSend
    <2>2. WaitFor(h) \in Goes(S, g, a, a)
        BY Waits
    <2> HIDE DEF x
    <2>3. x \o WaitFor(h) \in Goes(S, g, a, a)
        BY <2>1, <2>2, GoesThen
    <2> QED BY <2>3 DEF x
<1>5. Script("getLpNorms") \in Goes(S, g, a, a)
    <2> DEFINE ss == [h \in Groups |-> <<Step("norms", h, "GET_L2_NORM", None), Step("reply", h, None, None)>>]
    <2>1. \A h \in Groups : ss[h] \in Goes(S, g, a, a)
        BY <1>3
    <2>2. ss = [h \in 1..NumGroups |-> ss[h]]
        BY <1>1
    <2>3. Script("getLpNorms") = FlattenSeq(ss)
        BY DEF Script
    <2> HIDE DEF ss
    <2>4. ss \in [1..NumGroups -> Seq(StepType)]
        BY <1>1, <2>1, <2>2 DEF Goes
    <2> QED BY <1>1, <2>1, <2>3, <2>4, FlattenStill
<1>6. Script("writeInterpolatedValuesPerGrid") \in Goes(S, g, a, a)
    <2> DEFINE ss == [h \in Groups |->
                        <<Step("sendUnchecked", h, "WRITE_INTERPOLATED_VALUES_PER_GRID", None)>> \o WaitFor(h)]
    <2>1. \A h \in Groups : ss[h] \in Goes(S, g, a, a)
        BY <1>4
    <2>2. ss = [h \in 1..NumGroups |-> ss[h]]
        BY <1>1
    <2>3. Script("writeInterpolatedValuesPerGrid") = FlattenSeq(ss)
        BY DEF Script
    <2> HIDE DEF ss
    <2>4. ss \in [1..NumGroups -> Seq(StepType)]
        BY <1>1, <2>1, <2>2 DEF Goes
    <2> QED BY <1>1, <2>1, <2>3, <2>4, FlattenStill
<1> QED BY <1>5, <1>6

\* A task moves between groups of nodal grids.
LEMMA MigrationWays ==
    ASSUME NEW S, NEW g, NEW a \in Place, a[2] = "nodal",
           NEW t \in Tasks, NEW f \in Groups, NEW h \in Groups
    PROVE  Migration(t, f, h) \in Goes(S, g, a, a)
<1> DEFINE x == Step("remove", f, "RESCHEDULE_REMOVE_TASK", t)
           y == Step("reply", f, None, None)
           z == Step("add", h, "RESCHEDULE_ADD_TASK", t)
           xy == <<x, y>>
           zs == <<z>>
<1>0. {"remove", "reply", "add"} \subseteq Kinds
      /\ {"RESCHEDULE_REMOVE_TASK", "RESCHEDULE_ADD_TASK", None} \subseteq Sigs
    BY SigsIn DEF Kinds, PlainKinds
<1>1. /\ x \in StepType /\ y \in StepType /\ z \in StepType
      /\ x.do = "remove" /\ y.do = "reply" /\ z.do = "add"
    BY <1>0, StepParts
<1> HIDE DEF x, y, z
<1>2. /\ Sent(x, g) \in {"RESCHEDULE_REMOVE_TASK", "none"}
      /\ Sent(y, g) = "none"
      /\ Sent(z, g) \in {"RESCHEDULE_ADD_TASK", "none"}
    BY <1>1 DEF Sent
<1>3. \A sig \in {"RESCHEDULE_REMOVE_TASK", "RESCHEDULE_ADD_TASK", "none"} : <<sig, a, a>> \in SignalWays(S, g)
    BY StillCommands, NoSignal DEF StillAlways, StillNodal
<1>4. xy \in Goes(S, g, a, a)
    <2>1. xy \in Seq(StepType) /\ Len(xy) = 2 /\ xy[1] = x /\ xy[2] = y
        BY <1>1
    <2>2. \A i \in 1..2 : i = 1 \/ i = 2
        OBVIOUS
    <2> HIDE DEF xy
    <2>3. \A i \in 1..Len(xy) : <<Sent(xy[i], g), a, a>> \in SignalWays(S, g)
        BY <1>2, <1>3, <2>1, <2>2
    <2> QED BY <2>1, <2>3, GoesStill
<1>5. zs \in Goes(S, g, a, a)
    BY <1>1, <1>2, <1>3, OneStill
<1>6. WaitAll \in Goes(S, g, a, a)
    BY Waits
<1> HIDE DEF xy, zs
<1>7. xy \o WaitAll \in Goes(S, g, a, a)
    BY <1>4, <1>6, GoesThen
<1>8. xy \o WaitAll \o zs \in Goes(S, g, a, a)
    BY <1>5, <1>7, GoesThen
<1>9. xy \o WaitAll \o zs \o WaitAll \in Goes(S, g, a, a)
    BY <1>6, <1>8, GoesThen
<1> QED BY <1>9 DEF Migration, xy, zs, x, y, z

\* All the moves of reschedule.
LEMMA RescheduleWays ==
    ASSUME NEW S, NEW g, NEW a \in Place, a[2] = "nodal",
           NEW T \in SUBSET Tasks, NEW to \in [T -> Groups], \A t \in T : OwnerOf(t) \in Groups
    PROVE  MoveAll(T, to) \in Goes(S, g, a, a)
<1> DEFINE order == SetToSeq(T)
           ss == [i \in DOMAIN order |-> Migration(order[i], OwnerOf(order[i]), to[order[i]])]
           r == Step("rebuildTasks", None, None, None)
           rs == <<r>>
<1>1. IsFiniteSet(T)
    BY ManagerAssumption, FS_Subset
<1>2. order \in Seq(T)
    BY <1>1, SetToSeqRight
<1>3. MoveAll(T, to) = FlattenSeq(ss) \o rs
    BY DEF MoveAll
<1> HIDE DEF order
<1>4. Len(order) \in Nat /\ DOMAIN order = 1..Len(order) /\ \A i \in 1..Len(order) : order[i] \in T
    BY <1>2, LenProperties, ElementOfSeq
<1>5. \A i \in 1..Len(order) : ss[i] \in Goes(S, g, a, a)
    BY <1>4, MigrationWays
<1>6. ss = [i \in 1..Len(order) |-> ss[i]]
    BY <1>4
<1>7. r \in StepType /\ r.do = "rebuildTasks"
    <2>1. "rebuildTasks" \in Kinds /\ None \in Sigs
        BY SigsIn DEF Kinds
    <2> QED BY <2>1, StepParts
<1> HIDE DEF ss, r
<1>8. ss \in [1..Len(order) -> Seq(StepType)]
    BY <1>5, <1>6 DEF Goes
<1>9. FlattenSeq(ss) \in Goes(S, g, a, a)
    BY <1>4, <1>5, <1>8, FlattenStill
<1>10. rs \in Goes(S, g, a, a)
    <2>1. Sent(r, g) = "none"
        BY <1>7, SilentSteps
    <2> QED BY <1>7, <2>1, OneSilent
<1> HIDE DEF rs
<1>11. FlattenSeq(ss) \o rs \in Goes(S, g, a, a)
    BY <1>9, <1>10, GoesThen
<1> QED BY <1>3, <1>11

\* The tasks are assigned, and the sparse grids sized.
LEMMA RunfirstWays ==
    ASSUME NEW S, NEW g \in Groups, NEW a \in Place, NEW b \in Place, a[2] = "nodal",
           taskList \in Seq(Tasks), <<"INIT_DSGUS", a, b>> \in SignalWays(S, g)
    PROVE  Script("runfirst") \in Goes(S, g, a, b)
<1> DEFINE q == [i \in DOMAIN taskList |-> Step("assign", None, "RUN_FIRST", taskList[i])]
<1>1. Script("runfirst") = q \o WaitAll \o InitDsgus
    BY DEF Script
<1>2. Len(taskList) \in Nat /\ DOMAIN taskList = 1..Len(taskList)
      /\ \A i \in 1..Len(taskList) : taskList[i] \in Tasks
    BY ElementOfSeq, LenProperties
<1>3. "assign" \in Kinds /\ {"RUN_FIRST", "INIT_DSGUS"} \subseteq Sigs
    BY SigsIn DEF Kinds, PG!CheckedSignals
<1>4. \A i \in 1..Len(taskList) : q[i] \in StepType /\ q[i].do = "assign"
    <2> SUFFICES ASSUME NEW i \in 1..Len(taskList) PROVE q[i] \in StepType /\ q[i].do = "assign"
        OBVIOUS
    <2> DEFINE t == taskList[i]
               s == Step("assign", None, "RUN_FIRST", t)
    <2>1. q[i] = s /\ t \in Tasks
        BY <1>2
    <2> HIDE DEF q, t
    <2>2. s \in StepType /\ s.do = "assign"
        BY <1>3, <2>1, StepParts
    <2> HIDE DEF s
    <2> QED BY <2>1, <2>2
<1>5. q = [i \in 1..Len(taskList) |-> q[i]]
    BY <1>2
<1> HIDE DEF q
<1>6. q \in [1..Len(taskList) -> StepType]
    BY <1>4, <1>5
<1>7. q \in Seq(StepType) /\ Len(q) = Len(taskList)
    BY <1>2, <1>6
<1>8. \A i \in 1..Len(q) : Sent(q[i], g) = "RUN_FIRST"
    BY <1>4, <1>7 DEF Sent
<1>9. <<"RUN_FIRST", a, a>> \in SignalWays(S, g)
    BY StillCommands DEF StillNodal
<1>10. q \in Goes(S, g, a, a)
    BY <1>7, <1>8, <1>9, GoesStill
<1>11. WaitAll \in Goes(S, g, a, a) /\ InitDsgus \in Goes(S, g, a, b)
    BY <1>3, Waits, RoundWays DEF InitDsgus
<1>12. q \o WaitAll \in Goes(S, g, a, a)
    BY <1>10, <1>11, GoesThen
<1>13. q \o WaitAll \o InitDsgus \in Goes(S, g, a, b)
    BY <1>11, <1>12, GoesThen
<1> QED BY <1>1, <1>13

\* The commands that call a collective.
LEMMA MovingCommands ==
    ASSUME NEW S, NEW g, NEW a \in Place, NEW b \in Place
    PROVE  /\ Calls(S, "reduceSizes", a, b) /\ a[2] = b[2] => <<"INIT_DSGUS", a, b>> \in SignalWays(S, g)
           /\ Calls(S, "reduceGlobal", a, b) /\ a[2] = "nodal" /\ b[2] = "nodal"
                => <<"COMBINE", a, b>> \in SignalWays(S, g)
           /\ Calls(S, "reduceGlobal", a, b) /\ a[2] = "nodal" /\ b[2] = "hierarchical"
                => <<"COMBINE_LOCAL_AND_GLOBAL", a, b>> \in SignalWays(S, g)
           /\ \A sig \in ThirdLevelCommands :
                Calls(S, "dsg", a, b) /\ a[2] = "hierarchical" /\ b[2] = "nodal"
                /\ (sig \in Roots => g = TLGroup) /\ (sig \in Leaves => g # TLGroup)
                => <<sig, a, b>> \in SignalWays(S, g)
           /\ Calls(S, "sizes", a, b) /\ a[2] = b[2] /\ g = TLGroup
                => <<"REDUCE_SUBSPACE_SIZES_TL", a, b>> \in SignalWays(S, g)
           /\ Calls(S, "sizes", a, b) /\ a[2] = b[2] /\ g # TLGroup
                => <<"WAIT_FOR_TL_SIZE_UPDATE", a, b>> \in SignalWays(S, g)
           /\ \A sig \in Interpolations : Calls(S, "reduceValues", a, b) /\ a[2] = "nodal" /\ b[2] = "nodal"
                => <<sig, a, b>> \in SignalWays(S, g)
<1> DEFINE Moving == {"INIT_DSGUS", "COMBINE", "COMBINE_LOCAL_AND_GLOBAL", "REDUCE_SUBSPACE_SIZES_TL",
                      "WAIT_FOR_TL_SIZE_UPDATE"} \cup ThirdLevelCommands \cup Interpolations
<1>1. ASSUME NEW sig \in Moving,
             Calls(S, CollectiveIn(sig), a, b),
             sig \in Roots => g = TLGroup,
             sig \in Leaves => g # TLGroup,
             sig \in NeedNodal \cup {"COMBINE", "COMBINE_LOCAL_AND_GLOBAL"} => a[2] = "nodal",
             sig \in ThirdLevelCommands => a[2] = "hierarchical",
             b[2] = IF sig = "COMBINE_LOCAL_AND_GLOBAL" THEN "hierarchical"
                    ELSE IF sig \in ThirdLevelCommands THEN "nodal"
                    ELSE a[2]
      PROVE  <<sig, a, b>> \in SignalWays(S, g)
    <2> DEFINE w == <<sig, a, b>>
    <2>1. sig \in PG!Signals /\ sig \notin {"ADD_TASK", "RECOMPUTE"}
        BY DEF ThirdLevelCommands, Interpolations, PG!Signals, PG!CheckedSignals, PG!UncheckedSignals
    <2>2. w[1] = sig /\ w[2] = a /\ w[3] = b /\ w \in (PG!Signals \cup {"none"}) \X Place \X Place
        BY <2>1
    <2> HIDE DEF w, Moving
    <2>3. w \in SignalWays(S, g)
        BY <1>1, <2>1, <2>2 DEF SignalWays
    <2> QED BY <2>3 DEF w
<1>2. ASSUME NEW sig \in Moving \ Interpolations PROVE sig \notin NeedNodal
    BY DEF Interpolations, NeedNodal, NodalUsers, ThirdLevelCommands, PG!NormSignals
<1>3. /\ \A sig \in Interpolations : sig \in Moving /\ sig \notin Roots \cup Leaves \cup ThirdLevelCommands
                                     /\ sig \notin {"COMBINE", "COMBINE_LOCAL_AND_GLOBAL"}
      /\ \A sig \in {"INIT_DSGUS", "COMBINE", "COMBINE_LOCAL_AND_GLOBAL"} :
            sig \in Moving \ Interpolations /\ sig \notin Roots \cup Leaves \cup ThirdLevelCommands
      /\ \A sig \in ThirdLevelCommands :
            sig \in Moving \ Interpolations /\ sig \notin {"COMBINE", "COMBINE_LOCAL_AND_GLOBAL"}
      /\ \A sig \in {"REDUCE_SUBSPACE_SIZES_TL", "WAIT_FOR_TL_SIZE_UPDATE"} :
            sig \in Moving \ Interpolations /\ sig \notin ThirdLevelCommands
      /\ "REDUCE_SUBSPACE_SIZES_TL" \notin Leaves /\ "WAIT_FOR_TL_SIZE_UPDATE" \notin Roots
    BY DEF Interpolations, Roots, Leaves, ThirdLevelCommands
<1> HIDE DEF Moving
<1>4. Calls(S, "reduceSizes", a, b) /\ a[2] = b[2] => <<"INIT_DSGUS", a, b>> \in SignalWays(S, g)
    BY <1>1, <1>2, <1>3, CollectiveTable
<1>5. Calls(S, "reduceGlobal", a, b) /\ a[2] = "nodal" /\ b[2] = "nodal" => <<"COMBINE", a, b>> \in SignalWays(S, g)
    BY <1>1, <1>2, <1>3, CollectiveTable
<1>6. Calls(S, "reduceGlobal", a, b) /\ a[2] = "nodal" /\ b[2] = "hierarchical"
        => <<"COMBINE_LOCAL_AND_GLOBAL", a, b>> \in SignalWays(S, g)
    BY <1>1, <1>2, <1>3, CollectiveTable
<1>7. ASSUME NEW sig \in ThirdLevelCommands, Calls(S, "dsg", a, b), a[2] = "hierarchical", b[2] = "nodal",
             sig \in Roots => g = TLGroup, sig \in Leaves => g # TLGroup
      PROVE  <<sig, a, b>> \in SignalWays(S, g)
    BY <1>1, <1>2, <1>3, <1>7, CollectiveTable
<1>8. Calls(S, "sizes", a, b) /\ a[2] = b[2] /\ g = TLGroup
        => <<"REDUCE_SUBSPACE_SIZES_TL", a, b>> \in SignalWays(S, g)
    BY <1>1, <1>2, <1>3, CollectiveTable
<1>9. Calls(S, "sizes", a, b) /\ a[2] = b[2] /\ g # TLGroup
        => <<"WAIT_FOR_TL_SIZE_UPDATE", a, b>> \in SignalWays(S, g)
    BY <1>1, <1>2, <1>3, CollectiveTable
<1>10. ASSUME NEW sig \in Interpolations, Calls(S, "reduceValues", a, b), a[2] = "nodal", b[2] = "nodal"
       PROVE  <<sig, a, b>> \in SignalWays(S, g)
    BY <1>1, <1>3, <1>10, CollectiveTable
<1> QED BY <1>4, <1>5, <1>6, <1>7, <1>8, <1>9, <1>10

\* One step that sends a group nothing, with its parts.
LEMMA OneExchange ==
    ASSUME NEW S, NEW g, NEW a \in Place, NEW do \in {"exchangeDsgus", "reduceSizes", "reduceExtraSizes", "takeValues"},
           NEW h \in Groups \cup {None}
    PROVE  Step(do, h, None, None) \in StepType /\ Sent(Step(do, h, None, None), g) = "none"
           /\ <<Step(do, h, None, None)>> \in Goes(S, g, a, a)
<1> DEFINE s == Step(do, h, None, None)
<1>1. do \in Kinds /\ None \in Sigs
    BY SigsIn DEF Kinds, PlainKinds
<1>2. s \in StepType /\ s.do = do
    BY <1>1, StepParts
<1> HIDE DEF s
<1>3. Sent(s, g) = "none"
    BY <1>2, SilentSteps
<1>4. <<s>> \in Goes(S, g, a, a)
    BY <1>2, <1>3, OneSilent
<1> QED BY <1>2, <1>3, <1>4 DEF s

\* A command to the third level group with the exchange that answers it.
LEMMA SendAndExchange ==
    ASSUME NEW S, NEW g \in Groups, NEW kind \in SendKinds, NEW sig \in Sigs,
           NEW do \in {"exchangeDsgus", "reduceSizes", "reduceExtraSizes"},
           NEW a \in Place, NEW b \in Place,
           IF TLGroup = g THEN <<sig, a, b>> \in SignalWays(S, g) ELSE a = b
    PROVE  <<Step(kind, TLGroup, sig, None), Step(do, TLGroup, None, None)>> \in Goes(S, g, a, b)
<1> DEFINE x == Step(kind, TLGroup, sig, None)
           y == Step(do, TLGroup, None, None)
           q == <<x, y>>
<1>1. TLGroup \in Groups
    BY ManagerAssumption
<1>2. x \in StepType /\ Sent(x, g) = IF TLGroup = g THEN sig ELSE "none"
    BY <1>1, SendSteps
<1>3. y \in StepType /\ Sent(y, g) = "none"
    BY <1>1, OneExchange
<1> HIDE DEF x, y
<1>4. q \in Seq(StepType) /\ Len(q) = 2 /\ q[1] = x /\ q[2] = y
    BY <1>2, <1>3
<1>5. \A i \in 1..2 : i = 1 \/ i = 2
    OBVIOUS
<1> HIDE DEF q
<1>6. <<Sent(q[1], g), a, b>> \in SignalWays(S, g)
    BY <1>2, <1>4, NoSignal
<1>7. 1 \in 1..Len(q) /\ \A i \in 1..Len(q) : i # 1 => Sent(q[i], g) = "none"
    BY <1>3, <1>4, <1>5
<1>8. q \in Goes(S, g, a, b)
    BY <1>4, <1>6, <1>7, GoesOnce
<1> QED BY <1>8 DEF q, x, y

\* The combinations with the remote system, as a whole: the groups combine among themselves,
\* then broadcast the sum with the remote system's.
LEMMA CombinationWays ==
    ASSUME NEW S, NEW g \in Groups, NEW a \in Place, NEW b \in Place, NEW c \in Place,
           a[2] = "nodal", c[2] = "hierarchical", b[2] = "nodal",
           Calls(S, "reduceGlobal", a, c), Calls(S, "dsg", c, b)
    PROVE  /\ Script("combineThirdLevel") \in Goes(S, g, a, b)
           /\ Script("combineThirdLevelFileBased") \in Goes(S, g, a, b)
<1>1. {"COMBINE_LOCAL_AND_GLOBAL", "COMBINE_THIRD_LEVEL", "COMBINE_THIRD_LEVEL_FILE"} \subseteq Sigs
      /\ "send" \in SendKinds
    BY SigsIn DEF PG!CheckedSignals, SendKinds
<1>2. CombineSystemWide \in Goes(S, g, a, c)
    BY <1>1, MovingCommands, RoundWays DEF CombineSystemWide
<1> DEFINE d == IF g = TLGroup THEN c ELSE b
<1>3. d \in Place
    OBVIOUS
<1>4. TellOthers \in Goes(S, g, c, d)
    <2>1. g # TLGroup => <<"WAIT_FOR_TL_COMBI_RESULT", c, b>> \in SignalWays(S, g)
        BY MovingCommands DEF ThirdLevelCommands, Roots
    <2> QED BY <1>3, <2>1, TellWays
<1>5. \A sig \in {"COMBINE_THIRD_LEVEL", "COMBINE_THIRD_LEVEL_FILE"} :
            IF TLGroup = g THEN <<sig, d, b>> \in SignalWays(S, g) ELSE d = b
    BY MovingCommands DEF ThirdLevelCommands, Leaves
<1> HIDE DEF d
<1>6. FetchInstruction \in Goes(S, g, d, d) /\ WaitAll \in Goes(S, g, b, b)
    BY <1>3, Waits
<1>7. CombineSystemWide \o TellOthers \in Goes(S, g, a, d)
    BY <1>2, <1>4, GoesThen
<1>8. CombineSystemWide \o TellOthers \o FetchInstruction \in Goes(S, g, a, d)
    BY <1>6, <1>7, GoesThen
<1>9. Script("combineThirdLevel") \in Goes(S, g, a, b)
    <2> DEFINE q == <<Command(TLGroup, "COMBINE_THIRD_LEVEL"), Step("exchangeDsgus", TLGroup, None, None)>>
    <2>1. q \in Goes(S, g, d, b)
        BY <1>1, <1>3, <1>5, SendAndExchange DEF Command
    <2> HIDE DEF q
    <2>2. CombineSystemWide \o TellOthers \o FetchInstruction \o q \in Goes(S, g, a, b)
        BY <1>8, <2>1, GoesThen
    <2>3. CombineSystemWide \o TellOthers \o FetchInstruction \o q \o WaitAll \in Goes(S, g, a, b)
        BY <1>6, <2>2, GoesThen
    <2> QED BY <2>3 DEF Script, q
<1>10. Script("combineThirdLevelFileBased") \in Goes(S, g, a, b)
    <2>1. CommandTLGroup("COMBINE_THIRD_LEVEL_FILE") \in Goes(S, g, d, b)
        BY <1>1, <1>3, <1>5, ThirdLevelWays
    <2>2. CombineSystemWide \o TellOthers \o FetchInstruction \o CommandTLGroup("COMBINE_THIRD_LEVEL_FILE")
            \in Goes(S, g, a, b)
        BY <1>8, <2>1, GoesThen
    <2> QED BY <2>2 DEF Script
<1> QED BY <1>9, <1>10

\* A file based combination in two methods.
LEMMA FileWays ==
    ASSUME NEW S, NEW g \in Groups, NEW a \in Place, NEW b \in Place
    PROVE  /\ Calls(S, "reduceGlobal", a, b) /\ a[2] = "nodal" /\ b[2] = "hierarchical"
                => Script("combineThirdLevelFileBasedWrite") \in Goes(S, g, a, b)
           /\ Calls(S, "dsg", a, b) /\ a[2] = "hierarchical" /\ b[2] = "nodal"
                => Script("combineThirdLevelFileBasedReadReduce") \in Goes(S, g, a, b)
<1>1. {"COMBINE_LOCAL_AND_GLOBAL", "COMBINE_READ_DSGS_AND_REDUCE"} \subseteq Sigs
    BY SigsIn DEF PG!CheckedSignals
<1>2. ASSUME Calls(S, "reduceGlobal", a, b), a[2] = "nodal", b[2] = "hierarchical"
      PROVE  Script("combineThirdLevelFileBasedWrite") \in Goes(S, g, a, b)
    <2>1. CombineSystemWide \in Goes(S, g, a, b)
        BY <1>1, <1>2, MovingCommands, RoundWays DEF CombineSystemWide
    <2>2. FetchInstruction \in Goes(S, g, b, b)
        BY Waits
    <2>3. CommandTLGroup("COMBINE_WRITE_DSGS") \in Goes(S, g, b, b)
        <3>1. "COMBINE_WRITE_DSGS" \in Sigs /\ <<"COMBINE_WRITE_DSGS", b, b>> \in SignalWays(S, g)
            BY StillCommands DEF StillAlways, StillNodal
        <3> QED BY <3>1, ThirdLevelWays
    <2>4. CombineSystemWide \o FetchInstruction \in Goes(S, g, a, b)
        BY <2>1, <2>2, GoesThen
    <2>5. CombineSystemWide \o FetchInstruction \o CommandTLGroup("COMBINE_WRITE_DSGS") \in Goes(S, g, a, b)
        BY <2>3, <2>4, GoesThen
    <2> QED BY <2>5 DEF Script
<1>3. ASSUME Calls(S, "dsg", a, b), a[2] = "hierarchical", b[2] = "nodal"
      PROVE  Script("combineThirdLevelFileBasedReadReduce") \in Goes(S, g, a, b)
    <2> DEFINE d == IF g = TLGroup THEN a ELSE b
    <2>1. TellOthers \in Goes(S, g, a, d)
        <3>1. g # TLGroup => <<"WAIT_FOR_TL_COMBI_RESULT", a, b>> \in SignalWays(S, g)
            BY <1>3, MovingCommands DEF ThirdLevelCommands, Roots
        <3> QED BY <3>1, TellWays
    <2>2. IF TLGroup = g THEN <<"COMBINE_READ_DSGS_AND_REDUCE", d, b>> \in SignalWays(S, g) ELSE d = b
        BY <1>3, MovingCommands DEF ThirdLevelCommands, Leaves
    <2>3. d \in Place
        OBVIOUS
    <2> HIDE DEF d
    <2>4. CommandTLGroup("COMBINE_READ_DSGS_AND_REDUCE") \in Goes(S, g, d, b)
        BY <1>1, <2>2, <2>3, ThirdLevelWays
    <2>5. TellOthers \o CommandTLGroup("COMBINE_READ_DSGS_AND_REDUCE") \in Goes(S, g, a, b)
        BY <2>1, <2>4, GoesThen
    <2>6. WaitAll \in Goes(S, g, b, b)
        BY Waits
    <2>7. TellOthers \o CommandTLGroup("COMBINE_READ_DSGS_AND_REDUCE") \o WaitAll \in Goes(S, g, a, b)
        BY <2>5, <2>6, GoesThen
    <2> QED BY <2>7 DEF Script
<1> QED BY <1>2, <1>3

\* The sizes of the sparse grids.
LEMMA UnifyWays ==
    ASSUME NEW S, NEW g \in Groups, NEW a \in Place, NEW b \in Place
    PROVE  /\ Calls(S, "sizes", a, b) /\ a[2] = b[2] => Script(Unify) \in Goes(S, g, a, b)
           /\ Script("unifyExtraSparseGrid") \in Goes(S, g, a, a)
<1>1. {"REDUCE_SUBSPACE_SIZES_TL", "REDUCE_SUBSPACE_SIZES_TL_AND_ALLOCATE_EXTRA_SG"} \subseteq Sigs
      /\ "sendUnchecked" \in SendKinds
    BY SigsIn DEF PG!UncheckedSignals, SendKinds
<1>2. ASSUME Calls(S, "sizes", a, b), a[2] = b[2] PROVE Script(Unify) \in Goes(S, g, a, b)
    <2> DEFINE d == IF g = TLGroup THEN a ELSE b
               q == <<Step("sendUnchecked", TLGroup, "REDUCE_SUBSPACE_SIZES_TL", None),
                      Step("reduceSizes", TLGroup, None, None)>>
    <2>1. TellOthersSizes \in Goes(S, g, a, d)
        <3>1. g # TLGroup => <<"WAIT_FOR_TL_SIZE_UPDATE", a, b>> \in SignalWays(S, g)
            BY <1>2, MovingCommands
        <3> QED BY <3>1, TellSizesWays
    <2>2. IF TLGroup = g THEN <<"REDUCE_SUBSPACE_SIZES_TL", d, b>> \in SignalWays(S, g) ELSE d = b
        BY <1>2, MovingCommands
    <2>3. d \in Place
        OBVIOUS
    <2> HIDE DEF d
    <2>4. q \in Goes(S, g, d, b)
        BY <1>1, <2>2, <2>3, SendAndExchange
    <2> HIDE DEF q
    <2>5. FetchInstruction \in Goes(S, g, d, d) /\ WaitAll \in Goes(S, g, b, b)
        BY <2>3, Waits
    <2>6. TellOthersSizes \o FetchInstruction \in Goes(S, g, a, d)
        BY <2>1, <2>5, GoesThen
    <2>7. TellOthersSizes \o FetchInstruction \o q \in Goes(S, g, a, b)
        BY <2>4, <2>6, GoesThen
    <2>8. TellOthersSizes \o FetchInstruction \o q \o WaitAll \in Goes(S, g, a, b)
        BY <2>5, <2>7, GoesThen
    <2> QED BY <2>8 DEF Script, Unify, q
<1>3. Script("unifyExtraSparseGrid") \in Goes(S, g, a, a)
    <2> DEFINE sig == "REDUCE_SUBSPACE_SIZES_TL_AND_ALLOCATE_EXTRA_SG"
               q == <<Step("sendUnchecked", TLGroup, sig, None), Step("reduceExtraSizes", TLGroup, None, None)>>
    <2>1. <<sig, a, a>> \in SignalWays(S, g)
        BY StillCommands DEF StillAlways, StillNodal
    <2>2. q \in Goes(S, g, a, a)
        BY <1>1, <2>1, SendAndExchange
    <2> HIDE DEF q
    <2>3. FetchInstruction \in Goes(S, g, a, a) /\ WaitAll \in Goes(S, g, a, a)
        BY Waits
    <2>4. FetchInstruction \o q \in Goes(S, g, a, a)
        BY <2>2, <2>3, GoesThen
    <2>5. FetchInstruction \o q \o WaitAll \in Goes(S, g, a, a)
        BY <2>3, <2>4, GoesThen
    <2> QED BY <2>5 DEF Script, q
<1> QED BY <1>2, <1>3

-----------------------------------------------------------------------------
\* The collectives of the methods.

\* The collectives a method makes every group call.
CalledBy(op) ==
    CASE op \in {"runfirst", "initDsgus"} -> <<"reduceSizes">>
      [] op \in {"combine", "combineThirdLevelFileBasedWrite"} -> <<"reduceGlobal">>
      [] op \in {"combineThirdLevel", "combineThirdLevelFileBased"} -> <<"reduceGlobal", "dsg">>
      [] op = "combineThirdLevelFileBasedReadReduce" -> <<"dsg">>
      [] op = Unify -> <<"sizes">>
      [] op \in {"interpolateValues", "writeInterpolatedValuesSingleFile"} -> <<"reduceValues">>
      [] OTHER -> <<>>

\* The form of the grids between the methods.
FormAt(s) == IF s = "reduced" THEN "hierarchical" ELSE "nodal"

\* Where the methods called so far lead every group.
Now(S, s) == <<Len(S), FormAt(s)>>

\* One collective more.
LEMMA CallsNext ==
    ASSUME NEW S \in Seq(Collectives), NEW x \in Collectives, NEW m \in Form, NEW k \in Form
    PROVE  LET T == S \o <<x>>
           IN  /\ T \in Seq(Collectives)
               /\ <<Len(S), m>> \in Place /\ <<Len(T), k>> \in Place
               /\ Calls(T, x, <<Len(S), m>>, <<Len(T), k>>)
<1> DEFINE T == S \o <<x>>
<1>1. S \in Seq(Collectives) /\ x \in Collectives
    OBVIOUS
<1>2. T \in Seq(Collectives) /\ Len(S) \in Nat /\ Len(T) = Len(S) + 1 /\ T[Len(S) + 1] = x
    BY <1>1, OneMore
<1> HIDE DEF T
<1>3. <<Len(S), m>> \in Place /\ <<Len(T), k>> \in Place
    BY <1>2, PlaceParts
<1>4. Calls(T, x, <<Len(S), m>>, <<Len(T), k>>)
    <2> DEFINE a == <<Len(S), m>>
               b == <<Len(T), k>>
    <2>1. a[1] = Len(S) /\ b[1] = Len(T)
        OBVIOUS
    <2>2. x # "none" /\ Len(S) < Len(T)
        BY <1>2 DEF Collectives
    <2> HIDE DEF a, b
    <2>3. Calls(T, x, a, b)
        BY <1>2, <2>1, <2>2 DEF Calls
    <2> QED BY <2>3 DEF a, b
<1> QED BY <1>2, <1>3, <1>4 DEF T

\* Two collectives more.
LEMMA CallsBoth ==
    ASSUME NEW S \in Seq(Collectives), NEW x \in Collectives, NEW y \in Collectives,
           NEW m \in Form, NEW k \in Form, NEW l \in Form
    PROVE  LET T == S \o <<x, y>>
               c == <<Len(S) + 1, k>>
           IN  /\ T \in Seq(Collectives) /\ c \in Place
               /\ <<Len(S), m>> \in Place /\ <<Len(T), l>> \in Place
               /\ Calls(T, x, <<Len(S), m>>, c) /\ Calls(T, y, c, <<Len(T), l>>)
<1> DEFINE xy == <<x, y>>
           T == S \o xy
           n == Len(S)
<1>1. S \in Seq(Collectives) /\ xy \in Seq(Collectives) /\ Len(xy) = 2 /\ xy[1] = x /\ xy[2] = y
    OBVIOUS
<1> HIDE DEF xy, n
<1>2. /\ T \in Seq(Collectives) /\ Len(S) \in Nat /\ Len(T) = Len(S) + Len(xy)
      /\ \A i \in 1..Len(xy) : T[Len(S) + i] = xy[i]
    <2>1. S \in Seq(Collectives) /\ xy \in Seq(Collectives)
        BY <1>1
    <2> QED BY <2>1, ConcatParts
<1> HIDE DEF T
<1>3. n \in Nat /\ Len(T) = n + 2 /\ T[n + 1] = x /\ T[n + 2] = y
    <2>1. 1 \in 1..Len(xy) /\ 2 \in 1..Len(xy)
        BY <1>1
    <2> QED BY <1>1, <1>2, <2>1 DEF n
<1> DEFINE a == <<n, m>>
           c == <<n + 1, k>>
           b == <<Len(T), l>>
<1>4. a \in Place /\ b \in Place /\ c \in Place
    BY <1>3, PlaceParts
<1>5. a[1] = n /\ c[1] = n + 1 /\ b[1] = n + 2
    BY <1>3
<1>6. x # "none" /\ y # "none" /\ n < Len(T) /\ n + 1 < Len(T) /\ (n + 1) + 1 = n + 2
    BY <1>3 DEF Collectives
<1> HIDE DEF a, b, c
<1>7. Calls(T, x, a, c) /\ Calls(T, y, c, b)
    BY <1>3, <1>5, <1>6 DEF Calls
<1> QED BY <1>2, <1>4, <1>7 DEF a, b, c, T, xy, n

\* The methods by what they call.
LEMMA CalledTable ==
    /\ CalledBy("runfirst") = <<"reduceSizes">> /\ CalledBy("initDsgus") = <<"reduceSizes">>
    /\ CalledBy("combine") = <<"reduceGlobal">>
    /\ CalledBy("combineThirdLevelFileBasedWrite") = <<"reduceGlobal">>
    /\ CalledBy("combineThirdLevel") = <<"reduceGlobal", "dsg">>
    /\ CalledBy("combineThirdLevelFileBased") = <<"reduceGlobal", "dsg">>
    /\ CalledBy("combineThirdLevelFileBasedReadReduce") = <<"dsg">>
    /\ CalledBy(Unify) = <<"sizes">>
    /\ CalledBy("interpolateValues") = <<"reduceValues">>
    /\ CalledBy("writeInterpolatedValuesSingleFile") = <<"reduceValues">>
BY DEF CalledBy, Unify

Silent == {"runnext", "unifyExtraSparseGrid", "updateCombiParameters", "parallelEval", "getLpNorms",
           "writeInterpolatedValuesPerGrid", "writeSparseGridMinMaxCoefficients", "writeDSGsToDisk", "exit"}

\* The methods that make the groups call nothing.
LEMMA SilentCalls == \A op \in Silent : CalledBy(op) = <<>>
BY DEF CalledBy, Silent, Unify

\* The methods that make the groups call nothing leave them where they are.
LEMMA SilentScripts ==
    ASSUME NEW S, NEW g \in Groups, NEW a \in Place, NEW op \in Silent,
           op # "updateCombiParameters" => a[2] = "nodal"
    PROVE  Script(op) \in Goes(S, g, a, a)
<1>1. \A sig \in StillAlways : sig \in Sigs /\ <<sig, a, a>> \in SignalWays(S, g)
    <2>1. StillAlways \cap StillNodal = {}
        BY DEF StillAlways, StillNodal
    <2> QED BY <2>1, StillCommands
<1>2. WaitAll \in Goes(S, g, a, a)
    BY Waits
<1>3. NumGroups \in Groups /\ 1 \in Groups
    BY ManagerAssumption DEF Groups
<1>4. CASE op = "runnext"
    <2> DEFINE q == [h \in Groups |-> Step("runNext", h, "RUN_NEXT", None)]
    <2>1. <<"RUN_NEXT", a, a>> \in SignalWays(S, g)
        BY <1>4, StillCommands DEF StillNodal
    <2>2. q \in Goes(S, g, a, a)
        BY <2>1, StepRoundWays
    <2> HIDE DEF q
    <2>3. WaitAll \o q \in Goes(S, g, a, a)
        BY <1>2, <2>2, GoesThen
    <2>4. WaitAll \o q \o WaitAll \in Goes(S, g, a, a)
        BY <1>2, <2>3, GoesThen
    <2> QED BY <1>4, <2>4 DEF Script, q
<1>5. CASE op = "unifyExtraSparseGrid"
    BY <1>5, UnifyWays
<1>6. CASE op = "updateCombiParameters"
    <2>1. "UPDATE_COMBI_PARAMETERS" \in StillAlways
        BY DEF StillAlways
    <2>2. WaitAll \o CommandAll("UPDATE_COMBI_PARAMETERS") \o WaitAll \in Goes(S, g, a, a)
        BY <1>1, <2>1, RoundWays
    <2> QED BY <1>6, <2>2 DEF Script
<1>7. CASE op = "parallelEval"
    <2> DEFINE q == <<Command(1, "PARALLEL_EVAL")>>
    <2>1. "PARALLEL_EVAL" \in StillAlways /\ "send" \in SendKinds
        BY DEF StillAlways, SendKinds
    <2>2. q \in Goes(S, g, a, a)
        BY <1>1, <1>3, <2>1, OneSend DEF Command
    <2> HIDE DEF q
    <2>3. WaitAll \o q \in Goes(S, g, a, a)
        BY <1>2, <2>2, GoesThen
    <2>4. WaitAll \o q \o WaitAll \in Goes(S, g, a, a)
        BY <1>2, <2>3, GoesThen
    <2> QED BY <1>7, <2>4 DEF Script, q
<1>8. CASE op \in {"getLpNorms", "writeInterpolatedValuesPerGrid"}
    BY <1>8, EvaluationWays
<1>9. CASE op = "writeSparseGridMinMaxCoefficients"
    <2>1. "WRITE_DSG_MINMAX_COEFFICIENTS" \in StillAlways /\ "sendUnchecked" \in SendKinds
        BY DEF StillAlways, SendKinds
    <2>2. <<Step("sendUnchecked", NumGroups, "WRITE_DSG_MINMAX_COEFFICIENTS", None)>> \in Goes(S, g, a, a)
        BY <1>1, <1>3, <2>1, OneSend
    <2> QED BY <1>9, <2>2 DEF Script
<1>10. CASE op = "writeDSGsToDisk"
    <2>1. "WRITE_DSGS_TO_DISK" \in StillAlways
        BY DEF StillAlways
    <2>2. CommandTLGroup("WRITE_DSGS_TO_DISK") \in Goes(S, g, a, a)
        BY <1>1, <2>1, ThirdLevelWays
    <2> QED BY <1>10, <2>2 DEF Script
<1>11. CASE op = "exit"
    <2> DEFINE q == [h \in Groups |-> Step("exit", h, "EXIT", None)]
    <2>1. <<"EXIT", a, a>> \in SignalWays(S, g)
        BY <1>1 DEF StillAlways
    <2>2. q \in Goes(S, g, a, a)
        BY <2>1, StepRoundWays
    <2> HIDE DEF q
    <2>3. WaitAll \o q \in Goes(S, g, a, a)
        BY <1>2, <2>2, GoesThen
    <2> QED BY <1>11, <2>3 DEF Script, q
<1> QED BY <1>4, <1>5, <1>6, <1>7, <1>8, <1>9, <1>10, <1>11 DEF Silent

\* A method takes every group from where the earlier ones led it to where it leads.
LEMMA ScriptWays ==
    ASSUME NEW S \in Seq(Collectives), NEW g \in Groups,
           stage \in Stages, NEW op \in Allowed[stage], taskList \in Seq(Tasks)
    PROVE  LET T == S \o CalledBy(op)
           IN  /\ CalledBy(op) \in Seq(Collectives)
               /\ T \in Seq(Collectives)
               /\ Script(op) \in Goes(T, g, Now(S, stage), Now(T, StageAfter(op)))
<1> DEFINE T == S \o CalledBy(op)
           Goal == /\ CalledBy(op) \in Seq(Collectives) /\ T \in Seq(Collectives)
                   /\ Script(op) \in Goes(T, g, Now(S, stage), Now(T, StageAfter(op)))
<1> SUFFICES Goal
    OBVIOUS
<1>1. /\ "nodal" \in Form /\ "hierarchical" \in Form /\ FormAt(stage) \in Form /\ FormAt(StageAfter(op)) \in Form
      /\ {"reduceSizes", "reduceGlobal", "reduceValues", "dsg", "sizes"} \subseteq Collectives
      /\ Len(S) \in Nat
    <2>1. Len(S) \in Nat
        BY LenProperties
    <2> QED BY <2>1 DEF Form, FormAt, Collectives
<1>2. /\ FormAt("start") = "nodal" /\ FormAt("solved") = "nodal" /\ FormAt("combined") = "nodal"
      /\ FormAt("reduced") = "hierarchical" /\ FormAt("ended") = "nodal"
    BY DEF FormAt
<1>3. /\ stage = "start" => op \in {"updateCombiParameters", "runfirst"}
      /\ stage = "solved" => op \in Anytime \cup {"initDsgus", Unify, "unifyExtraSparseGrid", "combine",
            "combineThirdLevel", "combineThirdLevelFileBasedWrite", "combineThirdLevelFileBased"}
      /\ stage = "reduced" => op \in {"updateCombiParameters", "combineThirdLevelFileBasedReadReduce"}
      /\ stage = "combined" => op \in Anytime \cup {"runnext", "parallelEval",
            "writeSparseGridMinMaxCoefficients", "writeDSGsToDisk", "exit"}
      /\ stage # "ended"
      /\ stage \in {"start", "solved", "reduced", "combined", "ended"}
    BY DEF Allowed, Stages, Unify
<1>4. CASE op \in Silent
    <2>1. FormAt(StageAfter(op)) = FormAt(stage) /\ (op # "updateCombiParameters" => FormAt(stage) = "nodal")
        <3>1. StageAfter(op) \in {stage, "solved", "ended"}
              /\ (op = "updateCombiParameters" => StageAfter(op) = stage)
            BY <1>4 DEF StageAfter, Silent
        <3>2. stage = "reduced" => op = "updateCombiParameters"
            BY <1>3, <1>4 DEF Silent
        <3> QED BY <1>2, <1>3, <3>1, <3>2
    <2>2. CalledBy(op) = <<>>
        BY <1>4, SilentCalls
    <2>3. CalledBy(op) \in Seq(Collectives) /\ S \o CalledBy(op) = S
        <3>1. S \in Seq(Collectives)
            OBVIOUS
        <3>2. S \o <<>> = S
            BY <3>1, ConcatEmptySeq
        <3> QED BY <2>2, <3>2
    <2> DEFINE a == <<Len(S), FormAt(stage)>>
    <2>4. a \in Place /\ a[2] = FormAt(stage)
        BY <1>1, PlaceParts
    <2>5. Now(S, stage) = a /\ Now(S, StageAfter(op)) = a
        BY <2>1 DEF Now
    <2> HIDE DEF a
    <2>6. Script(op) \in Goes(S, g, a, a)
        BY <1>4, <2>1, <2>4, SilentScripts
    <2> QED BY <2>3, <2>5, <2>6
<1>5. ASSUME NEW x \in Collectives, CalledBy(op) = <<x>>, NEW m \in Form, NEW k \in Form,
             FormAt(stage) = m, FormAt(StageAfter(op)) = k,
             \A U, a, b : U \in Seq(Collectives) /\ a \in Place /\ b \in Place /\ a[2] = m /\ b[2] = k
                          /\ Calls(U, x, a, b) => Script(op) \in Goes(U, g, a, b)
      PROVE  Goal
    <2> DEFINE a == <<Len(S), m>>
               b == <<Len(T), k>>
    <2>1. CalledBy(op) \in Seq(Collectives)
        BY <1>5
    <2>2. T \in Seq(Collectives) /\ a \in Place /\ b \in Place /\ Calls(T, x, a, b)
        BY <1>5, CallsNext
    <2>3. a[2] = m /\ b[2] = k
        OBVIOUS
    <2>4. Now(S, stage) = a /\ Now(T, StageAfter(op)) = b
        BY <1>5 DEF Now
    <2> HIDE DEF a, b, T
    <2>5. Script(op) \in Goes(T, g, a, b)
        BY <1>5, <2>2, <2>3
    <2> QED BY <2>1, <2>2, <2>4, <2>5
<1>6. CASE op = "runfirst"
    <2>1. FormAt(stage) = "nodal" /\ FormAt(StageAfter(op)) = "nodal"
        <3>1. StageAfter(op) = "solved"
            BY <1>6 DEF StageAfter
        <3>2. stage # "reduced"
            BY <1>3, <1>6
        <3> QED BY <1>2, <1>3, <3>1, <3>2
    <2>2. \A U, a, b : U \in Seq(Collectives) /\ a \in Place /\ b \in Place /\ a[2] = "nodal" /\ b[2] = "nodal"
                       /\ Calls(U, "reduceSizes", a, b) => Script(op) \in Goes(U, g, a, b)
        BY <1>6, MovingCommands, RunfirstWays
    <2> HIDE DEF T
    <2> QED BY <1>1, <1>5, <1>6, <2>1, <2>2, CalledTable
<1>7. CASE op = "initDsgus"
    <2>1. FormAt(stage) = "nodal" /\ FormAt(StageAfter(op)) = "nodal"
        <3>1. StageAfter(op) = stage
            BY <1>7 DEF StageAfter
        <3>2. stage # "reduced"
            BY <1>3, <1>7
        <3> QED BY <1>2, <1>3, <3>1, <3>2
    <2>2. \A U, a, b : U \in Seq(Collectives) /\ a \in Place /\ b \in Place /\ a[2] = "nodal" /\ b[2] = "nodal"
                       /\ Calls(U, "reduceSizes", a, b) => Script(op) \in Goes(U, g, a, b)
        <3>1. Script(op) = WaitAll \o CommandAll("INIT_DSGUS") \o WaitAll /\ "INIT_DSGUS" \in Sigs
            BY <1>7, SigsIn DEF Script, InitDsgus, PG!CheckedSignals
        <3> QED BY <3>1, MovingCommands, RoundWays
    <2> HIDE DEF T
    <2> QED BY <1>1, <1>5, <1>7, <2>1, <2>2, CalledTable
<1>8. CASE op = "combine"
    <2>1. FormAt(stage) = "nodal" /\ FormAt(StageAfter(op)) = "nodal"
        <3>1. StageAfter(op) = "combined"
            BY <1>8 DEF StageAfter
        <3>2. stage # "reduced"
            BY <1>3, <1>8
        <3> QED BY <1>2, <1>3, <3>1, <3>2
    <2>2. \A U, a, b : U \in Seq(Collectives) /\ a \in Place /\ b \in Place /\ a[2] = "nodal" /\ b[2] = "nodal"
                       /\ Calls(U, "reduceGlobal", a, b) => Script(op) \in Goes(U, g, a, b)
        <3>1. Script(op) = WaitAll \o CommandAll("COMBINE") \o WaitAll /\ "COMBINE" \in Sigs
            BY <1>8, SigsIn DEF Script, PG!CheckedSignals
        <3> QED BY <3>1, MovingCommands, RoundWays
    <2> HIDE DEF T
    <2> QED BY <1>1, <1>5, <1>8, <2>1, <2>2, CalledTable
<1>9. CASE op = "combineThirdLevelFileBasedWrite"
    <2>1. FormAt(stage) = "nodal" /\ FormAt(StageAfter(op)) = "hierarchical"
        <3>1. StageAfter(op) = "reduced"
            BY <1>9 DEF StageAfter
        <3>2. stage # "reduced"
            BY <1>3, <1>9
        <3> QED BY <1>2, <1>3, <3>1, <3>2
    <2>2. \A U, a, b : U \in Seq(Collectives) /\ a \in Place /\ b \in Place /\ a[2] = "nodal"
                       /\ b[2] = "hierarchical" /\ Calls(U, "reduceGlobal", a, b)
                       => Script(op) \in Goes(U, g, a, b)
        BY <1>9, FileWays
    <2> HIDE DEF T
    <2> QED BY <1>1, <1>5, <1>9, <2>1, <2>2, CalledTable
<1>10. CASE op \in {"combineThirdLevel", "combineThirdLevelFileBased"}
    <2>1. FormAt(stage) = "nodal" /\ FormAt(StageAfter(op)) = "nodal"
        <3>1. StageAfter(op) = "combined"
            BY <1>10 DEF StageAfter
        <3>2. stage # "reduced"
            BY <1>3, <1>10
        <3> QED BY <1>2, <1>3, <3>1, <3>2
    <2>2. CalledBy(op) = <<"reduceGlobal", "dsg">>
        BY <1>10, CalledTable
    <2> DEFINE x == "reduceGlobal"
               y == "dsg"
               xy == <<x, y>>
               U == S \o xy
               a == <<Len(S), "nodal">>
               c == <<Len(S) + 1, "hierarchical">>
               b == <<Len(U), "nodal">>
    <2>3. /\ U \in Seq(Collectives) /\ a \in Place /\ c \in Place /\ b \in Place
          /\ Calls(U, x, a, c) /\ Calls(U, y, c, b)
        BY <1>1, CallsBoth
    <2>4. a[2] = "nodal" /\ c[2] = "hierarchical" /\ b[2] = "nodal"
        OBVIOUS
    <2>5. T = U /\ xy \in Seq(Collectives) /\ CalledBy(op) = xy
        BY <1>1, <2>2
    <2>6. Now(S, stage) = a /\ Now(U, StageAfter(op)) = b
        BY <2>1 DEF Now
    <2> HIDE DEF a, b, c, U, T, xy
    <2>7. Script(op) \in Goes(U, g, a, b)
        BY <1>10, <2>3, <2>4, CombinationWays
    <2> QED BY <2>3, <2>5, <2>6, <2>7
<1>11. CASE op = "combineThirdLevelFileBasedReadReduce"
    <2>1. FormAt(stage) = "hierarchical" /\ FormAt(StageAfter(op)) = "nodal"
        <3>1. StageAfter(op) = "combined"
            BY <1>11 DEF StageAfter
        <3>2. stage = "reduced"
            BY <1>3, <1>11 DEF Anytime, Unify
        <3> QED BY <1>2, <1>3, <3>1, <3>2
    <2>2. \A U, a, b : U \in Seq(Collectives) /\ a \in Place /\ b \in Place /\ a[2] = "hierarchical"
                       /\ b[2] = "nodal" /\ Calls(U, "dsg", a, b)
                       => Script(op) \in Goes(U, g, a, b)
        BY <1>11, FileWays
    <2> HIDE DEF T
    <2> QED BY <1>1, <1>5, <1>11, <2>1, <2>2, CalledTable
<1>12. CASE op = Unify
    <2>1. FormAt(stage) = "nodal" /\ FormAt(StageAfter(op)) = "nodal"
        <3>1. StageAfter(op) = stage
            BY <1>12 DEF StageAfter, Unify
        <3>2. stage # "reduced"
            BY <1>3, <1>12 DEF Unify
        <3> QED BY <1>2, <1>3, <3>1, <3>2
    <2>2. \A U, a, b : U \in Seq(Collectives) /\ a \in Place /\ b \in Place /\ a[2] = "nodal" /\ b[2] = "nodal"
                       /\ Calls(U, "sizes", a, b) => Script(op) \in Goes(U, g, a, b)
        BY <1>12, UnifyWays
    <2> HIDE DEF T
    <2> QED BY <1>1, <1>5, <1>12, <2>1, <2>2, CalledTable
<1>13. CASE op \in {"interpolateValues", "writeInterpolatedValuesSingleFile"}
    <2>1. FormAt(stage) = "nodal" /\ FormAt(StageAfter(op)) = "nodal"
        <3>1. StageAfter(op) = stage
            BY <1>13 DEF StageAfter
        <3>2. stage # "reduced"
            BY <1>3, <1>13
        <3> QED BY <1>2, <1>3, <3>1, <3>2
    <2>2. ASSUME NEW U, NEW a, NEW b, U \in Seq(Collectives), a \in Place, b \in Place,
                 a[2] = "nodal", b[2] = "nodal", Calls(U, "reduceValues", a, b)
          PROVE  Script(op) \in Goes(U, g, a, b)
        <3>1. \A sig \in Interpolations : <<sig, a, b>> \in SignalWays(U, g)
            BY <2>2, MovingCommands
        <3>2. \A first \in Interpolations : InterpolateAll(first) \in Goes(U, g, a, b)
            BY <2>2, <3>1, InterpolationWays
        <3>3. "INTERPOLATE_VALUES_AND_SEND_BACK" \in Interpolations
              /\ "INTERPOLATE_VALUES_AND_WRITE_SINGLE_FILE" \in Interpolations
            BY DEF Interpolations
        <3>4. <<Step("takeValues", None, None, None)>> \in Goes(U, g, b, b)
            BY <2>2, OneExchange
        <3>5. InterpolateAll("INTERPOLATE_VALUES_AND_SEND_BACK") \o <<Step("takeValues", None, None, None)>>
                \in Goes(U, g, a, b)
            BY <3>2, <3>3, <3>4, GoesThen
        <3> QED BY <1>13, <3>2, <3>3, <3>5 DEF Script
    <2> HIDE DEF T
    <2> QED BY <1>1, <1>5, <1>13, <2>1, <2>2, CalledTable
<1> QED
    <2>1. op \in Silent \cup {"runfirst", "initDsgus", "combine", "combineThirdLevelFileBasedWrite",
                "combineThirdLevel", "combineThirdLevelFileBased", "combineThirdLevelFileBasedReadReduce",
                Unify, "interpolateValues", "writeInterpolatedValuesSingleFile"}
        BY <1>3 DEF Anytime, Silent, Unify
    <2> HIDE DEF Goal
    <2> QED BY <1>4, <1>6, <1>7, <1>8, <1>9, <1>10, <1>11, <1>12, <1>13, <2>1

-----------------------------------------------------------------------------
\* The invariant.

\* Later methods do not disturb what the order holds already.
LEMMA CallsLonger ==
    ASSUME NEW S \in Seq(Collectives), NEW u \in Seq(Collectives), NEW x, NEW a \in Place, NEW b \in Place,
           Calls(S, x, a, b)
    PROVE  Calls(S \o u, x, a, b)
<1>1. /\ Len(S) \in Nat /\ Len(u) \in Nat /\ Len(S \o u) = Len(S) + Len(u)
      /\ \A i \in 1..Len(S) : (S \o u)[i] = S[i]
    BY ConcatParts
<1>2. a[1] \in Nat
    BY PlaceParts
<1> DEFINE T == S \o u
<1>3. a[1] < Len(S) => a[1] < Len(T) /\ T[a[1] + 1] = S[a[1] + 1]
    BY <1>1, <1>2
<1> HIDE DEF T
<1>4. Calls(T, x, a, b)
    BY <1>3 DEF Calls
<1> QED BY <1>4 DEF T

LEMMA Longer ==
    ASSUME NEW S \in Seq(Collectives), NEW u \in Seq(Collectives), NEW g
    PROVE  /\ StepWays(S, g) \subseteq StepWays(S \o u, g)
           /\ CommandWays(S, g) \subseteq CommandWays(S \o u, g)
           /\ TodoWays(S, g) \subseteq TodoWays(S \o u, g)
<1> DEFINE T == S \o u
<1>1. \A x : \A a, b \in Place : Calls(S, x, a, b) => Calls(T, x, a, b)
    BY CallsLonger
<1> HIDE DEF T
<1>2. StepWays(S, g) \subseteq StepWays(T, g)
    <2> SUFFICES ASSUME NEW w \in StepWays(S, g) PROVE w \in StepWays(T, g)
        OBVIOUS
    <2>1. w \in Handled \X Place \X Place /\ Calls(S, CollectiveOf(w[1]), w[2], w[3])
        BY DEF StepWays
    <2>2. Calls(T, CollectiveOf(w[1]), w[2], w[3])
        BY <1>1, <2>1
    <2> QED BY <2>2 DEF StepWays
<1>3. SignalWays(S, g) \subseteq SignalWays(T, g)
    <2> SUFFICES ASSUME NEW w \in SignalWays(S, g) PROVE w \in SignalWays(T, g)
        OBVIOUS
    <2>1. w \in (PG!Signals \cup {"none"}) \X Place \X Place /\ Calls(S, CollectiveIn(w[1]), w[2], w[3])
        BY DEF SignalWays
    <2>2. Calls(T, CollectiveIn(w[1]), w[2], w[3])
        BY <1>1, <2>1
    <2> QED BY <2>2 DEF SignalWays
<1>4. CommandWays(S, g) \subseteq CommandWays(T, g) /\ TodoWays(S, g) \subseteq TodoWays(T, g)
    BY <1>3 DEF CommandWays, TodoWays
<1> QED BY <1>2, <1>4 DEF T

\* The grids of the group's tasks are in the form m.
InForm(g, m) == \A t \in ToSet(workerTasks[g]) : grid[t].nodal = (m = "nodal")

\* The rest of the handler that g executes, the commands under way to g and those the method has
\* still to send lead from where g is, n collectives called, to where the methods lead.
OnWay(S, g, n) ==
    \E m \in Form, y \in Place, z \in Place :
        /\ InForm(g, m)
        /\ Path(StepWays(S, g), handler[g], <<n, m>>, y)
        /\ Path(CommandWays(S, g), toWorker[g], y, z)
        /\ Path(TodoWays(S, g), todo, z, Now(S, stage))
        /\ phase[g] = "running" /\ current[g].sig \in NeedNodal =>
                m = "nodal" /\ \A i \in 1..Len(handler[g]) : handler[g][i] \notin Transforms

\* The broadcasts a group has not taken are the collectives that separate it from the third level
\* group, the root of all broadcasts.
Behind(S, pos) ==
    /\ \E M : bcasts \in [Groups -> Seq(M)]
    /\ bcasts[TLGroup] = <<>> /\ pos[TLGroup] <= Len(S)
    /\ \A g \in Groups :
        /\ pos[g] + Len(bcasts[g]) = pos[TLGroup]
        /\ \A i \in 1..Len(bcasts[g]) :
                bcasts[g][i].kind = S[pos[g] + i] /\ S[pos[g] + i] \in {"dsg", "sizes"}

\* There is an order of the collectives that all groups follow.
Together ==
    \E S \in Seq(Collectives), pos \in [Groups -> Nat] :
        Behind(S, pos) /\ \A g \in Groups : OnWay(S, g, pos[g])

\* What the state looks like.
Shapes ==
    /\ handler \in [Groups -> Seq(Handled)]
    /\ \A g \in Groups : phase[g] # "running" => handler[g] = <<>>
    /\ \A g \in Groups : phase[g] = "running" => current[g].sig \notin {"ADD_TASK", "RECOMPUTE"}
    /\ grid = [t \in Tasks |-> grid[t]]
    /\ \A t \in Tasks : grid[t] = [step |-> grid[t].step, of |-> grid[t].of, nodal |-> grid[t].nodal]

\* The next step of a handler is one of its way.
LEMMA FirstStep ==
    ASSUME NEW S, NEW g \in Groups, NEW n, NEW m, NEW y, handler \in [Groups -> Seq(Handled)],
           Path(StepWays(S, g), handler[g], <<n, m>>, y), handler[g] # <<>>
    PROVE  \E c \in Place : /\ <<Head(handler[g]), <<n, m>>, c>> \in StepWays(S, g)
                            /\ Path(StepWays(S, g), Tail(handler[g]), c, y)
<1>1. handler[g] \in Seq(Handled)
    OBVIOUS
<1> QED BY <1>1, PathHead

\* What is known of a step of a handler.
LEMMA StepFacts ==
    ASSUME NEW S, NEW g, NEW x, NEW a, NEW b, <<x, a, b>> \in StepWays(S, g)
    PROVE  /\ x \in Handled /\ a \in Place /\ b \in Place /\ Calls(S, CollectiveOf(x), a, b)
           /\ x \in {"bcastDsg", "bcastSizes"} => g = TLGroup
           /\ x \in {"takeDsg", "takeSizes"} => g # TLGroup
           /\ x = "reduceLocal" => a[2] = "nodal" /\ b[2] = "hierarchical"
           /\ x = "distribute" => a[2] = "hierarchical" /\ b[2] = "nodal"
           /\ x \notin Transforms => b[2] = a[2]
<1> DEFINE w == <<x, a, b>>
<1>1. w \in StepWays(S, g) /\ w[1] = x /\ w[2] = a /\ w[3] = b
    OBVIOUS
<1> HIDE DEF w
<1>2. w \in Handled \X Place \X Place /\ Calls(S, CollectiveOf(w[1]), w[2], w[3])
    BY <1>1 DEF StepWays
<1> QED BY <1>1, <1>2 DEF StepWays

\* The grids are in the form the commands and the transformations expect.
LEMMA NodalRight ==
    ASSUME Shapes, Together
    PROVE  NodalWhenUsed
<1>1. PICK S \in Seq(Collectives), pos \in [Groups -> Nat] :
            Behind(S, pos) /\ \A g \in Groups : OnWay(S, g, pos[g])
    BY DEF Together
<1> SUFFICES ASSUME NEW g \in Groups, NEW t \in ToSet(workerTasks[g])
             PROVE  /\ phase[g] = "running" /\ current[g].sig \in NodalUsers => grid[t].nodal
                    /\ At(g, "reduceLocal") => grid[t].nodal
                    /\ At(g, "distribute") => ~grid[t].nodal
    BY DEF NodalWhenUsed
<1>2. PICK m \in Form, y \in Place, z \in Place :
        /\ InForm(g, m)
        /\ Path(StepWays(S, g), handler[g], <<pos[g], m>>, y)
        /\ phase[g] = "running" /\ current[g].sig \in NeedNodal => m = "nodal"
    BY <1>1 DEF OnWay
<1>3. grid[t].nodal = (m = "nodal")
    BY <1>2 DEF InForm
<1>4. phase[g] = "running" /\ current[g].sig \in NodalUsers => grid[t].nodal
    BY <1>2, <1>3 DEF NeedNodal
<1>5. ASSUME handler[g] # <<>>
      PROVE  (Head(handler[g]) = "reduceLocal" => m = "nodal")
             /\ (Head(handler[g]) = "distribute" => m = "hierarchical")
    <2>1. PICK c \in Place : <<Head(handler[g]), <<pos[g], m>>, c>> \in StepWays(S, g)
        BY <1>2, <1>5, FirstStep DEF Shapes
    <2> DEFINE x == Head(handler[g])
               a == <<pos[g], m>>
    <2>2. a[2] = m
        OBVIOUS
    <2> HIDE DEF x, a
    <2>3. (x = "reduceLocal" => a[2] = "nodal") /\ (x = "distribute" => a[2] = "hierarchical")
        BY <2>1, StepFacts DEF x, a
    <2> QED BY <2>2, <2>3 DEF x
<1>6. (At(g, "reduceLocal") => m = "nodal") /\ (At(g, "distribute") => m = "hierarchical")
    BY <1>5 DEF At
<1>7. "hierarchical" # "nodal"
    OBVIOUS
<1> QED BY <1>3, <1>4, <1>6, <1>7

\* The collective a group is about to call is the next one of the order.
LEMMA NextInOrder ==
    ASSUME Shapes, NEW S \in Seq(Collectives), NEW g \in Groups, NEW n \in Nat, OnWay(S, g, n),
           NextCollective(g) # "none"
    PROVE  n < Len(S) /\ S[n + 1] = NextCollective(g)
<1>1. handler[g] # <<>> /\ NextCollective(g) = CollectiveOf(Head(handler[g]))
    BY DEF NextCollective
<1>2. PICK m \in Form, y \in Place : Path(StepWays(S, g), handler[g], <<n, m>>, y)
    BY DEF OnWay
<1>3. PICK c \in Place : <<Head(handler[g]), <<n, m>>, c>> \in StepWays(S, g)
    BY <1>1, <1>2, FirstStep DEF Shapes
<1> DEFINE x == Head(handler[g])
           a == <<n, m>>
<1>4. a[1] = n
    OBVIOUS
<1> HIDE DEF x, a
<1>5. Calls(S, CollectiveOf(x), a, c)
    BY <1>3, StepFacts DEF x, a
<1> QED BY <1>1, <1>4, <1>5 DEF Calls, x

\* The groups call the collectives in the same order.
LEMMA CollectivesRight ==
    ASSUME Shapes, Together
    PROVE  CollectivesMatch
<1>1. PICK S \in Seq(Collectives), pos \in [Groups -> Nat] :
            Behind(S, pos) /\ \A g \in Groups : OnWay(S, g, pos[g])
    BY DEF Together
<1>2. PICK M : bcasts \in [Groups -> Seq(M)]
    BY <1>1 DEF Behind
<1>3. \A g \in Groups : NextCollective(g) # "none" => S[pos[g] + 1] = NextCollective(g)
    BY <1>1, NextInOrder
<1>4. ASSUME NEW g \in Groups, NextCollective(g) # "none", bcasts[g] # <<>>
      PROVE  Head(bcasts[g]).kind = NextCollective(g)
    <2>1. bcasts[g] \in Seq(M)
        BY <1>2
    <2>2. Head(bcasts[g]) = bcasts[g][1] /\ 1 \in 1..Len(bcasts[g])
        BY <1>4, <2>1, HeadTailProperties, EmptySeq, LenProperties
    <2>3. bcasts[g][1].kind = S[pos[g] + 1]
        BY <1>1, <2>2 DEF Behind
    <2> QED BY <1>3, <1>4, <2>2, <2>3
<1>5. ASSUME NEW g \in Groups, bcasts[g] = <<>> PROVE pos[g] = pos[TLGroup]
    <2>1. Len(bcasts[g]) = 0 /\ pos[g] \in Nat
        BY <1>5
    <2>2. pos[g] + Len(bcasts[g]) = pos[TLGroup]
        BY <1>1 DEF Behind
    <2> QED BY <2>1, <2>2
<1>6. ASSUME NEW g \in Groups, NEW h \in Groups, NextCollective(g) # "none", NextCollective(h) # "none",
             bcasts[g] = <<>>, bcasts[h] = <<>>
      PROVE  NextCollective(g) = NextCollective(h)
    BY <1>3, <1>5, <1>6
<1> QED BY <1>4, <1>6 DEF CollectivesMatch

\* At the start nothing has been called.
LEMMA TogetherInit ==
    ASSUME Init
    PROVE  Shapes /\ Together
<1> DEFINE S == <<>>
           pos == [g \in Groups |-> 0]
<1>1. S \in Seq(Collectives) /\ pos \in [Groups -> Nat] /\ Len(S) = 0
    OBVIOUS
<1>2. TLGroup \in Groups
    BY ManagerAssumption
<1>3. \A g \in Groups : /\ workerTasks[g] = <<>> /\ toWorker[g] = <<>> /\ phase[g] = "idle"
                        /\ handler[g] = <<>> /\ bcasts[g] = <<>>
    BY DEF Init, PG!Init
<1>4. todo = <<>> /\ stage = "start" /\ bcasts = [g \in Groups |-> <<>>]
    BY DEF Init
<1>5. Behind(S, pos)
    <2>1. bcasts \in [Groups -> Seq({})]
        BY <1>4
    <2>2. \A g \in Groups : Len(bcasts[g]) = 0 /\ pos[g] = 0
        BY <1>3
    <2> HIDE DEF S, pos
    <2>3. \A g \in Groups : /\ pos[g] + Len(bcasts[g]) = pos[TLGroup]
                            /\ \A i \in 1..Len(bcasts[g]) :
                                    bcasts[g][i].kind = S[pos[g] + i] /\ S[pos[g] + i] \in {"dsg", "sizes"}
        BY <1>2, <2>2
    <2>4. bcasts[TLGroup] = <<>> /\ pos[TLGroup] <= Len(S)
        BY <1>1, <1>2, <1>3, <2>2
    <2> QED BY <2>1, <2>3, <2>4 DEF Behind
<1>6. ASSUME NEW g \in Groups PROVE OnWay(S, g, pos[g])
    <2> DEFINE a == <<0, "nodal">>
    <2>1. a \in Place /\ "nodal" \in Form
        BY PlaceParts DEF Form
    <2>2. Now(S, stage) = a /\ <<pos[g], "nodal">> = a
        BY <1>1, <1>4 DEF Now, FormAt
    <2>3. InForm(g, "nodal")
        <3>1. ToSet(<<>>) = {}
            BY DEF ToSet
        <3> QED BY <1>3, <3>1 DEF InForm
    <2> HIDE DEF a, S, pos
    <2>4. \A R : Path(R, <<>>, a, a)
        BY <2>1, PathEmpty
    <2>5. /\ Path(StepWays(S, g), handler[g], <<pos[g], "nodal">>, a)
          /\ Path(CommandWays(S, g), toWorker[g], a, a)
          /\ Path(TodoWays(S, g), todo, a, Now(S, stage))
        BY <1>3, <1>4, <2>2, <2>4
    <2>6. phase[g] # "running"
        BY <1>3
    <2> QED BY <2>1, <2>3, <2>5, <2>6 DEF OnWay
<1>7. Together
    <2> HIDE DEF S, pos
    <2> QED BY <1>1, <1>5, <1>6 DEF Together
<1>8. Shapes
    <2>1. handler \in [Groups -> Seq(Handled)]
        BY DEF Init
    <2>2. grid = [t \in Tasks |-> [step |-> 0, of |-> {}, nodal |-> TRUE]]
        BY DEF Init
    <2>3. \A t \in Tasks : grid[t] = [step |-> grid[t].step, of |-> grid[t].of, nodal |-> grid[t].nodal]
        BY <2>2
    <2>4. grid = [t \in Tasks |-> grid[t]]
        BY <2>2
    <2>5. \A g \in Groups : phase[g] # "running" /\ handler[g] = <<>>
        BY <1>3
    <2> QED BY <2>1, <2>3, <2>4, <2>5 DEF Shapes
<1> QED BY <1>7, <1>8

-----------------------------------------------------------------------------
\* The manager.

\* A group is on its way after a step.
LEMMA OnWayNext ==
    ASSUME NEW S, NEW g, NEW n, NEW m \in Form, NEW y \in Place, NEW z \in Place,
           InForm(g, m)',
           Path(StepWays(S, g), handler'[g], <<n, m>>, y),
           Path(CommandWays(S, g), toWorker'[g], y, z),
           Path(TodoWays(S, g), todo', z, Now(S, stage')),
           phase'[g] = "running" /\ current'[g].sig \in NeedNodal =>
                m = "nodal" /\ \A i \in 1..Len(handler'[g]) : handler'[g][i] \notin Transforms
    PROVE  OnWay(S, g, n)'
BY DEF OnWay, Path, Now

\* A group whose own part does not change stays on its way.
LEMMA Elsewhere ==
    ASSUME NEW S, NEW g, NEW n, OnWay(S, g, n),
           handler'[g] = handler[g], toWorker'[g] = toWorker[g], UNCHANGED <<todo, stage>>,
           phase'[g] = "running" => phase[g] = "running" /\ current'[g] = current[g],
           \A m \in Form : InForm(g, m) => InForm(g, m)'
    PROVE  OnWay(S, g, n)'
<1>1. PICK m \in Form, y \in Place, z \in Place :
        /\ InForm(g, m)
        /\ Path(StepWays(S, g), handler[g], <<n, m>>, y)
        /\ Path(CommandWays(S, g), toWorker[g], y, z)
        /\ Path(TodoWays(S, g), todo, z, Now(S, stage))
        /\ phase[g] = "running" /\ current[g].sig \in NeedNodal =>
                m = "nodal" /\ \A i \in 1..Len(handler[g]) : handler[g][i] \notin Transforms
    BY DEF OnWay
<1>2. InForm(g, m)'
    BY <1>1
<1> QED BY <1>1, <1>2, OnWayNext

\* The forms of the grids do not change.
LEMMA SameForm ==
    ASSUME NEW g, workerTasks'[g] = workerTasks[g], grid' = grid, NEW m, InForm(g, m)
    PROVE  InForm(g, m)'
BY DEF InForm

\* The broadcasts under way do not change.
LEMMA BehindStill ==
    ASSUME NEW S, NEW pos, Behind(S, pos), bcasts' = bcasts
    PROVE  Behind(S, pos)'
BY DEF Behind

\* The commands that may also not be sent.
Optional == {"none", "RUN_FIRST", "RUN_NEXT"}

\* They leave the place as it is.
LEMMA OptionalStill ==
    ASSUME NEW S, NEW g, NEW sig \in Optional, NEW a, NEW b, <<sig, a, b>> \in SignalWays(S, g)
    PROVE  a = b
<1>1. sig \notin ThirdLevelCommands /\ sig # "COMBINE_LOCAL_AND_GLOBAL"
    BY DEF Optional, ThirdLevelCommands
<1>2. CollectiveIn(sig) = "none"
    BY <1>1, NoCollective DEF Optional, Interpolations
<1>3. a \in Place /\ b \in Place /\ b[2] = a[2] /\ Calls(S, "none", a, b)
    BY <1>1, <1>2, SignalFacts
<1> QED BY <1>3, PlaceParts DEF Calls

\* The group gets the command of the step.
Delivers(s, g) ==
    \/ toWorker'[g] = toWorker[g] /\ Sent(s, g) \in Optional
    \/ \E c \in PG!Command : c.sig = Sent(s, g) /\ toWorker'[g] = Append(toWorker[g], c)

\* The types of the protocol's variables.
LEMMA CommandTypes ==
    ASSUME Proved!TypeOK
    PROVE  /\ toWorker \in [Groups -> Seq(PG!Command)]
           /\ workerTasks \in [Groups -> Seq(Tasks)]
           /\ phase \in [Groups -> {"idle", "running", "done", "exited"}]
           /\ current \in [Groups -> PG!Command \cup {PG!NoCommand}]
           /\ \A g \in Groups : phase[g] = "running" => current[g] \in PG!Command
<1>1. Proved!Command = PG!Command
    BY DEF Proved!Command, PG!Command, Proved!Signals, PG!Signals, Proved!SignalsWithTask, PG!SignalsWithTask,
       Proved!TaskSignals, PG!TaskSignals, Proved!CheckedSignals, PG!CheckedSignals,
       Proved!UncheckedSignals, PG!UncheckedSignals, Proved!NormSignals, PG!NormSignals
<1>2. Proved!NoCommand = PG!NoCommand
    BY SameOperators
<1> QED BY <1>1, <1>2 DEF Proved!TypeOK, Proved!Running

\* A step of the manager, for a group.
LEMMA Delivered ==
    ASSUME Proved!TypeOK, todo \in Seq(StepType), todo # <<>>, todo' = Tail(todo),
           UNCHANGED <<stage, handler, grid, phase, current, workerTasks>>,
           NEW g \in Groups, Delivers(Head(todo), g), NEW S, NEW n, OnWay(S, g, n)
    PROVE  OnWay(S, g, n)'
<1>1. PICK m \in Form, y \in Place, z \in Place :
        /\ InForm(g, m)
        /\ Path(StepWays(S, g), handler[g], <<n, m>>, y)
        /\ Path(CommandWays(S, g), toWorker[g], y, z)
        /\ Path(TodoWays(S, g), todo, z, Now(S, stage))
        /\ phase[g] = "running" /\ current[g].sig \in NeedNodal =>
                m = "nodal" /\ \A i \in 1..Len(handler[g]) : handler[g][i] \notin Transforms
    BY DEF OnWay
<1>2. PICK d \in Place : /\ <<Head(todo), z, d>> \in TodoWays(S, g)
                         /\ Path(TodoWays(S, g), todo', d, Now(S, stage'))
    BY <1>1, PathHead
<1>3. <<Sent(Head(todo), g), z, d>> \in SignalWays(S, g)
    BY <1>2 DEF TodoWays
<1>4. Path(CommandWays(S, g), toWorker'[g], y, d)
    <2>1. CASE toWorker'[g] = toWorker[g] /\ Sent(Head(todo), g) \in Optional
        BY <1>1, <1>3, <2>1, OptionalStill
    <2>2. CASE \E c \in PG!Command : c.sig = Sent(Head(todo), g) /\ toWorker'[g] = Append(toWorker[g], c)
        <3>1. PICK c \in PG!Command : c.sig = Sent(Head(todo), g) /\ toWorker'[g] = Append(toWorker[g], c)
            BY <2>2
        <3>2. <<c, z, d>> \in CommandWays(S, g)
            BY <1>3, <3>1 DEF CommandWays
        <3>3. toWorker[g] \in Seq(PG!Command)
            BY CommandTypes
        <3> QED BY <1>1, <3>1, <3>2, <3>3, PathAppend
    <2> QED BY <2>1, <2>2 DEF Delivers
<1>5. InForm(g, m)'
    BY <1>1, SameForm
<1> QED BY <1>1, <1>2, <1>4, <1>5, OnWayNext

\* A command that is sent.
LEMMA SentTo ==
    ASSUME Proved!TypeOK, NEW g \in Groups, NEW sig, NEW t, PG!Send(g, sig, t)
    PROVE  /\ toWorker'[g] = Append(toWorker[g], [sig |-> sig, task |-> t])
           /\ \A h \in Groups : h # g => toWorker'[h] = toWorker[h]
BY CommandTypes DEF PG!Send

\* The steps for one group.
LEMMA OneGroup ==
    ASSUME NEW s \in StepType, NEW g, s.group = g,
           s.do \in {"add", "remove", "runNext", "exit"} \cup SendKinds
    PROVE  /\ \A h : h # g => Sent(s, h) = "none"
           /\ s.do = "add" => Sent(s, g) = "RESCHEDULE_ADD_TASK"
           /\ s.do = "remove" => Sent(s, g) = "RESCHEDULE_REMOVE_TASK"
           /\ s.do = "runNext" => Sent(s, g) = "RUN_NEXT"
           /\ s.do = "exit" => Sent(s, g) = "EXIT"
           /\ s.do \in SendKinds => Sent(s, g) = s.sig
BY DEF Sent, SendKinds

\* Signals make commands.
LEMMA CommandOf ==
    /\ \A sig \in PG!SignalsWithTask, t \in Tasks : [sig |-> sig, task |-> t] \in PG!Command
    /\ \A sig \in PG!CheckedSignals \cup PG!UncheckedSignals \cup PG!NormSignals \cup {"RUN_NEXT", "EXIT"} :
            [sig |-> sig, task |-> None] \in PG!Command
BY DEF PG!Command, PG!SignalsWithTask, PG!Signals, PG!TaskSignals, PG!CheckedSignals,
   PG!UncheckedSignals, PG!NormSignals

\* A step of the manager sends every group the command its step says.
LEMMA ManagerWays ==
    ASSUME Proved!TypeOK, todo \in Seq(StepType), ManagerStep
    PROVE  /\ todo # <<>> /\ todo' = Tail(todo)
           /\ UNCHANGED <<stage, handler, grid, bcasts, phase, current, workerTasks>>
           /\ \A h \in Groups : Delivers(Head(todo), h)
<1> DEFINE s == Head(todo)
           Rest == UNCHANGED <<stage, handler, grid, bcasts, phase, current, workerTasks>>
           Goal == Rest /\ \A h \in Groups : Delivers(s, h)
<1>0. todo # <<>> /\ todo' = Tail(todo)
    BY ManagerFacts
<1>1. s \in StepType
    BY <1>0, HeadTailProperties
<1> SUFFICES Goal
    BY <1>0
<1>2. "none" \in Optional /\ "RUN_FIRST" \in Optional /\ "RUN_NEXT" \in Optional
    BY DEF Optional
<1>3. ASSUME s.do \notin {"assign", "add", "remove", "runNext", "exit", "send", "sendUnchecked", "norms"},
             Rest, toWorker' = toWorker
      PROVE  Goal
    <2> HIDE DEF s
    <2>1. \A h \in Groups : Sent(s, h) = "none"
        BY <1>1, <1>3, SilentSteps
    <2> QED BY <1>2, <1>3, <2>1 DEF Delivers
<1>4. ASSUME NEW g \in Groups, NEW sig, NEW t, PG!Send(g, sig, t), [sig |-> sig, task |-> t] \in PG!Command,
             Rest, Sent(s, g) = sig, \A h \in Groups : h # g => Sent(s, h) \in Optional
      PROVE  Goal
    <2> HIDE DEF s
    <2>1. /\ toWorker'[g] = Append(toWorker[g], [sig |-> sig, task |-> t])
          /\ \A h \in Groups : h # g => toWorker'[h] = toWorker[h]
        BY <1>4, SentTo
    <2>2. Delivers(s, g)
        BY <1>4, <2>1 DEF Delivers
    <2>3. \A h \in Groups : h # g => Delivers(s, h)
        BY <1>4, <2>1 DEF Delivers
    <2> QED BY <1>4, <2>2, <2>3
<1>5. CASE WaitAllFinished \/ WaitForPG \/ FetchInstructionStep
    <2>1. s.do \in {"waitAll", "waitFor", "fetchInstruction"} /\ Rest /\ toWorker' = toWorker
        BY <1>5 DEF WaitAllFinished, WaitForPG, FetchInstructionStep, Do, protocolVars, methodVars,
           workerVars, gridVars, commVars
    <2> HIDE DEF Goal, Rest, s
    <2> QED BY <1>3, <2>1
<1>6. CASE RebuildTasks \/ ReduceSizes \/ ExchangeDsgus \/ TakeValues
    <2>1. s.do \in {"rebuildTasks", "reduceSizes", "reduceExtraSizes", "exchangeDsgus", "takeValues"}
          /\ Rest /\ toWorker' = toWorker
        BY <1>6 DEF RebuildTasks, ReduceSizes, ExchangeDsgus, TakeValues, Do, protocolVars, methodVars,
           workerVars, gridVars, commVars
    <2> HIDE DEF Goal, Rest, s
    <2> QED BY <1>3, <2>1
<1>7. ASSUME NEW g \in Groups, Runfirst(g) PROVE Goal
    <2>1. PICK t \in Tasks : PG!StoreTaskReferenceAndSend(g, "RUN_FIRST", t)
        BY <1>7 DEF Runfirst
    <2>2. s.do = "assign" /\ UNCHANGED <<stage, handler, grid, bcasts>>
        BY <1>7 DEF Runfirst, Do, methodVars, workerVars, gridVars, commVars
    <2>3. PG!Send(g, "RUN_FIRST", t) /\ UNCHANGED <<phase, current, workerTasks>>
        BY <2>1 DEF PG!StoreTaskReferenceAndSend, PG!workerVars
    <2>4. "RUN_FIRST" \in PG!SignalsWithTask
        BY DEF PG!SignalsWithTask, PG!TaskSignals
    <2> HIDE DEF s
    <2>5. \A h : Sent(s, h) = "RUN_FIRST"
        BY <2>2 DEF Sent
    <2> HIDE DEF Goal
    <2> QED BY <1>2, <1>4, <2>2, <2>3, <2>4, <2>5, CommandOf
<1>8. ASSUME NEW g \in Groups, RescheduleAddTask(g) PROVE Goal
    <2>1. PICK t \in Tasks : PG!StoreTaskReferenceAndSend(g, "RESCHEDULE_ADD_TASK", t)
        BY <1>8 DEF RescheduleAddTask
    <2>2. s.do = "add" /\ s.group = g /\ UNCHANGED <<stage, handler, grid, bcasts>>
        BY <1>8 DEF RescheduleAddTask, DoFor, Do, methodVars, workerVars, gridVars, commVars
    <2>3. PG!Send(g, "RESCHEDULE_ADD_TASK", t) /\ UNCHANGED <<phase, current, workerTasks>>
        BY <2>1 DEF PG!StoreTaskReferenceAndSend, PG!workerVars
    <2>4. "RESCHEDULE_ADD_TASK" \in PG!SignalsWithTask
        BY DEF PG!SignalsWithTask, PG!TaskSignals
    <2> HIDE DEF s
    <2>5. Sent(s, g) = "RESCHEDULE_ADD_TASK" /\ \A h : h # g => Sent(s, h) = "none"
        BY <1>1, <2>2, OneGroup
    <2> HIDE DEF Goal
    <2> QED BY <1>2, <1>4, <2>2, <2>3, <2>4, <2>5, CommandOf
<1>9. ASSUME NEW g \in Groups, Runnext(g) PROVE Goal
    <2>1. s.do = "runNext" /\ s.group = g /\ UNCHANGED <<stage, handler, grid, bcasts>>
        BY <1>9 DEF Runnext, DoFor, Do, methodVars, workerVars, gridVars, commVars
    <2>2. Sent(s, g) = "RUN_NEXT" /\ \A h : h # g => Sent(s, h) = "none"
        <3> HIDE DEF s
        <3> QED BY <1>1, <2>1, OneGroup
    <2>3. CASE PG!RunNext(g)
        <3>1. PG!Send(g, "RUN_NEXT", None) /\ UNCHANGED <<phase, current, workerTasks>>
            BY <2>3 DEF PG!RunNext, PG!workerVars
        <3> HIDE DEF s, Goal
        <3> QED BY <1>2, <1>4, <2>1, <2>2, <3>1, CommandOf
    <2>4. CASE UNCHANGED protocolVars
        <3>1. toWorker' = toWorker /\ UNCHANGED <<phase, current, workerTasks>>
            BY <2>4 DEF protocolVars
        <3> HIDE DEF s
        <3>2. \A h \in Groups : Delivers(s, h)
            BY <1>2, <2>2, <3>1 DEF Delivers
        <3> QED BY <2>1, <3>1, <3>2
    <2> QED BY <1>9, <2>3, <2>4 DEF Runnext
<1>10. ASSUME NEW g \in Groups, SendCommand(g) PROVE Goal
    <2>1. s.do \in {"send", "sendUnchecked", "exit"} /\ s.group = g /\ UNCHANGED <<stage, handler, grid, bcasts>>
        BY <1>10 DEF SendCommand, DoFor, Do, methodVars, workerVars, gridVars, commVars
    <2>2. \A h : h # g => Sent(s, h) = "none"
        <3> HIDE DEF s
        <3> QED BY <1>1, <2>1, OneGroup DEF SendKinds
    <2>3. PICK sig \in PG!CheckedSignals \cup PG!UncheckedSignals \cup PG!NormSignals \cup {"RUN_NEXT", "EXIT"} :
            PG!Send(g, sig, None) /\ UNCHANGED <<phase, current, workerTasks>> /\ Sent(s, g) = sig
        <3>1. CASE s.do = "exit"
            <4>1. PG!Send(g, "EXIT", None) /\ UNCHANGED <<phase, current, workerTasks>>
                BY <1>10, <3>1 DEF SendCommand, DoFor, Do, PG!Exit, PG!workerVars
            <4> HIDE DEF s
            <4> QED BY <1>1, <2>1, <3>1, <4>1, OneGroup
        <3>2. CASE s.do \in {"send", "sendUnchecked"}
            <4>1. s.sig \in PG!CheckedSignals \cup PG!UncheckedSignals
                  /\ PG!Send(g, s.sig, None) /\ UNCHANGED <<phase, current, workerTasks>>
                BY <1>10, <3>2 DEF SendCommand, DoFor, Do, PG!SendSignalAndReceive, PG!SendUnchecked, PG!workerVars
            <4> HIDE DEF s
            <4> QED BY <1>1, <2>1, <3>2, <4>1, OneGroup DEF SendKinds
        <3> QED BY <2>1, <3>1, <3>2
    <2> HIDE DEF s, Goal
    <2> QED BY <1>2, <1>4, <2>1, <2>2, <2>3, CommandOf
<1>11. ASSUME NEW g \in Groups, Request(g) PROVE Goal
    <2>1. s.do \in {"norms", "remove"} /\ s.group = g /\ UNCHANGED <<stage, handler, grid, bcasts>>
        BY <1>11 DEF Request, DoFor, Do, methodVars, workerVars, gridVars, commVars
    <2>2. \A h : h # g => Sent(s, h) = "none"
        <3> HIDE DEF s
        <3> QED BY <1>1, <2>1, OneGroup DEF SendKinds
    <2>3. \E sig, t : /\ [sig |-> sig, task |-> t] \in PG!Command
                      /\ PG!Send(g, sig, t) /\ UNCHANGED <<phase, current, workerTasks>> /\ Sent(s, g) = sig
        <3>1. CASE s.do = "norms"
            <4>1. s.sig \in PG!NormSignals
                  /\ PG!Send(g, s.sig, None) /\ UNCHANGED <<phase, current, workerTasks>>
                BY <1>11, <3>1 DEF Request, DoFor, Do, PG!GetLpNorms, PG!workerVars
            <4> HIDE DEF s
            <4> QED BY <1>1, <2>1, <3>1, <4>1, OneGroup, CommandOf DEF SendKinds
        <3>2. CASE s.do = "remove"
            <4>1. PICK t \in Tasks : PG!Send(g, "RESCHEDULE_REMOVE_TASK", t)
                                     /\ UNCHANGED <<phase, current, workerTasks>>
                BY <1>11, <3>2 DEF Request, DoFor, Do, PG!RescheduleRemoveTask, PG!workerVars
            <4>2. "RESCHEDULE_REMOVE_TASK" \in PG!SignalsWithTask
                BY DEF PG!SignalsWithTask
            <4> HIDE DEF s
            <4> QED BY <1>1, <2>1, <3>2, <4>1, <4>2, OneGroup, CommandOf
        <3> QED BY <2>1, <3>1, <3>2
    <2> HIDE DEF s, Goal
    <2> QED BY <1>2, <1>4, <2>1, <2>2, <2>3
<1>12. ASSUME NEW g \in Groups, TakeReply(g) PROVE Goal
    <2>1. s.do = "reply" /\ Rest /\ toWorker' = toWorker
        BY <1>12 DEF TakeReply, DoFor, Do, methodVars, workerVars, gridVars, commVars, PG!ReceiveReply,
           PG!workerVars
    <2> HIDE DEF Goal, Rest, s
    <2> QED BY <1>3, <2>1
<1> HIDE DEF Goal
<1> QED BY <1>5, <1>6, <1>7, <1>8, <1>9, <1>10, <1>11, <1>12 DEF ManagerStep

\* Neither the handlers nor the grids change.
LEMMA ShapesStill ==
    ASSUME Shapes, UNCHANGED <<handler, grid, phase, current>>
    PROVE  Shapes'
BY DEF Shapes

\* A step of the manager.
LEMMA ManagerTogether ==
    ASSUME Proved!TypeOK, todo \in Seq(StepType), Shapes, Together, ManagerStep
    PROVE  Shapes' /\ Together'
<1>1. /\ todo # <<>> /\ todo' = Tail(todo)
      /\ UNCHANGED <<stage, handler, grid, bcasts, phase, current, workerTasks>>
      /\ \A h \in Groups : Delivers(Head(todo), h)
    BY ManagerWays
<1>2. PICK S \in Seq(Collectives), pos \in [Groups -> Nat] :
            Behind(S, pos) /\ \A g \in Groups : OnWay(S, g, pos[g])
    BY DEF Together
<1>3. Behind(S, pos)'
    BY <1>1, <1>2, BehindStill
<1>4. \A g \in Groups : OnWay(S, g, pos[g])'
    BY <1>1, <1>2, Delivered
<1>5. Together'
    BY <1>3, <1>4 DEF Together
<1> QED BY <1>1, <1>5, ShapesStill

-----------------------------------------------------------------------------
\* The calls of methods.

\* The broadcasts under way, when the order gets longer.
LEMMA BehindLonger ==
    ASSUME NEW S \in Seq(Collectives), NEW u \in Seq(Collectives), NEW pos \in [Groups -> Nat],
           Behind(S, pos), bcasts' = bcasts
    PROVE  Behind(S \o u, pos)'
<1> DEFINE T == S \o u
<1>1. /\ Len(S) \in Nat /\ Len(u) \in Nat /\ Len(T) = Len(S) + Len(u)
      /\ \A i \in 1..Len(S) : T[i] = S[i]
    BY ConcatParts
<1> HIDE DEF T
<1>2. TLGroup \in Groups
    BY ManagerAssumption
<1>3. PICK M : bcasts \in [Groups -> Seq(M)]
    BY DEF Behind
<1>4. ASSUME NEW g \in Groups, NEW i \in 1..Len(bcasts[g]) PROVE T[pos[g] + i] = S[pos[g] + i]
    <2>1. pos[g] \in Nat /\ pos[TLGroup] \in Nat /\ Len(bcasts[g]) \in Nat
        BY <1>2, <1>3, LenProperties
    <2>2. pos[g] + Len(bcasts[g]) = pos[TLGroup] /\ pos[TLGroup] <= Len(S)
        BY DEF Behind
    <2>3. pos[g] + i \in 1..Len(S)
        BY <1>1, <2>1, <2>2
    <2> QED BY <1>1, <2>3
<1>5. bcasts[TLGroup] = <<>> /\ pos[TLGroup] <= Len(T)
    <2>1. pos[TLGroup] \in Nat /\ pos[TLGroup] <= Len(S)
        BY <1>2 DEF Behind
    <2> QED BY <1>1, <2>1 DEF Behind
<1>6. \A g \in Groups :
        /\ pos[g] + Len(bcasts[g]) = pos[TLGroup]
        /\ \A i \in 1..Len(bcasts[g]) :
                bcasts[g][i].kind = T[pos[g] + i] /\ T[pos[g] + i] \in {"dsg", "sizes"}
    BY <1>4 DEF Behind
<1>7. Behind(T, pos)
    BY <1>3, <1>5, <1>6 DEF Behind
<1>8. Behind(T, pos)'
    BY <1>7, BehindStill
<1> QED BY <1>8 DEF T

\* A method that begins takes every group from where the methods before it lead to where it leads.
LEMMA MethodBegins ==
    ASSUME NEW S \in Seq(Collectives), NEW u \in Seq(Collectives), NEW g \in Groups, NEW n,
           todo = <<>>, OnWay(S, g, n),
           todo' \in Goes(S \o u, g, Now(S, stage), Now(S \o u, stage')),
           UNCHANGED <<handler, grid, phase, current, workerTasks, toWorker>>
    PROVE  OnWay(S \o u, g, n)'
<1> DEFINE T == S \o u
<1>1. PICK m \in Form, y \in Place, z \in Place :
        /\ InForm(g, m)
        /\ Path(StepWays(S, g), handler[g], <<n, m>>, y)
        /\ Path(CommandWays(S, g), toWorker[g], y, z)
        /\ Path(TodoWays(S, g), todo, z, Now(S, stage))
        /\ phase[g] = "running" /\ current[g].sig \in NeedNodal =>
                m = "nodal" /\ \A i \in 1..Len(handler[g]) : handler[g][i] \notin Transforms
    BY DEF OnWay
<1>2. Now(S, stage) \in Place
    <2>1. Len(S) \in Nat /\ FormAt(stage) \in Form
        BY LenProperties DEF FormAt, Form
    <2> QED BY <2>1, PlaceParts DEF Now
<1>3. z = Now(S, stage)
    BY <1>1, <1>2, PathEmpty
<1>4. /\ Path(StepWays(T, g), handler[g], <<n, m>>, y)
      /\ Path(CommandWays(T, g), toWorker[g], y, z)
    BY <1>1, Longer, PathMore
<1>5. Path(TodoWays(T, g), todo', z, Now(T, stage'))
    BY <1>3 DEF Goes
<1>6. InForm(g, m)'
    BY <1>1, SameForm
<1> HIDE DEF T
<1>7. OnWay(T, g, n)'
    BY <1>1, <1>4, <1>5, <1>6, OnWayNext
<1> QED BY <1>7 DEF T

\* A method is called.
LEMMA CallTogether ==
    ASSUME Proved!TypeOK, TaskInv, Shapes, Together, CallMethod
    PROVE  Shapes' /\ Together'
<1>1. PICK S \in Seq(Collectives), pos \in [Groups -> Nat] :
            Behind(S, pos) /\ \A g \in Groups : OnWay(S, g, pos[g])
    BY DEF Together
<1>2. UNCHANGED <<handler, grid, bcasts, phase, current, workerTasks, toWorker>> /\ todo = <<>>
    BY DEF CallMethod, Call, CallReschedule, protocolVars, gridVars, commVars
<1>3. ASSUME NEW u \in Seq(Collectives),
             \A g \in Groups : todo' \in Goes(S \o u, g, Now(S, stage), Now(S \o u, stage'))
      PROVE  Together'
    <2> DEFINE T == S \o u
    <2>1. T \in Seq(Collectives)
        BY ConcatParts
    <2>2. Behind(T, pos)'
        BY <1>1, <1>2, BehindLonger
    <2>3. \A g \in Groups : OnWay(T, g, pos[g])'
        BY <1>1, <1>2, <1>3, MethodBegins
    <2> HIDE DEF T
    <2> QED BY <2>1, <2>2, <2>3 DEF Together
<1>4. ASSUME NEW op, Call(op) PROVE Together'
    <2>1. /\ op \in Allowed[stage] /\ todo' = Script(op) /\ stage' = StageAfter(op)
          /\ stage \in Stages /\ taskList \in Seq(Tasks)
        BY <1>4 DEF Call, TaskInv
    <2>2. \A g \in Groups : LET T == S \o CalledBy(op)
           IN  /\ CalledBy(op) \in Seq(Collectives)
               /\ Script(op) \in Goes(T, g, Now(S, stage), Now(T, StageAfter(op)))
        BY <2>1, ScriptWays
    <2>3. CalledBy(op) \in Seq(Collectives)
        BY <2>2, ManagerAssumption
    <2> QED BY <1>3, <2>1, <2>2, <2>3
<1>5. ASSUME CallReschedule PROVE Together'
    <2>1. stage = "combined" /\ stage' = stage
        BY <1>5 DEF CallReschedule
    <2>2. PICK X \in SUBSET Tasks : \E to \in [X -> Groups] : todo' = MoveAll(X, to)
        BY <1>5 DEF CallReschedule, MoveAll
    <2>3. \A t \in X : OwnerOf(t) \in Groups
        BY <1>2, <2>1, AllHeld, TaskOwned
    <2> DEFINE a == Now(S, stage)
    <2>4. a \in Place /\ a[2] = "nodal"
        <3>1. Len(S) \in Nat /\ a = <<Len(S), "nodal">> /\ "nodal" \in Form
            BY <2>1, LenProperties DEF Now, FormAt, Form
        <3> QED BY <3>1, PlaceParts
    <2>5. Now(S, stage') = a
        BY <2>1
    <2> HIDE DEF a
    <2>6. \A g \in Groups : todo' \in Goes(S, g, a, a)
        BY <2>2, <2>3, <2>4, RescheduleWays
    <2> DEFINE none == <<>>
    <2>7. none \in Seq(Collectives) /\ S \o none = S
        <3>1. none \in Seq(Collectives)
            OBVIOUS
        <3> QED BY <3>1, ConcatEmptySeq
    <2> HIDE DEF none
    <2>8. \A g \in Groups : todo' \in Goes(S \o none, g, Now(S, stage), Now(S \o none, stage'))
        <3>1. Now(S \o none, stage') = a /\ Now(S, stage) = a
            BY <2>5, <2>7 DEF a
        <3> QED BY <2>6, <2>7, <3>1
    <2> QED BY <1>3, <2>7, <2>8
<1>6. Together'
    BY <1>4, <1>5 DEF CallMethod
<1> QED BY <1>2, <1>6, ShapesStill

-----------------------------------------------------------------------------
\* The groups.

\* No task is in, or on the way to, two groups.
LEMMA TasksApart ==
    ASSUME Proved!TypeOK, Proved!EachTaskOnce, Proved!CarriedAreListed,
           NEW g \in Groups, NEW h \in Groups, NEW t \in Tasks, Proved!Carried(g, t), Proved!Carried(h, t)
    PROVE  g = h
<1>1. Proved!Listed(g, t) /\ Proved!Listed(h, t)
    BY DEF Proved!CarriedAreListed
<1>2. PICK i \in DOMAIN managerTasks[g], j \in DOMAIN managerTasks[h] :
            managerTasks[g][i] = t /\ managerTasks[h][j] = t
    BY <1>1, ListTypes DEF Proved!Listed
<1> QED BY <1>2 DEF Proved!EachTaskOnce

LEMMA GroupsApart ==
    ASSUME Proved!TypeOK, Proved!EachTaskOnce, Proved!CarriedAreListed,
           NEW g \in Groups, NEW h \in Groups, g # h, NEW t \in ToSet(workerTasks[g])
    PROVE  t \in Tasks /\ t \notin ToSet(workerTasks[h])
<1>1. \A k \in Groups : workerTasks[k] \in Seq(Tasks) /\ DOMAIN workerTasks[k] = 1..Len(workerTasks[k])
    BY CommandTypes, LenProperties
<1>2. t \in Tasks
    BY <1>1, ElementOfSeq DEF ToSet
<1>3. \A k \in Groups : t \in ToSet(workerTasks[k]) => Proved!Carried(k, t)
    BY <1>1 DEF ToSet, Proved!Carried
<1> QED BY <1>2, <1>3, TasksApart

\* The group goes one step of its handler further.
LEMMA StepAlong ==
    ASSUME NEW S, NEW g \in Groups, NEW n, NEW l, handler \in [Groups -> Seq(Handled)],
           OnWay(S, g, n), handler[g] # <<>>, handler'[g] = Tail(handler[g]),
           toWorker'[g] = toWorker[g], phase'[g] = phase[g], current'[g] = current[g],
           UNCHANGED <<todo, stage>>,
           \A m \in Form, c \in Place :
                <<Head(handler[g]), <<n, m>>, c>> \in StepWays(S, g) /\ InForm(g, m)
                    => c[1] = l /\ InForm(g, c[2])'
    PROVE  OnWay(S, g, l)'
<1>1. PICK m \in Form, y \in Place, z \in Place :
        /\ InForm(g, m)
        /\ Path(StepWays(S, g), handler[g], <<n, m>>, y)
        /\ Path(CommandWays(S, g), toWorker[g], y, z)
        /\ Path(TodoWays(S, g), todo, z, Now(S, stage))
        /\ phase[g] = "running" /\ current[g].sig \in NeedNodal =>
                m = "nodal" /\ \A i \in 1..Len(handler[g]) : handler[g][i] \notin Transforms
    BY DEF OnWay
<1>2. PICK c \in Place : /\ <<Head(handler[g]), <<n, m>>, c>> \in StepWays(S, g)
                         /\ Path(StepWays(S, g), handler'[g], c, y)
    BY <1>1, FirstStep
<1>3. c[1] = l /\ InForm(g, c[2])' /\ c[2] \in Form /\ c = <<l, c[2]>>
    BY <1>1, <1>2, PlaceParts
<1>4. handler[g] \in Seq(Handled) /\ Head(handler[g]) = handler[g][1] /\ 1 \in 1..Len(handler[g])
      /\ \A i \in 1..Len(handler'[g]) : i + 1 \in 1..Len(handler[g]) /\ handler'[g][i] = handler[g][i + 1]
    <2>1. handler[g] \in Seq(Handled)
        OBVIOUS
    <2>2. /\ Len(handler[g]) \in Nat \ {0} /\ Len(handler'[g]) = Len(handler[g]) - 1
          /\ Head(handler[g]) = handler[g][1]
          /\ \A i \in 1..(Len(handler[g]) - 1) : handler'[g][i] = handler[g][i + 1]
        BY <2>1, HeadTailProperties, LenProperties, EmptySeq
    <2> QED BY <2>1, <2>2
<1>5. ASSUME m = "nodal", \A i \in 1..Len(handler[g]) : handler[g][i] \notin Transforms
      PROVE  c[2] = "nodal" /\ \A i \in 1..Len(handler'[g]) : handler'[g][i] \notin Transforms
    <2> DEFINE x == Head(handler[g])
               a == <<n, m>>
    <2>1. a[2] = m /\ x \notin Transforms
        BY <1>4, <1>5
    <2> HIDE DEF a, x
    <2>2. <<x, a, c>> \in StepWays(S, g)
        BY <1>2 DEF a, x
    <2>3. c[2] = a[2]
        BY <2>1, <2>2, StepFacts
    <2> QED BY <1>4, <1>5, <2>1, <2>3
<1>6. Path(StepWays(S, g), handler'[g], <<l, c[2]>>, y)
    BY <1>2, <1>3
<1>7. phase'[g] = "running" /\ current'[g].sig \in NeedNodal =>
            c[2] = "nodal" /\ \A i \in 1..Len(handler'[g]) : handler'[g][i] \notin Transforms
    BY <1>1, <1>5
<1> DEFINE k == c[2]
<1>8. k \in Form /\ InForm(g, k)' /\ Path(StepWays(S, g), handler'[g], <<l, k>>, y)
      /\ (phase'[g] = "running" /\ current'[g].sig \in NeedNodal =>
            k = "nodal" /\ \A i \in 1..Len(handler'[g]) : handler'[g][i] \notin Transforms)
    BY <1>3, <1>6, <1>7
<1> HIDE DEF k
<1>9. /\ Path(CommandWays(S, g), toWorker'[g], y, z)
      /\ Path(TodoWays(S, g), todo', z, Now(S, stage'))
    BY <1>1
<1> QED BY <1>8, <1>9, OnWayNext

\* The next step of the group's handler leads from place n to place l, with the grids it leaves.
Leads(S, g, n, l) ==
    \A m \in Form, c \in Place :
        <<Head(handler[g]), <<n, m>>, c>> \in StepWays(S, g) /\ InForm(g, m)
            => c[1] = l /\ InForm(g, c[2])'

\* The grids of the other groups keep their form.
OthersKeep(g) == \A h \in Groups : h # g => \A m \in Form : InForm(h, m) => InForm(h, m)'

\* The group goes on in its handler.
GoesOn(g) ==
    /\ handler[g] # <<>> /\ handler' = [handler EXCEPT ![g] = Tail(@)]
    /\ UNCHANGED <<todo, stage, toWorker, phase, current>>

\* One group goes on, the others stay where they are.
LEMMA OneAdvances ==
    ASSUME Shapes, NEW S, NEW pos \in [Groups -> Nat], NEW g \in Groups, NEW l \in Nat,
           \A h \in Groups : OnWay(S, h, pos[h]),
           GoesOn(g), OthersKeep(g), Leads(S, g, pos[g], l),
           NEW q \in [Groups -> Nat], q = [pos EXCEPT ![g] = l]
    PROVE  \A h \in Groups : OnWay(S, h, q[h])'
<1>1. q[g] = l /\ \A h \in Groups : h # g => q[h] = pos[h]
    OBVIOUS
<1>2. handler \in [Groups -> Seq(Handled)]
    BY DEF Shapes
<1>3. handler'[g] = Tail(handler[g]) /\ \A h \in Groups : h # g => handler'[h] = handler[h]
    BY <1>2 DEF GoesOn
<1>4. /\ handler[g] # <<>> /\ toWorker'[g] = toWorker[g] /\ phase'[g] = phase[g] /\ current'[g] = current[g]
      /\ UNCHANGED <<todo, stage>>
    BY DEF GoesOn
<1>5. OnWay(S, g, l)'
    BY <1>2, <1>3, <1>4, StepAlong DEF Leads
<1>6. ASSUME NEW h \in Groups, h # g PROVE OnWay(S, h, pos[h])'
    <2>1. \A m \in Form : InForm(h, m) => InForm(h, m)'
        BY <1>6 DEF OthersKeep
    <2>2. /\ toWorker'[h] = toWorker[h] /\ handler'[h] = handler[h] /\ UNCHANGED <<todo, stage>>
          /\ (phase'[h] = "running" => phase[h] = "running" /\ current'[h] = current[h])
        BY <1>3, <1>6 DEF GoesOn
    <2> QED BY <2>1, <2>2, Elsewhere
<1> QED BY <1>1, <1>5, <1>6

\* What a group's next step tells of its place.
LEMMA NextFacts ==
    ASSUME Shapes, NEW S, NEW g \in Groups, NEW n, OnWay(S, g, n), handler[g] # <<>>
    PROVE  /\ Head(handler[g]) \in {"bcastDsg", "bcastSizes"} => g = TLGroup
           /\ Head(handler[g]) \in {"takeDsg", "takeSizes"} => g # TLGroup
           /\ CollectiveOf(Head(handler[g])) # "none" =>
                    n < Len(S) /\ S[n + 1] = CollectiveOf(Head(handler[g]))
<1>1. PICK m \in Form, y \in Place : Path(StepWays(S, g), handler[g], <<n, m>>, y)
    BY DEF OnWay
<1>2. PICK c \in Place : <<Head(handler[g]), <<n, m>>, c>> \in StepWays(S, g)
    BY <1>1, FirstStep DEF Shapes
<1> DEFINE x == Head(handler[g])
           a == <<n, m>>
<1>3. a[1] = n
    OBVIOUS
<1> HIDE DEF x, a
<1>4. /\ Calls(S, CollectiveOf(x), a, c)
      /\ x \in {"bcastDsg", "bcastSizes"} => g = TLGroup
      /\ x \in {"takeDsg", "takeSizes"} => g # TLGroup
    BY <1>2, StepFacts DEF x, a
<1>5. CollectiveOf(x) # "none" => n < Len(S) /\ S[n + 1] = CollectiveOf(x)
    BY <1>3, <1>4 DEF Calls
<1> QED BY <1>4, <1>5 DEF x

\* Where a step leads.
LEMMA AlongFacts ==
    ASSUME NEW S, NEW g, NEW x, NEW n, NEW m, NEW c, <<x, <<n, m>>, c>> \in StepWays(S, g)
    PROVE  /\ x \notin Transforms => c[2] = m
           /\ x = "reduceLocal" => c[2] = "hierarchical"
           /\ x = "distribute" => c[2] = "nodal"
           /\ c[1] = IF CollectiveOf(x) = "none" THEN n ELSE n + 1
<1> DEFINE a == <<n, m>>
<1>1. a[1] = n /\ a[2] = m
    OBVIOUS
<1> HIDE DEF a
<1>2. /\ Calls(S, CollectiveOf(x), a, c)
      /\ x \notin Transforms => c[2] = a[2]
      /\ x = "reduceLocal" => c[2] = "hierarchical"
      /\ x = "distribute" => c[2] = "nodal"
    BY StepFacts DEF a
<1> QED BY <1>1, <1>2 DEF Calls

\* The state keeps its shape when a group goes on in its handler.
LEMMA ShapesAdvance ==
    ASSUME Shapes, NEW g \in Groups, handler[g] # <<>>, handler' = [handler EXCEPT ![g] = Tail(@)],
           UNCHANGED <<phase, current>>,
           grid' = [t \in Tasks |-> grid'[t]],
           \A t \in Tasks :
                grid'[t] = [step |-> grid'[t].step, of |-> grid'[t].of, nodal |-> grid'[t].nodal]
    PROVE  Shapes'
<1>1. handler \in [Groups -> Seq(Handled)]
    BY DEF Shapes
<1>2. handler[g] \in Seq(Handled) /\ Tail(handler[g]) \in Seq(Handled)
    <2>1. handler[g] \in Seq(Handled)
        BY <1>1
    <2> QED BY <2>1, HeadTailProperties
<1>3. handler' \in [Groups -> Seq(Handled)]
    BY <1>1, <1>2
<1>4. \A h \in Groups : phase'[h] # "running" => handler'[h] = <<>>
    BY <1>1 DEF Shapes
<1>5. \A h \in Groups : phase'[h] = "running" => current'[h].sig \notin {"ADD_TASK", "RECOMPUTE"}
    BY DEF Shapes
<1> QED BY <1>3, <1>4, <1>5 DEF Shapes

\* The root's part of a broadcast.
LEMMA BehindBroadcast ==
    ASSUME NEW S \in Seq(Collectives), NEW pos \in [Groups -> Nat], Behind(S, pos), NEW g \in Groups, g = TLGroup,
           NEW what, Broadcast(g, what), pos[g] < Len(S), S[pos[g] + 1] = what.kind,
           what.kind \in {"dsg", "sizes"},
           NEW q, q = [pos EXCEPT ![g] = pos[g] + 1]
    PROVE  Behind(S, q)'
<1>1. PICK M : bcasts \in [Groups -> Seq(M)]
    BY DEF Behind
<1> DEFINE L == M \cup {what}
<1>2. ASSUME NEW h \in Groups PROVE bcasts[h] \in Seq(L)
    <2>1. bcasts[h] \in Seq(M) /\ M \subseteq L
        BY <1>1
    <2> HIDE DEF L
    <2> QED BY <2>1
<1>3. bcasts' = [h \in Groups |-> IF h = g THEN bcasts[h] ELSE Append(bcasts[h], what)] /\ what \in L
    BY DEF Broadcast
<1> HIDE DEF L
<1>4. \A h \in Groups : h # g => /\ bcasts'[h] = Append(bcasts[h], what) /\ bcasts'[h] \in Seq(L)
                                 /\ Len(bcasts[h]) \in Nat /\ Len(bcasts'[h]) = Len(bcasts[h]) + 1
                                 /\ \A i \in 1..Len(bcasts[h]) : bcasts'[h][i] = bcasts[h][i]
                                 /\ bcasts'[h][Len(bcasts[h]) + 1] = what
    BY <1>2, <1>3, AppendProperties, LenProperties
<1>5. bcasts'[g] = <<>> /\ bcasts[g] = <<>> /\ Len(bcasts[g]) = 0
    BY <1>3 DEF Behind
<1>6. bcasts' \in [Groups -> Seq(L)]
    BY <1>2, <1>3, <1>4
<1>7. q[g] = pos[g] + 1 /\ \A h \in Groups : pos[h] \in Nat /\ (h # g => q[h] = pos[h])
    OBVIOUS
<1>8. \A h \in Groups : /\ pos[h] + Len(bcasts[h]) = pos[g]
                        /\ \A i \in 1..Len(bcasts[h]) :
                                bcasts[h][i].kind = S[pos[h] + i] /\ S[pos[h] + i] \in {"dsg", "sizes"}
    BY DEF Behind
<1>9. ASSUME NEW h \in Groups
      PROVE  /\ q[h] + Len(bcasts'[h]) = q[g]
             /\ \A i \in 1..Len(bcasts'[h]) :
                    bcasts'[h][i].kind = S[q[h] + i] /\ S[q[h] + i] \in {"dsg", "sizes"}
    <2>1. CASE h = g
        <3>1. Len(bcasts'[h]) = 0
            BY <1>5, <2>1
        <3> QED BY <1>7, <2>1, <3>1
    <2>2. CASE h # g
        <3>1. q[h] + Len(bcasts'[h]) = q[g]
            BY <1>4, <1>7, <1>8, <2>2
        <3>2. ASSUME NEW i \in 1..Len(bcasts'[h])
              PROVE  bcasts'[h][i].kind = S[q[h] + i] /\ S[q[h] + i] \in {"dsg", "sizes"}
            <4> DEFINE k == Len(bcasts[h])
            <4>0. k \in Nat /\ i \in 1..(k + 1) /\ q[h] = pos[h] /\ pos[h] \in Nat /\ pos[h] + k = pos[g]
                BY <1>4, <1>7, <1>8, <2>2, <3>2
            <4>1. CASE i \in 1..Len(bcasts[h])
                <5>1. bcasts'[h][i] = bcasts[h][i]
                    BY <1>4, <2>2, <4>1
                <5>2. bcasts[h][i].kind = S[pos[h] + i] /\ S[pos[h] + i] \in {"dsg", "sizes"}
                    BY <1>8, <4>1
                <5> QED BY <4>0, <5>1, <5>2
            <4>2. CASE i \notin 1..Len(bcasts[h])
                <5>1. i = Len(bcasts[h]) + 1 /\ q[h] + i = pos[g] + 1
                    <6>1. i \notin 1..k
                        BY <4>2
                    <6> HIDE DEF k
                    <6>2. i = k + 1 /\ q[h] + i = pos[g] + 1
                        BY <4>0, <6>1
                    <6> QED BY <6>2 DEF k
                <5>2. bcasts'[h][i] = what
                    BY <1>4, <2>2, <5>1
                <5> QED BY <5>1, <5>2
            <4> QED BY <4>1, <4>2
        <3> QED BY <3>1, <3>2
    <2> QED BY <2>1, <2>2
<1>10. q[g] <= Len(S)
    BY <1>7, LenProperties
<1>11. \E N : bcasts' \in [Groups -> Seq(N)]
    BY <1>6
<1>12. bcasts'[TLGroup] = <<>> /\ q[TLGroup] <= Len(S)
    BY <1>5, <1>10
<1>13. \A h \in Groups : q[h] + Len(bcasts'[h]) = q[TLGroup]
    BY <1>9
<1>14. \A h \in Groups : \A i \in 1..Len(bcasts'[h]) :
            bcasts'[h][i].kind = S[q[h] + i] /\ S[q[h] + i] \in {"dsg", "sizes"}
    BY <1>9
<1> QED BY <1>11, <1>12, <1>13, <1>14 DEF Behind

\* A group takes its part in a broadcast.
LEMMA BehindTake ==
    ASSUME NEW S, NEW pos \in [Groups -> Nat], Behind(S, pos), NEW g \in Groups, g # TLGroup,
           bcasts[g] # <<>>, bcasts' = [bcasts EXCEPT ![g] = Tail(@)],
           NEW q, q = [pos EXCEPT ![g] = pos[g] + 1]
    PROVE  Behind(S, q)'
<1>1. PICK M : bcasts \in [Groups -> Seq(M)]
    BY DEF Behind
<1>2. TLGroup \in Groups
    BY ManagerAssumption
<1>3. bcasts[g] \in Seq(M)
    BY <1>1
<1>4. /\ bcasts'[g] = Tail(bcasts[g]) /\ bcasts'[g] \in Seq(M)
      /\ Len(bcasts[g]) \in Nat \ {0} /\ Len(bcasts'[g]) = Len(bcasts[g]) - 1
      /\ \A i \in 1..(Len(bcasts[g]) - 1) : bcasts'[g][i] = bcasts[g][i + 1]
      /\ \A h \in Groups : h # g => bcasts'[h] = bcasts[h]
    <2>1. bcasts'[g] = Tail(bcasts[g]) /\ \A h \in Groups : h # g => bcasts'[h] = bcasts[h]
        BY <1>1
    <2> DEFINE b == bcasts[g]
               r == Tail(b)
    <2>2. b \in Seq(M) /\ b # <<>>
        BY <1>3
    <2> HIDE DEF b
    <2>3. r \in Seq(M) /\ Len(r) = Len(b) - 1 /\ \A i \in 1..Len(r) : r[i] = b[i + 1]
        BY <2>2, HeadTailProperties
    <2>4. Len(b) \in Nat \ {0}
        BY <2>2, LenProperties, EmptySeq
    <2> HIDE DEF r
    <2>5. bcasts'[g] = r /\ bcasts[g] = b
        BY <2>1 DEF b, r
    <2> QED BY <2>1, <2>3, <2>4, <2>5 DEF b, r
<1>5. bcasts' \in [Groups -> Seq(M)]
    BY <1>1, <1>4
<1>6. q[g] = pos[g] + 1 /\ pos[g] \in Nat /\ \A h \in Groups : h # g => q[h] = pos[h]
    OBVIOUS
<1>7. \A h \in Groups : /\ pos[h] + Len(bcasts[h]) = pos[TLGroup]
                        /\ \A i \in 1..Len(bcasts[h]) :
                                bcasts[h][i].kind = S[pos[h] + i] /\ S[pos[h] + i] \in {"dsg", "sizes"}
    BY DEF Behind
<1>8. ASSUME NEW h \in Groups
      PROVE  /\ q[h] + Len(bcasts'[h]) = q[TLGroup]
             /\ \A i \in 1..Len(bcasts'[h]) :
                    bcasts'[h][i].kind = S[q[h] + i] /\ S[q[h] + i] \in {"dsg", "sizes"}
    <2>1. CASE h # g
        BY <1>2, <1>4, <1>6, <1>7, <2>1
    <2>2. CASE h = g
        <3>1. q[g] + Len(bcasts'[g]) = q[TLGroup]
            BY <1>2, <1>4, <1>6, <1>7
        <3>2. ASSUME NEW i \in 1..Len(bcasts'[g])
              PROVE  bcasts'[g][i].kind = S[q[g] + i] /\ S[q[g] + i] \in {"dsg", "sizes"}
            <4>1. i \in 1..(Len(bcasts[g]) - 1) /\ i + 1 \in 1..Len(bcasts[g]) /\ q[g] + i = pos[g] + (i + 1)
                <5> DEFINE k == Len(bcasts[g])
                           p == pos[g]
                <5>1. k \in Nat \ {0} /\ i \in 1..(k - 1) /\ p \in Nat /\ q[g] = p + 1
                    BY <1>4, <1>6
                <5> HIDE DEF k, p
                <5>2. i + 1 \in 1..k /\ q[g] + i = p + (i + 1)
                    BY <5>1
                <5> QED BY <5>1, <5>2 DEF k, p
            <4>2. bcasts'[g][i] = bcasts[g][i + 1]
                BY <1>4, <4>1
            <4> QED BY <1>7, <4>1, <4>2
        <3> QED BY <2>2, <3>1, <3>2
    <2> QED BY <2>1, <2>2
<1>9. bcasts'[TLGroup] = <<>> /\ q[TLGroup] <= Len(S)
    BY <1>2, <1>4, <1>6 DEF Behind
<1> QED BY <1>5, <1>8, <1>9 DEF Behind

\* What the steps of a handler have in common, and which of them do more.
LEMMA HandlerFacts ==
    ASSUME NEW g, HandlerStep(g)
    PROVE  /\ handler[g] # <<>>
           /\ handler' = [handler EXCEPT ![g] = Tail(@)]
           /\ UNCHANGED <<todo, stage, toWorker, phase, current, workerTasks>>
           /\ \/ Head(handler[g]) \in Local /\ UNCHANGED <<grid, bcasts>>
              \/ ReduceLocal(g) /\ UNCHANGED bcasts
              \/ Distribute(g) /\ UNCHANGED bcasts
              \/ BcastDsg(g) /\ UNCHANGED grid
              \/ BcastSizes(g) /\ UNCHANGED grid
              \/ TakeDsg(g) /\ UNCHANGED grid
              \/ TakeSizes(g) /\ UNCHANGED grid
<1> DEFINE Common == /\ handler[g] # <<>>
                     /\ handler' = [handler EXCEPT ![g] = Tail(@)]
                     /\ UNCHANGED <<todo, stage, toWorker, phase, current, workerTasks>>
           Quiet == Head(handler[g]) \in Local /\ UNCHANGED <<grid, bcasts>>
<1> USE DEF At, Advance, managerSide, protocolVars, methodVars, gridVars, commVars
<1>1. InitDsg(g) => Common /\ Quiet
    BY DEF InitDsg, Local
<1>2. SendDsg(g) => Common /\ Quiet
    BY DEF SendDsg, Local
<1>3. RecvDsg(g) => Common /\ Quiet
    BY DEF RecvDsg, Local
<1>4. WaitBcast(g) => Common /\ Quiet
    BY DEF WaitBcast, Local
<1>5. GatherSizes(g) => Common /\ Quiet
    BY DEF GatherSizes, Local
<1>6. ScatterSizes(g) => Common /\ Quiet
    BY DEF ScatterSizes, Local
<1>7. ZeroDsgsData(g) => Common /\ Quiet
    BY DEF ZeroDsgsData, Local
<1>8. WriteDsg(g) => Common /\ Quiet
    BY DEF WriteDsg, Local
<1>9. ReadReduce(g) => Common /\ Quiet
    BY DEF ReadReduce, Local
<1>10. RemoveToken(g) => Common /\ Quiet
    BY DEF RemoveToken, Local
<1>11. SendValues(g) => Common /\ Quiet
    BY DEF SendValues, Local
<1>12. ReduceLocal(g) => Common /\ UNCHANGED bcasts
    BY DEF ReduceLocal
<1>13. Distribute(g) => Common /\ UNCHANGED bcasts
    BY DEF Distribute
<1>14. BcastDsg(g) => Common /\ UNCHANGED grid
    BY DEF BcastDsg
<1>15. BcastSizes(g) => Common /\ UNCHANGED grid
    BY DEF BcastSizes
<1>16. TakeDsg(g) => Common /\ UNCHANGED grid
    BY DEF TakeDsg
<1>17. TakeSizes(g) => Common /\ UNCHANGED grid
    BY DEF TakeSizes
<1> HIDE DEF Common, Quiet
<1>18. Common
    BY <1>1, <1>2, <1>3, <1>4, <1>5, <1>6, <1>7, <1>8, <1>9, <1>10, <1>11, <1>12, <1>13, <1>14,
       <1>15, <1>16, <1>17 DEF HandlerStep
<1>19. \/ Quiet
       \/ ReduceLocal(g) /\ UNCHANGED bcasts
       \/ Distribute(g) /\ UNCHANGED bcasts
       \/ BcastDsg(g) /\ UNCHANGED grid
       \/ BcastSizes(g) /\ UNCHANGED grid
       \/ TakeDsg(g) /\ UNCHANGED grid
       \/ TakeSizes(g) /\ UNCHANGED grid
    BY <1>1, <1>2, <1>3, <1>4, <1>5, <1>6, <1>7, <1>8, <1>9, <1>10, <1>11, <1>12, <1>13, <1>14,
       <1>15, <1>16, <1>17 DEF HandlerStep
<1> QED BY <1>18, <1>19 DEF Common, Quiet

\* A step of a handler that does not touch the grids.
LEMMA GridsStill ==
    ASSUME Shapes, NEW S, NEW pos \in [Groups -> Nat], NEW g \in Groups,
           \A h \in Groups : OnWay(S, h, pos[h]),
           GoesOn(g), UNCHANGED <<workerTasks, grid>>, Head(handler[g]) \notin Transforms,
           NEW l \in Nat, l = IF CollectiveOf(Head(handler[g])) = "none" THEN pos[g] ELSE pos[g] + 1,
           NEW q \in [Groups -> Nat], q = [pos EXCEPT ![g] = l]
    PROVE  Shapes' /\ \A h \in Groups : OnWay(S, h, q[h])'
<1>1. \A h \in Groups, m \in Form : InForm(h, m) => InForm(h, m)'
    BY SameForm
<1>2. Leads(S, g, pos[g], l) /\ OthersKeep(g)
    BY <1>1, AlongFacts DEF Leads, OthersKeep
<1>3. grid' = [t \in Tasks |-> grid'[t]]
    BY DEF Shapes
<1>4. \A t \in Tasks : grid'[t] = [step |-> grid'[t].step, of |-> grid'[t].of, nodal |-> grid'[t].nodal]
    BY DEF Shapes
<1>5. Shapes'
    BY <1>3, <1>4, ShapesAdvance DEF GoesOn
<1> QED BY <1>2, <1>5, OneAdvances

\* The grids of the group's tasks get the form k, the others stay.
Transformed(g, k) ==
    /\ Head(handler[g]) = (IF k = "nodal" THEN "distribute" ELSE "reduceLocal")
    /\ grid' = [t \in Tasks |-> grid'[t]]
    /\ \A t \in Tasks :
            grid'[t] = [step |-> grid'[t].step, of |-> grid'[t].of, nodal |-> grid'[t].nodal]
    /\ \A t \in Tasks \cap ToSet(workerTasks[g]) : grid'[t].nodal = (k = "nodal")
    /\ \A t \in Tasks \ ToSet(workerTasks[g]) : grid'[t] = grid[t]

\* A step of a handler that transforms the group's grids.
LEMMA GridsTransformed ==
    ASSUME Proved!TypeOK, Proved!EachTaskOnce, Proved!CarriedAreListed, Shapes,
           NEW S, NEW pos \in [Groups -> Nat], NEW g \in Groups,
           \A h \in Groups : OnWay(S, h, pos[h]),
           GoesOn(g), UNCHANGED workerTasks, NEW k \in Form, Transformed(g, k)
    PROVE  Shapes' /\ \A h \in Groups : OnWay(S, h, pos[h])'
<1>1. ASSUME NEW h \in Groups, h # g, NEW m \in Form, InForm(h, m)
      PROVE  InForm(h, m)'
    <2>1. \A t \in ToSet(workerTasks[h]) : t \in Tasks /\ t \notin ToSet(workerTasks[g])
        BY <1>1, GroupsApart
    <2>2. \A t \in ToSet(workerTasks[h]) : grid'[t] = grid[t]
        BY <2>1 DEF Transformed
    <2> QED BY <1>1, <2>2 DEF InForm
<1>2. InForm(g, k)'
    <2>1. workerTasks[g] \in Seq(Tasks)
        BY CommandTypes
    <2>2. ToSet(workerTasks[g]) \subseteq Tasks
        BY <2>1, LenProperties, ElementOfSeq DEF ToSet
    <2> QED BY <2>2 DEF InForm, Transformed
<1> DEFINE x == Head(handler[g])
<1>3. x \in Transforms /\ CollectiveOf(x) = "none" /\ (x = "distribute" => k = "nodal")
      /\ (x = "reduceLocal" => k = "hierarchical")
    BY StepTable DEF Form, Transforms, Transformed
<1> HIDE DEF x
<1>4. ASSUME NEW m, NEW c, <<x, <<pos[g], m>>, c>> \in StepWays(S, g)
      PROVE  c[1] = pos[g] /\ c[2] = k
    BY <1>3, <1>4, AlongFacts DEF Transforms
<1> DEFINE l == pos[g]
<1>5. OthersKeep(g) /\ Leads(S, g, pos[g], l)
    BY <1>1, <1>2, <1>4 DEF Leads, OthersKeep, x
<1>6. Shapes'
    BY ShapesAdvance DEF Transformed, GoesOn
<1>7. l \in Nat /\ pos = [pos EXCEPT ![g] = l]
    OBVIOUS
<1> HIDE DEF l
<1>8. \A h \in Groups : OnWay(S, h, pos[h])'
    BY <1>5, <1>7, OneAdvances
<1> QED BY <1>6, <1>8

\* The parts of a grid.
LEMMA GridParts ==
    ASSUME NEW a, NEW b, NEW c, NEW r, r = [step |-> a, of |-> b, nodal |-> c]
    PROVE  /\ r = [step |-> r.step, of |-> r.of, nodal |-> r.nodal]
           /\ r.step = a /\ r.of = b /\ r.nodal = c
OBVIOUS

\* A grid that changes.
LEMMA GridNodal ==
    ASSUME NEW a, NEW b, NEW c, NEW v, NEW r, r = [step |-> a, of |-> b, nodal |-> c]
    PROVE  [r EXCEPT !.nodal = v] = [step |-> a, of |-> b, nodal |-> v]
OBVIOUS

\* The grids of the tasks in W get the value v, and other data.
GetValue(W, v, F) ==
    /\ \A t \in Tasks : t \in W => grid'[t] = [step |-> grid[t].step, of |-> F[t], nodal |-> v]
    /\ \A t \in Tasks : t \notin W => grid'[t] = grid[t]

LEMMA GridsWith ==
    ASSUME Shapes, NEW W, NEW v, NEW F, GetValue(W, v, F)
    PROVE  /\ \A t \in Tasks :
                grid'[t] = [step |-> grid'[t].step, of |-> grid'[t].of, nodal |-> grid'[t].nodal]
           /\ \A t \in Tasks \cap W : grid'[t].nodal = v
<1> SUFFICES ASSUME NEW t \in Tasks
             PROVE  /\ grid'[t] = [step |-> grid'[t].step, of |-> grid'[t].of, nodal |-> grid'[t].nodal]
                    /\ t \in W => grid'[t].nodal = v
    OBVIOUS
<1>1. CASE t \in W
    <2>1. grid'[t] = [step |-> grid[t].step, of |-> F[t], nodal |-> v]
        BY <1>1 DEF GetValue
    <2> QED BY <2>1, GridParts
<1>2. CASE t \notin W
    BY <1>2 DEF Shapes, GetValue
<1> QED BY <1>1, <1>2

\* The two transformations, on the grids.
LEMMA TransformFacts ==
    ASSUME Shapes, NEW g
    PROVE  /\ ReduceLocal(g) => Transformed(g, "hierarchical")
           /\ Distribute(g) => Transformed(g, "nodal")
<1> DEFINE W == ToSet(workerTasks[g])
           s == Systems(g)
<1>1. \A t \in Tasks : grid[t] = [step |-> grid[t].step, of |-> grid[t].of, nodal |-> grid[t].nodal]
    BY DEF Shapes
<1>2. ASSUME ReduceLocal(g) PROVE Transformed(g, "hierarchical")
    <2> DEFINE v == ("hierarchical" = "nodal")
    <2>1. Head(handler[g]) = "reduceLocal" /\ v = FALSE
        BY <1>2 DEF ReduceLocal, At
    <2>2. grid' = [t \in Tasks |-> IF t \in W THEN [grid[t] EXCEPT !.nodal = v] ELSE grid[t]]
        BY <1>2, <2>1 DEF ReduceLocal, Hierarchize
    <2> DEFINE F == [t \in Tasks |-> grid[t].of]
    <2> HIDE DEF W, v
    <2>3. \A t \in Tasks : t \in W => grid'[t] = [step |-> grid[t].step, of |-> F[t], nodal |-> v]
        <3> SUFFICES ASSUME NEW t \in Tasks, t \in W
                     PROVE  grid'[t] = [step |-> grid[t].step, of |-> F[t], nodal |-> v]
            OBVIOUS
        <3>1. grid'[t] = [grid[t] EXCEPT !.nodal = v]
            BY <2>2
        <3> DEFINE r == grid[t]
        <3>2. r = [step |-> r.step, of |-> r.of, nodal |-> r.nodal]
            BY <1>1
        <3> HIDE DEF r
        <3>3. [r EXCEPT !.nodal = v] = [step |-> r.step, of |-> r.of, nodal |-> v]
            BY <3>2, GridNodal
        <3> QED BY <3>1, <3>3 DEF r
    <2>4. grid' = [t \in Tasks |-> grid'[t]] /\ \A t \in Tasks : t \notin W => grid'[t] = grid[t]
        BY <2>2
    <2> HIDE DEF F
    <2>5. GetValue(W, v, F)
        BY <2>3, <2>4 DEF GetValue
    <2>6. /\ \A t \in Tasks :
                grid'[t] = [step |-> grid'[t].step, of |-> grid'[t].of, nodal |-> grid'[t].nodal]
          /\ \A t \in Tasks \cap W : grid'[t].nodal = v
        BY <2>5, GridsWith
    <2> QED BY <2>1, <2>4, <2>6 DEF Transformed, W, v
<1>3. ASSUME Distribute(g) PROVE Transformed(g, "nodal")
    <2> DEFINE v == ("nodal" = "nodal")
    <2>1. Head(handler[g]) = "distribute" /\ v = TRUE
        BY <1>3 DEF Distribute, At
    <2>2. grid' = [t \in Tasks |-> IF t \in W THEN [grid[t] EXCEPT !.of = s, !.nodal = v] ELSE grid[t]]
        BY <1>3, <2>1 DEF Distribute
    <2> DEFINE F == [t \in Tasks |-> s]
    <2> HIDE DEF W, v, s
    <2>3. \A t \in Tasks : t \in W => grid'[t] = [step |-> grid[t].step, of |-> F[t], nodal |-> v]
        <3> SUFFICES ASSUME NEW t \in Tasks, t \in W
                     PROVE  grid'[t] = [step |-> grid[t].step, of |-> F[t], nodal |-> v]
            OBVIOUS
        <3>1. grid'[t] = [grid[t] EXCEPT !.of = s, !.nodal = v]
            BY <2>2
        <3> DEFINE r == grid[t]
        <3>2. r = [step |-> r.step, of |-> r.of, nodal |-> r.nodal]
            BY <1>1
        <3> HIDE DEF r
        <3> DEFINE r1 == [r EXCEPT !.of = s]
        <3>3. r1 = [step |-> r.step, of |-> s, nodal |-> r.nodal]
            BY <3>2
        <3> HIDE DEF r1
        <3>4. [r1 EXCEPT !.nodal = v] = [step |-> r.step, of |-> s, nodal |-> v]
            BY <3>3, GridNodal
        <3>5. grid'[t] = [r1 EXCEPT !.nodal = v]
            BY <3>1 DEF r, r1
        <3> QED BY <3>4, <3>5 DEF r
    <2>4. grid' = [t \in Tasks |-> grid'[t]] /\ \A t \in Tasks : t \notin W => grid'[t] = grid[t]
        BY <2>2
    <2> HIDE DEF F
    <2>5. GetValue(W, v, F)
        BY <2>3, <2>4 DEF GetValue
    <2>6. /\ \A t \in Tasks :
                grid'[t] = [step |-> grid'[t].step, of |-> grid'[t].of, nodal |-> grid'[t].nodal]
          /\ \A t \in Tasks \cap W : grid'[t].nodal = v
        BY <2>5, GridsWith
    <2> QED BY <2>1, <2>4, <2>6 DEF Transformed, W, v
<1> QED BY <1>2, <1>3

\* A step of a handler.
LEMMA HandlerTogether ==
    ASSUME Proved!TypeOK, Proved!EachTaskOnce, Proved!CarriedAreListed, Shapes, Together,
           NEW g \in Groups, HandlerStep(g)
    PROVE  Shapes' /\ Together'
<1>1. GoesOn(g) /\ UNCHANGED workerTasks
    BY HandlerFacts DEF GoesOn
<1>2. PICK S \in Seq(Collectives), pos \in [Groups -> Nat] :
            Behind(S, pos) /\ \A h \in Groups : OnWay(S, h, pos[h])
    BY DEF Together
<1> DEFINE x == Head(handler[g])
<1>3. /\ x \in {"bcastDsg", "bcastSizes"} => g = TLGroup
      /\ x \in {"takeDsg", "takeSizes"} => g # TLGroup
      /\ CollectiveOf(x) # "none" => pos[g] < Len(S) /\ S[pos[g] + 1] = CollectiveOf(x)
    BY <1>1, <1>2, NextFacts DEF GoesOn
<1>4. ASSUME UNCHANGED grid, x \notin Transforms, CollectiveOf(x) = "none"
      PROVE  Shapes' /\ \A h \in Groups : OnWay(S, h, pos[h])'
    <2> DEFINE l == pos[g]
    <2>1. l \in Nat /\ l = IF CollectiveOf(x) = "none" THEN pos[g] ELSE pos[g] + 1
        BY <1>4
    <2>2. pos = [pos EXCEPT ![g] = l]
        OBVIOUS
    <2> HIDE DEF l
    <2> QED BY <1>1, <1>2, <1>4, <2>1, <2>2, GridsStill
<1> DEFINE q == [pos EXCEPT ![g] = pos[g] + 1]
<1>5. q \in [Groups -> Nat] /\ q = [pos EXCEPT ![g] = pos[g] + 1]
    OBVIOUS
<1> HIDE DEF q
<1>6. ASSUME UNCHANGED grid, x \notin Transforms, CollectiveOf(x) # "none"
      PROVE  Shapes' /\ \A h \in Groups : OnWay(S, h, q[h])'
    <2> DEFINE l == pos[g] + 1
    <2>1. l \in Nat /\ l = IF CollectiveOf(x) = "none" THEN pos[g] ELSE pos[g] + 1
        BY <1>6
    <2>2. q = [pos EXCEPT ![g] = l]
        BY <1>5
    <2> HIDE DEF l
    <2>3. q \in [Groups -> Nat] /\ x \notin Transforms /\ UNCHANGED <<workerTasks, grid>>
        BY <1>1, <1>5, <1>6
    <2> QED BY <1>1, <1>2, <2>1, <2>2, <2>3, GridsStill
<1>7. ASSUME NEW p \in [Groups -> Nat], Behind(S, p)', \A h \in Groups : OnWay(S, h, p[h])'
      PROVE  Together'
    BY <1>7 DEF Together
<1>8. CASE x \in Local /\ UNCHANGED <<grid, bcasts>>
    <2>1. x \notin Transforms /\ CollectiveOf(x) = "none"
        BY <1>8, StepTable
    <2>2. Behind(S, pos)'
        BY <1>2, <1>8, BehindStill
    <2> HIDE DEF x
    <2> QED BY <1>4, <1>7, <1>8, <2>1, <2>2
<1>9. ASSUME NEW k \in Form, Transformed(g, k), UNCHANGED bcasts
      PROVE  Shapes' /\ Together'
    <2>1. Shapes' /\ \A h \in Groups : OnWay(S, h, pos[h])'
        BY <1>1, <1>2, <1>9, GridsTransformed
    <2>2. Behind(S, pos)'
        BY <1>2, <1>9, BehindStill
    <2> QED BY <1>7, <2>1, <2>2
<1>10. CASE ReduceLocal(g) /\ UNCHANGED bcasts
    <2>1. "hierarchical" \in Form
        BY DEF Form
    <2> QED BY <1>9, <1>10, <2>1, TransformFacts
<1>11. CASE Distribute(g) /\ UNCHANGED bcasts
    <2>1. "nodal" \in Form
        BY DEF Form
    <2> QED BY <1>9, <1>11, <2>1, TransformFacts
<1>12. ASSUME NEW what, x \in {"bcastDsg", "bcastSizes"}, Broadcast(g, what), UNCHANGED grid,
              what.kind = CollectiveOf(x)
       PROVE  Shapes' /\ Together'
    <2>1. CollectiveOf(x) \in {"dsg", "sizes"} /\ CollectiveOf(x) # "none" /\ x \notin Transforms
        BY <1>12, StepTable DEF Transforms
    <2>2. Shapes' /\ \A h \in Groups : OnWay(S, h, q[h])'
        BY <1>6, <1>12, <2>1
    <2>3. g = TLGroup /\ pos[g] < Len(S) /\ S[pos[g] + 1] = what.kind /\ what.kind \in {"dsg", "sizes"}
        BY <1>3, <1>12, <2>1
    <2>4. Behind(S, q)'
        BY <1>2, <1>5, <1>12, <2>3, BehindBroadcast
    <2> QED BY <1>5, <1>7, <2>2, <2>4
<1>13. ASSUME x \in {"takeDsg", "takeSizes"}, bcasts[g] # <<>>, bcasts' = [bcasts EXCEPT ![g] = Tail(@)],
              UNCHANGED grid
       PROVE  Shapes' /\ Together'
    <2>1. CollectiveOf(x) # "none" /\ x \notin Transforms
        BY <1>13, StepTable DEF Transforms
    <2>2. Shapes' /\ \A h \in Groups : OnWay(S, h, q[h])'
        BY <1>6, <1>13, <2>1
    <2>3. g # TLGroup
        BY <1>3, <1>13
    <2>4. Behind(S, q)'
        BY <1>2, <1>5, <1>13, <2>3, BehindTake
    <2> QED BY <1>5, <1>7, <2>2, <2>4
<1>14. CASE BcastDsg(g) /\ UNCHANGED grid
    <2> DEFINE what == [kind |-> "dsg", sizes |-> spaces[g], data |-> dsg[g]]
    <2>1. x = "bcastDsg" /\ Broadcast(g, what) /\ what.kind = "dsg"
        BY <1>14 DEF BcastDsg, At
    <2> HIDE DEF what, x
    <2> QED BY <1>12, <1>14, <2>1, StepTable
<1>15. CASE BcastSizes(g) /\ UNCHANGED grid
    <2> DEFINE what == [kind |-> "sizes", sizes |-> spaces[g], data |-> {}]
    <2>1. x = "bcastSizes" /\ Broadcast(g, what) /\ what.kind = "sizes"
        BY <1>15 DEF BcastSizes, At
    <2> HIDE DEF what, x
    <2> QED BY <1>12, <1>15, <2>1, StepTable
<1>16. CASE TakeDsg(g) /\ UNCHANGED grid
    BY <1>13, <1>16 DEF TakeDsg, At
<1>17. CASE TakeSizes(g) /\ UNCHANGED grid
    BY <1>13, <1>17 DEF TakeSizes, At
<1>18. \/ x \in Local /\ UNCHANGED <<grid, bcasts>>
       \/ ReduceLocal(g) /\ UNCHANGED bcasts
       \/ Distribute(g) /\ UNCHANGED bcasts
       \/ BcastDsg(g) /\ UNCHANGED grid
       \/ BcastSizes(g) /\ UNCHANGED grid
       \/ TakeDsg(g) /\ UNCHANGED grid
       \/ TakeSizes(g) /\ UNCHANGED grid
    BY HandlerFacts
<1> HIDE DEF x
<1> QED BY <1>8, <1>10, <1>11, <1>14, <1>15, <1>16, <1>17, <1>18

\* What the reductions have in common.
LEMMA CollectiveFacts ==
    ASSUME Collective
    PROVE  \E x \in {"reduceSizes", "reduceGlobal", "reduceValues"} :
                /\ \A g \in Groups : handler[g] # <<>> /\ Head(handler[g]) = x
                /\ handler' = [g \in Groups |-> Tail(handler[g])]
                /\ UNCHANGED <<todo, stage, toWorker, phase, current, workerTasks, grid, bcasts>>
<1> USE DEF At, AdvanceAll, managerSide, protocolVars, methodVars, gridVars, commVars
<1>1. CASE ReduceSubspaceSizes
    BY <1>1 DEF ReduceSubspaceSizes
<1>2. CASE ReduceGlobal
    BY <1>2 DEF ReduceGlobal
<1>3. CASE ReduceValues
    BY <1>3 DEF ReduceValues
<1> QED BY <1>1, <1>2, <1>3 DEF Collective

\* A reduction takes all groups: no broadcast is under way, and all are at the same place.
LEMMA AllMeet ==
    ASSUME Shapes, NEW S \in Seq(Collectives), NEW pos \in [Groups -> Nat], Behind(S, pos),
           \A g \in Groups : OnWay(S, g, pos[g]),
           NEW x \in {"reduceSizes", "reduceGlobal", "reduceValues"},
           \A g \in Groups : handler[g] # <<>> /\ Head(handler[g]) = x
    PROVE  /\ \A g \in Groups : bcasts[g] = <<>> /\ pos[g] = pos[TLGroup]
           /\ pos[TLGroup] < Len(S)
<1>1. ASSUME NEW g \in Groups PROVE pos[g] < Len(S) /\ S[pos[g] + 1] = x
    <2>1. CollectiveOf(x) = x /\ x # "none"
        BY StepTable
    <2>2. OnWay(S, g, pos[g]) /\ handler[g] # <<>> /\ Head(handler[g]) = x
        OBVIOUS
    <2> QED BY <2>1, <2>2, NextFacts
<1>2. PICK M : bcasts \in [Groups -> Seq(M)]
    BY DEF Behind
<1>3. ASSUME NEW g \in Groups PROVE bcasts[g] = <<>> /\ pos[g] = pos[TLGroup]
    <2> DEFINE b == bcasts[g]
               k == pos[g]
               l == pos[TLGroup]
    <2>1. b \in Seq(M) /\ k \in Nat /\ k + Len(b) = l
          /\ \A i \in 1..Len(b) : S[k + i] \in {"dsg", "sizes"}
        BY <1>2 DEF Behind
    <2>2. S[k + 1] = x
        BY <1>1
    <2> HIDE DEF b, k, l
    <2>3. 1 \notin 1..Len(b)
        BY <2>1, <2>2
    <2>4. Len(b) \in Nat
        BY <2>1, LenProperties
    <2>5. Len(b) = 0
        BY <2>3, <2>4
    <2>6. b = <<>> /\ k = l
        BY <2>1, <2>5, EmptySeq
    <2> QED BY <2>6 DEF b, k, l
<1>4. TLGroup \in Groups
    BY ManagerAssumption
<1> QED BY <1>1, <1>3, <1>4

\* A reduction.
LEMMA CollectiveTogether ==
    ASSUME Shapes, Together, Collective
    PROVE  Shapes' /\ Together'
<1>1. PICK x \in {"reduceSizes", "reduceGlobal", "reduceValues"} :
        /\ \A g \in Groups : handler[g] # <<>> /\ Head(handler[g]) = x
        /\ handler' = [g \in Groups |-> Tail(handler[g])]
        /\ UNCHANGED <<todo, stage, toWorker, phase, current, workerTasks, grid, bcasts>>
    BY CollectiveFacts
<1>2. PICK S \in Seq(Collectives), pos \in [Groups -> Nat] :
            Behind(S, pos) /\ \A h \in Groups : OnWay(S, h, pos[h])
    BY DEF Together
<1>3. /\ \A g \in Groups : bcasts[g] = <<>> /\ pos[g] = pos[TLGroup]
      /\ pos[TLGroup] < Len(S)
    BY <1>1, <1>2, AllMeet
<1>4. handler \in [Groups -> Seq(Handled)]
    BY DEF Shapes
<1>5. TLGroup \in Groups
    BY ManagerAssumption
<1> DEFINE q == [g \in Groups |-> pos[g] + 1]
<1>6. q \in [Groups -> Nat] /\ \A g \in Groups : q[g] = pos[g] + 1
    OBVIOUS
<1> HIDE DEF q
<1>7. Behind(S, q)'
    <2>1. bcasts' = bcasts /\ \E M : bcasts' \in [Groups -> Seq(M)]
        BY <1>1, <1>2 DEF Behind
    <2>2. q[TLGroup] <= Len(S)
        <3> DEFINE k == pos[TLGroup]
                   l == Len(S)
        <3>1. k \in Nat /\ l \in Nat /\ k < l /\ q[TLGroup] = k + 1
            BY <1>3, <1>5, <1>6, LenProperties
        <3> HIDE DEF k, l
        <3>2. q[TLGroup] <= l
            BY <3>1
        <3> QED BY <3>2 DEF l
    <2>3. \A g \in Groups : bcasts'[g] = <<>> /\ q[g] = q[TLGroup] /\ q[g] \in Nat
        BY <1>3, <1>5, <1>6, <2>1
    <2>4. Len(<<>>) = 0
        OBVIOUS
    <2>5. ASSUME NEW g \in Groups
          PROVE  /\ q[g] + Len(bcasts'[g]) = q[TLGroup]
                 /\ \A i \in 1..Len(bcasts'[g]) :
                        bcasts'[g][i].kind = S[q[g] + i] /\ S[q[g] + i] \in {"dsg", "sizes"}
        <3>1. Len(bcasts'[g]) = 0
            BY <2>3, <2>4
        <3> QED BY <2>3, <3>1
    <2>6. bcasts'[TLGroup] = <<>>
        BY <1>5, <2>3
    <2> QED BY <2>1, <2>2, <2>5, <2>6 DEF Behind
<1>8. ASSUME NEW g \in Groups PROVE OnWay(S, g, q[g])'
    <2>1. /\ handler[g] # <<>> /\ handler'[g] = Tail(handler[g]) /\ toWorker'[g] = toWorker[g]
          /\ phase'[g] = phase[g] /\ current'[g] = current[g] /\ UNCHANGED <<todo, stage>>
          /\ OnWay(S, g, pos[g])
        BY <1>1, <1>2
    <2>2. Head(handler[g]) = x /\ x \notin Transforms /\ CollectiveOf(x) # "none"
        BY <1>1, StepTable DEF Transforms
    <2>3. \A m \in Form : InForm(g, m) => InForm(g, m)'
        BY <1>1, SameForm
    <2>4. \A m \in Form, c \in Place :
            <<Head(handler[g]), <<pos[g], m>>, c>> \in StepWays(S, g) /\ InForm(g, m)
                => c[1] = q[g] /\ InForm(g, c[2])'
        BY <1>6, <2>2, <2>3, AlongFacts
    <2> DEFINE l == q[g]
    <2> HIDE DEF l
    <2>5. OnWay(S, g, l)'
        BY <1>4, <2>1, <2>4, StepAlong DEF l
    <2> QED BY <2>5 DEF l
<1>9. Together'
    BY <1>6, <1>7, <1>8 DEF Together
<1>10. Shapes'
    <2>1. \A g \in Groups : handler'[g] \in Seq(Handled)
        <3> SUFFICES ASSUME NEW g \in Groups PROVE Tail(handler[g]) \in Seq(Handled)
            BY <1>1
        <3>1. handler[g] \in Seq(Handled) /\ handler[g] # <<>>
            BY <1>1, <1>4
        <3> QED BY <3>1, HeadTailProperties
    <2>2. handler' \in [Groups -> Seq(Handled)]
        BY <1>1, <2>1
    <2>3. \A g \in Groups : phase'[g] # "running" => handler'[g] = <<>>
        BY <1>1 DEF Shapes
    <2>4. /\ \A g \in Groups : phase'[g] = "running" => current'[g].sig \notin {"ADD_TASK", "RECOMPUTE"}
          /\ grid' = [t \in Tasks |-> grid'[t]]
        BY <1>1 DEF Shapes
    <2>5. \A t \in Tasks : grid'[t] = [step |-> grid'[t].step, of |-> grid'[t].of, nodal |-> grid'[t].nodal]
        BY <1>1 DEF Shapes
    <2> QED BY <2>2, <2>3, <2>4, <2>5 DEF Shapes
<1> QED BY <1>9, <1>10

\* Commands carry signals.
LEMMA CommandSignals == \A c \in PG!Command : c.sig \in PG!Signals
BY DEF PG!Command, PG!SignalsWithTask, PG!Signals

\* A group takes its next command, and begins the handler.
LEMMA ReceiveTogether ==
    ASSUME Proved!TypeOK, Shapes, Together, NEW g \in Groups, ReceiveSignal(g)
    PROVE  Shapes' /\ Together'
<1> DEFINE c == Head(toWorker[g])
<1>1. /\ phase[g] = "idle" /\ toWorker[g] # <<>> /\ current'[g] = c /\ toWorker'[g] = Tail(toWorker[g])
      /\ phase'[g] = "running" /\ phase' = [phase EXCEPT ![g] = "running"]
      /\ \A h \in Groups : h # g => /\ current'[h] = current[h] /\ toWorker'[h] = toWorker[h]
                                    /\ phase'[h] = phase[h]
      /\ UNCHANGED <<workerTasks, todo, stage, grid, bcasts>>
    BY CommandTypes DEF ReceiveSignal, PG!ReceiveSignal, methodVars, gridVars, commVars
<1>2. handler \in [Groups -> Seq(Handled)] /\ handler[g] = <<>>
    BY <1>1 DEF Shapes
<1>3. handler' = [handler EXCEPT ![g] = HandlerOf(c.sig)] /\ handler'[g] = HandlerOf(c.sig)
      /\ \A h \in Groups : h # g => handler'[h] = handler[h]
    BY <1>1, <1>2 DEF ReceiveSignal
<1>4. PICK S \in Seq(Collectives), pos \in [Groups -> Nat] :
            Behind(S, pos) /\ \A h \in Groups : OnWay(S, h, pos[h])
    BY DEF Together
<1> DEFINE n == pos[g]
<1>5. OnWay(S, g, n) /\ n \in Nat
    BY <1>4
<1> HIDE DEF c, n
<1>6. PICK m \in Form, y \in Place, z \in Place :
        /\ InForm(g, m)
        /\ Path(StepWays(S, g), handler[g], <<n, m>>, y)
        /\ Path(CommandWays(S, g), toWorker[g], y, z)
        /\ Path(TodoWays(S, g), todo, z, Now(S, stage))
    BY <1>5 DEF OnWay
<1> DEFINE a == <<n, m>>
<1>7. a = y /\ a[2] = m
    BY <1>2, <1>5, <1>6, PathEmpty, PlaceParts
<1> HIDE DEF a
<1>8. toWorker[g] \in Seq(PG!Command)
    BY CommandTypes
<1>9. PICK d \in Place : <<c, y, d>> \in CommandWays(S, g) /\ Path(CommandWays(S, g), toWorker'[g], d, z)
    <2>1. PICK d \in Place : /\ <<Head(toWorker[g]), y, d>> \in CommandWays(S, g)
                             /\ Path(CommandWays(S, g), Tail(toWorker[g]), d, z)
        BY <1>1, <1>6, <1>8, PathHead
    <2> QED BY <1>1, <2>1 DEF c
<1>10. <<c.sig, y, d>> \in SignalWays(S, g)
    BY <1>9 DEF CommandWays
<1>11. c.sig \in PG!Signals
    <2>1. c \in PG!Command
        BY <1>1, <1>8, HeadTailProperties DEF c
    <2> QED BY <2>1, CommandSignals
<1>12. /\ HandlerOf(c.sig) \in Seq(Handled)
       /\ Path(StepWays(S, g), HandlerOf(c.sig), y, d)
       /\ c.sig \in NeedNodal => \A i \in 1..Len(HandlerOf(c.sig)) : HandlerOf(c.sig)[i] \notin Transforms
    BY <1>10, <1>11, HandlerPath
<1>13. c.sig \notin {"ADD_TASK", "RECOMPUTE"} /\ (c.sig \in NeedNodal => m = "nodal")
    BY <1>7, <1>10, SignalFacts
<1>14. \A h \in Groups, k \in Form : InForm(h, k) => InForm(h, k)'
    BY <1>1, SameForm
<1>15. OnWay(S, g, n)'
    <2>1. InForm(g, m)' /\ Path(StepWays(S, g), handler'[g], <<n, m>>, d)
        BY <1>3, <1>6, <1>7, <1>12, <1>14 DEF a
    <2>2. Path(TodoWays(S, g), todo', z, Now(S, stage'))
        BY <1>1, <1>6
    <2>3. phase'[g] = "running" /\ current'[g].sig \in NeedNodal =>
                m = "nodal" /\ \A i \in 1..Len(handler'[g]) : handler'[g][i] \notin Transforms
        BY <1>1, <1>3, <1>12, <1>13
    <2> QED BY <1>9, <2>1, <2>2, <2>3, OnWayNext
<1>16. ASSUME NEW h \in Groups, h # g PROVE OnWay(S, h, pos[h])'
    <2>1. \A k \in Form : InForm(h, k) => InForm(h, k)'
        BY <1>14
    <2>2. /\ OnWay(S, h, pos[h]) /\ handler'[h] = handler[h] /\ toWorker'[h] = toWorker[h]
          /\ UNCHANGED <<todo, stage>>
          /\ (phase'[h] = "running" => phase[h] = "running" /\ current'[h] = current[h])
        BY <1>1, <1>3, <1>4, <1>16
    <2> QED BY <2>1, <2>2, Elsewhere
<1>17. Behind(S, pos)'
    BY <1>1, <1>4, BehindStill
<1>18. \A h \in Groups : OnWay(S, h, pos[h])'
    BY <1>15, <1>16 DEF n
<1>19. Together'
    BY <1>17, <1>18 DEF Together
<1>20. handler' \in [Groups -> Seq(Handled)]
    BY <1>2, <1>3, <1>12
<1>21. \A h \in Groups : phase'[h] # "running" => handler'[h] = <<>>
    BY <1>1, <1>3 DEF Shapes
<1>22. \A h \in Groups : phase'[h] = "running" => current'[h].sig \notin {"ADD_TASK", "RECOMPUTE"}
    BY <1>1, <1>13 DEF Shapes
<1>23. grid' = [t \in Tasks |-> grid'[t]]
    BY <1>1 DEF Shapes
<1>24. \A t \in Tasks : grid'[t] = [step |-> grid'[t].step, of |-> grid'[t].of, nodal |-> grid'[t].nodal]
    BY <1>1 DEF Shapes
<1>25. Shapes'
    BY <1>20, <1>21, <1>22, <1>23, <1>24 DEF Shapes
<1> QED BY <1>19, <1>25

\* A step that leaves the groups' commands, handlers and grids as they are.
LEMMA NothingHappens ==
    ASSUME Shapes, Together, UNCHANGED <<todo, stage, handler, toWorker, workerTasks, grid, bcasts>>,
           \A h \in Groups : phase'[h] = "running" <=> phase[h] = "running",
           \A h \in Groups : phase'[h] = "running" => current'[h] = current[h]
    PROVE  Shapes' /\ Together'
<1>1. PICK S \in Seq(Collectives), pos \in [Groups -> Nat] :
            Behind(S, pos) /\ \A h \in Groups : OnWay(S, h, pos[h])
    BY DEF Together
<1>2. Behind(S, pos)'
    BY <1>1, BehindStill
<1>3. ASSUME NEW h \in Groups PROVE OnWay(S, h, pos[h])'
    <2>1. \A m \in Form : InForm(h, m) => InForm(h, m)'
        BY SameForm
    <2>2. /\ OnWay(S, h, pos[h]) /\ handler'[h] = handler[h] /\ toWorker'[h] = toWorker[h]
          /\ UNCHANGED <<todo, stage>>
          /\ (phase'[h] = "running" => phase[h] = "running" /\ current'[h] = current[h])
        BY <1>1
    <2> QED BY <2>1, <2>2, Elsewhere
<1>4. Together'
    BY <1>2, <1>3 DEF Together
<1>5. /\ handler' \in [Groups -> Seq(Handled)]
      /\ \A h \in Groups : phase'[h] # "running" => handler'[h] = <<>>
    BY DEF Shapes
<1>6. \A h \in Groups : phase'[h] = "running" => current'[h].sig \notin {"ADD_TASK", "RECOMPUTE"}
    BY DEF Shapes
<1>7. grid' = [t \in Tasks |-> grid'[t]]
    BY DEF Shapes
<1>8. \A t \in Tasks : grid'[t] = [step |-> grid'[t].step, of |-> grid'[t].of, nodal |-> grid'[t].nodal]
    BY DEF Shapes
<1> QED BY <1>4, <1>5, <1>6, <1>7, <1>8 DEF Shapes

\* The steps between a command and the next one, and those outside the groups.
LEMMA StatusTogether ==
    ASSUME Proved!TypeOK, Shapes, Together,
           \/ \E g \in Groups : SendStatus(g) \/ DeliverStatus(g)
           \/ RemoteFileArrives
           \/ UNCHANGED vars
    PROVE  Shapes' /\ Together'
<1> USE DEF managerSide, workerVars, protocolVars, methodVars, gridVars, commVars
<1>1. CASE \E g \in Groups : SendStatus(g)
    <2>1. PICK g \in Groups : SendStatus(g)
        BY <1>1
    <2>2. /\ UNCHANGED <<todo, stage, handler, toWorker, workerTasks, grid, bcasts>>
          /\ phase[g] = "done" /\ phase'[g] # "running"
          /\ \A h \in Groups : h # g => phase'[h] = phase[h] /\ current'[h] = current[h]
        BY <2>1, CommandTypes DEF SendStatus, PG!SendStatus
    <2> QED BY <2>2, NothingHappens
<1>2. CASE \E g \in Groups : DeliverStatus(g)
    <2>1. UNCHANGED <<todo, stage, handler, toWorker, workerTasks, grid, bcasts, phase, current>>
        BY <1>2 DEF DeliverStatus, PG!DeliverStatus, PG!workerVars
    <2> QED BY <2>1, NothingHappens
<1>3. CASE RemoteFileArrives
    BY <1>3, NothingHappens DEF RemoteFileArrives
<1>4. CASE UNCHANGED vars
    BY <1>4, NothingHappens DEF vars
<1> QED BY <1>1, <1>2, <1>3, <1>4

\* The task of the command a group executes is the group's own.
LEMMA RunningCarried ==
    ASSUME Proved!TypeOK, NEW g \in Groups, phase[g] = "running", current[g].sig \in PG!TaskSignals
    PROVE  current[g].task \in Tasks /\ Proved!Carried(g, current[g].task)
<1> DEFINE c == current[g]
           s == toWorker[g]
           p == <<c>>
<1>1. c \in PG!Command /\ s \in Seq(PG!Command)
    BY CommandTypes
<1>2. c.task \in Tasks
    BY <1>1 DEF PG!Command, PG!SignalsWithTask
<1>3. p \in Seq(PG!Command) /\ Len(p) = 1 /\ p[1] = c
    <2> HIDE DEF c
    <2> QED BY <1>1
<1>4. Proved!Pending(g) = p \o s
    BY DEF Proved!Pending
<1> HIDE DEF c, s, p
<1>5. Len(p \o s) = 1 + Len(s) /\ Len(s) \in Nat /\ (p \o s)[1] = c
    <2>1. Len(p \o s) = Len(p) + Len(s) /\ Len(s) \in Nat /\ \A i \in 1..Len(p) : (p \o s)[i] = p[i]
        BY <1>1, <1>3, ConcatParts
    <2> QED BY <1>3, <2>1
<1>6. 1 \in 1..Len(Proved!Pending(g)) /\ Proved!Pending(g)[1] = c
    BY <1>4, <1>5
<1>7. c.sig \in Proved!TaskSignals
    BY SameOperators DEF c
<1>8. Proved!Carried(g, c.task)
    BY <1>6, <1>7 DEF Proved!Carried
<1> QED BY <1>2, <1>8 DEF c

\* The tasks of a group after a command.
LEMMA TasksOf ==
    ASSUME NEW c \in PG!Command, NEW w \in Seq(Tasks), NEW t \in ToSet(PG!TasksAfter(c, w))
    PROVE  t \in ToSet(w) \/ (c.sig \in PG!TaskSignals /\ t = c.task)
<1> DEFINE r == PG!TasksAfter(c, w)
<1>1. CASE c.sig \in PG!TaskSignals
    <2>1. r = Append(w, c.task) /\ c.task \in Tasks
        BY <1>1 DEF PG!TasksAfter, PG!TaskSignals, PG!Command, PG!SignalsWithTask
    <2> DEFINE u == c.task
    <2>2. u \in Tasks
        BY <2>1
    <2> HIDE DEF u
    <2> DEFINE x == Append(w, u)
    <2>3. Len(w) \in Nat /\ Len(x) = Len(w) + 1 /\ (\A i \in 1..Len(w) : x[i] = w[i])
          /\ x[Len(w) + 1] = u /\ x \in Seq(Tasks)
        BY <2>2, AppendProperties, LenProperties
    <2> HIDE DEF x
    <2>4. ToSet(x) \subseteq ToSet(w) \cup {u}
        <3>1. DOMAIN x = 1..Len(x) /\ DOMAIN w = 1..Len(w)
            BY <2>3, LenProperties
        <3> QED BY <2>3, <3>1 DEF ToSet
    <2>5. r = x
        BY <2>1 DEF x, u
    <2> QED BY <1>1, <2>4, <2>5 DEF u
<1>2. CASE c.sig = "RESCHEDULE_REMOVE_TASK"
    <2> DEFINE x == Proved!RemoveFirst(w, c.task)
    <2>1. r = x
        BY <1>2, SameOperators DEF PG!TasksAfter, PG!TaskSignals
    <2>2. x \in Seq(Tasks) /\ \A i \in 1..Len(x) : \E j \in 1..Len(w) : w[j] = x[i]
        <3> DEFINE e == c.task
        <3> HIDE DEF e
        <3>1. Proved!RemoveFirst(w, e) \in Seq(Tasks)
            BY ProvedAssumption, Proved!RemoveFirstType
        <3>2. \A i \in 1..Len(Proved!RemoveFirst(w, e)) : \E j \in 1..Len(w) : w[j] = Proved!RemoveFirst(w, e)[i]
            BY ProvedAssumption, Proved!RemoveFirstKeeps
        <3> QED BY <3>1, <3>2 DEF e
    <2> HIDE DEF x
    <2>3. DOMAIN x = 1..Len(x) /\ DOMAIN w = 1..Len(w)
        BY <2>2, LenProperties
    <2>4. ToSet(x) \subseteq ToSet(w)
        BY <2>2, <2>3 DEF ToSet
    <2> QED BY <2>1, <2>4
<1>3. CASE c.sig = "EXIT"
    <2>1. r = <<>>
        BY <1>3 DEF PG!TasksAfter, PG!TaskSignals
    <2> QED BY <2>1 DEF ToSet
<1>4. CASE c.sig \notin PG!TaskSignals \cup {"RESCHEDULE_REMOVE_TASK", "EXIT"}
    BY <1>4 DEF PG!TasksAfter
<1> QED BY <1>1, <1>2, <1>3, <1>4

\* The commands that give a group a task.
Giving == {"RUN_FIRST", "RESCHEDULE_ADD_TASK"}

\* The grids after a command.
LEMMA GridsOf ==
    ASSUME Shapes, NEW g, NEW c \in PG!Command, grid' = GridsAfter(g, c)
    PROVE  /\ grid' = [t \in Tasks |-> grid'[t]]
           /\ \A t \in Tasks :
                grid'[t] = [step |-> grid'[t].step, of |-> grid'[t].of, nodal |-> grid'[t].nodal]
           /\ c.sig \notin Giving => \A t \in Tasks : grid'[t].nodal = grid[t].nodal
           /\ c.sig \in Giving => /\ c.task \in Tasks /\ grid'[c.task].nodal = TRUE
                                  /\ \A t \in Tasks : t # c.task => grid'[t] = grid[t]
<1>1. /\ grid = [t \in Tasks |-> grid[t]]
      /\ \A t \in Tasks : grid[t] = [step |-> grid[t].step, of |-> grid[t].of, nodal |-> grid[t].nodal]
    BY DEF Shapes
<1>3. c.sig \in Giving => c.task \in Tasks
    BY DEF Giving, PG!Command, PG!SignalsWithTask, PG!TaskSignals
<1> DEFINE v == TRUE
           u == c.task
           New(r) == r = [step |-> r.step, of |-> r.of, nodal |-> r.nodal] /\ r.nodal = v
<1>4. CASE c.sig \in Giving
    <2>1. u \in Tasks
        BY <1>3, <1>4
    <2>2. ASSUME NEW k, NEW o, NEW r, r = [step |-> k, of |-> o, nodal |-> v]
          PROVE  New(r)
        BY <2>2, GridParts
    <2>3. \E r : New(r) /\ grid' = [grid EXCEPT ![u] = r]
        <3>1. CASE c.sig = "RUN_FIRST"
            <4> DEFINE r == [step |-> 1, of |-> {c.task}, nodal |-> TRUE]
            <4>1. grid' = [grid EXCEPT ![u] = r]
                BY <3>1 DEF GridsAfter
            <4>2. New(r)
                BY <2>2
            <4> HIDE DEF r, New, u
            <4> QED BY <4>1, <4>2
        <3>2. CASE c.sig = "RESCHEDULE_ADD_TASK"
            <4> DEFINE r == [step |-> LatestStep(dsg[g]), of |-> Systems(g), nodal |-> TRUE]
            <4>1. grid' = [grid EXCEPT ![u] = r]
                BY <3>2 DEF GridsAfter
            <4>2. New(r)
                BY <2>2
            <4> HIDE DEF r, New, u
            <4> QED BY <4>1, <4>2
        <3> HIDE DEF New
        <3> QED BY <1>4, <3>1, <3>2 DEF Giving
    <2>4. PICK r : New(r) /\ grid' = [grid EXCEPT ![u] = r]
        BY <2>3
    <2> HIDE DEF u
    <2>5. grid' = [t \in Tasks |-> grid'[t]] /\ grid'[u] = r /\ \A t \in Tasks : t # u => grid'[t] = grid[t]
        BY <1>1, <2>1, <2>4
    <2> HIDE DEF v
    <2>6. \A t \in Tasks : grid'[t] = [step |-> grid'[t].step, of |-> grid'[t].of, nodal |-> grid'[t].nodal]
        BY <1>1, <2>4, <2>5
    <2>7. grid'[u].nodal = v
        BY <2>4, <2>5
    <2> QED BY <1>4, <2>1, <2>5, <2>6, <2>7 DEF u, v
<1>5. CASE c.sig = "RUN_NEXT"
    <2> DEFINE W == ToSet(workerTasks[g])
    <2>1. grid' = [t \in Tasks |-> IF t \in W THEN [grid[t] EXCEPT !.step = @ + 1, !.of = {t}] ELSE grid[t]]
        BY <1>5 DEF GridsAfter
    <2>2. c.sig \notin Giving
        BY <1>5 DEF Giving
    <2> HIDE DEF W
    <2>3. ASSUME NEW t \in Tasks
          PROVE  /\ grid'[t] = [step |-> grid'[t].step, of |-> grid'[t].of, nodal |-> grid'[t].nodal]
                 /\ grid'[t].nodal = grid[t].nodal
        <3> DEFINE r == grid[t]
                   k == r.step + 1
                   o == {t}
                   r1 == [r EXCEPT !.step = k]
                   r2 == [r1 EXCEPT !.of = o]
        <3>1. t \notin W => grid'[t] = r
            BY <2>1
        <3>2. t \in W => grid'[t] = r2
            BY <2>1
        <3>3. r = [step |-> r.step, of |-> r.of, nodal |-> r.nodal]
            BY <1>1
        <3> HIDE DEF k, o, r
        <3>4. r1 = [step |-> k, of |-> r.of, nodal |-> r.nodal]
            BY <3>3
        <3> HIDE DEF r1
        <3>5. r2 = [step |-> k, of |-> o, nodal |-> r.nodal]
            BY <3>4
        <3> HIDE DEF r2
        <3>6. r2 = [step |-> r2.step, of |-> r2.of, nodal |-> r2.nodal] /\ r2.nodal = r.nodal
            BY <3>5, GridParts
        <3>7. CASE t \in W
            BY <3>2, <3>6, <3>7 DEF r
        <3>8. CASE t \notin W
            BY <3>1, <3>3, <3>8 DEF r
        <3> QED BY <3>7, <3>8
    <2>4. grid' = [t \in Tasks |-> grid'[t]]
        BY <2>1
    <2> QED BY <2>2, <2>3, <2>4
<1>6. CASE c.sig \notin Giving \cup {"RUN_NEXT"}
    <2>1. grid' = grid
        BY <1>6 DEF GridsAfter, Giving
    <2> QED BY <1>1, <1>6, <2>1
<1> QED BY <1>4, <1>5, <1>6

\* A group executes its command.
LEMMA ExecuteTogether ==
    ASSUME Proved!TypeOK, Proved!EachTaskOnce, Proved!CarriedAreListed, Shapes, Together,
           NEW g \in Groups, Execute(g)
    PROVE  Shapes' /\ Together'
<1> DEFINE c == current[g]
<1>1. /\ handler[g] = <<>> /\ phase[g] = "running" /\ phase'[g] = "done"
      /\ workerTasks'[g] = PG!TasksAfter(c, workerTasks[g])
      /\ \A h \in Groups : h # g => workerTasks'[h] = workerTasks[h] /\ phase'[h] = phase[h]
      /\ grid' = GridsAfter(g, c)
      /\ UNCHANGED <<todo, stage, handler, toWorker, current, bcasts>>
    BY CommandTypes DEF Execute, PG!Execute, methodVars, commVars
<1>2. c \in PG!Command /\ c.sig \notin {"ADD_TASK", "RECOMPUTE"}
    BY <1>1, CommandTypes DEF Shapes
<1>3. c.sig \in PG!TaskSignals <=> c.sig \in Giving
    BY <1>2 DEF PG!TaskSignals, Giving
<1>4. c.sig \in PG!TaskSignals => c.task \in Tasks /\ Proved!Carried(g, c.task)
    BY <1>1, RunningCarried
<1>5. /\ grid' = [t \in Tasks |-> grid'[t]]
      /\ \A t \in Tasks :
            grid'[t] = [step |-> grid'[t].step, of |-> grid'[t].of, nodal |-> grid'[t].nodal]
      /\ c.sig \notin Giving => \A t \in Tasks : grid'[t].nodal = grid[t].nodal
      /\ c.sig \in Giving => /\ c.task \in Tasks /\ grid'[c.task].nodal = TRUE
                             /\ \A t \in Tasks : t # c.task => grid'[t] = grid[t]
    BY <1>1, <1>2, GridsOf
<1>6. PICK S \in Seq(Collectives), pos \in [Groups -> Nat] :
            Behind(S, pos) /\ \A h \in Groups : OnWay(S, h, pos[h])
    BY DEF Together
<1>7. \A h \in Groups : workerTasks[h] \in Seq(Tasks) /\ DOMAIN workerTasks[h] = 1..Len(workerTasks[h])
    BY CommandTypes, LenProperties
<1>8. \A h \in Groups : ToSet(workerTasks[h]) \subseteq Tasks
    BY <1>7, ElementOfSeq DEF ToSet
<1> HIDE DEF c
<1>9. ASSUME NEW h \in Groups, h # g, NEW m \in Form, InForm(h, m)
      PROVE  InForm(h, m)'
    <2>1. \A t \in ToSet(workerTasks[h]) : Proved!Carried(h, t)
        BY <1>7 DEF ToSet, Proved!Carried
    <2>2. ASSUME NEW t \in ToSet(workerTasks[h]) PROVE grid'[t].nodal = grid[t].nodal
        <3>1. t \in Tasks
            BY <1>8
        <3>2. CASE c.sig \notin Giving
            BY <1>5, <3>1, <3>2
        <3>3. CASE c.sig \in Giving
            <4>1. t # c.task
                BY <1>3, <1>4, <1>9, <2>1, <3>1, <3>3, TasksApart
            <4> QED BY <1>5, <3>1, <3>3, <4>1
        <3> QED BY <3>2, <3>3
    <2>3. workerTasks'[h] = workerTasks[h]
        BY <1>1, <1>9
    <2> QED BY <1>9, <2>2, <2>3 DEF InForm
<1>10. ASSUME NEW h \in Groups, h # g PROVE OnWay(S, h, pos[h])'
    <2>1. \A m \in Form : InForm(h, m) => InForm(h, m)'
        BY <1>9, <1>10
    <2>2. /\ OnWay(S, h, pos[h]) /\ handler'[h] = handler[h] /\ toWorker'[h] = toWorker[h]
          /\ UNCHANGED <<todo, stage>>
          /\ (phase'[h] = "running" => phase[h] = "running" /\ current'[h] = current[h])
        BY <1>1, <1>6, <1>10
    <2> QED BY <2>1, <2>2, Elsewhere
<1>11. OnWay(S, g, pos[g])'
    <2> DEFINE n == pos[g]
    <2>1. OnWay(S, g, n)
        BY <1>6
    <2> HIDE DEF n
    <2>2. PICK m \in Form, y \in Place, z \in Place :
            /\ InForm(g, m)
            /\ Path(StepWays(S, g), handler[g], <<n, m>>, y)
            /\ Path(CommandWays(S, g), toWorker[g], y, z)
            /\ Path(TodoWays(S, g), todo, z, Now(S, stage))
            /\ phase[g] = "running" /\ current[g].sig \in NeedNodal =>
                    m = "nodal" /\ \A i \in 1..Len(handler[g]) : handler[g][i] \notin Transforms
        BY <2>1 DEF OnWay
    <2>3. c.sig \in Giving => m = "nodal"
        BY <1>1, <2>2 DEF c, Giving, NeedNodal
    <2>4. InForm(g, m)'
        <3> SUFFICES ASSUME NEW t \in ToSet(workerTasks'[g])
                     PROVE  grid'[t].nodal = (m = "nodal")
            BY DEF InForm
        <3>1. t \in ToSet(workerTasks[g]) \/ (c.sig \in PG!TaskSignals /\ t = c.task)
            BY <1>1, <1>2, <1>7, TasksOf
        <3>2. CASE c.sig \in Giving /\ t = c.task
            <4>1. (m = "nodal") = TRUE
                BY <2>3, <3>2
            <4> QED BY <1>5, <3>2, <4>1
        <3>3. CASE t \in ToSet(workerTasks[g]) /\ ~(c.sig \in Giving /\ t = c.task)
            <4>1. t \in Tasks /\ grid[t].nodal = (m = "nodal")
                BY <1>8, <2>2, <3>3 DEF InForm
            <4>2. grid'[t].nodal = grid[t].nodal
                BY <1>5, <3>3, <4>1
            <4> QED BY <4>1, <4>2
        <3> QED BY <1>3, <3>1, <3>2, <3>3
    <2>5. /\ Path(StepWays(S, g), handler'[g], <<n, m>>, y)
          /\ Path(CommandWays(S, g), toWorker'[g], y, z)
          /\ Path(TodoWays(S, g), todo', z, Now(S, stage'))
        BY <1>1, <2>2
    <2>6. phase'[g] # "running"
        BY <1>1
    <2>7. OnWay(S, g, n)'
        BY <2>4, <2>5, <2>6, OnWayNext
    <2> QED BY <2>7 DEF n
<1>12. Behind(S, pos)'
    BY <1>1, <1>6, BehindStill
<1>13. \A h \in Groups : OnWay(S, h, pos[h])'
    BY <1>10, <1>11
<1>14. Together'
    BY <1>12, <1>13 DEF Together
<1>15. /\ handler' \in [Groups -> Seq(Handled)]
       /\ \A h \in Groups : phase'[h] # "running" => handler'[h] = <<>>
    BY <1>1 DEF Shapes
<1>16. \A h \in Groups : phase'[h] = "running" => current'[h].sig \notin {"ADD_TASK", "RECOMPUTE"}
    BY <1>1 DEF Shapes
<1>17. Shapes'
    BY <1>5, <1>15, <1>16 DEF Shapes
<1> QED BY <1>14, <1>17

-----------------------------------------------------------------------------
\* All steps.

LEMMA NextTogether ==
    ASSUME Proved!TypeOK, Proved!EachTaskOnce, Proved!CarriedAreListed, TaskInv,
           Shapes, Together, [Next]_vars
    PROVE  Shapes' /\ Together'
<1>1. todo \in Seq(StepType)
    BY DEF TaskInv, StepType
<1>2. CASE ManagerStep
    BY <1>1, <1>2, ManagerTogether
<1>3. CASE CallMethod
    BY <1>3, CallTogether
<1>4. CASE Collective
    BY <1>4, CollectiveTogether
<1>5. ASSUME NEW g \in Groups, WorkerStep(g) PROVE Shapes' /\ Together'
    <2>1. CASE ReceiveSignal(g)
        BY <2>1, ReceiveTogether
    <2>2. CASE HandlerStep(g)
        BY <2>2, HandlerTogether
    <2>3. CASE Execute(g)
        BY <2>3, ExecuteTogether
    <2>4. CASE SendStatus(g)
        BY <2>4, StatusTogether
    <2> QED BY <1>5, <2>1, <2>2, <2>3, <2>4 DEF WorkerStep
<1>6. CASE \/ \E g \in Groups : DeliverStatus(g)
           \/ RemoteFileArrives
           \/ UNCHANGED vars
    BY <1>6, StatusTogether
<1> QED BY <1>2, <1>3, <1>4, <1>5, <1>6 DEF Next

\* The groups are together throughout.
LEMMA GroupsInv == Spec => [](Shapes /\ Together)
<1> DEFINE Side == Proved!ProtocolInv /\ Proved!EachTaskOnce /\ Proved!CarriedAreListed /\ TaskInv
           Inv == Side /\ Shapes /\ Together
<1>1. Init => Inv
    <2> SUFFICES ASSUME Init PROVE Inv
        OBVIOUS
    <2>1. Proved!Init
        BY InitSimulation
    <2>2. Proved!TypeOK /\ \A g \in Groups : Proved!GroupInv(g)
        BY <2>1, ProvedAssumption, Proved!InitType, Proved!InitGroupInv
    <2>3. Proved!EachTaskOnce /\ Proved!CarriedAreListed
        BY <2>1, ProvedAssumption, Proved!InitOnce, Proved!InitCarried
    <2> QED BY <2>2, <2>3, TaskInit, TogetherInit DEF Proved!ProtocolInv
<1>2. Inv /\ [Next]_vars => Inv'
    <2> SUFFICES ASSUME Inv, [Next]_vars PROVE Inv'
        OBVIOUS
    <2>1. [Proved!Next]_(Proved!vars)
        BY StepSimulation
    <2>2. Proved!TypeOK
        BY DEF Proved!ProtocolInv
    <2>3. Proved!TypeOK' /\ \A g \in Groups : Proved!GroupInv(g)'
        BY <2>1, <2>2, ProvedAssumption, Proved!NextType, Proved!NextGroupInv
    <2>4. Proved!EachTaskOnce' /\ Proved!CarriedAreListed'
        BY <2>1, <2>2, ProvedAssumption, Proved!NextOnce, Proved!NextCarried
    <2>5. TaskInv'
        BY <2>2, TaskNext
    <2>6. Shapes' /\ Together'
        BY <2>2, NextTogether
    <2> QED BY <2>3, <2>4, <2>5, <2>6 DEF Proved!ProtocolInv
<1>3. Inv => Shapes /\ Together
    OBVIOUS
<1> HIDE DEF Inv
<1> QED BY <1>1, <1>2, <1>3, PTL DEF Spec

\* Over all the methods, in whatever order the application calls them, with commands still at work
\* and tasks moved between the groups: a group solves, interpolates, takes norms of and hierarchizes
\* nodal values only, and dehierarchizes hierarchical coefficients only (hierarchizeFullGrids and
\* dehierarchizeFullGrids work in place, and nothing in a grid says which form its values have).
THEOREM FormsRight == Spec => []NodalWhenUsed
BY GroupsInv, NodalRight, PTL

\* The groups call the collectives of globalReduceComm, reductions and broadcasts, in the same
\* order, also where the root of a broadcast goes on before the others take part, and where the
\* third level group and the others get different commands: no group is in one collective while
\* another one is in the next.
THEOREM CollectivesInOrder == Spec => []CollectivesMatch
BY GroupsInv, CollectivesRight, PTL
-----------------------------------------------------------------------------
\* The exchanges between the manager and the third level group.

\* The steps of the manager that exchange data with the group, and the commands that let the group
\* take part.
Exchanges == {"exchangeDsgus", "reduceSizes", "reduceExtraSizes"}

Exchanging == {"COMBINE_THIRD_LEVEL", "REDUCE_SUBSPACE_SIZES_TL",
               "REDUCE_SUBSPACE_SIZES_TL_AND_ALLOCATE_EXTRA_SG"}

ExchangeOf(sig) ==
    CASE sig = "COMBINE_THIRD_LEVEL" -> "exchangeDsgus"
      [] sig = "REDUCE_SUBSPACE_SIZES_TL" -> "reduceSizes"
      [] sig = "REDUCE_SUBSPACE_SIZES_TL_AND_ALLOCATE_EXTRA_SG" -> "reduceExtraSizes"

\* The steps that have nothing to do with an exchange.
Peaceful == {s \in StepType : s.do \notin Exchanges /\ (s.do \in SendKinds => s.sig \notin Exchanging)}

\* A command that lets the third level group take part, and the exchange after it.
Asking(x, sig) == x.do \in {"send", "sendUnchecked"} /\ x.group = TLGroup /\ x.sig = sig

Exchange(y, sig) == y.do = ExchangeOf(sig)

\* The k-th step asks the third level group to take part in the exchange after it, the only one.
ExchangeAt(seq, sig, k) ==
    /\ k \in 1..(Len(seq) - 1) /\ Asking(seq[k], sig) /\ Exchange(seq[k + 1], sig)
    /\ \A i \in 1..Len(seq) : i \notin {k, k + 1} => seq[i] \in Peaceful

\* The steps.
LEMMA PeacefulStep ==
    ASSUME NEW do \in Kinds \ Exchanges, NEW h \in Groups \cup {None}, NEW sig \in Sigs,
           NEW t \in Tasks \cup {None}, do \in SendKinds => sig \notin Exchanging
    PROVE  Step(do, h, sig, t) \in Peaceful
<1> DEFINE s == Step(do, h, sig, t)
<1>1. s \in StepType /\ s.do = do /\ s.sig = sig
    BY StepParts
<1> HIDE DEF s
<1>2. s \in Peaceful
    BY <1>1 DEF Peaceful
<1> QED BY <1>2 DEF s

\* Parts without an exchange.
LEMMA PeaceThen ==
    /\ \A s, t \in Seq(Peaceful) : s \o t \in Seq(Peaceful)
    /\ \A s \in Peaceful : <<s>> \in Seq(Peaceful)
    /\ \A s, t \in Peaceful : <<s, t>> \in Seq(Peaceful)
    /\ <<>> \in Seq(Peaceful) /\ Seq(Peaceful) \subseteq Seq(StepType)
<1>1. \A s, t \in Seq(Peaceful) : s \o t \in Seq(Peaceful)
    BY ConcatParts
<1>2. Peaceful \subseteq StepType
    BY DEF Peaceful
<1> HIDE DEF Peaceful
<1>3. Seq(Peaceful) \subseteq Seq(StepType)
    BY <1>2
<1> QED BY <1>1, <1>3

\* A step for each group.
LEMMA PeaceRound ==
    ASSUME NEW q, DOMAIN q = Groups, q = [g \in Groups |-> q[g]], \A g \in Groups : q[g] \in Peaceful
    PROVE  q \in Seq(Peaceful)
<1>1. NumGroups \in Nat /\ Groups = 1..NumGroups
    BY ManagerAssumption DEF Groups
<1>2. q \in [1..NumGroups -> Peaceful]
    BY <1>1
<1> HIDE DEF Peaceful
<1> QED BY <1>1, <1>2

\* The commands and the waits.
LEMMA PeacefulParts ==
    /\ WaitAll \in Seq(Peaceful) /\ FetchInstruction \in Seq(Peaceful)
    /\ \A h \in Groups : WaitFor(h) \in Seq(Peaceful)
    /\ \A h \in Groups, sig \in Sigs \ Exchanging : Command(h, sig) \in Peaceful
    /\ \A sig \in Sigs \ Exchanging : CommandAll(sig) \in Seq(Peaceful)
    /\ \A sig \in Sigs \ Exchanging : CommandTLGroup(sig) \in Seq(Peaceful)
<1>1. None \in Sigs /\ {"waitAll", "fetchInstruction", "waitFor", "send"} \subseteq Kinds \ Exchanges
      /\ "waitAll" \notin SendKinds /\ "fetchInstruction" \notin SendKinds /\ "waitFor" \notin SendKinds
    BY SigsIn DEF Kinds, PlainKinds, Exchanges, SendKinds
<1>2. WaitAll \in Seq(Peaceful) /\ FetchInstruction \in Seq(Peaceful)
      /\ \A h \in Groups : WaitFor(h) \in Seq(Peaceful)
    BY <1>1, PeacefulStep, PeaceThen DEF WaitAll, FetchInstruction, WaitFor
<1>3. \A h \in Groups, sig \in Sigs \ Exchanging : Command(h, sig) \in Peaceful
    BY <1>1, PeacefulStep DEF Command
<1>4. ASSUME NEW sig \in Sigs \ Exchanging PROVE CommandAll(sig) \in Seq(Peaceful)
    <2> DEFINE q == CommandAll(sig)
    <2>1. DOMAIN q = Groups /\ q = [g \in Groups |-> q[g]] /\ \A g \in Groups : q[g] \in Peaceful
        BY <1>3 DEF CommandAll
    <2> HIDE DEF q
    <2>2. q \in Seq(Peaceful)
        BY <2>1, PeaceRound
    <2> QED BY <2>2 DEF q
<1>5. ASSUME NEW sig \in Sigs \ Exchanging PROVE CommandTLGroup(sig) \in Seq(Peaceful)
    <2>1. <<Command(TLGroup, sig)>> \in Seq(Peaceful) /\ WaitFor(TLGroup) \in Seq(Peaceful)
        BY <1>2, <1>3, PeaceThen, ManagerAssumption
    <2> QED BY <2>1, PeaceThen DEF CommandTLGroup
<1> QED BY <1>2, <1>3, <1>4, <1>5

\* The other groups are told.
LEMMA PeacefulTelling == TellOthers \in Seq(Peaceful) /\ TellOthersSizes \in Seq(Peaceful)
<1> DEFINE n == NumGroups - 1
<1>1. n \in Nat /\ DOMAIN Others = 1..n /\ \A i \in 1..n : Others[i] \in Groups
    BY OthersRight, ManagerAssumption
<1>2. {"WAIT_FOR_TL_COMBI_RESULT", "WAIT_FOR_TL_SIZE_UPDATE"} \subseteq Sigs \ Exchanging
    BY SigsIn DEF PG!CheckedSignals, Exchanging
<1>3. TellOthersSizes \in Seq(Peaceful)
    <2> DEFINE q == TellOthersSizes
    <2>1. q = [i \in 1..n |-> q[i]] /\ \A i \in 1..n : q[i] = Command(Others[i], "WAIT_FOR_TL_SIZE_UPDATE")
        BY <1>1 DEF TellOthersSizes
    <2> HIDE DEF q, n
    <2>2. q \in [1..n -> Peaceful]
        BY <1>1, <1>2, <2>1, PeacefulParts
    <2> HIDE DEF Peaceful
    <2>3. q \in Seq(Peaceful)
        BY <1>1, <2>2
    <2> QED BY <2>3 DEF q
<1>4. TellOthers \in Seq(Peaceful)
    <2> DEFINE ss == [i \in DOMAIN Others |-> WaitFor(Others[i]) \o <<Command(Others[i], "WAIT_FOR_TL_COMBI_RESULT")>>]
    <2>1. ss = [i \in 1..n |-> ss[i]]
        BY <1>1
    <2>2. ASSUME NEW i \in 1..n PROVE ss[i] \in Seq(Peaceful)
        <3> DEFINE w == WaitFor(Others[i])
                   c == <<Command(Others[i], "WAIT_FOR_TL_COMBI_RESULT")>>
        <3>1. w \in Seq(Peaceful) /\ c \in Seq(Peaceful) /\ ss[i] = w \o c
            BY <1>1, <1>2, PeacefulParts, PeaceThen
        <3> HIDE DEF w, c, ss
        <3> QED BY <3>1, PeaceThen
    <2>3. TellOthers = FlattenSeq(ss)
        BY DEF TellOthers
    <2> HIDE DEF ss, n
    <2> DEFINE C == Seq(Peaceful)
    <2>4. C \subseteq Seq(Peaceful) /\ <<>> \in C /\ \A s, t \in C : s \o t \in C
        BY PeaceThen
    <2>5. ss \in [1..n -> C]
        BY <2>1, <2>2
    <2> HIDE DEF C
    <2>6. ss \in Seq(C)
        BY <1>1, <2>5
    <2>7. FlattenSeq(ss) \in C
        BY <2>4, <2>6, FlattenIn
    <2> QED BY <2>3, <2>7 DEF C
<1> QED BY <1>3, <1>4

\* The methods that exchange data with the third level group through the manager.
ExchangeOps == {"combineThirdLevel", Unify, "unifyExtraSparseGrid"}

\* The exchange of the method.
ExchangeIn(op) ==
    CASE op = "combineThirdLevel" -> "COMBINE_THIRD_LEVEL"
      [] op = Unify -> "REDUCE_SUBSPACE_SIZES_TL"
      [] OTHER -> "REDUCE_SUBSPACE_SIZES_TL_AND_ALLOCATE_EXTRA_SG"

\* The methods that the stages allow.
AllOps == {"updateCombiParameters", "runfirst", "getLpNorms", "interpolateValues",
           "writeInterpolatedValuesSingleFile", "writeInterpolatedValuesPerGrid", "initDsgus", "combine",
           "combineThirdLevelFileBasedWrite", "combineThirdLevelFileBased",
           "combineThirdLevelFileBasedReadReduce", "runnext", "parallelEval",
           "writeSparseGridMinMaxCoefficients", "writeDSGsToDisk", "exit"} \cup ExchangeOps

LEMMA AllAllowed == \A s \in Stages : Allowed[s] \subseteq AllOps
BY DEF Stages, Allowed, Anytime, AllOps, ExchangeOps, Unify

\* The group asked first, and the others.
LEMMA PeacefulInterpolation == \A first \in Interpolations : InterpolateAll(first) \in Seq(Peaceful)
<1> SUFFICES ASSUME NEW first \in Interpolations PROVE InterpolateAll(first) \in Seq(Peaceful)
    OBVIOUS
<1> DEFINE n == NumGroups - 1
           q == [h \in 1..n |-> Step("sendUnchecked", h, "INTERPOLATE_VALUES", None)]
           x == Step("sendUnchecked", NumGroups, first, None)
<1>1. n \in Nat /\ NumGroups \in Groups /\ \A h \in 1..n : h \in Groups
    BY ManagerAssumption DEF Groups
<1>2. "sendUnchecked" \in Kinds \ Exchanges /\ \A sig \in Interpolations : sig \in Sigs \ Exchanging
    BY SigsIn DEF Kinds, PlainKinds, Exchanges, Interpolations, Exchanging, PG!UncheckedSignals
<1>3. "INTERPOLATE_VALUES" \in Interpolations
    BY DEF Interpolations
<1>4. x \in Peaceful /\ \A h \in 1..n : q[h] \in Peaceful
    BY <1>1, <1>2, <1>3, PeacefulStep
<1>5. q = [h \in 1..n |-> q[h]]
    OBVIOUS
<1> HIDE DEF q, x, n
<1>6. q \in [1..n -> Peaceful]
    BY <1>4, <1>5
<1>7. q \in Seq(Peaceful) /\ <<x>> \in Seq(Peaceful)
    <2> HIDE DEF Peaceful
    <2> QED BY <1>1, <1>4, <1>6, PeaceThen
<1>8. <<x>> \o q \in Seq(Peaceful)
    BY <1>7, PeaceThen
<1> QED BY <1>8 DEF q, x, n, InterpolateAll

\* The parts of a method that is one part per group.
LEMMA PeacefulFlat ==
    ASSUME NEW ss, DOMAIN ss = Groups, ss = [g \in Groups |-> ss[g]], \A g \in Groups : ss[g] \in Seq(Peaceful)
    PROVE  FlattenSeq(ss) \in Seq(Peaceful)
<1> DEFINE C == Seq(Peaceful)
<1>1. C \subseteq Seq(Peaceful) /\ <<>> \in C /\ \A s, t \in C : s \o t \in C
    BY PeaceThen
<1>2. NumGroups \in Nat /\ Groups = 1..NumGroups
    BY ManagerAssumption DEF Groups
<1>3. ss \in [1..NumGroups -> C]
    BY <1>2
<1> HIDE DEF C
<1>4. ss \in Seq(C)
    BY <1>2, <1>3
<1>5. FlattenSeq(ss) \in C
    BY <1>1, <1>4, FlattenIn
<1> QED BY <1>5 DEF C

\* The steps of reschedule.
LEMMA PeacefulMoves ==
    ASSUME NEW T \in SUBSET Tasks, NEW to \in [T -> Groups], \A t \in T : OwnerOf(t) \in Groups
    PROVE  MoveAll(T, to) \in Seq(Peaceful)
<1> DEFINE order == SetToSeq(T)
           ss == [i \in DOMAIN order |-> Migration(order[i], OwnerOf(order[i]), to[order[i]])]
           C == Seq(Peaceful)
<1>1. order \in Seq(T)
    BY SetToSeqRight, ManagerAssumption, FS_Subset
<1>2. MoveAll(T, to) = FlattenSeq(ss) \o <<Step("rebuildTasks", None, None, None)>>
    BY DEF MoveAll
<1> HIDE DEF order
<1>3. Len(order) \in Nat /\ DOMAIN order = 1..Len(order) /\ \A i \in 1..Len(order) : order[i] \in T
    BY <1>1, LenProperties, ElementOfSeq
<1>4. /\ {"remove", "reply", "add", "rebuildTasks"} \subseteq Kinds \ Exchanges
      /\ {"remove", "reply", "add", "rebuildTasks"} \cap SendKinds = {}
      /\ {"RESCHEDULE_REMOVE_TASK", "RESCHEDULE_ADD_TASK", None} \subseteq Sigs
    BY SigsIn DEF Kinds, PlainKinds, Exchanges, SendKinds
<1>5. ASSUME NEW t \in T, NEW f \in Groups, NEW h \in Groups PROVE Migration(t, f, h) \in C
    <2> DEFINE x == Step("remove", f, "RESCHEDULE_REMOVE_TASK", t)
               y == Step("reply", f, None, None)
               z == Step("add", h, "RESCHEDULE_ADD_TASK", t)
    <2>1. x \in Peaceful /\ y \in Peaceful /\ z \in Peaceful
        BY <1>4, PeacefulStep
    <2>2. Migration(t, f, h) = <<x, y>> \o WaitAll \o <<z>> \o WaitAll
        BY DEF Migration
    <2> HIDE DEF x, y, z
    <2>3. <<x, y>> \in C /\ <<z>> \in C /\ WaitAll \in C
        BY <2>1, PeaceThen, PeacefulParts
    <2>4. <<x, y>> \o WaitAll \in C
        BY <2>3, PeaceThen
    <2>5. <<x, y>> \o WaitAll \o <<z>> \in C
        BY <2>3, <2>4, PeaceThen
    <2>6. <<x, y>> \o WaitAll \o <<z>> \o WaitAll \in C
        BY <2>3, <2>5, PeaceThen
    <2> QED BY <2>2, <2>6
<1>6. \A i \in 1..Len(order) : ss[i] \in C
    BY <1>3, <1>5
<1>7. ss = [i \in 1..Len(order) |-> ss[i]]
    BY <1>3
<1>8. Step("rebuildTasks", None, None, None) \in Peaceful
    BY <1>4, PeacefulStep
<1>9. C \subseteq Seq(Peaceful) /\ <<>> \in C /\ \A s, t \in C : s \o t \in C
    BY PeaceThen
<1>10. <<Step("rebuildTasks", None, None, None)>> \in C
    BY <1>8, PeaceThen
<1> HIDE DEF ss, C
<1>11. ss \in [1..Len(order) -> C]
    BY <1>6, <1>7
<1>12. ss \in Seq(C)
    BY <1>3, <1>11
<1>13. FlattenSeq(ss) \in C
    BY <1>9, <1>12, FlattenIn
<1>14. FlattenSeq(ss) \o <<Step("rebuildTasks", None, None, None)>> \in C
    BY <1>9, <1>10, <1>13
<1> QED BY <1>2, <1>14 DEF C

\* The methods without an exchange.
LEMMA PeacefulScripts ==
    ASSUME taskList \in Seq(Tasks), NEW op \in AllOps \ ExchangeOps
    PROVE  Script(op) \in Seq(Peaceful)
<1> DEFINE C == Seq(Peaceful)
<1>1. /\ {"INIT_DSGUS", "COMBINE", "COMBINE_LOCAL_AND_GLOBAL", "COMBINE_WRITE_DSGS",
          "COMBINE_READ_DSGS_AND_REDUCE", "COMBINE_THIRD_LEVEL_FILE", "UPDATE_COMBI_PARAMETERS",
          "PARALLEL_EVAL", "WRITE_DSGS_TO_DISK", "WRITE_INTERPOLATED_VALUES_PER_GRID",
          "WRITE_DSG_MINMAX_COEFFICIENTS", "RUN_FIRST", "RUN_NEXT", "EXIT", "GET_L2_NORM"} \subseteq Sigs \ Exchanging
      /\ {"assign", "runNext", "exit", "norms", "reply", "sendUnchecked", "takeValues"} \subseteq Kinds \ Exchanges
      /\ {"assign", "runNext", "exit", "reply", "takeValues"} \cap SendKinds = {}
      /\ None \in Sigs
    BY SigsIn DEF PG!CheckedSignals, PG!UncheckedSignals, Exchanging, Kinds, PlainKinds, Exchanges, SendKinds
<1>2. /\ WaitAll \in C /\ FetchInstruction \in C /\ TellOthers \in C /\ 1 \in Groups /\ TLGroup \in Groups
      /\ NumGroups \in Groups
    BY PeacefulParts, PeacefulTelling, ManagerAssumption DEF Groups
<1>3. \A s, t \in C : s \o t \in C
    BY PeaceThen
<1>4. \A sig \in Sigs \ Exchanging : CommandAll(sig) \in C /\ CommandTLGroup(sig) \in C /\ <<Command(1, sig)>> \in C
    BY <1>2, PeacefulParts, PeaceThen
<1>5. \A sig \in Sigs \ Exchanging : WaitAll \o CommandAll(sig) \o WaitAll \in C
    <2> HIDE DEF C
    <2> QED BY <1>2, <1>3, <1>4
<1>6. InitDsgus \in C /\ CombineSystemWide \in C
    BY <1>1, <1>5 DEF InitDsgus, CombineSystemWide
<1>7. CASE op = "runfirst"
    <2> DEFINE q == [i \in DOMAIN taskList |-> Step("assign", None, "RUN_FIRST", taskList[i])]
    <2>1. Len(taskList) \in Nat /\ DOMAIN taskList = 1..Len(taskList)
          /\ \A i \in 1..Len(taskList) : taskList[i] \in Tasks
        BY ElementOfSeq, LenProperties
    <2>2. \A i \in 1..Len(taskList) : q[i] \in Peaceful
        BY <1>1, <2>1, PeacefulStep
    <2>3. q = [i \in 1..Len(taskList) |-> q[i]]
        BY <2>1
    <2>4. Script("runfirst") = q \o WaitAll \o InitDsgus
        BY DEF Script
    <2> HIDE DEF q
    <2>5. q \in [1..Len(taskList) -> Peaceful]
        BY <2>2, <2>3
    <2>6. q \in C
        <3> HIDE DEF Peaceful
        <3> QED BY <2>1, <2>5
    <2> HIDE DEF C
    <2>7. q \o WaitAll \in C
        BY <1>2, <1>3, <2>6
    <2>8. q \o WaitAll \o InitDsgus \in C
        BY <1>3, <1>6, <2>7
    <2> QED BY <1>7, <2>4, <2>8 DEF C
<1>8. CASE op \in {"initDsgus", "combine", "updateCombiParameters"}
    BY <1>1, <1>5, <1>6, <1>8 DEF Script
<1>9. CASE op \in {"runnext", "exit"}
    <2> DEFINE q == [g \in Groups |-> Step("runNext", g, "RUN_NEXT", None)]
               r == [g \in Groups |-> Step("exit", g, "EXIT", None)]
    <2>1. \A g \in Groups : q[g] \in Peaceful /\ r[g] \in Peaceful
        BY <1>1, PeacefulStep
    <2>2. q \in C /\ r \in C
        <3>1. DOMAIN q = Groups /\ q = [g \in Groups |-> q[g]] /\ DOMAIN r = Groups /\ r = [g \in Groups |-> r[g]]
            OBVIOUS
        <3> HIDE DEF q, r
        <3> QED BY <2>1, <3>1, PeaceRound
    <2>4. Script("runnext") = WaitAll \o q \o WaitAll
        BY DEF Script
    <2>5. Script("exit") = WaitAll \o r
        BY DEF Script
    <2> HIDE DEF q, r, C
    <2>6. WaitAll \o q \o WaitAll \in C /\ WaitAll \o r \in C
        BY <1>2, <1>3, <2>2
    <2> QED BY <1>9, <2>4, <2>5, <2>6 DEF C
<1>10. CASE op \in {"combineThirdLevelFileBasedWrite", "combineThirdLevelFileBasedReadReduce",
                    "combineThirdLevelFileBased", "writeDSGsToDisk"}
    <2>1. /\ Script("combineThirdLevelFileBasedWrite")
                = CombineSystemWide \o FetchInstruction \o CommandTLGroup("COMBINE_WRITE_DSGS")
          /\ Script("combineThirdLevelFileBasedReadReduce")
                = TellOthers \o CommandTLGroup("COMBINE_READ_DSGS_AND_REDUCE") \o WaitAll
          /\ Script("combineThirdLevelFileBased")
                = CombineSystemWide \o TellOthers \o FetchInstruction \o CommandTLGroup("COMBINE_THIRD_LEVEL_FILE")
          /\ Script("writeDSGsToDisk") = CommandTLGroup("WRITE_DSGS_TO_DISK")
        BY DEF Script
    <2>2. /\ CommandTLGroup("COMBINE_WRITE_DSGS") \in C /\ CommandTLGroup("COMBINE_READ_DSGS_AND_REDUCE") \in C
          /\ CommandTLGroup("COMBINE_THIRD_LEVEL_FILE") \in C /\ CommandTLGroup("WRITE_DSGS_TO_DISK") \in C
        BY <1>1, <1>4
    <2> HIDE DEF C
    <2>3. CombineSystemWide \o FetchInstruction \in C /\ CombineSystemWide \o TellOthers \in C
          /\ TellOthers \o CommandTLGroup("COMBINE_READ_DSGS_AND_REDUCE") \in C
        BY <1>2, <1>3, <1>6, <2>2
    <2>4. CombineSystemWide \o TellOthers \o FetchInstruction \in C
        BY <1>2, <1>3, <2>3
    <2>5. /\ CombineSystemWide \o FetchInstruction \o CommandTLGroup("COMBINE_WRITE_DSGS") \in C
          /\ TellOthers \o CommandTLGroup("COMBINE_READ_DSGS_AND_REDUCE") \o WaitAll \in C
          /\ CombineSystemWide \o TellOthers \o FetchInstruction \o CommandTLGroup("COMBINE_THIRD_LEVEL_FILE") \in C
        BY <1>2, <1>3, <2>2, <2>3, <2>4
    <2> QED BY <1>10, <2>1, <2>2, <2>5 DEF C
<1>11. CASE op = "parallelEval"
    <2>1. Script("parallelEval") = WaitAll \o <<Command(1, "PARALLEL_EVAL")>> \o WaitAll
          /\ <<Command(1, "PARALLEL_EVAL")>> \in C
        BY <1>1, <1>4 DEF Script
    <2> HIDE DEF C
    <2>2. WaitAll \o <<Command(1, "PARALLEL_EVAL")>> \o WaitAll \in C
        BY <1>2, <1>3, <2>1
    <2> QED BY <1>11, <2>1, <2>2 DEF C
<1>12. CASE op \in {"getLpNorms", "writeInterpolatedValuesPerGrid"}
    <2> DEFINE ss == [g \in Groups |-> <<Step("norms", g, "GET_L2_NORM", None), Step("reply", g, None, None)>>]
               tt == [g \in Groups |-> <<Step("sendUnchecked", g, "WRITE_INTERPOLATED_VALUES_PER_GRID", None)>>
                                            \o WaitFor(g)]
    <2>1. ASSUME NEW g \in Groups PROVE ss[g] \in C /\ tt[g] \in C
        <3> DEFINE x == Step("norms", g, "GET_L2_NORM", None)
                   y == Step("reply", g, None, None)
                   z == Step("sendUnchecked", g, "WRITE_INTERPOLATED_VALUES_PER_GRID", None)
        <3>1. x \in Peaceful /\ y \in Peaceful /\ z \in Peaceful /\ ss[g] = <<x, y>> /\ tt[g] = <<z>> \o WaitFor(g)
            BY <1>1, PeacefulStep
        <3> HIDE DEF x, y, z, ss, tt
        <3>2. <<x, y>> \in C /\ <<z>> \in C /\ WaitFor(g) \in C
            BY <3>1, PeaceThen, PeacefulParts
        <3> QED BY <1>3, <3>1, <3>2
    <2>2. Script("getLpNorms") = FlattenSeq(ss) /\ Script("writeInterpolatedValuesPerGrid") = FlattenSeq(tt)
        BY DEF Script
    <2>3. DOMAIN ss = Groups /\ ss = [g \in Groups |-> ss[g]] /\ DOMAIN tt = Groups /\ tt = [g \in Groups |-> tt[g]]
        OBVIOUS
    <2> HIDE DEF ss, tt
    <2>4. FlattenSeq(ss) \in C /\ FlattenSeq(tt) \in C
        BY <2>1, <2>3, PeacefulFlat
    <2> QED BY <1>12, <2>2, <2>4
<1>13. CASE op \in {"interpolateValues", "writeInterpolatedValuesSingleFile", "writeSparseGridMinMaxCoefficients"}
    <2> DEFINE x == Step("takeValues", None, None, None)
               y == Step("sendUnchecked", NumGroups, "WRITE_DSG_MINMAX_COEFFICIENTS", None)
               p == InterpolateAll("INTERPOLATE_VALUES_AND_SEND_BACK")
               q == InterpolateAll("INTERPOLATE_VALUES_AND_WRITE_SINGLE_FILE")
    <2>1. x \in Peaceful /\ y \in Peaceful
        BY <1>1, <1>2, PeacefulStep
    <2>2. p \in C /\ q \in C
        BY PeacefulInterpolation DEF Interpolations
    <2>3. /\ Script("interpolateValues") = p \o <<x>>
          /\ Script("writeInterpolatedValuesSingleFile") = q
          /\ Script("writeSparseGridMinMaxCoefficients") = <<y>>
        BY DEF Script
    <2> HIDE DEF x, y, p, q
    <2>4. <<x>> \in C /\ <<y>> \in C
        BY <2>1, PeaceThen
    <2> HIDE DEF C
    <2>5. p \o <<x>> \in C
        BY <1>3, <2>2, <2>4
    <2> QED BY <1>13, <2>2, <2>3, <2>4, <2>5 DEF C
<1> QED BY <1>7, <1>8, <1>9, <1>10, <1>11, <1>12, <1>13 DEF AllOps, ExchangeOps

\* One exchange between two parts without.
LEMMA ExchangeBetween ==
    ASSUME NEW a \in Seq(Peaceful), NEW b \in Seq(Peaceful), NEW x \in StepType, NEW y \in StepType, NEW sig,
           Asking(x, sig), Exchange(y, sig)
    PROVE  LET s == a \o <<x, y>> \o b IN s \in Seq(StepType) /\ \E k \in 1..(Len(s) - 1) : ExchangeAt(s, sig, k)
<1> DEFINE e == <<x, y>>
           c == a \o e
           s == c \o b
           n == Len(a)
<1>1. a \in Seq(StepType) /\ b \in Seq(StepType) /\ e \in Seq(StepType) /\ Len(e) = 2 /\ e[1] = x /\ e[2] = y
    BY PeaceThen
<1>2. (\A i \in 1..n : a[i] \in Peaceful) /\ \A i \in 1..Len(b) : b[i] \in Peaceful
    BY ElementOfSeq
<1> HIDE DEF e
<1>3. /\ c \in Seq(StepType) /\ n \in Nat /\ Len(c) = n + 2
      /\ \A i \in 1..n : c[i] = a[i]
      /\ c[n + 1] = x /\ c[n + 2] = y
    <2>1. 1 \in 1..Len(e) /\ 2 \in 1..Len(e)
        BY <1>1
    <2>2. /\ c \in Seq(StepType) /\ Len(a) \in Nat /\ Len(c) = Len(a) + Len(e)
          /\ \A i \in 1..Len(a) : c[i] = a[i]
          /\ \A i \in 1..Len(e) : c[Len(a) + i] = e[i]
        <3>1. a \in Seq(StepType) /\ e \in Seq(StepType)
            BY <1>1
        <3> QED BY <3>1, ConcatParts
    <2> HIDE DEF c
    <2> QED BY <1>1, <2>1, <2>2
<1> HIDE DEF c, n
<1>4. /\ s \in Seq(StepType) /\ Len(b) \in Nat /\ Len(s) = Len(c) + Len(b)
      /\ \A i \in 1..Len(c) : s[i] = c[i]
      /\ \A i \in 1..Len(b) : s[Len(c) + i] = b[i]
    <2>1. b \in Seq(StepType) /\ c \in Seq(StepType)
        BY <1>1, <1>3
    <2> QED BY <2>1, ConcatParts
<1> HIDE DEF s
<1>5. n + 1 \in 1..(Len(s) - 1) /\ s[n + 1] = x /\ s[(n + 1) + 1] = y
    <2>1. n + 1 \in 1..Len(c) /\ n + 2 \in 1..Len(c) /\ (n + 1) + 1 = n + 2
        BY <1>3
    <2>2. s[n + 1] = c[n + 1] /\ s[n + 2] = c[n + 2]
        BY <1>4, <2>1
    <2> QED BY <1>3, <1>4, <2>1, <2>2
<1>6. ASSUME NEW i \in 1..Len(s), i \notin {n + 1, (n + 1) + 1} PROVE s[i] \in Peaceful
    <2>1. CASE i \in 1..n
        <3>1. i \in 1..Len(c)
            BY <1>3, <2>1
        <3> QED BY <1>2, <1>3, <1>4, <2>1, <3>1 DEF n
    <2>2. CASE i \notin 1..n
        <3> DEFINE j == i - (n + 2)
        <3>1. j \in 1..Len(b) /\ i = Len(c) + j
            BY <1>3, <1>4, <1>6, <2>2
        <3> HIDE DEF j
        <3> QED BY <1>2, <1>4, <3>1
    <2> QED BY <2>1, <2>2
<1>7. ExchangeAt(s, sig, n + 1)
    BY <1>5, <1>6 DEF ExchangeAt
<1> QED BY <1>4, <1>5, <1>7 DEF s, c, e

\* The methods with an exchange.
LEMMA ExchangeScripts ==
    ASSUME NEW op \in ExchangeOps
    PROVE  /\ ExchangeIn(op) \in Exchanging /\ Script(op) \in Seq(StepType)
           /\ \E k \in 1..(Len(Script(op)) - 1) : ExchangeAt(Script(op), ExchangeIn(op), k)
<1> DEFINE C == Seq(Peaceful)
<1>1. /\ WaitAll \in C /\ FetchInstruction \in C /\ TellOthers \in C /\ TellOthersSizes \in C
      /\ \A s, t \in C : s \o t \in C
      /\ \A sig \in Sigs \ Exchanging : CommandAll(sig) \in C
    BY PeacefulParts, PeacefulTelling, PeaceThen
<1>2. Exchanging \subseteq Sigs /\ None \in Sigs /\ "COMBINE_LOCAL_AND_GLOBAL" \in Sigs \ Exchanging
    BY SigsIn DEF Exchanging, PG!CheckedSignals, PG!UncheckedSignals
<1>3. CombineSystemWide \in C
    <2>1. CommandAll("COMBINE_LOCAL_AND_GLOBAL") \in C
        BY <1>1, <1>2
    <2> HIDE DEF C
    <2> QED BY <1>1, <2>1 DEF CombineSystemWide
<1>4. ASSUME NEW do \in {"send", "sendUnchecked"}, NEW sig \in Exchanging, NEW a \in C,
             NEW q, q = a \o <<Step(do, TLGroup, sig, None), Step(ExchangeOf(sig), TLGroup, None, None)>> \o WaitAll
      PROVE  q \in Seq(StepType) /\ \E k \in 1..(Len(q) - 1) : ExchangeAt(q, sig, k)
    <2> DEFINE x == Step(do, TLGroup, sig, None)
               y == Step(ExchangeOf(sig), TLGroup, None, None)
    <2>1. do \in Kinds /\ ExchangeOf(sig) \in Kinds
        BY DEF Kinds, PlainKinds, ExchangeOf, Exchanging
    <2>2. x \in StepType /\ x.do = do /\ x.group = TLGroup /\ x.sig = sig
        BY <1>2, <2>1, StepParts, ManagerAssumption
    <2>3. y \in StepType /\ y.do = ExchangeOf(sig)
        <3> DEFINE d == ExchangeOf(sig)
        <3>1. d \in Kinds
            BY <2>1
        <3> HIDE DEF d
        <3>2. Step(d, TLGroup, None, None) \in StepType /\ Step(d, TLGroup, None, None).do = d
            BY <1>2, <3>1, StepParts, ManagerAssumption
        <3> QED BY <3>2 DEF d
    <2> HIDE DEF x, y
    <2>4. Asking(x, sig) /\ Exchange(y, sig)
        BY <2>2, <2>3 DEF Asking, Exchange
    <2>5. q = a \o <<x, y>> \o WaitAll
        BY <1>4 DEF x, y
    <2> DEFINE s == a \o <<x, y>> \o WaitAll
    <2>6. s \in Seq(StepType) /\ \E k \in 1..(Len(s) - 1) : ExchangeAt(s, sig, k)
        BY <1>1, <2>2, <2>3, <2>4, ExchangeBetween
    <2> HIDE DEF s
    <2>7. q = s
        BY <2>5 DEF s
    <2> QED BY <2>6, <2>7
<1>5. CASE op = "combineThirdLevel"
    <2> DEFINE a == CombineSystemWide \o TellOthers \o FetchInstruction
    <2>1. a \in C
        <3> HIDE DEF C
        <3> QED BY <1>1, <1>3
    <2>2. Script(op) = a \o <<Step("send", TLGroup, "COMBINE_THIRD_LEVEL", None),
                              Step("exchangeDsgus", TLGroup, None, None)>> \o WaitAll
        BY <1>5 DEF Script, Command
    <2>3. ExchangeIn(op) = "COMBINE_THIRD_LEVEL" /\ "COMBINE_THIRD_LEVEL" \in Exchanging
          /\ ExchangeOf("COMBINE_THIRD_LEVEL") = "exchangeDsgus"
        BY <1>5 DEF ExchangeIn, Exchanging, ExchangeOf, Unify
    <2> HIDE DEF a
    <2> QED BY <1>4, <2>1, <2>2, <2>3
<1>6. CASE op = Unify
    <2> DEFINE a == TellOthersSizes \o FetchInstruction
    <2>1. a \in C
        <3> HIDE DEF C
        <3> QED BY <1>1
    <2>2. Script(op) = a \o <<Step("sendUnchecked", TLGroup, "REDUCE_SUBSPACE_SIZES_TL", None),
                              Step("reduceSizes", TLGroup, None, None)>> \o WaitAll
        BY <1>6 DEF Script, Unify
    <2>3. ExchangeIn(op) = "REDUCE_SUBSPACE_SIZES_TL" /\ "REDUCE_SUBSPACE_SIZES_TL" \in Exchanging
          /\ ExchangeOf("REDUCE_SUBSPACE_SIZES_TL") = "reduceSizes"
        BY <1>6 DEF ExchangeIn, Exchanging, ExchangeOf, Unify
    <2> HIDE DEF a
    <2> QED BY <1>4, <2>1, <2>2, <2>3
<1>7. CASE op = "unifyExtraSparseGrid"
    <2> DEFINE sig == "REDUCE_SUBSPACE_SIZES_TL_AND_ALLOCATE_EXTRA_SG"
    <2>1. Script(op) = FetchInstruction \o <<Step("sendUnchecked", TLGroup, sig, None),
                              Step("reduceExtraSizes", TLGroup, None, None)>> \o WaitAll
        BY <1>7 DEF Script
    <2>2. ExchangeIn(op) = sig /\ sig \in Exchanging /\ ExchangeOf(sig) = "reduceExtraSizes"
        BY <1>7 DEF ExchangeIn, Exchanging, ExchangeOf, Unify
    <2> HIDE DEF sig
    <2> QED BY <1>1, <1>4, <2>1, <2>2
<1> QED BY <1>5, <1>6, <1>7 DEF ExchangeOps

-----------------------------------------------------------------------------
\* What is left of the handlers.

\* The third level group's handler sends to the manager, and receives from it.
Asks == {"sendDsg", "gatherSizes"}

Answers == {"recvDsg", "scatterSizes", "scatterExtra"}

\* The steps that have nothing to do with the sizes.
Unsized == Handled \ (Asks \cup Answers \cup {"bcastSizes", "initDsg", "reduceSizes"})

\* What can be left of the handler of a command.
Left(sig) ==
    CASE sig = "COMBINE_THIRD_LEVEL" ->
            {<<"sendDsg", "recvDsg", "bcastDsg", "distribute", "waitBcast">>,
             <<"recvDsg", "bcastDsg", "distribute", "waitBcast">>} \cup Seq(Unsized)
      [] sig = "REDUCE_SUBSPACE_SIZES_TL" ->
            {<<"gatherSizes", "scatterSizes", "bcastSizes", "zero">>,
             <<"scatterSizes", "bcastSizes", "zero">>, <<"bcastSizes", "zero">>} \cup Seq(Unsized)
      [] sig = "REDUCE_SUBSPACE_SIZES_TL_AND_ALLOCATE_EXTRA_SG" ->
            {<<"gatherSizes", "scatterExtra", "zero">>, <<"scatterExtra", "zero">>} \cup Seq(Unsized)
      [] sig = "INIT_DSGUS" -> {<<"initDsg", "reduceSizes">>, <<"reduceSizes">>, <<>>}
      [] OTHER -> Seq(Unsized)

\* The first step of what is left.
FirstOf(h) == IF h = <<>> THEN "none" ELSE Head(h)

Upcoming(g) == FirstOf(handler[g])

\* The steps next to one another.
After(sig, x, y) ==
    /\ x \in Asks => y \in Answers
    /\ x \notin Asks => y \notin Asks \cup Answers
    /\ x # "scatterSizes" => y # "bcastSizes"
    /\ x = "sendDsg" => sig = "COMBINE_THIRD_LEVEL" /\ y = "recvDsg"
    /\ x = "recvDsg" => sig = "COMBINE_THIRD_LEVEL"
    /\ x = "gatherSizes" => \/ sig = "REDUCE_SUBSPACE_SIZES_TL" /\ y = "scatterSizes"
                            \/ sig = "REDUCE_SUBSPACE_SIZES_TL_AND_ALLOCATE_EXTRA_SG" /\ y = "scatterExtra"
    /\ x = "scatterSizes" => sig = "REDUCE_SUBSPACE_SIZES_TL" /\ y = "bcastSizes"
    /\ x = "scatterExtra" => sig = "REDUCE_SUBSPACE_SIZES_TL_AND_ALLOCATE_EXTRA_SG"
    /\ x = "bcastSizes" => sig = "REDUCE_SUBSPACE_SIZES_TL"
    /\ x \in {"initDsg", "reduceSizes"} => sig = "INIT_DSGUS"
    /\ sig = "INIT_DSGUS" => \/ x = "initDsg" /\ y = "reduceSizes"
                             \/ x = "reduceSizes" /\ y = "none"

\* A handler advances.
LEMMA LeftFacts ==
    ASSUME NEW sig, NEW h \in Left(sig), h # <<>>
    PROVE  Tail(h) \in Left(sig) /\ After(sig, Head(h), FirstOf(Tail(h)))
<1> DEFINE Goal == Tail(h) \in Left(sig) /\ After(sig, Head(h), FirstOf(Tail(h)))
<1>1. /\ "bcastDsg" \in Unsized /\ "distribute" \in Unsized /\ "waitBcast" \in Unsized /\ "zero" \in Unsized
      /\ "none" \notin Unsized
    BY DEF Unsized, Asks, Answers, Handled, Local, Transforms
<1>2. /\ \A x \in Unsized : x \notin Asks \cup Answers \cup {"bcastSizes", "initDsg", "reduceSizes"}
      /\ "none" \notin Asks \cup Answers \cup {"bcastSizes", "initDsg", "reduceSizes"}
    BY DEF Unsized, Asks, Answers
<1>3. ASSUME h \in Seq(Unsized), sig # "INIT_DSGUS", Seq(Unsized) \subseteq Left(sig) PROVE Goal
    <2>1. Tail(h) \in Seq(Unsized) /\ Head(h) \in Unsized /\ (Tail(h) # <<>> => Head(Tail(h)) \in Unsized)
        BY <1>3, HeadTailProperties
    <2>2. Head(h) \in Unsized /\ FirstOf(Tail(h)) \in Unsized \cup {"none"}
        BY <2>1 DEF FirstOf
    <2>3. After(sig, Head(h), FirstOf(Tail(h)))
        BY <1>2, <1>3, <2>2 DEF After, Asks, Answers
    <2> QED BY <1>3, <2>1, <2>3
<1>4. <<"bcastDsg", "distribute", "waitBcast">> \in Seq(Unsized) /\ <<"zero">> \in Seq(Unsized)
    BY <1>1
<1>5. CASE sig = "COMBINE_THIRD_LEVEL"
    <2>1. CASE h = <<"sendDsg", "recvDsg", "bcastDsg", "distribute", "waitBcast">>
        <3>1. Tail(h) = <<"recvDsg", "bcastDsg", "distribute", "waitBcast">> /\ Head(h) = "sendDsg"
              /\ FirstOf(Tail(h)) = "recvDsg"
            BY <2>1 DEF FirstOf
        <3> QED BY <1>5, <3>1 DEF Left, After, Asks, Answers
    <2>2. CASE h = <<"recvDsg", "bcastDsg", "distribute", "waitBcast">>
        <3>1. Tail(h) = <<"bcastDsg", "distribute", "waitBcast">> /\ Head(h) = "recvDsg"
              /\ FirstOf(Tail(h)) = "bcastDsg"
            BY <2>2 DEF FirstOf
        <3> QED BY <1>4, <1>5, <3>1 DEF Left, After, Asks, Answers
    <2>3. Seq(Unsized) \subseteq Left(sig)
        BY <1>5 DEF Left
    <2> QED BY <1>3, <1>5, <2>1, <2>2, <2>3 DEF Left
<1>6. CASE sig = "REDUCE_SUBSPACE_SIZES_TL"
    <2>1. CASE h = <<"gatherSizes", "scatterSizes", "bcastSizes", "zero">>
        <3>1. Tail(h) = <<"scatterSizes", "bcastSizes", "zero">> /\ Head(h) = "gatherSizes"
              /\ FirstOf(Tail(h)) = "scatterSizes"
            BY <2>1 DEF FirstOf
        <3> QED BY <1>6, <3>1 DEF Left, After, Asks, Answers
    <2>2. CASE h = <<"scatterSizes", "bcastSizes", "zero">>
        <3>1. Tail(h) = <<"bcastSizes", "zero">> /\ Head(h) = "scatterSizes"
              /\ FirstOf(Tail(h)) = "bcastSizes"
            BY <2>2 DEF FirstOf
        <3> QED BY <1>6, <3>1 DEF Left, After, Asks, Answers
    <2>3. CASE h = <<"bcastSizes", "zero">>
        <3>1. Tail(h) = <<"zero">> /\ Head(h) = "bcastSizes" /\ FirstOf(Tail(h)) = "zero"
            BY <2>3 DEF FirstOf
        <3> QED BY <1>4, <1>6, <3>1 DEF Left, After, Asks, Answers
    <2>4. Seq(Unsized) \subseteq Left(sig)
        BY <1>6 DEF Left
    <2> QED BY <1>3, <1>6, <2>1, <2>2, <2>3, <2>4 DEF Left
<1>7. CASE sig = "REDUCE_SUBSPACE_SIZES_TL_AND_ALLOCATE_EXTRA_SG"
    <2>1. CASE h = <<"gatherSizes", "scatterExtra", "zero">>
        <3>1. Tail(h) = <<"scatterExtra", "zero">> /\ Head(h) = "gatherSizes"
              /\ FirstOf(Tail(h)) = "scatterExtra"
            BY <2>1 DEF FirstOf
        <3> QED BY <1>7, <3>1 DEF Left, After, Asks, Answers
    <2>2. CASE h = <<"scatterExtra", "zero">>
        <3>1. Tail(h) = <<"zero">> /\ Head(h) = "scatterExtra" /\ FirstOf(Tail(h)) = "zero"
            BY <2>2 DEF FirstOf
        <3> QED BY <1>4, <1>7, <3>1 DEF Left, After, Asks, Answers
    <2>3. Seq(Unsized) \subseteq Left(sig)
        BY <1>7 DEF Left
    <2> QED BY <1>3, <1>7, <2>1, <2>2, <2>3 DEF Left
<1>8. CASE sig = "INIT_DSGUS"
    <2>1. CASE h = <<"initDsg", "reduceSizes">>
        <3>1. Tail(h) = <<"reduceSizes">> /\ Head(h) = "initDsg" /\ FirstOf(Tail(h)) = "reduceSizes"
            BY <2>1 DEF FirstOf
        <3> QED BY <1>8, <3>1 DEF Left, After, Asks, Answers
    <2>2. CASE h = <<"reduceSizes">>
        <3>1. Tail(h) = <<>> /\ Head(h) = "reduceSizes" /\ FirstOf(Tail(h)) = "none"
            BY <2>2 DEF FirstOf
        <3> QED BY <1>8, <3>1 DEF Left, After, Asks, Answers
    <2> QED BY <1>8, <2>1, <2>2 DEF Left
<1>9. CASE sig \notin Exchanging \cup {"INIT_DSGUS"}
    <2>1. Left(sig) = Seq(Unsized)
        BY <1>9 DEF Left, Exchanging
    <2> QED BY <1>3, <1>9, <2>1
<1> QED BY <1>5, <1>6, <1>7, <1>8, <1>9 DEF Exchanging

\* A handler begins.
LEMMA LeftBegins ==
    ASSUME NEW sig \in PG!Signals
    PROVE  /\ HandlerOf(sig) \in Left(sig)
           /\ FirstOf(HandlerOf(sig)) \notin Answers \cup {"bcastSizes"}
           /\ FirstOf(HandlerOf(sig)) \in Asks <=> sig \in Exchanging
           /\ sig = "INIT_DSGUS" => HandlerOf(sig) = <<"initDsg", "reduceSizes">>
<1> DEFINE h == HandlerOf(sig)
<1>1. {"reduceLocal", "reduceGlobal", "distribute", "takeDsg", "takeSizes", "bcastDsg", "waitBcast", "write",
       "readReduce", "removeToken", "zero", "reduceValues", "sendValues"} \subseteq Unsized
    BY DEF Unsized, Asks, Answers, Handled, Local, Transforms
<1>2. "none" \notin Asks \cup Answers \cup {"bcastSizes"}
      /\ \A x \in Unsized : x \notin Asks \cup Answers \cup {"bcastSizes"}
    BY DEF Unsized, Asks, Answers
<1>3. CASE sig \in Exchanging \cup {"INIT_DSGUS"}
    BY <1>3, HandlerTable DEF Exchanging, Left, FirstOf, Asks, Answers
<1>4. CASE sig \notin Exchanging \cup {"INIT_DSGUS"}
    <2>1. h \in Seq(Unsized)
        <3>1. CASE sig \in {"COMBINE", "COMBINE_LOCAL_AND_GLOBAL", "WAIT_FOR_TL_COMBI_RESULT", "COMBINE_WRITE_DSGS",
                            "COMBINE_READ_DSGS_AND_REDUCE", "COMBINE_THIRD_LEVEL_FILE", "WAIT_FOR_TL_SIZE_UPDATE",
                            "INTERPOLATE_VALUES", "INTERPOLATE_VALUES_AND_WRITE_SINGLE_FILE",
                            "INTERPOLATE_VALUES_AND_SEND_BACK"}
            <4>1. h \in {<<"reduceLocal", "reduceGlobal", "distribute">>, <<"reduceLocal", "reduceGlobal">>,
                         <<"takeDsg", "distribute">>, <<"write">>, <<"takeSizes", "zero">>, <<"reduceValues">>,
                         <<"readReduce", "bcastDsg", "distribute", "removeToken", "waitBcast">>,
                         <<"write", "readReduce", "bcastDsg", "distribute", "removeToken", "waitBcast">>,
                         <<"reduceValues", "sendValues">>}
                BY <3>1, HandlerTable
            <4>2. /\ <<"reduceLocal", "reduceGlobal", "distribute">> \in Seq(Unsized)
                  /\ <<"reduceLocal", "reduceGlobal">> \in Seq(Unsized) /\ <<"takeDsg", "distribute">> \in Seq(Unsized)
                  /\ <<"write">> \in Seq(Unsized) /\ <<"takeSizes", "zero">> \in Seq(Unsized)
                BY <1>1
            <4>3. /\ <<"reduceValues">> \in Seq(Unsized) /\ <<"reduceValues", "sendValues">> \in Seq(Unsized)
                  /\ <<"readReduce", "bcastDsg", "distribute", "removeToken", "waitBcast">> \in Seq(Unsized)
                BY <1>1
            <4>4. <<"write", "readReduce", "bcastDsg", "distribute", "removeToken", "waitBcast">> \in Seq(Unsized)
                BY <1>1
            <4> HIDE DEF h, Unsized
            <4> QED BY <4>1, <4>2, <4>3, <4>4
        <3>2. CASE sig \notin {"COMBINE", "COMBINE_LOCAL_AND_GLOBAL", "WAIT_FOR_TL_COMBI_RESULT", "COMBINE_WRITE_DSGS",
                            "COMBINE_READ_DSGS_AND_REDUCE", "COMBINE_THIRD_LEVEL_FILE", "WAIT_FOR_TL_SIZE_UPDATE",
                            "INTERPOLATE_VALUES", "INTERPOLATE_VALUES_AND_WRITE_SINGLE_FILE",
                            "INTERPOLATE_VALUES_AND_SEND_BACK"}
            <4>1. h = <<>>
                BY <1>4, <3>2 DEF HandlerOf, Exchanging
            <4> QED BY <4>1
        <3> QED BY <3>1, <3>2
    <2>2. Left(sig) = Seq(Unsized)
        BY <1>4 DEF Left, Exchanging
    <2>3. FirstOf(h) \in Unsized \cup {"none"}
        <3>1. h # <<>> => Head(h) \in Unsized
            BY <2>1, HeadTailProperties
        <3> QED BY <3>1 DEF FirstOf
    <2> QED BY <1>2, <1>4, <2>1, <2>2, <2>3
<1> QED BY <1>3, <1>4

-----------------------------------------------------------------------------
\* An exchange is under way when the manager has asked for it, and until it has received.

NoneAsked(q) == \A i \in 1..Len(q) : q[i].sig \notin Exchanging

OneAsked(q, sig) ==
    \E i \in 1..Len(q) : q[i].sig = sig /\ \A j \in 1..Len(q) : j # i => q[j].sig \notin Exchanging

\* The commands to the third level group, the next step of its handler, the command it executes
\* and the receiver of the message on the wire, when no exchange is under way ...
Quietly(q, x, to) == NoneAsked(q) /\ x \notin Asks /\ to # "manager"

\* ... and when one is.
Underway(q, x, c, to, sig) ==
    \/ OneAsked(q, sig) /\ x \notin Asks /\ to # "manager"
    \/ NoneAsked(q) /\ x \in Asks /\ c = sig /\ to # "manager"
    \/ NoneAsked(q) /\ x \notin Asks /\ c = sig /\ to = "manager"

NoExchange == Quietly(toWorker[TLGroup], Upcoming(TLGroup), wire.to)

UnderExchange(sig) ==
    Underway(toWorker[TLGroup], Upcoming(TLGroup), current[TLGroup].sig, wire.to, sig)

\* The manager exchanges once for each time it asks, and only then.
Pairs ==
    \/ todo \in Seq(Peaceful) /\ NoExchange
    \/ \E sig \in Exchanging, k \in 1..(Len(todo) - 1) : ExchangeAt(todo, sig, k) /\ NoExchange
    \/ \E sig \in Exchanging : /\ todo # <<>> /\ Exchange(Head(todo), sig) /\ Tail(todo) \in Seq(Peaceful)
                               /\ UnderExchange(sig)

\* The handlers, and who takes part in exchanges.
Handling ==
    \A g \in Groups : phase[g] = "running" =>
        handler[g] \in Left(current[g].sig) /\ (current[g].sig \in Exchanging => g = TLGroup)

OthersAsked == \A g \in Groups : g # TLGroup => NoneAsked(toWorker[g])

\* The message on the wire is one the third level group waits for.
OnTheWire ==
    /\ wire = [to |-> wire.to, sizes |-> wire.sizes, data |-> wire.data]
    /\ wire.to \in {None, "manager", "group"}
    /\ wire.to # None <=> Upcoming(TLGroup) \in Answers

Exch == Handling /\ OthersAsked /\ OnTheWire /\ Pairs

\* Commands come and go.
LEMMA AskedMore ==
    ASSUME NEW T, NEW q \in Seq(T), NEW c \in T, NoneAsked(q)
    PROVE  /\ c.sig \notin Exchanging => NoneAsked(Append(q, c))
           /\ OneAsked(Append(q, c), c.sig)
<1> DEFINE p == Append(q, c)
           n == Len(q)
<1>1. n \in Nat /\ Len(p) = n + 1 /\ p[n + 1] = c /\ \A i \in 1..n : p[i] = q[i]
    BY AppendProperties, LenProperties
<1>2. \A i \in 1..n : q[i].sig \notin Exchanging
    BY DEF NoneAsked
<1> HIDE DEF p, n
<1>3. \A i \in 1..Len(p) : i = n + 1 \/ i \in 1..n
    BY <1>1
<1>4. \A i \in 1..Len(p) : i # n + 1 => p[i].sig \notin Exchanging
    BY <1>1, <1>2, <1>3
<1>5. n + 1 \in 1..Len(p) /\ p[n + 1].sig = c.sig
    BY <1>1
<1>6. OneAsked(p, c.sig)
    BY <1>4, <1>5 DEF OneAsked
<1>7. c.sig \notin Exchanging => NoneAsked(p)
    BY <1>4, <1>5 DEF NoneAsked
<1> QED BY <1>6, <1>7 DEF p

LEMMA AskedLess ==
    ASSUME NEW T, NEW q \in Seq(T), q # <<>>
    PROVE  /\ NoneAsked(q) => Head(q).sig \notin Exchanging /\ NoneAsked(Tail(q))
           /\ \A sig \in Exchanging : OneAsked(q, sig) =>
                \/ Head(q).sig = sig /\ NoneAsked(Tail(q))
                \/ Head(q).sig \notin Exchanging /\ OneAsked(Tail(q), sig)
<1> DEFINE p == Tail(q)
           n == Len(p)
<1>1. n \in Nat /\ Len(q) = n + 1 /\ Head(q) = q[1] /\ \A i \in 1..n : p[i] = q[i + 1]
    BY HeadTailProperties, LenProperties, EmptySeq
<1> HIDE DEF p, n
<1>2. 1 \in 1..Len(q) /\ \A i \in 1..n : i + 1 \in 1..Len(q) /\ i + 1 # 1
    BY <1>1
<1>3. NoneAsked(q) => Head(q).sig \notin Exchanging /\ NoneAsked(p)
    BY <1>1, <1>2 DEF NoneAsked, n
<1>4. ASSUME NEW sig \in Exchanging, OneAsked(q, sig)
      PROVE  \/ Head(q).sig = sig /\ NoneAsked(p)
             \/ Head(q).sig \notin Exchanging /\ OneAsked(p, sig)
    <2>1. PICK i \in 1..Len(q) : q[i].sig = sig /\ \A j \in 1..Len(q) : j # i => q[j].sig \notin Exchanging
        BY <1>4 DEF OneAsked
    <2>2. CASE i = 1
        <3>1. \A j \in 1..n : p[j].sig \notin Exchanging
            BY <1>1, <1>2, <2>1, <2>2
        <3> QED BY <1>1, <2>1, <2>2, <3>1 DEF NoneAsked, n
    <2>3. CASE i # 1
        <3> DEFINE l == i - 1
        <3>1. l \in 1..n /\ l + 1 = i
            BY <1>1, <2>1, <2>3
        <3> HIDE DEF l
        <3>2. p[l].sig = sig /\ \A j \in 1..n : j # l => p[j].sig \notin Exchanging
            <4>1. \A j \in 1..n : j # l => j + 1 # i
                BY <1>1, <3>1
            <4> QED BY <1>1, <1>2, <2>1, <3>1, <4>1
        <3>3. OneAsked(p, sig)
            BY <3>1, <3>2 DEF OneAsked, n
        <3>4. q[1].sig \notin Exchanging
            BY <1>2, <2>1, <2>3
        <3> QED BY <1>1, <3>3, <3>4
    <2> QED BY <2>2, <2>3
<1> QED BY <1>3, <1>4 DEF p

\* What a step of the third level group does to an exchange: nothing, the group begins with the
\* next command, or its handler sends.
Proceeds(q, x, c, to, r, y, d, toNext) ==
    \/ r = q /\ x \notin Asks /\ y \notin Asks /\ (to = "manager" <=> toNext = "manager") /\ (to = "manager" => d = c)
    \/ r = q /\ x \in Asks /\ y \notin Asks /\ toNext = "manager" /\ d = c
    \/ r = q /\ x \in Asks /\ y = x /\ d = c /\ toNext = to
    \/ /\ q # <<>> /\ r = Tail(q) /\ d = Head(q).sig
       /\ x \notin Asks /\ (y \in Asks <=> d \in Exchanging) /\ to # "manager" /\ toNext = to

LEMMA ProceedsRight ==
    ASSUME NEW T, NEW q \in Seq(T), NEW x, NEW c, NEW to, NEW r, NEW y, NEW d, NEW toNext,
           Proceeds(q, x, c, to, r, y, d, toNext)
    PROVE  /\ Quietly(q, x, to) => Quietly(r, y, toNext)
           /\ \A sig \in Exchanging : Underway(q, x, c, to, sig) => Underway(r, y, d, toNext, sig)
<1>1. CASE r = q
    <2>1. CASE x \notin Asks /\ y \notin Asks /\ (to = "manager" <=> toNext = "manager") /\ (to = "manager" => d = c)
        BY <1>1, <2>1 DEF Quietly, Underway
    <2>2. CASE x \in Asks /\ y \notin Asks /\ toNext = "manager" /\ d = c
        BY <1>1, <2>2 DEF Quietly, Underway
    <2>3. CASE x \in Asks /\ y = x /\ d = c /\ toNext = to
        BY <1>1, <2>3 DEF Quietly, Underway
    <2>4. CASE /\ q # <<>> /\ r = Tail(q) /\ d = Head(q).sig
               /\ x \notin Asks /\ (y \in Asks <=> d \in Exchanging) /\ to # "manager" /\ toNext = to
        <3>1. FALSE
            BY <1>1, <2>4, HeadTailProperties, LenProperties, EmptySeq
        <3> QED BY <3>1
    <2> QED BY <2>1, <2>2, <2>3, <2>4 DEF Proceeds
<1>2. CASE r # q
    <2>1. /\ q # <<>> /\ r = Tail(q) /\ d = Head(q).sig
          /\ x \notin Asks /\ (y \in Asks <=> d \in Exchanging) /\ to # "manager" /\ toNext = to
        BY <1>2 DEF Proceeds
    <2>2. /\ NoneAsked(q) => d \notin Exchanging /\ NoneAsked(r)
          /\ \A sig \in Exchanging : OneAsked(q, sig) =>
                (d = sig /\ NoneAsked(r)) \/ (d \notin Exchanging /\ OneAsked(r, sig))
        BY <2>1, AskedLess
    <2> QED BY <2>1, <2>2 DEF Quietly, Underway
<1> QED BY <1>1, <1>2

\* A step of a group.
LEMMA PairsKept ==
    ASSUME Proved!TypeOK, Pairs, UNCHANGED todo,
           Proceeds(toWorker[TLGroup], Upcoming(TLGroup), current[TLGroup].sig, wire.to,
                    toWorker'[TLGroup], Upcoming(TLGroup)', current'[TLGroup].sig, wire'.to)
    PROVE  Pairs'
<1>1. toWorker[TLGroup] \in Seq(PG!Command)
    BY CommandTypes, ManagerAssumption
<1>2. /\ NoExchange => NoExchange'
      /\ \A sig \in Exchanging : UnderExchange(sig) => UnderExchange(sig)'
    BY <1>1, ProceedsRight DEF NoExchange, UnderExchange
<1> QED BY <1>2 DEF Pairs

\* The steps of the manager send no command of an exchange, or ask for the exchange.
LEMMA PeacefulSent ==
    ASSUME NEW s \in Peaceful
    PROVE  \A g : Sent(s, g) \notin Exchanging
<1>1. s \in StepType /\ s.do \notin Exchanges /\ (s.do \in SendKinds => s.sig \notin Exchanging)
    BY DEF Peaceful
<1>2. {"RUN_FIRST", "RESCHEDULE_ADD_TASK", "RESCHEDULE_REMOVE_TASK", "RUN_NEXT", "EXIT", "none"} \cap Exchanging = {}
    BY DEF Exchanging
<1> QED BY <1>1, <1>2 DEF Sent, SendKinds

LEMMA AskingSent ==
    ASSUME NEW s, NEW sig \in Exchanging, Asking(s, sig)
    PROVE  Sent(s, TLGroup) = sig /\ \A g : g # TLGroup => Sent(s, g) \notin Exchanging
<1>1. "none" \notin Exchanging
    BY DEF Exchanging
<1> QED BY <1>1 DEF Asking, Sent

\* The rest of a method with an exchange.
LEMMA ExchangeRest ==
    ASSUME NEW s \in Seq(StepType), NEW sig \in Exchanging, NEW k \in 1..(Len(s) - 1), ExchangeAt(s, sig, k)
    PROVE  /\ s # <<>> /\ Tail(s) \in Seq(StepType)
           /\ \/ Head(s) \in Peaceful /\ (k - 1) \in 1..(Len(Tail(s)) - 1) /\ ExchangeAt(Tail(s), sig, k - 1)
              \/ /\ Asking(Head(s), sig) /\ Tail(s) # <<>> /\ Exchange(Head(Tail(s)), sig)
                 /\ Tail(Tail(s)) \in Seq(Peaceful)
<1> DEFINE t == Tail(s)
<1>1. s # <<>>
    BY LenProperties
<1>2. /\ Len(s) \in Nat /\ Len(t) = Len(s) - 1 /\ Head(s) = s[1] /\ t \in Seq(StepType)
      /\ \A i \in 1..Len(t) : t[i] = s[i + 1]
    BY <1>1, HeadTailProperties, LenProperties
<1>3. t # <<>>
    <2> HIDE DEF t
    <2>1. Len(t) # 0
        BY <1>2
    <2> QED BY <2>1
<1>4. /\ Asking(s[k], sig) /\ Exchange(s[k + 1], sig)
      /\ \A i \in 1..Len(s) : i \notin {k, k + 1} => s[i] \in Peaceful
    BY DEF ExchangeAt
<1>5. CASE k = 1
    <2> DEFINE r == Tail(t)
    <2>1. /\ Len(t) \in Nat /\ Len(r) = Len(t) - 1 /\ Head(t) = t[1] /\ r \in Seq(StepType)
          /\ \A i \in 1..Len(r) : r[i] = t[i + 1]
        <3> HIDE DEF t
        <3> QED BY <1>2, <1>3, HeadTailProperties, LenProperties
    <2>2. Head(t) = s[k + 1]
        <3> HIDE DEF t, r
        <3>1. 1 \in 1..Len(t)
            BY <1>2, <1>5, <2>1
        <3> QED BY <1>2, <1>5, <2>1, <3>1
    <2>3. \A i \in 1..Len(r) : r[i] \in Peaceful
        <3> HIDE DEF t, r
        <3>1. \A i \in 1..Len(r) : i + 1 \in 1..Len(t) /\ i + 2 \in 1..Len(s) /\ i + 2 \notin {k, k + 1} /\ (i + 1) + 1 = i + 2
            BY <1>2, <1>5, <2>1
        <3> QED BY <1>2, <1>4, <2>1, <3>1
    <2>4. r \in Seq(Peaceful)
        <3>1. Len(r) \in Nat /\ r \in [1..Len(r) -> StepType]
            BY <2>1, LenProperties
        <3> HIDE DEF r, Peaceful
        <3>2. r \in [1..Len(r) -> Peaceful]
            BY <2>3, <3>1
        <3> QED BY <3>1, <3>2
    <2> QED BY <1>1, <1>2, <1>3, <1>4, <1>5, <2>2, <2>4
<1>6. CASE k # 1
    <2> DEFINE l == k - 1
    <2> HIDE DEF t
    <2>1. l \in 1..(Len(t) - 1) /\ l + 1 = k /\ l \in 1..Len(t) /\ l + 1 \in 1..Len(t)
          /\ 1 \in 1..Len(s) /\ 1 \notin {k, k + 1}
        BY <1>2, <1>6
    <2> HIDE DEF l
    <2>2. t[l] = s[k] /\ t[l + 1] = s[k + 1] /\ s[1] \in Peaceful
        BY <1>2, <1>4, <2>1
    <2>3. \A i \in 1..Len(t) : i \notin {l, l + 1} => t[i] \in Peaceful
        <3>1. \A i \in 1..Len(t) : i \notin {l, l + 1} => i + 1 \in 1..Len(s) /\ i + 1 \notin {k, k + 1}
            BY <1>2, <2>1
        <3> QED BY <1>2, <1>4, <3>1
    <2>4. ExchangeAt(t, sig, l)
        BY <1>4, <2>1, <2>2, <2>3 DEF ExchangeAt
    <2> QED BY <1>1, <1>2, <2>1, <2>2, <2>4 DEF t, l
<1> QED BY <1>5, <1>6

\* What the steps of the manager do to the message and the sizes.
LEMMA ManagerWire ==
    ASSUME ManagerStep
    PROVE  /\ UNCHANGED <<spaces, extra, bcasts, handler>>
           /\ \/ Head(todo).do \notin Exchanges /\ UNCHANGED <<wire, managerSizes>>
              \/ /\ Head(todo).do = "exchangeDsgus" /\ wire.to = "manager" /\ UNCHANGED managerSizes
                 /\ wire' = [wire EXCEPT !.to = "group", !.data = WithRemote(@)]
              \/ /\ Head(todo).do \in {"reduceSizes", "reduceExtraSizes"} /\ wire.to = "manager"
                 /\ wire' = [to |-> "group", sizes |-> managerSizes', data |-> {}]
                 /\ managerSizes' = IF Head(todo).do = "reduceSizes" THEN wire.sizes \cup RemoteSpaces
                                    ELSE wire.sizes \cap RemoteSpaces
<1> USE DEF Do, DoFor, workerVars, gridVars, commVars, methodVars, Exchanges
<1>1. CASE WaitAllFinished \/ WaitForPG \/ RebuildTasks \/ FetchInstructionStep \/ TakeValues
    BY <1>1 DEF WaitAllFinished, WaitForPG, RebuildTasks, FetchInstructionStep, TakeValues
<1>2. CASE ReduceSizes
    BY <1>2 DEF ReduceSizes, Nothing
<1>3. CASE ExchangeDsgus
    BY <1>3 DEF ExchangeDsgus
<1>4. ASSUME NEW g \in Groups,
             Runfirst(g) \/ Runnext(g) \/ SendCommand(g) \/ Request(g) \/ TakeReply(g) \/ RescheduleAddTask(g)
      PROVE  UNCHANGED <<spaces, extra, bcasts, handler, wire, managerSizes>> /\ Head(todo).do \notin Exchanges
    BY <1>4 DEF Runfirst, Runnext, SendCommand, Request, TakeReply, RescheduleAddTask
<1> QED BY <1>1, <1>2, <1>3, <1>4 DEF ManagerStep

\* A command that is sent, or not.
LEMMA DeliversFacts ==
    ASSUME Proved!TypeOK, NEW s, NEW g \in Groups, Delivers(s, g)
    PROVE  /\ NoneAsked(toWorker[g]) /\ Sent(s, g) \notin Exchanging => NoneAsked(toWorker'[g])
           /\ \A sig \in Exchanging : OneAsked(toWorker[g], sig) /\ Sent(s, g) \notin Exchanging
                => OneAsked(toWorker'[g], sig)
           /\ NoneAsked(toWorker[g]) /\ Sent(s, g) \in Exchanging => OneAsked(toWorker'[g], Sent(s, g))
<1> DEFINE q == toWorker[g]
           p == toWorker'[g]
<1>1. q \in Seq(PG!Command)
    BY CommandTypes
<1>2. Optional \cap Exchanging = {}
    BY DEF Optional, Exchanging
<1>3. CASE p = q /\ Sent(s, g) \in Optional
    BY <1>2, <1>3
<1>4. CASE \E c \in PG!Command : c.sig = Sent(s, g) /\ p = Append(q, c)
    <2>1. PICK c \in PG!Command : c.sig = Sent(s, g) /\ p = Append(q, c)
        BY <1>4
    <2> HIDE DEF q, p
    <2>2. NoneAsked(q) => (c.sig \notin Exchanging => NoneAsked(p)) /\ OneAsked(p, c.sig)
        BY <1>1, <2>1, AskedMore
    <2>3. ASSUME NEW sig \in Exchanging, OneAsked(q, sig), c.sig \notin Exchanging PROVE OneAsked(p, sig)
        <3>1. PICK i \in 1..Len(q) : q[i].sig = sig /\ \A j \in 1..Len(q) : j # i => q[j].sig \notin Exchanging
            BY <2>3 DEF OneAsked
        <3>2. /\ Len(q) \in Nat /\ Len(p) = Len(q) + 1 /\ p[Len(q) + 1] = c
              /\ \A j \in 1..Len(q) : p[j] = q[j]
            BY <1>1, <2>1, AppendProperties, LenProperties
        <3>3. i \in 1..Len(p) /\ p[i].sig = sig
            BY <3>1, <3>2
        <3>4. \A j \in 1..Len(p) : j = Len(q) + 1 \/ j \in 1..Len(q)
            BY <3>2
        <3>5. \A j \in 1..Len(p) : j # i => p[j].sig \notin Exchanging
            BY <2>3, <3>1, <3>2, <3>4
        <3> QED BY <3>3, <3>5 DEF OneAsked
    <2> QED BY <2>1, <2>2, <2>3 DEF q, p
<1> QED BY <1>3, <1>4 DEF Delivers

\* A step of the manager.
LEMMA ManagerExch ==
    ASSUME Proved!TypeOK, Shapes, todo \in Seq(StepType), Exch, ManagerStep
    PROVE  /\ Exch'
           /\ Head(todo).do \in Exchanges =>
                /\ Tail(todo) \in Seq(Peaceful)
                /\ \E sig \in Exchanging : Exchange(Head(todo), sig) /\ UnderExchange(sig)
<1> DEFINE s == Head(todo)
           q == toWorker[TLGroup]
           x == Upcoming(TLGroup)
<1>1. /\ todo # <<>> /\ todo' = Tail(todo)
      /\ UNCHANGED <<handler, phase, current>>
      /\ \A h \in Groups : Delivers(s, h)
    BY ManagerWays
<1>2. TLGroup \in Groups
    BY ManagerAssumption
<1>3. (s.do \notin Exchanges /\ UNCHANGED wire) \/ (s.do \in Exchanges /\ wire.to = "manager" /\ wire'.to = "group"
                          /\ wire' = [to |-> wire'.to, sizes |-> wire'.sizes, data |-> wire'.data])
    <2>1. wire = [to |-> wire.to, sizes |-> wire.sizes, data |-> wire.data]
        BY DEF Exch, OnTheWire
    <2> DEFINE w == [wire EXCEPT !.to = "group", !.data = WithRemote(@)]
    <2>2. w = [to |-> "group", sizes |-> wire.sizes, data |-> WithRemote(wire.data)]
        <3> DEFINE d == WithRemote(wire.data)
                   v == wire
                   u == [v EXCEPT !.to = "group"]
        <3>1. v = [to |-> v.to, sizes |-> v.sizes, data |-> v.data]
            BY <2>1
        <3> HIDE DEF v, d
        <3>2. u = [to |-> "group", sizes |-> v.sizes, data |-> v.data]
            BY <3>1
        <3> HIDE DEF u
        <3>3. [u EXCEPT !.data = d] = [to |-> "group", sizes |-> v.sizes, data |-> d]
            BY <3>2
        <3>4. w = [u EXCEPT !.data = d]
            BY DEF u, v, d
        <3> QED BY <3>3, <3>4 DEF v, d
    <2>3. w.to = "group" /\ w = [to |-> w.to, sizes |-> w.sizes, data |-> w.data]
        BY <2>2
    <2>4. CASE Head(todo).do \notin Exchanges /\ UNCHANGED <<wire, managerSizes>>
        BY <2>4
    <2>5. CASE Head(todo).do = "exchangeDsgus" /\ wire.to = "manager" /\ wire' = w
        BY <2>3, <2>5 DEF Exchanges
    <2>6. CASE /\ Head(todo).do \in {"reduceSizes", "reduceExtraSizes"} /\ wire.to = "manager"
               /\ wire' = [to |-> "group", sizes |-> managerSizes', data |-> {}]
        BY <2>6 DEF Exchanges
    <2> QED BY <2>4, <2>5, <2>6, ManagerWire
<1>4. Handling'
    BY <1>1 DEF Exch, Handling
<1>5. Upcoming(TLGroup)' = x
    BY <1>1 DEF Upcoming
<1>6. OnTheWire'
    <2>1. CASE UNCHANGED wire
        BY <1>5, <2>1 DEF Exch, OnTheWire
    <2>2. CASE ~UNCHANGED wire
        <3>1. wire.to = "manager" /\ wire'.to = "group"
              /\ wire' = [to |-> wire'.to, sizes |-> wire'.sizes, data |-> wire'.data]
            BY <1>3, <2>2
        <3> QED BY <1>5, <3>1, NoneAssumption DEF Exch, OnTheWire
    <2> QED BY <2>1, <2>2
<1>7. ASSUME s \in Peaceful
      PROVE  /\ UNCHANGED wire /\ s.do \notin Exchanges
             /\ NoExchange => NoExchange'
             /\ \A sig \in Exchanging : UnderExchange(sig) => UnderExchange(sig)'
             /\ \A g \in Groups : Sent(s, g) \notin Exchanging
    <2>1. s.do \notin Exchanges
        BY <1>7 DEF Peaceful
    <2> HIDE DEF s
    <2>2. \A g : Sent(s, g) \notin Exchanging
        BY <1>7, PeacefulSent
    <2>3. UNCHANGED wire
        BY <1>3, <2>1
    <2>4. /\ NoneAsked(q) => NoneAsked(q')
          /\ \A sig \in Exchanging : OneAsked(q, sig) => OneAsked(q', sig)
        BY <1>1, <1>2, <2>2, DeliversFacts
    <2> QED BY <1>1, <1>5, <2>1, <2>2, <2>3, <2>4 DEF NoExchange, UnderExchange, Quietly, Underway
<1>8. ASSUME \A g \in Groups : g # TLGroup => Sent(s, g) \notin Exchanging
      PROVE  OthersAsked'
    <2> HIDE DEF s
    <2>1. ASSUME NEW g \in Groups, g # TLGroup PROVE NoneAsked(toWorker'[g])
        BY <1>1, <1>8, <2>1, DeliversFacts DEF Exch, OthersAsked
    <2> QED BY <2>1 DEF OthersAsked
<1>9. CASE todo \in Seq(Peaceful) /\ NoExchange
    <2>1. s \in Peaceful /\ todo' \in Seq(Peaceful)
        <3> HIDE DEF Peaceful
        <3> QED BY <1>1, <1>9, HeadTailProperties
    <2>2. NoExchange' /\ OthersAsked' /\ s.do \notin Exchanges
        BY <1>7, <1>8, <1>9, <2>1
    <2> QED BY <1>4, <1>6, <2>1, <2>2 DEF Exch, Pairs
<1>10. ASSUME NEW sig \in Exchanging, NEW k \in 1..(Len(todo) - 1), ExchangeAt(todo, sig, k), NoExchange
       PROVE  Exch' /\ s.do \notin Exchanges
    <2>1. CASE s \in Peaceful /\ (k - 1) \in 1..(Len(Tail(todo)) - 1) /\ ExchangeAt(Tail(todo), sig, k - 1)
        <3>1. NoExchange' /\ OthersAsked' /\ s.do \notin Exchanges
            BY <1>7, <1>8, <1>10, <2>1
        <3>2. \E l \in 1..(Len(todo') - 1) : ExchangeAt(todo', sig, l)
            BY <1>1, <2>1
        <3> QED BY <1>4, <1>6, <3>1, <3>2 DEF Exch, Pairs
    <2>2. CASE /\ Asking(s, sig) /\ Tail(todo) # <<>> /\ Exchange(Head(Tail(todo)), sig)
               /\ Tail(Tail(todo)) \in Seq(Peaceful)
        <3>1. s.do \notin Exchanges
            BY <2>2 DEF Asking, Exchanges
        <3>2. UNCHANGED wire
            BY <1>3, <3>1
        <3> HIDE DEF s
        <3>3. Sent(s, TLGroup) = sig /\ \A g : g # TLGroup => Sent(s, g) \notin Exchanging
            BY <2>2, AskingSent
        <3>4. OneAsked(q', sig)
            BY <1>1, <1>2, <1>10, <3>3, DeliversFacts DEF NoExchange, Quietly
        <3>5. UnderExchange(sig)'
            BY <1>5, <1>10, <3>2, <3>4 DEF NoExchange, UnderExchange, Quietly, Underway
        <3>6. OthersAsked'
            BY <1>8, <3>3
        <3> QED BY <1>1, <1>4, <1>6, <2>2, <3>1, <3>5, <3>6 DEF Exch, Pairs
    <2> QED BY <1>10, <2>1, <2>2, ExchangeRest
<1>11. ASSUME NEW sig \in Exchanging, Exchange(s, sig), Tail(todo) \in Seq(Peaceful), UnderExchange(sig)
       PROVE  Exch'
    <2>1. s.do \in Exchanges /\ s.do \notin {"assign", "add", "remove", "runNext", "exit", "send", "sendUnchecked", "norms"}
        BY <1>11 DEF Exchange, ExchangeOf, Exchanging, Exchanges
    <2>2. wire.to = "manager" /\ wire'.to = "group"
        <3>1. wire.to = "manager"
            BY <2>1, ManagerWire DEF Exchanges
        <3> QED BY <1>3, <2>1, <3>1
    <2>3. s \in StepType
        BY <1>1, HeadTailProperties
    <2> HIDE DEF s
    <2>4. \A g : Sent(s, g) = "none"
        BY <2>1, <2>3, SilentSteps
    <2>5. "none" \notin Exchanging
        BY DEF Exchanging
    <2>6. NoneAsked(q) /\ x \notin Asks
        BY <1>11, <2>2 DEF UnderExchange, Underway
    <2>7. NoneAsked(q')
        BY <1>1, <1>2, <2>4, <2>5, <2>6, DeliversFacts
    <2>8. NoExchange'
        BY <1>5, <2>2, <2>6, <2>7 DEF NoExchange, Quietly
    <2>9. OthersAsked'
        BY <1>8, <2>4, <2>5
    <2> QED BY <1>1, <1>4, <1>6, <1>11, <2>8, <2>9 DEF Exch, Pairs
<1> QED BY <1>9, <1>10, <1>11 DEF Exch, Pairs

-----------------------------------------------------------------------------
\* The steps of the groups and an exchange.

\* What the steps of the handlers do to the message and the sizes.
Changes(g) ==
    LET x == Head(handler[g]) IN
    /\ UNCHANGED <<protocolVars, methodVars, todo>>
    /\ x \notin {"bcastDsg", "bcastSizes", "takeDsg", "takeSizes"} => UNCHANGED bcasts
    /\ x \notin Asks \cup Answers => UNCHANGED wire
    /\ x \notin {"initDsg", "scatterSizes", "takeSizes"} => UNCHANGED spaces
    /\ x # "scatterExtra" => UNCHANGED extra
    /\ x = "sendDsg" => wire' = [to |-> "manager", sizes |-> IF extra = None THEN spaces[g] ELSE extra,
                                 data |-> dsg[g]]
    /\ x = "gatherSizes" => /\ wire' = [to |-> "manager", sizes |-> spaces[g], data |-> {}]
                            /\ Head(Tail(handler[g])) = "scatterExtra" => extra = None
    /\ x \in Answers => wire.to = "group" /\ wire' = [to |-> None, sizes |-> {}, data |-> {}]
    /\ x = "scatterSizes" => spaces' = [spaces EXCEPT ![g] = wire.sizes]
    /\ x = "scatterExtra" => extra' = wire.sizes
    /\ x = "initDsg" => spaces' = [spaces EXCEPT ![g] = @ \cup ToSet(workerTasks[g])]
    /\ x = "bcastDsg" => Broadcast(g, [kind |-> "dsg", sizes |-> spaces[g], data |-> dsg[g]])
    /\ x = "bcastSizes" => Broadcast(g, [kind |-> "sizes", sizes |-> spaces[g], data |-> {}])
    /\ x \in {"takeDsg", "takeSizes"} => bcasts[g] # <<>> /\ bcasts' = [bcasts EXCEPT ![g] = Tail(@)]
    /\ x = "takeSizes" => spaces' = [spaces EXCEPT ![g] = Head(bcasts[g]).sizes]

LEMMA HandlerChanges ==
    ASSUME NEW g, HandlerStep(g)
    PROVE  Changes(g)
<1> USE DEF At, managerSide, gridVars, commVars, Asks, Answers, Changes
<1>1. InitDsg(g) => Changes(g)
    BY DEF InitDsg
<1>2. SendDsg(g) => Changes(g)
    BY DEF SendDsg
<1>3. RecvDsg(g) => Changes(g)
    BY DEF RecvDsg, Nothing
<1>4. WaitBcast(g) => Changes(g)
    BY DEF WaitBcast
<1>5. GatherSizes(g) => Changes(g)
    BY DEF GatherSizes
<1>6. ScatterSizes(g) => Changes(g)
    BY DEF ScatterSizes, Nothing
<1>7. ZeroDsgsData(g) => Changes(g)
    BY DEF ZeroDsgsData
<1>8. WriteDsg(g) => Changes(g)
    BY DEF WriteDsg
<1>9. ReadReduce(g) => Changes(g)
    BY DEF ReadReduce
<1>10. RemoveToken(g) => Changes(g)
    BY DEF RemoveToken
<1>11. SendValues(g) => Changes(g)
    BY DEF SendValues
<1>12. ReduceLocal(g) => Changes(g)
    BY DEF ReduceLocal
<1>13. Distribute(g) => Changes(g)
    BY DEF Distribute
<1>14. BcastDsg(g) => Changes(g)
    BY DEF BcastDsg
<1>15. BcastSizes(g) => Changes(g)
    BY DEF BcastSizes
<1>16. TakeDsg(g) => Changes(g)
    BY DEF TakeDsg
<1>17. TakeSizes(g) => Changes(g)
    BY DEF TakeSizes
<1> HIDE DEF Changes
<1> QED BY <1>1, <1>2, <1>3, <1>4, <1>5, <1>6, <1>7, <1>8, <1>9, <1>10, <1>11, <1>12, <1>13, <1>14,
       <1>15, <1>16, <1>17 DEF HandlerStep

\* A step of a handler, and what is left of it.
LEMMA HandlerNext ==
    ASSUME Proved!TypeOK, Shapes, Handling, NEW g \in Groups, HandlerStep(g)
    PROVE  /\ phase[g] = "running" /\ handler[g] # <<>> /\ Upcoming(g) = Head(handler[g])
           /\ Upcoming(g)' = FirstOf(Tail(handler[g]))
           /\ After(current[g].sig, Upcoming(g), Upcoming(g)')
           /\ handler'[g] = Tail(handler[g]) /\ handler'[g] \in Left(current[g].sig)
           /\ \A h \in Groups : h # g => handler'[h] = handler[h] /\ Upcoming(h)' = Upcoming(h)
           /\ UNCHANGED <<todo, stage, toWorker, phase, current, workerTasks>>
           /\ Handling'
<1>1. /\ handler[g] # <<>> /\ handler' = [handler EXCEPT ![g] = Tail(@)]
      /\ UNCHANGED <<todo, stage, toWorker, phase, current, workerTasks>>
    BY HandlerFacts
<1>2. handler \in [Groups -> Seq(Handled)] /\ phase[g] = "running"
    BY <1>1 DEF Shapes
<1>3. handler'[g] = Tail(handler[g]) /\ \A h \in Groups : h # g => handler'[h] = handler[h]
    BY <1>1, <1>2
<1>4. handler[g] \in Left(current[g].sig)
    BY <1>2 DEF Handling
<1>5. Tail(handler[g]) \in Left(current[g].sig)
      /\ After(current[g].sig, Head(handler[g]), FirstOf(Tail(handler[g])))
    BY <1>1, <1>4, LeftFacts
<1>6. Upcoming(g) = Head(handler[g]) /\ Upcoming(g)' = FirstOf(Tail(handler[g]))
    <2>1. Upcoming(g) = Head(handler[g])
        BY <1>1 DEF Upcoming, FirstOf
    <2>2. Upcoming(g)' = FirstOf(handler'[g])
        BY DEF Upcoming
    <2> QED BY <1>3, <2>1, <2>2
<1>7. \A h \in Groups : h # g => Upcoming(h)' = Upcoming(h)
    BY <1>3 DEF Upcoming, FirstOf
<1>8. Handling'
    BY <1>1, <1>3, <1>5 DEF Handling
<1> QED BY <1>1, <1>2, <1>3, <1>5, <1>6, <1>7, <1>8

\* Only the third level group exchanges.
LEMMA OnlyThird ==
    ASSUME Shapes, Handling, NEW g \in Groups, Upcoming(g) \in Asks \cup Answers \cup {"bcastSizes"}
    PROVE  g = TLGroup
<1>1. "none" \notin Asks \cup Answers \cup {"bcastSizes"}
    BY DEF Asks, Answers
<1>2. handler[g] # <<>> /\ Upcoming(g) = Head(handler[g])
    BY <1>1 DEF Upcoming, FirstOf
<1>3. phase[g] = "running"
    BY <1>2 DEF Shapes
<1>4. handler[g] \in Left(current[g].sig) /\ (current[g].sig \in Exchanging => g = TLGroup)
    BY <1>3 DEF Handling
<1>5. After(current[g].sig, Head(handler[g]), FirstOf(Tail(handler[g])))
    BY <1>2, <1>4, LeftFacts
<1> QED BY <1>2, <1>4, <1>5 DEF After, Asks, Answers, Exchanging

\* A step of a handler.
LEMMA HandlerExch ==
    ASSUME Proved!TypeOK, Shapes, Exch, NEW g \in Groups, HandlerStep(g)
    PROVE  Exch'
<1> DEFINE x == Upcoming(g)
           y == Upcoming(g)'
           sig == current[g].sig
<1>1. Handling /\ OthersAsked /\ OnTheWire /\ Pairs
    BY DEF Exch
<1>2. /\ phase[g] = "running" /\ x = Head(handler[g]) /\ After(sig, x, y) /\ Handling'
      /\ \A h \in Groups : h # g => Upcoming(h)' = Upcoming(h)
      /\ UNCHANGED <<todo, toWorker, phase, current>>
    BY <1>1, HandlerNext
<1>3. /\ x \notin Asks \cup Answers => UNCHANGED wire
      /\ x \in Asks => \E a, b : wire' = [to |-> "manager", sizes |-> a, data |-> b]
      /\ x \in Answers => wire.to = "group" /\ wire' = [to |-> None, sizes |-> {}, data |-> {}]
    <2>1. Changes(g) /\ x = Head(handler[g])
        BY <1>2, HandlerChanges
    <2>2. x \notin Asks \cup Answers => UNCHANGED wire
        BY <2>1 DEF Changes
    <2>3. x \in Asks => \E a, b : wire' = [to |-> "manager", sizes |-> a, data |-> b]
        <3>1. CASE x = "sendDsg"
            BY <2>1, <3>1 DEF Changes
        <3>2. CASE x = "gatherSizes"
            BY <2>1, <3>2 DEF Changes
        <3> QED BY <3>1, <3>2 DEF Asks
    <2>4. x \in Answers => wire.to = "group" /\ wire' = [to |-> None, sizes |-> {}, data |-> {}]
        BY <2>1 DEF Changes
    <2> QED BY <2>2, <2>3, <2>4
<1>4. x \in Asks \cup Answers => g = TLGroup
    BY <1>1, OnlyThird
<1>5. OthersAsked'
    BY <1>1, <1>2 DEF OthersAsked
<1>6. CASE g # TLGroup
    <2>1. UNCHANGED wire
        BY <1>3, <1>4, <1>6
    <2>2. Upcoming(TLGroup)' = Upcoming(TLGroup)
        BY <1>2, <1>6, ManagerAssumption
    <2>3. OnTheWire'
        BY <1>1, <2>1, <2>2 DEF OnTheWire
    <2>4. Proceeds(toWorker[TLGroup], Upcoming(TLGroup), current[TLGroup].sig, wire.to,
                   toWorker'[TLGroup], Upcoming(TLGroup)', current'[TLGroup].sig, wire'.to)
        BY <1>2, <2>1, <2>2 DEF Proceeds
    <2>5. Pairs'
        BY <1>1, <1>2, <2>4, PairsKept
    <2> QED BY <1>2, <1>5, <2>3, <2>5 DEF Exch
<1>7. CASE g = TLGroup
    <2>1. Asks \cap Answers = {}
        BY DEF Asks, Answers
    <2>2. (x \in Asks => y \in Answers) /\ (x \notin Asks => y \notin Asks \cup Answers)
        BY <1>2 DEF After
    <2>3. wire.to # None <=> x \in Answers
        BY <1>1, <1>7 DEF OnTheWire
    <2> HIDE DEF x, y
    <2>4. OnTheWire' /\ (wire'.to = "manager" <=> x \in Asks)
        <3>1. CASE x \in Asks
            <4>1. PICK a, b : wire' = [to |-> "manager", sizes |-> a, data |-> b]
                BY <1>3, <3>1
            <4>2. wire'.to = "manager" /\ wire' = [to |-> wire'.to, sizes |-> wire'.sizes, data |-> wire'.data]
                BY <4>1
            <4> QED BY <1>7, <2>1, <2>2, <3>1, <4>2, NoneAssumption DEF OnTheWire, y
        <3>2. CASE x \in Answers
            <4>1. wire'.to = None /\ wire' = [to |-> wire'.to, sizes |-> wire'.sizes, data |-> wire'.data]
                BY <1>3, <3>2
            <4> QED BY <1>7, <2>1, <2>2, <3>2, <4>1, NoneAssumption DEF OnTheWire, y
        <3>3. CASE x \notin Asks \cup Answers
            <4>1. UNCHANGED wire /\ wire.to = None
                BY <1>3, <2>3, <3>3
            <4> QED BY <1>1, <1>7, <2>2, <3>3, <4>1, NoneAssumption DEF OnTheWire, y
        <3> QED BY <3>1, <3>2, <3>3
    <2>5. wire.to # "manager"
        <3>1. x \in Answers => wire.to = "group"
            BY <1>3
        <3> QED BY <2>3, <3>1, NoneAssumption
    <2>6. Proceeds(toWorker[TLGroup], x, sig, wire.to, toWorker'[TLGroup], y, current'[TLGroup].sig, wire'.to)
        BY <1>2, <1>7, <2>1, <2>2, <2>4, <2>5 DEF Proceeds
    <2>7. Pairs'
        BY <1>1, <1>2, <1>7, <2>6, PairsKept DEF x, y
    <2> QED BY <1>2, <1>5, <2>4, <2>7 DEF Exch
<1> QED BY <1>6, <1>7

\* A group begins with a command.
LEMMA ReceiveFacts ==
    ASSUME Proved!TypeOK, Shapes, NEW g \in Groups, ReceiveSignal(g)
    PROVE  /\ phase[g] = "idle" /\ handler[g] = <<>> /\ toWorker[g] # <<>> /\ toWorker'[g] = Tail(toWorker[g])
           /\ current'[g] = Head(toWorker[g]) /\ current'[g] \in PG!Command /\ current'[g].sig \in PG!Signals
           /\ phase'[g] = "running" /\ handler'[g] = HandlerOf(current'[g].sig)
           /\ \A h \in Groups : h # g => /\ current'[h] = current[h] /\ toWorker'[h] = toWorker[h]
                                         /\ phase'[h] = phase[h] /\ handler'[h] = handler[h]
           /\ UNCHANGED <<status, posted, statusMsgs, awaiting, workerTasks, todo, methodVars, gridVars, commVars>>
<1> DEFINE c == Head(toWorker[g])
<1>1. /\ phase[g] = "idle" /\ toWorker[g] # <<>> /\ current'[g] = c /\ toWorker'[g] = Tail(toWorker[g])
      /\ phase'[g] = "running"
      /\ \A h \in Groups : h # g => /\ current'[h] = current[h] /\ toWorker'[h] = toWorker[h]
                                    /\ phase'[h] = phase[h]
      /\ UNCHANGED <<status, posted, statusMsgs, awaiting, workerTasks, todo, methodVars, gridVars, commVars>>
    BY CommandTypes DEF ReceiveSignal, PG!ReceiveSignal, PG!managerVars
<1>2. handler \in [Groups -> Seq(Handled)] /\ handler[g] = <<>>
    BY <1>1 DEF Shapes
<1>3. handler'[g] = HandlerOf(c.sig) /\ \A h \in Groups : h # g => handler'[h] = handler[h]
    BY <1>1, <1>2 DEF ReceiveSignal
<1>4. toWorker[g] \in Seq(PG!Command)
    BY CommandTypes
<1>5. c \in PG!Command
    BY <1>1, <1>4, HeadTailProperties
<1> HIDE DEF c
<1>6. c.sig \in PG!Signals
    BY <1>5, CommandSignals
<1> QED BY <1>1, <1>2, <1>3, <1>5, <1>6 DEF c

LEMMA ReceiveExch ==
    ASSUME Proved!TypeOK, Shapes, Exch, NEW g \in Groups, ReceiveSignal(g)
    PROVE  Exch'
<1> DEFINE c == current'[g]
           q == toWorker[g]
<1>1. Handling /\ OthersAsked /\ OnTheWire /\ Pairs
    BY DEF Exch
<1>2. /\ handler[g] = <<>> /\ q # <<>> /\ toWorker'[g] = Tail(q) /\ c = Head(q) /\ c.sig \in PG!Signals
      /\ phase'[g] = "running" /\ handler'[g] = HandlerOf(c.sig) /\ todo' = todo /\ wire' = wire
      /\ \A h \in Groups : h # g => /\ current'[h] = current[h] /\ toWorker'[h] = toWorker[h]
                                    /\ phase'[h] = phase[h] /\ handler'[h] = handler[h]
    BY ReceiveFacts DEF commVars
<1>3. q \in Seq(PG!Command)
    BY CommandTypes
<1>4. /\ HandlerOf(c.sig) \in Left(c.sig) /\ FirstOf(HandlerOf(c.sig)) \notin Answers
      /\ FirstOf(HandlerOf(c.sig)) \in Asks <=> c.sig \in Exchanging
    <2> HIDE DEF c
    <2> QED BY <1>2, LeftBegins
<1>5. Upcoming(g) = "none" /\ Upcoming(g)' = FirstOf(HandlerOf(c.sig))
    <2>1. Upcoming(g) = "none"
        BY <1>2 DEF Upcoming, FirstOf
    <2>2. Upcoming(g)' = FirstOf(handler'[g])
        BY DEF Upcoming
    <2> QED BY <1>2, <2>1, <2>2
<1>6. "none" \notin Asks \cup Answers
    BY DEF Asks, Answers
<1> HIDE DEF c, q
<1>7. g # TLGroup => c.sig \notin Exchanging /\ NoneAsked(Tail(q))
    BY <1>1, <1>2, <1>3, AskedLess DEF OthersAsked, q
<1>8. Handling'
    BY <1>1, <1>2, <1>4, <1>7 DEF Handling, c
<1>9. OthersAsked'
    BY <1>1, <1>2, <1>7 DEF OthersAsked
<1>10. CASE g # TLGroup
    <2>1. /\ Upcoming(TLGroup)' = Upcoming(TLGroup) /\ toWorker'[TLGroup] = toWorker[TLGroup]
          /\ current'[TLGroup] = current[TLGroup]
        BY <1>2, <1>10, ManagerAssumption DEF Upcoming
    <2>2. OnTheWire'
        BY <1>1, <1>2, <2>1 DEF OnTheWire
    <2>3. Proceeds(toWorker[TLGroup], Upcoming(TLGroup), current[TLGroup].sig, wire.to,
                   toWorker'[TLGroup], Upcoming(TLGroup)', current'[TLGroup].sig, wire'.to)
        BY <1>2, <2>1 DEF Proceeds
    <2>4. Pairs'
        BY <1>1, <1>2, <2>3, PairsKept
    <2> QED BY <1>8, <1>9, <2>2, <2>4 DEF Exch
<1>11. CASE g = TLGroup
    <2>1. wire.to = None
        BY <1>1, <1>5, <1>6, <1>11 DEF OnTheWire
    <2>2. OnTheWire'
        BY <1>1, <1>2, <1>4, <1>5, <1>11, <2>1 DEF OnTheWire
    <2>3. Proceeds(toWorker[TLGroup], Upcoming(TLGroup), current[TLGroup].sig, wire.to,
                   toWorker'[TLGroup], Upcoming(TLGroup)', current'[TLGroup].sig, wire'.to)
        BY <1>2, <1>4, <1>5, <1>6, <1>11, <2>1, NoneAssumption DEF Proceeds, c, q
    <2>4. Pairs'
        BY <1>1, <1>2, <2>3, PairsKept
    <2> QED BY <1>8, <1>9, <2>2, <2>4 DEF Exch
<1> QED BY <1>10, <1>11

\* A reduction.
LEMMA CollectiveNext ==
    ASSUME Shapes, Handling, Collective
    PROVE  \E x \in {"reduceSizes", "reduceGlobal", "reduceValues"} :
                \A g \in Groups : /\ phase[g] = "running" /\ handler[g] # <<>> /\ Upcoming(g) = x
                                  /\ handler'[g] = Tail(handler[g]) /\ handler'[g] \in Left(current[g].sig)
                                  /\ Upcoming(g)' = FirstOf(Tail(handler[g]))
                                  /\ After(current[g].sig, x, Upcoming(g)')
<1>1. PICK x \in {"reduceSizes", "reduceGlobal", "reduceValues"} :
            /\ \A g \in Groups : handler[g] # <<>> /\ Head(handler[g]) = x
            /\ handler' = [g \in Groups |-> Tail(handler[g])]
    BY CollectiveFacts
<1>2. ASSUME NEW g \in Groups
      PROVE  /\ phase[g] = "running" /\ handler[g] # <<>> /\ Upcoming(g) = x
             /\ handler'[g] = Tail(handler[g]) /\ handler'[g] \in Left(current[g].sig)
             /\ Upcoming(g)' = FirstOf(Tail(handler[g]))
             /\ After(current[g].sig, x, Upcoming(g)')
    <2>1. handler[g] # <<>> /\ Head(handler[g]) = x /\ handler'[g] = Tail(handler[g])
        BY <1>1
    <2>2. phase[g] = "running"
        BY <2>1 DEF Shapes
    <2>3. handler[g] \in Left(current[g].sig)
        BY <2>2 DEF Handling
    <2>4. Tail(handler[g]) \in Left(current[g].sig)
          /\ After(current[g].sig, Head(handler[g]), FirstOf(Tail(handler[g])))
        BY <2>1, <2>3, LeftFacts
    <2>5. Upcoming(g)' = FirstOf(handler'[g])
        BY DEF Upcoming
    <2>6. Upcoming(g) = Head(handler[g])
        BY <2>1 DEF Upcoming, FirstOf
    <2> QED BY <2>1, <2>2, <2>4, <2>5, <2>6
<1> QED BY <1>2

LEMMA CollectiveExch ==
    ASSUME Proved!TypeOK, Shapes, Exch, Collective
    PROVE  Exch'
<1>1. Handling /\ OthersAsked /\ OnTheWire /\ Pairs
    BY DEF Exch
<1>2. UNCHANGED <<todo, toWorker, phase, current, wire>>
    BY CollectiveFacts DEF Collective, ReduceSubspaceSizes, ReduceGlobal, ReduceValues, commVars
<1>3. PICK x \in {"reduceSizes", "reduceGlobal", "reduceValues"} :
        \A g \in Groups : /\ Upcoming(g) = x /\ handler'[g] \in Left(current[g].sig)
                          /\ After(current[g].sig, x, Upcoming(g)')
    BY <1>1, CollectiveNext
<1>4. x \notin Asks \cup Answers
    BY DEF Asks, Answers
<1>5. Upcoming(TLGroup) = x /\ Upcoming(TLGroup)' \notin Asks \cup Answers
    BY <1>3, <1>4, ManagerAssumption DEF After
<1>6. Handling' /\ OthersAsked'
    BY <1>1, <1>2, <1>3 DEF Handling, OthersAsked
<1>7. OnTheWire'
    BY <1>1, <1>2, <1>4, <1>5 DEF OnTheWire
<1>8. Proceeds(toWorker[TLGroup], Upcoming(TLGroup), current[TLGroup].sig, wire.to,
               toWorker'[TLGroup], Upcoming(TLGroup)', current'[TLGroup].sig, wire'.to)
    BY <1>2, <1>4, <1>5 DEF Proceeds
<1>9. Pairs'
    BY <1>1, <1>2, <1>8, PairsKept
<1> QED BY <1>6, <1>7, <1>9 DEF Exch

\* The other steps of the groups.
LEMMA RestExch ==
    ASSUME Proved!TypeOK, Shapes, Exch, UNCHANGED <<todo, toWorker, handler, wire>>,
           \A g \in Groups : phase'[g] = "running" => phase[g] = "running" /\ current'[g] = current[g],
           \A g \in Groups : phase[g] = "running" /\ handler[g] # <<>> => current'[g] = current[g]
    PROVE  Exch'
<1>1. Handling /\ OthersAsked /\ OnTheWire /\ Pairs
    BY DEF Exch
<1>2. \A g \in Groups : Upcoming(g)' = Upcoming(g)
    BY DEF Upcoming
<1>3. Handling' /\ OthersAsked'
    BY <1>1 DEF Handling, OthersAsked
<1>4. OnTheWire'
    BY <1>1, <1>2, ManagerAssumption DEF OnTheWire
<1>5. TLGroup \in Groups
    BY ManagerAssumption
<1>6. Upcoming(TLGroup) \in Asks \cup Answers => current'[TLGroup] = current[TLGroup]
    <2>1. "none" \notin Asks \cup Answers
        BY DEF Asks, Answers
    <2>2. handler[TLGroup] = <<>> => Upcoming(TLGroup) = "none"
        BY DEF Upcoming, FirstOf
    <2>3. handler[TLGroup] # <<>> => phase[TLGroup] = "running"
        BY <1>5 DEF Shapes
    <2> QED BY <1>5, <2>1, <2>2, <2>3
<1>7. wire.to = "manager" => Upcoming(TLGroup) \in Answers
    BY <1>1, NoneAssumption DEF OnTheWire
<1>8. Proceeds(toWorker[TLGroup], Upcoming(TLGroup), current[TLGroup].sig, wire.to,
               toWorker'[TLGroup], Upcoming(TLGroup)', current'[TLGroup].sig, wire'.to)
    <2>1. UNCHANGED <<toWorker, wire>> /\ Upcoming(TLGroup)' = Upcoming(TLGroup)
        BY <1>2, <1>5
    <2> QED BY <1>6, <1>7, <2>1 DEF Proceeds
<1>9. Pairs'
    BY <1>1, <1>8, PairsKept
<1> QED BY <1>3, <1>4, <1>9 DEF Exch

\* A call of a method.
LEMMA CallExch ==
    ASSUME Proved!TypeOK, TaskInv, Shapes, Exch, CallMethod
    PROVE  Exch'
<1>1. Handling /\ OthersAsked /\ OnTheWire /\ Pairs
    BY DEF Exch
<1>2. UNCHANGED <<handler, bcasts, wire, phase, current, workerTasks, toWorker>> /\ todo = <<>>
    BY DEF CallMethod, Call, CallReschedule, protocolVars, gridVars, commVars
<1>3. NoExchange
    <2>1. CASE \E sig \in Exchanging, k \in 1..(Len(todo) - 1) : ExchangeAt(todo, sig, k) /\ NoExchange
        BY <2>1
    <2> QED BY <1>1, <1>2, <2>1 DEF Pairs
<1>4. NoExchange' /\ Handling' /\ OthersAsked' /\ OnTheWire'
    BY <1>1, <1>2, <1>3 DEF NoExchange, Handling, OthersAsked, OnTheWire, Upcoming
<1>5. ASSUME NEW op, Call(op) PROVE Pairs'
    <2>1. op \in Allowed[stage] /\ todo' = Script(op) /\ stage \in Stages /\ taskList \in Seq(Tasks)
        BY <1>5 DEF Call, TaskInv
    <2>2. op \in AllOps
        BY <2>1, AllAllowed
    <2>3. CASE op \notin ExchangeOps
        BY <1>4, <2>1, <2>2, <2>3, PeacefulScripts DEF Pairs
    <2>4. CASE op \in ExchangeOps
        BY <1>4, <2>1, <2>4, ExchangeScripts DEF Pairs
    <2> QED BY <2>3, <2>4
<1>6. ASSUME CallReschedule PROVE Pairs'
    <2>1. stage = "combined"
        BY <1>6 DEF CallReschedule
    <2>2. PICK X \in SUBSET Tasks : \E to \in [X -> Groups] : todo' = MoveAll(X, to)
        BY <1>6 DEF CallReschedule, MoveAll
    <2>3. \A t \in X : OwnerOf(t) \in Groups
        BY <1>2, <2>1, AllHeld, TaskOwned
    <2>4. todo' \in Seq(Peaceful)
        BY <2>2, <2>3, PeacefulMoves
    <2> QED BY <1>4, <2>4 DEF Pairs
<1>7. Pairs'
    BY <1>5, <1>6 DEF CallMethod
<1> QED BY <1>4, <1>7 DEF Exch

\* At the start.
LEMMA InitExch == Init => Exch
<1> SUFFICES ASSUME Init PROVE Exch
    OBVIOUS
<1>1. /\ todo = <<>> /\ handler = [g \in Groups |-> <<>>] /\ wire = [to |-> None, sizes |-> {}, data |-> {}]
      /\ toWorker = [g \in Groups |-> <<>>] /\ phase = [g \in Groups |-> "idle"]
    BY DEF Init, Nothing, PG!Init
<1>2. TLGroup \in Groups /\ \A g \in Groups : NoneAsked(toWorker[g]) /\ Upcoming(g) = "none" /\ phase[g] # "running"
    BY <1>1, ManagerAssumption DEF NoneAsked, Upcoming, FirstOf
<1>3. "none" \notin Asks \cup Answers
    BY DEF Asks, Answers
<1>4. wire.to = None /\ wire = [to |-> wire.to, sizes |-> wire.sizes, data |-> wire.data]
    BY <1>1
<1>5. OnTheWire
    BY <1>2, <1>3, <1>4 DEF OnTheWire
<1>6. Handling /\ OthersAsked
    BY <1>2 DEF Handling, OthersAsked
<1>7. NoExchange
    BY <1>2, <1>3, <1>4, NoneAssumption DEF NoExchange, Quietly
<1>8. todo \in Seq(Peaceful)
    BY <1>1, PeaceThen
<1> QED BY <1>5, <1>6, <1>7, <1>8 DEF Exch, Pairs

\* Every step.
LEMMA NextExch ==
    ASSUME Proved!TypeOK, TaskInv, Shapes, Exch, [Next]_vars
    PROVE  Exch'
<1> USE DEF managerSide, workerVars, protocolVars, methodVars, gridVars, commVars
<1>1. todo \in Seq(StepType)
    BY DEF TaskInv, StepType
<1>2. CASE ManagerStep
    BY <1>1, <1>2, ManagerExch
<1>3. CASE CallMethod
    BY <1>3, CallExch
<1>4. CASE Collective
    BY <1>4, CollectiveExch
<1>5. ASSUME NEW g \in Groups, WorkerStep(g) PROVE Exch'
    <2>1. CASE ReceiveSignal(g)
        BY <2>1, ReceiveExch
    <2>2. CASE HandlerStep(g)
        BY <2>2, HandlerExch
    <2>3. CASE Execute(g)
        <3>1. /\ UNCHANGED <<todo, toWorker, handler, wire, current>> /\ phase'[g] = "done"
              /\ \A h \in Groups : h # g => phase'[h] = phase[h]
            BY <2>3, CommandTypes DEF Execute, PG!Execute
        <3> QED BY <3>1, RestExch
    <2>4. CASE SendStatus(g)
        <3>1. /\ UNCHANGED <<todo, toWorker, handler, wire>> /\ phase[g] = "done" /\ phase'[g] # "running"
              /\ \A h \in Groups : h # g => phase'[h] = phase[h] /\ current'[h] = current[h]
            BY <2>4, CommandTypes DEF SendStatus, PG!SendStatus
        <3> QED BY <3>1, RestExch
    <2> QED BY <1>5, <2>1, <2>2, <2>3, <2>4 DEF WorkerStep
<1>6. CASE \E g \in Groups : DeliverStatus(g)
    <2>1. UNCHANGED <<todo, toWorker, handler, wire, phase, current>>
        BY <1>6 DEF DeliverStatus, PG!DeliverStatus, PG!workerVars
    <2> QED BY <2>1, RestExch
<1>7. CASE RemoteFileArrives \/ UNCHANGED vars
    <2>1. UNCHANGED <<todo, toWorker, handler, wire, phase, current>>
        BY <1>7 DEF RemoteFileArrives, vars
    <2> QED BY <2>1, RestExch
<1> QED BY <1>2, <1>3, <1>4, <1>5, <1>6, <1>7 DEF Next

-----------------------------------------------------------------------------
\* The sizes of the sparse grids.

\* The scatters of the sizes the manager has reduced, and the manager's reductions.
Scatters == {"scatterSizes", "scatterExtra"}

SizeSteps == {"reduceSizes", "reduceExtraSizes"}

NoStep(seq, K) == \A i \in 1..Len(seq) : seq[i].do \notin K

\* The size of a group's sparse grid, when it has taken i of the broadcasts under way to it.
SizesAt(g, i) == IF i = 0 THEN spaces[g] ELSE bcasts[g][i].sizes

\* What the third level group sends to the manager.
SentSizes == IF extra = None THEN spaces[TLGroup] ELSE extra

\* Every sparse grid has the subspaces of all tasks, a broadcast of sparse grid data changes no
\* size, and a group that has taken all broadcasts has the third level group's size.
Announced ==
    \A g \in Groups \ {TLGroup} :
        /\ \A i \in 0..Len(bcasts[g]) : Tasks \subseteq SizesAt(g, i)
        /\ \A i \in 1..Len(bcasts[g]) : bcasts[g][i].kind = "dsg" => SizesAt(g, i) = SizesAt(g, i - 1)
        /\ Upcoming(TLGroup) # "bcastSizes" => SizesAt(g, Len(bcasts[g])) = spaces[TLGroup]

\* The message has the size the receiver expects: the manager knows the size of what the third
\* level group sends, once it has reduced the sizes, and before that nothing is exchanged.
Agreed ==
    /\ Upcoming(TLGroup) = "scatterSizes" => Tasks \subseteq wire.sizes
    /\ Upcoming(TLGroup) = "recvDsg" /\ wire.to = "manager" => wire.sizes = SentSizes
    /\ Upcoming(TLGroup) \in Scatters /\ wire.to = "group" => wire.sizes = managerSizes
    /\ managerSizes = None => extra = None /\ NoStep(todo, {"exchangeDsgus"})
    /\ managerSizes # None =>
        /\ NoStep(todo, SizeSteps)
        /\ Upcoming(TLGroup) \in Scatters => wire.to = "group" /\ extra = None
        /\ Upcoming(TLGroup) \notin Scatters => SentSizes = managerSizes

Settled == Tasks \subseteq spaces[TLGroup] /\ Announced /\ Agreed

\* Steps of a method.
LEMMA StepsLess ==
    ASSUME NEW T, NEW s \in Seq(T), s # <<>>, NEW K, NoStep(s, K)
    PROVE  Head(s).do \notin K /\ NoStep(Tail(s), K)
<1>1. Len(s) \in Nat /\ Len(Tail(s)) = Len(s) - 1 /\ Head(s) = s[1] /\ Len(s) # 0
      /\ \A i \in 1..Len(Tail(s)) : Tail(s)[i] = s[i + 1]
    BY HeadTailProperties, LenProperties, EmptySeq
<1>2. 1 \in 1..Len(s) /\ \A i \in 1..Len(Tail(s)) : i + 1 \in 1..Len(s)
    BY <1>1
<1> QED BY <1>1, <1>2 DEF NoStep

LEMMA PeacefulSteps ==
    ASSUME NEW s \in Seq(Peaceful)
    PROVE  NoStep(s, Exchanges)
<1>1. s \in [1..Len(s) -> Peaceful]
    BY LenProperties
<1>2. \A i \in 1..Len(s) : s[i] \in Peaceful
    BY <1>1
<1> QED BY <1>2 DEF NoStep, Peaceful

LEMMA ExchangeSteps ==
    ASSUME NEW s, NEW sig, NEW k, ExchangeAt(s, sig, k)
    PROVE  NoStep(s, Exchanges \ {ExchangeOf(sig)})
<1>1. \A i \in 1..Len(s) : i = k \/ i = k + 1 \/ s[i] \in Peaceful
    BY DEF ExchangeAt
<1>2. s[k].do \in {"send", "sendUnchecked"} /\ s[k + 1].do = ExchangeOf(sig)
    BY DEF ExchangeAt, Asking, Exchange
<1>3. \A x \in Peaceful : x.do \notin Exchanges
    BY DEF Peaceful
<1>4. {"send", "sendUnchecked"} \cap Exchanges = {}
    BY DEF Exchanges
<1> QED BY <1>1, <1>2, <1>3, <1>4 DEF NoStep

\* A call does not exchange sparse grids before the sizes are reduced, nor reduce the sizes twice.
LEMMA CallSteps ==
    ASSUME Proved!TypeOK, TaskInv, CallMethod
    PROVE  /\ managerSizes = None => NoStep(todo', {"exchangeDsgus"})
           /\ managerSizes # None => NoStep(todo', SizeSteps)
<1>1. \A s : NoStep(s, Exchanges) => NoStep(s, {"exchangeDsgus"}) /\ NoStep(s, SizeSteps)
    BY DEF NoStep, Exchanges, SizeSteps
<1>2. ASSUME NEW op, Call(op)
      PROVE  /\ managerSizes = None => NoStep(todo', {"exchangeDsgus"})
             /\ managerSizes # None => NoStep(todo', SizeSteps)
    <2>1. op \in Allowed[stage] /\ todo' = Script(op) /\ stage \in Stages /\ taskList \in Seq(Tasks) /\ SizesKnown(op)
        BY <1>2 DEF Call, TaskInv
    <2>2. op \in AllOps
        BY <2>1, AllAllowed
    <2>3. CASE op \notin ExchangeOps
        <3>1. todo' \in Seq(Peaceful)
            BY <2>1, <2>2, <2>3, PeacefulScripts
        <3> QED BY <1>1, <3>1, PeacefulSteps
    <2>4. CASE op \in ExchangeOps
        <3>1. NoStep(todo', Exchanges \ {ExchangeOf(ExchangeIn(op))})
            BY <2>1, <2>4, ExchangeScripts, ExchangeSteps
        <3>2. \/ op = "combineThirdLevel" /\ ExchangeOf(ExchangeIn(op)) = "exchangeDsgus"
              \/ /\ op \in {"unifySubspaceSizesThirdLevel", "unifyExtraSparseGrid"}
                 /\ ExchangeOf(ExchangeIn(op)) \in SizeSteps
            BY <2>4 DEF ExchangeOps, ExchangeIn, ExchangeOf, SizeSteps, Unify
        <3>3. (op = "combineThirdLevel" => managerSizes # None)
              /\ (op \in {"unifySubspaceSizesThirdLevel", "unifyExtraSparseGrid"} => managerSizes = None)
            BY <2>1 DEF SizesKnown
        <3> QED BY <3>1, <3>2, <3>3 DEF NoStep, Exchanges, SizeSteps
    <2> QED BY <2>3, <2>4
<1>3. ASSUME CallReschedule PROVE NoStep(todo', Exchanges)
    <2>1. stage = "combined" /\ todo = <<>>
        BY <1>3 DEF CallReschedule
    <2>2. PICK X \in SUBSET Tasks : \E to \in [X -> Groups] : todo' = MoveAll(X, to)
        BY <1>3 DEF CallReschedule, MoveAll
    <2>3. \A t \in X : OwnerOf(t) \in Groups
        BY <2>1, AllHeld, TaskOwned
    <2>4. todo' \in Seq(Peaceful)
        BY <2>2, <2>3, PeacefulMoves
    <2> QED BY <2>4, PeacefulSteps
<1> QED BY <1>1, <1>2, <1>3 DEF CallMethod

\* The next step of a group, and the command it executes.
LEMMA UpcomingFacts ==
    ASSUME Shapes, Handling, NEW g \in Groups, Upcoming(g) # "none"
    PROVE  /\ phase[g] = "running" /\ handler[g] # <<>> /\ Upcoming(g) = Head(handler[g])
           /\ After(current[g].sig, Upcoming(g), FirstOf(Tail(handler[g])))
<1>1. handler[g] # <<>> /\ Upcoming(g) = Head(handler[g])
    BY DEF Upcoming, FirstOf
<1>2. phase[g] = "running"
    BY <1>1 DEF Shapes
<1>3. handler[g] \in Left(current[g].sig)
    BY <1>2 DEF Handling
<1> QED BY <1>1, <1>2, <1>3, LeftFacts

\* The sizes that are gathered are reduced next.
LEMMA GatherAsked ==
    ASSUME Shapes, Exch, Upcoming(TLGroup) = "gatherSizes"
    PROVE  todo # <<>> /\ Head(todo).do \in SizeSteps
<1>1. Handling /\ Pairs /\ TLGroup \in Groups
    BY ManagerAssumption DEF Exch
<1>2. current[TLGroup].sig \in {"REDUCE_SUBSPACE_SIZES_TL", "REDUCE_SUBSPACE_SIZES_TL_AND_ALLOCATE_EXTRA_SG"}
    BY <1>1, UpcomingFacts DEF After
<1>3. "gatherSizes" \in Asks
    BY DEF Asks
<1>4. ~NoExchange
    BY <1>3 DEF NoExchange, Quietly
<1>5. PICK sig \in Exchanging : todo # <<>> /\ Exchange(Head(todo), sig) /\ UnderExchange(sig)
    BY <1>1, <1>4 DEF Pairs
<1>6. sig = current[TLGroup].sig
    BY <1>3, <1>5 DEF UnderExchange, Underway
<1> QED BY <1>2, <1>5, <1>6 DEF Exchange, ExchangeOf, SizeSteps

\* Steps that change none of the sizes, or not the ones at hand.
LEMMA AnnouncedStill ==
    ASSUME Announced, \A g \in Groups : bcasts'[g] = bcasts[g] /\ (g # TLGroup => spaces'[g] = spaces[g]),
           Upcoming(TLGroup)' # "bcastSizes" =>
                Upcoming(TLGroup) # "bcastSizes" /\ spaces'[TLGroup] = spaces[TLGroup]
    PROVE  Announced'
<1> SUFFICES ASSUME NEW g \in Groups \ {TLGroup}
             PROVE  (/\ \A i \in 0..Len(bcasts[g]) : Tasks \subseteq SizesAt(g, i)
                     /\ \A i \in 1..Len(bcasts[g]) :
                            bcasts[g][i].kind = "dsg" => SizesAt(g, i) = SizesAt(g, i - 1)
                     /\ Upcoming(TLGroup) # "bcastSizes" =>
                            SizesAt(g, Len(bcasts[g])) = spaces[TLGroup])'
    BY DEF Announced
<1>1. bcasts'[g] = bcasts[g] /\ spaces'[g] = spaces[g]
    OBVIOUS
<1>2. \A i : SizesAt(g, i)' = SizesAt(g, i)
    BY <1>1 DEF SizesAt
<1>3. SizesAt(g, Len(bcasts[g]))' = SizesAt(g, Len(bcasts[g]))
    BY <1>1 DEF SizesAt
<1> QED BY <1>1, <1>2, <1>3 DEF Announced

LEMMA AgreedStill ==
    ASSUME Agreed, UNCHANGED <<extra, wire, managerSizes>>, spaces'[TLGroup] = spaces[TLGroup],
           \/ Upcoming(TLGroup)' = Upcoming(TLGroup)
           \/ Upcoming(TLGroup) \notin Answers /\ Upcoming(TLGroup)' \notin Answers,
           managerSizes = None => NoStep(todo', {"exchangeDsgus"}),
           managerSizes # None => NoStep(todo', SizeSteps)
    PROVE  Agreed'
<1>1. Scatters \subseteq Answers /\ "scatterSizes" \in Answers /\ "recvDsg" \in Answers
    BY DEF Scatters, Answers
<1>2. SentSizes' = SentSizes
    BY DEF SentSizes
<1> QED BY <1>1, <1>2 DEF Agreed

\* A step of the manager.
LEMMA SettledManager ==
    ASSUME Proved!TypeOK, Shapes, todo \in Seq(StepType), Exch, Settled, ManagerStep
    PROVE  Settled'
<1> DEFINE s == Head(todo)
           x == Upcoming(TLGroup)
<1>1. UNCHANGED <<spaces, extra, bcasts, handler>> /\ todo # <<>> /\ todo' = Tail(todo)
    BY ManagerWire, ManagerWays
<1>2. Upcoming(TLGroup)' = x
    BY <1>1 DEF Upcoming
<1>3. Announced' /\ Tasks \subseteq spaces'[TLGroup]
    BY <1>1, <1>2, AnnouncedStill DEF Settled
<1>4. Agreed
    BY DEF Settled
<1>5. \A K : NoStep(todo, K) => s.do \notin K /\ NoStep(todo', K)
    BY <1>1, StepsLess
<1>6. CASE s.do \notin Exchanges /\ UNCHANGED <<wire, managerSizes>>
    <2>1. managerSizes = None => NoStep(todo', {"exchangeDsgus"})
        BY <1>4, <1>5 DEF Agreed
    <2>2. managerSizes # None => NoStep(todo', SizeSteps)
        BY <1>4, <1>5 DEF Agreed
    <2>3. Agreed'
        BY <1>1, <1>2, <1>4, <1>6, <2>1, <2>2, AgreedStill
    <2> QED BY <1>3, <2>3 DEF Settled
<1>7. ASSUME s.do \in Exchanges, wire.to = "manager"
      PROVE  /\ Tail(todo) \in Seq(Peaceful) /\ x \in Answers
             /\ x = "recvDsg" => s.do = "exchangeDsgus"
             /\ x = "scatterSizes" => s.do = "reduceSizes"
             /\ x = "scatterExtra" => s.do = "reduceExtraSizes"
    <2>1. PICK sig \in Exchanging : Exchange(s, sig) /\ UnderExchange(sig)
        BY <1>7, ManagerExch
    <2>2. current[TLGroup].sig = sig
        BY <1>7, <2>1 DEF UnderExchange, Underway
    <2>3. x \in Answers /\ TLGroup \in Groups /\ Handling
        BY <1>7, NoneAssumption, ManagerAssumption DEF Exch, OnTheWire
    <2>4. x # "none"
        BY <2>3 DEF Answers
    <2>5. After(sig, x, FirstOf(Tail(handler[TLGroup])))
        BY <2>2, <2>3, <2>4, UpcomingFacts
    <2>6. /\ x = "recvDsg" => sig = "COMBINE_THIRD_LEVEL"
          /\ x = "scatterSizes" => sig = "REDUCE_SUBSPACE_SIZES_TL"
          /\ x = "scatterExtra" => sig = "REDUCE_SUBSPACE_SIZES_TL_AND_ALLOCATE_EXTRA_SG"
        BY <2>5 DEF After
    <2>7. Tail(todo) \in Seq(Peaceful)
        BY <1>7, ManagerExch
    <2> HIDE DEF x, s
    <2> QED BY <2>1, <2>3, <2>6, <2>7 DEF Exchange, ExchangeOf
<1>8. ASSUME Tail(todo) \in Seq(Peaceful)
      PROVE  NoStep(todo', {"exchangeDsgus"}) /\ NoStep(todo', SizeSteps)
    <2>1. NoStep(todo', Exchanges)
        BY <1>1, <1>8, PeacefulSteps
    <2> QED BY <2>1 DEF NoStep, Exchanges, SizeSteps
<1>9. CASE /\ s.do = "exchangeDsgus" /\ wire.to = "manager" /\ UNCHANGED managerSizes
           /\ wire' = [wire EXCEPT !.to = "group", !.data = WithRemote(@)]
    <2>1. x = "recvDsg" /\ NoStep(todo', {"exchangeDsgus"}) /\ NoStep(todo', SizeSteps)
        BY <1>7, <1>8, <1>9 DEF Exchanges, Answers
    <2>2. x # "scatterSizes" /\ x \notin Scatters
        BY <2>1 DEF Scatters
    <2>3. wire'.to # "manager"
        <3>1. wire = [to |-> wire.to, sizes |-> wire.sizes, data |-> wire.data]
            BY DEF Exch, OnTheWire
        <3> DEFINE d == WithRemote(wire.data)
                   v == wire
                   u == [v EXCEPT !.to = "group"]
        <3>2. v = [to |-> v.to, sizes |-> v.sizes, data |-> v.data]
            BY <3>1
        <3>3. wire' = [u EXCEPT !.data = d]
            BY <1>9
        <3> HIDE DEF v, d
        <3>4. u = [to |-> "group", sizes |-> v.sizes, data |-> v.data]
            BY <3>2
        <3> HIDE DEF u
        <3> QED BY <3>3, <3>4
    <2>4. SentSizes' = SentSizes
        BY <1>1 DEF SentSizes
    <2> HIDE DEF x
    <2>5. Agreed'
        BY <1>1, <1>2, <1>4, <1>9, <2>1, <2>2, <2>3, <2>4 DEF Agreed, x
    <2> QED BY <1>3, <2>5 DEF Settled
<1>10. CASE /\ s.do \in SizeSteps /\ wire.to = "manager"
            /\ wire' = [to |-> "group", sizes |-> managerSizes', data |-> {}]
            /\ managerSizes' = IF s.do = "reduceSizes" THEN wire.sizes \cup RemoteSpaces
                               ELSE wire.sizes \cap RemoteSpaces
    <2>1. /\ x \in Scatters /\ (x = "scatterSizes" => s.do = "reduceSizes")
          /\ NoStep(todo', {"exchangeDsgus"}) /\ NoStep(todo', SizeSteps)
        BY <1>7, <1>8, <1>10 DEF Exchanges, SizeSteps, Answers, Scatters
    <2>2. managerSizes = None
        BY <1>4, <1>5, <1>10 DEF Agreed
    <2>3. extra = None /\ extra' = None
        BY <1>1, <1>4, <2>2 DEF Agreed
    <2>4. x = "scatterSizes" => Tasks \subseteq managerSizes'
        BY <1>4, <1>10, <2>1 DEF Agreed
    <2>5. wire'.to = "group" /\ wire'.sizes = managerSizes' /\ x # "recvDsg"
        BY <1>10, <2>1 DEF Scatters
    <2> HIDE DEF x
    <2>6. Agreed'
        BY <1>2, <2>1, <2>3, <2>4, <2>5 DEF Agreed, x
    <2> QED BY <1>3, <2>6 DEF Settled
<1> QED BY <1>6, <1>9, <1>10, ManagerWire DEF SizeSteps

\* A call of a method.
LEMMA SettledCall ==
    ASSUME Proved!TypeOK, TaskInv, Settled, CallMethod
    PROVE  Settled'
<1>1. UNCHANGED <<spaces, extra, bcasts, handler, wire, managerSizes>>
    BY DEF CallMethod, Call, CallReschedule, protocolVars, gridVars, commVars
<1>2. Upcoming(TLGroup)' = Upcoming(TLGroup)
    BY <1>1 DEF Upcoming
<1>3. Announced'
    BY <1>1, <1>2, AnnouncedStill DEF Settled
<1>4. Agreed'
    BY <1>1, <1>2, CallSteps, AgreedStill DEF Settled
<1> QED BY <1>1, <1>3, <1>4 DEF Settled

\* The steps of the groups that leave the sizes alone.
LEMMA SettledStill ==
    ASSUME Settled, UNCHANGED <<extra, bcasts, wire, managerSizes, todo>>,
           \A g \in Groups : spaces'[g] = spaces[g],
           \/ Upcoming(TLGroup)' = Upcoming(TLGroup)
           \/ /\ Upcoming(TLGroup) \notin Answers \cup {"bcastSizes"}
              /\ Upcoming(TLGroup)' \notin Answers \cup {"bcastSizes"}
    PROVE  Settled'
<1>1. TLGroup \in Groups /\ Announced /\ Agreed /\ Tasks \subseteq spaces[TLGroup]
    BY ManagerAssumption DEF Settled
<1>2. spaces'[TLGroup] = spaces[TLGroup]
    BY <1>1
<1>3. Announced'
    BY <1>1, <1>2, AnnouncedStill
<1>4. Agreed'
    <2>1. (managerSizes = None => NoStep(todo', {"exchangeDsgus"})) /\ (managerSizes # None => NoStep(todo', SizeSteps))
        BY <1>1 DEF Agreed
    <2> QED BY <1>1, <1>2, <2>1, AgreedStill
<1> QED BY <1>1, <1>2, <1>3, <1>4 DEF Settled

\* A group takes a broadcast.
LEMMA SettledTake ==
    ASSUME Settled, CollectivesMatch, NEW M, bcasts \in [Groups -> Seq(M)], DOMAIN spaces = Groups,
           NEW g \in Groups \ {TLGroup}, handler[g] # <<>>, Head(handler[g]) \in {"takeDsg", "takeSizes"},
           bcasts[g] # <<>>, bcasts' = [bcasts EXCEPT ![g] = Tail(@)],
           Head(handler[g]) = "takeDsg" => UNCHANGED spaces,
           Head(handler[g]) = "takeSizes" => spaces' = [spaces EXCEPT ![g] = Head(bcasts[g]).sizes],
           UNCHANGED <<extra, wire, managerSizes, todo>>, Upcoming(TLGroup)' = Upcoming(TLGroup)
    PROVE  Settled'
<1> DEFINE q == bcasts[g]
<1>0. PICK n \in Nat : n = Len(q)
    BY LenProperties
<1>1. /\ q \in Seq(M) /\ TLGroup \in Groups /\ TLGroup # g /\ bcasts'[g] = Tail(q)
      /\ \A h \in Groups : h # g => bcasts'[h] = bcasts[h]
    BY ManagerAssumption
<1>2. n \in Nat /\ n # 0 /\ Head(q) = q[1] /\ Len(Tail(q)) = n - 1 /\ \A i \in 1..(n - 1) : Tail(q)[i] = q[i + 1]
    BY <1>0, <1>1, HeadTailProperties, LenProperties, EmptySeq
<1>3. Announced /\ Agreed /\ Tasks \subseteq spaces[TLGroup]
    BY DEF Settled
<1>4. /\ \A i \in 0..n : Tasks \subseteq SizesAt(g, i)
      /\ \A i \in 1..n : q[i].kind = "dsg" => SizesAt(g, i) = SizesAt(g, i - 1)
      /\ Upcoming(TLGroup) # "bcastSizes" => SizesAt(g, n) = spaces[TLGroup]
    BY <1>0, <1>3 DEF Announced
<1>5. SizesAt(g, 0) = spaces[g] /\ \A i \in 1..n : SizesAt(g, i) = q[i].sizes
    BY DEF SizesAt
<1>6. spaces'[g] = SizesAt(g, 1) /\ \A h \in Groups : h # g => spaces'[h] = spaces[h]
    <2>1. 1 \in 1..n /\ 1 - 1 = 0
        BY <1>2
    <2>2. CASE Head(handler[g]) = "takeSizes"
        BY <1>2, <1>5, <2>1, <2>2
    <2>3. CASE Head(handler[g]) = "takeDsg"
        <3>1. NextCollective(g) = "dsg"
            BY <2>3, StepTable DEF NextCollective
        <3>2. Head(bcasts[g]).kind = "dsg"
            BY <3>1 DEF CollectivesMatch
        <3>3. SizesAt(g, 1) = SizesAt(g, 0)
            BY <1>2, <1>4, <2>1, <3>2
        <3> QED BY <1>5, <2>3, <3>3
    <2> QED BY <2>2, <2>3
<1> HIDE DEF q
<1>7. Len(bcasts[g])' = n - 1 /\ \A i \in 1..(n - 1) : bcasts'[g][i] = q[i + 1]
    BY <1>1, <1>2
<1>8. \A i \in 0..(n - 1) : SizesAt(g, i)' = SizesAt(g, i + 1)
    <2> SUFFICES ASSUME NEW i \in 0..(n - 1) PROVE SizesAt(g, i)' = SizesAt(g, i + 1)
        OBVIOUS
    <2>1. CASE i = 0
        BY <1>6, <2>1 DEF SizesAt
    <2>2. CASE i # 0
        <3>1. i \in 1..(n - 1) /\ i + 1 \in 1..n
            BY <1>2, <2>2
        <3>2. SizesAt(g, i)' = bcasts'[g][i].sizes
            BY <2>2 DEF SizesAt
        <3> QED BY <1>5, <1>7, <3>1, <3>2
    <2> QED BY <2>1, <2>2
<1>9. Announced'
    <2> SUFFICES ASSUME NEW h \in Groups \ {TLGroup}
                 PROVE  (/\ \A i \in 0..Len(bcasts[h]) : Tasks \subseteq SizesAt(h, i)
                         /\ \A i \in 1..Len(bcasts[h]) :
                                bcasts[h][i].kind = "dsg" => SizesAt(h, i) = SizesAt(h, i - 1)
                         /\ Upcoming(TLGroup) # "bcastSizes" =>
                                SizesAt(h, Len(bcasts[h])) = spaces[TLGroup])'
        BY DEF Announced
    <2>1. CASE h # g
        <3>1. bcasts'[h] = bcasts[h] /\ spaces'[h] = spaces[h] /\ spaces'[TLGroup] = spaces[TLGroup]
            BY <1>1, <1>6, <2>1
        <3>2. \A i : SizesAt(h, i)' = SizesAt(h, i)
            BY <3>1 DEF SizesAt
        <3>3. SizesAt(h, Len(bcasts[h]))' = SizesAt(h, Len(bcasts[h]))
            BY <3>1 DEF SizesAt
        <3> QED BY <1>3, <3>1, <3>2, <3>3 DEF Announced
    <2>2. CASE h = g
        <3>1. \A i \in 0..(n - 1) : i + 1 \in 0..n /\ (i # 0 => i \in 1..(n - 1) /\ i - 1 \in 0..(n - 1) /\ i + 1 \in 1..n
                                                              /\ (i + 1) - 1 = i /\ (i - 1) + 1 = i)
            BY <1>2
        <3>2. \A i \in 0..Len(bcasts[g])' : Tasks \subseteq SizesAt(g, i)'
            BY <1>4, <1>7, <1>8, <3>1
        <3>3. ASSUME NEW i \in 1..Len(bcasts[g])', bcasts'[g][i].kind = "dsg"
              PROVE  SizesAt(g, i)' = SizesAt(g, i - 1)'
            <4>1. i \in 0..(n - 1) /\ i # 0
                BY <1>2, <1>7, <3>3
            <4>2. q[i + 1].kind = "dsg"
                BY <1>7, <3>1, <3>3, <4>1
            <4>3. SizesAt(g, i + 1) = SizesAt(g, i)
                <5>1. i + 1 \in 1..n /\ (i + 1) - 1 = i
                    BY <3>1, <4>1
                <5>2. SizesAt(g, i + 1) = SizesAt(g, (i + 1) - 1)
                    BY <1>4, <4>2, <5>1 DEF q
                <5> QED BY <5>1, <5>2
            <4>4. SizesAt(g, i)' = SizesAt(g, i + 1) /\ SizesAt(g, i - 1)' = SizesAt(g, (i - 1) + 1)
                BY <1>8, <3>1, <4>1
            <4> QED BY <3>1, <4>1, <4>3, <4>4
        <3>4. SizesAt(g, Len(bcasts[g]))' = SizesAt(g, n)
            <4>1. n - 1 \in 0..(n - 1) /\ (n - 1) + 1 = n
                BY <1>2
            <4>2. SizesAt(g, Len(bcasts[g]))' = SizesAt(g, n - 1)'
                BY <1>7 DEF SizesAt
            <4> QED BY <1>8, <4>1, <4>2
        <3>5. Upcoming(TLGroup)' # "bcastSizes" => SizesAt(g, Len(bcasts[g]))' = spaces'[TLGroup]
            BY <1>1, <1>4, <1>6, <3>4
        <3> QED BY <2>2, <3>2, <3>3, <3>5
    <2> QED BY <2>1, <2>2
<1>10. spaces'[TLGroup] = spaces[TLGroup]
    BY <1>1, <1>6
<1>11. Agreed'
    <2>1. (managerSizes = None => NoStep(todo', {"exchangeDsgus"})) /\ (managerSizes # None => NoStep(todo', SizeSteps))
        BY <1>3 DEF Agreed
    <2> QED BY <1>3, <1>10, <2>1, AgreedStill
<1> QED BY <1>3, <1>9, <1>10, <1>11 DEF Settled

\* The third level group broadcasts.
LEMMA SettledBroadcast ==
    ASSUME Settled, NEW M, bcasts \in [Groups -> Seq(M)], NEW what, Broadcast(TLGroup, what),
           what.sizes = spaces[TLGroup], what.kind = "dsg" => Upcoming(TLGroup) # "bcastSizes",
           Upcoming(TLGroup) \notin Answers, Upcoming(TLGroup)' \notin Answers \cup {"bcastSizes"},
           UNCHANGED <<spaces, extra, wire, managerSizes, todo>>
    PROVE  Settled'
<1>1. Announced /\ Agreed /\ Tasks \subseteq spaces[TLGroup]
    BY DEF Settled
<1>2. Announced'
    <2> SUFFICES ASSUME NEW h \in Groups \ {TLGroup}
                 PROVE  (/\ \A i \in 0..Len(bcasts[h]) : Tasks \subseteq SizesAt(h, i)
                         /\ \A i \in 1..Len(bcasts[h]) :
                                bcasts[h][i].kind = "dsg" => SizesAt(h, i) = SizesAt(h, i - 1)
                         /\ Upcoming(TLGroup) # "bcastSizes" =>
                                SizesAt(h, Len(bcasts[h])) = spaces[TLGroup])'
        BY DEF Announced
    <2> DEFINE q == bcasts[h]
    <2>0. PICK n \in Nat : n = Len(q)
        BY LenProperties
    <2>1. q \in Seq(M) /\ bcasts'[h] = Append(q, what)
        BY DEF Broadcast
    <2>2. n \in Nat
        OBVIOUS
    <2>3. Len(bcasts[h])' = n + 1 /\ bcasts'[h][n + 1] = what /\ \A i \in 1..n : bcasts'[h][i] = q[i]
        <3> DEFINE p == bcasts'[h]
        <3>0. p = Append(q, what)
            BY <2>1
        <3>1. q \in Seq(M \cup {what}) /\ what \in M \cup {what}
            BY <2>1
        <3> HIDE DEF p
        <3>2. Len(p) = n + 1 /\ p[n + 1] = what /\ \A i \in 1..n : p[i] = q[i]
            BY <2>0, <3>0, <3>1, AppendProperties
        <3> QED BY <3>2 DEF p
    <2>4. /\ \A i \in 0..n : Tasks \subseteq SizesAt(h, i)
          /\ \A i \in 1..n : q[i].kind = "dsg" => SizesAt(h, i) = SizesAt(h, i - 1)
          /\ Upcoming(TLGroup) # "bcastSizes" => SizesAt(h, n) = spaces[TLGroup]
        BY <1>1, <2>0 DEF Announced
    <2> HIDE DEF q
    <2>5. \A i \in 0..n : SizesAt(h, i)' = SizesAt(h, i)
        <3> SUFFICES ASSUME NEW i \in 0..n PROVE SizesAt(h, i)' = SizesAt(h, i)
            OBVIOUS
        <3>1. CASE i = 0
            BY <3>1 DEF SizesAt
        <3>2. CASE i # 0
            <4>1. i \in 1..n
                BY <2>2, <3>2
            <4> QED BY <2>3, <3>2, <4>1 DEF SizesAt, q
        <3> QED BY <3>1, <3>2
    <2>6. SizesAt(h, n + 1)' = spaces[TLGroup]
        BY <2>2, <2>3 DEF SizesAt
    <2>7. \A i \in 0..Len(bcasts[h])' : i \in 0..n \/ i = n + 1
        BY <2>2, <2>3
    <2>8. \A i \in 0..Len(bcasts[h])' : Tasks \subseteq SizesAt(h, i)'
        BY <1>1, <2>4, <2>5, <2>6, <2>7
    <2>9. ASSUME NEW i \in 1..Len(bcasts[h])', bcasts'[h][i].kind = "dsg"
          PROVE  SizesAt(h, i)' = SizesAt(h, i - 1)'
        <3>1. CASE i \in 1..n
            <4>1. i \in 0..n /\ i - 1 \in 0..n
                BY <2>2, <3>1
            <4>2. q[i].kind = "dsg"
                BY <2>3, <2>9, <3>1
            <4>3. SizesAt(h, i) = SizesAt(h, i - 1)
                BY <2>4, <3>1, <4>2
            <4> QED BY <2>5, <4>1, <4>3
        <3>2. CASE i = n + 1
            <4>1. n \in 0..n /\ i - 1 = n
                BY <2>2, <3>2
            <4>2. what.kind = "dsg"
                BY <2>3, <2>9, <3>2
            <4>3. SizesAt(h, n)' = spaces[TLGroup]
                BY <2>4, <2>5, <4>1, <4>2
            <4> QED BY <2>6, <3>2, <4>1, <4>3
        <3> QED BY <2>2, <2>3, <3>1, <3>2
    <2>10. SizesAt(h, Len(bcasts[h]))' = spaces[TLGroup]
        BY <2>3, <2>6 DEF SizesAt
    <2> QED BY <2>8, <2>9, <2>10
<1>3. Agreed'
    <2>1. (managerSizes = None => NoStep(todo', {"exchangeDsgus"})) /\ (managerSizes # None => NoStep(todo', SizeSteps))
        BY <1>1 DEF Agreed
    <2>2. Upcoming(TLGroup)' \notin Answers
        OBVIOUS
    <2> QED BY <1>1, <2>1, <2>2, AgreedStill
<1> QED BY <1>1, <1>2, <1>3 DEF Settled

\* A step of a handler.
LEMMA SettledHandler ==
    ASSUME Proved!TypeOK, TaskInv, Shapes, Together, Exch, DOMAIN spaces = Groups, Settled,
           NEW g \in Groups, HandlerStep(g)
    PROVE  Settled'
<1> DEFINE x == Head(handler[g])
           y == Upcoming(g)'
<1>1. Handling /\ TLGroup \in Groups /\ Announced /\ Agreed /\ Tasks \subseteq spaces[TLGroup] /\ OnTheWire
    BY ManagerAssumption DEF Exch, Settled
<1>2. /\ handler[g] # <<>> /\ Upcoming(g) = x /\ After(current[g].sig, x, y)
      /\ \A h \in Groups : h # g => Upcoming(h)' = Upcoming(h)
      /\ UNCHANGED <<todo, workerTasks>>
    BY <1>1, HandlerNext
<1>3. Changes(g)
    BY HandlerChanges
<1>4. managerSizes' = managerSizes
    BY <1>3 DEF Changes, methodVars
<1>5. PICK M : bcasts \in [Groups -> Seq(M)]
    BY DEF Together, Behind
<1>6. (x \in {"bcastDsg", "bcastSizes"} => g = TLGroup) /\ (x \in {"takeDsg", "takeSizes"} => g # TLGroup)
    <2>1. PICK S \in Seq(Collectives), pos \in [Groups -> Nat] : \A h \in Groups : OnWay(S, h, pos[h])
        BY DEF Together
    <2> QED BY <1>2, <2>1, NextFacts
<1>7. \A h \in Groups : h # g => UNCHANGED Upcoming(h)
    BY <1>2
<1>8. (managerSizes = None => NoStep(todo', {"exchangeDsgus"})) /\ (managerSizes # None => NoStep(todo', SizeSteps))
    BY <1>1, <1>2 DEF Agreed
<1>9. CASE x \in {"takeDsg", "takeSizes"}
    <2>1. CollectivesMatch
        BY CollectivesRight
    <2>2. g \in Groups \ {TLGroup} /\ Upcoming(TLGroup)' = Upcoming(TLGroup)
        BY <1>1, <1>2, <1>6, <1>9
    <2>3. /\ bcasts[g] # <<>> /\ bcasts' = [bcasts EXCEPT ![g] = Tail(@)] /\ UNCHANGED <<extra, wire>>
          /\ x = "takeDsg" => UNCHANGED spaces
          /\ x = "takeSizes" => spaces' = [spaces EXCEPT ![g] = Head(bcasts[g]).sizes]
        BY <1>3, <1>9 DEF Changes, Asks, Answers
    <2> QED BY <1>2, <1>4, <1>5, <1>9, <2>1, <2>2, <2>3, SettledTake
<1>10. ASSUME x \notin {"takeDsg", "takeSizes", "bcastDsg", "bcastSizes"} \cup Asks \cup Answers
       PROVE  Settled'
    <2>1. UNCHANGED <<extra, bcasts, wire>>
        BY <1>3, <1>10 DEF Changes, Answers
    <2>2. \A h \in Groups : spaces'[h] = spaces[h]
        <3>1. CASE x # "initDsg"
            BY <1>3, <1>10, <3>1 DEF Changes, Answers
        <3>2. CASE x = "initDsg"
            <4>1. spaces' = [spaces EXCEPT ![g] = @ \cup ToSet(workerTasks[g])]
                BY <1>3, <3>2 DEF Changes
            <4>2. ToSet(workerTasks[g]) \subseteq Tasks
                <5>1. workerTasks[g] \in Seq(Tasks)
                    BY CommandTypes
                <5> QED BY <5>1 DEF ToSet
            <4>3. Tasks \subseteq spaces[g]
                <5>1. CASE g = TLGroup
                    BY <1>1, <5>1
                <5>2. CASE g # TLGroup
                    <6>1. \A i \in 0..Len(bcasts[g]) : Tasks \subseteq SizesAt(g, i)
                        BY <1>1, <5>2 DEF Announced
                    <6>2. 0 \in 0..Len(bcasts[g])
                        <7>1. bcasts[g] \in Seq(M)
                            BY <1>5
                        <7> QED BY <7>1, LenProperties
                    <6>3. SizesAt(g, 0) = spaces[g]
                        BY DEF SizesAt
                    <6> QED BY <6>1, <6>2, <6>3
                <5> QED BY <5>1, <5>2
            <4> QED BY <4>1, <4>2, <4>3
        <3> QED BY <3>1, <3>2
    <2>3. \/ Upcoming(TLGroup)' = Upcoming(TLGroup)
          \/ /\ Upcoming(TLGroup) \notin Answers \cup {"bcastSizes"}
             /\ Upcoming(TLGroup)' \notin Answers \cup {"bcastSizes"}
        <3>1. CASE g # TLGroup
            BY <1>1, <1>2, <3>1
        <3>2. CASE g = TLGroup
            BY <1>2, <1>10, <3>2 DEF After, Answers
        <3> QED BY <3>1, <3>2
    <2> QED BY <1>2, <1>4, <2>1, <2>2, <2>3, SettledStill
<1>11. CASE x \in {"bcastDsg", "bcastSizes"}
    <2>1. g = TLGroup
        BY <1>6, <1>11
    <2>2. UNCHANGED <<spaces, extra, wire>>
        BY <1>3, <1>11 DEF Changes, Asks, Answers
    <2>3. Upcoming(TLGroup) \notin Answers /\ Upcoming(TLGroup)' \notin Answers \cup {"bcastSizes"}
        BY <1>2, <1>11, <2>1 DEF After, Asks, Answers
    <2>4. CASE x = "bcastDsg"
        <3> DEFINE what == [kind |-> "dsg", sizes |-> spaces[g], data |-> dsg[g]]
        <3>1. Broadcast(TLGroup, what)
            BY <1>3, <2>1, <2>4 DEF Changes
        <3>2. what.sizes = spaces[TLGroup] /\ Upcoming(TLGroup) # "bcastSizes"
            BY <1>2, <2>1, <2>4
        <3> HIDE DEF what
        <3> QED BY <1>2, <1>4, <1>5, <2>2, <2>3, <3>1, <3>2, SettledBroadcast
    <2>5. CASE x = "bcastSizes"
        <3> DEFINE what == [kind |-> "sizes", sizes |-> spaces[g], data |-> {}]
        <3>1. Broadcast(TLGroup, what)
            BY <1>3, <2>1, <2>5 DEF Changes
        <3>2. what.sizes = spaces[TLGroup] /\ what.kind # "dsg"
            BY <2>1
        <3> HIDE DEF what
        <3> QED BY <1>2, <1>4, <1>5, <2>2, <2>3, <3>1, <3>2, SettledBroadcast
    <2> QED BY <1>11, <2>4, <2>5
<1>12. ASSUME x \in Asks \cup Answers
       PROVE  /\ g = TLGroup /\ UNCHANGED bcasts
              /\ x # "scatterSizes" => UNCHANGED spaces
              /\ x # "scatterExtra" => UNCHANGED extra
    <2>1. g = TLGroup
        BY <1>1, <1>2, <1>12, OnlyThird
    <2> QED BY <1>3, <1>12, <2>1 DEF Changes, Asks, Answers
<1>13. ASSUME x \in Asks \cup Answers, x # "scatterSizes" PROVE Announced' /\ spaces' = spaces
    <2>1. g = TLGroup /\ UNCHANGED <<bcasts, spaces>>
        BY <1>12, <1>13
    <2>2. Upcoming(TLGroup) # "bcastSizes"
        BY <1>2, <1>13, <2>1 DEF Asks, Answers
    <2> QED BY <1>1, <2>1, <2>2, AnnouncedStill
<1>14. CASE x = "sendDsg"
    <2>1. g = TLGroup /\ UNCHANGED <<spaces, extra>> /\ Upcoming(TLGroup) = x /\ Upcoming(TLGroup)' = "recvDsg"
        BY <1>2, <1>12, <1>14 DEF Asks, After
    <2>2. wire'.to = "manager" /\ wire'.sizes = SentSizes
        BY <1>3, <1>14, <2>1 DEF Changes, SentSizes
    <2>3. SentSizes' = SentSizes
        BY <2>1 DEF SentSizes
    <2>4. Upcoming(TLGroup) \notin Scatters /\ Upcoming(TLGroup)' \notin Scatters /\ Upcoming(TLGroup)' # "scatterSizes"
        BY <1>14, <2>1 DEF Scatters
    <2>5. Agreed'
        BY <1>1, <1>4, <1>8, <2>1, <2>2, <2>3, <2>4 DEF Agreed
    <2> QED BY <1>1, <1>13, <1>14, <2>5 DEF Settled, Asks
<1>15. CASE x = "recvDsg"
    <2>1. g = TLGroup /\ UNCHANGED <<spaces, extra>> /\ Upcoming(TLGroup) = x /\ Upcoming(TLGroup)' \notin Answers
        BY <1>2, <1>12, <1>15 DEF Answers, Asks, After
    <2>2. SentSizes' = SentSizes
        BY <2>1 DEF SentSizes
    <2>3. Upcoming(TLGroup) \notin Scatters /\ Upcoming(TLGroup)' \notin Scatters /\ Upcoming(TLGroup)' # "scatterSizes"
          /\ Upcoming(TLGroup)' # "recvDsg"
        BY <1>15, <2>1 DEF Scatters, Answers
    <2>4. Agreed'
        BY <1>1, <1>4, <1>8, <2>1, <2>2, <2>3 DEF Agreed
    <2> QED BY <1>1, <1>13, <1>15, <2>4 DEF Settled, Answers
<1>16. CASE x = "gatherSizes"
    <2>1. g = TLGroup /\ UNCHANGED <<spaces, extra>> /\ Upcoming(TLGroup) = x
          /\ Upcoming(TLGroup)' \in {"scatterSizes", "scatterExtra"}
        BY <1>2, <1>12, <1>16 DEF Asks, After
    <2>2. wire'.to = "manager" /\ wire'.sizes = spaces[TLGroup]
        BY <1>3, <1>16, <2>1 DEF Changes
    <2>3. todo # <<>> /\ Head(todo).do \in SizeSteps
        BY <1>16, <2>1, GatherAsked
    <2>4. managerSizes = None
        <3>1. todo \in Seq(StepType)
            BY DEF TaskInv
        <3> QED BY <1>1, <2>3, <3>1, StepsLess DEF Agreed
    <2>5. Upcoming(TLGroup)' # "recvDsg" /\ wire'.to # "group"
        BY <2>1, <2>2
    <2>6. Agreed'
        BY <1>1, <1>4, <1>8, <2>1, <2>2, <2>4, <2>5 DEF Agreed
    <2> QED BY <1>1, <1>13, <1>16, <2>6 DEF Settled, Asks
<1>17. CASE x = "scatterSizes"
    <2>1. g = TLGroup /\ UNCHANGED <<bcasts, extra>> /\ Upcoming(TLGroup) = x /\ Upcoming(TLGroup)' = "bcastSizes"
        BY <1>2, <1>12, <1>17 DEF Answers, After
    <2>2. wire.to = "group" /\ spaces' = [spaces EXCEPT ![TLGroup] = wire.sizes] /\ wire'.to # "manager"
        <3>1. wire.to = "group" /\ spaces' = [spaces EXCEPT ![TLGroup] = wire.sizes] /\ wire'.to = None
            BY <1>3, <1>17, <2>1 DEF Changes, Answers
        <3> QED BY <3>1, NoneAssumption
    <2>3. spaces'[TLGroup] = wire.sizes /\ \A h \in Groups : h # TLGroup => spaces'[h] = spaces[h]
        BY <1>1, <2>2
    <2>4. Announced'
        BY <1>1, <2>1, <2>3, AnnouncedStill
    <2>5. Tasks \subseteq spaces'[TLGroup]
        BY <1>1, <1>17, <2>1, <2>3 DEF Agreed
    <2>6. Upcoming(TLGroup) \in Scatters /\ Upcoming(TLGroup)' \notin Scatters
        BY <1>17, <2>1 DEF Scatters
    <2>7. managerSizes # None => SentSizes' = managerSizes
        BY <1>1, <2>1, <2>2, <2>3, <2>6 DEF Agreed, SentSizes
    <2>8. Agreed'
        BY <1>1, <1>4, <1>8, <2>1, <2>6, <2>7 DEF Agreed
    <2> QED BY <2>4, <2>5, <2>8 DEF Settled
<1>18. CASE x = "scatterExtra"
    <2>1. g = TLGroup /\ UNCHANGED spaces /\ Upcoming(TLGroup) = x /\ Upcoming(TLGroup)' \notin Answers
        BY <1>2, <1>12, <1>18 DEF Answers, Asks, After
    <2>2. wire.to = "group" /\ extra' = wire.sizes
        BY <1>3, <1>18, <2>1 DEF Changes, Answers
    <2>3. Upcoming(TLGroup) \in Scatters /\ Upcoming(TLGroup)' \notin Scatters
          /\ Upcoming(TLGroup)' # "recvDsg" /\ Upcoming(TLGroup)' # "scatterSizes"
        BY <1>18, <2>1 DEF Scatters, Answers
    <2>4. extra' = managerSizes
        BY <1>1, <2>2, <2>3 DEF Agreed
    <2>5. managerSizes # None => SentSizes' = managerSizes
        BY <2>4 DEF SentSizes
    <2>6. Agreed'
        BY <1>1, <1>4, <1>8, <2>3, <2>4, <2>5 DEF Agreed
    <2> QED BY <1>1, <1>13, <1>18, <2>6 DEF Settled, Answers
<1> QED BY <1>9, <1>10, <1>11, <1>14, <1>15, <1>16, <1>17, <1>18 DEF Asks, Answers

\* A collective: the sizes that are reduced are all the same.
LEMMA SettledCollective ==
    ASSUME Shapes, Together, Exch, Settled, Collective
    PROVE  Settled'
<1>1. Handling /\ TLGroup \in Groups /\ Announced
    BY ManagerAssumption DEF Exch, Settled
<1>2. PICK x \in {"reduceSizes", "reduceGlobal", "reduceValues"} :
        \A g \in Groups : /\ handler[g] # <<>> /\ Upcoming(g) = x /\ After(current[g].sig, x, Upcoming(g)')
    BY <1>1, CollectiveNext
<1>3. /\ Upcoming(TLGroup) \notin Answers \cup {"bcastSizes"}
      /\ Upcoming(TLGroup)' \notin Answers \cup {"bcastSizes"}
    BY <1>1, <1>2 DEF After, Asks, Answers
<1>4. UNCHANGED <<extra, bcasts, wire, managerSizes, todo>>
    BY DEF Collective, ReduceSubspaceSizes, ReduceGlobal, ReduceValues, managerSide, commVars, gridVars, methodVars
<1>5. \A g \in Groups : spaces'[g] = spaces[g]
    <2>1. CASE UNCHANGED spaces
        BY <2>1
    <2>2. CASE spaces' = [g \in Groups |-> UNION {spaces[h] : h \in Groups}]
        <3>1. PICK S \in Seq(Collectives), pos \in [Groups -> Nat] : Behind(S, pos) /\ \A g \in Groups : OnWay(S, g, pos[g])
            BY DEF Together
        <3>2. \A g \in Groups : handler[g] # <<>> /\ Head(handler[g]) = x
            BY <1>2 DEF Upcoming, FirstOf
        <3>3. \A g \in Groups : bcasts[g] = <<>>
            BY <3>1, <3>2, AllMeet
        <3>4. \A g \in Groups : spaces[g] = spaces[TLGroup]
            <4> SUFFICES ASSUME NEW g \in Groups \ {TLGroup} PROVE spaces[g] = spaces[TLGroup]
                OBVIOUS
            <4>1. SizesAt(g, Len(bcasts[g])) = spaces[TLGroup]
                BY <1>1, <1>3 DEF Announced
            <4>2. Len(bcasts[g]) = 0
                BY <3>3
            <4> QED BY <4>1, <4>2 DEF SizesAt
        <3>5. UNION {spaces[h] : h \in Groups} = spaces[TLGroup]
            <4>1. {spaces[h] : h \in Groups} = {spaces[TLGroup]}
                BY <1>1, <3>4
            <4>2. \A v : UNION {v} = v
                OBVIOUS
            <4> QED BY <4>1, <4>2
        <3> QED BY <2>2, <3>4, <3>5
    <2> QED BY <2>1, <2>2 DEF Collective, ReduceSubspaceSizes, ReduceGlobal, ReduceValues, gridVars
<1> QED BY <1>3, <1>4, <1>5, SettledStill

\* A command is received.
LEMMA SettledReceive ==
    ASSUME Proved!TypeOK, Shapes, Settled, NEW g \in Groups, ReceiveSignal(g)
    PROVE  Settled'
<1>1. /\ handler[g] = <<>> /\ current'[g].sig \in PG!Signals /\ handler'[g] = HandlerOf(current'[g].sig)
      /\ \A h \in Groups : h # g => handler'[h] = handler[h]
      /\ UNCHANGED <<todo, methodVars, gridVars, commVars>>
    BY ReceiveFacts
<1>2. Upcoming(g) = "none" /\ Upcoming(g)' = FirstOf(HandlerOf(current'[g].sig))
      /\ \A h \in Groups : h # g => Upcoming(h)' = Upcoming(h)
    BY <1>1 DEF Upcoming, FirstOf
<1>3. Upcoming(g)' \notin Answers \cup {"bcastSizes"}
    BY <1>1, <1>2, LeftBegins
<1>4. Upcoming(g) \notin Answers \cup {"bcastSizes"}
    BY <1>2 DEF Answers
<1>5. \/ Upcoming(TLGroup)' = Upcoming(TLGroup)
      \/ /\ Upcoming(TLGroup) \notin Answers \cup {"bcastSizes"}
         /\ Upcoming(TLGroup)' \notin Answers \cup {"bcastSizes"}
    BY <1>2, <1>3, <1>4, ManagerAssumption
<1> QED BY <1>1, <1>5, SettledStill DEF methodVars, gridVars, commVars

\* The steps outside the handlers.
LEMMA SettledRest ==
    ASSUME Settled,
           \/ \E g \in Groups : Execute(g) \/ SendStatus(g) \/ DeliverStatus(g)
           \/ RemoteFileArrives
           \/ UNCHANGED vars
    PROVE  Settled'
<1>1. UNCHANGED <<todo, handler, managerSizes, spaces, extra, bcasts, wire>>
    BY DEF Execute, SendStatus, DeliverStatus, RemoteFileArrives, vars, methodVars, workerVars, gridVars,
           commVars, managerSide
<1>2. Upcoming(TLGroup)' = Upcoming(TLGroup)
    BY <1>1 DEF Upcoming
<1> QED BY <1>1, <1>2, SettledStill

\* Once the sizes agree, they always do.
LEMMA SettledNext ==
    ASSUME Proved!TypeOK, TaskInv, Shapes, Together, Exch, DOMAIN spaces = Groups, Settled, [Next]_vars
    PROVE  Settled'
<1>1. todo \in Seq(StepType)
    BY DEF TaskInv
<1>2. CASE ManagerStep
    BY <1>1, <1>2, SettledManager
<1>3. CASE CallMethod
    BY <1>3, SettledCall
<1>4. CASE Collective
    BY <1>4, SettledCollective
<1>5. ASSUME NEW g \in Groups, ReceiveSignal(g) PROVE Settled'
    BY <1>5, SettledReceive
<1>6. ASSUME NEW g \in Groups, HandlerStep(g) PROVE Settled'
    BY <1>6, SettledHandler
<1>7. CASE \/ \E g \in Groups : Execute(g) \/ SendStatus(g) \/ DeliverStatus(g)
           \/ RemoteFileArrives
           \/ UNCHANGED vars
    BY <1>7, SettledRest
<1> QED BY <1>2, <1>3, <1>4, <1>5, <1>6, <1>7 DEF Next, WorkerStep

\* Every group's sparse grid has a size.
LEMMA SizesThere ==
    ASSUME DOMAIN spaces = Groups, [Next]_vars
    PROVE  DOMAIN spaces' = Groups
<1>1. CASE ManagerStep
    BY <1>1, ManagerWire
<1>2. CASE CallMethod
    BY <1>2 DEF CallMethod, Call, CallReschedule, gridVars
<1>3. CASE Collective
    BY <1>3 DEF Collective, ReduceSubspaceSizes, ReduceGlobal, ReduceValues, gridVars
<1>4. ASSUME NEW g \in Groups, HandlerStep(g) PROVE DOMAIN spaces' = Groups
    <2>1. Changes(g)
        BY <1>4, HandlerChanges
    <2> QED BY <2>1 DEF Changes
<1>5. ASSUME NEW g \in Groups, ReceiveSignal(g) \/ Execute(g) \/ SendStatus(g) \/ DeliverStatus(g)
      PROVE  DOMAIN spaces' = Groups
    BY <1>5 DEF ReceiveSignal, Execute, SendStatus, DeliverStatus, workerVars, gridVars
<1>6. CASE RemoteFileArrives \/ UNCHANGED vars
    BY <1>6 DEF RemoteFileArrives, vars, workerVars, gridVars
<1> QED BY <1>1, <1>2, <1>3, <1>4, <1>5, <1>6 DEF Next, WorkerStep

-----------------------------------------------------------------------------
\* Before the sizes are reduced for the first time.

\* What the application has sent before, and the steps of its methods.
EarlyCommands == {"UPDATE_COMBI_PARAMETERS", "RUN_FIRST", "INIT_DSGUS"}

Sizing(s) == s.do = "send" /\ s.sig = "INIT_DSGUS"

EarlyStep(s) ==
    \/ s.do \in {"waitAll", "assign"}
    \/ s.do = "send" /\ s.sig = "UPDATE_COMBI_PARAMETERS"
    \/ Sizing(s)

\* The group has been asked to take part in the first reduction.
Unreduced(g) ==
    handler[g] # <<>> \/ \E i \in 1..Len(toWorker[g]) : toWorker[g][i].sig = "INIT_DSGUS"

EarlyGroup(g) ==
    /\ PG!Load(g) <= 1
    /\ status[g] = "WAIT" => PG!Load(g) = 0
    /\ \A i \in 1..Len(toWorker[g]) : toWorker[g][i].sig \in EarlyCommands
    /\ phase[g] = "running" => current[g].sig \in EarlyCommands
    /\ handler[g] # <<>> => current[g].sig = "INIT_DSGUS"
    /\ Upcoming(g) = "reduceSizes" => ToSet(workerTasks[g]) \subseteq spaces[g]

\* The rest of the method, at the stage s, when the groups U have been asked: no task is assigned
\* after that, and the method does not end before all groups have been asked and have finished.
Opening(seq, s, U) ==
    /\ \A i \in 1..Len(seq) : EarlyStep(seq[i])
    /\ \A i \in 1..Len(seq), j \in 1..Len(seq) : i < j /\ Sizing(seq[i]) => seq[j].do # "assign"
    /\ U # {} => s # "start" /\ NoStep(seq, {"assign"})
    /\ s = "start" => \A i \in 1..Len(seq) : ~Sizing(seq[i])
    /\ s # "start" =>
        /\ seq # <<>> /\ seq[Len(seq)].do = "waitAll"
        /\ \A g \in Groups : g \in U \/ \E i \in 1..(Len(seq) - 1) : Sizing(seq[i]) /\ seq[i].group = g

AskedToReduce == {g \in Groups : Unreduced(g)}

Before ==
    /\ managerSizes = None /\ extra = None
    /\ \A g \in Groups : EarlyGroup(g)
    /\ Opening(todo, stage, AskedToReduce)

\* The method goes on.
LEMMA OpeningNext ==
    ASSUME NEW T, NEW seq \in Seq(T), seq # <<>>, NEW s, NEW U, Opening(seq, s, U),
           NEW V, V = IF Sizing(Head(seq)) THEN U \cup {Head(seq).group} ELSE U,
           Head(seq).do = "waitAll" => U = {}
    PROVE  EarlyStep(Head(seq)) /\ Opening(Tail(seq), s, V)
<1> DEFINE r == Tail(seq)
<1>0. PICK n \in Nat : n = Len(seq)
    BY LenProperties
<1>1. n # 0 /\ Head(seq) = seq[1] /\ r \in Seq(T) /\ Len(r) = n - 1 /\ \A i \in 1..(n - 1) : r[i] = seq[i + 1]
    BY <1>0, HeadTailProperties, EmptySeq
<1>2. /\ \A i \in 1..n : EarlyStep(seq[i])
      /\ \A i \in 1..n, j \in 1..n : i < j /\ Sizing(seq[i]) => seq[j].do # "assign"
      /\ U # {} => s # "start" /\ \A i \in 1..n : seq[i].do # "assign"
      /\ s = "start" => \A i \in 1..n : ~Sizing(seq[i])
      /\ s # "start" =>
          /\ seq[n].do = "waitAll"
          /\ \A g \in Groups : g \in U \/ \E i \in 1..(n - 1) : Sizing(seq[i]) /\ seq[i].group = g
    BY <1>0 DEF Opening, NoStep
<1> HIDE DEF r
<1>3. 1 \in 1..n /\ \A i \in 1..(n - 1) : i + 1 \in 1..n
    BY <1>1
<1>4. \A i \in 1..Len(r) : EarlyStep(r[i])
    BY <1>1, <1>2, <1>3
<1>5. \A i \in 1..Len(r), j \in 1..Len(r) : i < j /\ Sizing(r[i]) => r[j].do # "assign"
    <2> SUFFICES ASSUME NEW i \in 1..(n - 1), NEW j \in 1..(n - 1), i < j, Sizing(r[i]) PROVE r[j].do # "assign"
        BY <1>1
    <2>1. i + 1 \in 1..n /\ j + 1 \in 1..n /\ i + 1 < j + 1
        BY <1>3
    <2>2. Sizing(seq[i + 1])
        BY <1>1
    <2>3. seq[j + 1].do # "assign"
        BY <1>2, <2>1, <2>2
    <2> QED BY <1>1, <2>3
<1>6. V # {} => s # "start" /\ NoStep(r, {"assign"})
    <2> SUFFICES ASSUME V # {} PROVE s # "start" /\ \A i \in 1..(n - 1) : r[i].do # "assign"
        BY <1>1 DEF NoStep
    <2>1. CASE U # {}
        BY <1>1, <1>2, <1>3, <2>1
    <2>2. CASE U = {}
        <3>1. Sizing(seq[1])
            BY <1>1, <2>2
        <3>2. \A i \in 1..(n - 1) : seq[i + 1].do # "assign"
            <4> SUFFICES ASSUME NEW i \in 1..(n - 1) PROVE seq[i + 1].do # "assign"
                OBVIOUS
            <4>1. i + 1 \in 1..n /\ 1 < i + 1
                BY <1>3
            <4> QED BY <1>2, <1>3, <3>1, <4>1
        <3> QED BY <1>1, <1>2, <1>3, <3>1, <3>2
    <2> QED BY <2>1, <2>2
<1>7. s = "start" => \A i \in 1..Len(r) : ~Sizing(r[i])
    BY <1>1, <1>2, <1>3
<1>8. ASSUME s # "start"
      PROVE  /\ r # <<>> /\ r[Len(r)].do = "waitAll"
             /\ \A g \in Groups : g \in V \/ \E i \in 1..(Len(r) - 1) : Sizing(r[i]) /\ r[i].group = g
    <2>1. n # 1
        <3> SUFFICES ASSUME n = 1 PROVE FALSE
            OBVIOUS
        <3>1. seq[1].do = "waitAll" /\ U = {}
            BY <1>1, <1>2, <1>8
        <3>2. TLGroup \in Groups
            BY ManagerAssumption
        <3>3. \E i \in 1..(n - 1) : Sizing(seq[i])
            BY <1>2, <1>8, <3>1, <3>2
        <3> QED BY <3>3
    <2>2. n - 1 \in 1..(n - 1) /\ (n - 1) + 1 = n
        BY <1>1, <2>1
    <2>3. r # <<>> /\ r[Len(r)].do = "waitAll"
        <3>1. Len(r) # 0
            BY <1>1, <2>1
        <3>2. r[n - 1] = seq[n]
            BY <1>1, <2>2
        <3>3. r # <<>>
            BY <1>1, <3>1, EmptySeq
        <3> QED BY <1>1, <1>2, <1>8, <3>2, <3>3
    <2>4. ASSUME NEW g \in Groups, g \notin V
          PROVE  \E i \in 1..(Len(r) - 1) : Sizing(r[i]) /\ r[i].group = g
        <3>1. g \notin U
            BY <2>4
        <3>2. PICK i \in 1..(n - 1) : Sizing(seq[i]) /\ seq[i].group = g
            BY <1>2, <1>8, <3>1
        <3>3. i # 1
            BY <1>1, <2>4, <3>2
        <3>4. i - 1 \in 1..(n - 1) /\ i - 1 \in 1..(Len(r) - 1) /\ (i - 1) + 1 = i
            BY <1>1, <3>3
        <3>5. r[i - 1] = seq[i]
            BY <1>1, <3>4
        <3> QED BY <3>2, <3>4, <3>5
    <2> QED BY <2>3, <2>4
<1>9. Opening(r, s, V)
    BY <1>4, <1>5, <1>6, <1>7, <1>8 DEF Opening
<1> QED BY <1>1, <1>2, <1>3, <1>9 DEF r

\* A group nothing happens to.
LEMMA EarlyStill ==
    ASSUME NEW g, EarlyGroup(g), status'[g] = status[g], toWorker'[g] = toWorker[g], phase'[g] = phase[g],
           statusMsgs'[g] = statusMsgs[g], handler'[g] = handler[g], workerTasks'[g] = workerTasks[g],
           current'[g] = current[g], spaces'[g] = spaces[g]
    PROVE  EarlyGroup(g)' /\ (Unreduced(g)' <=> Unreduced(g))
<1>1. PG!Load(g)' = PG!Load(g)
    BY DEF PG!Load, PG!Running
<1>2. Upcoming(g)' = Upcoming(g)
    BY DEF Upcoming
<1>3. Unreduced(g)' <=> Unreduced(g)
    BY DEF Unreduced
<1> QED BY <1>1, <1>2, <1>3 DEF EarlyGroup

\* The manager's steps before the first reduction.
LEMMA EarlyManager ==
    ASSUME Proved!TypeOK, EarlyStep(Head(todo)), ManagerStep
    PROVE  /\ todo # <<>> /\ todo' = Tail(todo)
           /\ UNCHANGED <<stage, managerSizes, extra, spaces, handler, phase, current, statusMsgs, workerTasks>>
           /\ \/ Head(todo).do = "waitAll" /\ (\A g \in Groups : status[g] = "WAIT") /\ UNCHANGED <<status, toWorker>>
              \/ \E g \in Groups, c \in PG!Command :
                    /\ status[g] = "WAIT" /\ status' = [status EXCEPT ![g] = "BUSY"]
                    /\ toWorker' = [toWorker EXCEPT ![g] = Append(@, c)]
                    /\ \/ Head(todo).do = "assign" /\ c.sig = "RUN_FIRST"
                       \/ Head(todo).do = "send" /\ c.sig = Head(todo).sig /\ Head(todo).group = g
<1> DEFINE Goal == /\ todo # <<>> /\ todo' = Tail(todo)
                   /\ UNCHANGED <<stage, managerSizes, extra, spaces, handler, phase, current, statusMsgs, workerTasks>>
                   /\ \/ Head(todo).do = "waitAll" /\ (\A g \in Groups : status[g] = "WAIT") /\ UNCHANGED <<status, toWorker>>
                      \/ \E g \in Groups, c \in PG!Command :
                            /\ status[g] = "WAIT" /\ status' = [status EXCEPT ![g] = "BUSY"]
                            /\ toWorker' = [toWorker EXCEPT ![g] = Append(@, c)]
                            /\ \/ Head(todo).do = "assign" /\ c.sig = "RUN_FIRST"
                               \/ Head(todo).do = "send" /\ c.sig = Head(todo).sig /\ Head(todo).group = g
<1>1. Head(todo).do \in {"waitAll", "assign", "send"}
    BY DEF EarlyStep, Sizing
<1>2. CASE WaitAllFinished
    BY <1>2 DEF WaitAllFinished, Do, protocolVars, methodVars, workerVars, gridVars
<1>3. ASSUME NEW g \in Groups, Runfirst(g) PROVE Goal
    <2>1. PICK t \in Tasks : PG!StoreTaskReferenceAndSend(g, "RUN_FIRST", t)
        BY <1>3 DEF Runfirst
    <2> DEFINE c == [sig |-> "RUN_FIRST", task |-> t]
    <2>2. c \in PG!Command /\ c.sig = "RUN_FIRST"
        BY CommandOf DEF PG!SignalsWithTask, PG!TaskSignals
    <2>3. /\ todo # <<>> /\ todo' = Tail(todo) /\ Head(todo).do = "assign"
          /\ UNCHANGED <<stage, managerSizes, extra, spaces, handler>>
        BY <1>3 DEF Runfirst, Do, methodVars, workerVars, gridVars
    <2>4. /\ status[g] = "WAIT" /\ status' = [status EXCEPT ![g] = "BUSY"]
          /\ toWorker' = [toWorker EXCEPT ![g] = Append(@, c)]
          /\ UNCHANGED <<statusMsgs, phase, current, workerTasks>>
        BY <2>1 DEF PG!StoreTaskReferenceAndSend, PG!Send, PG!SetProcessGroupBusyAndReceive, PG!workerVars
    <2> HIDE DEF c
    <2> QED BY <2>2, <2>3, <2>4
<1>4. ASSUME NEW g \in Groups, SendCommand(g) PROVE Goal
    <2>1. /\ todo # <<>> /\ todo' = Tail(todo) /\ Head(todo).do = "send" /\ Head(todo).group = g
          /\ PG!SendSignalAndReceive(g, Head(todo).sig)
          /\ UNCHANGED <<stage, managerSizes, extra, spaces, handler>>
        BY <1>1, <1>4 DEF SendCommand, DoFor, Do, methodVars, workerVars, gridVars
    <2> DEFINE c == [sig |-> Head(todo).sig, task |-> None]
    <2>2. c \in PG!Command /\ c.sig = Head(todo).sig
        BY <2>1, CommandOf DEF PG!SendSignalAndReceive
    <2>4. /\ status[g] = "WAIT" /\ status' = [status EXCEPT ![g] = "BUSY"]
          /\ toWorker' = [toWorker EXCEPT ![g] = Append(@, c)]
          /\ UNCHANGED <<statusMsgs, phase, current, workerTasks>>
        BY <2>1 DEF PG!SendSignalAndReceive, PG!Send, PG!SetProcessGroupBusyAndReceive, PG!workerVars
    <2> HIDE DEF c
    <2> QED BY <2>1, <2>2, <2>4
<1>5. CASE WaitForPG \/ RebuildTasks \/ FetchInstructionStep \/ ReduceSizes \/ ExchangeDsgus \/ TakeValues
    BY <1>1, <1>5 DEF WaitForPG, RebuildTasks, FetchInstructionStep, ReduceSizes, ExchangeDsgus, TakeValues, Do
<1>6. ASSUME NEW g \in Groups, Runnext(g) \/ Request(g) \/ TakeReply(g) \/ RescheduleAddTask(g) PROVE Goal
    BY <1>1, <1>6 DEF Runnext, Request, TakeReply, RescheduleAddTask, DoFor, Do
<1> QED BY <1>2, <1>3, <1>4, <1>5, <1>6 DEF ManagerStep

\* A group that is sent a command.
LEMMA EarlySent ==
    ASSUME Proved!TypeOK, NEW g \in Groups, EarlyGroup(g), NEW c \in PG!Command, c.sig \in EarlyCommands,
           status[g] = "WAIT", status'[g] = "BUSY", toWorker'[g] = Append(toWorker[g], c),
           UNCHANGED <<phase, current, statusMsgs, workerTasks, handler, spaces>>
    PROVE  EarlyGroup(g)' /\ (Unreduced(g)' <=> Unreduced(g) \/ c.sig = "INIT_DSGUS")
<1> DEFINE q == toWorker[g]
<1>0. PICK n \in Nat : n = Len(q)
    BY LenProperties, CommandTypes
<1>1. toWorker'[g] = Append(q, c) /\ q \in Seq(PG!Command)
    BY CommandTypes
<1>2. Len(toWorker[g])' = n + 1 /\ toWorker'[g][n + 1] = c /\ \A i \in 1..n : toWorker'[g][i] = q[i]
    <2> DEFINE p == toWorker'[g]
    <2> HIDE DEF q
    <2>1. Len(p) = n + 1 /\ p[n + 1] = c /\ \A i \in 1..n : p[i] = q[i]
        BY <1>0, <1>1, AppendProperties
    <2> QED BY <2>1
<1>3. Upcoming(g)' = Upcoming(g)
    BY DEF Upcoming
<1>4. PG!Running(g) \in Nat /\ PG!Running(g)' = PG!Running(g) /\ statusMsgs[g] \in Nat /\ statusMsgs'[g] = statusMsgs[g]
    BY DEF PG!Running, Proved!TypeOK
<1>5. PG!Load(g) = 0
    BY DEF EarlyGroup
<1>6. PG!Load(g)' = 1
    BY <1>0, <1>2, <1>4, <1>5 DEF PG!Load
<1>7. \A i \in 1..Len(toWorker[g])' : i \in 1..n \/ i = n + 1
    BY <1>2
<1>8. \A i \in 1..n : q[i].sig \in EarlyCommands
    BY <1>0 DEF EarlyGroup
<1>9. \A i \in 1..Len(toWorker[g])' : toWorker'[g][i].sig \in EarlyCommands
    BY <1>2, <1>7, <1>8
<1>10. EarlyGroup(g)'
    <2>1. /\ phase'[g] = "running" => current'[g].sig \in EarlyCommands
          /\ handler'[g] # <<>> => current'[g].sig = "INIT_DSGUS"
          /\ Upcoming(g)' = "reduceSizes" => ToSet(workerTasks[g])' \subseteq spaces'[g]
        BY <1>3 DEF EarlyGroup
    <2> QED BY <1>6, <1>9, <2>1 DEF EarlyGroup
<1>11. n + 1 \in 1..Len(toWorker[g])' /\ \A i \in 1..n : i \in 1..Len(toWorker[g])'
    BY <1>2
<1>12. (\E i \in 1..Len(toWorker[g])' : toWorker'[g][i].sig = "INIT_DSGUS")
            <=> (\E i \in 1..n : q[i].sig = "INIT_DSGUS") \/ c.sig = "INIT_DSGUS"
    BY <1>2, <1>7, <1>11
<1>13. Unreduced(g)' <=> Unreduced(g) \/ c.sig = "INIT_DSGUS"
    BY <1>0, <1>12 DEF Unreduced
<1> QED BY <1>10, <1>13

\* A group that waits has done everything.
LEMMA EarlyWaits ==
    ASSUME Proved!TypeOK, Shapes, NEW g \in Groups, EarlyGroup(g), status[g] = "WAIT"
    PROVE  ~Unreduced(g)
<1>1. toWorker[g] \in Seq(PG!Command) /\ Len(toWorker[g]) \in Nat
    BY CommandTypes, LenProperties
<1>2. PG!Running(g) \in Nat /\ statusMsgs[g] \in Nat
    BY DEF PG!Running, Proved!TypeOK
<1>3. PG!Load(g) = 0
    BY DEF EarlyGroup
<1>4. Len(toWorker[g]) = 0 /\ PG!Running(g) = 0
    BY <1>1, <1>2, <1>3 DEF PG!Load
<1>5. phase[g] # "running"
    BY <1>4 DEF PG!Running
<1> QED BY <1>4, <1>5 DEF Unreduced, Shapes

\* A step of the manager.
LEMMA BeforeManager ==
    ASSUME Proved!TypeOK, Shapes, todo \in Seq(StepType), todo # <<>>, Before, ManagerStep
    PROVE  Before'
<1> DEFINE s == Head(todo)
           U == AskedToReduce
<1>1. managerSizes = None /\ extra = None /\ (\A g \in Groups : EarlyGroup(g)) /\ Opening(todo, stage, U)
    BY DEF Before
<1>2. EarlyStep(s)
    <2>1. 1 \in 1..Len(todo) /\ s = todo[1]
        BY LenProperties, EmptySeq
    <2> QED BY <1>1, <2>1 DEF Opening
<1>3. /\ todo # <<>> /\ todo' = Tail(todo)
      /\ UNCHANGED <<stage, managerSizes, extra, spaces, handler, phase, current, statusMsgs, workerTasks>>
      /\ \/ s.do = "waitAll" /\ (\A g \in Groups : status[g] = "WAIT") /\ UNCHANGED <<status, toWorker>>
         \/ \E g \in Groups, c \in PG!Command :
                /\ status[g] = "WAIT" /\ status' = [status EXCEPT ![g] = "BUSY"]
                /\ toWorker' = [toWorker EXCEPT ![g] = Append(@, c)]
                /\ \/ s.do = "assign" /\ c.sig = "RUN_FIRST"
                   \/ s.do = "send" /\ c.sig = s.sig /\ s.group = g
    BY <1>2, EarlyManager
<1>4. CASE s.do = "waitAll" /\ (\A g \in Groups : status[g] = "WAIT") /\ UNCHANGED <<status, toWorker>>
    <2>1. \A g \in Groups : EarlyGroup(g)' /\ (Unreduced(g)' <=> Unreduced(g))
        BY <1>1, <1>3, <1>4, EarlyStill
    <2>2. \A g \in Groups : ~Unreduced(g)
        BY <1>1, <1>4, EarlyWaits
    <2>3. U = {} /\ AskedToReduce' = {}
        BY <2>1, <2>2 DEF AskedToReduce
    <2>4. ~Sizing(s)
        BY <1>4 DEF Sizing
    <2> HIDE DEF U, s
    <2>5. Opening(Tail(todo), stage, U)
        BY <1>1, <2>3, <2>4, OpeningNext DEF s
    <2>6. Opening(todo, stage, AskedToReduce)'
        BY <1>3, <2>3, <2>5 DEF Opening
    <2> QED BY <1>1, <1>3, <2>1, <2>6 DEF Before
<1>5. ASSUME NEW g \in Groups, NEW c \in PG!Command,
             status[g] = "WAIT", status' = [status EXCEPT ![g] = "BUSY"],
             toWorker' = [toWorker EXCEPT ![g] = Append(@, c)],
             \/ s.do = "assign" /\ c.sig = "RUN_FIRST"
             \/ s.do = "send" /\ c.sig = s.sig /\ s.group = g
      PROVE  Before'
    <2>1. /\ status'[g] = "BUSY" /\ toWorker'[g] = Append(toWorker[g], c)
          /\ \A h \in Groups : h # g => status'[h] = status[h] /\ toWorker'[h] = toWorker[h]
        BY <1>5 DEF Proved!TypeOK
    <2>2. /\ c.sig \in EarlyCommands /\ s.do # "waitAll"
          /\ c.sig = "INIT_DSGUS" <=> Sizing(s)
          /\ Sizing(s) => s.group = g
        BY <1>2, <1>5 DEF EarlyStep, Sizing, EarlyCommands
    <2>3. EarlyGroup(g)' /\ (Unreduced(g)' <=> Unreduced(g) \/ c.sig = "INIT_DSGUS")
        BY <1>1, <1>3, <1>5, <2>1, <2>2, EarlySent
    <2>4. \A h \in Groups : h # g => EarlyGroup(h)' /\ (Unreduced(h)' <=> Unreduced(h))
        BY <1>1, <1>3, <2>1, EarlyStill
    <2>5. \A h \in Groups : EarlyGroup(h)'
        BY <2>3, <2>4
    <2>6. AskedToReduce' = IF Sizing(s) THEN U \cup {s.group} ELSE U
        BY <2>2, <2>3, <2>4 DEF AskedToReduce
    <2> DEFINE V == AskedToReduce'
    <2> HIDE DEF U, s, V
    <2>7. V = IF Sizing(Head(todo)) THEN U \cup {Head(todo).group} ELSE U
        BY <2>6 DEF V, s
    <2>8. Head(todo).do # "waitAll"
        BY <2>2 DEF s
    <2>9. Opening(Tail(todo), stage, V)
        BY <1>1, <2>7, <2>8, OpeningNext
    <2>10. Opening(todo, stage, AskedToReduce)'
        BY <1>3, <2>9 DEF Opening, V
    <2> QED BY <1>1, <1>3, <2>5, <2>10 DEF Before
<1> QED BY <1>3, <1>4, <1>5

\* A step of one group that asks nothing of the manager.
LEMMA BeforeGroup ==
    ASSUME Before, UNCHANGED <<managerSizes, extra, todo, stage>>, NEW g \in Groups,
           EarlyGroup(g)' /\ (Unreduced(g)' <=> Unreduced(g)),
           \A h \in Groups : h # g =>
                /\ status'[h] = status[h] /\ toWorker'[h] = toWorker[h] /\ phase'[h] = phase[h]
                /\ statusMsgs'[h] = statusMsgs[h] /\ handler'[h] = handler[h] /\ current'[h] = current[h]
                /\ workerTasks'[h] = workerTasks[h] /\ spaces'[h] = spaces[h]
    PROVE  Before'
<1>1. \A h \in Groups : EarlyGroup(h)' /\ (Unreduced(h)' <=> Unreduced(h))
    BY EarlyStill DEF Before
<1>2. AskedToReduce' = AskedToReduce
    BY <1>1 DEF AskedToReduce
<1>3. Opening(todo, stage, AskedToReduce)'
    BY <1>2 DEF Before, Opening
<1> QED BY <1>1, <1>3 DEF Before

\* The handlers that begin before the first reduction.
LEMMA EarlyHandlers ==
    /\ HandlerOf("INIT_DSGUS") = <<"initDsg", "reduceSizes">>
    /\ HandlerOf("RUN_FIRST") = <<>> /\ HandlerOf("UPDATE_COMBI_PARAMETERS") = <<>>
BY DEF HandlerOf

\* A group receives a command.
LEMMA BeforeReceive ==
    ASSUME Proved!TypeOK, Shapes, Before, NEW g \in Groups, ReceiveSignal(g)
    PROVE  Before'
<1> DEFINE q == toWorker[g]
           c == current'[g]
<1>0. EarlyGroup(g)
    BY DEF Before
<1>1. /\ phase[g] = "idle" /\ handler[g] = <<>> /\ q # <<>> /\ toWorker'[g] = Tail(q) /\ c = Head(q)
      /\ phase'[g] = "running" /\ handler'[g] = HandlerOf(c.sig)
      /\ \A h \in Groups : h # g => /\ current'[h] = current[h] /\ toWorker'[h] = toWorker[h]
                                    /\ phase'[h] = phase[h] /\ handler'[h] = handler[h]
      /\ UNCHANGED <<status, statusMsgs, workerTasks, todo, stage, managerSizes, spaces, extra>>
    BY ReceiveFacts DEF methodVars, gridVars
<1>2. PICK n \in Nat : n = Len(q)
    BY LenProperties, CommandTypes
<1>3. /\ n # 0 /\ Head(q) = q[1] /\ 1 \in 1..n /\ Len(Tail(q)) = n - 1
      /\ \A i \in 1..(n - 1) : Tail(q)[i] = q[i + 1] /\ i + 1 \in 1..n
    <2>1. q \in Seq(PG!Command)
        BY CommandTypes
    <2> QED BY <1>1, <1>2, <2>1, HeadTailProperties, EmptySeq
<1>4. \A i \in 1..n : q[i].sig \in EarlyCommands
    BY <1>0, <1>2 DEF EarlyGroup
<1>5. n = 1 /\ PG!Load(g)' = 1 /\ PG!Load(g) = 1
    <2>1. PG!Load(g) <= 1
        BY <1>0 DEF EarlyGroup
    <2>2. PG!Running(g) = 0 /\ PG!Running(g)' = 1 /\ statusMsgs[g] \in Nat /\ statusMsgs'[g] = statusMsgs[g]
        BY <1>1 DEF PG!Running, Proved!TypeOK
    <2>3. PG!Load(g) = n + 0 + statusMsgs[g]
        BY <1>2, <2>2 DEF PG!Load
    <2>4. Len(toWorker[g])' = n - 1
        BY <1>1, <1>3
    <2>5. PG!Load(g)' = (n - 1) + 1 + statusMsgs[g]
        BY <2>2, <2>4 DEF PG!Load
    <2> QED BY <1>3, <2>1, <2>2, <2>3, <2>5
<1>6. c.sig \in EarlyCommands /\ Len(toWorker[g])' = 0
    BY <1>1, <1>3, <1>4, <1>5
<1>7. Unreduced(g) <=> c.sig = "INIT_DSGUS"
    BY <1>1, <1>2, <1>3, <1>5 DEF Unreduced
<1>8. c.sig = "INIT_DSGUS" => handler'[g] = <<"initDsg", "reduceSizes">> /\ Upcoming(g)' = "initDsg"
    BY <1>1, EarlyHandlers DEF Upcoming, FirstOf
<1>9. c.sig # "INIT_DSGUS" => handler'[g] = <<>> /\ Upcoming(g)' = "none"
    BY <1>1, <1>6, EarlyHandlers DEF Upcoming, FirstOf, EarlyCommands
<1>10. Unreduced(g)' <=> c.sig = "INIT_DSGUS"
    BY <1>6, <1>8, <1>9 DEF Unreduced
<1>11. status'[g] # "WAIT"
    BY <1>0, <1>1, <1>5 DEF EarlyGroup
<1>12. EarlyGroup(g)'
    BY <1>1, <1>5, <1>6, <1>8, <1>9, <1>11 DEF EarlyGroup
<1> QED BY <1>1, <1>7, <1>10, <1>12, BeforeGroup

\* A group ends a command, and the manager learns of it.
LEMMA BeforeStatus ==
    ASSUME Proved!TypeOK, Shapes, Before, NEW g \in Groups, Execute(g) \/ SendStatus(g) \/ DeliverStatus(g)
    PROVE  Before'
<1>0. EarlyGroup(g)
    BY DEF Before
<1>1. UNCHANGED <<managerSizes, extra, todo, stage, handler, spaces, toWorker>>
    BY DEF Execute, SendStatus, DeliverStatus, PG!Execute, PG!SendStatus, PG!DeliverStatus, methodVars,
           workerVars, gridVars
<1>2. /\ PG!Running(g) \in Nat /\ statusMsgs[g] \in Nat /\ Len(toWorker[g]) \in Nat
      /\ PG!Load(g) = Len(toWorker[g]) + PG!Running(g) + statusMsgs[g] /\ PG!Load(g) <= 1
    <2>1. toWorker[g] \in Seq(PG!Command)
        BY CommandTypes
    <2> QED BY <1>0, <2>1, LenProperties DEF PG!Running, Proved!TypeOK, PG!Load, EarlyGroup
<1>3. Unreduced(g)' <=> Unreduced(g)
    BY <1>1 DEF Unreduced
<1>4. PG!Load(g)' = Len(toWorker[g]) + PG!Running(g)' + statusMsgs'[g]
    BY <1>1 DEF PG!Load
<1>5. Upcoming(g)' = Upcoming(g)
    BY <1>1 DEF Upcoming
<1>6. CASE Execute(g)
    <2>1. /\ phase[g] = "running" /\ handler[g] = <<>> /\ phase'[g] = "done"
          /\ UNCHANGED <<status, statusMsgs, current>>
          /\ \A h \in Groups : h # g => phase'[h] = phase[h] /\ workerTasks'[h] = workerTasks[h]
        BY <1>6 DEF Execute, PG!Execute, PG!managerVars, Proved!TypeOK
    <2>2. PG!Load(g)' = PG!Load(g)
        BY <1>2, <1>4, <2>1 DEF PG!Running
    <2>3. Upcoming(g)' = "none"
        BY <1>5, <2>1 DEF Upcoming, FirstOf
    <2>4. EarlyGroup(g)'
        BY <1>0, <1>1, <2>1, <2>2, <2>3 DEF EarlyGroup
    <2> QED BY <1>1, <1>3, <2>1, <2>4, BeforeGroup
<1>7. CASE SendStatus(g)
    <2>1. /\ phase[g] = "done" /\ phase'[g] # "running" /\ statusMsgs'[g] = statusMsgs[g] + 1
          /\ phase'[g] \in {"exited", "idle"}
          /\ UNCHANGED <<status, workerTasks>>
          /\ \A h \in Groups : h # g => phase'[h] = phase[h] /\ current'[h] = current[h] /\ statusMsgs'[h] = statusMsgs[h]
        BY <1>7 DEF SendStatus, PG!SendStatus, PG!managerVars, Proved!TypeOK
    <2>2. PG!Load(g)' = PG!Load(g)
        <3>1. PG!Running(g) = 1 /\ PG!Running(g)' = 0
            BY <2>1 DEF PG!Running
        <3> QED BY <1>2, <1>4, <2>1, <3>1
    <2>3. handler[g] = <<>> /\ Upcoming(g)' = "none"
        BY <1>5, <2>1 DEF Shapes, Upcoming, FirstOf
    <2>4. EarlyGroup(g)'
        BY <1>0, <1>1, <2>1, <2>2, <2>3 DEF EarlyGroup
    <2> QED BY <1>1, <1>3, <2>1, <2>4, BeforeGroup
<1>8. CASE DeliverStatus(g)
    <2>1. /\ statusMsgs[g] > 0 /\ statusMsgs'[g] = statusMsgs[g] - 1
          /\ UNCHANGED <<phase, current, workerTasks>>
          /\ \A h \in Groups : h # g => status'[h] = status[h] /\ statusMsgs'[h] = statusMsgs[h]
        BY <1>8 DEF DeliverStatus, PG!DeliverStatus, PG!workerVars, Proved!TypeOK
    <2>2. PG!Load(g)' = 0
        <3>1. PG!Running(g)' = PG!Running(g)
            BY <2>1 DEF PG!Running
        <3> QED BY <1>2, <1>4, <2>1, <3>1
    <2>3. EarlyGroup(g)'
        BY <1>0, <1>1, <1>5, <2>1, <2>2 DEF EarlyGroup
    <2> QED BY <1>1, <1>3, <2>1, <2>3, BeforeGroup
<1> QED BY <1>6, <1>7, <1>8

\* A step of the handler of INIT_DSGUS.
LEMMA BeforeHandler ==
    ASSUME Proved!TypeOK, Shapes, Exch, DOMAIN spaces = Groups, Before, NEW g \in Groups, HandlerStep(g)
    PROVE  Before'
<1>0. EarlyGroup(g) /\ Handling
    BY DEF Before, Exch
<1>1. /\ handler[g] # <<>> /\ Upcoming(g) = Head(handler[g]) /\ Upcoming(g)' = FirstOf(Tail(handler[g]))
      /\ After(current[g].sig, Upcoming(g), Upcoming(g)') /\ handler'[g] = Tail(handler[g])
      /\ \A h \in Groups : h # g => handler'[h] = handler[h]
      /\ UNCHANGED <<todo, stage, toWorker, phase, current, workerTasks>>
    BY <1>0, HandlerNext
<1>2. current[g].sig = "INIT_DSGUS"
    BY <1>0, <1>1 DEF EarlyGroup
<1>3. Head(handler[g]) # "reduceSizes"
    BY HandlerFacts DEF Local, ReduceLocal, Distribute, BcastDsg, BcastSizes, TakeDsg, TakeSizes, At
<1>4. Upcoming(g) = "initDsg" /\ Upcoming(g)' = "reduceSizes"
    BY <1>1, <1>2, <1>3 DEF After
<1>5. handler'[g] # <<>>
    <2>1. FirstOf(handler'[g]) = "reduceSizes"
        BY <1>1, <1>4
    <2> QED BY <2>1 DEF FirstOf
<1>6. /\ UNCHANGED <<status, statusMsgs, managerSizes, extra>>
      /\ spaces' = [spaces EXCEPT ![g] = @ \cup ToSet(workerTasks[g])]
    <2>1. Changes(g)
        BY HandlerChanges
    <2> QED BY <1>1, <1>4, <2>1 DEF Changes, protocolVars, methodVars
<1>7. ToSet(workerTasks[g]) \subseteq spaces'[g] /\ \A h \in Groups : h # g => spaces'[h] = spaces[h]
    BY <1>6
<1>8. PG!Load(g)' = PG!Load(g)
    BY <1>1, <1>6 DEF PG!Load, PG!Running
<1>9. EarlyGroup(g)'
    BY <1>0, <1>1, <1>2, <1>6, <1>7, <1>8 DEF EarlyGroup
<1>10. Unreduced(g)' <=> Unreduced(g)
    BY <1>1, <1>5 DEF Unreduced
<1> QED BY <1>1, <1>6, <1>7, <1>9, <1>10, BeforeGroup

\* The methods before the first reduction.
Unsizing == {s \in StepType : EarlyStep(s) /\ ~Sizing(s)}

LEMMA UnsizingParts ==
    /\ WaitAll \in Seq(Unsizing)
    /\ CommandAll("UPDATE_COMBI_PARAMETERS") \in Seq(Unsizing)
    /\ \A s, t \in Seq(Unsizing) : s \o t \in Seq(Unsizing)
    /\ Seq(Unsizing) \subseteq Seq(StepType)
<1>1. \A s, t \in Seq(Unsizing) : s \o t \in Seq(Unsizing)
    BY ConcatParts
<1>2. Unsizing \subseteq StepType
    BY DEF Unsizing
<1>3. Seq(Unsizing) \subseteq Seq(StepType)
    <2> HIDE DEF Unsizing
    <2> QED BY <1>2
<1>4. {None, "UPDATE_COMBI_PARAMETERS"} \subseteq Sigs /\ {"waitAll", "send"} \subseteq Kinds
    BY SigsIn DEF Kinds, PlainKinds, PG!CheckedSignals
<1>5. WaitAll \in Seq(Unsizing)
    <2> DEFINE w == Step("waitAll", None, None, None)
    <2>1. w \in StepType /\ w.do = "waitAll"
        BY <1>4, StepParts
    <2> HIDE DEF w
    <2>2. w \in Unsizing
        BY <2>1 DEF Unsizing, EarlyStep, Sizing
    <2> HIDE DEF Unsizing
    <2>3. <<w>> \in Seq(Unsizing)
        BY <2>2
    <2> QED BY <2>3 DEF WaitAll, w
<1>6. CommandAll("UPDATE_COMBI_PARAMETERS") \in Seq(Unsizing)
    <2> DEFINE q == CommandAll("UPDATE_COMBI_PARAMETERS")
    <2>1. ASSUME NEW g \in Groups PROVE q[g] \in Unsizing
        <3> DEFINE c == Step("send", g, "UPDATE_COMBI_PARAMETERS", None)
        <3>1. c \in StepType /\ c.do = "send" /\ c.sig = "UPDATE_COMBI_PARAMETERS"
            BY <1>4, StepParts
        <3>2. q[g] = c
            BY DEF CommandAll, Command
        <3> HIDE DEF c
        <3> QED BY <3>1, <3>2 DEF Unsizing, EarlyStep, Sizing
    <2>2. q = [g \in Groups |-> q[g]]
        BY DEF CommandAll
    <2>3. NumGroups \in Nat /\ Groups = 1..NumGroups
        BY ManagerAssumption DEF Groups
    <2> HIDE DEF q, Unsizing
    <2>4. q \in [1..NumGroups -> Unsizing]
        BY <2>1, <2>2, <2>3
    <2>5. q \in Seq(Unsizing)
        BY <2>3, <2>4
    <2> QED BY <2>5 DEF q
<1> QED BY <1>1, <1>3, <1>5, <1>6

\* Steps before the groups are asked.
LEMMA OpeningThen ==
    ASSUME NEW p \in Seq(Unsizing), NEW r \in Seq(StepType), NEW s, s # "start", Opening(r, s, {})
    PROVE  Opening(p \o r, s, {})
<1> DEFINE q == p \o r
<1>0. PICK n \in Nat : n = Len(p)
    BY LenProperties
<1>1. PICK m \in Nat : m = Len(r)
    BY LenProperties
<1>2. p \in Seq(StepType) /\ \A i \in 1..n : p[i] \in Unsizing
    <2>1. p \in [1..n -> Unsizing]
        BY <1>0, LenProperties
    <2> QED BY <2>1, UnsizingParts
<1>3. Len(q) = n + m /\ (\A i \in 1..n : q[i] = p[i]) /\ (\A i \in 1..m : q[n + i] = r[i]) /\ q \in Seq(StepType)
    BY <1>0, <1>1, <1>2, ConcatParts
<1>4. /\ \A i \in 1..m : EarlyStep(r[i])
      /\ \A i \in 1..m, j \in 1..m : i < j /\ Sizing(r[i]) => r[j].do # "assign"
      /\ r # <<>> /\ r[m].do = "waitAll"
      /\ \A g \in Groups : \E i \in 1..(m - 1) : Sizing(r[i]) /\ r[i].group = g
    BY <1>1 DEF Opening
<1>5. m # 0
    BY <1>1, <1>4, EmptySeq
<1> HIDE DEF q
<1>6. \A i \in 1..(n + m) : i \in 1..n \/ (i - n \in 1..m /\ n + (i - n) = i)
    OBVIOUS
<1>7. \A i \in 1..n : EarlyStep(q[i]) /\ ~Sizing(q[i])
    BY <1>2, <1>3 DEF Unsizing
<1>8. \A i \in 1..Len(q) : EarlyStep(q[i])
    <2> SUFFICES ASSUME NEW i \in 1..(n + m) PROVE EarlyStep(q[i])
        BY <1>3
    <2>1. CASE i \in 1..n
        BY <1>7, <2>1
    <2>2. CASE i \notin 1..n
        <3>1. i - n \in 1..m /\ q[i] = r[i - n]
            BY <1>3, <1>6, <2>2
        <3> QED BY <1>4, <3>1
    <2> QED BY <2>1, <2>2
<1>9. ASSUME NEW i \in 1..Len(q), NEW j \in 1..Len(q), i < j, Sizing(q[i])
      PROVE  q[j].do # "assign"
    <2>1. i \in 1..(n + m) /\ j \in 1..(n + m) /\ i \notin 1..n
        BY <1>3, <1>7, <1>9
    <2>2. i - n \in 1..m /\ j - n \in 1..m /\ i - n < j - n /\ n + (i - n) = i /\ n + (j - n) = j
        BY <1>9, <2>1
    <2>3. q[i] = r[i - n] /\ q[j] = r[j - n]
        BY <1>3, <2>2
    <2> QED BY <1>4, <1>9, <2>2, <2>3
<1>10. q # <<>> /\ q[Len(q)].do = "waitAll"
    <2>1. q[n + m] = r[m]
        BY <1>3, <1>5
    <2>2. Len(q) # 0
        BY <1>3, <1>5
    <2> QED BY <1>3, <1>4, <2>1, <2>2, EmptySeq
<1>11. ASSUME NEW g \in Groups PROVE \E i \in 1..(Len(q) - 1) : Sizing(q[i]) /\ q[i].group = g
    <2>1. PICK i \in 1..(m - 1) : Sizing(r[i]) /\ r[i].group = g
        BY <1>4
    <2>2. n + i \in 1..(Len(q) - 1) /\ q[n + i] = r[i]
        BY <1>3
    <2> QED BY <2>1, <2>2
<1>12. Opening(q, s, {})
    BY <1>8, <1>9, <1>10, <1>11 DEF Opening
<1> QED BY <1>12 DEF q

\* Every group is asked to take part in the first reduction.
LEMMA OpeningInit ==
    ASSUME NEW s, s # "start"
    PROVE  InitDsgus \in Seq(StepType) /\ Opening(InitDsgus, s, {})
<1> DEFINE w == Step("waitAll", None, None, None)
           q == CommandAll("INIT_DSGUS")
           n == NumGroups
           a == <<w>> \o q
           r == a \o <<w>>
<1>1. InitDsgus = r
    BY DEF InitDsgus, WaitAll
<1>2. {None, "INIT_DSGUS"} \subseteq Sigs /\ {"waitAll", "send"} \subseteq Kinds
    BY SigsIn DEF Kinds, PlainKinds, PG!CheckedSignals
<1>3. w \in StepType /\ w.do = "waitAll"
    BY <1>2, StepParts
<1>4. n \in Nat /\ n # 0 /\ Groups = 1..n
    BY ManagerAssumption DEF Groups
<1>5. ASSUME NEW g \in Groups PROVE q[g] \in StepType /\ Sizing(q[g]) /\ q[g].group = g
    <2> DEFINE c == Step("send", g, "INIT_DSGUS", None)
    <2>1. c \in StepType /\ c.do = "send" /\ c.sig = "INIT_DSGUS" /\ c.group = g
        BY <1>2, StepParts
    <2>2. q[g] = c
        BY DEF CommandAll, Command
    <2> HIDE DEF c, q
    <2> QED BY <2>1, <2>2 DEF Sizing
<1>6. q = [g \in Groups |-> q[g]]
    BY DEF CommandAll
<1> HIDE DEF w, q
<1>7. q \in [1..n -> StepType]
    BY <1>4, <1>5, <1>6
<1>8. q \in Seq(StepType) /\ Len(q) = n /\ <<w>> \in Seq(StepType) /\ Len(<<w>>) = 1 /\ <<w>>[1] = w
    BY <1>3, <1>4, <1>7
<1>9. a \in Seq(StepType) /\ Len(a) = 1 + n /\ a[1] = w /\ \A i \in 1..n : a[1 + i] = q[i]
    BY <1>8, ConcatParts
<1> HIDE DEF a, n
<1>10. /\ r \in Seq(StepType) /\ Len(r) = n + 2 /\ r[n + 2] = w
       /\ \A i \in 1..(n + 1) : r[i] = a[i]
    <2>1. /\ r \in Seq(StepType) /\ Len(r) = Len(a) + 1
          /\ (\A i \in 1..Len(a) : r[i] = a[i])
          /\ \A i \in 1..1 : r[Len(a) + i] = <<w>>[i]
        <3> DEFINE v == <<w>>
        <3>1. v \in Seq(StepType) /\ Len(v) = 1 /\ a \in Seq(StepType)
            BY <1>8, <1>9
        <3> HIDE DEF v
        <3>2. /\ a \o v \in Seq(StepType) /\ Len(a \o v) = Len(a) + Len(v)
              /\ (\A i \in 1..Len(a) : (a \o v)[i] = a[i])
              /\ \A i \in 1..Len(v) : (a \o v)[Len(a) + i] = v[i]
            <4> HIDE DEF r
            <4>1. a \in Seq(StepType)
                BY <3>1
            <4>2. v \in Seq(StepType)
                BY <3>1
            <4> QED BY ONLY <4>1, <4>2, ConcatParts
        <3>3. r = a \o v
            BY DEF v
        <3> QED BY <3>1, <3>2, <3>3 DEF v
    <2> HIDE DEF r
    <2>2. Len(a) + 1 = n + 2 /\ 1..Len(a) = 1..(n + 1) /\ 1 \in 1..1
        BY <1>4, <1>9
    <2> QED BY <1>8, <2>1, <2>2
<1> HIDE DEF r
<1>11. r[1] = w /\ \A i \in 1..n : r[1 + i] = q[i]
    <2>1. 1 \in 1..(n + 1) /\ \A i \in 1..n : 1 + i \in 1..(n + 1)
        BY <1>4
    <2> QED BY <1>9, <1>10, <2>1
<1>12. \A i \in 1..(n + 2) : i = 1 \/ i = n + 2 \/ (i - 1 \in 1..n /\ 1 + (i - 1) = i)
    BY <1>4
<1>13. \A i \in 1..n : q[i].do = "send" /\ EarlyStep(q[i])
    BY <1>4, <1>5 DEF Sizing, EarlyStep
<1>14. \A i \in 1..Len(r) : EarlyStep(r[i]) /\ r[i].do # "assign"
    <2> SUFFICES ASSUME NEW i \in 1..(n + 2) PROVE EarlyStep(r[i]) /\ r[i].do # "assign"
        BY <1>10
    <2>1. CASE r[i] = w
        BY <1>3, <2>1 DEF EarlyStep
    <2>2. CASE r[i] # w
        <3>1. i - 1 \in 1..n /\ r[i] = q[i - 1]
            BY <1>10, <1>11, <1>12, <2>2
        <3> QED BY <1>13, <3>1
    <2> QED BY <2>1, <2>2
<1>15. r # <<>> /\ r[Len(r)].do = "waitAll"
    <2>1. Len(r) # 0
        BY <1>4, <1>10
    <2> QED BY <1>3, <1>10, <2>1, EmptySeq
<1>16. ASSUME NEW g \in Groups PROVE \E i \in 1..(Len(r) - 1) : Sizing(r[i]) /\ r[i].group = g
    <2>1. g \in 1..n
        BY <1>4
    <2>2. 1 + g \in 1..(Len(r) - 1) /\ r[1 + g] = q[g]
        BY <1>4, <1>10, <1>11, <2>1
    <2> QED BY <1>5, <2>2
<1>17. Opening(r, s, {})
    BY <1>14, <1>15, <1>16 DEF Opening
<1> QED BY <1>1, <1>10, <1>17

\* The application sets the parameters, or runs the tasks for the first time.
LEMMA OpeningScripts ==
    ASSUME taskList \in Seq(Tasks)
    PROVE  /\ Opening(Script("updateCombiParameters"), "start", {})
           /\ Opening(Script("runfirst"), "solved", {})
<1>1. Opening(Script("updateCombiParameters"), "start", {})
    <2> DEFINE a == WaitAll \o CommandAll("UPDATE_COMBI_PARAMETERS")
               r == a \o WaitAll
    <2>1. Script("updateCombiParameters") = r
        BY DEF Script
    <2>2. a \in Seq(Unsizing)
        BY UnsizingParts
    <2> HIDE DEF a
    <2>3. r \in Seq(Unsizing)
        BY <2>2, UnsizingParts
    <2> HIDE DEF r
    <2>4. r \in [1..Len(r) -> Unsizing]
        BY <2>3, LenProperties
    <2>5. \A i \in 1..Len(r) : EarlyStep(r[i]) /\ ~Sizing(r[i])
        BY <2>4 DEF Unsizing
    <2> QED BY <2>1, <2>5 DEF Opening, Sizing
<1>2. Opening(Script("runfirst"), "solved", {})
    <2> DEFINE q == [i \in DOMAIN taskList |-> Step("assign", None, "RUN_FIRST", taskList[i])]
               a == q \o WaitAll
               r == a \o InitDsgus
    <2>1. Script("runfirst") = r
        BY DEF Script
    <2>2. Len(taskList) \in Nat /\ DOMAIN taskList = 1..Len(taskList)
          /\ \A i \in 1..Len(taskList) : taskList[i] \in Tasks
        BY ElementOfSeq, LenProperties
    <2>3. "assign" \in Kinds /\ "RUN_FIRST" \in Sigs
        BY SigsIn DEF Kinds
    <2>10. ASSUME NEW u \in Tasks
           PROVE  Step("assign", None, "RUN_FIRST", u) \in StepType /\ Step("assign", None, "RUN_FIRST", u).do = "assign"
        <3>1. u \in Tasks \cup {None} /\ None \in Groups \cup {None}
            OBVIOUS
        <3> HIDE DEF q, a, r
        <3> QED BY <2>3, <3>1, StepParts
    <2>4. ASSUME NEW i \in 1..Len(taskList) PROVE q[i] \in Unsizing
        <3> DEFINE t == taskList[i]
                   s == Step("assign", None, "RUN_FIRST", t)
        <3>1. q[i] = s /\ t \in Tasks
            BY <2>2
        <3> HIDE DEF q, t
        <3>2. s \in StepType /\ s.do = "assign"
            BY <2>10, <3>1
        <3> HIDE DEF s
        <3> QED BY <3>1, <3>2 DEF Unsizing, EarlyStep, Sizing
    <2>5. q = [i \in 1..Len(taskList) |-> q[i]]
        BY <2>2
    <2> HIDE DEF q
    <2>6. q \in Seq(Unsizing)
        <3> HIDE DEF Unsizing
        <3>1. q \in [1..Len(taskList) -> Unsizing]
            BY <2>4, <2>5
        <3> QED BY <2>2, <3>1
    <2>7. a \in Seq(Unsizing)
        BY <2>6, UnsizingParts
    <2> HIDE DEF a
    <2>8. InitDsgus \in Seq(StepType) /\ Opening(InitDsgus, "solved", {})
        BY OpeningInit
    <2>9. Opening(r, "solved", {})
        BY <2>7, <2>8, OpeningThen
    <2> QED BY <2>1, <2>9
<1> QED BY <1>1, <1>2

\* A call of a method.
LEMMA BeforeCall ==
    ASSUME Proved!TypeOK, TaskInv, Before, CallMethod
    PROVE  Before'
<1>1. managerSizes = None /\ extra = None /\ (\A g \in Groups : EarlyGroup(g)) /\ Opening(todo, stage, AskedToReduce)
    BY DEF Before
<1>2. todo = <<>> /\ UNCHANGED <<managerSizes, extra, status, toWorker, phase, statusMsgs, handler, workerTasks,
                                 current, spaces>>
    BY DEF CallMethod, Call, CallReschedule, protocolVars, gridVars
<1>3. stage = "start"
    BY <1>1, <1>2 DEF Opening
<1>4. AskedToReduce = {}
    BY <1>1, <1>3 DEF Opening
<1>5. \A g \in Groups : EarlyGroup(g)' /\ (Unreduced(g)' <=> Unreduced(g))
    BY <1>1, <1>2, EarlyStill
<1>6. AskedToReduce' = {}
    BY <1>4, <1>5 DEF AskedToReduce
<1>7. PICK op : Call(op)
    BY <1>3 DEF CallMethod, CallReschedule
<1>8. op \in {"updateCombiParameters", "runfirst"} /\ todo' = Script(op) /\ stage' = StageAfter(op)
    BY <1>3, <1>7 DEF Call, Allowed
<1>9. taskList \in Seq(Tasks)
    BY DEF TaskInv
<1>10. StageAfter("runfirst") = "solved" /\ StageAfter("updateCombiParameters") = "start"
    BY <1>3 DEF StageAfter
<1>11. Opening(todo', stage', {})
    BY <1>8, <1>9, <1>10, OpeningScripts
<1>12. Opening(todo, stage, AskedToReduce)'
    BY <1>6, <1>11 DEF Opening
<1> QED BY <1>1, <1>2, <1>5, <1>12 DEF Before

\* The tasks of a group that executes INIT_DSGUS, with nothing more to do, are those the manager
\* has in its list.
LEMMA SizingLists ==
    ASSUME NEW g \in Groups, Proved!GroupInv(g), phase[g] = "running", current[g].sig = "INIT_DSGUS",
           toWorker[g] = <<>>
    PROVE  managerTasks[g] = workerTasks[g]
<1> DEFINE c == current[g]
<1>1. Proved!Pending(g) = <<c>>
    BY DEF Proved!Pending
<1>2. Len(Proved!Pending(g)) = 1 /\ Proved!Pending(g)[1] = c /\ Proved!Pending(g) # <<>>
    BY <1>1
<1>3. c.sig = "INIT_DSGUS" /\ phase[g] = "running"
    OBVIOUS
<1> HIDE DEF c
<1>4. g \notin closed
    BY <1>2, <1>3 DEF Proved!GroupInv, Proved!ClosedEnds
<1>5. ~Proved!Removing(g)
    <2> SUFFICES ASSUME Proved!Removing(g) PROVE FALSE
        OBVIOUS
    <2>1. awaiting.group = g /\ awaiting.sig = "RESCHEDULE_REMOVE_TASK"
        BY DEF Proved!Removing
    <2>2. Proved!RequestPending(g)
        BY <1>2, <2>1 DEF Proved!GroupInv, Proved!Answered, Proved!RequestAnswered
    <2>3. c = [sig |-> awaiting.sig, task |-> awaiting.task]
        BY <1>2, <2>2 DEF Proved!RequestPending
    <2> QED BY <1>3, <2>1, <2>3
<1>6. Proved!Expected(g) = managerTasks[g]
    BY <1>4, <1>5 DEF Proved!Expected
<1>7. PICK h : Proved!Follows(h, Proved!Pending(g), workerTasks[g], managerTasks[g])
    BY <1>6 DEF Proved!GroupInv, Proved!ListsAgree
<1>8. h[1] = workerTasks[g] /\ h[2] = managerTasks[g] /\ h[2] = Proved!TasksAfter(c, h[1])
    BY <1>2, <1>7 DEF Proved!Follows
<1>9. Proved!TasksAfter(c, h[1]) = h[1]
    BY <1>3 DEF Proved!TasksAfter, Proved!TaskSignals
<1> QED BY <1>8, <1>9

\* The first collective is the first reduction, and all groups have the subspaces of their tasks.
LEMMA FirstReduction ==
    ASSUME Proved!TypeOK, Shapes, Exch, Before, Collective
    PROVE  /\ ReduceSubspaceSizes
           /\ \A g \in Groups : /\ handler[g] # <<>> /\ Head(handler[g]) = "reduceSizes"
                                /\ Upcoming(g) = "reduceSizes" /\ Upcoming(g)' = "none"
                                /\ phase[g] = "running" /\ current[g].sig = "INIT_DSGUS"
                                /\ toWorker[g] = <<>> /\ ToSet(workerTasks[g]) \subseteq spaces[g]
<1>1. Handling /\ \A g \in Groups : EarlyGroup(g)
    BY DEF Exch, Before
<1>2. PICK x \in {"reduceSizes", "reduceGlobal", "reduceValues"} :
        \A g \in Groups : /\ phase[g] = "running" /\ handler[g] # <<>> /\ Upcoming(g) = x
                          /\ After(current[g].sig, x, Upcoming(g)')
    BY <1>1, CollectiveNext
<1>3. \A g \in Groups : current[g].sig = "INIT_DSGUS"
    BY <1>1, <1>2 DEF EarlyGroup
<1>4. \A g \in Groups : x = "reduceSizes" /\ Upcoming(g)' = "none"
    BY <1>2, <1>3 DEF After
<1>5. x = "reduceSizes" /\ TLGroup \in Groups
    BY <1>4, ManagerAssumption
<1>6. \A g \in Groups : Head(handler[g]) = "reduceSizes"
    BY <1>2, <1>5 DEF Upcoming, FirstOf
<1>7. ReduceSubspaceSizes
    BY <1>5, <1>6 DEF Collective, ReduceGlobal, ReduceValues, At
<1>8. ASSUME NEW g \in Groups PROVE toWorker[g] = <<>>
    <2>1. toWorker[g] \in Seq(PG!Command) /\ Len(toWorker[g]) \in Nat
        BY CommandTypes, LenProperties
    <2>2. PG!Running(g) = 1 /\ statusMsgs[g] \in Nat
        BY <1>2 DEF PG!Running, Proved!TypeOK
    <2>3. PG!Load(g) <= 1
        BY <1>1 DEF EarlyGroup
    <2>4. Len(toWorker[g]) = 0
        BY <2>1, <2>2, <2>3 DEF PG!Load
    <2> QED BY <2>1, <2>4, EmptySeq
<1>9. \A g \in Groups : ToSet(workerTasks[g]) \subseteq spaces[g]
    BY <1>1, <1>2, <1>5 DEF EarlyGroup
<1> QED BY <1>2, <1>3, <1>4, <1>5, <1>6, <1>7, <1>8, <1>9

\* No task is still to be sent.
LEMMA NoneComing ==
    ASSUME NEW s, NEW U, U # {}, Opening(todo, s, U)
    PROVE  s # "start" /\ Coming(todo) = {} /\ NoStep(todo, {"exchangeDsgus"})
<1>1. s # "start" /\ \A i \in 1..Len(todo) : todo[i].do # "assign" /\ EarlyStep(todo[i])
    BY DEF Opening, NoStep
<1>2. \A i \in 1..Len(todo) : todo[i].do \in {"waitAll", "assign", "send"}
    BY <1>1 DEF EarlyStep, Sizing
<1>3. \A i \in 1..Len(todo) : todo[i].do \notin {"assign", "add", "exchangeDsgus"}
    BY <1>1, <1>2
<1> QED BY <1>1, <1>3 DEF Coming, NoStep

\* The sizes are reduced for the first time.
LEMMA BeforeCollective ==
    ASSUME Proved!TypeOK, \A g \in Groups : Proved!GroupInv(g), TaskInv, Shapes, Together, Exch,
           DOMAIN spaces = Groups, Before, Collective
    PROVE  Settled'
<1> DEFINE V == UNION {spaces[h] : h \in Groups}
<1>1. /\ ReduceSubspaceSizes
      /\ \A g \in Groups : /\ handler[g] # <<>> /\ Head(handler[g]) = "reduceSizes"
                           /\ Upcoming(g) = "reduceSizes" /\ Upcoming(g)' = "none"
                           /\ phase[g] = "running" /\ current[g].sig = "INIT_DSGUS"
                           /\ toWorker[g] = <<>> /\ ToSet(workerTasks[g]) \subseteq spaces[g]
    BY FirstReduction
<1>2. /\ \A g \in Groups : spaces'[g] = V
      /\ UNCHANGED <<managerSizes, extra, todo, bcasts>>
    BY <1>1 DEF ReduceSubspaceSizes, managerSide, methodVars, commVars
<1>3. \A g \in Groups : bcasts[g] = <<>>
    <2>1. PICK S \in Seq(Collectives), pos \in [Groups -> Nat] : Behind(S, pos) /\ \A g \in Groups : OnWay(S, g, pos[g])
        BY DEF Together
    <2> QED BY <1>1, <2>1, AllMeet
<1>4. stage # "start" /\ Coming(todo) = {} /\ NoStep(todo, {"exchangeDsgus"})
    <2>1. Opening(todo, stage, AskedToReduce)
        BY DEF Before
    <2>2. TLGroup \in AskedToReduce
        BY <1>1, ManagerAssumption DEF AskedToReduce, Unreduced
    <2>3. AskedToReduce # {}
        BY <2>2
    <2> HIDE DEF V
    <2> QED BY <2>1, <2>3, NoneComing
<1>5. Tasks \subseteq V
    <2> SUFFICES ASSUME NEW t \in Tasks PROVE t \in V
        OBVIOUS
    <2>1. Held(t)
        BY <1>4 DEF TaskInv
    <2>2. PICK g \in Groups : \E i \in DOMAIN managerTasks[g] : managerTasks[g][i] = t
        BY <2>1 DEF Held
    <2>3. managerTasks[g] = workerTasks[g]
        BY <1>1, SizingLists
    <2>4. t \in ToSet(workerTasks[g])
        BY <2>2, <2>3 DEF ToSet
    <2>5. t \in spaces[g]
        BY <1>1, <2>4
    <2> QED BY <2>5
<1>6. TLGroup \in Groups /\ Upcoming(TLGroup)' = "none"
    BY <1>1, ManagerAssumption
<1> HIDE DEF V
<1>7. Tasks \subseteq spaces'[TLGroup]
    BY <1>2, <1>5, <1>6
<1>8. Announced'
    <2> SUFFICES ASSUME NEW g \in Groups \ {TLGroup}
                 PROVE  (/\ \A i \in 0..Len(bcasts[g]) : Tasks \subseteq SizesAt(g, i)
                         /\ \A i \in 1..Len(bcasts[g]) :
                                bcasts[g][i].kind = "dsg" => SizesAt(g, i) = SizesAt(g, i - 1)
                         /\ Upcoming(TLGroup) # "bcastSizes" =>
                                SizesAt(g, Len(bcasts[g])) = spaces[TLGroup])'
        BY DEF Announced
    <2>1. Len(bcasts[g])' = 0
        BY <1>2, <1>3
    <2>2. SizesAt(g, 0)' = V /\ spaces'[TLGroup] = V
        BY <1>2, <1>6 DEF SizesAt
    <2>3. SizesAt(g, Len(bcasts[g]))' = V
        BY <1>2, <2>1 DEF SizesAt
    <2>4. \A i \in 0..Len(bcasts[g])' : i = 0
        BY <2>1
    <2>5. \A i \in 0..Len(bcasts[g])' : Tasks \subseteq SizesAt(g, i)'
        <3> SUFFICES ASSUME NEW i \in 0..Len(bcasts[g])' PROVE Tasks \subseteq SizesAt(g, i)'
            OBVIOUS
        <3>1. SizesAt(g, i)' = V
            BY <1>2, <2>4 DEF SizesAt
        <3> QED BY <1>5, <3>1
    <2>6. \A i \in 1..Len(bcasts[g])' : FALSE
        BY <2>1
    <2> QED BY <2>2, <2>3, <2>5, <2>6
<1>9. managerSizes' = None /\ extra' = None /\ NoStep(todo', {"exchangeDsgus"})
    BY <1>2, <1>4 DEF Before
<1>10. Agreed'
    <2>1. Upcoming(TLGroup)' \notin Scatters
        BY <1>6 DEF Scatters
    <2> QED BY <1>6, <1>9, <2>1 DEF Agreed
<1> QED BY <1>7, <1>8, <1>10 DEF Settled

\* The remote system, and nothing.
LEMMA BeforeRest ==
    ASSUME Before, RemoteFileArrives \/ UNCHANGED vars
    PROVE  Before'
<1>1. UNCHANGED <<managerSizes, extra, todo, stage, status, toWorker, phase, statusMsgs, handler, workerTasks,
                  current, spaces>>
    BY DEF RemoteFileArrives, vars, managerSide, protocolVars, methodVars, workerVars, gridVars
<1>2. \A g \in Groups : EarlyGroup(g)' /\ (Unreduced(g)' <=> Unreduced(g))
    BY <1>1, EarlyStill DEF Before
<1>3. AskedToReduce' = AskedToReduce
    BY <1>2 DEF AskedToReduce
<1>4. Opening(todo, stage, AskedToReduce)'
    BY <1>1, <1>3 DEF Before, Opening
<1> QED BY <1>1, <1>2, <1>4 DEF Before

\* Nothing but the first reduction ends the time before it.
LEMMA BeforeNext ==
    ASSUME Proved!TypeOK, \A g \in Groups : Proved!GroupInv(g), TaskInv, Shapes, Together, Exch,
           DOMAIN spaces = Groups, Before, [Next]_vars
    PROVE  Before' \/ Settled'
<1>1. CASE ManagerStep
    <2>1. todo \in Seq(StepType)
        BY DEF TaskInv
    <2>2. todo # <<>>
        BY <1>1, <2>1, ManagerWays
    <2> QED BY <1>1, <2>1, <2>2, BeforeManager
<1>2. CASE CallMethod
    BY <1>2, BeforeCall
<1>3. CASE Collective
    BY <1>3, BeforeCollective
<1>4. ASSUME NEW g \in Groups, ReceiveSignal(g) PROVE Before'
    BY <1>4, BeforeReceive
<1>5. ASSUME NEW g \in Groups, HandlerStep(g) PROVE Before'
    BY <1>5, BeforeHandler
<1>6. ASSUME NEW g \in Groups, Execute(g) \/ SendStatus(g) \/ DeliverStatus(g) PROVE Before'
    BY <1>6, BeforeStatus
<1>7. CASE RemoteFileArrives \/ UNCHANGED vars
    BY <1>7, BeforeRest
<1> QED BY <1>1, <1>2, <1>3, <1>4, <1>5, <1>6, <1>7 DEF Next, WorkerStep

\* At the start.
LEMMA InitBefore == Init => Before /\ DOMAIN spaces = Groups
<1> SUFFICES ASSUME Init PROVE Before /\ DOMAIN spaces = Groups
    OBVIOUS
<1>1. /\ todo = <<>> /\ stage = "start" /\ managerSizes = None /\ extra = None
      /\ spaces = [g \in Groups |-> {}] /\ handler = [g \in Groups |-> <<>>]
    BY DEF Init
<1>2. \A g \in Groups : toWorker[g] = <<>> /\ statusMsgs[g] = 0 /\ phase[g] = "idle"
    BY DEF Init, PG!Init
<1>3. ASSUME NEW g \in Groups PROVE EarlyGroup(g) /\ ~Unreduced(g)
    <2>1. toWorker[g] = <<>> /\ Len(toWorker[g]) = 0 /\ handler[g] = <<>> /\ phase[g] = "idle" /\ statusMsgs[g] = 0
        BY <1>1, <1>2
    <2>2. PG!Load(g) = 0
        BY <2>1 DEF PG!Load, PG!Running
    <2>3. Upcoming(g) = "none"
        BY <2>1 DEF Upcoming, FirstOf
    <2> QED BY <2>1, <2>2, <2>3 DEF EarlyGroup, Unreduced
<1>4. AskedToReduce = {}
    BY <1>3 DEF AskedToReduce
<1>5. Len(todo) = 0
    BY <1>1
<1>6. Opening(todo, stage, AskedToReduce)
    BY <1>1, <1>4, <1>5 DEF Opening
<1> QED BY <1>1, <1>3, <1>6 DEF Before

\* The sizes at any time.
SizesInv == DOMAIN spaces = Groups /\ (Before \/ Settled)

\* The next step of the method.
LEMMA HeadThen ==
    ASSUME todo \in Seq(StepType), Head(todo \o WaitAll).do = "exchangeDsgus"
    PROVE  todo # <<>> /\ Head(todo \o WaitAll) = Head(todo) /\ Head(todo) = todo[1] /\ 1 \in 1..Len(todo)
<1> DEFINE w == Step("waitAll", None, None, None)
           v == <<w>>
           r == todo \o v
<1>1. "waitAll" \in Kinds /\ None \in Sigs
    BY SigsIn DEF Kinds, PlainKinds
<1>2. w \in StepType /\ w.do = "waitAll"
    BY ONLY <1>1, StepParts
<1>3. r = todo \o WaitAll
    BY DEF WaitAll
<1> HIDE DEF w
<1>4. v \in Seq(StepType) /\ Len(v) = 1 /\ v[1] = w
    BY <1>2
<1> HIDE DEF v
<1>5. /\ r \in Seq(StepType) /\ Len(r) = Len(todo) + Len(v) /\ Len(todo) \in Nat
      /\ (\A i \in 1..Len(todo) : r[i] = todo[i])
      /\ \A i \in 1..Len(v) : r[Len(todo) + i] = v[i]
    <2>1. todo \in Seq(StepType)
        OBVIOUS
    <2>2. v \in Seq(StepType)
        BY <1>4
    <2>3. /\ todo \o v \in Seq(StepType) /\ Len(todo \o v) = Len(todo) + Len(v) /\ Len(todo) \in Nat
          /\ (\A i \in 1..Len(todo) : (todo \o v)[i] = todo[i])
          /\ \A i \in 1..Len(v) : (todo \o v)[Len(todo) + i] = v[i]
        BY ONLY <2>1, <2>2, ConcatParts
    <2> QED BY <2>3
<1> HIDE DEF r
<1>6. Head(r) = r[1]
    <2>1. Len(r) # 0
        BY <1>4, <1>5
    <2>2. r # <<>>
        BY <1>5, <2>1, EmptySeq
    <2> QED BY <1>5, <2>2, HeadTailProperties
<1>7. Head(r).do = "exchangeDsgus"
    BY <1>3
<1>8. Len(todo) # 0
    <2> SUFFICES ASSUME Len(todo) = 0 PROVE FALSE
        OBVIOUS
    <2>1. 1 \in 1..Len(v) /\ Len(todo) + 1 = 1
        BY <1>4
    <2>2. r[1] = w
        BY <1>4, <1>5, <2>1
    <2> QED BY <1>2, <1>6, <1>7, <2>2
<1>9. todo # <<>> /\ 1 \in 1..Len(todo)
    BY <1>5, <1>8, EmptySeq
<1>10. Head(todo) = todo[1]
    BY <1>9, HeadTailProperties
<1> QED BY <1>3, <1>5, <1>6, <1>9, <1>10

\* Before the first reduction nothing is reduced, broadcast or exchanged.
LEMMA EarlySizes ==
    ASSUME todo \in Seq(StepType), Shapes, Exch, Before
    PROVE  SizesMatch
<1>1. Handling /\ (\A g \in Groups : EarlyGroup(g)) /\ Opening(todo, stage, AskedToReduce)
    BY DEF Exch, Before
<1>2. ASSUME NEW g \in Groups PROVE ~At(g, "reduceGlobal") /\ ~At(g, "takeDsg")
    <2> SUFFICES ASSUME handler[g] # <<>>, Head(handler[g]) \in {"reduceGlobal", "takeDsg"} PROVE FALSE
        BY DEF At
    <2>1. Upcoming(g) = Head(handler[g]) /\ Upcoming(g) # "none"
        BY DEF Upcoming, FirstOf
    <2>2. current[g].sig = "INIT_DSGUS"
        BY <1>1 DEF EarlyGroup
    <2>3. After(current[g].sig, Upcoming(g), FirstOf(Tail(handler[g])))
        BY <1>1, <2>1, UpcomingFacts
    <2> QED BY <2>1, <2>2, <2>3 DEF After
<1>3. Head(todo \o WaitAll).do # "exchangeDsgus"
    <2> SUFFICES ASSUME Head(todo \o WaitAll).do = "exchangeDsgus" PROVE FALSE
        OBVIOUS
    <2>1. 1 \in 1..Len(todo) /\ todo[1].do = "exchangeDsgus"
        BY HeadThen
    <2>2. EarlyStep(todo[1])
        BY <1>1, <2>1 DEF Opening
    <2> QED BY <2>1, <2>2 DEF EarlyStep, Sizing
<1> QED BY <1>2, <1>3 DEF SizesMatch

\* After it all sizes agree where they must.
LEMMA LateSizes ==
    ASSUME todo \in Seq(StepType), Shapes, Together, Exch, Settled
    PROVE  SizesMatch
<1>0. Announced /\ Agreed /\ OnTheWire /\ CollectivesMatch /\ TLGroup \in Groups
    BY CollectivesRight, ManagerAssumption DEF Settled, Exch
<1>1. PICK S \in Seq(Collectives), pos \in [Groups -> Nat] : Behind(S, pos)
    BY DEF Together
<1>2. bcasts[TLGroup] = <<>>
    BY <1>1 DEF Behind
<1>3. ASSUME NEW g \in Groups, bcasts[g] # <<>>
      PROVE  /\ Len(bcasts[g]) \in Nat /\ 1 \in 1..Len(bcasts[g]) /\ Head(bcasts[g]) = bcasts[g][1]
             /\ bcasts[g][1].kind \in {"dsg", "sizes"}
    <2>1. PICK M : bcasts \in [Groups -> Seq(M)]
        BY <1>1 DEF Behind
    <2>2. bcasts[g] \in Seq(M)
        BY <2>1
    <2>3. Len(bcasts[g]) \in Nat /\ 1 \in 1..Len(bcasts[g]) /\ Head(bcasts[g]) = bcasts[g][1]
        <3>1. Len(bcasts[g]) \in Nat /\ Len(bcasts[g]) # 0
            BY <1>3, <2>2, LenProperties, EmptySeq
        <3>2. Head(bcasts[g]) = bcasts[g][1]
            BY <1>3, <2>2, HeadTailProperties
        <3> QED BY <3>1, <3>2
    <2>4. bcasts[g][1].kind = S[pos[g] + 1] /\ S[pos[g] + 1] \in {"dsg", "sizes"}
        BY <1>1, <2>3 DEF Behind
    <2> QED BY <2>3, <2>4
<1>4. ASSUME NEW g \in Groups, At(g, "reduceGlobal") PROVE spaces[g] = spaces[TLGroup]
    <2> SUFFICES ASSUME g # TLGroup PROVE spaces[g] = spaces[TLGroup]
        OBVIOUS
    <2>1. NextCollective(g) = "reduceGlobal"
        BY <1>4, StepTable DEF At, NextCollective
    <2>2. bcasts[g] = <<>>
        <3> SUFFICES ASSUME bcasts[g] # <<>> PROVE FALSE
            OBVIOUS
        <3>1. Head(bcasts[g]).kind = "reduceGlobal"
            BY <1>0, <2>1 DEF CollectivesMatch
        <3> QED BY <1>3, <3>1
    <2>3. Upcoming(TLGroup) # "bcastSizes"
        <3> SUFFICES ASSUME Upcoming(TLGroup) = "bcastSizes" PROVE FALSE
            OBVIOUS
        <3>1. NextCollective(TLGroup) = "sizes"
            BY StepTable DEF NextCollective, Upcoming, FirstOf
        <3>2. /\ g \in {k \in Groups : NextCollective(k) # "none" /\ bcasts[k] = <<>>}
              /\ TLGroup \in {k \in Groups : NextCollective(k) # "none" /\ bcasts[k] = <<>>}
            BY <1>0, <1>2, <2>1, <2>2, <3>1
        <3>3. NextCollective(g) = NextCollective(TLGroup)
            BY <1>0, <3>2 DEF CollectivesMatch
        <3> QED BY <2>1, <3>1, <3>3
    <2>4. SizesAt(g, Len(bcasts[g])) = spaces[TLGroup]
        BY <1>0, <2>3 DEF Announced
    <2>5. Len(bcasts[g]) = 0
        BY <2>2
    <2> QED BY <2>4, <2>5 DEF SizesAt
<1>5. ASSUME NEW g \in Groups, At(g, "takeDsg"), bcasts[g] # <<>>
      PROVE  Head(bcasts[g]).sizes = spaces[g]
    <2>1. g # TLGroup
        BY <1>2, <1>5
    <2>2. NextCollective(g) = "dsg"
        BY <1>5, StepTable DEF At, NextCollective
    <2>3. Head(bcasts[g]).kind = "dsg"
        BY <1>0, <1>5, <2>2 DEF CollectivesMatch
    <2>4. 1 \in 1..Len(bcasts[g]) /\ Head(bcasts[g]) = bcasts[g][1]
        BY <1>3, <1>5
    <2>5. SizesAt(g, 1) = SizesAt(g, 1 - 1)
        BY <1>0, <2>1, <2>3, <2>4 DEF Announced
    <2>6. SizesAt(g, 1) = bcasts[g][1].sizes /\ SizesAt(g, 1 - 1) = spaces[g]
        BY DEF SizesAt
    <2> QED BY <2>4, <2>5, <2>6
<1>6. ASSUME Head(todo \o WaitAll).do = "exchangeDsgus", wire.to = "manager"
      PROVE  wire.sizes = managerSizes
    <2>1. 1 \in 1..Len(todo) /\ todo[1].do = "exchangeDsgus"
        BY <1>6, HeadThen
    <2>2. managerSizes # None
        BY <1>0, <2>1 DEF Agreed, NoStep
    <2>3. Upcoming(TLGroup) \in Answers
        BY <1>0, <1>6, NoneAssumption DEF OnTheWire
    <2>4. Upcoming(TLGroup) \notin Scatters
        BY <1>0, <1>6, <2>2 DEF Agreed
    <2>5. Upcoming(TLGroup) = "recvDsg"
        BY <2>3, <2>4 DEF Answers, Scatters
    <2> QED BY <1>0, <1>6, <2>2, <2>4, <2>5 DEF Agreed
<1> QED BY <1>4, <1>5, <1>6 DEF SizesMatch

\* The groups reduce and broadcast sparse grids of the same size, and the manager receives as much
\* sparse grid data as the third level group sends: MPI_Allreduce and MPI_Bcast are called with the
\* same length everywhere, over all the methods and however far the groups are apart (the sizes are
\* changed by the reduction at the start and by the exchange with the remote system, which reaches
\* the groups one after the other), and receiveDsguFromWorker's buffer is as long as the message.
THEOREM SizesAlwaysMatch == Spec => []SizesMatch
<1> DEFINE Side == Proved!ProtocolInv /\ Proved!EachTaskOnce /\ Proved!CarriedAreListed /\ TaskInv
           Inv == Side /\ Shapes /\ Together /\ Exch /\ SizesInv
<1>1. Init => Inv
    <2> SUFFICES ASSUME Init PROVE Inv
        OBVIOUS
    <2>1. Proved!Init
        BY InitSimulation
    <2>2. Proved!TypeOK /\ \A g \in Groups : Proved!GroupInv(g)
        BY <2>1, ProvedAssumption, Proved!InitType, Proved!InitGroupInv
    <2>3. Proved!EachTaskOnce /\ Proved!CarriedAreListed
        BY <2>1, ProvedAssumption, Proved!InitOnce, Proved!InitCarried
    <2>4. TaskInv /\ Shapes /\ Together /\ Exch
        BY TaskInit, TogetherInit, InitExch
    <2>5. SizesInv
        BY InitBefore DEF SizesInv
    <2> QED BY <2>2, <2>3, <2>4, <2>5 DEF Proved!ProtocolInv
<1>2. Inv /\ [Next]_vars => Inv'
    <2> SUFFICES ASSUME Inv, [Next]_vars PROVE Inv'
        OBVIOUS
    <2>1. [Proved!Next]_(Proved!vars)
        BY StepSimulation
    <2>2. Proved!TypeOK /\ \A g \in Groups : Proved!GroupInv(g)
        BY DEF Proved!ProtocolInv
    <2>3. Proved!TypeOK' /\ \A g \in Groups : Proved!GroupInv(g)'
        BY <2>1, <2>2, ProvedAssumption, Proved!NextType, Proved!NextGroupInv
    <2>4. Proved!EachTaskOnce' /\ Proved!CarriedAreListed'
        BY <2>1, <2>2, ProvedAssumption, Proved!NextOnce, Proved!NextCarried
    <2>5. TaskInv'
        BY <2>2, TaskNext
    <2>6. Shapes' /\ Together'
        BY <2>2, NextTogether
    <2>7. Exch'
        BY <2>2, NextExch
    <2>8. SizesInv'
        <3>1. DOMAIN spaces = Groups /\ (Before \/ Settled)
            BY DEF SizesInv
        <3>2. DOMAIN spaces' = Groups
            BY <3>1, SizesThere
        <3>3. CASE Before
            BY <2>2, <3>1, <3>2, <3>3, BeforeNext DEF SizesInv
        <3>4. CASE Settled
            BY <2>2, <3>1, <3>2, <3>4, SettledNext DEF SizesInv
        <3> QED BY <3>1, <3>3, <3>4
    <2> QED BY <2>3, <2>4, <2>5, <2>6, <2>7, <2>8 DEF Proved!ProtocolInv
<1>3. Inv => SizesMatch
    <2> SUFFICES ASSUME Inv PROVE SizesMatch
        OBVIOUS
    <2>1. todo \in Seq(StepType)
        BY DEF TaskInv
    <2> QED BY <2>1, EarlySizes, LateSizes DEF SizesInv
<1> HIDE DEF Inv
<1> QED BY <1>1, <1>2, <1>3, PTL DEF Spec
=============================================================================
