------------------------- MODULE ProcessManager_proofs -------------------------
(***************************************************************************)
(* ProcessManager keeps to the command protocol, and what is proved about  *)
(* the protocol holds in it; its methods send commands to waiting groups   *)
(* only, and lose no task.                                                 *)
(*                                                                         *)
(* PG is the protocol as ProcessManager uses it, Proved the same module    *)
(* together with its theorems.                                             *)
(***************************************************************************)
EXTENDS ProcessManager, TLAPS, SequenceTheorems, FiniteSetTheorems, WellFoundedInduction

Proved == INSTANCE ProcessGroup_proofs

-----------------------------------------------------------------------------
\* The two instances of the protocol are the same.

\* The operators the protocol's actions are built from.
LEMMA SameOperators ==
    /\ PG!NotAwaiting = Proved!NotAwaiting /\ PG!NoCommand = Proved!NoCommand
    /\ PG!TaskSignals = Proved!TaskSignals /\ PG!CheckedSignals = Proved!CheckedSignals
    /\ PG!UncheckedSignals = Proved!UncheckedSignals /\ PG!NormSignals = Proved!NormSignals
    /\ PG!Assigned = Proved!Assigned
    /\ \A g : PG!Load(g) = Proved!Load(g) /\ PG!Running(g) = Proved!Running(g)
    /\ \A s, e : PG!Contains(s, e) <=> Proved!Contains(s, e)
    /\ \A s, e : PG!RemoveFirst(s, e) = Proved!RemoveFirst(s, e)
<1>1. PG!NotAwaiting = Proved!NotAwaiting /\ PG!NoCommand = Proved!NoCommand
    BY DEF PG!NotAwaiting, Proved!NotAwaiting, PG!NoCommand, Proved!NoCommand
<1>2. PG!TaskSignals = Proved!TaskSignals /\ PG!CheckedSignals = Proved!CheckedSignals
      /\ PG!UncheckedSignals = Proved!UncheckedSignals /\ PG!NormSignals = Proved!NormSignals
    BY DEF PG!TaskSignals, Proved!TaskSignals, PG!CheckedSignals, Proved!CheckedSignals,
       PG!UncheckedSignals, Proved!UncheckedSignals, PG!NormSignals, Proved!NormSignals
<1>3. PG!Assigned = Proved!Assigned
    BY DEF PG!Assigned, Proved!Assigned, PG!ToSet, Proved!ToSet
<1>4. ASSUME NEW g PROVE PG!Load(g) = Proved!Load(g) /\ PG!Running(g) = Proved!Running(g)
    BY DEF PG!Load, Proved!Load, PG!Running, Proved!Running
<1>5. ASSUME NEW s, NEW e PROVE PG!Contains(s, e) <=> Proved!Contains(s, e)
    BY DEF PG!Contains, Proved!Contains
<1>6. ASSUME NEW s, NEW e PROVE PG!RemoveFirst(s, e) = Proved!RemoveFirst(s, e)
    BY DEF PG!RemoveFirst, Proved!RemoveFirst, PG!RemoveAt, Proved!RemoveAt,
       PG!SelectInSeq, Proved!SelectInSeq, PG!Min, Proved!Min
<1> QED
    BY <1>1, <1>2, <1>3, <1>4, <1>5, <1>6

\* Sending and posting.
LEMMA SameSending ==
    ASSUME NEW g, NEW sig, NEW t
    PROVE  /\ PG!CanSend(g, sig) <=> Proved!CanSend(g, sig)
           /\ PG!Send(g, sig, t) <=> Proved!Send(g, sig, t)
           /\ PG!SetProcessGroupBusyAndReceive(g) <=> Proved!SetProcessGroupBusyAndReceive(g)
<1>1. PG!CanSend(g, sig) <=> Proved!CanSend(g, sig)
    BY SameOperators DEF PG!CanSend, Proved!CanSend
<1>2. PG!Send(g, sig, t) <=> Proved!Send(g, sig, t)
    BY DEF PG!Send, Proved!Send
<1>3. PG!SetProcessGroupBusyAndReceive(g) <=> Proved!SetProcessGroupBusyAndReceive(g)
    BY DEF PG!SetProcessGroupBusyAndReceive, Proved!SetProcessGroupBusyAndReceive
<1> QED
    BY <1>1, <1>2, <1>3

\* The manager's commands are steps of the protocol.
LEMMA ManagerSteps ==
    ASSUME NEW g \in Groups
    PROVE  /\ \A sig, t : t \in Tasks /\ PG!StoreTaskReferenceAndSend(g, sig, t) => Proved!Next
           /\ PG!RunNext(g) => Proved!Next
           /\ \A sig : PG!SendSignalAndReceive(g, sig) => Proved!Next
           /\ \A sig : PG!SendUnchecked(g, sig) => Proved!Next
           /\ \A sig : PG!GetLpNorms(g, sig) => Proved!Next
           /\ \A t \in Tasks : PG!RescheduleRemoveTask(g, t) => Proved!Next
           /\ PG!Exit(g) => Proved!Next
           /\ PG!ReceiveReply(g) => Proved!Next
<1> USE SameOperators, SameSending
    DEF PG!managerVars, Proved!managerVars, PG!channelVars, Proved!channelVars,
        PG!workerVars, Proved!workerVars
<1>0. Proved!ManagerStep(g) => Proved!Next
    BY DEF Proved!Next
<1>1. ASSUME NEW sig, NEW t \in Tasks, PG!StoreTaskReferenceAndSend(g, sig, t) PROVE Proved!Next
    <2>1. Proved!StoreTaskReferenceAndSend(g, sig, t)
        BY <1>1 DEF PG!StoreTaskReferenceAndSend, Proved!StoreTaskReferenceAndSend
    <2>2. sig \in Proved!TaskSignals
        BY <1>1 DEF PG!StoreTaskReferenceAndSend
    <2> QED BY <1>0, <2>1, <2>2 DEF Proved!ManagerStep
<1>2. ASSUME PG!RunNext(g) PROVE Proved!Next
    <2>1. Proved!RunNext(g)
        BY <1>2 DEF PG!RunNext, Proved!RunNext
    <2> QED BY <1>0, <2>1 DEF Proved!ManagerStep
<1>3. ASSUME NEW sig, PG!SendSignalAndReceive(g, sig) PROVE Proved!Next
    <2>1. Proved!SendSignalAndReceive(g, sig) /\ sig \in Proved!CheckedSignals
        BY <1>3 DEF PG!SendSignalAndReceive, Proved!SendSignalAndReceive
    <2> QED BY <1>0, <2>1 DEF Proved!ManagerStep
<1>4. ASSUME NEW sig, PG!SendUnchecked(g, sig) PROVE Proved!Next
    <2>1. Proved!SendUnchecked(g, sig) /\ sig \in Proved!UncheckedSignals
        BY <1>4 DEF PG!SendUnchecked, Proved!SendUnchecked
    <2> QED BY <1>0, <2>1 DEF Proved!ManagerStep
<1>5. ASSUME NEW sig, PG!GetLpNorms(g, sig) PROVE Proved!Next
    <2>1. Proved!GetLpNorms(g, sig) /\ sig \in Proved!NormSignals
        BY <1>5 DEF PG!GetLpNorms, Proved!GetLpNorms
    <2> QED BY <1>0, <2>1 DEF Proved!ManagerStep
<1>6. ASSUME NEW t \in Tasks, PG!RescheduleRemoveTask(g, t) PROVE Proved!Next
    <2>1. Proved!RescheduleRemoveTask(g, t)
        BY <1>6 DEF PG!RescheduleRemoveTask, Proved!RescheduleRemoveTask
    <2> QED BY <1>0, <2>1 DEF Proved!ManagerStep
<1>7. ASSUME PG!Exit(g) PROVE Proved!Next
    <2>1. Proved!Exit(g)
        BY <1>7 DEF PG!Exit, Proved!Exit
    <2> QED BY <1>0, <2>1 DEF Proved!ManagerStep
<1>8. ASSUME PG!ReceiveReply(g) PROVE Proved!Next
    <2>1. Proved!ReceiveReply(g)
        BY <1>8 DEF PG!ReceiveReply, Proved!ReceiveReply
    <2> QED BY <1>0, <2>1 DEF Proved!ManagerStep
<1> QED
    BY <1>1, <1>2, <1>3, <1>4, <1>5, <1>6, <1>7, <1>8

\* So are the steps of the groups and the delivery of a status.
LEMMA GroupSteps ==
    ASSUME NEW g \in Groups
    PROVE  /\ PG!DeliverStatus(g) => Proved!Next
           /\ PG!ReceiveSignal(g) => Proved!Next
           /\ PG!Execute(g) => Proved!Next
           /\ PG!SendStatus(g) => Proved!Next
<1> USE SameOperators
    DEF PG!managerVars, Proved!managerVars, PG!channelVars, Proved!channelVars,
        PG!workerVars, Proved!workerVars
<1>1. ASSUME PG!DeliverStatus(g) PROVE Proved!Next
    <2>1. Proved!DeliverStatus(g)
        BY <1>1 DEF PG!DeliverStatus, Proved!DeliverStatus
    <2> QED BY <2>1 DEF Proved!Next
<1>2. ASSUME PG!ReceiveSignal(g) PROVE Proved!Next
    <2>1. Proved!ReceiveSignal(g)
        BY <1>2 DEF PG!ReceiveSignal, Proved!ReceiveSignal
    <2> QED BY <2>1 DEF Proved!Next, Proved!WorkerStep
<1>3. ASSUME PG!Execute(g) PROVE Proved!Next
    <2>1. \A c, s : PG!TasksAfter(c, s) = Proved!TasksAfter(c, s)
        BY DEF PG!TasksAfter, Proved!TasksAfter
    <2>2. \A c, s : PG!RepliesTo(c, s) = Proved!RepliesTo(c, s)
        BY DEF PG!RepliesTo, Proved!RepliesTo
    <2>3. Proved!Execute(g)
        BY <1>3, <2>1, <2>2 DEF PG!Execute, Proved!Execute
    <2> QED BY <2>3 DEF Proved!Next, Proved!WorkerStep
<1>4. ASSUME PG!SendStatus(g) PROVE Proved!Next
    <2>1. Proved!SendStatus(g)
        BY <1>4 DEF PG!SendStatus, Proved!SendStatus
    <2> QED BY <2>1 DEF Proved!Next, Proved!WorkerStep
<1> QED
    BY <1>1, <1>2, <1>3, <1>4

-----------------------------------------------------------------------------
\* The refinement.

\* Every step of the machine is one of the protocol or leaves the protocol's state alone.
LEMMA StepSimulation == [Next]_vars => [Proved!Next]_(Proved!vars)
<1> SUFFICES ASSUME [Next]_vars PROVE Proved!Next \/ UNCHANGED protocolVars
    BY DEF protocolVars, Proved!vars, Proved!managerVars, Proved!channelVars, Proved!workerVars
<1> USE DEF managerSide
<1>1. CASE UNCHANGED vars
    BY <1>1 DEF vars
<1>2. CASE CallMethod
    BY <1>2 DEF CallMethod, CallReschedule, Call
<1>3. CASE ManagerStep
    <2>1. ASSUME NEW g \in Groups,
                 \/ Runfirst(g) \/ Runnext(g) \/ SendCommand(g) \/ Request(g) \/ TakeReply(g)
                 \/ RescheduleAddTask(g)
          PROVE  Proved!Next \/ UNCHANGED protocolVars
        BY <2>1, ManagerSteps DEF Runfirst, Runnext, SendCommand, Request, TakeReply, RescheduleAddTask
    <2>2. CASE \/ WaitAllFinished \/ WaitForPG \/ RebuildTasks \/ FetchInstructionStep
               \/ ReduceSizes \/ ExchangeDsgus \/ TakeValues
        BY <2>2 DEF WaitAllFinished, WaitForPG, RebuildTasks, FetchInstructionStep, ReduceSizes,
           ExchangeDsgus, TakeValues
    <2> QED BY <1>3, <2>1, <2>2 DEF ManagerStep
<1>4. CASE Collective
    BY <1>4 DEF Collective, ReduceSubspaceSizes, ReduceGlobal, ReduceValues
<1>5. CASE RemoteFileArrives
    BY <1>5 DEF RemoteFileArrives
<1>6. ASSUME NEW g \in Groups, WorkerStep(g) \/ DeliverStatus(g)
      PROVE  Proved!Next \/ UNCHANGED protocolVars
    <2>1. CASE DeliverStatus(g) \/ ReceiveSignal(g) \/ Execute(g) \/ SendStatus(g)
        BY <2>1, GroupSteps DEF DeliverStatus, ReceiveSignal, Execute, SendStatus
    <2>2. CASE HandlerStep(g)
        BY <2>2 DEF HandlerStep, InitDsg, ReduceLocal, Distribute, SendDsg, RecvDsg, BcastDsg,
           WaitBcast, TakeDsg, GatherSizes, ScatterSizes, BcastSizes, TakeSizes, ZeroDsgsData,
           WriteDsg, ReadReduce, RemoveToken, SendValues
    <2> QED BY <1>6, <2>1, <2>2 DEF WorkerStep
<1> QED
    BY <1>1, <1>2, <1>3, <1>4, <1>5, <1>6 DEF Next

\* The machine starts as the protocol does.
LEMMA InitSimulation == Init => Proved!Init
BY SameOperators DEF Init, PG!Init, Proved!Init

\* What the theorems about the protocol assume.
LEMMA ProvedAssumption == Proved!UsedAssumption
BY ProtocolAssumption DEF PG!UsedAssumption, Proved!UsedAssumption

\* The manager's methods and the groups' handlers implement the command protocol, fairness apart:
\* whatever the collectives, files and third level do, commands, receives of statuses and replies
\* go the ways of ProcessGroup.
THEOREM RefinesProtocol == Spec => Proved!Init /\ [][Proved!Next]_(Proved!vars)
BY InitSimulation, StepSimulation, PTL DEF Spec

\* Through all methods, those that return while groups are at work included, the manager and the
\* groups agree on the tasks of every group that has executed its commands, and no reply is taken
\* for that to another request.
THEOREM ListsAndReplies == Spec => [](Proved!TypeOK /\ Proved!TasksAgree /\ Proved!ReplyAnswersTheRequest)
<1>1. Init => Proved!ProtocolInv
    <2>1. Proved!Init => Proved!TypeOK
        BY ProvedAssumption, Proved!InitType
    <2>2. Proved!Init => \A g \in Groups : Proved!GroupInv(g)
        BY ProvedAssumption, Proved!InitGroupInv
    <2> QED BY <2>1, <2>2, InitSimulation DEF Proved!ProtocolInv
<1>2. Proved!ProtocolInv /\ [Next]_vars => Proved!ProtocolInv'
    <2>1. Proved!TypeOK /\ [Proved!Next]_(Proved!vars) => Proved!TypeOK'
        BY ProvedAssumption, Proved!NextType
    <2>2. Proved!ProtocolInv /\ [Proved!Next]_(Proved!vars) => \A g \in Groups : Proved!GroupInv(g)'
        BY ProvedAssumption, Proved!NextGroupInv
    <2> QED BY <2>1, <2>2, StepSimulation DEF Proved!ProtocolInv
<1>3. Proved!ProtocolInv => Proved!TypeOK /\ Proved!TasksAgree /\ Proved!ReplyAnswersTheRequest
    BY ProvedAssumption, Proved!InvImpliesAgree, Proved!InvImpliesAnswer DEF Proved!ProtocolInv
<1> QED
    BY <1>1, <1>2, <1>3, PTL DEF Spec

\* No receive of a status is left over and none is missing after any sequence of methods.
THEOREM BalanceKept ==
    ASSUME "DO_DIAGNOSTICS" \notin Used
    PROVE  Spec => []Proved!CommandBalance
<1>1. Init => Proved!TypeOK /\ Proved!CommandBalance
    <2>1. Proved!Init => Proved!TypeOK
        BY ProvedAssumption, Proved!InitType
    <2>2. Proved!Init => Proved!CommandBalance
        BY ProvedAssumption, Proved!InitBalance
    <2> QED BY <2>1, <2>2, InitSimulation
<1>2. Proved!TypeOK /\ Proved!CommandBalance /\ [Next]_vars => (Proved!TypeOK /\ Proved!CommandBalance)'
    <2>1. Proved!TypeOK /\ [Proved!Next]_(Proved!vars) => Proved!TypeOK'
        BY ProvedAssumption, Proved!NextType
    <2>2. Proved!TypeOK /\ Proved!CommandBalance /\ [Proved!Next]_(Proved!vars) => Proved!CommandBalance'
        BY ProvedAssumption, Proved!NextBalance
    <2> QED BY <2>1, <2>2, StepSimulation
<1> QED
    BY <1>1, <1>2, PTL DEF Spec

-----------------------------------------------------------------------------
\* Sequences.

\* The order of the natural numbers.
NatLess == {ss \in Nat \X Nat : ss[1] < ss[2]}

\* A set of natural numbers that has 0 and with every number the next one has all.
LEMMA NatInd ==
    ASSUME NEW I, 0 \in I, \A n \in Nat : n \in I => n + 1 \in I
    PROVE  Nat \subseteq I
<1> SUFFICES ASSUME NEW m \in Nat, m \notin I PROVE FALSE
    OBVIOUS
<1> DEFINE J == Nat \ I
<1>1. IsWellFoundedOn(NatLess, Nat)
    BY NatLessThanWellFounded DEF OpToRel, NatLess
<1>2. PICK x \in J : \A y \in J : <<y, x>> \notin NatLess
    <2>1. J \subseteq Nat /\ J # {}
        OBVIOUS
    <2> HIDE DEF J
    <2> QED BY <1>1, <2>1, WFMin
<1>3. x \in Nat /\ x # 0
    OBVIOUS
<1>4. x - 1 \in Nat /\ x - 1 < x /\ (x - 1) + 1 = x
    BY <1>3
<1>5. x - 1 \in I
    BY <1>2, <1>4, <1>3 DEF NatLess
<1> QED BY <1>4, <1>5

\* The function FlattenSeq chooses exists, however long the sequence is.
LEMMA UnfoldsExists ==
    ASSUME NEW ss, NEW m \in Nat
    PROVE \E f : f = [i \in 1..m |-> IF i = 1 THEN ss[i] ELSE f[i - 1] \o ss[i]]
<1> DEFINE P(n) == \E f : f = [i \in 1..n |-> IF i = 1 THEN ss[i] ELSE f[i - 1] \o ss[i]]
           I == {n \in Nat : P(n)}
<1>1. P(0)
    <2> DEFINE f == [i \in 1..0 |-> ss[i]]
    <2>1. f = [i \in 1..0 |-> IF i = 1 THEN ss[i] ELSE f[i - 1] \o ss[i]]
       OBVIOUS
    <2> QED BY <2>1
<1>2. ASSUME NEW n \in Nat, P(n) PROVE P(n + 1)
    <2>1. PICK f : f = [i \in 1..n |-> IF i = 1 THEN ss[i] ELSE f[i - 1] \o ss[i]]
        BY <1>2
    <2> DEFINE h == [i \in 1..(n + 1) |-> IF i = n + 1 THEN (IF i = 1 THEN ss[i] ELSE f[i - 1] \o ss[i]) ELSE f[i]]
    <2>2. ASSUME NEW i \in 1..(n + 1) PROVE h[i] = IF i = 1 THEN ss[i] ELSE h[i - 1] \o ss[i]
        <3>1. CASE i = n + 1
            BY <3>1
        <3>2. CASE i \in 1..n
            <4>1. h[i] = f[i] /\ f[i] = IF i = 1 THEN ss[i] ELSE f[i - 1] \o ss[i]
                BY <2>1, <3>2
            <4>2. i # 1 => h[i - 1] = f[i - 1]
                BY <3>2
            <4> QED BY <4>1, <4>2
        <3> QED BY <3>1, <3>2
    <2>3. h = [i \in 1..(n + 1) |-> IF i = 1 THEN ss[i] ELSE h[i - 1] \o ss[i]]
        BY <2>2
    <2> HIDE DEF h
    <2> QED BY <2>3
<1>3. P(m)
    <2> HIDE DEF P
    <2>1. 0 \in I /\ \A n \in Nat : n \in I => n + 1 \in I
        BY <1>1, <1>2
    <2>2. m \in I
        <3> HIDE DEF I
        <3> QED BY <2>1, NatInd
    <2> QED BY <2>2
<1> QED BY <1>3

\* FlattenSeq is the last value of that function.
LEMMA FlattenUnfolds ==
    ASSUME NEW ss, NEW m \in Nat, Len(ss) = m, m # 0
    PROVE \E f : /\ \A i \in 1..m : f[i] = IF i = 1 THEN ss[i] ELSE f[i - 1] \o ss[i]
                 /\ FlattenSeq(ss) = f[m]
<1> DEFINE flatten == CHOOSE f : f = [i \in 1..m |-> IF i = 1 THEN ss[i] ELSE f[i - 1] \o ss[i]]
<1>1. FlattenSeq(ss) = flatten[m]
    BY DEF FlattenSeq
<1>2. flatten = [i \in 1..m |-> IF i = 1 THEN ss[i] ELSE flatten[i - 1] \o ss[i]]
    BY UnfoldsExists
<1> HIDE DEF flatten
<1>3. \A i \in 1..m : flatten[i] = IF i = 1 THEN ss[i] ELSE flatten[i - 1] \o ss[i]
    BY <1>2
<1> QED BY <1>1, <1>3

\* Nothing to concatenate.
LEMMA FlattenEmpty == FlattenSeq(<<>>) = <<>>
BY DEF FlattenSeq

\* One sequence more.
LEMMA FlattenAppend ==
    ASSUME NEW S, NEW ss \in Seq(Seq(S)), NEW s \in Seq(S)
    PROVE  FlattenSeq(Append(ss, s)) = FlattenSeq(ss) \o s
<1> DEFINE tt == Append(ss, s)
           n == Len(ss)
<1>2. n \in Nat /\ Len(tt) = n + 1 /\ tt[n + 1] = s /\ \A i \in 1..n : tt[i] = ss[i]
    BY AppendProperties
<1> HIDE DEF tt
<1>3. PICK f : (\A i \in 1..(n + 1) : f[i] = IF i = 1 THEN tt[i] ELSE f[i - 1] \o tt[i]) /\ FlattenSeq(tt) = f[n + 1]
    BY <1>2, FlattenUnfolds
<1>4. CASE n = 0
    <2>1. ss = <<>>
        BY <1>4, EmptySeq
    <2>2. FlattenSeq(tt) = s
        BY <1>2, <1>3, <1>4
    <2> QED BY <2>1, <2>2, FlattenEmpty DEF tt
<1>5. CASE n # 0
    <2>1. PICK h : (\A i \in 1..n : h[i] = IF i = 1 THEN ss[i] ELSE h[i - 1] \o ss[i]) /\ FlattenSeq(ss) = h[n]
        BY <1>2, <1>5, FlattenUnfolds
    <2> DEFINE I == {i \in Nat : i \in 1..n => h[i] = f[i]}
    <2>2. 0 \in I
        OBVIOUS
    <2>3. ASSUME NEW i \in Nat, i \in I PROVE i + 1 \in I
        <3> SUFFICES ASSUME i + 1 \in 1..n PROVE h[i + 1] = f[i + 1]
            OBVIOUS
        <3>1. h[i + 1] = IF i + 1 = 1 THEN ss[i + 1] ELSE h[(i + 1) - 1] \o ss[i + 1]
            BY <2>1
        <3>2. f[i + 1] = IF i + 1 = 1 THEN tt[i + 1] ELSE f[(i + 1) - 1] \o tt[i + 1]
            BY <1>2, <1>3
        <3>3. i # 0 => h[i] = f[i]
            BY <2>3, <1>2
        <3>4. tt[i + 1] = ss[i + 1] /\ (i + 1) - 1 = i
            BY <1>2
        <3> QED BY <3>1, <3>2, <3>3, <3>4
    <2>4. h[n] = f[n]
        <3> HIDE DEF I
        <3>1. n \in I
            BY <2>2, <2>3, NatInd, <1>2
        <3> QED BY <3>1, <1>2, <1>5 DEF I
    <2>5. f[n + 1] = f[n] \o s
        <3>1. f[n + 1] = IF n + 1 = 1 THEN tt[n + 1] ELSE f[(n + 1) - 1] \o tt[n + 1]
            BY <1>2, <1>3
        <3>2. n + 1 # 1 /\ (n + 1) - 1 = n
            BY <1>2, <1>5
        <3> QED BY <3>1, <3>2, <1>2
    <2>6. FlattenSeq(tt) = FlattenSeq(ss) \o s
        BY <2>1, <2>4, <2>5, <1>2, <1>3
    <2> QED BY <2>6 DEF tt
<1> QED BY <1>4, <1>5

\* A set of sequences that has the empty one and with every sequence its extensions has all.
LEMMA SeqInd ==
    ASSUME NEW T, NEW I, <<>> \in I,
           \A s \in Seq(T), e \in T : s \in I => Append(s, e) \in I
    PROVE  Seq(T) \subseteq I
<1> DEFINE P(n) == \A s \in Seq(T) : Len(s) = n => s \in I
           J == {n \in Nat : P(n)}
<1>1. P(0)
    BY EmptySeq
<1>2. ASSUME NEW n \in Nat, P(n) PROVE P(n + 1)
    <2> SUFFICES ASSUME NEW s \in Seq(T), Len(s) = n + 1 PROVE s \in I
        OBVIOUS
    <2> DEFINE r == SubSeq(s, 1, n)
    <2>1. s[n + 1] \in T /\ \A i \in 1..n : s[i] \in T
        BY ElementOfSeq
    <2>2. r \in Seq(T) /\ Len(r) = n /\ \A i \in 1..n : r[i] = s[i]
        BY <2>1, SubSeqProperties
    <2> HIDE DEF r
    <2>3. s = Append(r, s[n + 1])
        <3>1. Append(r, s[n + 1]) \in Seq(T) /\ Len(Append(r, s[n + 1])) = n + 1
            BY <2>1, <2>2, AppendProperties
        <3>2. \A i \in 1..(n + 1) : Append(r, s[n + 1])[i] = s[i]
            BY <2>1, <2>2, AppendProperties
        <3> QED BY <3>1, <3>2, SeqEqual
    <2> QED BY <1>2, <2>1, <2>2, <2>3
<1>3. 0 \in J /\ \A n \in Nat : n \in J => n + 1 \in J
    BY <1>1, <1>2
<1>4. Nat \subseteq J
    <2> HIDE DEF J
    <2> QED BY <1>3, NatInd
<1> QED BY <1>4

\* What the empty sequence has and concatenation keeps, a flattened sequence has.
LEMMA FlattenIn ==
    ASSUME NEW S, NEW C, C \subseteq Seq(S), <<>> \in C, \A s, t \in C : s \o t \in C,
           NEW ss \in Seq(C)
    PROVE  FlattenSeq(ss) \in C
<1> DEFINE I == {tt \in Seq(C) : FlattenSeq(tt) \in C}
<1>1. <<>> \in I
    BY FlattenEmpty
<1>2. ASSUME NEW tt \in Seq(C), NEW t \in C, tt \in I PROVE Append(tt, t) \in I
    <2>1. tt \in Seq(Seq(S)) /\ t \in Seq(S)
        BY ElementOfSeq
    <2>2. FlattenSeq(Append(tt, t)) = FlattenSeq(tt) \o t
        BY <2>1, FlattenAppend
    <2> QED BY <1>2, <2>2, AppendProperties
<1>3. Seq(C) \subseteq I
    <2> HIDE DEF I
    <2> QED BY <1>1, <1>2, SeqInd
<1> QED BY <1>3

\* The parts of a concatenation.
LEMMA ConcatParts ==
    ASSUME NEW T, NEW s \in Seq(T), NEW t \in Seq(T)
    PROVE  /\ s \o t \in Seq(T) /\ Len(s) \in Nat /\ Len(t) \in Nat
           /\ Len(s \o t) = Len(s) + Len(t)
           /\ \A i \in 1..Len(s) : (s \o t)[i] = s[i]
           /\ \A i \in 1..Len(t) : (s \o t)[Len(s) + i] = t[i]
BY ConcatProperties, LenProperties

\* One element more.
LEMMA OneMore ==
    ASSUME NEW T, NEW s \in Seq(T), NEW e \in T
    PROVE  /\ s \o <<e>> \in Seq(T) /\ Len(s) \in Nat /\ Len(s \o <<e>>) = Len(s) + 1
           /\ \A i \in 1..Len(s) : (s \o <<e>>)[i] = s[i]
           /\ (s \o <<e>>)[Len(s) + 1] = e
BY AppendIsConcat, AppendProperties, LenProperties

\* The elements of a finite set in some order.
LEMMA SetToSeqRight ==
    ASSUME NEW S, IsFiniteSet(S)
    PROVE  /\ SetToSeq(S) \in Seq(S) /\ Len(SetToSeq(S)) = Cardinality(S)
           /\ IsInjective(SetToSeq(S)) /\ ToSet(SetToSeq(S)) = S
<1> DEFINE n == Cardinality(S)
           f == SetToSeq(S)
<1>1. n \in Nat /\ ExistsBijection(1..n, S)
    BY FS_CardinalityType
<1>2. PICK b : b \in Bijection(1..n, S)
    BY <1>1 DEF ExistsBijection
<1>3. b \in [1..n -> S] /\ IsInjective(b)
    BY <1>2 DEF Bijection, Injection
<1>4. f \in [1..n -> S] /\ IsInjective(f)
    BY <1>3 DEF SetToSeq
<1> HIDE DEF f
<1>5. f \in Injection(1..n, S)
    BY <1>4 DEF Injection
<1>6. IsFiniteSet(1..n) /\ Cardinality(1..n) = n
    BY <1>1, FS_Interval
<1>7. f \in Surjection(1..n, S)
    BY <1>5, <1>6, FS_Injection
<1>8. ToSet(f) = S
    BY <1>4, <1>7 DEF Surjection, ToSet
<1>9. f \in Seq(S) /\ Len(f) = n
    BY <1>1, <1>4
<1> QED BY <1>4, <1>8, <1>9 DEF f

\* A sequence that has every element of a set once is as long as the set is large.
LEMMA OnceEach ==
    ASSUME NEW S, NEW s \in Seq(S), ToSet(s) = S, IsInjective(s)
    PROVE  Len(s) = Cardinality(S)
<1>1. Len(s) \in Nat /\ s \in [1..Len(s) -> S] /\ DOMAIN s = 1..Len(s)
    BY LenProperties
<1>2. s \in Bijection(1..Len(s), S)
    BY <1>1 DEF Bijection, Injection, Surjection, ToSet
<1>3. ExistsBijection(1..Len(s), S)
    BY <1>2 DEF ExistsBijection
<1> QED BY <1>1, <1>3, FS_CountingElements

\* Sequences without a common or a repeated element.
Disjoint(ss) ==
    \A k, l \in DOMAIN ss : \A i \in DOMAIN ss[k], j \in DOMAIN ss[l] :
        ss[k][i] = ss[l][j] => k = l /\ i = j

\* Sequences without a common or a repeated element, one after the other.
LEMMA FlattenOnce ==
    ASSUME NEW T, NEW ss \in Seq(Seq(T))
    PROVE  /\ FlattenSeq(ss) \in Seq(T)
           /\ ToSet(FlattenSeq(ss)) = UNION {ToSet(ss[k]) : k \in DOMAIN ss}
           /\ Disjoint(ss) => IsInjective(FlattenSeq(ss))
<1> DEFINE Good(tt) == /\ FlattenSeq(tt) \in Seq(T)
                       /\ ToSet(FlattenSeq(tt)) = UNION {ToSet(tt[k]) : k \in DOMAIN tt}
                       /\ Disjoint(tt) => IsInjective(FlattenSeq(tt))
           I == {tt \in Seq(Seq(T)) : Good(tt)}
<1>1. <<>> \in I
    <2>1. FlattenSeq(<<>>) = <<>> /\ <<>> \in Seq(T) /\ <<>> \in Seq(Seq(T)) /\ DOMAIN <<>> = {}
        BY FlattenEmpty
    <2>2. ToSet(<<>>) = {} /\ IsInjective(<<>>)
        BY DEF ToSet, IsInjective
    <2> QED BY <2>1, <2>2
<1>2. ASSUME NEW tt \in Seq(Seq(T)), NEW t \in Seq(T), tt \in I PROVE Append(tt, t) \in I
    <2> DEFINE u == Append(tt, t)
               f == FlattenSeq(tt)
               n == Len(tt)
    <2>1. /\ n \in Nat /\ u \in Seq(Seq(T)) /\ DOMAIN tt = 1..n /\ DOMAIN u = 1..(n + 1) /\ u[n + 1] = t
          /\ \A k \in 1..n : u[k] = tt[k]
        BY AppendProperties, LenProperties
    <2>2. f \in Seq(T) /\ ToSet(f) = UNION {ToSet(tt[k]) : k \in DOMAIN tt} /\ (Disjoint(tt) => IsInjective(f))
        BY <1>2
    <2>3. FlattenSeq(u) = f \o t
        BY FlattenAppend
    <2> HIDE DEF u, f, n
    <2>4. /\ f \o t \in Seq(T) /\ Len(f) \in Nat /\ Len(t) \in Nat
          /\ Len(f \o t) = Len(f) + Len(t)
          /\ \A i \in 1..Len(f) : (f \o t)[i] = f[i]
          /\ \A i \in 1..Len(t) : (f \o t)[Len(f) + i] = t[i]
        BY <2>2, ConcatParts
    <2>5. DOMAIN f = 1..Len(f) /\ DOMAIN t = 1..Len(t) /\ DOMAIN (f \o t) = 1..(Len(f) + Len(t))
        BY <2>2, <2>4, LenProperties
    <2>50. \A i \in 1..(Len(f) + Len(t)) : i \in 1..Len(f) \/ \E j \in 1..Len(t) : i = Len(f) + j
        <3> SUFFICES ASSUME NEW i \in 1..(Len(f) + Len(t)), i \notin 1..Len(f)
                     PROVE  \E j \in 1..Len(t) : i = Len(f) + j
            OBVIOUS
        <3>1. i - Len(f) \in 1..Len(t) /\ i = Len(f) + (i - Len(f))
            BY <2>4
        <3> QED BY <3>1
    <2>6. ToSet(f \o t) = ToSet(f) \cup ToSet(t)
        <3>1. \A x \in ToSet(f \o t) : x \in ToSet(f) \cup ToSet(t)
            <4> SUFFICES ASSUME NEW i \in 1..(Len(f) + Len(t))
                         PROVE  (f \o t)[i] \in ToSet(f) \cup ToSet(t)
                BY <2>5 DEF ToSet
            <4>1. CASE i \in 1..Len(f)
                BY <4>1, <2>4, <2>5 DEF ToSet
            <4>2. CASE \E j \in 1..Len(t) : i = Len(f) + j
                BY <4>2, <2>4, <2>5 DEF ToSet
            <4> QED BY <4>1, <4>2, <2>50
        <3>2. \A i \in 1..Len(f) : i \in 1..(Len(f) + Len(t))
            BY <2>4
        <3>3. \A i \in 1..Len(t) : Len(f) + i \in 1..(Len(f) + Len(t))
            BY <2>4
        <3>4. \A x \in ToSet(f) : x \in ToSet(f \o t)
            BY <2>4, <2>5, <3>2 DEF ToSet
        <3>5. \A x \in ToSet(t) : x \in ToSet(f \o t)
            <4> SUFFICES ASSUME NEW i \in 1..Len(t) PROVE t[i] \in ToSet(f \o t)
                BY <2>5 DEF ToSet
            <4>1. (f \o t)[Len(f) + i] = t[i] /\ Len(f) + i \in DOMAIN (f \o t)
                BY <2>4, <2>5, <3>3
            <4> QED BY <4>1 DEF ToSet
        <3> QED BY <3>1, <3>4, <3>5
    <2>7. ToSet(f) \cup ToSet(t) = UNION {ToSet(u[k]) : k \in DOMAIN u}
        <3>1. \A k \in DOMAIN u : k \in 1..n \/ k = n + 1
            BY <2>1
        <3>2. n + 1 \in DOMAIN u /\ \A k \in 1..n : k \in DOMAIN u
            BY <2>1
        <3> QED BY <2>1, <2>2, <3>1, <3>2
    <2>8. ASSUME Disjoint(u) PROVE IsInjective(f \o t)
        <3>1. Disjoint(tt)
            <4> SUFFICES ASSUME NEW k \in DOMAIN tt, NEW l \in DOMAIN tt,
                                NEW i \in DOMAIN tt[k], NEW j \in DOMAIN tt[l], tt[k][i] = tt[l][j]
                         PROVE  k = l /\ i = j
                BY DEF Disjoint
            <4>1. k \in DOMAIN u /\ l \in DOMAIN u /\ u[k] = tt[k] /\ u[l] = tt[l]
                BY <2>1
            <4> QED BY <2>8, <4>1 DEF Disjoint
        <3>2. IsInjective(f)
            BY <2>2, <3>1
        <3>3. n + 1 \in DOMAIN u /\ \A k \in 1..n : k \in DOMAIN u /\ k # n + 1
            BY <2>1
        <3>4. \A i, j \in DOMAIN t : t[i] = t[j] => i = j
            <4> DEFINE k == n + 1
            <4>1. k \in DOMAIN u /\ u[k] = t
                BY <2>1, <3>3
            <4> HIDE DEF k
            <4>2. \A i, j \in DOMAIN u[k] : u[k][i] = u[k][j] => i = j
                BY <2>8, <4>1 DEF Disjoint
            <4> QED BY <4>1, <4>2
        <3>5. ASSUME NEW i \in DOMAIN f, NEW j \in DOMAIN t PROVE f[i] # t[j]
            <4>1. f[i] \in ToSet(f)
                BY DEF ToSet
            <4>2. PICK k \in 1..n : f[i] \in ToSet(tt[k])
                BY <2>1, <2>2, <4>1
            <4>3. PICK l \in DOMAIN tt[k] : f[i] = tt[k][l]
                BY <4>2 DEF ToSet
            <4>4. /\ k \in DOMAIN u /\ n + 1 \in DOMAIN u /\ k # n + 1
                  /\ u[k] = tt[k] /\ u[n + 1] = t
                BY <2>1, <3>3
            <4>5. u[k][l] # u[n + 1][j]
                BY <2>8, <4>3, <4>4 DEF Disjoint
            <4> QED BY <4>3, <4>4, <4>5
        <3>6. ASSUME NEW i \in DOMAIN (f \o t), NEW j \in DOMAIN (f \o t), (f \o t)[i] = (f \o t)[j]
              PROVE  i = j
            <4>1. i \in 1..(Len(f) + Len(t)) /\ j \in 1..(Len(f) + Len(t))
                BY <2>5
            <4>2. CASE i \in 1..Len(f) /\ j \in 1..Len(f)
                BY <2>4, <2>5, <3>2, <3>6, <4>2 DEF IsInjective
            <4>3. CASE i \in 1..Len(f) /\ j \notin 1..Len(f)
                <5>1. PICK l \in 1..Len(t) : j = Len(f) + l
                    BY <2>50, <4>1, <4>3
                <5> QED BY <2>4, <2>5, <3>5, <3>6, <4>3, <5>1
            <4>4. CASE i \notin 1..Len(f) /\ j \in 1..Len(f)
                <5>1. PICK l \in 1..Len(t) : i = Len(f) + l
                    BY <2>50, <4>1, <4>4
                <5> QED BY <2>4, <2>5, <3>5, <3>6, <4>4, <5>1
            <4>5. CASE i \notin 1..Len(f) /\ j \notin 1..Len(f)
                <5>1. PICK l \in 1..Len(t) : i = Len(f) + l
                    BY <2>50, <4>1, <4>5
                <5>2. PICK m \in 1..Len(t) : j = Len(f) + m
                    BY <2>50, <4>1, <4>5
                <5>3. t[l] = t[m]
                    BY <2>4, <3>6, <5>1, <5>2
                <5> QED BY <2>5, <3>4, <5>1, <5>2, <5>3
            <4> QED BY <4>2, <4>3, <4>4, <4>5
        <3> QED BY <3>6 DEF IsInjective
    <2>9. Good(u)
        BY <2>3, <2>4, <2>6, <2>7, <2>8
    <2> QED BY <2>1, <2>9 DEF u
<1>3. Seq(Seq(T)) \subseteq I
    <2> HIDE DEF I
    <2> QED BY <1>1, <1>2, SeqInd
<1> QED BY <1>3

-----------------------------------------------------------------------------
\* The steps of a method and the groups they find waiting.

\* The steps that neither give, take nor list tasks.
PlainKinds ==
    {"send", "runNext", "exit", "sendUnchecked", "norms", "reply", "waitAll", "waitFor",
     "fetchInstruction", "exchangeDsgus", "reduceSizes", "reduceExtraSizes", "takeValues"}

\* All the steps.
Kinds == PlainKinds \cup {"assign", "add", "remove", "rebuildTasks"}

\* The commands of the steps.
Sigs == PG!Signals \cup {None}

\* The steps of the methods.
StepType == [do : Kinds, group : Groups \cup {None}, sig : Sigs, task : Tasks \cup {None}]

\* The steps of the methods that leave the tasks where they are.
Plain == {s \in StepType : s.do \in PlainKinds}

\* The step waits until the manager reads WAIT for the group.
Awaits(s, g) == s.do = "waitAll" \/ (s.do = "waitFor" /\ s.group = g)

\* The step may make the group busy.
Busies(s, g) == s.do = "assign" \/ (s.group = g /\ s.do # "waitFor")

\* When the groups of W are known to wait before the steps, g is before the i-th one:
\* a step, or the start, has found it waiting and nothing has been sent to it since.
Known(seq, W, i, g) ==
    \E j \in 0..(i - 1) :
        /\ IF j = 0 THEN g \in W ELSE Awaits(seq[j], g)
        /\ \A k \in (j + 1)..(i - 1) : ~Busies(seq[k], g)

\* Every step that asserts a waiting group has one.
Safe(seq, W) ==
    \A i \in 1..Len(seq) : seq[i].do \in Checked =>
        seq[i].group \in Groups /\ Known(seq, W, i, seq[i].group)

\* All groups are known to wait at the end.
Ends(seq, W) == \A g \in Groups : Known(seq, W, Len(seq) + 1, g)

\* What is known of a group in the second part of a sequence.
LEMMA KnownThen ==
    ASSUME NEW T, NEW s \in Seq(T), NEW t \in Seq(T), NEW W, NEW V, NEW g,
           g \in V => Known(s, W, Len(s) + 1, g),
           NEW i \in 1..(Len(t) + 1), Known(t, V, i, g)
    PROVE  Known(s \o t, W, Len(s) + i, g)
<1>1. /\ Len(s) \in Nat /\ Len(t) \in Nat
      /\ \A k \in 1..Len(s) : (s \o t)[k] = s[k]
      /\ \A k \in 1..Len(t) : (s \o t)[Len(s) + k] = t[k]
    BY ConcatProperties, LenProperties
<1> DEFINE n == Len(s)
           u == s \o t
<1>0. n \in Nat
    BY <1>1
<1> HIDE DEF n, u
<1>2. PICK j \in 0..(i - 1) :
        /\ IF j = 0 THEN g \in V ELSE Awaits(t[j], g)
        /\ \A k \in (j + 1)..(i - 1) : ~Busies(t[k], g)
    BY DEF Known
<1>3. \A k \in (n + j + 1)..((n + i) - 1) : ~Busies(u[k], g)
    <2> SUFFICES ASSUME NEW k \in (n + j + 1)..((n + i) - 1) PROVE ~Busies(u[k], g)
        OBVIOUS
    <2>1. k - n \in (j + 1)..(i - 1) /\ k - n \in 1..Len(t) /\ n + (k - n) = k
        BY <1>1 DEF n
    <2>2. u[k] = t[k - n]
        BY <1>1, <2>1 DEF n, u
    <2> QED BY <1>2, <2>1, <2>2
<1>4. CASE j # 0
    <2>1. u[n + j] = t[j] /\ n + j \in 0..((n + i) - 1) /\ n + j # 0
        BY <1>1, <1>4 DEF n, u
    <2>2. Awaits(u[n + j], g)
        BY <1>2, <1>4, <2>1
    <2>3. Known(u, W, n + i, g)
        <3>1. IF n + j = 0 THEN g \in W ELSE Awaits(u[n + j], g)
            BY <2>1, <2>2
        <3>2. \E l \in 0..((n + i) - 1) : /\ IF l = 0 THEN g \in W ELSE Awaits(u[l], g)
                                        /\ \A k \in (l + 1)..((n + i) - 1) : ~Busies(u[k], g)
            BY <1>3, <2>1, <3>1
        <3> QED BY <3>2 DEF Known
    <2> QED BY <2>3 DEF n, u
<1>5. CASE j = 0
    <2>1. PICK l \in 0..n :
            /\ IF l = 0 THEN g \in W ELSE Awaits(s[l], g)
            /\ \A k \in (l + 1)..n : ~Busies(s[k], g)
        <3>1. Known(s, W, n + 1, g)
            BY <1>2, <1>5 DEF n
        <3>2. (n + 1) - 1 = n
            BY <1>1 DEF n
        <3> QED BY <3>1, <3>2 DEF Known
    <2>2. \A k \in (l + 1)..((n + i) - 1) : ~Busies(u[k], g)
        <3> SUFFICES ASSUME NEW k \in (l + 1)..((n + i) - 1) PROVE ~Busies(u[k], g)
            OBVIOUS
        <3>1. CASE k \in 1..n
            <4>1. u[k] = s[k] /\ k \in (l + 1)..n
                BY <3>1, <1>1 DEF n, u
            <4> QED BY <2>1, <4>1
        <3>2. CASE k \in (n + 1)..((n + i) - 1)
            <4>1. k \in (n + j + 1)..((n + i) - 1)
                BY <1>0, <1>5, <3>2
            <4> QED BY <1>3, <4>1
        <3> QED BY <3>1, <3>2, <1>1 DEF n
    <2>3. l # 0 => u[l] = s[l]
        BY <1>1, <2>1 DEF n, u
    <2>4. l \in 0..((n + i) - 1) /\ (IF l = 0 THEN g \in W ELSE Awaits(u[l], g))
        BY <2>1, <2>3, <1>1 DEF n
    <2> QED BY <2>2, <2>4 DEF Known, n, u
<1> QED BY <1>4, <1>5

\* What is known of a group in the first part of a sequence.
LEMMA KnownBefore ==
    ASSUME NEW T, NEW s \in Seq(T), NEW t \in Seq(T), NEW W, NEW g,
           NEW i \in 1..(Len(s) + 1), Known(s, W, i, g)
    PROVE  Known(s \o t, W, i, g)
<1>1. Len(s) \in Nat /\ \A k \in 1..Len(s) : (s \o t)[k] = s[k]
    BY ConcatProperties, LenProperties
<1>2. PICK j \in 0..(i - 1) :
        /\ IF j = 0 THEN g \in W ELSE Awaits(s[j], g)
        /\ \A k \in (j + 1)..(i - 1) : ~Busies(s[k], g)
    BY DEF Known
<1>3. \A k \in 1..(i - 1) : (s \o t)[k] = s[k]
    BY <1>1
<1>4. \A k \in (j + 1)..(i - 1) : ~Busies((s \o t)[k], g)
    BY <1>2, <1>3
<1>5. IF j = 0 THEN g \in W ELSE Awaits((s \o t)[j], g)
    BY <1>2, <1>3
<1> QED BY <1>4, <1>5 DEF Known

\* A safe sequence, and one that is safe by what the first leaves behind.
LEMMA SafeThen ==
    ASSUME NEW T, NEW s \in Seq(T), NEW t \in Seq(T), NEW W, NEW V, V \subseteq Groups,
           Safe(s, W), Safe(t, V), \A g \in V : Known(s, W, Len(s) + 1, g)
    PROVE  s \o t \in Seq(T) /\ Safe(s \o t, W)
<1>1. /\ s \o t \in Seq(T) /\ Len(s) \in Nat /\ Len(t) \in Nat
      /\ Len(s \o t) = Len(s) + Len(t)
      /\ \A k \in 1..Len(s) : (s \o t)[k] = s[k]
      /\ \A k \in 1..Len(t) : (s \o t)[Len(s) + k] = t[k]
    BY ConcatProperties, LenProperties
<1> SUFFICES ASSUME NEW i \in 1..(Len(s) + Len(t)), (s \o t)[i].do \in Checked
             PROVE  (s \o t)[i].group \in Groups /\ Known(s \o t, W, i, (s \o t)[i].group)
    BY <1>1 DEF Safe
<1>2. CASE i \in 1..Len(s)
    <2>1. (s \o t)[i] = s[i]
        BY <1>1, <1>2
    <2>2. s[i].group \in Groups /\ Known(s, W, i, s[i].group)
        BY <1>2, <2>1 DEF Safe
    <2> QED BY <1>1, <1>2, <2>1, <2>2, KnownBefore
<1>3. CASE i \notin 1..Len(s)
    <2> DEFINE m == i - Len(s)
    <2>1. m \in 1..Len(t) /\ i = Len(s) + m
        BY <1>1, <1>3
    <2> HIDE DEF m
    <2>2. (s \o t)[i] = t[m]
        BY <1>1, <2>1
    <2>3. t[m].group \in Groups /\ Known(t, V, m, t[m].group)
        BY <2>1, <2>2 DEF Safe
    <2>4. m \in 1..(Len(t) + 1)
        BY <2>1, <1>1
    <2>5. Known(s \o t, W, Len(s) + m, t[m].group)
        BY <2>3, <2>4, KnownThen
    <2> QED BY <2>1, <2>2, <2>3, <2>5
<1> QED BY <1>2, <1>3

\* More groups that wait at the start.
LEMMA KnownMore ==
    ASSUME NEW s, NEW W, NEW V, W \subseteq V, NEW i, NEW g, Known(s, W, i, g)
    PROVE  Known(s, V, i, g)
BY DEF Known

\* Likewise for the whole sequence.
LEMMA SafeMore ==
    ASSUME NEW s, NEW W, NEW V, W \subseteq V
    PROVE  (Safe(s, W) => Safe(s, V)) /\ (Ends(s, W) => Ends(s, V))
BY KnownMore DEF Safe, Ends

\* The rest of a sequence whose first step has been executed.
LEMMA KnownTail ==
    ASSUME NEW T, NEW s \in Seq(T), s # <<>>, NEW W, NEW V, NEW g,
           Awaits(s[1], g) => g \in V,
           g \in W /\ ~Busies(s[1], g) => g \in V,
           NEW i \in 1..Len(s), Known(s, W, i + 1, g)
    PROVE  Known(Tail(s), V, i, g)
<1>1. Len(s) \in Nat /\ Len(Tail(s)) = Len(s) - 1 /\ \A k \in 1..(Len(s) - 1) : Tail(s)[k] = s[k + 1]
    BY HeadTailProperties, LenProperties
<1>2. PICK j \in 0..i :
        /\ IF j = 0 THEN g \in W ELSE Awaits(s[j], g)
        /\ \A k \in (j + 1)..i : ~Busies(s[k], g)
    <2>1. (i + 1) - 1 = i
        OBVIOUS
    <2> QED BY <2>1 DEF Known
<1>3. CASE j \in {0, 1}
    <2>1. g \in V
        BY <1>2, <1>3
    <2>2. \A k \in 1..(i - 1) : ~Busies(Tail(s)[k], g)
        <3> SUFFICES ASSUME NEW k \in 1..(i - 1) PROVE ~Busies(Tail(s)[k], g)
            OBVIOUS
        <3>1. Tail(s)[k] = s[k + 1] /\ k + 1 \in (j + 1)..i
            BY <1>1, <1>3
        <3> QED BY <3>1, <1>2
    <2>3. 0 \in 0..(i - 1) /\ \A k \in (0 + 1)..(i - 1) : ~Busies(Tail(s)[k], g)
        BY <2>2
    <2> QED BY <2>1, <2>3 DEF Known
<1>4. CASE j \notin {0, 1}
    <2>1. j - 1 \in 0..(i - 1) /\ j - 1 # 0 /\ Tail(s)[j - 1] = s[j] /\ (j - 1) + 1 = j
        BY <1>1, <1>4
    <2>2. \A k \in j..(i - 1) : ~Busies(Tail(s)[k], g)
        <3> SUFFICES ASSUME NEW k \in j..(i - 1) PROVE ~Busies(Tail(s)[k], g)
            OBVIOUS
        <3>1. Tail(s)[k] = s[k + 1] /\ k + 1 \in (j + 1)..i
            BY <1>1, <1>4
        <3> QED BY <3>1, <1>2
    <2>3. Awaits(Tail(s)[j - 1], g)
        BY <1>2, <1>4, <2>1
    <2>4. \A k \in ((j - 1) + 1)..(i - 1) : ~Busies(Tail(s)[k], g)
        BY <2>1, <2>2
    <2> QED BY <2>1, <2>3, <2>4 DEF Known
<1> QED BY <1>3, <1>4

\* The rest is as safe, given what the first step finds out and sends.
LEMMA SafeTail ==
    ASSUME NEW T, NEW s \in Seq(T), s # <<>>, NEW W, NEW V,
           \A g \in Groups : (Awaits(s[1], g) => g \in V) /\ (g \in W /\ ~Busies(s[1], g) => g \in V)
    PROVE  /\ Tail(s) \in Seq(T)
           /\ Safe(s, W) => Safe(Tail(s), V)
           /\ Ends(s, W) => Ends(Tail(s), V)
<1>1. /\ Len(s) \in Nat \ {0} /\ Tail(s) \in Seq(T)
      /\ Len(Tail(s)) = Len(s) - 1 /\ \A k \in 1..(Len(s) - 1) : Tail(s)[k] = s[k + 1]
    BY HeadTailProperties, LenProperties, EmptySeq
<1>2. ASSUME Safe(s, W), NEW i \in 1..(Len(s) - 1), Tail(s)[i].do \in Checked
      PROVE  Tail(s)[i].group \in Groups /\ Known(Tail(s), V, i, Tail(s)[i].group)
    <2>1. Tail(s)[i] = s[i + 1] /\ i + 1 \in 1..Len(s) /\ i \in 1..Len(s)
        BY <1>1
    <2>2. s[i + 1].group \in Groups /\ Known(s, W, i + 1, s[i + 1].group)
        BY <1>2, <2>1 DEF Safe
    <2> QED BY <2>1, <2>2, KnownTail
<1>3. ASSUME Ends(s, W), NEW g \in Groups PROVE Known(Tail(s), V, Len(Tail(s)) + 1, g)
    <2>1. Len(Tail(s)) + 1 = Len(s) /\ Len(s) \in 1..Len(s)
        BY <1>1
    <2>2. Known(s, W, Len(s) + 1, g)
        BY <1>3 DEF Ends
    <2> QED BY <2>1, <2>2, KnownTail
<1> QED BY <1>1, <1>2, <1>3 DEF Safe, Ends

\* Plain steps that are safe whatever the groups do before.
Guarded == {s \in Seq(Plain) : Safe(s, {})}

\* Plain steps that are safe when all groups wait, and leave them waiting.
Method == {s \in Seq(Plain) : Safe(s, Groups) /\ Ends(s, Groups)}

\* All groups wait at the end of the second part.
LEMMA EndsThen ==
    ASSUME NEW T, NEW s \in Seq(T), NEW t \in Seq(T), NEW W
    PROVE  /\ Ends(t, {}) => Ends(s \o t, W)
           /\ Ends(s, W) /\ Ends(t, Groups) => Ends(s \o t, W)
<1>1. /\ s \o t \in Seq(T) /\ Len(s) \in Nat /\ Len(t) \in Nat
      /\ Len(s \o t) = Len(s) + Len(t) /\ Len(s \o t) + 1 = Len(s) + (Len(t) + 1)
      /\ Len(t) + 1 \in 1..(Len(t) + 1)
    BY ConcatProperties, LenProperties
<1>2. ASSUME NEW V, Ends(t, V), V = {} \/ (V = Groups /\ Ends(s, W)), NEW g \in Groups
      PROVE  Known(s \o t, W, Len(s \o t) + 1, g)
    <2>1. Known(t, V, Len(t) + 1, g)
        BY <1>2 DEF Ends
    <2>2. g \in V => Known(s, W, Len(s) + 1, g)
        BY <1>2 DEF Ends
    <2>3. Known(s \o t, W, Len(s) + (Len(t) + 1), g)
        BY <1>1, <2>1, <2>2, KnownThen
    <2> QED BY <1>1, <2>3
<1> QED BY <1>2 DEF Ends

\* Both kinds of sequences can be put together.
LEMMA Concat ==
    /\ <<>> \in Guarded /\ \A s, t \in Guarded : s \o t \in Guarded
    /\ <<>> \in Method /\ \A s, t \in Method : s \o t \in Method
<1>1. <<>> \in Seq(Plain) /\ Len(<<>>) = 0
    OBVIOUS
<1>2. Safe(<<>>, {}) /\ Safe(<<>>, Groups)
    BY <1>1 DEF Safe
<1>3. Ends(<<>>, Groups)
    BY <1>1 DEF Ends, Known
<1>4. ASSUME NEW s \in Guarded, NEW t \in Guarded PROVE s \o t \in Guarded
    BY SafeThen DEF Guarded
<1>5. ASSUME NEW s \in Method, NEW t \in Method PROVE s \o t \in Method
    <2>1. s \in Seq(Plain) /\ Safe(s, Groups) /\ Ends(s, Groups)
          /\ t \in Seq(Plain) /\ Safe(t, Groups) /\ Ends(t, Groups)
        BY DEF Method
    <2>2. s \o t \in Seq(Plain) /\ Safe(s \o t, Groups)
        BY <2>1, SafeThen DEF Ends
    <2>3. Ends(s \o t, Groups)
        BY <2>1, EndsThen
    <2> QED BY <2>2, <2>3 DEF Method
<1> QED BY <1>1, <1>2, <1>3, <1>4, <1>5 DEF Guarded, Method

\* Steps without a check.
LEMMA Unchecked ==
    ASSUME NEW s \in Seq(Plain), \A i \in 1..Len(s) : s[i].do \notin Checked
    PROVE  s \in Guarded
BY DEF Guarded, Safe

\* A group that waits still does when nothing was sent to it.
LEMMA Calm ==
    ASSUME NEW T, NEW s \in Seq(T), NEW g, NEW W, g \in W, \A k \in 1..Len(s) : ~Busies(s[k], g)
    PROVE  Known(s, W, Len(s) + 1, g)
<1>1. Len(s) \in Nat
    BY LenProperties
<1> QED BY <1>1 DEF Known

\* The commands the methods send are commands.
LEMMA SigsIn ==
    /\ None \in Sigs
    /\ PG!CheckedSignals \subseteq Sigs /\ PG!UncheckedSignals \subseteq Sigs
    /\ {"RUN_FIRST", "RUN_NEXT", "EXIT", "GET_L2_NORM", "RESCHEDULE_ADD_TASK",
        "RESCHEDULE_REMOVE_TASK"} \subseteq Sigs
BY DEF Sigs, PG!Signals, PG!TaskSignals, PG!NormSignals

\* waitForAllGroupsToWait.
LEMMA WaitAllKnown ==
    WaitAll \in Seq(Plain) /\ WaitAll \in Guarded /\ Ends(WaitAll, {}) /\ WaitAll \in Method
<1>1. Step("waitAll", None, None, None) \in Plain /\ Step("waitAll", None, None, None).do = "waitAll"
    BY SigsIn DEF Step, Plain, PlainKinds, StepType, Kinds
<1>2. WaitAll \in Seq(Plain) /\ Len(WaitAll) = 1 /\ WaitAll[1].do = "waitAll"
    BY <1>1 DEF WaitAll
<1>3. WaitAll \in Guarded
    BY <1>2, Unchecked DEF Checked
<1>4. Ends(WaitAll, {})
    BY <1>2 DEF Ends, Known, Awaits
<1>5. WaitAll \in Method
    BY <1>2, <1>3, <1>4, SafeMore DEF Method, Guarded
<1> QED BY <1>2, <1>3, <1>4, <1>5

\* Waiting for one group.
LEMMA WaitForKnown ==
    ASSUME NEW h \in Groups
    PROVE  /\ WaitFor(h) \in Seq(Plain) /\ WaitFor(h) \in Guarded /\ WaitFor(h) \in Method
           /\ Known(WaitFor(h), {}, Len(WaitFor(h)) + 1, h)
           /\ Len(WaitFor(h)) = 1 /\ \A g : ~Busies(WaitFor(h)[1], g)
<1> DEFINE s == Step("waitFor", h, None, None)
<1>1. s \in Plain /\ s.do = "waitFor" /\ s.group = h
    BY SigsIn DEF Step, Plain, PlainKinds, StepType, Kinds
<1>2. WaitFor(h) \in Seq(Plain) /\ Len(WaitFor(h)) = 1 /\ WaitFor(h)[1] = s
    BY <1>1 DEF WaitFor
<1> HIDE DEF s
<1>3. WaitFor(h) \in Guarded
    BY <1>1, <1>2, Unchecked DEF Checked
<1>4. Known(WaitFor(h), {}, Len(WaitFor(h)) + 1, h)
    BY <1>1, <1>2 DEF Known, Awaits
<1>5. \A g : ~Busies(WaitFor(h)[1], g)
    BY <1>1, <1>2 DEF Busies
<1>6. Ends(WaitFor(h), Groups)
    <2>1. \A g : \A k \in 1..Len(WaitFor(h)) : ~Busies(WaitFor(h)[k], g)
        BY <1>2, <1>5
    <2> QED BY <1>2, <2>1, Calm DEF Ends
<1>7. WaitFor(h) \in Method
    BY <1>2, <1>3, <1>6, SafeMore DEF Method, Guarded
<1> QED BY <1>2, <1>3, <1>4, <1>5, <1>7

\* One command to every group, all groups waiting.
LEMMA RoundKnown ==
    ASSUME NEW q \in [Groups -> Plain],
           \A g \in Groups : q[g].group = g /\ q[g].do # "assign"
    PROVE  q \in Seq(Plain) /\ Safe(q, Groups) /\ WaitAll \o q \in Guarded
<1>1. q \in Seq(Plain) /\ Len(q) = NumGroups /\ NumGroups \in Nat
    BY ManagerAssumption, IsASeq DEF Groups
<1>2. ASSUME NEW i \in 1..Len(q)
      PROVE  q[i].group \in Groups /\ Known(q, Groups, i, q[i].group)
    <2>1. i \in Groups /\ q[i].group = i
        BY <1>1, <1>2 DEF Groups
    <2>2. \A k \in 1..(i - 1) : k \in Groups /\ k # i
        BY <1>1, <1>2 DEF Groups
    <2>3. \A k \in 1..(i - 1) : ~Busies(q[k], i)
        BY <2>2 DEF Busies
    <2>4. Known(q, Groups, i, i)
        BY <2>1, <2>3, <1>1 DEF Known
    <2> QED BY <2>1, <2>4
<1>3. Safe(q, Groups)
    BY <1>2 DEF Safe
<1>4. WaitAll \o q \in Seq(Plain) /\ Safe(WaitAll \o q, {})
    <2>1. WaitAll \in Seq(Plain) /\ Safe(WaitAll, {}) /\ \A g \in Groups : Known(WaitAll, {}, Len(WaitAll) + 1, g)
        BY WaitAllKnown DEF Guarded, Ends
    <2> QED BY <1>1, <1>3, <2>1, SafeThen
<1> QED BY <1>1, <1>3, <1>4 DEF Guarded

\* A round between two waits for all.
LEMMA RoundMethod ==
    ASSUME NEW s \in Guarded
    PROVE  s \o WaitAll \in Guarded /\ s \o WaitAll \in Method /\ Ends(s \o WaitAll, {})
<1>1. s \o WaitAll \in Guarded
    BY Concat, WaitAllKnown
<1>2. Ends(s \o WaitAll, {})
    BY EndsThen, WaitAllKnown DEF Guarded
<1> QED BY <1>1, <1>2, SafeMore DEF Guarded, Method

-----------------------------------------------------------------------------
\* The methods.

\* A command to every group, between waits for all.
LEMMA CommandRound ==
    ASSUME NEW sig \in PG!CheckedSignals
    PROVE  /\ WaitAll \o CommandAll(sig) \in Guarded
           /\ WaitAll \o CommandAll(sig) \o WaitAll \in Guarded
           /\ WaitAll \o CommandAll(sig) \o WaitAll \in Method
           /\ Ends(WaitAll \o CommandAll(sig) \o WaitAll, {})
<1>1. \A g \in Groups : /\ Command(g, sig) \in Plain
                        /\ Command(g, sig).group = g /\ Command(g, sig).do # "assign"
    BY SigsIn DEF Command, Step, Plain, PlainKinds, StepType, Kinds, Checked
<1>2. /\ CommandAll(sig) \in [Groups -> Plain]
      /\ \A g \in Groups : CommandAll(sig)[g].group = g /\ CommandAll(sig)[g].do # "assign"
    BY <1>1 DEF CommandAll
<1>3. WaitAll \o CommandAll(sig) \in Guarded
    BY <1>2, RoundKnown
<1> QED BY <1>3, RoundMethod

\* The first half of a third level combination, and the sizing of the sparse grids.
LEMMA SystemWide ==
    /\ CombineSystemWide \in Guarded /\ CombineSystemWide \in Method /\ Ends(CombineSystemWide, {})
    /\ InitDsgus \in Guarded /\ InitDsgus \in Method /\ Ends(InitDsgus, {})
BY CommandRound DEF CombineSystemWide, InitDsgus, PG!CheckedSignals

\* A sequence that checks nothing and sends nothing.
LEMMA Fetching ==
    /\ FetchInstruction \in Guarded /\ FetchInstruction \in Method /\ Len(FetchInstruction) = 1
    /\ \A g \in Groups : ~Busies(FetchInstruction[1], g)
<1>1. /\ Step("fetchInstruction", None, None, None) \in Plain
      /\ Step("fetchInstruction", None, None, None).do = "fetchInstruction"
      /\ Step("fetchInstruction", None, None, None).group = None
    BY SigsIn DEF Step, Plain, PlainKinds, StepType, Kinds
<1>2. /\ FetchInstruction \in Seq(Plain) /\ Len(FetchInstruction) = 1
      /\ FetchInstruction[1].do = "fetchInstruction" /\ FetchInstruction[1].group = None
    BY <1>1 DEF FetchInstruction
<1>3. FetchInstruction \in Guarded
    BY <1>2, Unchecked DEF Checked
<1>4. \A g \in Groups : ~Busies(FetchInstruction[1], g)
    BY <1>2, ProtocolAssumption DEF Busies, PG!UsedAssumption
<1>5. Ends(FetchInstruction, Groups)
    <2>1. \A g \in Groups : \A k \in 1..Len(FetchInstruction) : ~Busies(FetchInstruction[k], g)
        BY <1>2, <1>4
    <2> QED BY <1>2, <2>1, Calm DEF Ends
<1> QED BY <1>2, <1>3, <1>4, <1>5, SafeMore DEF Guarded, Method

\* One command to a group that has been waited for.
LEMMA OneCommand ==
    ASSUME NEW h \in Groups, NEW sig \in PG!CheckedSignals
    PROVE  /\ <<Command(h, sig)>> \in Seq(Plain) /\ Safe(<<Command(h, sig)>>, {h})
           /\ Len(<<Command(h, sig)>>) = 1
           /\ \A g : Busies(<<Command(h, sig)>>[1], g) => g = h
<1>1. Command(h, sig) \in Plain /\ Command(h, sig).group = h /\ Command(h, sig).do = "send"
    BY SigsIn DEF Command, Step, Plain, PlainKinds, StepType, Kinds, Checked
<1> DEFINE c == Command(h, sig)
<1> HIDE DEF c
<1>2. <<c>> \in Seq(Plain) /\ Len(<<c>>) = 1 /\ <<c>>[1] = c
    BY <1>1 DEF c
<1>3. Known(<<c>>, {h}, 1, h)
    BY DEF Known
<1>4. Safe(<<c>>, {h})
    BY <1>1, <1>2, <1>3 DEF Safe, c
<1> QED BY <1>1, <1>2, <1>4 DEF Busies, c

\* A group waited for, then a command to it.
LEMMA WaitedCommand ==
    ASSUME NEW h \in Groups, NEW sig \in PG!CheckedSignals
    PROVE  LET s == WaitFor(h) \o <<Command(h, sig)>>
           IN  s \in Guarded /\ Len(s) = 2 /\ \A k \in 1..2, g \in Groups : Busies(s[k], g) => g = h
<1> DEFINE w == WaitFor(h)
           c == <<Command(h, sig)>>
           V == {h}
<1>1. /\ w \in Seq(Plain) /\ w \in Guarded /\ w \in Method /\ Known(w, {}, Len(w) + 1, h)
      /\ Len(w) = 1 /\ \A g : ~Busies(w[1], g)
    BY WaitForKnown
<1>2. /\ c \in Seq(Plain) /\ Safe(c, V) /\ Len(c) = 1 /\ \A g : Busies(c[1], g) => g = h
    BY OneCommand
<1> HIDE DEF w, c
<1>3. /\ \A g \in V : Known(w, {}, Len(w) + 1, g)
      /\ V \subseteq Groups /\ Safe(w, {})
    BY <1>1 DEF Guarded
<1> HIDE DEF V
<1>4. w \o c \in Seq(Plain) /\ Safe(w \o c, {})
    BY <1>1, <1>2, <1>3, SafeThen
<1>5. /\ w \o c \in Seq(Plain) /\ Len(w \o c) = 2
      /\ (w \o c)[1] = w[1] /\ (w \o c)[2] = c[1]
    BY SMTT(30), <1>1, <1>2, ConcatProperties
<1>6. \A k \in 1..2, g \in Groups : Busies((w \o c)[k], g) => g = h
    BY <1>1, <1>2, <1>5
<1>7. w \o c \in Guarded
    BY <1>4 DEF Guarded
<1> QED BY <1>5, <1>6, <1>7 DEF w, c

\* The third level group's command, with the waits before and after it.
LEMMA ThirdLevelCommand ==
    ASSUME NEW sig \in PG!CheckedSignals
    PROVE  CommandTLGroup(sig) \in Guarded /\ CommandTLGroup(sig) \in Method
<1> DEFINE h == TLGroup
           w == WaitFor(h)
           u == WaitFor(h) \o <<Command(h, sig)>>
           s == u \o w
<1>0. h \in Groups
    BY ManagerAssumption
<1> HIDE DEF h
<1>1. /\ w \in Seq(Plain) /\ w \in Guarded /\ Known(w, {}, Len(w) + 1, h)
      /\ Len(w) = 1 /\ \A g : ~Busies(w[1], g)
    BY <1>0, WaitForKnown
<1>2. u \in Guarded /\ Len(u) = 2 /\ \A k \in 1..2, g \in Groups : Busies(u[k], g) => g = h
    BY <1>0, WaitedCommand
<1> HIDE DEF w, u
<1>3. s \in Guarded
    BY <1>1, <1>2, Concat
<1>4. u \in Seq(Plain) /\ s \in Seq(Plain)
    BY <1>2, <1>3 DEF Guarded
<1>5. Len(s) = 3 /\ s[1] = u[1] /\ s[2] = u[2] /\ s[3] = w[1]
    <2>1. /\ Len(s) = Len(u) + Len(w)
          /\ \A k \in 1..(Len(u) + Len(w)) : s[k] = IF k <= Len(u) THEN u[k] ELSE w[k - Len(u)]
        BY <1>1, <1>4, ConcatProperties
    <2> HIDE DEF s
    <2> QED BY <1>1, <1>2, <2>1
<1>6. ASSUME NEW g \in Groups, g # h PROVE Known(s, Groups, Len(s) + 1, g)
    <2>1. \A k \in 1..3 : k = 1 \/ k = 2 \/ k = 3
        OBVIOUS
    <2>2. \A k \in 1..3 : ~Busies(s[k], g)
        BY <1>1, <1>2, <1>5, <1>6, <2>1
    <2> HIDE DEF s
    <2> QED BY <1>4, <1>5, <2>2, Calm
<1>7. Known(s, Groups, Len(s) + 1, h)
    <2>1. Len(w) + 1 \in 1..(Len(w) + 1) /\ Len(u) + (Len(w) + 1) = Len(s) + 1
        BY <1>1, <1>2, <1>5
    <2>2. h \in {} => Known(u, Groups, Len(u) + 1, h)
        OBVIOUS
    <2>3. Known(u \o w, Groups, Len(u) + (Len(w) + 1), h)
        BY <1>1, <1>4, <2>1, <2>2, KnownThen
    <2> QED BY <2>1, <2>3
<1>8. s \in Method
    BY <1>3, <1>6, <1>7, SafeMore DEF Guarded, Method, Ends
<1>9. CommandTLGroup(sig) = s
    BY DEF CommandTLGroup, w, u, h
<1> QED BY <1>3, <1>8, <1>9

\* Others has every group but the third level group once.
LEMMA OthersRight ==
    /\ Others \in [1..(NumGroups - 1) -> Groups \ {TLGroup}]
    /\ \A i, j \in 1..(NumGroups - 1) : i # j => Others[i] # Others[j]
BY ManagerAssumption DEF Others, Groups

\* Telling the others sends nothing to the third level group.
LEMMA TellingOthers ==
    /\ TellOthers \in Guarded
    /\ \A k \in 1..Len(TellOthers) : ~Busies(TellOthers[k], TLGroup)
<1> DEFINE C == {s \in Guarded : \A k \in 1..Len(s) : ~Busies(s[k], TLGroup)}
           piece(i) == WaitFor(Others[i]) \o <<Command(Others[i], "WAIT_FOR_TL_COMBI_RESULT")>>
           ss == [i \in DOMAIN Others |-> piece(i)]
<1>0. NumGroups \in Nat \ {0} /\ TLGroup \in Groups
    BY ManagerAssumption
<1>1. C \subseteq Seq(Plain) /\ <<>> \in C
    BY Concat DEF Guarded
<1>2. ASSUME NEW s \in C, NEW t \in C PROVE s \o t \in C
    <2>1. s \in Seq(Plain) /\ t \in Seq(Plain) /\ s \o t \in Guarded
        BY Concat DEF Guarded
    <2>2. /\ Len(s) \in Nat /\ Len(t) \in Nat /\ Len(s \o t) = Len(s) + Len(t)
          /\ \A k \in 1..Len(s) : (s \o t)[k] = s[k]
          /\ \A k \in 1..Len(t) : (s \o t)[Len(s) + k] = t[k]
        BY <2>1, ConcatProperties, LenProperties
    <2>3. ASSUME NEW k \in 1..Len(s \o t) PROVE ~Busies((s \o t)[k], TLGroup)
        <3>1. CASE k \in 1..Len(s)
            BY <2>2, <3>1
        <3>2. CASE k \notin 1..Len(s)
            <4>1. k - Len(s) \in 1..Len(t) /\ Len(s) + (k - Len(s)) = k
                BY <2>2, <3>2
            <4> QED BY <2>2, <4>1
        <3> QED BY <3>1, <3>2
    <2> QED BY <2>1, <2>3
<1>3. ASSUME NEW i \in 1..(NumGroups - 1) PROVE piece(i) \in C
    <2>1. Others[i] \in Groups /\ Others[i] # TLGroup /\ "WAIT_FOR_TL_COMBI_RESULT" \in PG!CheckedSignals
        BY OthersRight DEF PG!CheckedSignals
    <2>2. /\ piece(i) \in Guarded /\ Len(piece(i)) = 2
          /\ \A k \in 1..2, g \in Groups : Busies(piece(i)[k], g) => g = Others[i]
        BY <2>1, WaitedCommand
    <2> QED BY <1>0, <2>1, <2>2
<1>4. DOMAIN Others = 1..(NumGroups - 1) /\ NumGroups - 1 \in Nat
    BY <1>0, OthersRight
<1> HIDE DEF C, piece
<1>5. ss \in Seq(C)
    BY <1>3, <1>4
<1>6. FlattenSeq(ss) \in C
    BY <1>1, <1>2, <1>5, FlattenIn
<1>7. TellOthers = FlattenSeq(ss)
    BY DEF TellOthers, piece
<1> QED BY <1>6, <1>7 DEF C

\* waitForThirdLevelSizeUpdate does not wait, so the groups must wait already.
LEMMA TellingOthersSizes == TellOthersSizes \in Seq(Plain) /\ Safe(TellOthersSizes, Groups)
<1> DEFINE s == TellOthersSizes
           c(i) == Command(Others[i], "WAIT_FOR_TL_SIZE_UPDATE")
<1>0. NumGroups \in Nat \ {0}
    BY ManagerAssumption
<1>1. \A i \in 1..(NumGroups - 1) : /\ c(i) \in Plain /\ c(i).do = "send"
                                    /\ c(i).group = Others[i] /\ Others[i] \in Groups
    BY OthersRight, SigsIn DEF Command, Step, Plain, PlainKinds, StepType, Kinds, Checked, PG!CheckedSignals
<1>2. s = [i \in 1..(NumGroups - 1) |-> c(i)]
    BY OthersRight DEF TellOthersSizes
<1> HIDE DEF c, s
<1>3. s \in Seq(Plain) /\ Len(s) = NumGroups - 1 /\ \A i \in 1..(NumGroups - 1) : s[i] = c(i)
    BY <1>0, <1>1, <1>2
<1>4. ASSUME NEW i \in 1..Len(s) PROVE s[i].group \in Groups /\ Known(s, Groups, i, s[i].group)
    <2>1. s[i].group = Others[i] /\ Others[i] \in Groups
        BY <1>1, <1>3
    <2>2. \A k \in 1..(i - 1) : k \in 1..(NumGroups - 1) /\ k # i
        BY <1>0, <1>3
    <2>3. \A k \in 1..(i - 1) : ~Busies(s[k], Others[i])
        BY <1>1, <1>3, <2>2, OthersRight DEF Busies
    <2>4. Known(s, Groups, i, Others[i])
        BY <2>1, <2>3, <1>3 DEF Known
    <2> QED BY <2>1, <2>4
<1> QED BY <1>3, <1>4 DEF Safe, s

\* One step that asserts nothing.
LEMMA OneUnchecked ==
    ASSUME NEW s \in Plain, s.do \notin Checked
    PROVE  <<s>> \in Guarded /\ <<s>> \in Seq(Plain)
<1>1. <<s>> \in Seq(Plain) /\ Len(<<s>>) = 1 /\ <<s>>[1] = s
    OBVIOUS
<1>2. \A i \in 1..Len(<<s>>) : <<s>>[i].do \notin Checked
    BY <1>1
<1> QED BY <1>1, <1>2, Unchecked

\* Steps that assert nothing.
LEMMA ManyUnchecked ==
    ASSUME NEW n \in Nat, NEW q \in [1..n -> Plain], \A i \in 1..n : q[i].do \notin Checked
    PROVE  q \in Guarded /\ q \in Seq(Plain)
<1>1. q \in Seq(Plain) /\ Len(q) = n
    OBVIOUS
<1> QED BY <1>1, Unchecked

\* What a group knows survives steps that send it nothing.
LEMMA CalmThen ==
    ASSUME NEW T, NEW s \in Seq(T), NEW t \in Seq(T), NEW W, NEW g,
           Known(s, W, Len(s) + 1, g), \A k \in 1..Len(t) : ~Busies(t[k], g)
    PROVE  s \o t \in Seq(T) /\ Known(s \o t, W, Len(s \o t) + 1, g)
<1> DEFINE V == {g}
<1>1. /\ s \o t \in Seq(T) /\ Len(s \o t) + 1 = Len(s) + (Len(t) + 1)
      /\ Len(t) + 1 \in 1..(Len(t) + 1)
    BY ConcatProperties, LenProperties
<1>2. g \in V
    OBVIOUS
<1> HIDE DEF V
<1>3. Known(t, V, Len(t) + 1, g)
    BY <1>2, Calm
<1> QED BY <1>1, <1>3, KnownThen

\* combineThirdLevel: the third level group has not been sent anything since all groups waited.
LEMMA CombineThirdLevelGuarded ==
    /\ CombineSystemWide \o TellOthers \o FetchInstruction \o
       <<Command(TLGroup, "COMBINE_THIRD_LEVEL"), Step("exchangeDsgus", TLGroup, None, None)>> \in Guarded
<1> DEFINE a == CombineSystemWide
           b == a \o TellOthers
           c == b \o FetchInstruction
           x == Command(TLGroup, "COMBINE_THIRD_LEVEL")
           y == Step("exchangeDsgus", TLGroup, None, None)
           V == {TLGroup}
<1>0. TLGroup \in Groups
    BY ManagerAssumption
<1>1. b \in Guarded /\ c \in Guarded
    BY SystemWide, TellingOthers, Fetching, Concat
<1>2. /\ a \in Seq(Plain) /\ TellOthers \in Seq(Plain) /\ FetchInstruction \in Seq(Plain)
      /\ c \in Seq(Plain) /\ Safe(c, {})
    BY <1>1, SystemWide, TellingOthers, Fetching DEF Guarded
<1>3. Known(a, {}, Len(a) + 1, TLGroup)
    BY <1>0, SystemWide DEF Ends
<1>4. b \in Seq(Plain) /\ Known(b, {}, Len(b) + 1, TLGroup)
    BY <1>2, <1>3, TellingOthers, CalmThen
<1>5. Known(c, {}, Len(c) + 1, TLGroup)
    <2>1. \A k \in 1..Len(FetchInstruction) : ~Busies(FetchInstruction[k], TLGroup)
        BY <1>0, Fetching
    <2> HIDE DEF b
    <2> QED BY <1>2, <1>4, <2>1, CalmThen
<1>6. /\ x \in Plain /\ y \in Plain /\ x.do = "send" /\ y.do = "exchangeDsgus"
      /\ x.group = TLGroup
    BY <1>0, SigsIn DEF Command, Step, Plain, PlainKinds, StepType, Kinds, Checked, PG!CheckedSignals
<1> HIDE DEF x, y, c
<1>7. <<x, y>> \in Seq(Plain) /\ Len(<<x, y>>) = 2 /\ <<x, y>>[1] = x /\ <<x, y>>[2] = y
    BY <1>6
<1>8. Known(<<x, y>>, V, 1, TLGroup)
    BY DEF Known
<1>9. Safe(<<x, y>>, V)
    <2>1. \A i \in 1..2 : i = 1 \/ i = 2
        OBVIOUS
    <2> HIDE DEF V
    <2> QED BY <1>0, <1>6, <1>7, <1>8, <2>1 DEF Safe, Checked
<1>10. V \subseteq Groups /\ \A g \in V : Known(c, {}, Len(c) + 1, g)
    BY <1>0, <1>5
<1> HIDE DEF V
<1>11. c \o <<x, y>> \in Guarded
    BY <1>2, <1>7, <1>9, <1>10, SafeThen DEF Guarded
<1> QED BY <1>11 DEF c, x, y

\* unifySubspaceSizesThirdLevel, when all groups wait already.
LEMMA UnifyMethod ==
    /\ Script("unifySubspaceSizesThirdLevel") \in Method
    /\ Ends(Script("unifySubspaceSizesThirdLevel"), {})
<1> DEFINE x == Step("sendUnchecked", TLGroup, "REDUCE_SUBSPACE_SIZES_TL", None)
           y == Step("reduceSizes", TLGroup, None, None)
           xy == <<x, y>>
           a == TellOthersSizes \o FetchInstruction
           b == a \o xy
<1>0. TLGroup \in Groups
    BY ManagerAssumption
<1>1. <<x>> \in Guarded /\ <<y>> \in Guarded
    <2>1. x \in Plain /\ y \in Plain /\ x.do \notin Checked /\ y.do \notin Checked
        BY <1>0, SigsIn DEF Step, Plain, PlainKinds, StepType, Kinds, Checked, PG!UncheckedSignals
    <2> HIDE DEF x, y
    <2> QED BY <2>1, OneUnchecked
<1>2. <<x, y>> \in Guarded
    <2>1. <<x, y>> = <<x>> \o <<y>>
        OBVIOUS
    <2> HIDE DEF x, y
    <2> QED BY <1>1, <2>1, Concat
<1>3. a \in Seq(Plain) /\ Safe(a, Groups)
    <2>1. FetchInstruction \in Seq(Plain) /\ Safe(FetchInstruction, {})
        BY Fetching DEF Guarded
    <2> QED BY <2>1, TellingOthersSizes, SafeThen
<1>4. b \in Seq(Plain) /\ Safe(b, Groups)
    <2>1. xy \in Seq(Plain) /\ Safe(xy, {})
        BY <1>2 DEF Guarded
    <2> HIDE DEF a, xy
    <2> QED BY <1>3, <2>1, SafeThen
<1>5. b \o WaitAll \in Seq(Plain) /\ Safe(b \o WaitAll, Groups)
    <2>1. WaitAll \in Seq(Plain) /\ Safe(WaitAll, {})
        BY WaitAllKnown DEF Guarded
    <2> HIDE DEF b
    <2> QED BY <1>4, <2>1, SafeThen
<1>6. Ends(b \o WaitAll, {})
    <2> HIDE DEF b
    <2> QED BY <1>4, WaitAllKnown, EndsThen
<1>7. Script("unifySubspaceSizesThirdLevel") = b \o WaitAll
    BY DEF Script
<1> HIDE DEF b
<1> QED BY <1>5, <1>6, <1>7, SafeMore DEF Method

\* The methods that return when all groups are waiting.
Synchronous ==
    {"runfirst", "initDsgus", "runnext", "combine", "combineThirdLevel",
     "combineThirdLevelFileBasedWrite", "combineThirdLevelFileBasedReadReduce",
     "unifySubspaceSizesThirdLevel", "unifyExtraSparseGrid", "updateCombiParameters",
     "parallelEval", "writeDSGsToDisk", "exit", "reschedule"}

\* All methods.
Methods == Synchronous \cup
    {"combineThirdLevelFileBased", "getLpNorms", "interpolateValues",
     "writeInterpolatedValuesSingleFile", "writeInterpolatedValuesPerGrid",
     "writeSparseGridMinMaxCoefficients"}

\* The requests to interpolate are sent without a look at the statuses.
LEMMA Interpolating ==
    ASSUME NEW sig \in PG!UncheckedSignals
    PROVE  InterpolateAll(sig) \in Guarded
<1> DEFINE x == Step("sendUnchecked", NumGroups, sig, None)
           q == [g \in 1..(NumGroups - 1) |-> Step("sendUnchecked", g, "INTERPOLATE_VALUES", None)]
<1>0. NumGroups \in Nat \ {0} /\ NumGroups \in Groups /\ \A g \in 1..(NumGroups - 1) : g \in Groups
    BY ManagerAssumption DEF Groups
<1>1. x \in Plain /\ x.do \notin Checked
    BY <1>0, SigsIn DEF Step, Plain, PlainKinds, StepType, Kinds, Checked
<1>2. \A g \in 1..(NumGroups - 1) :
        LET s == Step("sendUnchecked", g, "INTERPOLATE_VALUES", None)
        IN  s \in Plain /\ s.do \notin Checked
    BY <1>0, SigsIn DEF Step, Plain, PlainKinds, StepType, Kinds, Checked, PG!UncheckedSignals
<1>3. <<x>> \in Guarded
    <2> HIDE DEF x
    <2> QED BY <1>1, OneUnchecked
<1>4. q \in Guarded
    <2>1. q \in [1..(NumGroups - 1) -> Plain] /\ \A i \in 1..(NumGroups - 1) : q[i].do \notin Checked
        BY <1>2
    <2> HIDE DEF q
    <2> QED BY <1>0, <2>1, ManyUnchecked
<1>5. InterpolateAll(sig) = <<x>> \o q
    BY DEF InterpolateAll
<1> HIDE DEF x, q
<1> QED BY <1>3, <1>4, <1>5, Concat

\* The step of a method and the wait after it, or the request and its reply.
LEMMA EveryGroupUnchecked ==
    /\ Script("getLpNorms") \in Guarded
    /\ Script("writeInterpolatedValuesPerGrid") \in Guarded
<1> DEFINE n(g) == <<Step("norms", g, "GET_L2_NORM", None), Step("reply", g, None, None)>>
           w(g) == <<Step("sendUnchecked", g, "WRITE_INTERPOLATED_VALUES_PER_GRID", None)>> \o WaitFor(g)
           ns == [g \in Groups |-> n(g)]
           ws == [g \in Groups |-> w(g)]
<1>0. NumGroups \in Nat
    BY ManagerAssumption
<1>1. ASSUME NEW g \in Groups PROVE n(g) \in Guarded
    <2> DEFINE x == Step("norms", g, "GET_L2_NORM", None)
               y == Step("reply", g, None, None)
    <2>1. x \in Plain /\ y \in Plain /\ x.do \notin Checked /\ y.do \notin Checked
        BY SigsIn DEF Step, Plain, PlainKinds, StepType, Kinds, Checked
    <2>2. n(g) = <<x>> \o <<y>>
        OBVIOUS
    <2> HIDE DEF x, y, n
    <2> QED BY <2>1, <2>2, OneUnchecked, Concat
<1>2. ASSUME NEW g \in Groups PROVE w(g) \in Guarded
    <2> DEFINE x == Step("sendUnchecked", g, "WRITE_INTERPOLATED_VALUES_PER_GRID", None)
    <2>1. x \in Plain /\ x.do \notin Checked
        BY SigsIn DEF Step, Plain, PlainKinds, StepType, Kinds, Checked, PG!UncheckedSignals
    <2>2. w(g) = <<x>> \o WaitFor(g)
        OBVIOUS
    <2> HIDE DEF x, w
    <2> QED BY <2>1, <2>2, OneUnchecked, WaitForKnown, Concat
<1>3. Script("getLpNorms") = FlattenSeq(ns) /\ Script("writeInterpolatedValuesPerGrid") = FlattenSeq(ws)
    BY DEF Script
<1> HIDE DEF n, w
<1>4. ns \in Seq(Guarded) /\ ws \in Seq(Guarded)
    BY <1>0, <1>1, <1>2 DEF Groups
<1>5. Guarded \subseteq Seq(Plain)
    BY DEF Guarded
<1> HIDE DEF ns, ws
<1>6. FlattenSeq(ns) \in Guarded /\ FlattenSeq(ws) \in Guarded
    BY <1>4, <1>5, Concat, FlattenIn
<1> QED BY <1>3, <1>6

\* Plain steps are steps.
LEMMA Widen == Plain \subseteq StepType /\ Seq(Plain) \subseteq Seq(StepType)
<1>1. Plain \subseteq StepType
    BY DEF Plain
<1>2. ASSUME NEW s \in Seq(Plain) PROVE s \in Seq(StepType)
    <2> HIDE DEF Plain
    <2> QED BY <1>1
<1> QED BY <1>1, <1>2

\* runfirst sends every task of tasks_, then the sparse grids are sized.
LEMMA RunfirstMethod ==
    ASSUME taskList \in Seq(Tasks)
    PROVE  LET s == Script("runfirst")
           IN  /\ s \in Seq(StepType) /\ Safe(s, {}) /\ Ends(s, {})
               /\ \A i \in 1..Len(s) : s[i].do \notin {"remove", "rebuildTasks"}
               /\ \A i \in DOMAIN taskList : \E k \in 1..Len(s) : s[k].do = "assign" /\ s[k].task = taskList[i]
<1> DEFINE q == [i \in DOMAIN taskList |-> Step("assign", None, "RUN_FIRST", taskList[i])]
           a == q \o WaitAll
           s == a \o InitDsgus
<1>1. /\ Len(taskList) \in Nat /\ DOMAIN taskList = 1..Len(taskList)
      /\ \A i \in 1..Len(taskList) : taskList[i] \in Tasks
    BY ElementOfSeq, LenProperties
<1>2. /\ q \in [1..Len(taskList) -> StepType]
      /\ \A i \in 1..Len(taskList) : q[i].do = "assign" /\ q[i].task = taskList[i]
    BY <1>1, SigsIn DEF Step, StepType, Kinds
<1>3. Script("runfirst") = s
    BY DEF Script
<1> HIDE DEF q
<1>4. q \in Seq(StepType) /\ Len(q) = Len(taskList)
    BY <1>1, <1>2
<1>5. Safe(q, {})
    BY <1>2, <1>4 DEF Safe, Checked
<1>6. /\ WaitAll \in Seq(StepType) /\ Safe(WaitAll, {}) /\ WaitAll \in Seq(Plain)
      /\ InitDsgus \in Seq(StepType) /\ Safe(InitDsgus, {}) /\ InitDsgus \in Seq(Plain) /\ Ends(InitDsgus, {})
    BY WaitAllKnown, SystemWide, Widen DEF Guarded
<1>7. a \in Seq(StepType) /\ Safe(a, {})
    BY <1>4, <1>5, <1>6, SafeThen
<1>8. s \in Seq(StepType) /\ Safe(s, {}) /\ Ends(s, {})
    <2> HIDE DEF a
    <2> QED BY <1>6, <1>7, SafeThen, EndsThen
<1>9. /\ Len(a) = Len(q) + Len(WaitAll)
      /\ Len(q) \in Nat /\ Len(WaitAll) \in Nat /\ Len(InitDsgus) \in Nat
      /\ \A i \in 1..Len(q) : a[i] = q[i]
      /\ \A i \in 1..Len(WaitAll) : a[Len(q) + i] = WaitAll[i]
    <2>1. Len(q) \in Nat /\ Len(WaitAll) \in Nat /\ Len(InitDsgus) \in Nat
        BY <1>4, <1>6, LenProperties
    <2> DEFINE w == WaitAll
    <2>2. w \in Seq(StepType) /\ a = q \o w
        BY <1>6
    <2> HIDE DEF w, a, s
    <2>3. q \in Seq(StepType) /\ w \in Seq(StepType)
        BY <1>4, <2>2
    <2>4. /\ Len(q \o w) = Len(q) + Len(w)
          /\ \A i \in 1..Len(q) : (q \o w)[i] = q[i]
          /\ \A i \in 1..Len(w) : (q \o w)[Len(q) + i] = w[i]
        BY <2>3, ConcatParts
    <2>5. /\ Len(a) = Len(q) + Len(w)
          /\ \A i \in 1..Len(q) : a[i] = q[i]
          /\ \A i \in 1..Len(w) : a[Len(q) + i] = w[i]
        BY <2>2, <2>4
    <2> QED BY <2>1, <2>5 DEF w
<1>10. /\ \A i \in 1..Len(a) : s[i] = a[i]
       /\ \A i \in 1..Len(InitDsgus) : s[Len(a) + i] = InitDsgus[i]
       /\ Len(s) = Len(a) + Len(InitDsgus)
    <2> HIDE DEF a
    <2> QED BY <1>6, <1>7, ConcatProperties
<1>11. /\ \A i \in 1..Len(WaitAll) : WaitAll[i].do \in PlainKinds
       /\ \A i \in 1..Len(InitDsgus) : InitDsgus[i].do \in PlainKinds
    BY <1>6, ElementOfSeq DEF Plain
<1> HIDE DEF s, a
<1>12. ASSUME NEW i \in 1..Len(s) PROVE s[i].do \notin {"remove", "rebuildTasks"}
    <2>1. CASE i \in 1..Len(q)
        BY <1>2, <1>4, <1>9, <1>10, <2>1
    <2>2. CASE i \in (Len(q) + 1)..Len(a)
        <3>1. i - Len(q) \in 1..Len(WaitAll) /\ Len(q) + (i - Len(q)) = i
            BY <1>9, <2>2
        <3>2. s[i] = WaitAll[i - Len(q)]
            BY <1>9, <1>10, <2>2, <3>1
        <3> QED BY <1>11, <3>1, <3>2 DEF PlainKinds
    <2>3. CASE i \in (Len(a) + 1)..Len(s)
        <3>1. i - Len(a) \in 1..Len(InitDsgus) /\ Len(a) + (i - Len(a)) = i
            BY <1>9, <1>10, <2>3
        <3>2. s[i] = InitDsgus[i - Len(a)]
            BY <1>10, <3>1
        <3> QED BY <1>11, <3>1, <3>2 DEF PlainKinds
    <2> QED BY <1>9, <1>10, <2>1, <2>2, <2>3
<1>13. ASSUME NEW i \in DOMAIN taskList
       PROVE  \E k \in 1..Len(s) : s[k].do = "assign" /\ s[k].task = taskList[i]
    <2>1. i \in 1..Len(q) /\ i \in 1..Len(s) /\ s[i] = q[i]
        BY <1>1, <1>4, <1>9, <1>10
    <2> QED BY <1>1, <1>2, <2>1
<1> QED BY <1>3, <1>8, <1>12, <1>13

\* runnext and exit command every group after a wait for all.
LEMMA GroupRounds ==
    /\ Script("runnext") \in Guarded /\ Ends(Script("runnext"), {})
    /\ Script("exit") \in Guarded
<1> DEFINE q == [g \in Groups |-> Step("runNext", g, "RUN_NEXT", None)]
           e == [g \in Groups |-> Step("exit", g, "EXIT", None)]
<1>1. /\ q \in [Groups -> Plain] /\ \A g \in Groups : q[g].group = g /\ q[g].do # "assign"
      /\ e \in [Groups -> Plain] /\ \A g \in Groups : e[g].group = g /\ e[g].do # "assign"
    BY SigsIn DEF Step, Plain, PlainKinds, StepType, Kinds, Checked
<1> HIDE DEF q, e
<1>2. WaitAll \o q \in Guarded /\ WaitAll \o e \in Guarded
    BY <1>1, RoundKnown
<1>3. Script("runnext") = WaitAll \o q \o WaitAll /\ Script("exit") = WaitAll \o e
    BY DEF Script, q, e
<1> QED BY <1>2, <1>3, RoundMethod

\* The methods that are one command between waits, or one command.
LEMMA SimpleScripts ==
    /\ \A op \in {"initDsgus", "combine", "updateCombiParameters"} :
            Script(op) \in Guarded /\ Ends(Script(op), {})
    /\ Script("writeDSGsToDisk") \in Guarded /\ Script("writeDSGsToDisk") \in Method
    /\ \A op \in {"interpolateValues", "writeInterpolatedValuesSingleFile",
                  "writeSparseGridMinMaxCoefficients"} : Script(op) \in Guarded
<1>1. /\ Script("initDsgus") = InitDsgus
      /\ Script("combine") = WaitAll \o CommandAll("COMBINE") \o WaitAll
      /\ Script("updateCombiParameters") = WaitAll \o CommandAll("UPDATE_COMBI_PARAMETERS") \o WaitAll
      /\ Script("writeDSGsToDisk") = CommandTLGroup("WRITE_DSGS_TO_DISK")
    BY DEF Script
<1>2. {"COMBINE", "UPDATE_COMBI_PARAMETERS", "WRITE_DSGS_TO_DISK"} \subseteq PG!CheckedSignals
    BY DEF PG!CheckedSignals
<1>3. \A op \in {"initDsgus", "combine", "updateCombiParameters"} :
            Script(op) \in Guarded /\ Ends(Script(op), {})
    BY <1>1, <1>2, SystemWide, CommandRound
<1>4. Script("writeDSGsToDisk") \in Guarded /\ Script("writeDSGsToDisk") \in Method
    BY <1>1, <1>2, ThirdLevelCommand
<1>5. Script("interpolateValues") \in Guarded
    <2> DEFINE a == InterpolateAll("INTERPOLATE_VALUES_AND_SEND_BACK")
               x == Step("takeValues", None, None, None)
    <2>1. a \in Guarded
        BY Interpolating DEF PG!UncheckedSignals
    <2>2. x \in Plain /\ x.do \notin Checked
        BY SigsIn DEF Step, Plain, PlainKinds, StepType, Kinds, Checked
    <2>3. Script("interpolateValues") = a \o <<x>>
        BY DEF Script
    <2> HIDE DEF a, x
    <2> QED BY <2>1, <2>2, <2>3, OneUnchecked, Concat
<1>6. Script("writeInterpolatedValuesSingleFile") \in Guarded
    BY Interpolating DEF Script, PG!UncheckedSignals
<1>7. Script("writeSparseGridMinMaxCoefficients") \in Guarded
    <2> DEFINE x == Step("sendUnchecked", NumGroups, "WRITE_DSG_MINMAX_COEFFICIENTS", None)
    <2>1. x \in Plain /\ x.do \notin Checked
        BY ManagerAssumption, SigsIn
           DEF Step, Plain, PlainKinds, StepType, Kinds, Checked, Groups, PG!UncheckedSignals
    <2>2. Script("writeSparseGridMinMaxCoefficients") = <<x>>
        BY DEF Script
    <2> HIDE DEF x
    <2> QED BY <2>1, <2>2, OneUnchecked
<1> QED BY <1>3, <1>4, <1>5, <1>6, <1>7

\* parallelEval waits, commands the first group and waits.
LEMMA EvaluationMethod ==
    Script("parallelEval") \in Guarded /\ Ends(Script("parallelEval"), {})
<1> DEFINE c == <<Command(1, "PARALLEL_EVAL")>>
           a == WaitAll \o c
           V == {1}
<1>1. 1 \in Groups /\ "PARALLEL_EVAL" \in PG!CheckedSignals
    BY ManagerAssumption DEF Groups, PG!CheckedSignals
<1>2. c \in Seq(Plain) /\ Safe(c, V)
    BY <1>1, OneCommand
<1>3. /\ WaitAll \in Seq(Plain) /\ Safe(WaitAll, {}) /\ V \subseteq Groups
      /\ \A g \in V : Known(WaitAll, {}, Len(WaitAll) + 1, g)
    BY <1>1, WaitAllKnown DEF Guarded, Ends
<1>4. Script("parallelEval") = a \o WaitAll
    BY DEF Script
<1> HIDE DEF c, V
<1>5. a \in Guarded
    BY <1>2, <1>3, SafeThen DEF Guarded
<1> HIDE DEF a
<1> QED BY <1>4, <1>5, RoundMethod

\* The combinations with the remote system.
LEMMA ThirdLevelScripts ==
    /\ Script("combineThirdLevel") \in Guarded /\ Ends(Script("combineThirdLevel"), {})
    /\ Script("combineThirdLevelFileBased") \in Guarded
    /\ Script("combineThirdLevelFileBasedWrite") \in Method
    /\ Script("combineThirdLevelFileBasedWrite") \in Guarded
    /\ Script("combineThirdLevelFileBasedReadReduce") \in Guarded
    /\ Ends(Script("combineThirdLevelFileBasedReadReduce"), {})
<1> DEFINE cs == CombineSystemWide
           tell == TellOthers
           fetch == FetchInstruction
           last == <<Command(TLGroup, "COMBINE_THIRD_LEVEL"), Step("exchangeDsgus", TLGroup, None, None)>>
           com == cs \o tell \o fetch \o last
           read == CommandTLGroup("COMBINE_READ_DSGS_AND_REDUCE")
           write == CommandTLGroup("COMBINE_WRITE_DSGS")
           both == CommandTLGroup("COMBINE_THIRD_LEVEL_FILE")
<1>1. /\ cs \in Guarded /\ cs \in Method /\ tell \in Guarded /\ fetch \in Guarded /\ fetch \in Method
      /\ com \in Guarded
    BY SystemWide, TellingOthers, Fetching, CombineThirdLevelGuarded
<1>2. read \in Guarded /\ write \in Guarded /\ write \in Method /\ both \in Guarded
    BY ThirdLevelCommand DEF PG!CheckedSignals
<1>3. /\ Script("combineThirdLevel") = com \o WaitAll
      /\ Script("combineThirdLevelFileBased") = cs \o tell \o fetch \o both
      /\ Script("combineThirdLevelFileBasedWrite") = cs \o fetch \o write
      /\ Script("combineThirdLevelFileBasedReadReduce") = tell \o read \o WaitAll
    BY DEF Script
<1> HIDE DEF cs, tell, fetch, com, read, write, both
<1>4. /\ Script("combineThirdLevel") \in Guarded /\ Ends(Script("combineThirdLevel"), {})
    BY <1>1, <1>3, RoundMethod
<1>5. Script("combineThirdLevelFileBased") \in Guarded
    <2>1. cs \o tell \in Guarded
        BY <1>1, Concat
    <2>2. cs \o tell \o fetch \in Guarded
        BY <1>1, <2>1, Concat
    <2> QED BY <1>2, <1>3, <2>2, Concat
<1>6. /\ Script("combineThirdLevelFileBasedWrite") \in Method
      /\ Script("combineThirdLevelFileBasedWrite") \in Guarded
    <2>1. cs \o fetch \in Guarded /\ cs \o fetch \in Method
        BY <1>1, Concat
    <2> QED BY <1>2, <1>3, <2>1, Concat
<1>7. tell \o read \in Guarded
    BY <1>1, <1>2, Concat
<1> QED BY <1>3, <1>4, <1>5, <1>6, <1>7, RoundMethod

\* unifyExtraSparseGrid asks the third level group without looking at its status.
LEMMA UnifyExtraMethod ==
    Script("unifyExtraSparseGrid") \in Guarded /\ Ends(Script("unifyExtraSparseGrid"), {})
<1> DEFINE x == Step("sendUnchecked", TLGroup, "REDUCE_SUBSPACE_SIZES_TL_AND_ALLOCATE_EXTRA_SG", None)
           y == Step("reduceExtraSizes", TLGroup, None, None)
           xy == <<x, y>>
           a == FetchInstruction \o xy
<1>1. x \in Plain /\ y \in Plain /\ x.do \notin Checked /\ y.do \notin Checked
    BY ManagerAssumption, SigsIn
       DEF Step, Plain, PlainKinds, StepType, Kinds, Checked, PG!UncheckedSignals
<1>2. Script("unifyExtraSparseGrid") = a \o WaitAll
    BY DEF Script
<1>3. xy \in Guarded
    <2>1. xy = <<x>> \o <<y>>
        OBVIOUS
    <2> HIDE DEF x, y, xy
    <2> QED BY <1>1, <2>1, OneUnchecked, Concat
<1> HIDE DEF xy
<1>4. a \in Guarded
    BY <1>3, Fetching, Concat
<1> HIDE DEF a
<1> QED BY <1>2, <1>4, RoundMethod

\* The method that commands groups it does not wait for.
Unify == "unifySubspaceSizesThirdLevel"

\* What the application calls in any stage, but runfirst and reschedule.
LEMMA PlainScripts ==
    ASSUME NEW s \in Stages, NEW op \in Allowed[s], op # "runfirst"
    PROVE  /\ Script(op) \in Seq(Plain)
           /\ op # Unify => Script(op) \in Guarded
           /\ op = Unify => Safe(Script(op), Groups)
           /\ op \in Synchronous /\ op # "exit" => Ends(Script(op), Groups)
<1>1. op \in (Methods \ {"runfirst", "reschedule"})
    BY DEF Stages, Allowed, Anytime, Methods, Synchronous
<1>2. op # Unify => Script(op) \in Guarded
    BY <1>1, SimpleScripts, EvaluationMethod, ThirdLevelScripts, UnifyExtraMethod,
       EveryGroupUnchecked, GroupRounds DEF Methods, Synchronous, Unify
<1>3. Script(Unify) \in Method
    BY UnifyMethod DEF Unify
<1>4. op \in Synchronous /\ op # "exit" => Ends(Script(op), Groups) \/ Ends(Script(op), {})
    BY <1>1, SimpleScripts, EvaluationMethod, ThirdLevelScripts, UnifyExtraMethod, UnifyMethod,
       GroupRounds DEF Synchronous, Method
<1>5. Ends(Script(op), {}) => Ends(Script(op), Groups)
    BY SafeMore
<1> QED BY <1>2, <1>3, <1>4, <1>5 DEF Guarded, Method

-----------------------------------------------------------------------------
\* Moving tasks.

\* A task that is removed from its group is added to another one later.
AddedLater(seq) ==
    \A i \in 1..Len(seq) : seq[i].do = "remove" =>
        \E j \in (i + 1)..Len(seq) : seq[j].do = "add" /\ seq[j].task = seq[i].task

\* tasks_ is rebuilt when all tasks have moved.
RebuiltLast(seq) == \A i \in 1..Len(seq) : seq[i].do = "rebuildTasks" => i = Len(seq)

\* Parts of reschedule.
Moves == {s \in Seq(StepType) : /\ Safe(s, {}) /\ Ends(s, Groups) /\ AddedLater(s)
                                /\ \A i \in 1..Len(s) : s[i].do # "rebuildTasks"}

\* Two moves in sequence.
LEMMA MovesThen == <<>> \in Moves /\ \A s, t \in Moves : s \o t \in Moves
<1>1. <<>> \in Moves
    <2>1. <<>> \in Seq(StepType) /\ Len(<<>>) = 0
        OBVIOUS
    <2>2. Safe(<<>>, {}) /\ Ends(<<>>, Groups)
        BY Concat DEF Guarded, Method
    <2> QED BY <2>1, <2>2 DEF Moves, AddedLater
<1>2. ASSUME NEW s \in Moves, NEW t \in Moves PROVE s \o t \in Moves
    <2>1. /\ s \in Seq(StepType) /\ t \in Seq(StepType)
          /\ Safe(s, {}) /\ Safe(t, {}) /\ Ends(s, Groups) /\ Ends(t, Groups)
        BY DEF Moves
    <2>2. s \o t \in Seq(StepType) /\ Safe(s \o t, {})
        BY <2>1, SafeThen
    <2>3. Ends(s \o t, Groups)
        BY <2>1, EndsThen
    <2>4. /\ Len(s) \in Nat /\ Len(t) \in Nat /\ Len(s \o t) = Len(s) + Len(t)
          /\ \A i \in 1..Len(s) : (s \o t)[i] = s[i]
          /\ \A i \in 1..Len(t) : (s \o t)[Len(s) + i] = t[i]
        BY <2>1, ConcatParts
    <2> DEFINE u == s \o t
    <2> HIDE DEF u
    <2>5. ASSUME NEW i \in 1..Len(u)
          PROVE  \/ i \in 1..Len(s) /\ u[i] = s[i]
                 \/ \E k \in 1..Len(t) : i = Len(s) + k /\ u[i] = t[k]
        <3>1. CASE i \in 1..Len(s)
            BY <2>4, <3>1 DEF u
        <3>2. CASE i \notin 1..Len(s)
            <4>1. i - Len(s) \in 1..Len(t) /\ i = Len(s) + (i - Len(s))
                BY <2>4, <3>2 DEF u
            <4>2. u[i] = t[i - Len(s)]
                BY <2>4, <4>1 DEF u
            <4> QED BY <4>1, <4>2
        <3> QED BY <3>1, <3>2
    <2>6. \A i \in 1..Len(u) : u[i].do # "rebuildTasks"
        BY <2>5 DEF Moves
    <2>7. ASSUME NEW i \in 1..Len(u), u[i].do = "remove"
          PROVE  \E j \in (i + 1)..Len(u) : u[j].do = "add" /\ u[j].task = u[i].task
        <3>1. CASE i \in 1..Len(s) /\ u[i] = s[i]
            <4>1. PICK j \in (i + 1)..Len(s) : s[j].do = "add" /\ s[j].task = s[i].task
                BY <2>7, <3>1 DEF Moves, AddedLater
            <4>2. j \in 1..Len(s) /\ j \in (i + 1)..Len(u)
                BY <2>4, <3>1 DEF u
            <4>3. u[j] = s[j]
                BY <2>4, <4>2 DEF u
            <4> QED BY <3>1, <4>1, <4>2, <4>3
        <3>2. CASE \E k \in 1..Len(t) : i = Len(s) + k /\ u[i] = t[k]
            <4>1. PICK k \in 1..Len(t) : i = Len(s) + k /\ u[i] = t[k]
                BY <3>2
            <4>2. PICK j \in (k + 1)..Len(t) : t[j].do = "add" /\ t[j].task = t[k].task
                BY <2>7, <4>1 DEF Moves, AddedLater
            <4>3. j \in 1..Len(t) /\ Len(s) + j \in (i + 1)..Len(u)
                BY <2>4, <4>1 DEF u
            <4>4. u[Len(s) + j] = t[j]
                BY <2>4, <4>3 DEF u
            <4> QED BY <4>1, <4>2, <4>3, <4>4
        <3> QED BY <2>5, <3>1, <3>2
    <2> QED BY <2>2, <2>3, <2>6, <2>7 DEF Moves, AddedLater, u
<1> QED BY <1>1, <1>2

\* A task moves: it is removed, and added when all groups wait.
LEMMA MigrationMoves ==
    ASSUME NEW t \in Tasks, NEW g \in Groups, NEW h \in Groups
    PROVE  Migration(t, g, h) \in Moves
<1> DEFINE a == Step("remove", g, "RESCHEDULE_REMOVE_TASK", t)
           b == Step("reply", g, None, None)
           w == Step("waitAll", None, None, None)
           d == Step("add", h, "RESCHEDULE_ADD_TASK", t)
           ab == <<a, b>>
           abw == ab \o <<w>>
           abwd == abw \o <<d>>
           m == abwd \o <<w>>
<1>1. Migration(t, g, h) = m
    BY DEF Migration, WaitAll
<1>2. /\ a \in StepType /\ b \in StepType /\ w \in StepType /\ d \in StepType
      /\ a.do = "remove" /\ b.do = "reply" /\ w.do = "waitAll" /\ d.do = "add"
      /\ d.group = h /\ a.task = t /\ d.task = t
    BY SigsIn DEF Step, StepType, Kinds, PlainKinds
<1> HIDE DEF a, b, w, d
<1>3. /\ m \in Seq(StepType) /\ Len(m) = 5
      /\ m[1] = a /\ m[2] = b /\ m[3] = w /\ m[4] = d /\ m[5] = w
    <2>1. ab \in Seq(StepType) /\ Len(ab) = 2 /\ ab[1] = a /\ ab[2] = b
        BY <1>2
    <2> HIDE DEF ab
    <2>2. abw \in Seq(StepType) /\ Len(abw) = 3 /\ abw[1] = a /\ abw[2] = b /\ abw[3] = w
        <3>1. /\ abw \in Seq(StepType) /\ Len(abw) = Len(ab) + 1
              /\ (\A i \in 1..Len(ab) : abw[i] = ab[i]) /\ abw[Len(ab) + 1] = w
            <4>1. ab \in Seq(StepType) /\ w \in StepType
                BY <1>2, <2>1
            <4> QED BY <4>1, OneMore
        <3> HIDE DEF abw
        <3> QED BY <2>1, <3>1
    <2> HIDE DEF abw
    <2>3. /\ abwd \in Seq(StepType) /\ Len(abwd) = 4
          /\ abwd[1] = a /\ abwd[2] = b /\ abwd[3] = w /\ abwd[4] = d
        <3>1. /\ abwd \in Seq(StepType) /\ Len(abwd) = Len(abw) + 1
              /\ (\A i \in 1..Len(abw) : abwd[i] = abw[i]) /\ abwd[Len(abw) + 1] = d
            <4>1. abw \in Seq(StepType) /\ d \in StepType
                BY <1>2, <2>2
            <4> QED BY <4>1, OneMore
        <3> HIDE DEF abwd
        <3> QED BY <2>2, <3>1
    <2> HIDE DEF abwd
    <2>4. /\ m \in Seq(StepType) /\ Len(m) = Len(abwd) + 1
          /\ (\A i \in 1..Len(abwd) : m[i] = abwd[i]) /\ m[Len(abwd) + 1] = w
        <3>1. abwd \in Seq(StepType) /\ w \in StepType
            BY <1>2, <2>3
        <3> QED BY <3>1, OneMore
    <2> HIDE DEF m
    <2> QED BY <2>3, <2>4
<1> HIDE DEF m
<1>4. \A i \in 1..5 : i = 1 \/ i = 2 \/ i = 3 \/ i = 4 \/ i = 5
    OBVIOUS
<1>5. \A i \in 1..5 : /\ m[i].do # "rebuildTasks"
                      /\ m[i].do = "remove" => i = 1
                      /\ m[i].do \in Checked => i = 4
    BY <1>2, <1>3, <1>4 DEF Checked
<1>6. Known(m, {}, 4, h)
    <2>1. Awaits(m[3], h) /\ 3 \in 0..(4 - 1) /\ 3 # 0 /\ \A k \in (3 + 1)..(4 - 1) : ~Busies(m[k], h)
        BY <1>2, <1>3 DEF Awaits
    <2> QED BY <2>1 DEF Known
<1>7. Safe(m, {})
    BY <1>2, <1>3, <1>5, <1>6 DEF Safe
<1>8. Ends(m, Groups)
    <2>1. \A f \in Groups : Awaits(m[5], f) /\ 5 \in 0..(6 - 1) /\ \A k \in (5 + 1)..(6 - 1) : ~Busies(m[k], f)
        BY <1>2, <1>3 DEF Awaits
    <2>2. \A f \in Groups : Known(m, Groups, 6, f)
        BY <2>1 DEF Known
    <2> QED BY <1>3, <2>2 DEF Ends
<1>9. AddedLater(m)
    <2>1. 4 \in (1 + 1)..5 /\ m[4].do = "add" /\ m[4].task = m[1].task
        BY <1>2, <1>3
    <2> QED BY <1>3, <1>5, <2>1 DEF AddedLater
<1> QED BY <1>1, <1>3, <1>5, <1>7, <1>8, <1>9 DEF Moves

\* The steps of reschedule, when the tasks of S go to new groups.
MoveAll(S, to) ==
    LET order == SetToSeq(S)
    IN  FlattenSeq([i \in DOMAIN order |-> Migration(order[i], OwnerOf(order[i]), to[order[i]])])
            \o <<Step("rebuildTasks", None, None, None)>>

\* The moves of reschedule, one after the other, and the new tasks_.
LEMMA RescheduleMethod ==
    ASSUME NEW S \in SUBSET Tasks, NEW to \in [S -> Groups], \A t \in S : OwnerOf(t) \in Groups
    PROVE  LET s == MoveAll(S, to)
           IN  s \in Seq(StepType) /\ Safe(s, {}) /\ Ends(s, Groups) /\ AddedLater(s) /\ RebuiltLast(s)
<1> DEFINE order == SetToSeq(S)
           move(i) == Migration(order[i], OwnerOf(order[i]), to[order[i]])
           ss == [i \in DOMAIN order |-> move(i)]
           f == FlattenSeq(ss)
           r == Step("rebuildTasks", None, None, None)
           s == f \o <<r>>
<1>0. MoveAll(S, to) = s
    BY DEF MoveAll
<1>1. IsFiniteSet(S)
    BY ManagerAssumption, FS_Subset
<1>2. order \in Seq(S)
    BY <1>1, SetToSeqRight
<1> HIDE DEF order
<1>3. Len(order) \in Nat /\ DOMAIN order = 1..Len(order) /\ \A i \in 1..Len(order) : order[i] \in S
    BY <1>2, LenProperties, ElementOfSeq
<1>4. \A i \in 1..Len(order) : move(i) \in Moves
    BY <1>3, MigrationMoves
<1> HIDE DEF move
<1>5. ss \in Seq(Moves)
    BY <1>3, <1>4
<1>6. Moves \subseteq Seq(StepType)
    BY DEF Moves
<1> HIDE DEF ss
<1>7. f \in Moves
    BY <1>5, <1>6, MovesThen, FlattenIn
<1>8. r \in StepType /\ r.do = "rebuildTasks" /\ r.group = None
    BY SigsIn DEF Step, StepType, Kinds
<1> HIDE DEF f, r
<1>9. <<r>> \in Seq(StepType) /\ Len(<<r>>) = 1 /\ <<r>>[1] = r
    BY <1>8
<1>10. Safe(<<r>>, {})
    BY <1>8, <1>9 DEF Safe, Checked
<1>11. \A g \in Groups : \A k \in 1..Len(<<r>>) : ~Busies(<<r>>[k], g)
    BY <1>8, <1>9, ProtocolAssumption DEF Busies, PG!UsedAssumption
<1>12. Ends(<<r>>, Groups)
    BY <1>9, <1>11, Calm DEF Ends
<1>13. f \in Seq(StepType) /\ Safe(f, {}) /\ Ends(f, Groups)
    BY <1>7 DEF Moves
<1>14. s \in Seq(StepType) /\ Safe(s, {}) /\ Ends(s, Groups)
    <2> DEFINE rs == <<r>>
    <2>1. rs \in Seq(StepType) /\ Safe(rs, {}) /\ Ends(rs, Groups)
        BY <1>9, <1>10, <1>12
    <2> HIDE DEF rs
    <2>2. f \o rs \in Seq(StepType) /\ Safe(f \o rs, {}) /\ Ends(f \o rs, Groups)
        BY <1>13, <2>1, SafeThen, EndsThen
    <2> QED BY <2>2 DEF rs
<1>15. /\ Len(f) \in Nat /\ Len(s) = Len(f) + 1 /\ s[Len(f) + 1] = r
       /\ \A i \in 1..Len(f) : s[i] = f[i]
    <2> DEFINE rs == <<r>>
    <2>1. rs \in Seq(StepType) /\ Len(rs) = 1 /\ rs[1] = r
        BY <1>9
    <2> HIDE DEF rs
    <2>2. /\ Len(f) \in Nat /\ Len(f \o rs) = Len(f) + 1 /\ (f \o rs)[Len(f) + 1] = r
          /\ \A i \in 1..Len(f) : (f \o rs)[i] = f[i]
        <3>1. /\ Len(f) \in Nat /\ Len(f \o rs) = Len(f) + Len(rs)
              /\ \A i \in 1..Len(f) : (f \o rs)[i] = f[i]
              /\ \A i \in 1..Len(rs) : (f \o rs)[Len(f) + i] = rs[i]
            <4> HIDE DEF s
            <4>1. f \in Seq(StepType) /\ rs \in Seq(StepType)
                BY <1>13, <2>1
            <4> QED BY <4>1, ConcatParts
        <3>2. 1 \in 1..Len(rs)
            BY <2>1
        <3> QED BY <2>1, <3>1, <3>2
    <2> QED BY <2>2 DEF rs
<1>16. AddedLater(f) /\ \A i \in 1..Len(f) : f[i].do # "rebuildTasks"
    BY <1>7 DEF Moves
<1> HIDE DEF s
<1>19. \A i \in 1..Len(s) : i \in 1..Len(f) \/ i = Len(s)
    BY <1>15
<1>20. RebuiltLast(s)
    BY <1>15, <1>16, <1>19 DEF RebuiltLast
<1>21. ASSUME NEW i \in 1..Len(s), s[i].do = "remove"
       PROVE  \E j \in (i + 1)..Len(s) : s[j].do = "add" /\ s[j].task = s[i].task
    <2>1. i \in 1..Len(f) /\ f[i].do = "remove"
        BY <1>8, <1>15, <1>19, <1>21
    <2>2. PICK j \in (i + 1)..Len(f) : f[j].do = "add" /\ f[j].task = f[i].task
        BY <1>16, <2>1 DEF AddedLater
    <2>3. j \in 1..Len(f) /\ j \in (i + 1)..Len(s)
        BY <1>15, <2>1
    <2> QED BY <1>15, <2>1, <2>2, <2>3
<1> QED BY <1>0, <1>14, <1>20, <1>21 DEF AddedLater

-----------------------------------------------------------------------------
\* The invariants.

\* The tasks the manager still has to send to groups.
Coming(seq) == {seq[i].task : i \in {k \in 1..Len(seq) : seq[k].do \in {"assign", "add"}}}

\* The task is in the manager's list of a group.
Held(t) == \E g \in Groups : \E i \in DOMAIN managerTasks[g] : managerTasks[g][i] = t

\* The manager waits for a task it takes from its group.
Removing == awaiting.group # None /\ awaiting.sig = "RESCHEDULE_REMOVE_TASK"

\* Every task is in the list of a group or still to be sent to one.
TaskInv ==
    /\ stage \in Stages
    /\ todo \in Seq(StepType)
    /\ taskList \in Seq(Tasks) /\ ToSet(taskList) = Tasks /\ IsInjective(taskList)
    /\ AddedLater(todo) /\ RebuiltLast(todo)
    /\ Removing => awaiting.task \in Coming(todo)
    /\ stage = "start" => todo \in Seq(Plain)
    /\ stage # "start" => \A t \in Tasks : Held(t) \/ t \in Coming(todo)

\* The groups the manager reads WAIT for.
Waiting == {g \in Groups : status[g] = "WAIT"}

\* The methods between a time step and a combination that leave groups at work.
Leaving == Anytime \ {"updateCombiParameters"}

\* Every group is known to wait when it is sent a command, by the waits before it.
StatusInv == Safe(todo, Waiting)

\* Between a time step and a combination, all groups wait when a method has ended.
SolvedInv == Operations \cap Leaving = {} /\ stage = "solved" => Ends(todo, Waiting)

\* The rest of a method, when its first step has been executed.
LEMMA TailFacts ==
    ASSUME NEW s \in Seq(StepType), s # <<>>, AddedLater(s), RebuiltLast(s)
    PROVE  /\ Head(s) = s[1] /\ s[1] \in StepType /\ Tail(s) \in Seq(StepType)
           /\ AddedLater(Tail(s)) /\ RebuiltLast(Tail(s))
           /\ s \in Seq(Plain) => Tail(s) \in Seq(Plain) /\ s[1] \in Plain
           /\ \A t \in Coming(s) :
                t \in Coming(Tail(s)) \/ (s[1].do \in {"assign", "add"} /\ s[1].task = t)
           /\ s[1].do = "remove" => s[1].task \in Coming(Tail(s))
           /\ s[1].do = "rebuildTasks" => Tail(s) = <<>>
<1> DEFINE r == Tail(s)
<1>1. /\ Len(s) \in Nat \ {0} /\ r \in Seq(StepType) /\ Head(s) = s[1]
      /\ Len(r) = Len(s) - 1 /\ \A k \in 1..(Len(s) - 1) : r[k] = s[k + 1]
    BY HeadTailProperties, LenProperties, EmptySeq
<1>2. s[1] \in StepType
    BY <1>1, ElementOfSeq
<1>3. s \in Seq(Plain) => Tail(s) \in Seq(Plain) /\ s[1] \in Plain
    BY <1>1, HeadTailProperties, ElementOfSeq
<1> HIDE DEF r
<1>4. ASSUME NEW i \in 1..Len(r), r[i].do = "remove"
      PROVE  \E j \in (i + 1)..Len(r) : r[j].do = "add" /\ r[j].task = r[i].task
    <2>1. i + 1 \in 1..Len(s) /\ r[i] = s[i + 1]
        BY <1>1
    <2>2. PICK j \in (i + 1 + 1)..Len(s) : s[j].do = "add" /\ s[j].task = s[i + 1].task
        BY <1>4, <2>1 DEF AddedLater
    <2>3. j - 1 \in (i + 1)..Len(r) /\ j - 1 \in 1..(Len(s) - 1) /\ (j - 1) + 1 = j
        BY <1>1, <2>1
    <2>4. r[j - 1] = s[j]
        BY <1>1, <2>3
    <2> QED BY <2>1, <2>2, <2>3, <2>4
<1>5. ASSUME NEW i \in 1..Len(r), r[i].do = "rebuildTasks" PROVE i = Len(r)
    <2>1. i + 1 \in 1..Len(s) /\ r[i] = s[i + 1]
        BY <1>1
    <2>2. i + 1 = Len(s)
        BY <1>5, <2>1 DEF RebuiltLast
    <2> QED BY <1>1, <2>2
<1>6. ASSUME NEW i \in 1..Len(s), s[i].do \in {"assign", "add"}
      PROVE  s[i].task \in Coming(r) \/ i = 1
    <2> SUFFICES ASSUME i # 1 PROVE s[i].task \in Coming(r)
        OBVIOUS
    <2>1. i - 1 \in 1..Len(r) /\ i - 1 \in 1..(Len(s) - 1) /\ (i - 1) + 1 = i
        BY <1>1
    <2>2. r[i - 1] = s[i]
        BY <1>1, <2>1
    <2> QED BY <1>6, <2>1, <2>2 DEF Coming
<1>7. \A t \in Coming(s) : t \in Coming(r) \/ (s[1].do \in {"assign", "add"} /\ s[1].task = t)
    BY <1>6 DEF Coming
<1>8. s[1].do = "remove" => s[1].task \in Coming(r)
    <2> SUFFICES ASSUME s[1].do = "remove" PROVE s[1].task \in Coming(r)
        OBVIOUS
    <2>1. PICK j \in (1 + 1)..Len(s) : s[j].do = "add" /\ s[j].task = s[1].task
        BY <1>1 DEF AddedLater
    <2>2. j \in 1..Len(s) /\ j # 1
        BY <1>1, <2>1
    <2> QED BY <1>6, <2>1, <2>2
<1>9. s[1].do = "rebuildTasks" => r = <<>>
    <2> SUFFICES ASSUME s[1].do = "rebuildTasks" PROVE r = <<>>
        OBVIOUS
    <2>1. 1 = Len(s)
        BY <1>1 DEF RebuiltLast
    <2> QED BY <1>1, <2>1, EmptySeq
<1> QED BY <1>1, <1>2, <1>3, <1>4, <1>5, <1>7, <1>8, <1>9 DEF AddedLater, RebuiltLast, r

\* Plain steps move no task.
LEMMA PlainFacts ==
    ASSUME NEW s \in Seq(Plain)
    PROVE  s \in Seq(StepType) /\ Coming(s) = {} /\ AddedLater(s) /\ RebuiltLast(s)
<1>1. \A i \in 1..Len(s) : s[i].do \in PlainKinds
    BY ElementOfSeq DEF Plain
<1>2. \A k \in PlainKinds : k \notin {"assign", "add", "remove", "rebuildTasks"}
    BY DEF PlainKinds
<1> QED BY <1>1, <1>2, Widen DEF Coming, AddedLater, RebuiltLast

\* The protocol's types, as ProcessManager's own.
LEMMA ListTypes ==
    ASSUME Proved!TypeOK
    PROVE  /\ managerTasks \in [Groups -> Seq(Tasks)] /\ status \in [Groups -> {"WAIT", "BUSY"}]
           /\ \A g \in Groups : DOMAIN managerTasks[g] = 1..Len(managerTasks[g]) /\ Len(managerTasks[g]) \in Nat
           /\ \A t : Held(t) => t \in Tasks
<1>1. managerTasks \in [Groups -> Seq(Tasks)] /\ status \in [Groups -> {"WAIT", "BUSY"}]
    BY DEF Proved!TypeOK, Proved!StatusType
<1>2. \A g \in Groups : DOMAIN managerTasks[g] = 1..Len(managerTasks[g]) /\ Len(managerTasks[g]) \in Nat
    BY <1>1, LenProperties
<1>3. \A g \in Groups : \A i \in DOMAIN managerTasks[g] : managerTasks[g][i] \in Tasks
    BY <1>1, <1>2, ElementOfSeq
<1> QED BY <1>1, <1>2, <1>3 DEF Held

\* A task that is stored is held, and the others stay held.
LEMMA StoreHolds ==
    ASSUME Proved!TypeOK, NEW g \in Groups, NEW sig, NEW t \in Tasks,
           PG!StoreTaskReferenceAndSend(g, sig, t)
    PROVE  /\ Held(t)' /\ \A u : Held(u) => Held(u)'
           /\ ~Removing /\ ~Removing' /\ awaiting' = awaiting
           /\ status' = [status EXCEPT ![g] = "BUSY"]
<1>1. /\ managerTasks' = [managerTasks EXCEPT ![g] = Append(@, t)]
      /\ awaiting = PG!NotAwaiting /\ awaiting' = awaiting
      /\ status' = [status EXCEPT ![g] = "BUSY"]
    BY DEF PG!StoreTaskReferenceAndSend, PG!CanSend, PG!SetProcessGroupBusyAndReceive
<1>2. managerTasks'[g] = Append(managerTasks[g], t) /\ \A h \in Groups : h # g => managerTasks'[h] = managerTasks[h]
    BY <1>1, ListTypes
<1> DEFINE n == Len(managerTasks[g])
<1>3. /\ n \in Nat /\ DOMAIN managerTasks[g] = 1..n /\ DOMAIN managerTasks'[g] = 1..(n + 1)
      /\ managerTasks'[g][n + 1] = t /\ \A i \in 1..n : managerTasks'[g][i] = managerTasks[g][i]
    BY <1>2, ListTypes, AppendProperties
<1> HIDE DEF n
<1>4. n + 1 \in 1..(n + 1) /\ \A i \in 1..n : i \in 1..(n + 1)
    BY <1>3
<1>5. Held(t)'
    BY <1>3, <1>4 DEF Held
<1>6. ASSUME NEW u, Held(u) PROVE Held(u)'
    <2>1. PICK h \in Groups : \E i \in DOMAIN managerTasks[h] : managerTasks[h][i] = u
        BY <1>6 DEF Held
    <2>2. \E i \in DOMAIN managerTasks'[h] : managerTasks'[h][i] = u
        BY <1>2, <1>3, <1>4, <2>1
    <2> QED BY <2>2 DEF Held
<1> QED BY <1>1, <1>5, <1>6 DEF Removing, PG!NotAwaiting

\* When the reply is taken, the manager holds all tasks but the one it has asked for.
LEMMA ReplyHolds ==
    ASSUME Proved!TypeOK, NEW g \in Groups, PG!ReceiveReply(g)
    PROVE  /\ \A u : Held(u) => Held(u)' \/ (Removing /\ u = awaiting.task)
           /\ ~Removing' /\ status' = [status EXCEPT ![g] = "BUSY"]
<1>1. /\ awaiting.group = g /\ awaiting' = PG!NotAwaiting
      /\ managerTasks' = IF awaiting.sig = "RESCHEDULE_REMOVE_TASK"
                         THEN [managerTasks EXCEPT ![g] = Proved!RemoveFirst(@, awaiting.task)]
                         ELSE managerTasks
      /\ status' = [status EXCEPT ![g] = "BUSY"]
    BY SameOperators DEF PG!ReceiveReply, PG!SetProcessGroupBusyAndReceive
<1>2. ~Removing'
    BY <1>1 DEF Removing, PG!NotAwaiting
<1>3. CASE awaiting.sig # "RESCHEDULE_REMOVE_TASK"
    BY <1>1, <1>2, <1>3 DEF Held
<1>4. CASE awaiting.sig = "RESCHEDULE_REMOVE_TASK"
    <2> DEFINE r == Proved!RemoveFirst(managerTasks[g], awaiting.task)
    <2>1. managerTasks'[g] = r /\ \A h \in Groups : h # g => managerTasks'[h] = managerTasks[h]
        BY <1>1, <1>4, ListTypes
    <2>2. Removing
        BY <1>1, <1>4, ProtocolAssumption DEF Removing, PG!UsedAssumption
    <2>3. \A j \in DOMAIN managerTasks[g] : managerTasks[g][j] # awaiting.task =>
                \E i \in DOMAIN r : r[i] = managerTasks[g][j]
        <3>1. managerTasks[g] \in Seq(Tasks)
            BY ListTypes
        <3>2. r \in Seq(Tasks)
            BY <3>1, ProvedAssumption, Proved!RemoveFirstType
        <3>3. DOMAIN r = 1..Len(r)
            BY <3>2, LenProperties
        <3>4. \A j \in 1..Len(managerTasks[g]) : managerTasks[g][j] # awaiting.task =>
                \E i \in 1..Len(r) : r[i] = managerTasks[g][j]
            BY <3>1, ProvedAssumption, Proved!RemoveFirstKeeps
        <3> QED BY <3>3, <3>4, ListTypes
    <2> HIDE DEF r
    <2>4. ASSUME NEW u, Held(u), u # awaiting.task PROVE Held(u)'
        <3>1. PICK h \in Groups : \E i \in DOMAIN managerTasks[h] : managerTasks[h][i] = u
            BY <2>4 DEF Held
        <3>2. \E i \in DOMAIN managerTasks'[h] : managerTasks'[h][i] = u
            BY <2>1, <2>3, <2>4, <3>1
        <3> QED BY <3>2 DEF Held
    <2> QED BY <1>1, <1>2, <2>2, <2>4
<1> QED BY <1>3, <1>4

\* What a step of the manager does to the tasks' lists, the statuses and tasks_.
LEMMA ManagerFacts ==
    ASSUME Proved!TypeOK, todo \in Seq(StepType), ManagerStep
    PROVE  /\ todo # <<>> /\ todo' = Tail(todo) /\ stage' = stage
           /\ \A g \in Groups :
                /\ Awaits(todo[1], g) => status'[g] = "WAIT"
                /\ status[g] = "WAIT" /\ ~Busies(todo[1], g) => status'[g] = "WAIT"
           /\ \A u : Held(u) => Held(u)' \/ (Removing /\ u = awaiting.task)
           /\ Removing' => \/ todo[1].do = "remove" /\ awaiting'.task = todo[1].task
                           \/ Removing /\ awaiting' = awaiting
           /\ todo[1].do \in {"assign", "add"} => ~Removing /\ \E t \in Tasks : todo[1].task = t /\ Held(t)'
           /\ \/ taskList' = taskList
              \/ /\ todo[1].do = "rebuildTasks"
                 /\ taskList' = FlattenSeq([g \in Groups |-> managerTasks[g]])
                 /\ UNCHANGED <<managerTasks, awaiting>>
<1> DEFINE G ==
           /\ todo # <<>> /\ todo' = Tail(todo) /\ stage' = stage
           /\ \A g \in Groups :
                /\ Awaits(todo[1], g) => status'[g] = "WAIT"
                /\ status[g] = "WAIT" /\ ~Busies(todo[1], g) => status'[g] = "WAIT"
           /\ \A u : Held(u) => Held(u)' \/ (Removing /\ u = awaiting.task)
           /\ Removing' => \/ todo[1].do = "remove" /\ awaiting'.task = todo[1].task
                           \/ Removing /\ awaiting' = awaiting
           /\ todo[1].do \in {"assign", "add"} => ~Removing /\ \E t \in Tasks : todo[1].task = t /\ Held(t)'
           /\ \/ taskList' = taskList
              \/ /\ todo[1].do = "rebuildTasks"
                 /\ taskList' = FlattenSeq([g \in Groups |-> managerTasks[g]])
                 /\ UNCHANGED <<managerTasks, awaiting>>
<1>0. todo # <<>> => Head(todo) = todo[1]
    BY HeadTailProperties
<1>1. status \in [Groups -> {"WAIT", "BUSY"}]
    BY ListTypes
<1>2. ASSUME UNCHANGED protocolVars PROVE /\ UNCHANGED <<status, awaiting, managerTasks>>
                                          /\ \A u : Held(u) => Held(u)'
                                          /\ Removing' <=> Removing
    BY <1>2 DEF protocolVars, Held, Removing
<1>3. CASE WaitAllFinished \/ WaitForPG \/ FetchInstructionStep \/ TakeValues \/ ExchangeDsgus
    BY <1>0, <1>1, <1>2, <1>3 DEF WaitAllFinished, WaitForPG, FetchInstructionStep, TakeValues,
       ExchangeDsgus, Do, methodVars, Awaits
<1>4. CASE ReduceSizes
    BY <1>0, <1>1, <1>2, <1>4 DEF ReduceSizes, Do, Awaits
<1>5. CASE RebuildTasks
    BY <1>0, <1>1, <1>2, <1>5 DEF RebuildTasks, Do, Awaits, protocolVars
<1>6. ASSUME NEW g \in Groups, Runfirst(g) \/ RescheduleAddTask(g) PROVE G
    <2>1. PICK t \in Tasks, sig \in {"RUN_FIRST", "RESCHEDULE_ADD_TASK"} :
            Head(todo).task = t /\ PG!StoreTaskReferenceAndSend(g, sig, t)
        BY <1>6 DEF Runfirst, RescheduleAddTask
    <2>2. /\ Held(t)' /\ \A u : Held(u) => Held(u)'
          /\ ~Removing /\ ~Removing' /\ awaiting' = awaiting
          /\ status' = [status EXCEPT ![g] = "BUSY"]
        BY <2>1, StoreHolds
    <2>3. /\ todo # <<>> /\ todo' = Tail(todo) /\ UNCHANGED methodVars
          /\ Head(todo).do = "assign" \/ (Head(todo).do = "add" /\ Head(todo).group = g)
        BY <1>6 DEF Runfirst, RescheduleAddTask, Do, DoFor
    <2>4. \A h \in Groups : ~Busies(todo[1], h) => h # g
        BY <1>0, <2>3 DEF Busies
    <2>5. \A h \in Groups : ~Awaits(todo[1], h)
        BY <1>0, <2>3 DEF Awaits
    <2>6. \A h \in Groups : status[h] = "WAIT" /\ ~Busies(todo[1], h) => status'[h] = "WAIT"
        BY <1>1, <2>2, <2>4
    <2>7. todo[1].task = t /\ Held(t)'
        BY <1>0, <2>1, <2>2, <2>3
    <2>8. UNCHANGED <<stage, taskList>>
        BY <2>3 DEF methodVars
    <2>9. ~(todo[1].do = "remove")
        BY <1>0, <2>3
    <2> HIDE DEF G
    <2>10. /\ todo # <<>> /\ todo' = Tail(todo) /\ stage' = stage
           /\ \A h \in Groups :
                /\ Awaits(todo[1], h) => status'[h] = "WAIT"
                /\ status[h] = "WAIT" /\ ~Busies(todo[1], h) => status'[h] = "WAIT"
        BY <2>3, <2>5, <2>6, <2>8
    <2>11. /\ \A u : Held(u) => Held(u)' \/ (Removing /\ u = awaiting.task)
           /\ ~Removing'
           /\ todo[1].do \in {"assign", "add"} => ~Removing /\ \E u \in Tasks : todo[1].task = u /\ Held(u)'
        BY <2>2, <2>7
    <2> QED BY <2>8, <2>10, <2>11 DEF G
<1>7. ASSUME NEW g \in Groups, Runnext(g) \/ SendCommand(g) PROVE G
    <2>1. /\ todo # <<>> /\ todo' = Tail(todo) /\ UNCHANGED methodVars /\ Head(todo).group = g
          /\ Head(todo).do \in {"runNext", "send", "sendUnchecked", "exit"}
        BY <1>7 DEF Runnext, SendCommand, Do, DoFor
    <2>2. /\ UNCHANGED <<managerTasks, awaiting>>
          /\ status' = status \/ status' = [status EXCEPT ![g] = "BUSY"]
        BY <1>7 DEF Runnext, SendCommand, protocolVars, PG!RunNext, PG!SendSignalAndReceive,
           PG!SendUnchecked, PG!Exit, PG!SetProcessGroupBusyAndReceive
    <2>3. \A h \in Groups : (~Busies(todo[1], h) => h # g) /\ ~Awaits(todo[1], h)
        BY <1>0, <2>1 DEF Busies, Awaits
    <2>4. (\A u : Held(u) => Held(u)') /\ (Removing' <=> Removing)
        BY <2>2 DEF Held, Removing
    <2> QED BY <1>0, <1>1, <2>1, <2>2, <2>3, <2>4 DEF methodVars
<1>8. ASSUME NEW g \in Groups, Request(g) PROVE G
    <2>1. /\ todo # <<>> /\ todo' = Tail(todo) /\ UNCHANGED methodVars
          /\ Head(todo).do \in {"norms", "remove"}
        BY <1>8 DEF Request, Do, DoFor
    <2>2. /\ UNCHANGED <<managerTasks, status>>
          /\ Head(todo).do = "remove" => awaiting'.task = Head(todo).task
          /\ Head(todo).do = "norms" => awaiting'.sig \in PG!NormSignals
        BY <1>8 DEF Request, Do, DoFor, PG!GetLpNorms, PG!RescheduleRemoveTask
    <2>3. Head(todo).do = "norms" => ~Removing'
        BY <2>2 DEF Removing, PG!NormSignals
    <2>4. \A h \in Groups : ~Awaits(todo[1], h)
        BY <1>0, <2>1 DEF Awaits
    <2>5. \A u : Held(u) => Held(u)'
        BY <2>2 DEF Held
    <2> QED BY <1>0, <2>1, <2>2, <2>3, <2>4, <2>5 DEF methodVars
<1>9. ASSUME NEW g \in Groups, TakeReply(g) PROVE G
    <2>1. /\ todo # <<>> /\ todo' = Tail(todo) /\ UNCHANGED methodVars /\ Head(todo).group = g
          /\ Head(todo).do = "reply"
        BY <1>9 DEF TakeReply, Do, DoFor
    <2>2. /\ \A u : Held(u) => Held(u)' \/ (Removing /\ u = awaiting.task)
          /\ ~Removing' /\ status' = [status EXCEPT ![g] = "BUSY"]
        BY <1>9, ReplyHolds DEF TakeReply
    <2>3. \A h \in Groups : (~Busies(todo[1], h) => h # g) /\ ~Awaits(todo[1], h)
        BY <1>0, <2>1 DEF Busies, Awaits
    <2> QED BY <1>0, <1>1, <2>1, <2>2, <2>3 DEF methodVars
<1> QED BY <1>3, <1>4, <1>5, <1>6, <1>7, <1>8, <1>9 DEF ManagerStep

\* What any other step but a call of a method leaves alone.
LEMMA OtherFacts ==
    ASSUME Proved!TypeOK, [Next]_vars
    PROVE  \/ CallMethod
           \/ ManagerStep
           \/ /\ UNCHANGED <<todo, stage, taskList, managerTasks, awaiting>>
              /\ \A g \in Groups : status[g] = "WAIT" => status'[g] = "WAIT"
<1> DEFINE G == /\ UNCHANGED <<todo, stage, taskList, managerTasks, awaiting>>
                /\ \A g \in Groups : status[g] = "WAIT" => status'[g] = "WAIT"
<1> USE DEF managerSide, protocolVars, methodVars
<1>1. CASE UNCHANGED vars
    BY <1>1 DEF vars
<1>2. CASE Collective
    BY <1>2 DEF Collective, ReduceSubspaceSizes, ReduceGlobal, ReduceValues
<1>3. CASE RemoteFileArrives
    BY <1>3 DEF RemoteFileArrives
<1>4. ASSUME NEW g \in Groups, HandlerStep(g) PROVE G
    BY <1>4 DEF HandlerStep, InitDsg, ReduceLocal, Distribute, SendDsg, RecvDsg, BcastDsg,
       WaitBcast, TakeDsg, GatherSizes, ScatterSizes, BcastSizes, TakeSizes, ZeroDsgsData,
       WriteDsg, ReadReduce, RemoveToken, SendValues
<1>5. ASSUME NEW g \in Groups, ReceiveSignal(g) \/ Execute(g) \/ SendStatus(g) PROVE G
    BY <1>5 DEF ReceiveSignal, Execute, SendStatus, PG!ReceiveSignal, PG!Execute, PG!SendStatus,
       PG!managerVars
<1>6. ASSUME NEW g \in Groups, DeliverStatus(g) PROVE G
    <2>1. /\ status' = [status EXCEPT ![g] = "WAIT"]
          /\ UNCHANGED <<todo, stage, taskList, managerTasks, awaiting>>
        BY <1>6 DEF DeliverStatus, PG!DeliverStatus
    <2> QED BY <2>1, ListTypes
<1> QED BY <1>1, <1>2, <1>3, <1>4, <1>5, <1>6 DEF Next, WorkerStep

\* A call of a method but runfirst and reschedule.
LEMMA CallFacts ==
    ASSUME TaskInv, NEW op, Call(op)
    PROVE  /\ todo = <<>> /\ op \in Operations /\ op \in Allowed[stage] /\ stage' \in Stages
           /\ todo' = Script(op)
           /\ UNCHANGED <<taskList, managerTasks, awaiting, status>>
           /\ stage' = "solved" => op \in {"runfirst", "runnext"} \/ stage = "solved"
           /\ op \in Leaving \/ op \in Synchronous \/ stage' # "solved"
           /\ op = "exit" => stage' # "solved"
           /\ op # "runfirst" => (stage' = "start" <=> stage = "start")
           /\ op = "runfirst" => stage' # "start"
<1>1. /\ todo = <<>> /\ op \in Operations /\ op \in Allowed[stage] /\ todo' = Script(op)
      /\ stage' = StageAfter(op) /\ UNCHANGED <<taskList, managerTasks, awaiting, status>>
    BY DEF Call, protocolVars
<1>2. stage \in Stages
    BY DEF TaskInv
<1>3. stage \in {"start", "solved", "reduced", "combined"}
    BY <1>1, <1>2 DEF Stages, Allowed
<1>4. CASE op \in {"runfirst", "runnext"}
    BY <1>1, <1>3, <1>4 DEF StageAfter, Stages, Allowed, Anytime, Synchronous
<1>5. CASE op \in {"combineThirdLevelFileBasedWrite", "combine", "combineThirdLevel",
                   "combineThirdLevelFileBased", "combineThirdLevelFileBasedReadReduce", "exit"}
    BY <1>1, <1>3, <1>5 DEF StageAfter, Stages, Allowed, Anytime
<1>6. CASE op \notin {"runfirst", "runnext", "combineThirdLevelFileBasedWrite", "combine",
                      "combineThirdLevel", "combineThirdLevelFileBased",
                      "combineThirdLevelFileBasedReadReduce", "exit"}
    <2>1. stage' = stage
        BY <1>1, <1>6 DEF StageAfter
    <2>2. stage = "solved" => op \in Leaving \/ op \in Synchronous
        BY <1>1, <1>6 DEF Allowed, Anytime, Leaving, Synchronous
    <2> QED BY <1>1, <1>2, <1>3, <1>6, <2>1, <2>2
<1> QED BY <1>4, <1>5, <1>6

\* Before runfirst no group has a task and tasks_ has all.
LEMMA TaskInit == Init => TaskInv
<1> SUFFICES ASSUME Init PROVE TaskInv
    OBVIOUS
<1>1. stage = "start" /\ todo = <<>> /\ taskList = SetToSeq(Tasks) /\ awaiting = PG!NotAwaiting
    BY DEF Init, PG!Init
<1>2. taskList \in Seq(Tasks) /\ ToSet(taskList) = Tasks /\ IsInjective(taskList)
    BY <1>1, SetToSeqRight, ManagerAssumption
<1>3. todo \in Seq(Plain)
    BY <1>1
<1>4. ~Removing
    BY <1>1 DEF Removing, PG!NotAwaiting
<1> QED BY <1>1, <1>2, <1>3, <1>4, PlainFacts DEF TaskInv, Stages

\* All tasks are in a list when the method has ended.
LEMMA AllHeld ==
    ASSUME TaskInv, todo = <<>>, stage # "start"
    PROVE  ~Removing /\ \A t \in Tasks : Held(t)
<1>1. Coming(todo) = {}
    <2>1. todo \in Seq(Plain)
        OBVIOUS
    <2> QED BY <2>1, PlainFacts
<1> QED BY <1>1 DEF TaskInv

\* tasks_ rebuilt from the lists.
LEMMA Rebuilt ==
    ASSUME Proved!TypeOK, Proved!EachTaskOnce, \A t \in Tasks : Held(t)
    PROVE  LET f == FlattenSeq([g \in Groups |-> managerTasks[g]])
           IN  /\ f \in Seq(Tasks) /\ ToSet(f) = Tasks /\ IsInjective(f)
               /\ UNION {ToSet(managerTasks[g]) : g \in Groups} = Tasks
<1> DEFINE ss == [g \in Groups |-> managerTasks[g]]
<1>1. /\ managerTasks \in [Groups -> Seq(Tasks)] /\ NumGroups \in Nat /\ Groups = 1..NumGroups
      /\ \A t : Held(t) => t \in Tasks
    BY ListTypes, ManagerAssumption DEF Groups
<1>2. ss = managerTasks /\ ss \in Seq(Seq(Tasks)) /\ DOMAIN ss = Groups
    BY <1>1
<1>3. Disjoint(ss)
    BY <1>2 DEF Disjoint, Proved!EachTaskOnce
<1>4. UNION {ToSet(managerTasks[g]) : g \in Groups} = Tasks
    BY <1>1 DEF Held, ToSet
<1> HIDE DEF ss
<1>5. FlattenSeq(ss) \in Seq(Tasks) /\ ToSet(FlattenSeq(ss)) = UNION {ToSet(ss[k]) : k \in DOMAIN ss}
      /\ IsInjective(FlattenSeq(ss))
    BY <1>2, <1>3, FlattenOnce
<1>6. FlattenSeq(ss) \in Seq(Tasks) /\ ToSet(FlattenSeq(ss)) = Tasks /\ IsInjective(FlattenSeq(ss))
    BY <1>2, <1>4, <1>5
<1> QED BY <1>4, <1>6 DEF ss

\* A step of the manager: a task it takes from a group is one it will give to another.
LEMMA TaskManager ==
    ASSUME Proved!TypeOK, Proved!EachTaskOnce, TaskInv, ManagerStep
    PROVE  TaskInv'
<1>1. /\ stage \in Stages /\ todo \in Seq(StepType)
      /\ taskList \in Seq(Tasks) /\ ToSet(taskList) = Tasks /\ IsInjective(taskList)
      /\ AddedLater(todo) /\ RebuiltLast(todo)
      /\ Removing => awaiting.task \in Coming(todo)
      /\ stage = "start" => todo \in Seq(Plain)
      /\ stage # "start" => \A t \in Tasks : Held(t) \/ t \in Coming(todo)
    BY DEF TaskInv
<1>2. /\ todo # <<>> /\ todo' = Tail(todo) /\ stage' = stage
      /\ \A u : Held(u) => Held(u)' \/ (Removing /\ u = awaiting.task)
      /\ Removing' => \/ todo[1].do = "remove" /\ awaiting'.task = todo[1].task
                      \/ Removing /\ awaiting' = awaiting
      /\ todo[1].do \in {"assign", "add"} =>
            ~Removing /\ \E t \in Tasks : todo[1].task = t /\ Held(t)'
      /\ \/ taskList' = taskList
         \/ /\ todo[1].do = "rebuildTasks"
            /\ taskList' = FlattenSeq([g \in Groups |-> managerTasks[g]])
            /\ UNCHANGED <<managerTasks, awaiting>>
    BY <1>1, ManagerFacts
<1>3. /\ todo[1] \in StepType /\ todo' \in Seq(StepType) /\ AddedLater(todo') /\ RebuiltLast(todo')
      /\ todo \in Seq(Plain) => todo' \in Seq(Plain) /\ todo[1] \in Plain
      /\ \A t \in Coming(todo) :
            t \in Coming(todo') \/ (todo[1].do \in {"assign", "add"} /\ todo[1].task = t)
      /\ todo[1].do = "remove" => todo[1].task \in Coming(todo')
      /\ todo[1].do = "rebuildTasks" => todo' = <<>>
    BY <1>1, <1>2, TailFacts
<1>4. AddedLater(todo)' /\ RebuiltLast(todo)'
    BY <1>3 DEF AddedLater, RebuiltLast
<1>5. Coming(todo)' = Coming(todo')
    BY DEF Coming
<1>6. taskList' \in Seq(Tasks) /\ ToSet(taskList') = Tasks /\ IsInjective(taskList')
    <2>1. CASE taskList' = taskList
        BY <1>1, <2>1
    <2>2. CASE todo[1].do = "rebuildTasks" /\ taskList' = FlattenSeq([g \in Groups |-> managerTasks[g]])
        <3>1. stage # "start"
            BY <1>1, <1>3, <2>2 DEF Plain, PlainKinds
        <3>2. \A t \in Tasks : Held(t)
            <4>1. Coming(todo') = {}
                BY <1>3, <2>2 DEF Coming
            <4> QED BY <1>1, <1>3, <2>2, <3>1, <4>1
        <3> QED BY <2>2, <3>2, Rebuilt
    <2> QED BY <1>2, <2>1, <2>2
<1>7. Removing' => awaiting'.task \in Coming(todo')
    BY <1>1, <1>2, <1>3
<1>8. ASSUME stage # "start", NEW t \in Tasks PROVE Held(t)' \/ t \in Coming(todo')
    <2>1. CASE Held(t) /\ Removing /\ t = awaiting.task
        BY <1>1, <1>2, <1>3, <2>1
    <2>2. CASE Held(t) /\ Held(t)'
        BY <2>2
    <2>3. CASE t \in Coming(todo)
        BY <1>2, <1>3, <2>3
    <2> QED BY <1>1, <1>2, <1>8, <2>1, <2>2, <2>3
<1> QED BY <1>1, <1>2, <1>3, <1>4, <1>5, <1>6, <1>7, <1>8 DEF TaskInv

\* reschedule finds the group of a task.
LEMMA TaskOwned ==
    ASSUME Proved!TypeOK, NEW t, Held(t)
    PROVE  OwnerOf(t) \in Groups
<1>1. \E g \in Groups : Contains(managerTasks[g], t)
    BY ListTypes DEF Held, Contains
<1> QED BY <1>1 DEF OwnerOf

\* A call of reschedule.
LEMMA RescheduleFacts ==
    ASSUME Proved!TypeOK, TaskInv, CallReschedule
    PROVE  /\ todo = <<>> /\ stage = "combined" /\ "reschedule" \in Operations
           /\ todo' \in Seq(StepType) /\ AddedLater(todo') /\ RebuiltLast(todo')
           /\ Safe(todo', {}) /\ Ends(todo', Groups)
           /\ UNCHANGED <<stage, taskList, managerTasks, awaiting, status>>
<1>1. todo = <<>> /\ stage = "combined" /\ "reschedule" \in Operations
      /\ UNCHANGED <<stage, taskList, managerTasks, awaiting, status>>
    BY DEF CallReschedule, protocolVars
<1>2. PICK S \in SUBSET Tasks : \E to \in [S -> Groups] : todo' = MoveAll(S, to)
    BY DEF CallReschedule, MoveAll
<1>3. \A t \in S : OwnerOf(t) \in Groups
    BY <1>1, AllHeld, TaskOwned
<1> QED BY <1>1, <1>2, <1>3, RescheduleMethod

\* A method is called.
LEMMA TaskCall ==
    ASSUME Proved!TypeOK, TaskInv, CallMethod
    PROVE  TaskInv'
<1>1. /\ taskList \in Seq(Tasks) /\ ToSet(taskList) = Tasks /\ IsInjective(taskList)
      /\ Removing => awaiting.task \in Coming(todo)
    BY DEF TaskInv
<1>2. ASSUME UNCHANGED <<taskList, managerTasks, awaiting>>, todo = <<>>,
             stage' \in Stages, todo' \in Seq(StepType), AddedLater(todo'), RebuiltLast(todo'),
             stage' = "start" => todo' \in Seq(Plain),
             stage' # "start" /\ stage = "start" => Tasks \subseteq Coming(todo')
      PROVE  TaskInv'
    <2>1. ~Removing'
        <3>1. todo \in Seq(Plain)
            BY <1>2
        <3> QED BY <1>1, <1>2, <3>1, PlainFacts DEF Removing
    <2>2. stage' # "start" => \A t \in Tasks : Held(t)' \/ t \in Coming(todo')
        BY <1>2, AllHeld DEF Held
    <2>3. AddedLater(todo)' /\ RebuiltLast(todo)' /\ Coming(todo)' = Coming(todo')
        BY <1>2 DEF AddedLater, RebuiltLast, Coming
    <2> QED BY <1>1, <1>2, <2>1, <2>2, <2>3 DEF TaskInv
<1>3. CASE CallReschedule
    BY <1>2, <1>3, RescheduleFacts DEF Stages
<1>4. ASSUME NEW op \in Operations, Call(op) PROVE TaskInv'
    <2>1. /\ todo = <<>> /\ op \in Allowed[stage] /\ stage' \in Stages /\ stage \in Stages
          /\ todo' = Script(op) /\ UNCHANGED <<taskList, managerTasks, awaiting>>
          /\ op # "runfirst" => (stage' = "start" <=> stage = "start")
          /\ op = "runfirst" => stage' # "start"
        BY <1>4, CallFacts DEF TaskInv
    <2>2. CASE op # "runfirst"
        <3>1. todo' \in Seq(Plain)
            BY <2>1, <2>2, PlainScripts
        <3> QED BY <1>2, <2>1, <2>2, <3>1, PlainFacts
    <2>3. CASE op = "runfirst"
        <3> DEFINE s == Script("runfirst")
        <3>1. /\ s \in Seq(StepType)
              /\ \A i \in 1..Len(s) : s[i].do \notin {"remove", "rebuildTasks"}
              /\ \A i \in DOMAIN taskList : \E k \in 1..Len(s) : s[k].do = "assign" /\ s[k].task = taskList[i]
            BY <1>1, RunfirstMethod
        <3> HIDE DEF s
        <3>2. AddedLater(s) /\ RebuiltLast(s)
            BY <3>1 DEF AddedLater, RebuiltLast
        <3>3. Tasks \subseteq Coming(s)
            BY SMTT(30), <1>1, <3>1 DEF Coming, ToSet
        <3>4. todo' = s
            BY <2>1, <2>3 DEF s
        <3> QED BY <1>2, <2>1, <2>3, <3>1, <3>2, <3>3, <3>4
    <2> QED BY <2>2, <2>3
<1> QED BY <1>3, <1>4 DEF CallMethod

\* No step loses a task.
LEMMA TaskNext == Proved!TypeOK /\ Proved!EachTaskOnce /\ TaskInv /\ [Next]_vars => TaskInv'
<1> SUFFICES ASSUME Proved!TypeOK, Proved!EachTaskOnce, TaskInv, [Next]_vars PROVE TaskInv'
    OBVIOUS
<1>1. CASE UNCHANGED <<todo, stage, taskList, managerTasks, awaiting>>
    BY <1>1 DEF TaskInv, Held, Removing, Coming, AddedLater, RebuiltLast
<1> QED BY <1>1, OtherFacts, TaskManager, TaskCall

\* Nothing is left to wait for at the end of a method.
LEMMA EmptyEnds ==
    ASSUME NEW W, Ends(<<>>, W)
    PROVE  Groups \subseteq W
<1>1. Len(<<>>) + 1 = 1 /\ 1 - 1 = 0
    BY EmptySeq
<1> QED BY <1>1 DEF Ends, Known

\* All groups wait in the beginning.
LEMMA StatusInit == Init => StatusInv /\ SolvedInv
<1> SUFFICES ASSUME Init PROVE StatusInv /\ SolvedInv
    OBVIOUS
<1>1. todo = <<>> /\ Waiting = Groups /\ stage = "start"
    BY DEF Init, PG!Init, Waiting
<1>2. Safe(<<>>, Groups)
    BY Concat DEF Method
<1> QED BY <1>1, <1>2 DEF StatusInv, SolvedInv

\* A step of the manager finds out as much about the statuses as the method relies on.
LEMMA WaitingTail ==
    ASSUME Proved!TypeOK, TaskInv, ManagerStep
    PROVE  /\ stage' = stage
           /\ Safe(todo, Waiting) => Safe(todo', Waiting')
           /\ Ends(todo, Waiting) => Ends(todo', Waiting')
<1>0. todo \in Seq(StepType)
    BY DEF TaskInv
<1>1. /\ todo # <<>> /\ todo' = Tail(todo) /\ stage' = stage
      /\ \A g \in Groups :
            /\ Awaits(todo[1], g) => status'[g] = "WAIT"
            /\ status[g] = "WAIT" /\ ~Busies(todo[1], g) => status'[g] = "WAIT"
    BY <1>0, ManagerFacts
<1> DEFINE V == Waiting'
           W == Waiting
<1>2. \A g \in Groups : /\ Awaits(todo[1], g) => g \in V
                        /\ g \in W /\ ~Busies(todo[1], g) => g \in V
    BY <1>1 DEF Waiting
<1> HIDE DEF V, W
<1>3. /\ Safe(todo, W) => Safe(Tail(todo), V)
      /\ Ends(todo, W) => Ends(Tail(todo), V)
    BY <1>0, <1>1, <1>2, SafeTail
<1> QED BY <1>1, <1>3 DEF V, W

\* A method is called: only unifySubspaceSizesThirdLevel relies on what was called before it.
LEMMA CallWaiting ==
    ASSUME TaskInv, NEW op, Call(op)
    PROVE  /\ Waiting' = Waiting
           /\ op # Unify => Safe(todo', Waiting')
           /\ op = Unify /\ Groups \subseteq Waiting => Safe(todo', Waiting')
           /\ op \in {"runfirst", "runnext"} => Ends(todo', Waiting')
           /\ op \in Synchronous /\ op # "exit" /\ Groups \subseteq Waiting => Ends(todo', Waiting')
<1>0. taskList \in Seq(Tasks) /\ stage \in Stages
    BY DEF TaskInv
<1>1. op \in Allowed[stage] /\ todo' = Script(op) /\ Waiting' = Waiting
    BY CallFacts DEF Waiting
<1>2. Safe(todo', {}) => Safe(todo', Waiting')
    BY SafeMore
<1>3. Ends(todo', {}) => Ends(todo', Waiting')
    BY SafeMore
<1>4. Groups \subseteq Waiting' =>
        /\ Safe(todo', Groups) => Safe(todo', Waiting')
        /\ Ends(todo', Groups) => Ends(todo', Waiting')
    BY SafeMore
<1>5. CASE op = "runfirst"
    <2>1. Safe(todo', {}) /\ Ends(todo', {})
        BY <1>0, <1>1, <1>5, RunfirstMethod
    <2>2. op # Unify
        BY <1>5 DEF Unify
    <2> QED BY <1>1, <1>2, <1>3, <2>1, <2>2
<1>6. CASE op # "runfirst"
    <2>1. /\ op # Unify => Safe(todo', {})
          /\ op = Unify => Safe(todo', Groups)
          /\ op \in Synchronous /\ op # "exit" => Ends(todo', Groups)
        BY <1>0, <1>1, <1>6, PlainScripts DEF Guarded
    <2>2. op = "runnext" => Ends(todo', {})
        BY <1>1, GroupRounds
    <2> QED BY <1>1, <1>2, <1>3, <1>4, <1>6, <2>1, <2>2
<1> QED BY <1>5, <1>6

\* Safety is kept when unifySubspaceSizesThirdLevel is called with all groups waiting.
LEMMA StatusNext ==
    ASSUME Proved!TypeOK, TaskInv, StatusInv, [Next]_vars,
           Call(Unify) => Groups \subseteq Waiting
    PROVE  StatusInv'
<1>1. Safe(todo, Waiting)
    BY DEF StatusInv
<1>2. SUFFICES Safe(todo', Waiting')
    BY DEF StatusInv, Safe, Known
<1>3. CASE ManagerStep
    BY <1>1, <1>3, WaitingTail
<1>4. CASE UNCHANGED <<todo, stage>> /\ \A g \in Groups : status[g] = "WAIT" => status'[g] = "WAIT"
    <2>1. Waiting \subseteq Waiting'
        BY <1>4 DEF Waiting
    <2> QED BY <1>1, <1>4, <2>1, SafeMore
<1>5. CASE CallReschedule
    <2>1. Safe(todo', {})
        BY <1>5, RescheduleFacts
    <2> QED BY <2>1, SafeMore
<1>6. ASSUME NEW op \in Operations, Call(op) PROVE Safe(todo', Waiting')
    BY <1>6, CallWaiting
<1> QED BY <1>3, <1>4, <1>5, <1>6, OtherFacts DEF CallMethod

\* The methods before a combination leave all groups waiting but for those of Leaving.
LEMMA SolvedNext ==
    ASSUME Proved!TypeOK, TaskInv, SolvedInv, [Next]_vars
    PROVE  SolvedInv'
<1>1. SUFFICES ASSUME Operations \cap Leaving = {}, stage' = "solved"
               PROVE  Ends(todo', Waiting')
    BY DEF SolvedInv, Ends, Known
<1>2. stage = "solved" => Ends(todo, Waiting)
    BY <1>1 DEF SolvedInv
<1>3. CASE ManagerStep
    BY <1>1, <1>2, <1>3, WaitingTail
<1>4. CASE UNCHANGED <<todo, stage>> /\ \A g \in Groups : status[g] = "WAIT" => status'[g] = "WAIT"
    <2>1. Waiting \subseteq Waiting'
        BY <1>4 DEF Waiting
    <2> QED BY <1>1, <1>2, <1>4, <2>1, SafeMore
<1>5. CASE CallReschedule
    BY <1>1, <1>5, RescheduleFacts
<1>6. ASSUME NEW op \in Operations, Call(op) PROVE Ends(todo', Waiting')
    <2>1. /\ todo = <<>>
          /\ op \in {"runfirst", "runnext"} \/ stage = "solved"
          /\ op \in Synchronous /\ op # "exit"
        BY <1>1, <1>6, CallFacts
    <2>2. stage = "solved" => Groups \subseteq Waiting
        BY <1>2, <2>1, EmptyEnds
    <2> QED BY <1>6, <2>1, <2>2, CallWaiting
<1> QED BY <1>3, <1>4, <1>5, <1>6, OtherFacts DEF CallMethod

\* The next step of a safe method finds its group waiting.
LEMMA StatusAsserted == todo \in Seq(StepType) /\ StatusInv => AssertionsHold
<1> SUFFICES ASSUME todo \in Seq(StepType), StatusInv, todo # <<>>, Head(todo).do \in Checked
             PROVE  status[Head(todo).group] = "WAIT"
    BY DEF AssertionsHold
<1>1. Head(todo) = todo[1] /\ 1 \in 1..Len(todo)
    BY HeadTailProperties, LenProperties, EmptySeq
<1>2. Known(todo, Waiting, 1, todo[1].group)
    BY <1>1 DEF StatusInv, Safe
<1>3. todo[1].group \in Waiting
    BY <1>2 DEF Known
<1> QED BY <1>1, <1>3 DEF Waiting

\* Nothing is still to be sent when a method has ended, so the lists have all tasks.
LEMMA TasksRight ==
    Proved!TypeOK /\ Proved!EachTaskOnce /\ TaskInv => TasksConserved
<1> SUFFICES ASSUME Proved!TypeOK, Proved!EachTaskOnce, TaskInv, todo = <<>>, stage # "start"
             PROVE  /\ IsInjective(FlattenSeq([g \in Groups |-> managerTasks[g]]))
                    /\ ToSet(taskList) = Tasks /\ Len(taskList) = Cardinality(Tasks)
                    /\ UNION {ToSet(managerTasks[g]) : g \in Groups} = Tasks
    BY DEF TasksConserved
<1>1. \A t \in Tasks : Held(t)
    BY AllHeld
<1>2. taskList \in Seq(Tasks) /\ ToSet(taskList) = Tasks /\ IsInjective(taskList)
    BY DEF TaskInv
<1>3. Len(taskList) = Cardinality(Tasks)
    BY <1>2, OnceEach
<1> QED BY <1>1, <1>2, <1>3, Rebuilt

\* The invariants of the tasks hold throughout.
LEMMA TasksInv ==
    Spec => [](Proved!TypeOK /\ Proved!EachTaskOnce /\ TaskInv)
<1>1. Init => Proved!TypeOK /\ Proved!EachTaskOnce /\ TaskInv
    BY InitSimulation, ProvedAssumption, Proved!InitType, Proved!InitOnce, TaskInit
<1>2. Proved!TypeOK /\ Proved!EachTaskOnce /\ TaskInv /\ [Next]_vars
        => (Proved!TypeOK /\ Proved!EachTaskOnce /\ TaskInv)'
    BY StepSimulation, ProvedAssumption, Proved!NextType, Proved!NextOnce, TaskNext
<1> QED BY <1>1, <1>2, PTL DEF Spec

\* Whatever methods the application calls, in whatever order, with tasks moved between groups as
\* often as it likes and commands still at work: between two methods the groups' lists have every
\* task once, and tasks_ has every task once (runfirst, rescheduleRemoveTask, rescheduleAddTask,
\* the rebuilding of tasks_).
THEOREM TasksKept == Spec => []TasksConserved
BY TasksInv, TasksRight, PTL

\* The assertions of the methods hold, those of ProcessGroupManager and the return value of
\* rescheduleAddTask that reschedule ignores: a command is sent to a group whose status is WAIT.
\* unifySubspaceSizesThirdLevel alone waits for nobody, so it must be called with all groups waiting.
THEOREM AssertionsKept ==
    Spec /\ [][Call(Unify) => Groups \subseteq Waiting]_vars => []AssertionsHold
<1>1. Init => StatusInv
    BY StatusInit
<1>2. Proved!TypeOK /\ TaskInv /\ StatusInv /\ [Next]_vars
        /\ [Call(Unify) => Groups \subseteq Waiting]_vars
        => StatusInv'
    <2> SUFFICES ASSUME Proved!TypeOK, TaskInv, StatusInv, [Next]_vars,
                        [Call(Unify) => Groups \subseteq Waiting]_vars
                 PROVE  StatusInv'
        OBVIOUS
    <2>1. CASE UNCHANGED vars
        BY <2>1 DEF vars, protocolVars, StatusInv, Safe, Known, Waiting
    <2> QED BY <2>1, StatusNext
<1>3. TaskInv /\ StatusInv => AssertionsHold
    BY StatusAsserted DEF TaskInv
<1> QED BY <1>1, <1>2, <1>3, TasksInv, PTL DEF Spec

\* An application that interpolates and takes norms after the combinations only, or does not use
\* unifySubspaceSizesThirdLevel, calls it with all groups waiting, so the assertions always hold.
THEOREM AssertionsAlways ==
    ASSUME Unify \in Operations => Operations \cap Leaving = {}
    PROVE  Spec => []AssertionsHold
<1>1. Init => SolvedInv
    BY StatusInit
<1>2. Proved!TypeOK /\ Proved!EachTaskOnce /\ TaskInv /\ SolvedInv /\ [Next]_vars => SolvedInv'
    BY SolvedNext
<1>3. TaskInv /\ SolvedInv /\ Call(Unify) => Groups \subseteq Waiting
    <2> SUFFICES ASSUME TaskInv, SolvedInv, Call(Unify) PROVE Groups \subseteq Waiting
        OBVIOUS
    <2>1. Unify \in Operations /\ Unify \in Allowed[stage] /\ todo = <<>> /\ stage \in Stages
        BY DEF Call, TaskInv
    <2>2. stage = "solved"
        BY <2>1 DEF Stages, Allowed, Anytime, Unify
    <2> QED BY <2>1, <2>2, EmptyEnds DEF SolvedInv
<1>4. TaskInv /\ SolvedInv => [Call(Unify) => Groups \subseteq Waiting]_vars
    BY <1>3
<1> QED BY <1>1, <1>2, <1>4, TasksInv, AssertionsKept, PTL DEF Spec
=============================================================================
