--------------------------- MODULE ProcessGroup_proofs ---------------------------
(***************************************************************************)
(* Theorems about ProcessGroup for any sets of groups and tasks, any bound *)
(* on the commands under way and any choice of the signals used.           *)
(***************************************************************************)
EXTENDS ProcessGroup, TLAPS, SequenceTheorems, WellFoundedInduction

-----------------------------------------------------------------------------
\* Sequences.

NatLess == {ss \in Nat \X Nat : ss[1] < ss[2]}

\* A non-empty set of natural numbers has a least element, which Min chooses.
LEMMA MinOfNats ==
    ASSUME NEW I, I \subseteq Nat, I # {}
    PROVE  Min(I) \in I
<1>1. IsWellFoundedOn(NatLess, Nat)
    BY NatLessThanWellFounded DEF OpToRel, NatLess
<1>2. PICK x \in I : \A y \in I : <<y, x>> \notin NatLess
    BY <1>1, WFMin
<1>3. ASSUME NEW y \in I PROVE x =< y
    <2>1. x \in Nat /\ y \in Nat
        OBVIOUS
    <2>2. <<y, x>> \in Nat \X Nat /\ <<y, x>> \notin NatLess
        BY <1>2, <2>1
    <2>3. ~ (y < x)
        BY <2>2 DEF NatLess
    <2> QED
        BY <2>1, <2>3
<1> QED
    BY <1>3 DEF Min

\* Erasing an element from a list of tasks leaves a list of tasks.
LEMMA RemoveFirstType ==
    ASSUME NEW S, NEW s \in Seq(S), NEW e
    PROVE  RemoveFirst(s, e) \in Seq(S)
<1>1. CASE ~ \E i \in 1..Len(s) : s[i] = e
    BY <1>1 DEF RemoveFirst
<1>2. CASE \E i \in 1..Len(s) : s[i] = e
    <2> DEFINE I == {i \in 1..Len(s) : s[i] = e}
               k == SelectInSeq(s, LAMBDA v : v = e)
    <2>1. Len(s) \in Nat /\ \A i \in 1..Len(s) : s[i] \in S
        BY ElementOfSeq, LenProperties
    <2>2. I # {} /\ I \subseteq Nat
        BY <1>2, <2>1
    <2>3. k = Min(I)
        BY <2>2 DEF SelectInSeq
    <2>4. k \in 1..Len(s)
        BY <2>2, <2>3, MinOfNats
    <2> HIDE DEF k
    <2>5. SubSeq(s, 1, k - 1) \in Seq(S)
        <3>1. 1 \in Int /\ k - 1 \in Int /\ \A i \in 1..(k - 1) : s[i] \in S
            BY <2>1, <2>4
        <3> QED BY <3>1, SubSeqProperties
    <2>6. SubSeq(s, k + 1, Len(s)) \in Seq(S)
        <3>1. k + 1 \in Int /\ Len(s) \in Int /\ \A i \in (k + 1)..Len(s) : s[i] \in S
            BY <2>1, <2>4
        <3> QED BY <3>1, SubSeqProperties
    <2>7. RemoveFirst(s, e) = SubSeq(s, 1, k - 1) \o SubSeq(s, k + 1, Len(s))
        BY <1>2 DEF RemoveFirst, RemoveAt, k
    <2> QED
        BY <2>5, <2>6, <2>7, ConcatProperties
<1> QED
    BY <1>1, <1>2

\* Erasing an element from a list keeps the others, each as often as before.
LEMMA RemoveFirstKeeps ==
    ASSUME NEW S, NEW s \in Seq(S), NEW e
    PROVE  LET r == RemoveFirst(s, e)
           IN  /\ \A i \in 1..Len(r) : \E j \in 1..Len(s) : s[j] = r[i]
               /\ \A j \in 1..Len(s) : s[j] # e => \E i \in 1..Len(r) : r[i] = s[j]
               /\ (\A i, j \in 1..Len(s) : s[i] = s[j] => i = j)
                        => \A i, j \in 1..Len(r) : r[i] = r[j] => i = j
<1>1. CASE ~ \E i \in 1..Len(s) : s[i] = e
    BY <1>1 DEF RemoveFirst
<1>2. CASE \E i \in 1..Len(s) : s[i] = e
    <2> DEFINE I == {i \in 1..Len(s) : s[i] = e}
               k == SelectInSeq(s, LAMBDA v : v = e)
               a == SubSeq(s, 1, k - 1)
               b == SubSeq(s, k + 1, Len(s))
               r == a \o b
    <2>1. Len(s) \in Nat /\ \A i \in 1..Len(s) : s[i] \in S
        BY ElementOfSeq, LenProperties
    <2>2. I # {} /\ I \subseteq Nat
        BY <1>2, <2>1
    <2>3. k = Min(I)
        BY <2>2 DEF SelectInSeq
    <2>4. k \in 1..Len(s) /\ s[k] = e
        BY <2>2, <2>3, MinOfNats
    <2>5. RemoveFirst(s, e) = r
        BY <1>2 DEF RemoveFirst, RemoveAt
    <2> HIDE DEF k
    <2>6. a \in Seq(S) /\ Len(a) = k - 1 /\ \A i \in 1..(k - 1) : a[i] = s[i]
        <3>1. 1 \in Int /\ k - 1 \in Int /\ \A i \in 1..(k - 1) : s[i] \in S
            BY <2>1, <2>4
        <3>2. Len(a) = IF 1 <= k - 1 THEN (k - 1) - 1 + 1 ELSE 0
            BY <3>1, SubSeqProperties
        <3> QED BY <2>4, <3>1, <3>2, SubSeqProperties
    <2>7. b \in Seq(S) /\ Len(b) = Len(s) - k /\ \A i \in 1..(Len(s) - k) : b[i] = s[k + i]
        <3>1. k + 1 \in Int /\ Len(s) \in Int /\ \A i \in (k + 1)..Len(s) : s[i] \in S
            BY <2>1, <2>4
        <3>2. b \in Seq(S) /\ (\A i \in 1..Len(b) : b[i] = s[(k + 1) + i - 1])
              /\ Len(b) = IF k + 1 <= Len(s) THEN Len(s) - (k + 1) + 1 ELSE 0
            BY <3>1, SubSeqProperties
        <3> QED BY <2>1, <2>4, <3>2
    <2> HIDE DEF a, b
    <2>8. /\ Len(r) = Len(s) - 1
          /\ \A i \in 1..(Len(s) - 1) : r[i] = IF i < k THEN s[i] ELSE s[i + 1]
        <3>1. /\ Len(r) = Len(a) + Len(b)
              /\ \A i \in 1..(Len(a) + Len(b)) : r[i] = IF i <= Len(a) THEN a[i] ELSE b[i - Len(a)]
            BY <2>6, <2>7, ConcatProperties
        <3>2. ASSUME NEW i \in 1..(Len(s) - 1), ~ (i < k) PROVE b[i - (k - 1)] = s[i + 1]
            <4>1. i - (k - 1) \in 1..(Len(s) - k) /\ k + (i - (k - 1)) = i + 1
                BY <2>1, <2>4, <3>2
            <4> QED BY <2>7, <4>1
        <3>3. \A i \in 1..(Len(s) - 1) : i < k => i <= Len(a) /\ a[i] = s[i]
            BY <2>1, <2>4, <2>6
        <3>4. \A i \in 1..(Len(s) - 1) : ~ (i < k) => ~ (i <= Len(a)) /\ i - Len(a) = i - (k - 1)
            BY <2>1, <2>4, <2>6
        <3>5. Len(a) + Len(b) = Len(s) - 1
            BY <2>1, <2>4, <2>6, <2>7
        <3> HIDE DEF r
        <3> QED BY <3>1, <3>2, <3>3, <3>4, <3>5
    <2> HIDE DEF r
    <2>9. \A i \in 1..Len(r) : \E j \in 1..Len(s) : s[j] = r[i]
        <3>1. \A i \in 1..(Len(s) - 1) : i \in 1..Len(s) /\ i + 1 \in 1..Len(s)
            BY <2>1
        <3> QED BY <2>8, <3>1
    <2>10. ASSUME NEW j \in 1..Len(s), s[j] # e PROVE \E i \in 1..Len(r) : r[i] = s[j]
        <3>1. CASE j < k
            BY <2>1, <2>4, <2>8, <3>1
        <3>2. CASE ~ (j < k)
            <4>1. j # k /\ j - 1 \in 1..(Len(s) - 1) /\ ~ (j - 1 < k) /\ (j - 1) + 1 = j
                BY <2>1, <2>4, <2>10, <3>2
            <4> QED BY <2>8, <4>1
        <3> QED BY <3>1, <3>2
    <2>11. ASSUME \A i, j \in 1..Len(s) : s[i] = s[j] => i = j,
                  NEW i \in 1..Len(r), NEW j \in 1..Len(r), r[i] = r[j]
           PROVE  i = j
        <3>1. \A m \in 1..(Len(s) - 1) : m \in 1..Len(s) /\ m + 1 \in 1..Len(s)
            BY <2>1
        <3>2. (IF i < k THEN i ELSE i + 1) = (IF j < k THEN j ELSE j + 1)
            BY <2>8, <2>11, <3>1
        <3> QED BY <2>1, <2>4, <2>8, <3>2
    <2> QED BY <2>5, <2>9, <2>10, <2>11
<1> QED BY <1>1, <1>2

-----------------------------------------------------------------------------
\* What a command does.

\* A command's effect on a list of tasks is a list of tasks.
LEMMA TasksAfterType ==
    ASSUME NEW cmd \in Command, NEW tasks \in Seq(Tasks)
    PROVE  TasksAfter(cmd, tasks) \in Seq(Tasks)
<1>1. ASSUME cmd.sig \in TaskSignals PROVE Append(tasks, cmd.task) \in Seq(Tasks)
    <2>1. cmd.task \in Tasks
        BY <1>1 DEF Command, SignalsWithTask
    <2> QED BY <2>1, AppendProperties
<1>2. RemoveFirst(tasks, cmd.task) \in Seq(Tasks)
    BY RemoveFirstType
<1>3. <<>> \in Seq(Tasks)
    OBVIOUS
<1> QED
    BY <1>1, <1>2, <1>3 DEF TasksAfter

\* What a group replies is a list of lists of tasks.
LEMMA RepliesToType ==
    ASSUME NEW cmd \in Command, NEW tasks \in Seq(Tasks)
    PROVE  RepliesTo(cmd, tasks) \in Seq(Seq(Tasks))
<1>1. <<tasks>> \in Seq(Seq(Tasks))
    OBVIOUS
<1>2. ASSUME Contains(tasks, cmd.task) PROVE <<(<<cmd.task>>)>> \in Seq(Seq(Tasks))
    <2>1. cmd.task \in Tasks
        BY <1>2, ElementOfSeq DEF Contains
    <2>2. <<cmd.task>> \in Seq(Tasks)
        BY <2>1
    <2> QED BY <2>2
<1>3. <<>> \in Seq(Seq(Tasks))
    OBVIOUS
<1> QED
    BY <1>1, <1>2, <1>3 DEF RepliesTo

-----------------------------------------------------------------------------
\* Types.

\* Sending a command that is well typed keeps the channels to the groups typed.
LEMMA SendType ==
    ASSUME NEW g \in Groups, NEW sig, NEW t, [sig |-> sig, task |-> t] \in Command,
           toWorker \in [Groups -> Seq(Command)], Send(g, sig, t)
    PROVE  toWorker' \in [Groups -> Seq(Command)]
<1>1. Append(toWorker[g], [sig |-> sig, task |-> t]) \in Seq(Command)
    BY AppendProperties
<1> QED
    BY <1>1 DEF Send

\* Posting the receive of a status keeps the status words typed.
LEMMA BusyType ==
    ASSUME NEW g \in Groups, SetProcessGroupBusyAndReceive(g),
           status \in [Groups -> StatusType], posted \in [Groups -> Nat]
    PROVE  status' \in [Groups -> StatusType] /\ posted' \in [Groups -> Nat]
BY DEF SetProcessGroupBusyAndReceive, StatusType

\* Every variable keeps its type (ProcessGroupManager.hpp, ProcessGroupWorker.hpp).
LEMMA InitType == Init => TypeOK
<1> SUFFICES ASSUME Init PROVE TypeOK
    OBVIOUS
<1>1. <<>> \in Seq(Tasks) /\ <<>> \in Seq(Command) /\ <<>> \in Seq(Seq(Tasks))
    OBVIOUS
<1> QED
    BY <1>1 DEF Init, TypeOK, StatusType, Running

\* Every step of the manager, of MPI and of a group keeps the variables typed.
LEMMA NextType == TypeOK /\ [Next]_vars => TypeOK'
<1> SUFFICES ASSUME TypeOK, [Next]_vars PROVE TypeOK'
    OBVIOUS
<1> USE DEF managerVars, channelVars, workerVars, Running
<1>1. ASSUME NEW g \in Groups, NEW sig \in TaskSignals, NEW t \in Tasks,
             StoreTaskReferenceAndSend(g, sig, t)
      PROVE  TypeOK'
    <2>1. [sig |-> sig, task |-> t] \in Command
        BY DEF Command, SignalsWithTask
    <2>2. Append(managerTasks[g], t) \in Seq(Tasks)
        BY AppendProperties DEF TypeOK
    <2>3. managerTasks' \in [Groups -> Seq(Tasks)]
        BY <1>1, <2>2 DEF StoreTaskReferenceAndSend, TypeOK
    <2> QED
        BY <1>1, <2>1, <2>3, SendType, BusyType DEF StoreTaskReferenceAndSend, TypeOK
<1>2. ASSUME NEW g \in Groups, RunNext(g) PROVE TypeOK'
    <2>1. [sig |-> "RUN_NEXT", task |-> None] \in Command
        BY DEF Command, SignalsWithTask, Signals, TaskSignals
    <2> QED
        BY <1>2, <2>1, SendType, BusyType DEF RunNext, TypeOK
<1>3. ASSUME NEW g \in Groups, NEW sig \in CheckedSignals, SendSignalAndReceive(g, sig)
      PROVE  TypeOK'
    <2>1. [sig |-> sig, task |-> None] \in Command
        BY DEF Command, SignalsWithTask, Signals, TaskSignals, CheckedSignals
    <2> QED
        BY <1>3, <2>1, SendType, BusyType DEF SendSignalAndReceive, TypeOK
<1>4. ASSUME NEW g \in Groups, NEW sig \in UncheckedSignals, SendUnchecked(g, sig)
      PROVE  TypeOK'
    <2>1. [sig |-> sig, task |-> None] \in Command
        BY DEF Command, SignalsWithTask, Signals, TaskSignals, UncheckedSignals
    <2> QED
        BY <1>4, <2>1, SendType, BusyType DEF SendUnchecked, TypeOK
<1>5. ASSUME NEW g \in Groups, NEW sig \in NormSignals, GetLpNorms(g, sig)
      PROVE  TypeOK'
    <2>1. [sig |-> sig, task |-> None] \in Command
        BY DEF Command, SignalsWithTask, Signals, TaskSignals, NormSignals
    <2> QED
        BY <1>5, <2>1, SendType DEF GetLpNorms, TypeOK
<1>6. ASSUME NEW g \in Groups, NEW t \in Tasks, RescheduleRemoveTask(g, t)
      PROVE  TypeOK'
    <2>1. [sig |-> "RESCHEDULE_REMOVE_TASK", task |-> t] \in Command
        BY DEF Command, SignalsWithTask
    <2> QED
        BY <1>6, <2>1, SendType DEF RescheduleRemoveTask, TypeOK
<1>7. ASSUME NEW g \in Groups, NEW t \in Tasks, DoDiagnostics(g, t)
      PROVE  TypeOK'
    <2>1. [sig |-> "DO_DIAGNOSTICS", task |-> t] \in Command
        BY DEF Command, SignalsWithTask
    <2> QED
        BY <1>7, <2>1, SendType DEF DoDiagnostics, TypeOK
<1>8. ASSUME NEW g \in Groups, Exit(g) PROVE TypeOK'
    <2>1. [sig |-> "EXIT", task |-> None] \in Command
        BY DEF Command, SignalsWithTask, Signals, TaskSignals
    <2> QED
        BY <1>8, <2>1, SendType, BusyType DEF Exit, TypeOK
<1>9. ASSUME NEW g \in Groups, ReceiveReply(g) PROVE TypeOK'
    <2>1. Tail(replies[g]) \in Seq(Seq(Tasks))
        BY <1>9, HeadTailProperties DEF ReceiveReply, TypeOK
    <2>2. replies' \in [Groups -> Seq(Seq(Tasks))]
        BY <1>9, <2>1 DEF ReceiveReply, TypeOK
    <2>3. RemoveFirst(managerTasks[g], awaiting.task) \in Seq(Tasks)
        BY RemoveFirstType DEF TypeOK
    <2>4. managerTasks' \in [Groups -> Seq(Tasks)]
        BY <1>9, <2>3 DEF ReceiveReply, TypeOK
    <2> QED
        BY <1>9, <2>2, <2>4, BusyType DEF ReceiveReply, TypeOK
<1>10. ASSUME NEW g \in Groups, DeliverStatus(g) PROVE TypeOK'
    BY <1>10 DEF DeliverStatus, TypeOK, StatusType
<1>11. ASSUME NEW g \in Groups, ReceiveSignal(g) PROVE TypeOK'
    <2>1. Head(toWorker[g]) \in Command /\ Tail(toWorker[g]) \in Seq(Command)
        BY <1>11, HeadTailProperties DEF ReceiveSignal, TypeOK
    <2> QED
        BY <1>11, <2>1 DEF ReceiveSignal, TypeOK
<1>12. ASSUME NEW g \in Groups, Execute(g) PROVE TypeOK'
    <2>1. current[g] \in Command
        BY <1>12 DEF Execute, TypeOK
    <2>2. TasksAfter(current[g], workerTasks[g]) \in Seq(Tasks)
        BY <2>1, TasksAfterType DEF TypeOK
    <2>3. workerTasks' \in [Groups -> Seq(Tasks)]
        BY <1>12, <2>2 DEF Execute, TypeOK
    <2>4. RepliesTo(current[g], workerTasks[g]) \in Seq(Seq(Tasks))
        BY <2>1, RepliesToType DEF TypeOK
    <2>5. replies[g] \o RepliesTo(current[g], workerTasks[g]) \in Seq(Seq(Tasks))
        BY <2>4, ConcatProperties DEF TypeOK
    <2>6. replies' \in [Groups -> Seq(Seq(Tasks))]
        BY <1>12, <2>5 DEF Execute, TypeOK
    <2> QED
        BY <1>12, <2>3, <2>6 DEF Execute, TypeOK
<1>13. ASSUME NEW g \in Groups, SendStatus(g) PROVE TypeOK'
    BY <1>13 DEF SendStatus, TypeOK
<1>14. CASE UNCHANGED vars
    BY <1>14 DEF vars, TypeOK
<1> QED
    BY <1>1, <1>2, <1>3, <1>4, <1>5, <1>6, <1>7, <1>8, <1>9, <1>10, <1>11, <1>12,
       <1>13, <1>14 DEF Next, ManagerStep, WorkerStep

\* Type correctness of the command protocol, whatever the application sends.
THEOREM TypeCorrect == Spec => []TypeOK
BY InitType, NextType, PTL DEF Spec

-----------------------------------------------------------------------------
\* The manager's lists of tasks.

\* No task is twice in the lists tasks_ of the manager's ProcessGroupManagers.
EachTaskOnce ==
    \A g, h \in Groups : \A i \in DOMAIN managerTasks[g], j \in DOMAIN managerTasks[h] :
        managerTasks[g][i] = managerTasks[h][j] => g = h /\ i = j

\* The lists start empty.
LEMMA InitOnce == Init => EachTaskOnce
BY DEF Init, EachTaskOnce

\* A task is only given to a group when no group has it, and taking it from a group leaves the rest.
LEMMA NextOnce == TypeOK /\ EachTaskOnce /\ [Next]_vars => EachTaskOnce'
<1> SUFFICES ASSUME TypeOK, EachTaskOnce, [Next]_vars PROVE EachTaskOnce'
    OBVIOUS
<1> USE DEF managerVars, channelVars, workerVars
<1>0. /\ managerTasks \in [Groups -> Seq(Tasks)]
      /\ \A g \in Groups : Len(managerTasks[g]) \in Nat /\ DOMAIN managerTasks[g] = 1..Len(managerTasks[g])
    BY LenProperties DEF TypeOK
<1>1. ASSUME NEW g \in Groups, NEW sig \in TaskSignals, NEW t \in Tasks,
             StoreTaskReferenceAndSend(g, sig, t)
      PROVE  EachTaskOnce'
    <2>1. /\ \A h \in Groups : \A i \in DOMAIN managerTasks[h] : managerTasks[h][i] # t
          /\ managerTasks' = [managerTasks EXCEPT ![g] = Append(@, t)]
        BY <1>1 DEF StoreTaskReferenceAndSend, Assigned, ToSet
    <2> DEFINE n == Len(managerTasks[g]) + 1
    <2>2. /\ managerTasks'[g] = Append(managerTasks[g], t)
          /\ \A h \in Groups : h # g => managerTasks'[h] = managerTasks[h]
        BY <1>0, <2>1
    <2>3. /\ DOMAIN managerTasks'[g] = 1..n /\ managerTasks'[g][n] = t
          /\ \A i \in 1..n : i # n => i \in DOMAIN managerTasks[g] /\ managerTasks'[g][i] = managerTasks[g][i]
        BY <1>0, <2>2, AppendProperties
    <2> HIDE DEF n
    <2> QED BY <1>0, <2>1, <2>2, <2>3 DEF EachTaskOnce
<1>2. ASSUME NEW g \in Groups, ReceiveReply(g), managerTasks' # managerTasks PROVE EachTaskOnce'
    <2> DEFINE r == RemoveFirst(managerTasks[g], awaiting.task)
    <2>1. managerTasks' = [managerTasks EXCEPT ![g] = r]
        BY <1>2 DEF ReceiveReply
    <2>2. managerTasks'[g] = r /\ \A h \in Groups : h # g => managerTasks'[h] = managerTasks[h]
        BY <1>0, <2>1
    <2>3. r \in Seq(Tasks)
        BY <1>0, RemoveFirstType
    <2>4. DOMAIN r = 1..Len(r)
        BY <2>3, LenProperties
    <2>5. /\ \A i \in DOMAIN r : \E j \in DOMAIN managerTasks[g] : managerTasks[g][j] = r[i]
          /\ \A i, j \in DOMAIN r : r[i] = r[j] => i = j
        <3>1. \A i, j \in 1..Len(managerTasks[g]) : managerTasks[g][i] = managerTasks[g][j] => i = j
            BY <1>0 DEF EachTaskOnce
        <3> HIDE DEF r
        <3> QED BY <1>0, <2>4, <3>1, RemoveFirstKeeps DEF r
    <2> HIDE DEF r
    <2> QED BY <1>0, <2>2, <2>5 DEF EachTaskOnce
<1>3. CASE managerTasks' = managerTasks
    BY <1>3 DEF EachTaskOnce
<1>4. ASSUME NEW g \in Groups, managerTasks' # managerTasks, ManagerStep(g)
      PROVE  (\E sig \in TaskSignals, t \in Tasks : StoreTaskReferenceAndSend(g, sig, t)) \/ ReceiveReply(g)
    BY <1>4 DEF ManagerStep, RunNext, SendSignalAndReceive, SendUnchecked, GetLpNorms,
       RescheduleRemoveTask, DoDiagnostics, Exit
<1>5. ASSUME NEW g \in Groups, DeliverStatus(g) \/ WorkerStep(g) PROVE managerTasks' = managerTasks
    BY <1>5 DEF DeliverStatus, WorkerStep, ReceiveSignal, Execute, SendStatus
<1> QED
    BY <1>1, <1>2, <1>3, <1>4, <1>5 DEF Next, vars

\* Whatever commands the manager sends, no task is in the lists of two groups, or twice in one.
THEOREM TasksOnce == Spec => []EachTaskOnce
BY InitType, InitOnce, NextType, NextOnce, PTL DEF Spec

-----------------------------------------------------------------------------
\* Every posted receive is answered by one command.

\* Sending a command adds it to the group's load and to no other.
LEMMA SendLoad ==
    ASSUME TypeOK, NEW g \in Groups, NEW sig, NEW t,
           [sig |-> sig, task |-> t] \in Command, Send(g, sig, t),
           UNCHANGED <<phase, statusMsgs>>
    PROVE  \A h \in Groups : Load(h)' = IF h = g THEN Load(h) + 1 ELSE Load(h)
<1>1. \A h \in Groups : toWorker[h] \in Seq(Command) /\ Len(toWorker[h]) \in Nat
    BY LenProperties DEF TypeOK
<1>2. toWorker'[g] = Append(toWorker[g], [sig |-> sig, task |-> t])
    BY DEF Send, TypeOK
<1>3. Len(toWorker'[g]) = Len(toWorker[g]) + 1
    BY <1>1, <1>2, AppendProperties
<1>4. \A h \in Groups : h # g => toWorker'[h] = toWorker[h]
    BY DEF Send, TypeOK
<1>5. \A h \in Groups : Running(h)' = Running(h) /\ Running(h) \in Nat
    BY DEF Running
<1>6. \A h \in Groups : statusMsgs'[h] = statusMsgs[h] /\ statusMsgs[h] \in Nat
    BY DEF TypeOK
<1> SUFFICES ASSUME NEW h \in Groups
             PROVE  Load(h)' = IF h = g THEN Load(h) + 1 ELSE Load(h)
    OBVIOUS
<1>7. Load(g)' = Load(g) + 1
    BY <1>1, <1>3, <1>5, <1>6 DEF Load
<1>8. CASE h # g
    BY <1>4, <1>5, <1>6, <1>8 DEF Load
<1> QED
    BY <1>7, <1>8

\* A signal without a task makes a well typed command.
LEMMA PlainCommand ==
    ASSUME NEW sig \in CheckedSignals \cup UncheckedSignals \cup NormSignals
                       \cup {"RUN_NEXT", "EXIT"}
    PROVE  [sig |-> sig, task |-> None] \in Command
BY DEF Command, SignalsWithTask, Signals, TaskSignals, CheckedSignals, UncheckedSignals,
       NormSignals

\* A signal with a task makes a well typed command.
LEMMA TaskCommand ==
    ASSUME NEW sig \in SignalsWithTask, NEW t \in Tasks
    PROVE  [sig |-> sig, task |-> t] \in Command
BY DEF Command

\* The manager's part of the balance: a command that is not asked for a reply
\* posts one receive.
LEMMA PostLoad ==
    ASSUME TypeOK, NEW g \in Groups, NEW sig, NEW t,
           [sig |-> sig, task |-> t] \in Command, Send(g, sig, t),
           SetProcessGroupBusyAndReceive(g), UNCHANGED <<awaiting, phase, statusMsgs>>,
           CommandBalance
    PROVE  CommandBalance'
<1>1. \A h \in Groups : Load(h)' = IF h = g THEN Load(h) + 1 ELSE Load(h)
    BY SendLoad
<1>2. \A h \in Groups : posted'[h] = (IF h = g THEN posted[h] + 1 ELSE posted[h])
    BY DEF SetProcessGroupBusyAndReceive, TypeOK
<1>3. \A h \in Groups : Asked(h)' = Asked(h) /\ Asked(h) \in Nat /\ posted[h] \in Nat
    BY DEF Asked, TypeOK
<1> QED
    BY <1>1, <1>2, <1>3 DEF CommandBalance

\* A command that is asked for a reply sets the manager waiting for it instead.
LEMMA AskLoad ==
    ASSUME TypeOK, NEW g \in Groups, NEW sig, NEW t,
           [sig |-> sig, task |-> t] \in Command, Send(g, sig, t),
           awaiting = NotAwaiting, awaiting' = [group |-> g, sig |-> sig, task |-> t],
           UNCHANGED <<posted, phase, statusMsgs>>, CommandBalance
    PROVE  CommandBalance'
<1>1. \A h \in Groups : Load(h)' = IF h = g THEN Load(h) + 1 ELSE Load(h)
    BY SendLoad
<1>2. \A h \in Groups : Asked(h) = 0 /\ Asked(h)' = IF h = g THEN 1 ELSE 0
    BY UsedAssumption DEF Asked, NotAwaiting
<1>3. \A h \in Groups : posted[h] \in Nat
    BY DEF TypeOK
<1> QED
    BY <1>1, <1>2, <1>3 DEF CommandBalance

\* Before the first command nothing is posted and nothing is under way.
LEMMA InitBalance == Init => CommandBalance
<1>1. ASSUME Init, NEW g \in Groups PROVE Load(g) = 0 /\ Asked(g) = 0 /\ posted[g] = 0
    BY <1>1, UsedAssumption DEF Init, Load, Asked, Running, NotAwaiting
<1> QED
    BY <1>1 DEF CommandBalance

\* Every step but doDiagnostics keeps receives and commands in balance.
LEMMA NextBalance ==
    ASSUME "DO_DIAGNOSTICS" \notin Used
    PROVE  TypeOK /\ CommandBalance /\ [Next]_vars => CommandBalance'
<1> SUFFICES ASSUME TypeOK, CommandBalance, [Next]_vars PROVE CommandBalance'
    OBVIOUS
<1> USE DEF managerVars, channelVars, workerVars
<1>1. ASSUME NEW g \in Groups, NEW sig \in TaskSignals, NEW t \in Tasks,
             StoreTaskReferenceAndSend(g, sig, t)
      PROVE  CommandBalance'
    BY <1>1, TaskCommand, PostLoad DEF StoreTaskReferenceAndSend, SignalsWithTask
<1>2. ASSUME NEW g \in Groups, RunNext(g) PROVE CommandBalance'
    BY <1>2, PlainCommand, PostLoad DEF RunNext
<1>3. ASSUME NEW g \in Groups, NEW sig \in CheckedSignals, SendSignalAndReceive(g, sig)
      PROVE  CommandBalance'
    BY <1>3, PlainCommand, PostLoad DEF SendSignalAndReceive
<1>4. ASSUME NEW g \in Groups, NEW sig \in UncheckedSignals, SendUnchecked(g, sig)
      PROVE  CommandBalance'
    BY <1>4, PlainCommand, PostLoad DEF SendUnchecked
<1>5. ASSUME NEW g \in Groups, NEW sig \in NormSignals, GetLpNorms(g, sig)
      PROVE  CommandBalance'
    BY <1>5, PlainCommand, AskLoad DEF GetLpNorms, CanSend
<1>6. ASSUME NEW g \in Groups, NEW t \in Tasks, RescheduleRemoveTask(g, t)
      PROVE  CommandBalance'
    BY <1>6, TaskCommand, AskLoad DEF RescheduleRemoveTask, CanSend, SignalsWithTask
<1>7. ASSUME NEW g \in Groups, NEW t \in Tasks, DoDiagnostics(g, t)
      PROVE  CommandBalance'
    BY <1>7 DEF DoDiagnostics, CanSend
<1>8. ASSUME NEW g \in Groups, Exit(g) PROVE CommandBalance'
    BY <1>8, PlainCommand, PostLoad DEF Exit
<1>9. ASSUME NEW g \in Groups, ReceiveReply(g) PROVE CommandBalance'
    <2>1. \A h \in Groups : Load(h)' = Load(h)
        BY <1>9 DEF ReceiveReply, Load, Running
    <2>2. \A h \in Groups : posted'[h] = IF h = g THEN posted[h] + 1 ELSE posted[h]
        BY <1>9 DEF ReceiveReply, SetProcessGroupBusyAndReceive, TypeOK
    <2>3. \A h \in Groups : Asked(h)' = 0 /\ Asked(h) = IF h = g THEN 1 ELSE 0
        BY <1>9, UsedAssumption DEF ReceiveReply, Asked, NotAwaiting
    <2>4. \A h \in Groups : posted[h] \in Nat
        BY DEF TypeOK
    <2> QED
        BY <2>1, <2>2, <2>3, <2>4 DEF CommandBalance
<1>10. ASSUME NEW g \in Groups, DeliverStatus(g) PROVE CommandBalance'
    <2>1. \A h \in Groups : posted[h] \in Nat /\ statusMsgs[h] \in Nat /\ Asked(h) \in Nat
                           /\ Len(toWorker[h]) \in Nat /\ Running(h) \in Nat
        BY LenProperties DEF TypeOK, Asked, Running
    <2>2. \A h \in Groups :
              /\ posted'[h] = (IF h = g THEN posted[h] - 1 ELSE posted[h])
              /\ statusMsgs'[h] = (IF h = g THEN statusMsgs[h] - 1 ELSE statusMsgs[h])
        BY <1>10 DEF DeliverStatus, TypeOK
    <2>3. \A h \in Groups : Asked(h)' = Asked(h) /\ Running(h)' = Running(h)
                           /\ Len(toWorker[h])' = Len(toWorker[h])
        BY <1>10 DEF DeliverStatus, Asked, Running
    <2>4. \A h \in Groups : Load(h)' = IF h = g THEN Load(h) - 1 ELSE Load(h)
        <3>1. ASSUME NEW h \in Groups
              PROVE  Load(h)' = Len(toWorker[h]) + Running(h) + statusMsgs'[h]
            BY <2>3 DEF Load
        <3>2. ASSUME NEW h \in Groups PROVE Load(h)' = IF h = g THEN Load(h) - 1 ELSE Load(h)
            <4>1. CASE h = g
                BY <2>1, <2>2, <3>1, <4>1 DEF Load
            <4>2. CASE h # g
                BY <2>1, <2>2, <3>1, <4>2 DEF Load
            <4> QED BY <4>1, <4>2
        <3> QED BY <3>2
    <2> QED
        BY <2>1, <2>2, <2>3, <2>4 DEF CommandBalance
<1>11. ASSUME NEW g \in Groups, ReceiveSignal(g) PROVE CommandBalance'
    <2>1. \A h \in Groups : toWorker[h] \in Seq(Command) /\ Len(toWorker[h]) \in Nat
                           /\ statusMsgs[h] \in Nat
        BY LenProperties DEF TypeOK
    <2>2. Len(toWorker'[g]) = Len(toWorker[g]) - 1
        <3>1. toWorker'[g] = Tail(toWorker[g]) /\ toWorker[g] # <<>>
            BY <1>11 DEF ReceiveSignal, TypeOK
        <3> QED BY <2>1, <3>1, HeadTailProperties
    <2>3. \A h \in Groups : h # g => toWorker'[h] = toWorker[h] /\ Running(h)' = Running(h)
        BY <1>11 DEF ReceiveSignal, TypeOK, Running
    <2>4. Running(g) = 0 /\ Running(g)' = 1
        BY <1>11 DEF ReceiveSignal, TypeOK, Running
    <2>5. \A h \in Groups : Running(h) \in Nat
        BY DEF Running
    <2>6. \A h \in Groups : Load(h)' = Load(h)
        BY <1>11, <2>1, <2>2, <2>3, <2>4, <2>5 DEF ReceiveSignal, Load
    <2> QED
        BY <1>11, <2>6 DEF ReceiveSignal, CommandBalance, Asked
<1>12. ASSUME NEW g \in Groups, Execute(g) PROVE CommandBalance'
    <2>1. \A h \in Groups : Running(h)' = Running(h)
        BY <1>12 DEF Execute, TypeOK, Running
    <2> QED
        BY <1>12, <2>1 DEF Execute, CommandBalance, Load, Asked
<1>13. ASSUME NEW g \in Groups, SendStatus(g) PROVE CommandBalance'
    <2>1. \A h \in Groups : Len(toWorker[h]) \in Nat /\ statusMsgs[h] \in Nat
        BY LenProperties DEF TypeOK
    <2>2. \A h \in Groups : h # g => Running(h)' = Running(h) /\ statusMsgs'[h] = statusMsgs[h]
        BY <1>13 DEF SendStatus, TypeOK, Running
    <2>3. Running(g) = 1 /\ Running(g)' = 0 /\ statusMsgs'[g] = statusMsgs[g] + 1
        BY <1>13 DEF SendStatus, TypeOK, Running
    <2>4. \A h \in Groups : Running(h) \in Nat
        BY DEF Running
    <2>5. \A h \in Groups : Load(h)' = Load(h)
        BY <1>13, <2>1, <2>2, <2>3, <2>4 DEF SendStatus, Load
    <2> QED
        BY <1>13, <2>5 DEF SendStatus, CommandBalance, Asked
<1>14. CASE UNCHANGED vars
    BY <1>14 DEF vars, CommandBalance, Load, Asked, Running
<1> QED
    BY <1>1, <1>2, <1>3, <1>4, <1>5, <1>6, <1>7, <1>8, <1>9, <1>10, <1>11, <1>12,
       <1>13, <1>14 DEF Next, ManagerStep, WorkerStep

\* Whatever the application sends and whether or not it waits, every posted
\* receive of a status is answered by exactly one command, if it does not use
\* doDiagnostics.
THEOREM Balanced ==
    ASSUME "DO_DIAGNOSTICS" \notin Used
    PROVE  Spec => []CommandBalance
<1>1. TypeOK /\ CommandBalance /\ [Next]_vars => (TypeOK /\ CommandBalance)'
    BY NextType, NextBalance
<1> QED
    BY <1>1, InitType, InitBalance, PTL DEF Spec

-----------------------------------------------------------------------------
\* A group the manager sees waiting has finished.

\* The strengthening: an application that waits has at most one receive posted,
\* exactly while the status is BUSY, and asks for replies only while it is WAIT.
OneReceive ==
    \A g \in Groups : /\ posted[g] = (IF status[g] = "WAIT" THEN 0 ELSE 1)
                     /\ (awaiting.group = g => status[g] = "WAIT")

IInv == TypeOK /\ CommandBalance /\ OneReceive

\* Posting the receive of a group that reads WAIT leaves it with one receive.
LEMMA PostOneReceive ==
    ASSUME TypeOK, OneReceive, NEW g \in Groups, status[g] = "WAIT",
           awaiting = NotAwaiting \/ awaiting.group = g, awaiting' = NotAwaiting,
           SetProcessGroupBusyAndReceive(g)
    PROVE  OneReceive'
<1>1. \A h \in Groups :
          /\ posted'[h] = (IF h = g THEN posted[h] + 1 ELSE posted[h])
          /\ status'[h] = (IF h = g THEN "BUSY" ELSE status[h])
    BY DEF SetProcessGroupBusyAndReceive, TypeOK
<1>2. \A h \in Groups : awaiting'.group # h
    BY UsedAssumption DEF NotAwaiting
<1> QED
    BY <1>1, <1>2 DEF OneReceive

\* If the application waits before every command, no group has two receives
\* posted (setProcessGroupBusyAndReceive), and none while it reads WAIT.
LEMMA NextOneReceive ==
    ASSUME CallerWaits = TRUE, "DO_DIAGNOSTICS" \notin Used
    PROVE  IInv /\ [Next]_vars => OneReceive'
<1> SUFFICES ASSUME IInv, [Next]_vars PROVE OneReceive'
    OBVIOUS
<1> USE DEF managerVars, channelVars, workerVars, IInv
<1>1. ASSUME NEW g \in Groups, NEW sig \in TaskSignals, NEW t \in Tasks,
             StoreTaskReferenceAndSend(g, sig, t)
      PROVE  OneReceive'
    BY <1>1, PostOneReceive DEF StoreTaskReferenceAndSend, CanSend
<1>2. ASSUME NEW g \in Groups, RunNext(g) PROVE OneReceive'
    BY <1>2, PostOneReceive DEF RunNext, CanSend
<1>3. ASSUME NEW g \in Groups, NEW sig \in CheckedSignals, SendSignalAndReceive(g, sig)
      PROVE  OneReceive'
    BY <1>3, PostOneReceive DEF SendSignalAndReceive, CanSend
<1>4. ASSUME NEW g \in Groups, NEW sig \in UncheckedSignals, SendUnchecked(g, sig)
      PROVE  OneReceive'
    BY <1>4, PostOneReceive DEF SendUnchecked, CanSend
<1>5. ASSUME NEW g \in Groups, NEW sig \in NormSignals, GetLpNorms(g, sig)
      PROVE  OneReceive'
    BY <1>5 DEF GetLpNorms, CanSend, OneReceive
<1>6. ASSUME NEW g \in Groups, NEW t \in Tasks, RescheduleRemoveTask(g, t)
      PROVE  OneReceive'
    BY <1>6 DEF RescheduleRemoveTask, CanSend, OneReceive
<1>7. ASSUME NEW g \in Groups, NEW t \in Tasks, DoDiagnostics(g, t)
      PROVE  OneReceive'
    BY <1>7 DEF DoDiagnostics, CanSend
<1>8. ASSUME NEW g \in Groups, Exit(g) PROVE OneReceive'
    BY <1>8, PostOneReceive DEF Exit, CanSend
<1>9. ASSUME NEW g \in Groups, ReceiveReply(g) PROVE OneReceive'
    <2>1. status[g] = "WAIT"
        BY <1>9 DEF ReceiveReply, OneReceive
    <2> QED
        BY <1>9, <2>1, PostOneReceive DEF ReceiveReply
<1>10. ASSUME NEW g \in Groups, DeliverStatus(g) PROVE OneReceive'
    <2>1. \A h \in Groups :
              /\ posted'[h] = (IF h = g THEN posted[h] - 1 ELSE posted[h])
              /\ status'[h] = (IF h = g THEN "WAIT" ELSE status[h])
        BY <1>10 DEF DeliverStatus, TypeOK
    <2>2. posted[g] = 1
        BY <1>10 DEF DeliverStatus, OneReceive
    <2> QED
        BY <1>10, <2>1, <2>2 DEF DeliverStatus, OneReceive
<1>11. ASSUME NEW g \in Groups, WorkerStep(g) PROVE OneReceive'
    BY <1>11 DEF WorkerStep, ReceiveSignal, Execute, SendStatus, OneReceive
<1>12. CASE UNCHANGED vars
    BY <1>12 DEF vars, OneReceive
<1> QED
    BY <1>1, <1>2, <1>3, <1>4, <1>5, <1>6, <1>7, <1>8, <1>9, <1>10, <1>11, <1>12
       DEF Next, ManagerStep

\* The three facts make the property.
LEMMA InvImpliesFinished == IInv => WaitMeansFinished
<1> SUFFICES ASSUME IInv, NEW g \in Groups, status[g] = "WAIT", awaiting.group # g
             PROVE  Load(g) = 0 /\ posted[g] = 0
    BY DEF WaitMeansFinished
<1>1. posted[g] = 0
    BY DEF IInv, OneReceive
<1>2. Asked(g) = 0
    BY DEF Asked
<1> QED
    BY <1>1, <1>2 DEF IInv, CommandBalance

\* For an application that waits for a group before it sends it a command and
\* does not use doDiagnostics, PROCESS_GROUP_WAIT means that the group has
\* executed everything it was sent and that no receive into status_ is left.
THEOREM WaitCorrect ==
    ASSUME CallerWaits = TRUE, "DO_DIAGNOSTICS" \notin Used
    PROVE  Spec => []WaitMeansFinished
<1>1. Init => IInv
    <2>1. Init => OneReceive
        BY UsedAssumption DEF Init, OneReceive, NotAwaiting
    <2> QED
        BY <2>1, InitType, InitBalance DEF IInv
<1>2. IInv /\ [Next]_vars => IInv'
    BY NextType, NextBalance, NextOneReceive DEF IInv
<1> QED
    BY <1>1, <1>2, InvImpliesFinished, PTL DEF Spec

-----------------------------------------------------------------------------
\* The manager's and the groups' lists of tasks agree, and replies answer their
\* requests, whatever commands overlap.
\*
\* The manager changes its list when it sends a command, or when the reply
\* arrives, and the group when it executes the command.  The invariant follows
\* the group's list through the commands it has not executed yet: behind the
\* last one is the manager's list.

\* The commands a group has not executed yet.
Pending(g) == (IF phase[g] = "running" THEN <<current[g]>> ELSE <<>>) \o toWorker[g]

\* h goes from the list first through the commands to the list last.
Follows(h, cmds, first, last) ==
    /\ h \in Seq(Seq(Tasks))
    /\ Len(h) = Len(cmds) + 1
    /\ h[1] = first
    /\ h[Len(cmds) + 1] = last
    /\ \A i \in 1..Len(cmds) : h[i + 1] = TasksAfter(cmds[i], h[i])

Asking == NormSignals \cup {"RESCHEDULE_REMOVE_TASK"}

Removing(g) == awaiting.group = g /\ awaiting.sig = "RESCHEDULE_REMOVE_TASK"

\* The list the group will have when it has executed all commands.
Expected(g) ==
    IF g \in closed THEN <<>>
    ELSE IF Removing(g) THEN RemoveFirst(managerTasks[g], awaiting.task)
    ELSE managerTasks[g]

\* The list before the task to be removed is taken out is the manager's.
ListsAgree(g) ==
    \E h \in Seq(Seq(Tasks)) :
        /\ Follows(h, Pending(g), workerTasks[g], Expected(g))
        /\ Removing(g) /\ replies[g] = <<>> => h[Len(Pending(g))] = managerTasks[g]

\* The command the manager waits for is the last one, or has been executed and answered.
RequestPending(g) ==
    LET n == Len(Pending(g))
    IN  /\ replies[g] = <<>>
        /\ n > 0
        /\ Pending(g)[n] = [sig |-> awaiting.sig, task |-> awaiting.task]
        /\ \A i \in 1..(n - 1) : Pending(g)[i].sig \notin Asking
        /\ Removing(g) => Contains(managerTasks[g], awaiting.task)

RequestAnswered(g) ==
    /\ Pending(g) = <<>>
    /\ replies[g] = <<IF awaiting.sig \in NormSignals THEN managerTasks[g] ELSE <<awaiting.task>>>>

Answered(g) ==
    IF awaiting.group = g
    THEN /\ awaiting.sig \in Asking
         /\ g \notin closed
         /\ RequestPending(g) \/ RequestAnswered(g)
    ELSE /\ replies[g] = <<>>
         /\ \A i \in 1..Len(Pending(g)) : Pending(g)[i].sig \notin Asking

\* A group that was sent EXIT has not executed it yet, or has, and then it ends.
ClosedEnds(g) ==
    g \in closed =>
        \/ phase[g] = "exited"
        \/ phase[g] = "done" /\ current[g].sig = "EXIT"
        \/ \E i \in 1..Len(Pending(g)) : Pending(g)[i].sig = "EXIT"

GroupInv(g) == ListsAgree(g) /\ Answered(g) /\ ClosedEnds(g)

-----------------------------------------------------------------------------
\* Lists through commands.

\* One more command adds its effect at the end.
LEMMA FollowsAppend ==
    ASSUME NEW cmds \in Seq(Command), NEW c \in Command, NEW h, NEW first, NEW last,
           Follows(h, cmds, first, last), last \in Seq(Tasks)
    PROVE  Follows(Append(h, TasksAfter(c, last)), Append(cmds, c), first, TasksAfter(c, last))
<1> DEFINE k == Append(h, TasksAfter(c, last))
           n == Len(cmds)
<1>1. n \in Nat /\ h \in Seq(Seq(Tasks)) /\ Len(h) = n + 1
    BY LenProperties DEF Follows
<1>2. TasksAfter(c, last) \in Seq(Tasks)
    BY TasksAfterType
<1>3. /\ k \in Seq(Seq(Tasks)) /\ Len(k) = n + 2
      /\ \A i \in 1..(n + 1) : k[i] = h[i]
      /\ k[n + 2] = TasksAfter(c, last)
    BY <1>1, <1>2, AppendProperties
<1>4. /\ Len(Append(cmds, c)) = n + 1
      /\ \A i \in 1..n : Append(cmds, c)[i] = cmds[i]
      /\ Append(cmds, c)[n + 1] = c
    BY AppendProperties
<1>5. k[n + 1] = last /\ k[1] = first
    BY <1>1, <1>3 DEF Follows
<1> HIDE DEF k, n
<1>6. ASSUME NEW i \in 1..(n + 1) PROVE k[i + 1] = TasksAfter(Append(cmds, c)[i], k[i])
    <2>1. CASE i \in 1..n
        <3>1. i + 1 \in 1..(n + 1)
            BY <1>1, <2>1
        <3>2. h[i + 1] = TasksAfter(cmds[i], h[i])
            BY <2>1 DEF Follows, n
        <3> QED BY <1>3, <1>4, <2>1, <3>1, <3>2
    <2>2. CASE i = n + 1
        <3>1. i + 1 = n + 2
            BY <1>1, <2>2
        <3> QED BY <1>3, <1>4, <1>5, <2>2, <3>1
    <2>3. i \in 1..n \/ i = n + 1
        BY <1>1
    <2> QED BY <2>1, <2>2, <2>3
<1>7. n + 1 + 1 = n + 2
    BY <1>1
<1>8. Follows(k, Append(cmds, c), first, TasksAfter(c, last))
    BY <1>1, <1>3, <1>4, <1>5, <1>6, <1>7 DEF Follows
<1> QED
    BY <1>8 DEF k, n

\* The first command executed, the rest goes on from its effect.
LEMMA FollowsTail ==
    ASSUME NEW cmds \in Seq(Command), cmds # <<>>, NEW h, NEW first, NEW last,
           Follows(h, cmds, first, last)
    PROVE  /\ Follows(Tail(h), Tail(cmds), TasksAfter(cmds[1], first), last)
           /\ \A i \in 1..Len(Tail(cmds)) : Tail(h)[i] = h[i + 1]
<1> DEFINE n == Len(cmds)
<1>1. n \in Nat /\ n > 0 /\ h \in Seq(Seq(Tasks)) /\ Len(h) = n + 1 /\ h # <<>>
    BY LenProperties, EmptySeq DEF Follows
<1>2. /\ Tail(h) \in Seq(Seq(Tasks)) /\ Len(Tail(h)) = n
      /\ \A i \in 1..n : Tail(h)[i] = h[i + 1]
    BY <1>1, HeadTailProperties
<1>3. Len(Tail(cmds)) = n - 1 /\ \A i \in 1..(n - 1) : Tail(cmds)[i] = cmds[i + 1]
    BY HeadTailProperties
<1>4. Tail(h)[1] = TasksAfter(cmds[1], first)
    <2>1. 1 \in 1..n
        BY <1>1
    <2>2. h[1 + 1] = TasksAfter(cmds[1], h[1])
        BY <2>1 DEF Follows
    <2> QED BY <1>2, <2>1, <2>2 DEF Follows
<1>5. Tail(h)[n] = last
    BY <1>1, <1>2 DEF Follows
<1>6. ASSUME NEW i \in 1..(n - 1) PROVE Tail(h)[i + 1] = TasksAfter(Tail(cmds)[i], Tail(h)[i])
    <2>1. i \in 1..n /\ i + 1 \in 1..n
        BY <1>1
    <2>2. h[(i + 1) + 1] = TasksAfter(cmds[i + 1], h[i + 1])
        BY <2>1 DEF Follows
    <2> QED BY <1>2, <1>3, <2>1, <2>2
<1> HIDE DEF n
<1>7. (n - 1) + 1 = n
    BY <1>1
<1> QED
    BY <1>1, <1>2, <1>3, <1>4, <1>5, <1>6, <1>7 DEF Follows

-----------------------------------------------------------------------------
\* What the steps do to the commands not executed.

\* They are commands; in a group that is not executing one they are those in the channel.
LEMMA PendingType ==
    ASSUME TypeOK, NEW g \in Groups
    PROVE  /\ Pending(g) \in Seq(Command)
           /\ phase[g] # "running" => Pending(g) = toWorker[g]
<1>1. toWorker[g] \in Seq(Command)
    BY DEF TypeOK
<1>2. CASE phase[g] = "running"
    <2>1. current[g] \in Command
        BY <1>2 DEF TypeOK, Running
    <2>2. <<current[g]>> \in Seq(Command)
        BY <2>1
    <2> QED BY <1>1, <1>2, <2>2, ConcatProperties DEF Pending
<1>3. CASE phase[g] # "running"
    BY <1>1, <1>3 DEF Pending
<1> QED
    BY <1>2, <1>3

\* Sending appends a command.
LEMMA PendingSend ==
    ASSUME TypeOK, NEW g \in Groups, NEW sig, NEW t, [sig |-> sig, task |-> t] \in Command,
           Send(g, sig, t), UNCHANGED <<phase, current>>
    PROVE  /\ Pending(g)' = Append(Pending(g), [sig |-> sig, task |-> t])
           /\ \A h \in Groups \ {g} : Pending(h)' = Pending(h)
<1> DEFINE c == [sig |-> sig, task |-> t]
           run == IF phase[g] = "running" THEN <<current[g]>> ELSE <<>>
<1>1. toWorker[g] \in Seq(Command) /\ toWorker'[g] = Append(toWorker[g], c)
    BY DEF TypeOK, Send
<1>2. run \in Seq(Command)
    <2>1. phase[g] = "running" => current[g] \in Command
        BY DEF TypeOK, Running
    <2> QED BY <2>1
<1>3. run \o Append(toWorker[g], c) = Append(run \o toWorker[g], c)
    <2> HIDE DEF run, c
    <2> QED BY <1>1, <1>2
<1>4. Pending(g)' = Append(Pending(g), c)
    BY <1>1, <1>3 DEF Pending
<1>5. \A h \in Groups \ {g} : Pending(h)' = Pending(h)
    BY DEF Pending, TypeOK, Send
<1> QED
    BY <1>4, <1>5

\* Receiving a command keeps it among those not executed.
LEMMA PendingReceive ==
    ASSUME TypeOK, NEW g \in Groups, ReceiveSignal(g)
    PROVE  \A h \in Groups : Pending(h)' = Pending(h)
<1>1. toWorker[g] \in Seq(Command) /\ toWorker[g] # <<>> /\ phase[g] = "idle"
    BY DEF TypeOK, ReceiveSignal
<1>2. toWorker'[g] = Tail(toWorker[g]) /\ current'[g] = Head(toWorker[g]) /\ phase'[g] = "running"
    BY DEF TypeOK, ReceiveSignal
<1>3. <<Head(toWorker[g])>> \o Tail(toWorker[g]) = toWorker[g]
    BY <1>1
<1>4. Pending(g)' = Pending(g)
    BY <1>1, <1>2, <1>3, PendingType DEF Pending
<1>5. \A h \in Groups \ {g} : Pending(h)' = Pending(h)
    BY DEF Pending, TypeOK, ReceiveSignal
<1> QED
    BY <1>4, <1>5

\* Executing a command removes it.
LEMMA PendingExecute ==
    ASSUME TypeOK, NEW g \in Groups, Execute(g)
    PROVE  /\ Pending(g) # <<>> /\ Pending(g)[1] = current[g]
           /\ Pending(g)' = Tail(Pending(g))
           /\ \A h \in Groups \ {g} : Pending(h)' = Pending(h)
<1>1. toWorker[g] \in Seq(Command) /\ phase[g] = "running" /\ phase'[g] = "done" /\ toWorker' = toWorker
    BY DEF TypeOK, Execute
<1>2. current[g] \in Command
    BY <1>1 DEF TypeOK, Running
<1>3. Pending(g) = <<current[g]>> \o toWorker[g]
    BY <1>1 DEF Pending
<1>4. Pending(g)' = toWorker[g]
    BY <1>1, <1>1 DEF Pending
<1>5. /\ <<current[g]>> \o toWorker[g] # <<>>
      /\ (<<current[g]>> \o toWorker[g])[1] = current[g]
      /\ Tail(<<current[g]>> \o toWorker[g]) = toWorker[g]
    BY <1>1, <1>2
<1>6. \A h \in Groups \ {g} : Pending(h)' = Pending(h)
    BY DEF Pending, TypeOK, Execute
<1> QED
    BY <1>3, <1>4, <1>5, <1>6

\* The end of a command does not touch the others.
LEMMA PendingDone ==
    ASSUME TypeOK, NEW g \in Groups, SendStatus(g)
    PROVE  \A h \in Groups : Pending(h)' = Pending(h)
BY DEF Pending, TypeOK, SendStatus

-----------------------------------------------------------------------------
\* The steps.

\* A group a step does not touch keeps its invariant.
LEMMA Untouched ==
    ASSUME NEW g \in Groups, GroupInv(g), Pending(g)' = Pending(g),
           workerTasks'[g] = workerTasks[g], managerTasks'[g] = managerTasks[g],
           replies'[g] = replies[g], g \in closed' <=> g \in closed,
           awaiting' = awaiting \/ (awaiting.group # g /\ awaiting'.group # g),
           phase'[g] = phase[g] /\ current'[g] = current[g]
    PROVE  GroupInv(g)'
<1>1. Removing(g)' <=> Removing(g)
    BY DEF Removing
<1>2. Expected(g)' = Expected(g)
    BY <1>1 DEF Expected, Removing
<1>3. ListsAgree(g)'
    BY <1>1, <1>2 DEF ListsAgree, GroupInv
<1>4. Answered(g)'
    <2>1. CASE awaiting' = awaiting
        BY <1>1, <2>1 DEF Answered, RequestPending, RequestAnswered, GroupInv
    <2>2. CASE awaiting.group # g /\ awaiting'.group # g
        BY <2>2 DEF Answered, GroupInv
    <2> QED BY <2>1, <2>2
<1>5. ClosedEnds(g)'
    BY DEF ClosedEnds, GroupInv
<1> QED
    BY <1>3, <1>4, <1>5 DEF GroupInv

\* A command that asks nothing is followed by the manager's new list.
LEMMA SendKeeps ==
    ASSUME TypeOK, NEW g \in Groups, GroupInv(g), NEW sig, NEW t,
           [sig |-> sig, task |-> t] \in Command, Send(g, sig, t),
           sig \notin Asking, awaiting = NotAwaiting, awaiting' = NotAwaiting, g \notin closed,
           g \in closed' <=> sig = "EXIT",
           Expected(g)' = TasksAfter([sig |-> sig, task |-> t], managerTasks[g]),
           UNCHANGED <<phase, current, replies, workerTasks>>
    PROVE  GroupInv(g)'
<1> DEFINE c == [sig |-> sig, task |-> t]
           P == Pending(g)
<1>1. P \in Seq(Command) /\ Len(P) \in Nat
    BY PendingType, LenProperties
<1>2. Pending(g)' = Append(P, c)
    BY PendingSend
<1>3. /\ Len(Append(P, c)) = Len(P) + 1
      /\ \A i \in 1..Len(P) : Append(P, c)[i] = P[i]
      /\ Append(P, c)[Len(P) + 1] = c
    BY <1>1, AppendProperties
<1>4. awaiting.group # g /\ awaiting'.group # g /\ ~Removing(g) /\ ~Removing(g)'
    BY UsedAssumption DEF NotAwaiting, Removing
<1>5. Expected(g) = managerTasks[g] /\ managerTasks[g] \in Seq(Tasks)
    BY <1>4 DEF Expected, TypeOK
<1>6. ListsAgree(g)'
    <2>1. PICK h \in Seq(Seq(Tasks)) : Follows(h, P, workerTasks[g], managerTasks[g])
        BY <1>5 DEF GroupInv, ListsAgree
    <2>2. Follows(Append(h, TasksAfter(c, managerTasks[g])), Append(P, c), workerTasks[g],
                  TasksAfter(c, managerTasks[g]))
        BY <1>1, <1>5, <2>1, FollowsAppend
    <2>3. Append(h, TasksAfter(c, managerTasks[g])) \in Seq(Seq(Tasks))
        BY <2>2 DEF Follows
    <2>4. Follows(Append(h, TasksAfter(c, managerTasks[g])), Pending(g)', workerTasks'[g], Expected(g)')
        BY <1>2, <2>2
    <2> QED BY <1>4, <2>3, <2>4 DEF ListsAgree
<1>7. Answered(g)'
    <2>1. replies'[g] = <<>> /\ \A i \in 1..Len(P) : P[i].sig \notin Asking
        BY <1>4 DEF GroupInv, Answered
    <2>2. \A i \in 1..Len(Append(P, c)) : Append(P, c)[i].sig \notin Asking
        BY <1>1, <1>3, <2>1
    <2> QED BY <1>2, <1>4, <2>1, <2>2 DEF Answered
<1>8. ClosedEnds(g)'
    <2>1. CASE sig = "EXIT"
        <3>1. Len(P) + 1 \in 1..Len(Append(P, c)) /\ Append(P, c)[Len(P) + 1].sig = "EXIT"
            BY <1>1, <1>3, <2>1
        <3> QED BY <1>2, <3>1 DEF ClosedEnds
    <2>2. CASE sig # "EXIT"
        BY <2>2 DEF ClosedEnds
    <2> QED BY <2>1, <2>2
<1> QED
    BY <1>6, <1>7, <1>8 DEF GroupInv

\* A command that is asked for a reply is the last one the manager sends.
LEMMA AskKeeps ==
    ASSUME TypeOK, NEW g \in Groups, GroupInv(g), NEW sig \in Asking, NEW t,
           [sig |-> sig, task |-> t] \in Command, Send(g, sig, t),
           awaiting = NotAwaiting, awaiting' = [group |-> g, sig |-> sig, task |-> t],
           g \notin closed, UNCHANGED <<closed, managerTasks, phase, current, replies, workerTasks>>,
           sig = "RESCHEDULE_REMOVE_TASK" => Contains(managerTasks[g], t)
    PROVE  GroupInv(g)'
<1> DEFINE c == [sig |-> sig, task |-> t]
           P == Pending(g)
<1>1. P \in Seq(Command) /\ Len(P) \in Nat
    BY PendingType, LenProperties
<1>2. Pending(g)' = Append(P, c)
    BY PendingSend
<1>3. /\ Len(Append(P, c)) = Len(P) + 1
      /\ \A i \in 1..Len(P) : Append(P, c)[i] = P[i]
      /\ Append(P, c)[Len(P) + 1] = c
    BY <1>1, AppendProperties
<1>4. awaiting.group # g /\ awaiting'.group = g /\ ~Removing(g)
    BY UsedAssumption DEF NotAwaiting, Removing
<1>5. Expected(g) = managerTasks[g] /\ managerTasks[g] \in Seq(Tasks)
    BY <1>4 DEF Expected, TypeOK
<1>6. Expected(g)' = TasksAfter(c, managerTasks[g])
    BY DEF Expected, Removing, TasksAfter, Asking, NormSignals, TaskSignals
<1>7. ListsAgree(g)'
    <2>1. PICK h \in Seq(Seq(Tasks)) : Follows(h, P, workerTasks[g], managerTasks[g])
        BY <1>5 DEF GroupInv, ListsAgree
    <2> DEFINE k == Append(h, TasksAfter(c, managerTasks[g]))
    <2>2. Follows(k, Append(P, c), workerTasks[g], TasksAfter(c, managerTasks[g]))
        BY <1>1, <1>5, <2>1, FollowsAppend
    <2>5. k[Len(P) + 1] = managerTasks[g]
        <3>1. Len(h) = Len(P) + 1 /\ h[Len(P) + 1] = managerTasks[g] /\ Len(P) + 1 \in 1..Len(h)
            BY <1>1, <2>1 DEF Follows
        <3>2. TasksAfter(c, managerTasks[g]) \in Seq(Tasks)
            BY <1>5, TasksAfterType
        <3> QED BY <3>1, <3>2, AppendProperties
    <2>3. k \in Seq(Seq(Tasks))
        BY <2>2 DEF Follows
    <2> HIDE DEF k
    <2>4. Follows(k, Pending(g)', workerTasks'[g], Expected(g)') /\ k[Len(Pending(g)')] = managerTasks'[g]
        BY <1>2, <1>3, <1>6, <2>2, <2>5
    <2> QED BY <2>3, <2>4 DEF ListsAgree
<1>8. Answered(g)'
    <2>1. replies'[g] = <<>> /\ \A i \in 1..Len(P) : P[i].sig \notin Asking
        BY <1>4 DEF GroupInv, Answered
    <2>2. \A i \in 1..(Len(Append(P, c)) - 1) : Append(P, c)[i].sig \notin Asking
        BY <1>1, <1>3, <2>1
    <2>3. Len(Append(P, c)) > 0
        BY <1>1, <1>3
    <2>4. RequestPending(g)'
        BY <1>2, <1>3, <2>1, <2>2, <2>3 DEF RequestPending, Removing
    <2> QED BY <1>4, <2>4 DEF Answered
<1>9. ClosedEnds(g)'
    BY DEF ClosedEnds
<1> QED
    BY <1>7, <1>8, <1>9 DEF GroupInv

\* The manager takes the reply and erases the task.
LEMMA ReplyKeeps ==
    ASSUME TypeOK, NEW g \in Groups, GroupInv(g), ReceiveReply(g)
    PROVE  GroupInv(g)'
<1> USE DEF channelVars, workerVars
<1>1. /\ awaiting.group = g /\ awaiting' = NotAwaiting /\ replies[g] # <<>>
      /\ closed' = closed /\ toWorker' = toWorker /\ UNCHANGED workerVars
      /\ replies'[g] = Tail(replies[g])
    BY DEF ReceiveReply, TypeOK
<1>2. Pending(g)' = Pending(g)
    BY <1>1 DEF Pending
<1>3. awaiting'.group # g /\ ~Removing(g)'
    BY <1>1, UsedAssumption DEF NotAwaiting, Removing
<1>4. RequestAnswered(g) /\ g \notin closed
    BY <1>1 DEF GroupInv, Answered, RequestPending
<1>5. Expected(g)' = Expected(g)
    <2>1. CASE awaiting.sig = "RESCHEDULE_REMOVE_TASK"
        <3>1. managerTasks'[g] = RemoveFirst(managerTasks[g], awaiting.task)
            BY <2>1 DEF ReceiveReply, TypeOK
        <3> QED BY <1>1, <1>3, <2>1, <3>1 DEF Expected, Removing
    <2>2. CASE awaiting.sig # "RESCHEDULE_REMOVE_TASK"
        BY <1>1, <1>3, <2>2 DEF Expected, Removing, ReceiveReply
    <2> QED BY <2>1, <2>2
<1>6. ListsAgree(g)'
    BY <1>1, <1>2, <1>3, <1>5 DEF GroupInv, ListsAgree
<1>7. Answered(g)'
    <2>1. Tail(replies[g]) = <<>>
        <3>1. PICK x : replies[g] = <<x>>
            BY <1>4 DEF RequestAnswered
        <3> QED BY <3>1
    <2> QED BY <1>1, <1>2, <1>3, <1>4, <2>1 DEF Answered, RequestAnswered
<1>8. ClosedEnds(g)'
    BY <1>1, <1>4 DEF ClosedEnds
<1> QED
    BY <1>6, <1>7, <1>8 DEF GroupInv

\* The group executes a command: its list follows, and a request is answered from the list
\* the manager has.
LEMMA ExecuteKeeps ==
    ASSUME TypeOK, NEW g \in Groups, GroupInv(g), Execute(g)
    PROVE  GroupInv(g)'
<1> DEFINE P == Pending(g)
           n == Len(P)
           c == current[g]
<1>1. /\ P \in Seq(Command) /\ n \in Nat /\ n > 0 /\ P # <<>> /\ P[1] = c
      /\ Pending(g)' = Tail(P) /\ Len(Tail(P)) = n - 1
      /\ \A i \in 1..(n - 1) : Tail(P)[i] = P[i + 1]
    BY PendingType, PendingExecute, LenProperties, HeadTailProperties, EmptySeq
<1>2. /\ UNCHANGED managerVars /\ phase'[g] = "done" /\ current'[g] = c
      /\ workerTasks'[g] = TasksAfter(c, workerTasks[g])
      /\ replies'[g] = replies[g] \o RepliesTo(c, workerTasks[g])
    BY DEF Execute, TypeOK
<1>3. (Removing(g)' <=> Removing(g)) /\ Expected(g)' = Expected(g) /\ awaiting' = awaiting
      /\ closed' = closed /\ managerTasks' = managerTasks
    BY <1>2 DEF Removing, Expected, managerVars
<1>4. replies[g] \in Seq(Seq(Tasks)) /\ workerTasks[g] \in Seq(Tasks) /\ c \in Command
    BY <1>1, ElementOfSeq DEF TypeOK
<1>5. PICK h \in Seq(Seq(Tasks)) :
        /\ Follows(h, P, workerTasks[g], Expected(g))
        /\ Removing(g) /\ replies[g] = <<>> => h[n] = managerTasks[g]
    BY DEF GroupInv, ListsAgree
<1>6. /\ Follows(Tail(h), Tail(P), workerTasks'[g], Expected(g))
      /\ \A i \in 1..Len(Tail(P)) : Tail(h)[i] = h[i + 1]
    BY <1>1, <1>2, <1>5, FollowsTail
<1>7. c.sig \notin Asking => replies'[g] = replies[g]
    <2>1. c.sig \notin Asking => RepliesTo(c, workerTasks[g]) = <<>>
        BY DEF RepliesTo, Asking
    <2> QED BY <1>2, <1>4, <2>1, ConcatEmptySeq
<1> HIDE DEF P, n, c
<1>8. ASSUME awaiting.group = g, RequestPending(g), n = 1
      PROVE  RequestAnswered(g)'
    <2>1. c = [sig |-> awaiting.sig, task |-> awaiting.task] /\ replies[g] = <<>>
        BY <1>1, <1>8 DEF RequestPending, P, n
    <2>2. replies'[g] = RepliesTo(c, workerTasks[g])
        BY <1>2, <2>1, RepliesToType, <1>4, ConcatEmptySeq
    <2>3. awaiting.sig \in Asking /\ g \notin closed
        BY <1>8 DEF GroupInv, Answered
    <2>4. h[1] = workerTasks[g] /\ h[2] = TasksAfter(c, workerTasks[g]) /\ h[2] = Expected(g)
        BY <1>1, <1>5, <1>8, 1 + 1 = 2 DEF Follows, n
    <2>5. CASE awaiting.sig \in NormSignals
        <3>1. TasksAfter(c, workerTasks[g]) = workerTasks[g] /\ Expected(g) = managerTasks[g]
            BY <2>1, <2>3, <2>5 DEF TasksAfter, Expected, Removing, NormSignals, TaskSignals
        <3>2. RepliesTo(c, workerTasks[g]) = <<managerTasks[g]>>
            BY <2>1, <2>4, <2>5, <3>1 DEF RepliesTo, NormSignals
        <3> QED BY <1>1, <1>3, <1>8, <2>2, <2>5, <3>2, EmptySeq DEF RequestAnswered, n
    <2>6. CASE awaiting.sig = "RESCHEDULE_REMOVE_TASK"
        <3>1. workerTasks[g] = managerTasks[g]
            BY <1>5, <1>8, <2>1, <2>4, <2>6 DEF Removing
        <3>2. Contains(workerTasks[g], c.task)
            BY <1>8, <2>1, <2>6, <3>1 DEF RequestPending, Removing
        <3>3. RepliesTo(c, workerTasks[g]) = <<(<<awaiting.task>>)>>
            BY <2>1, <2>6, <3>2 DEF RepliesTo, NormSignals
        <3> QED BY <1>1, <1>3, <1>8, <2>2, <2>6, <3>3, EmptySeq DEF RequestAnswered, NormSignals, n
    <2> QED BY <2>3, <2>5, <2>6 DEF Asking
<1>9. ASSUME awaiting.group = g, RequestPending(g), n # 1
      PROVE  RequestPending(g)' /\ replies'[g] = replies[g]
    <2>1. n - 1 > 0 /\ 1 \in 1..(n - 1) /\ n - 1 \in 1..(n - 1)
        BY <1>1, <1>9
    <2>2. replies'[g] = replies[g]
        BY <1>1, <1>7, <1>9, <2>1 DEF RequestPending, P, n
    <2>3. Tail(P)[n - 1] = P[n]
        BY <1>1, <2>1
    <2>4. \A i \in 1..(n - 2) : Tail(P)[i].sig \notin Asking
        BY <1>1, <1>9 DEF RequestPending, P, n
    <2> QED BY <1>1, <1>3, <1>9, <2>1, <2>2, <2>3, <2>4 DEF RequestPending, P, n
<1>10. Answered(g)'
    <2>1. CASE awaiting.group = g
        <3>1. RequestPending(g) \/ RequestAnswered(g)
            BY <2>1 DEF GroupInv, Answered
        <3>2. ~RequestAnswered(g)
            BY <1>1 DEF RequestAnswered, P
        <3>3. RequestPending(g)' \/ RequestAnswered(g)'
            BY <1>8, <1>9, <2>1, <3>1, <3>2
        <3> QED BY <1>3, <2>1, <3>3 DEF GroupInv, Answered
    <2>2. CASE awaiting.group # g
        <3>1. replies'[g] = <<>>
            BY <1>1, <1>7, <2>2 DEF GroupInv, Answered, P, n
        <3>2. \A i \in 1..(n - 1) : Tail(P)[i].sig \notin Asking
            BY <1>1, <2>2 DEF GroupInv, Answered, P, n
        <3> QED BY <1>1, <1>3, <2>2, <3>1, <3>2 DEF Answered
    <2> QED BY <2>1, <2>2
<1>11. ListsAgree(g)'
    <2>1. ASSUME Removing(g)', replies'[g] = <<>> PROVE Tail(h)[n - 1] = managerTasks[g]
        <3>1. awaiting.group = g
            BY <1>3, <2>1 DEF Removing
        <3>2. RequestPending(g)' /\ ~RequestAnswered(g)'
            BY <1>3, <1>10, <2>1, <3>1 DEF Answered, RequestAnswered
        <3>3. RequestPending(g) /\ n # 1
            BY <1>1, <1>8, <3>1, <3>2 DEF GroupInv, Answered, RequestAnswered, P
        <3>4. h[n] = managerTasks[g]
            BY <1>3, <1>5, <2>1, <3>3 DEF RequestPending
        <3>5. n - 1 \in 1..Len(Tail(P)) /\ (n - 1) + 1 = n
            BY <1>1, <3>3
        <3> QED BY <1>6, <3>4, <3>5
    <2>2. Tail(h) \in Seq(Seq(Tasks))
        BY <1>6 DEF Follows
    <2> QED BY <1>1, <1>3, <1>6, <2>1, <2>2 DEF ListsAgree
<1>12. ClosedEnds(g)'
    <2>1. ASSUME NEW i \in 1..n, P[i].sig = "EXIT", i # 1
          PROVE  \E j \in 1..(n - 1) : Tail(P)[j].sig = "EXIT"
        <3>1. i - 1 \in 1..(n - 1) /\ (i - 1) + 1 = i
            BY <1>1, <2>1
        <3> QED BY <1>1, <2>1, <3>1
    <2>2. phase[g] = "running"
        BY DEF Execute
    <2> QED BY <1>1, <1>2, <1>3, <2>1, <2>2 DEF GroupInv, ClosedEnds, P, n
<1> QED
    BY <1>10, <1>11, <1>12 DEF GroupInv

-----------------------------------------------------------------------------
\* The invariant of all groups.

ProtocolInv == TypeOK /\ \A g \in Groups : GroupInv(g)

\* Before the first command both lists are empty.
LEMMA InitGroupInv == Init => \A g \in Groups : GroupInv(g)
<1> SUFFICES ASSUME Init, NEW g \in Groups PROVE GroupInv(g)
    OBVIOUS
<1>1. awaiting.group # g /\ ~Removing(g)
    BY UsedAssumption DEF Init, NotAwaiting, Removing
<1>2. Pending(g) = <<>> /\ Len(Pending(g)) = 0
    <2>1. Pending(g) = <<>>
        BY DEF Init, Pending
    <2> QED BY <2>1
<1>3. Follows(<<(<<>>)>>, Pending(g), workerTasks[g], Expected(g)) /\ <<(<<>>)>> \in Seq(Seq(Tasks))
    BY <1>1, <1>2 DEF Follows, Init, Expected
<1>4. GroupInv(g)
    <2>1. ListsAgree(g)
        BY <1>1, <1>3 DEF ListsAgree
    <2>2. Answered(g)
        BY <1>1, <1>2 DEF Answered, Init
    <2>3. ClosedEnds(g)
        BY DEF ClosedEnds, Init
    <2> QED BY <2>1, <2>2, <2>3 DEF GroupInv
<1> QED
    BY <1>4

\* Every step keeps lists, requests and replies together.
LEMMA NextGroupInv == ProtocolInv /\ [Next]_vars => \A g \in Groups : GroupInv(g)'
<1> SUFFICES ASSUME ProtocolInv, [Next]_vars PROVE \A g \in Groups : GroupInv(g)'
    OBVIOUS
<1> USE DEF ProtocolInv, managerVars, channelVars, workerVars
<1>1. ASSUME NEW g \in Groups, NEW sig \in TaskSignals, NEW t \in Tasks,
             StoreTaskReferenceAndSend(g, sig, t)
      PROVE  \A h \in Groups : GroupInv(h)'
    <2>1. [sig |-> sig, task |-> t] \in Command
        BY TaskCommand DEF SignalsWithTask
    <2>2. Send(g, sig, t) /\ awaiting = NotAwaiting /\ awaiting' = NotAwaiting /\ g \notin closed
          /\ UNCHANGED <<closed, phase, current, replies, workerTasks>>
          /\ managerTasks'[g] = Append(managerTasks[g], t)
          /\ \A h \in Groups \ {g} : managerTasks'[h] = managerTasks[h]
        BY <1>1 DEF StoreTaskReferenceAndSend, CanSend, TypeOK
    <2>3. Expected(g)' = TasksAfter([sig |-> sig, task |-> t], managerTasks[g])
        BY <2>2, UsedAssumption DEF Expected, Removing, NotAwaiting, TasksAfter, TaskSignals
    <2>4. GroupInv(g)'
        BY <2>1, <2>2, <2>3, SendKeeps DEF Asking, TaskSignals, NormSignals
    <2>5. ASSUME NEW h \in Groups \ {g} PROVE GroupInv(h)'
        BY <2>1, <2>2, PendingSend, Untouched
    <2> QED BY <2>4, <2>5
<1>2. ASSUME NEW g \in Groups, NEW sig \in CheckedSignals \cup UncheckedSignals \cup {"RUN_NEXT"},
             Send(g, sig, None), CanSend(g, sig),
             UNCHANGED <<managerTasks, awaiting, closed, replies, workerVars>>
      PROVE  \A h \in Groups : GroupInv(h)'
    <2>1. [sig |-> sig, task |-> None] \in Command
        BY PlainCommand
    <2>2. Expected(g)' = TasksAfter([sig |-> sig, task |-> None], managerTasks[g])
        BY <1>2, UsedAssumption DEF CanSend, Expected, Removing, NotAwaiting, TasksAfter, TaskSignals,
           CheckedSignals, UncheckedSignals
    <2>3. sig \notin Asking /\ sig # "EXIT"
        BY DEF Asking, NormSignals, CheckedSignals, UncheckedSignals
    <2>4. GroupInv(g)'
        BY <1>2, <2>1, <2>2, <2>3, SendKeeps DEF CanSend
    <2>5. ASSUME NEW h \in Groups \ {g} PROVE GroupInv(h)'
        BY <1>2, <2>1, PendingSend, Untouched
    <2> QED BY <2>4, <2>5
<1>3. ASSUME NEW g \in Groups, NEW sig \in Asking, NEW t, [sig |-> sig, task |-> t] \in Command,
             Send(g, sig, t), CanSend(g, sig), awaiting' = [group |-> g, sig |-> sig, task |-> t],
             UNCHANGED <<managerTasks, closed, replies, workerVars>>,
             sig = "RESCHEDULE_REMOVE_TASK" => Contains(managerTasks[g], t)
      PROVE  \A h \in Groups : GroupInv(h)'
    <2>1. GroupInv(g)'
        BY <1>3, AskKeeps DEF CanSend
    <2>2. ASSUME NEW h \in Groups \ {g} PROVE GroupInv(h)'
        <3>1. awaiting.group # h /\ awaiting'.group # h
            BY <1>3, UsedAssumption DEF CanSend, NotAwaiting
        <3> QED BY <1>3, <3>1, PendingSend, Untouched
    <2> QED BY <2>1, <2>2
<1>4. ASSUME NEW g \in Groups, NEW t \in Tasks, DoDiagnostics(g, t)
      PROVE  \A h \in Groups : GroupInv(h)'
    <2>1. [sig |-> "DO_DIAGNOSTICS", task |-> t] \in Command
        BY TaskCommand DEF SignalsWithTask
    <2>2. Expected(g)' = TasksAfter([sig |-> "DO_DIAGNOSTICS", task |-> t], managerTasks[g])
        BY <1>4, UsedAssumption DEF DoDiagnostics, CanSend, Expected, Removing, NotAwaiting,
           TasksAfter, TaskSignals
    <2>3. GroupInv(g)'
        BY <1>4, <2>1, <2>2, SendKeeps DEF DoDiagnostics, CanSend, Asking, NormSignals
    <2>4. ASSUME NEW h \in Groups \ {g} PROVE GroupInv(h)'
        BY <1>4, <2>1, PendingSend, Untouched DEF DoDiagnostics
    <2> QED BY <2>3, <2>4
<1>5. ASSUME NEW g \in Groups, Exit(g) PROVE \A h \in Groups : GroupInv(h)'
    <2>1. [sig |-> "EXIT", task |-> None] \in Command
        BY PlainCommand
    <2>2. Expected(g)' = TasksAfter([sig |-> "EXIT", task |-> None], managerTasks[g])
        BY <1>5 DEF Exit, Expected, TasksAfter, TaskSignals
    <2>3. GroupInv(g)'
        BY <1>5, <2>1, <2>2, SendKeeps DEF Exit, CanSend, Asking, NormSignals
    <2>4. ASSUME NEW h \in Groups \ {g} PROVE GroupInv(h)'
        BY <1>5, <2>1, PendingSend, Untouched DEF Exit
    <2> QED BY <2>3, <2>4
<1>6. ASSUME NEW g \in Groups, ReceiveReply(g) PROVE \A h \in Groups : GroupInv(h)'
    <2>1. ASSUME NEW h \in Groups \ {g} PROVE GroupInv(h)'
        <3>1. awaiting.group # h /\ awaiting'.group # h
            BY <1>6, UsedAssumption DEF ReceiveReply, NotAwaiting
        <3>2. managerTasks'[h] = managerTasks[h] /\ replies'[h] = replies[h]
            BY <1>6 DEF ReceiveReply, TypeOK
        <3>3. Pending(h)' = Pending(h)
            BY <1>6 DEF ReceiveReply, Pending
        <3> QED BY <1>6, <3>1, <3>2, <3>3, Untouched DEF ReceiveReply
    <2> QED BY <1>6, <2>1, ReplyKeeps
<1>7. ASSUME NEW g \in Groups, DeliverStatus(g) PROVE \A h \in Groups : GroupInv(h)'
    <2>1. \A h \in Groups : Pending(h)' = Pending(h)
        BY <1>7 DEF DeliverStatus, Pending
    <2> QED BY <1>7, <2>1, Untouched DEF DeliverStatus
<1>8. ASSUME NEW g \in Groups, ReceiveSignal(g) PROVE \A h \in Groups : GroupInv(h)'
    <2>1. ASSUME NEW h \in Groups \ {g} PROVE GroupInv(h)'
        <3>1. phase'[h] = phase[h] /\ current'[h] = current[h]
            BY <1>8 DEF ReceiveSignal, TypeOK
        <3> QED BY <1>8, <3>1, PendingReceive, Untouched DEF ReceiveSignal
    <2>2. GroupInv(g)'
        <3>1. Pending(g)' = Pending(g) /\ phase[g] = "idle" /\ UNCHANGED <<managerVars, replies, workerTasks>>
            BY <1>8, PendingReceive DEF ReceiveSignal
        <3>2. (Removing(g)' <=> Removing(g)) /\ Expected(g)' = Expected(g)
            BY <3>1 DEF Removing, Expected
        <3>3. ListsAgree(g)'
            BY <3>1, <3>2 DEF GroupInv, ListsAgree
        <3>4. Answered(g)'
            BY <3>1, <3>2 DEF GroupInv, Answered, RequestPending, RequestAnswered
        <3>5. ClosedEnds(g)'
            BY <3>1 DEF GroupInv, ClosedEnds
        <3> QED BY <3>3, <3>4, <3>5 DEF GroupInv
    <2> QED BY <2>1, <2>2
<1>9. ASSUME NEW g \in Groups, Execute(g) PROVE \A h \in Groups : GroupInv(h)'
    <2>1. ASSUME NEW h \in Groups \ {g} PROVE GroupInv(h)'
        <3>1. phase'[h] = phase[h] /\ current'[h] = current[h] /\ workerTasks'[h] = workerTasks[h]
              /\ replies'[h] = replies[h]
            BY <1>9 DEF Execute, TypeOK
        <3> QED BY <1>9, <3>1, PendingExecute, Untouched DEF Execute
    <2> QED BY <1>9, <2>1, ExecuteKeeps
<1>10. ASSUME NEW g \in Groups, SendStatus(g) PROVE \A h \in Groups : GroupInv(h)'
    <2>1. ASSUME NEW h \in Groups \ {g} PROVE GroupInv(h)'
        <3>1. phase'[h] = phase[h] /\ current'[h] = current[h]
            BY <1>10 DEF SendStatus, TypeOK
        <3> QED BY <1>10, <3>1, PendingDone, Untouched DEF SendStatus
    <2>2. GroupInv(g)'
        <3>1. Pending(g)' = Pending(g) /\ phase[g] = "done" /\ UNCHANGED <<managerVars, replies, workerTasks>>
              /\ phase'[g] = IF current[g].sig = "EXIT" THEN "exited" ELSE "idle"
            BY <1>10, PendingDone DEF SendStatus, TypeOK
        <3>2. (Removing(g)' <=> Removing(g)) /\ Expected(g)' = Expected(g)
            BY <3>1 DEF Removing, Expected
        <3>3. ListsAgree(g)'
            BY <3>1, <3>2 DEF GroupInv, ListsAgree
        <3>4. Answered(g)'
            BY <3>1, <3>2 DEF GroupInv, Answered, RequestPending, RequestAnswered
        <3>5. ClosedEnds(g)'
            BY <3>1 DEF GroupInv, ClosedEnds
        <3> QED BY <3>3, <3>4, <3>5 DEF GroupInv
    <2> QED BY <2>1, <2>2
<1>11. CASE UNCHANGED vars
    <2>1. \A h \in Groups : Pending(h)' = Pending(h)
        BY <1>11 DEF vars, Pending
    <2> QED BY <1>11, <2>1, Untouched DEF vars
<1>12. ASSUME NEW g \in Groups, RunNext(g) PROVE \A h \in Groups : GroupInv(h)'
    BY <1>2, <1>12 DEF RunNext
<1>13. ASSUME NEW g \in Groups, NEW sig \in CheckedSignals, SendSignalAndReceive(g, sig)
       PROVE  \A h \in Groups : GroupInv(h)'
    BY <1>2, <1>13 DEF SendSignalAndReceive
<1>14. ASSUME NEW g \in Groups, NEW sig \in UncheckedSignals, SendUnchecked(g, sig)
       PROVE  \A h \in Groups : GroupInv(h)'
    BY <1>2, <1>14 DEF SendUnchecked
<1>15. ASSUME NEW g \in Groups, NEW sig \in NormSignals, GetLpNorms(g, sig)
       PROVE  \A h \in Groups : GroupInv(h)'
    <2>1. [sig |-> sig, task |-> None] \in Command /\ sig \in Asking /\ sig # "RESCHEDULE_REMOVE_TASK"
        BY PlainCommand DEF Asking, NormSignals
    <2> QED BY <1>3, <1>15, <2>1 DEF GetLpNorms
<1>16. ASSUME NEW g \in Groups, NEW t \in Tasks, RescheduleRemoveTask(g, t)
       PROVE  \A h \in Groups : GroupInv(h)'
    <2>1. [sig |-> "RESCHEDULE_REMOVE_TASK", task |-> t] \in Command
        BY TaskCommand DEF SignalsWithTask
    <2>2. "RESCHEDULE_REMOVE_TASK" \in Asking
        BY DEF Asking
    <2> QED BY <1>3, <1>16, <2>1, <2>2 DEF RescheduleRemoveTask
<1> QED
    BY <1>1, <1>4, <1>5, <1>6, <1>7, <1>8, <1>9, <1>10, <1>11, <1>12, <1>13, <1>14, <1>15, <1>16
       DEF Next, ManagerStep, WorkerStep

\* The invariant makes the lists agree when nothing is under way.
LEMMA InvImpliesAgree == ProtocolInv => TasksAgree
<1> SUFFICES ASSUME ProtocolInv, NEW g \in Groups, Quiet(g), awaiting.group # g, phase[g] # "exited"
             PROVE  managerTasks[g] = workerTasks[g]
    BY DEF TasksAgree
<1>1. phase[g] # "running" /\ phase[g] # "done" /\ toWorker[g] = <<>>
    BY DEF Quiet, Running
<1>2. Pending(g) = <<>> /\ Len(Pending(g)) = 0
    <2>1. Pending(g) = <<>>
        BY <1>1, PendingType DEF ProtocolInv
    <2> QED BY <2>1
<1>3. g \notin closed
    BY <1>1, <1>2 DEF ProtocolInv, GroupInv, ClosedEnds
<1>4. Expected(g) = managerTasks[g]
    BY <1>3 DEF Expected, Removing
<1>5. workerTasks[g] = Expected(g)
    BY <1>2 DEF ProtocolInv, GroupInv, ListsAgree, Follows
<1> QED
    BY <1>4, <1>5

\* And the reply under way is the one to the request.
LEMMA InvImpliesAnswer == ProtocolInv => ReplyAnswersTheRequest
<1> SUFFICES ASSUME ProtocolInv, NEW g \in Groups
             PROVE  IF awaiting.group # g THEN replies[g] = <<>>
                    ELSE \A i \in DOMAIN replies[g] :
                            replies[g][i] = IF awaiting.sig \in NormSignals THEN managerTasks[g]
                                            ELSE <<awaiting.task>>
    BY DEF ReplyAnswersTheRequest
<1>1. Answered(g)
    BY DEF ProtocolInv, GroupInv
<1>2. CASE awaiting.group # g
    BY <1>1, <1>2 DEF Answered
<1>3. CASE awaiting.group = g /\ replies[g] = <<>>
    BY <1>3
<1>4. CASE awaiting.group = g /\ RequestAnswered(g)
    <2> DEFINE answer == IF awaiting.sig \in NormSignals THEN managerTasks[g] ELSE <<awaiting.task>>
    <2>1. replies[g] = <<answer>>
        BY <1>4 DEF RequestAnswered
    <2> HIDE DEF answer
    <2>2. \A i \in DOMAIN replies[g] : replies[g][i] = answer
        BY <2>1
    <2> QED BY <1>4, <2>2 DEF answer
<1> QED
    BY <1>1, <1>2, <1>3, <1>4 DEF Answered, RequestPending

\* The invariant holds in every state.
LEMMA ProtocolInvariant == Spec => []ProtocolInv
<1>1. Init => ProtocolInv
    BY InitType, InitGroupInv DEF ProtocolInv
<1>2. ProtocolInv /\ [Next]_vars => ProtocolInv'
    BY NextType, NextGroupInv DEF ProtocolInv
<1> QED
    BY <1>1, <1>2, PTL DEF Spec

\* The manager's and the group's lists of tasks have the same tasks in the same order whenever the
\* group has executed what it was sent, whichever commands overlapped, the ones without a wait and
\* doDiagnostics included.
THEOREM TasksAgreeAlways == Spec => []TasksAgree
BY ProtocolInvariant, InvImpliesAgree, PTL

\* getLpNorms stores the norms under the IDs of the right tasks, and rescheduleRemoveTask gets the
\* task it asked for, whatever commands it overtook.
THEOREM RepliesCorrect == Spec => []ReplyAnswersTheRequest
BY ProtocolInvariant, InvImpliesAnswer, PTL

-----------------------------------------------------------------------------
\* The tasks of the groups, those on the way to them included.

\* The group has the task, or will get it by a command under way.
Carried(g, t) ==
    \/ \E i \in 1..Len(workerTasks[g]) : workerTasks[g][i] = t
    \/ \E i \in 1..Len(Pending(g)) : Pending(g)[i].sig \in TaskSignals /\ Pending(g)[i].task = t

\* The manager has the task in its list of the group.
Listed(g, t) == \E i \in 1..Len(managerTasks[g]) : managerTasks[g][i] = t

\* No group has a task, or is about to get one, that is not in the manager's list of the group.
CarriedAreListed == \A g \in Groups : \A t \in Tasks : Carried(g, t) => Listed(g, t)

\* No group has a task at the start.
LEMMA InitCarried == Init => CarriedAreListed
<1> SUFFICES ASSUME Init, NEW g \in Groups, NEW t \in Tasks PROVE ~Carried(g, t)
    BY DEF CarriedAreListed
<1>1. workerTasks[g] = <<>> /\ toWorker[g] = <<>> /\ phase[g] = "idle"
    BY DEF Init
<1>2. Pending(g) = <<>>
    BY <1>1 DEF Pending
<1> QED BY <1>1, <1>2 DEF Carried

\* A command that is sent, the task it brings in the manager's list.
LEMMA SendCarried ==
    ASSUME TypeOK, CarriedAreListed, NEW g \in Groups, NEW sig, NEW t,
           [sig |-> sig, task |-> t] \in Command, Send(g, sig, t),
           UNCHANGED <<phase, current, workerTasks>>,
           \/ managerTasks' = managerTasks /\ sig \notin TaskSignals
           \/ managerTasks' = [managerTasks EXCEPT ![g] = Append(@, t)]
    PROVE  CarriedAreListed'
<1> DEFINE c == [sig |-> sig, task |-> t]
<1>1. Pending(g)' = Append(Pending(g), c) /\ \A h \in Groups \ {g} : Pending(h)' = Pending(h)
    BY PendingSend
<1>2. Pending(g) \in Seq(Command) /\ managerTasks \in [Groups -> Seq(Tasks)]
    BY PendingType DEF TypeOK
<1>3. \A i \in 1..Len(Pending(g)') : Pending(g)'[i] = c \/ \E j \in 1..Len(Pending(g)) : Pending(g)'[i] = Pending(g)[j]
    BY <1>1, <1>2, AppendProperties
<1>4. ASSUME NEW u \in Tasks, Carried(g, u)' PROVE Carried(g, u) \/ (sig \in TaskSignals /\ u = t)
    BY <1>3, <1>4 DEF Carried
<1>5. ASSUME NEW h \in Groups, NEW u \in Tasks, Listed(h, u) PROVE Listed(h, u)'
    <2>1. CASE managerTasks' = managerTasks
        BY <1>5, <2>1 DEF Listed
    <2>2. CASE managerTasks' = [managerTasks EXCEPT ![g] = Append(@, t)]
        BY <1>2, <1>5, <2>2, AppendProperties DEF Listed
    <2> QED BY <2>1, <2>2
<1>6. sig \in TaskSignals => Listed(g, t)'
    <2> SUFFICES ASSUME sig \in TaskSignals PROVE Listed(g, t)'
        OBVIOUS
    <2>1. managerTasks'[g] = Append(managerTasks[g], t)
        BY <1>2
    <2>2. t \in Tasks
        BY DEF Command, Signals, SignalsWithTask
    <2>3. /\ Len(managerTasks'[g]) = Len(managerTasks[g]) + 1 /\ Len(managerTasks[g]) \in Nat
          /\ managerTasks'[g][Len(managerTasks[g]) + 1] = t
        BY <1>2, <2>1, <2>2, AppendProperties, LenProperties
    <2> QED BY <2>3 DEF Listed
<1>7. ASSUME NEW h \in Groups \ {g}, NEW u \in Tasks, Carried(h, u)' PROVE Carried(h, u)
    BY <1>1, <1>7 DEF Carried
<1> QED BY <1>4, <1>5, <1>6, <1>7 DEF CarriedAreListed

\* A command that is executed, its task now in the group's list.
LEMMA ExecuteCarried ==
    ASSUME TypeOK, CarriedAreListed, NEW g \in Groups, Execute(g)
    PROVE  CarriedAreListed'
<1> DEFINE c == current[g]
           w == workerTasks[g]
<1>1. /\ Pending(g) # <<>> /\ Pending(g)[1] = c /\ Pending(g)' = Tail(Pending(g))
      /\ \A h \in Groups \ {g} : Pending(h)' = Pending(h)
    BY PendingExecute
<1>2. /\ managerTasks' = managerTasks /\ workerTasks'[g] = TasksAfter(c, w)
      /\ \A h \in Groups \ {g} : workerTasks'[h] = workerTasks[h]
    BY DEF Execute, TypeOK, managerVars
<1>3. Pending(g) \in Seq(Command) /\ w \in Seq(Tasks) /\ c \in Command
    BY PendingType DEF TypeOK, Execute, Running
<1>4. /\ Len(Pending(g)) \in Nat /\ Len(Pending(g)) > 0 /\ Len(Tail(Pending(g))) = Len(Pending(g)) - 1
      /\ \A i \in 1..(Len(Pending(g)) - 1) : Tail(Pending(g))[i] = Pending(g)[i + 1]
    BY <1>1, <1>3, HeadTailProperties, LenProperties, EmptySeq
<1>5. \A i \in 1..Len(Pending(g)') : \E j \in 1..Len(Pending(g)) : Pending(g)'[i] = Pending(g)[j]
    <2> SUFFICES ASSUME NEW i \in 1..Len(Pending(g)')
                 PROVE  \E j \in 1..Len(Pending(g)) : Pending(g)'[i] = Pending(g)[j]
        OBVIOUS
    <2>1. i \in 1..(Len(Pending(g)) - 1) /\ i + 1 \in 1..Len(Pending(g))
        BY <1>1, <1>4
    <2>2. Pending(g)'[i] = Pending(g)[i + 1]
        BY <1>1, <1>4, <2>1
    <2> QED BY <2>1, <2>2
<1>6. c.sig \in TaskSignals => Carried(g, c.task)
    <2>1. 1 \in 1..Len(Pending(g))
        BY <1>4
    <2> QED BY <1>1, <2>1 DEF Carried
<1>7. ASSUME NEW i \in 1..Len(TasksAfter(c, w))
      PROVE  \/ \E j \in 1..Len(w) : w[j] = TasksAfter(c, w)[i]
             \/ c.sig \in TaskSignals /\ c.task = TasksAfter(c, w)[i]
    <2>1. CASE c.sig \in TaskSignals
        <3>1. TasksAfter(c, w) = Append(w, c.task)
            BY <2>1 DEF TasksAfter, TaskSignals
        <3>2. c.task \in Tasks
            BY <1>3, <2>1, TaskCommand DEF Command, SignalsWithTask
        <3>3. Len(w) \in Nat /\ Len(Append(w, c.task)) = Len(w) + 1
              /\ Append(w, c.task)[Len(w) + 1] = c.task
              /\ \A j \in 1..Len(w) : Append(w, c.task)[j] = w[j]
            BY <1>3, <3>2, AppendProperties, LenProperties
        <3> QED BY <1>7, <2>1, <3>1, <3>3
    <2>2. CASE c.sig = "RESCHEDULE_REMOVE_TASK"
        <3>1. TasksAfter(c, w) = RemoveFirst(w, c.task)
            BY <2>2 DEF TasksAfter, TaskSignals
        <3>2. c.task \in Tasks
            BY <1>3, <2>2 DEF Command, SignalsWithTask
        <3>3. \A i_1 \in 1..Len(RemoveFirst(w, c.task)) : \E j \in 1..Len(w) : w[j] = RemoveFirst(w, c.task)[i_1]
            BY <1>3, <3>2, RemoveFirstKeeps
        <3> QED BY <1>7, <3>1, <3>3
    <2>3. CASE c.sig = "EXIT"
        <3>1. TasksAfter(c, w) = <<>>
            BY <2>3 DEF TasksAfter, TaskSignals
        <3> QED BY <1>7, <3>1
    <2>4. CASE c.sig \notin TaskSignals \cup {"RESCHEDULE_REMOVE_TASK", "EXIT"}
        <3>1. TasksAfter(c, w) = w
            BY <2>4 DEF TasksAfter
        <3> QED BY <1>7, <3>1
    <2> QED BY <2>1, <2>2, <2>3, <2>4
<1> HIDE DEF c, w
<1>8. ASSUME NEW u \in Tasks, Carried(g, u)' PROVE Carried(g, u)
    <2>1. CASE \E i \in 1..Len(workerTasks'[g]) : workerTasks'[g][i] = u
        BY <1>1, <1>2, <1>6, <1>7, <2>1 DEF Carried, w
    <2>2. CASE \E i \in 1..Len(Pending(g)') : Pending(g)'[i].sig \in TaskSignals /\ Pending(g)'[i].task = u
        BY <1>5, <2>2 DEF Carried
    <2> QED BY <1>8, <2>1, <2>2 DEF Carried
<1>9. ASSUME NEW h \in Groups \ {g}, NEW u \in Tasks, Carried(h, u)' PROVE Carried(h, u)
    BY <1>1, <1>2, <1>9 DEF Carried
<1>10. ASSUME NEW h \in Groups, NEW u \in Tasks, Listed(h, u) PROVE Listed(h, u)'
    BY <1>2, <1>10 DEF Listed
<1> QED BY <1>8, <1>9, <1>10 DEF CarriedAreListed

\* The manager drops a task from its list when the group has sent it back, with nothing under way.
LEMMA ReplyCarried ==
    ASSUME ProtocolInv, CarriedAreListed, NEW g \in Groups, ReceiveReply(g)
    PROVE  CarriedAreListed'
<1> USE DEF workerVars
<1>1. /\ awaiting.group = g /\ replies[g] # <<>> /\ toWorker' = toWorker /\ UNCHANGED workerVars
      /\ managerTasks \in [Groups -> Seq(Tasks)]
    BY DEF ReceiveReply, ProtocolInv, TypeOK
<1>2. \A h \in Groups : Pending(h)' = Pending(h) /\ workerTasks'[h] = workerTasks[h]
    BY <1>1 DEF Pending
<1>3. \A h \in Groups, u \in Tasks : Carried(h, u)' <=> Carried(h, u)
    BY <1>2 DEF Carried
<1>4. CASE awaiting.sig # "RESCHEDULE_REMOVE_TASK"
    <2>1. managerTasks' = managerTasks
        BY <1>4 DEF ReceiveReply
    <2> QED BY <1>3, <2>1 DEF CarriedAreListed, Listed
<1>5. CASE awaiting.sig = "RESCHEDULE_REMOVE_TASK"
    <2>1. managerTasks' = [managerTasks EXCEPT ![g] = RemoveFirst(@, awaiting.task)]
        BY <1>5 DEF ReceiveReply
    <2>2. RequestAnswered(g) /\ g \notin closed /\ Removing(g)
        BY <1>1, <1>5 DEF ProtocolInv, GroupInv, Answered, RequestPending, Removing
    <2>3. Pending(g) = <<>> /\ Len(Pending(g)) = 0
        <3>1. Pending(g) = <<>>
            BY <2>2 DEF RequestAnswered
        <3> QED BY <3>1
    <2>4. workerTasks[g] = RemoveFirst(managerTasks[g], awaiting.task)
        BY <2>2, <2>3 DEF ProtocolInv, GroupInv, ListsAgree, Follows, Expected
    <2>5. managerTasks'[g] = workerTasks[g]
        BY <1>1, <2>1, <2>4
    <2>6. ASSUME NEW u \in Tasks, Carried(g, u) PROVE Listed(g, u)'
        <3>1. \E i \in 1..Len(workerTasks[g]) : workerTasks[g][i] = u
            BY <2>3, <2>6 DEF Carried
        <3> QED BY <2>5, <3>1 DEF Listed
    <2>7. ASSUME NEW h \in Groups \ {g}, NEW u \in Tasks, Listed(h, u) PROVE Listed(h, u)'
        <3>1. managerTasks'[h] = managerTasks[h]
            BY <1>1, <2>1
        <3> QED BY <2>7, <3>1 DEF Listed
    <2> QED BY <1>3, <2>6, <2>7 DEF CarriedAreListed
<1> QED BY <1>4, <1>5

\* Every step keeps the groups' tasks in the manager's lists.
LEMMA NextCarried == ProtocolInv /\ CarriedAreListed /\ [Next]_vars => CarriedAreListed'
<1> SUFFICES ASSUME ProtocolInv, CarriedAreListed, [Next]_vars PROVE CarriedAreListed'
    OBVIOUS
<1> USE DEF managerVars, channelVars, workerVars
<1>0. TypeOK
    BY DEF ProtocolInv
<1>1. ASSUME UNCHANGED <<managerTasks, workerTasks>>, \A g \in Groups : Pending(g)' = Pending(g)
      PROVE  CarriedAreListed'
    BY <1>1 DEF CarriedAreListed, Carried, Listed
<1>2. CASE UNCHANGED vars
    <2>1. \A g \in Groups : Pending(g)' = Pending(g)
        BY <1>2 DEF vars, Pending
    <2> QED BY <1>1, <1>2, <2>1 DEF vars
<1>3. ASSUME NEW g \in Groups, NEW sig \in TaskSignals, NEW t \in Tasks,
             StoreTaskReferenceAndSend(g, sig, t)
      PROVE  CarriedAreListed'
    <2>1. [sig |-> sig, task |-> t] \in Command
        BY TaskCommand DEF SignalsWithTask
    <2> QED BY <1>0, <1>3, <2>1, SendCarried DEF StoreTaskReferenceAndSend
<1>4. ASSUME NEW g \in Groups,
             \/ RunNext(g) \/ Exit(g)
             \/ \E sig \in CheckedSignals : SendSignalAndReceive(g, sig)
             \/ \E sig \in UncheckedSignals : SendUnchecked(g, sig)
             \/ \E sig \in NormSignals : GetLpNorms(g, sig)
      PROVE  CarriedAreListed'
    <2>1. PICK sig \in {"RUN_NEXT", "EXIT"} \cup CheckedSignals \cup UncheckedSignals \cup NormSignals :
            Send(g, sig, None) /\ UNCHANGED <<managerTasks, phase, current, workerTasks>>
        BY <1>4 DEF RunNext, Exit, SendSignalAndReceive, SendUnchecked, GetLpNorms
    <2>2. sig \notin TaskSignals /\ sig \notin SignalsWithTask /\ sig \in Signals
        BY DEF TaskSignals, CheckedSignals, UncheckedSignals, NormSignals, SignalsWithTask, Signals
    <2>3. [sig |-> sig, task |-> None] \in Command
        BY <2>2 DEF Command
    <2> QED BY <1>0, <2>1, <2>2, <2>3, SendCarried
<1>5. ASSUME NEW g \in Groups, NEW t \in Tasks, RescheduleRemoveTask(g, t) \/ DoDiagnostics(g, t)
      PROVE  CarriedAreListed'
    <2>1. PICK sig \in {"RESCHEDULE_REMOVE_TASK", "DO_DIAGNOSTICS"} :
            Send(g, sig, t) /\ UNCHANGED <<managerTasks, phase, current, workerTasks>>
        BY <1>5 DEF RescheduleRemoveTask, DoDiagnostics
    <2>2. sig \notin TaskSignals /\ [sig |-> sig, task |-> t] \in Command
        BY TaskCommand DEF SignalsWithTask, TaskSignals
    <2> QED BY <1>0, <2>1, <2>2, SendCarried
<1>6. ASSUME NEW g \in Groups, ReceiveReply(g) PROVE CarriedAreListed'
    BY <1>6, ReplyCarried
<1>7. ASSUME NEW g \in Groups, DeliverStatus(g) PROVE CarriedAreListed'
    <2>1. UNCHANGED <<managerTasks, workerTasks>> /\ \A h \in Groups : Pending(h)' = Pending(h)
        BY <1>7 DEF DeliverStatus, Pending
    <2> QED BY <1>1, <2>1
<1>8. ASSUME NEW g \in Groups, ReceiveSignal(g) \/ SendStatus(g) PROVE CarriedAreListed'
    <2>1. UNCHANGED <<managerTasks, workerTasks>>
        BY <1>8 DEF ReceiveSignal, SendStatus
    <2>2. \A h \in Groups : Pending(h)' = Pending(h)
        BY <1>0, <1>8, PendingReceive, PendingDone
    <2> QED BY <1>1, <2>1, <2>2
<1>9. ASSUME NEW g \in Groups, Execute(g) PROVE CarriedAreListed'
    BY <1>0, <1>9, ExecuteCarried
<1> QED
    BY <1>2, <1>3, <1>4, <1>5, <1>6, <1>7, <1>8, <1>9 DEF Next, ManagerStep, WorkerStep

=============================================================================
