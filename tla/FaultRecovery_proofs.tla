------------------------ MODULE FaultRecovery_proofs ------------------------
(***************************************************************************)
(* Proofs about FaultRecovery: whatever groups die and whatever the        *)
(* optimisation returns, manager and groups agree on the coefficients and  *)
(* on the tasks, no task is ever on two groups, and none that the          *)
(* combination uses is missing or late.                                    *)
(***************************************************************************)
EXTENDS FaultRecovery, WellFoundedInduction, TLAPS

PCs == {"combine", "restore", "restored", "runnext", "running", "recover", "redistribute",
        "recompute", "updated", "done", "failedInTheEnd", "aborted"}
Commands == {"none", "RUN_NEXT", "ADD_TASK", "RECOMPUTE", "UPDATE_COMBI_PARAMETERS"}

Types ==
    /\ pc \in PCs
    /\ success \in BOOLEAN
    /\ pgroups \in (SUBSET Groups) \ {{}}
    /\ next \in pgroups
    /\ status \in [Groups -> {"wait", "busy", "fail"}]
    /\ command \in [Groups -> [name : Commands, task : Nat]]
    /\ containers \in [Groups -> SUBSET Nat]
    /\ work = [g \in Groups |-> work[g]]
    /\ combiParams = [g \in Groups |-> combiParams[g]]
    /\ redistributed \in SUBSET Nat
    /\ recomputed \in SUBSET Nat

\* Only a busy group has a command, and the groups rest where the manager goes on without asking.
AtRest ==
    /\ \A g \in Groups : status[g] # "busy" => command[g] = NoCommand
    /\ pc \in {"combine", "restore", "runnext"} => AllWait

\* The manager's coefficients are those of the start unless it recovers from a loss ...
ParamsRestored ==
    /\ pc \in {"recover", "redistribute", "recompute", "updated", "restore"} => ~success
    /\ pc \in {"runnext", "running", "restored"} \/ (pc = "combine" /\ success) => params = Nominal

\* ... and a group has them, or will get them.
ParamsArrive ==
    /\ pc \notin {"redistribute", "recompute", "aborted"} =>
        \A g \in pgroups : combiParams[g] = params \/ command[g].name = "UPDATE_COMBI_PARAMETERS"
    /\ pc \in {"combine", "runnext", "running"} => \A g \in pgroups : combiParams[g] = params

\* The task that is on its way to group g.
Arriving(g) ==
    IF command[g].name \in {"ADD_TASK", "RECOMPUTE"} THEN {command[g].task} ELSE {}

TasksListed ==
    \A g \in pgroups : status[g] # "fail" => containers[g] = DOMAIN work[g] \cup Arriving(g)

\* A task is in one list, or still to be sent, once.
TasksOnce ==
    /\ \A g, h \in pgroups : g # h => containers[g] \cap containers[h] = {}
    /\ redistributed \cap recomputed = {}
    /\ pc # "aborted" =>
        \A g \in pgroups : containers[g] \cap (redistributed \cup recomputed) = {}

RecoveryInv ==
    /\ Types
    /\ AtRest
    /\ ParamsRestored
    /\ ParamsArrive
    /\ TasksListed
    /\ TasksOnce

-----------------------------------------------------------------------------
\* The smallest number of a set, which the manager's loops take next.
LEMMA MinInSet ==
    ASSUME NEW S \in SUBSET Nat, S # {}
    PROVE  Min(S) \in S
<1>1. \E x \in S : \A y \in S : x <= y
  <2>1. PICK x \in S : \A y \in S : ~(<<y, x>> \in OpToRel(<, Nat))
    BY NatLessThanWellFounded, WFMin
  <2>2. \A y \in S : ~(y < x)
    BY <2>1 DEF OpToRel
  <2>. QED BY <2>2
<1>. QED BY <1>1 DEF Min

-----------------------------------------------------------------------------
LEMMA RecoveryInit == Init => RecoveryInv
<1>. SUFFICES ASSUME Init PROVE RecoveryInv
  OBVIOUS
<1>1. PICK d \in Domains, c \in Criteria : \E owner \in Distributions(FTScheme(d[1], d[2])) :
        /\ scheme = FTScheme(d[1], d[2])
        /\ containers = [g \in Groups |-> {t \in DOMAIN owner : owner[t] = g}]
        /\ work = [g \in Groups |->
             [t \in {u \in DOMAIN owner : owner[u] = g} |-> [time |-> 1, combiStep |-> 1, valid |-> TRUE]]]
        /\ params = scheme.coeffs
        /\ combiParams = [g \in Groups |-> scheme.coeffs]
  BY DEF Init
<1>2. PICK owner \in Distributions(scheme) :
        /\ containers = [g \in Groups |-> {t \in DOMAIN owner : owner[t] = g}]
        /\ work = [g \in Groups |->
             [t \in {u \in DOMAIN owner : owner[u] = g} |-> [time |-> 1, combiStep |-> 1, valid |-> TRUE]]]
  BY <1>1
<1>3. DOMAIN owner \subseteq Nat
  BY <1>1, <1>2, DistributionAssumption
<1>4. Groups # {} /\ 1 \in Groups
  BY GroupsAssumption DEF Groups
<1>5. Types
  BY <1>1, <1>2, <1>3, <1>4 DEF Types, Init, PCs, Commands, NoCommand
<1>6. AtRest /\ ParamsRestored /\ ParamsArrive
  BY <1>1 DEF Init, AtRest, AllWait, Alive, Idle, ParamsRestored, ParamsArrive, Nominal
<1>7. TasksListed /\ TasksOnce
  BY <1>2 DEF Init, TasksListed, TasksOnce, Arriving, NoCommand
<1>. QED BY <1>5, <1>6, <1>7 DEF RecoveryInv

\* The manager's actions that send nothing and lose nobody.
LEMMA QuietSteps ==
    ASSUME RecoveryInv,
           RunNextFinished \/ ParametersSent \/ Combine \/ RedistributeFinished \/ UNCHANGED vars
    PROVE  RecoveryInv'
<1>1. CASE UNCHANGED vars
  BY <1>1 DEF vars, RecoveryInv, Types, AtRest, AllWait, Alive, Idle, ParamsRestored, ParamsArrive,
              TasksListed, TasksOnce, Arriving, Nominal
<1>2. CASE RunNextFinished
  <2>. USE <1>2 DEF RunNextFinished, config, groupVars
  <2>1. Types'
    BY DEF RecoveryInv, Types, PCs, Failed
  <2>2. AtRest'
    BY DEF RecoveryInv, AtRest, Types, NoneBusy, AllWait, Alive, Idle, Failed
  <2>3. ParamsRestored' /\ ParamsArrive'
    BY DEF RecoveryInv, Types, ParamsRestored, ParamsArrive, Nominal
  <2>4. TasksListed' /\ TasksOnce'
    BY DEF RecoveryInv, TasksListed, TasksOnce, Arriving
  <2>. QED BY <2>1, <2>2, <2>3, <2>4 DEF RecoveryInv
<1>3. CASE ParametersSent
  <2>. USE <1>3 DEF ParametersSent, config, groupVars
  <2>1. Types'
    BY DEF RecoveryInv, Types, PCs
  <2>2. AtRest'
    BY DEF RecoveryInv, AtRest, AllWait, Alive, Idle
  <2>. \A g \in pgroups : combiParams[g] = params
    <3>1. \A g \in pgroups : command[g] = NoCommand
      BY DEF RecoveryInv, Types, AtRest, AllWait, Alive, Idle
    <3>. QED BY <3>1 DEF RecoveryInv, ParamsArrive, NoCommand
  <2>3. ParamsRestored' /\ ParamsArrive'
    BY DEF RecoveryInv, ParamsRestored, ParamsArrive, Nominal
  <2>4. TasksListed' /\ TasksOnce'
    BY DEF RecoveryInv, TasksListed, TasksOnce, Arriving
  <2>. QED BY <2>1, <2>2, <2>3, <2>4 DEF RecoveryInv
<1>4. CASE Combine
  <2>. USE <1>4 DEF Combine, config
  <2>1. Types'
    BY DEF RecoveryInv, Types, PCs
  <2>2. AtRest'
    BY DEF RecoveryInv, AtRest, AllWait, Alive, Idle
  <2>3. ParamsRestored' /\ ParamsArrive'
    BY DEF RecoveryInv, ParamsRestored, ParamsArrive, Nominal
  <2>4. \A g \in pgroups : DOMAIN work'[g] = DOMAIN work[g]
    BY DEF RecoveryInv, Types, Alive
  <2>5. TasksListed' /\ TasksOnce'
    BY <2>4 DEF RecoveryInv, TasksListed, TasksOnce, Arriving
  <2>. QED BY <2>1, <2>2, <2>3, <2>5 DEF RecoveryInv
<1>5. CASE RedistributeFinished
  <2>. USE <1>5 DEF RedistributeFinished, config, groupVars
  <2>0. Min(pgroups) \in pgroups
    BY MinInSet, GroupsAssumption DEF RecoveryInv, Types, Groups
  <2>1. Types'
    BY <2>0 DEF RecoveryInv, Types, PCs
  <2>2. AtRest'
    BY DEF RecoveryInv, AtRest, AllWait, Alive, Idle
  <2>3. ParamsRestored' /\ ParamsArrive'
    BY DEF RecoveryInv, ParamsRestored, ParamsArrive, Nominal
  <2>4. TasksListed' /\ TasksOnce'
    BY DEF RecoveryInv, TasksListed, TasksOnce, Arriving
  <2>. QED BY <2>1, <2>2, <2>3, <2>4 DEF RecoveryInv
<1>. QED BY <1>1, <1>2, <1>3, <1>4, <1>5

\* The manager commands all groups, which rest.
LEMMA SendToAll ==
    ASSUME RecoveryInv, RecomputeFinished \/ RestoreCombischeme \/ RunNext
    PROVE  RecoveryInv'
<1>. USE DEF SendAll, config, groupVars
<1>0. pgroups \subseteq Groups
  BY DEF RecoveryInv, Types
<1>1. AllWait
  BY DEF RecomputeFinished, RestoreCombischeme, RunNext
<1>2. \A g \in pgroups : command[g] = NoCommand
  BY <1>1 DEF RecoveryInv, AtRest, AllWait, Alive, Idle, Types
<1>3. \A g \in pgroups : containers[g] = DOMAIN work[g]
  BY <1>1, <1>2 DEF RecoveryInv, TasksListed, Arriving, NoCommand, AllWait, Alive, Idle
<1>4. CASE RecomputeFinished
  <2>. USE <1>4 DEF RecomputeFinished
  <2>1. Types'
    BY DEF RecoveryInv, Types, PCs, Commands, Alive
  <2>2. AtRest'
    BY DEF RecoveryInv, Types, AtRest, Alive
  <2>3. ParamsRestored' /\ ParamsArrive'
    BY DEF RecoveryInv, Types, Alive, ParamsRestored, ParamsArrive, Nominal
  <2>4. TasksListed' /\ TasksOnce'
    <3>1. TasksOnce'
      BY DEF RecoveryInv, TasksOnce
    <3>2. \A g \in pgroups : Arriving(g)' = {}
      BY <1>0 DEF Arriving, Alive
    <3>. QED BY <1>3, <3>1, <3>2 DEF TasksListed
  <2>. QED BY <2>1, <2>2, <2>3, <2>4 DEF RecoveryInv
<1>5. CASE RestoreCombischeme
  <2>. USE <1>5 DEF RestoreCombischeme
  <2>1. Types'
    BY DEF RecoveryInv, Types, PCs, Commands, Alive
  <2>2. AtRest'
    BY DEF RecoveryInv, Types, AtRest, Alive
  <2>3. ParamsRestored' /\ ParamsArrive'
    BY DEF RecoveryInv, Types, Alive, ParamsRestored, ParamsArrive, Nominal, RestoredCoefficients
  <2>4. TasksListed' /\ TasksOnce'
    <3>1. TasksOnce'
      BY DEF RecoveryInv, TasksOnce
    <3>2. \A g \in pgroups : Arriving(g)' = {}
      BY <1>0 DEF Arriving, Alive
    <3>. QED BY <1>3, <3>1, <3>2 DEF TasksListed
  <2>. QED BY <2>1, <2>2, <2>3, <2>4 DEF RecoveryInv
<1>6. CASE RunNext
  <2>. USE <1>6 DEF RunNext
  <2>1. Types'
    BY DEF RecoveryInv, Types, PCs, Commands, Alive
  <2>2. AtRest'
    BY DEF RecoveryInv, Types, AtRest, Alive
  <2>3. \A g \in pgroups : combiParams[g] = params
    BY <1>2 DEF RecoveryInv, ParamsArrive, NoCommand
  <2>4. ParamsRestored' /\ ParamsArrive'
    BY <2>3 DEF RecoveryInv, ParamsRestored, ParamsArrive, Nominal
  <2>5. TasksListed' /\ TasksOnce'
    <3>1. TasksOnce'
      BY DEF RecoveryInv, TasksOnce
    <3>2. \A g \in pgroups : Arriving(g)' = {}
      BY <1>0 DEF Arriving, Alive
    <3>. QED BY <1>3, <3>1, <3>2 DEF TasksListed
  <2>. QED BY <2>1, <2>2, <2>4, <2>5 DEF RecoveryInv
<1>. QED BY <1>4, <1>5, <1>6

\* wait() and the task it sends, if it finds a group.
LEMMA Polling ==
    ASSUME RecoveryInv, NEW name \in {"ADD_TASK", "RECOMPUTE"}, NEW t \in redistributed \cup recomputed,
           PollAndSend(name, t), UNCHANGED <<config, pc, success, params, pgroups, groupVars>>,
           pc \in {"redistribute", "recompute"},
           redistributed' \subseteq redistributed, recomputed' \subseteq recomputed,
           Idle(next) => t \notin redistributed' \cup recomputed'
    PROVE  RecoveryInv'
<1>. USE DEF PollAndSend, config, groupVars
<1>0. /\ next \in pgroups /\ pgroups \subseteq Groups
      /\ command \in [Groups -> [name : Commands, task : Nat]]
      /\ containers \in [Groups -> SUBSET Nat]
      /\ status \in [Groups -> {"wait", "busy", "fail"}]
  BY DEF RecoveryInv, Types
<1>1. pgroups # {} /\ pgroups \subseteq Nat
  BY GroupsAssumption DEF RecoveryInv, Types, Groups
<1>2. Min(pgroups) \in pgroups
  BY <1>1, MinInSet
<1>3. Following(next) \in pgroups
  <2>. DEFINE later == {h \in pgroups : h > next}
  <2>1. later # {} => Min(later) \in later
    BY <1>1, MinInSet
  <2>. QED BY <2>1, <1>2 DEF Following
<1>4. Types'
  BY SMTT(30), <1>2, <1>3 DEF RecoveryInv, Types, Send, Commands
<1>5. AtRest'
  BY DEF RecoveryInv, Types, AtRest, Send
<1>6. ParamsRestored' /\ ParamsArrive'
  BY DEF RecoveryInv, ParamsRestored, ParamsArrive, Nominal
<1>7. TasksListed'
  <2>1. CASE ~Idle(next)
    BY <2>1 DEF RecoveryInv, TasksListed, Arriving
  <2>2. CASE Idle(next)
    <3>1. command[next] = NoCommand
      BY <2>2 DEF RecoveryInv, Types, AtRest, Idle
    <3>2. containers[next] = DOMAIN work[next]
      <4>1. Arriving(next) = {}
        BY <3>1 DEF Arriving, NoCommand
      <4>2. status[next] # "fail"
        BY <2>2 DEF Idle
      <4>. QED BY <1>0, <4>1, <4>2 DEF RecoveryInv, TasksListed
    <3>3. ASSUME NEW g \in pgroups, g = next
          PROVE  containers'[g] = DOMAIN work'[g] \cup {t} /\ Arriving(g)' = {t}
      <4>1. containers'[g] = containers[g] \cup {t}
        BY <1>0, <2>2, <3>3
      <4>2. command'[g] = [name |-> name, task |-> t]
        BY <1>0, <2>2, <3>3 DEF Send
      <4>3. Arriving(g)' = {t}
        BY <4>2 DEF Arriving
      <4>4. work'[g] = work[g]
        OBVIOUS
      <4>. QED BY <3>2, <3>3, <4>1, <4>3, <4>4
    <3>4. \A g \in pgroups \ {next} :
              /\ containers'[g] = containers[g] /\ Arriving(g)' = Arriving(g)
              /\ status'[g] = status[g] /\ work'[g] = work[g]
      BY <1>0, <2>2 DEF Arriving, Send
    <3>. HIDE DEF PollAndSend
    <3>5. \A g \in pgroups \ {next} : status'[g] # "fail" => containers'[g] = DOMAIN work'[g] \cup Arriving(g)'
      BY <3>4 DEF RecoveryInv, TasksListed
    <3>6. pgroups' = pgroups
      OBVIOUS
    <3>. QED BY <3>3, <3>5, <3>6 DEF TasksListed
  <2>. QED BY <2>1, <2>2
<1>8. TasksOnce'
  BY DEF RecoveryInv, Types, TasksOnce
<1>. QED BY <1>4, <1>5, <1>6, <1>7, <1>8 DEF RecoveryInv

LEMMA SendTask ==
    ASSUME RecoveryInv, Redistribute \/ Recompute
    PROVE  RecoveryInv'
<1>. redistributed \subseteq Nat /\ recomputed \subseteq Nat /\ redistributed \cap recomputed = {}
  BY DEF RecoveryInv, Types, TasksOnce
<1>1. CASE Redistribute
  <2>1. Min(redistributed) \in redistributed
    BY <1>1, MinInSet DEF Redistribute
  <2>2. UNCHANGED <<config, pc, success, params, pgroups, groupVars>>
    BY <1>1 DEF Redistribute
  <2>3. /\ redistributed' \subseteq redistributed /\ recomputed' \subseteq recomputed
        /\ Idle(next) => Min(redistributed) \notin redistributed' \cup recomputed'
    BY <1>1, <2>1 DEF Redistribute
  <2>. QED BY <1>1, <2>1, <2>2, <2>3, Polling DEF Redistribute
<1>2. CASE Recompute
  <2>1. Min(recomputed) \in recomputed
    BY <1>2, MinInSet DEF Recompute
  <2>2. UNCHANGED <<config, pc, success, params, pgroups, groupVars>>
    BY <1>2 DEF Recompute
  <2>3. /\ redistributed' \subseteq redistributed /\ recomputed' \subseteq recomputed
        /\ Idle(next) => Min(recomputed) \notin redistributed' \cup recomputed'
    BY <1>2, <2>1 DEF Recompute
  <2>. QED BY <1>2, <2>1, <2>2, <2>3, Polling DEF Recompute
<1>. QED BY <1>1, <1>2

\* The lost tasks leave the manager's lists with their groups and are to be sent again, each once.
LEMMA RecoverStep ==
    ASSUME RecoveryInv, Recover
    PROVE  RecoveryInv'
<1>. USE DEF config, groupVars
<1>0. pgroups \subseteq Groups /\ \A g \in Groups : containers[g] \subseteq Nat
  BY DEF RecoveryInv, Types
<1>1. /\ pc = "recover" /\ pc' \in {"redistribute", "aborted"}
      /\ UNCHANGED <<success, status, command, containers, work, combiParams>>
      /\ next' = Min(pgroups')
  BY DEF Recover
<1>2. /\ pgroups' \subseteq pgroups /\ pgroups' # {}
      /\ pc' # "aborted" => \A g \in pgroups' : status[g] # "fail"
  <2>1. CASE Failed = Alive
    BY <2>1 DEF Recover, RecoveryInv, Types
  <2>2. CASE Failed # Alive
    BY <2>2 DEF Recover, Failed, Alive, RemainingGroups
  <2>. QED BY <2>1, <2>2
<1>3. \/ redistributed' = redistributed /\ recomputed' = recomputed
      \/ /\ redistributed' \subseteq LostTasks /\ recomputed' \subseteq LostTasks
         /\ redistributed' \cap recomputed' = {}
  <2>1. \A coeffs : ToRecompute(LostTasks, coeffs) \subseteq LostTasks
    BY DEF ToRecompute
  <2>. QED BY <2>1 DEF Recover
<1>4. Types'
  <2>1. LostTasks \subseteq Nat
    BY <1>0 DEF LostTasks, Failed, Alive
  <2>2. redistributed' \subseteq Nat /\ recomputed' \subseteq Nat
    BY <1>3, <2>1 DEF RecoveryInv, Types
  <2>3. next' \in pgroups'
    BY <1>0, <1>1, <1>2, MinInSet DEF Groups
  <2>. QED BY <1>1, <1>2, <2>2, <2>3 DEF RecoveryInv, Types, PCs
<1>5. AtRest' /\ ParamsRestored' /\ ParamsArrive'
  BY <1>1 DEF RecoveryInv, AtRest, ParamsRestored, ParamsArrive
<1>6. TasksListed'
  BY <1>1, <1>2 DEF RecoveryInv, TasksListed, Arriving
<1>7. TasksOnce'
  <2>1. \A g, h \in pgroups' : g # h => containers'[g] \cap containers'[h] = {}
    BY <1>1, <1>2 DEF RecoveryInv, TasksOnce
  <2>2. redistributed' \cap recomputed' = {}
    BY <1>3 DEF RecoveryInv, TasksOnce
  <2>3. ASSUME pc' # "aborted", NEW g \in pgroups'
        PROVE  containers[g] \cap (redistributed' \cup recomputed') = {}
    <3>1. g \in pgroups /\ g \notin Failed
      BY <1>2, <2>3 DEF Failed, Alive
    <3>2. containers[g] \cap LostTasks = {}
      BY <3>1 DEF RecoveryInv, TasksOnce, LostTasks, Failed, Alive
    <3>3. containers[g] \cap (redistributed \cup recomputed) = {}
      BY <1>1, <3>1 DEF RecoveryInv, TasksOnce
    <3>. QED BY <1>3, <3>2, <3>3
  <2>. QED BY <1>1, <2>1, <2>2, <2>3 DEF TasksOnce
<1>. QED BY <1>4, <1>5, <1>6, <1>7 DEF RecoveryInv

\* A group that has executed its command rests, or is gone.
LEMMA WorkerSteps ==
    ASSUME RecoveryInv, NEW g \in Groups, Worker(g)
    PROVE  RecoveryInv'
<1>. USE DEF managerVars, config
<1>0. /\ pgroups \subseteq Groups
      /\ command \in [Groups -> [name : Commands, task : Nat]]
      /\ status \in [Groups -> {"wait", "busy", "fail"}]
      /\ work = [h \in Groups |-> work[h]]
      /\ combiParams = [h \in Groups |-> combiParams[h]]
  BY DEF RecoveryInv, Types
<1>1. command[g].name # "none" /\ status[g] = "busy"
  BY DEF Worker, WorkerRunNext, WorkerFails, WorkerAddTask, WorkerRecompute,
         WorkerUpdateCombiParameters, RecoveryInv, AtRest, NoCommand
<1>2. /\ UNCHANGED <<pc, success, params, pgroups, next, containers, redistributed, recomputed>>
      /\ command' = [command EXCEPT ![g] = NoCommand]
      /\ \E s \in {"wait", "fail"} : status' = [status EXCEPT ![g] = s]
  BY DEF Worker, WorkerRunNext, WorkerFails, WorkerAddTask, WorkerRecompute,
         WorkerUpdateCombiParameters, Done
<1>3. scheme' = scheme
  BY DEF Worker, WorkerRunNext, WorkerFails, WorkerAddTask, WorkerRecompute, WorkerUpdateCombiParameters
<1>4. \E w : work' = [work EXCEPT ![g] = w]
  <2>1. work = [work EXCEPT ![g] = work[g]]
    BY <1>0
  <2>. QED BY <2>1 DEF Worker, WorkerRunNext, WorkerFails, WorkerAddTask, WorkerRecompute,
                       WorkerUpdateCombiParameters
<1>5. \E c : combiParams' = [combiParams EXCEPT ![g] = c]
  <2>1. combiParams = [combiParams EXCEPT ![g] = combiParams[g]]
    BY <1>0
  <2>. QED BY <2>1 DEF Worker, WorkerRunNext, WorkerFails, WorkerAddTask, WorkerRecompute,
                       WorkerUpdateCombiParameters
<1>6. Types'
  <2>1. command' \in [Groups -> [name : Commands, task : Nat]]
    BY <1>0, <1>2 DEF NoCommand, Commands
  <2>2. status' \in [Groups -> {"wait", "busy", "fail"}]
    BY <1>0, <1>2
  <2>3. work' = [h \in Groups |-> work'[h]] /\ combiParams' = [h \in Groups |-> combiParams'[h]]
    BY <1>0, <1>4, <1>5
  <2>. QED BY <1>2, <2>1, <2>2, <2>3 DEF RecoveryInv, Types
<1>7. AtRest'
  <2>1. \A h \in Groups : status'[h] # "busy" => command'[h] = NoCommand
    BY <1>0, <1>2 DEF RecoveryInv, AtRest
  <2>2. pc \in {"combine", "restore", "runnext"} => g \notin pgroups
    BY <1>1 DEF RecoveryInv, AtRest, AllWait, Alive, Idle
  <2>. QED BY <1>0, <1>2, <2>1, <2>2 DEF RecoveryInv, AtRest, AllWait, Alive, Idle
<1>8. ParamsRestored'
  BY <1>2, <1>3 DEF RecoveryInv, ParamsRestored, Nominal
<1>9. ParamsArrive'
  <2>1. \A h \in Groups \ {g} : combiParams'[h] = combiParams[h] /\ command'[h] = command[h]
    BY <1>0, <1>2, <1>5
  <2>2. command[g].name = "UPDATE_COMBI_PARAMETERS" => combiParams'[g] = params
    BY <1>0 DEF Worker, WorkerRunNext, WorkerFails, WorkerAddTask, WorkerRecompute,
                WorkerUpdateCombiParameters
  <2>3. command[g].name # "UPDATE_COMBI_PARAMETERS" => combiParams'[g] = combiParams[g]
    BY DEF Worker, WorkerRunNext, WorkerFails, WorkerAddTask, WorkerRecompute,
           WorkerUpdateCombiParameters
  <2>. QED BY <1>0, <1>2, <2>1, <2>2, <2>3 DEF RecoveryInv, ParamsArrive
<1>10. TasksListed'
  <2>1. \A h \in Groups \ {g} : /\ status'[h] = status[h] /\ command'[h] = command[h]
                                 /\ work'[h] = work[h]
    BY <1>0, <1>2, <1>4
  <2>2. \A h \in pgroups \ {g} : status'[h] # "fail" => containers[h] = DOMAIN work'[h] \cup Arriving(h)'
    BY <1>0, <2>1 DEF RecoveryInv, TasksListed, Arriving
  <2>3. Arriving(g)' = {}
    BY <1>0, <1>2 DEF Arriving, NoCommand
  <2>4. status'[g] # "fail" => DOMAIN work'[g] = DOMAIN work[g] \cup Arriving(g)
    <3>1. CASE WorkerRunNext(g)
      BY <1>0, <3>1 DEF WorkerRunNext, Arriving
    <3>2. CASE WorkerFails(g)
      BY <1>0, <3>2 DEF WorkerFails
    <3>3. CASE WorkerAddTask(g)
      <4>1. work'[g] = AddTo(work[g], command[g].task, Received(command[g].task))
        BY <1>0, <3>3 DEF WorkerAddTask
      <4>2. Arriving(g) = {command[g].task}
        BY <3>3 DEF WorkerAddTask, Arriving
      <4>. QED BY <4>1, <4>2 DEF AddTo
    <3>4. CASE WorkerRecompute(g)
      <4>1. PICK r : work'[g] = AddTo(work[g], command[g].task, r)
        BY <1>0, <3>4 DEF WorkerRecompute
      <4>2. Arriving(g) = {command[g].task}
        BY <3>4 DEF WorkerRecompute, Arriving
      <4>. QED BY <4>1, <4>2 DEF AddTo
    <3>5. CASE WorkerUpdateCombiParameters(g)
      BY <1>0, <3>5 DEF WorkerUpdateCombiParameters, Arriving
    <3>. QED BY <3>1, <3>2, <3>3, <3>4, <3>5 DEF Worker
  <2>5. g \in pgroups => containers[g] = DOMAIN work[g] \cup Arriving(g)
    BY <1>1 DEF RecoveryInv, TasksListed
  <2>. QED BY <1>2, <2>2, <2>3, <2>4, <2>5 DEF TasksListed
<1>11. TasksOnce'
  BY <1>2 DEF RecoveryInv, TasksOnce
<1>. QED BY <1>6, <1>7, <1>8, <1>9, <1>10, <1>11 DEF RecoveryInv

LEMMA RecoveryInvariant == Spec => []RecoveryInv
<1>1. Init => RecoveryInv
  BY RecoveryInit
<1>2. RecoveryInv /\ [Next]_vars => RecoveryInv'
  BY QuietSteps, SendToAll, SendTask, RecoverStep, WorkerSteps DEF Next, Manager, Terminated
<1>. QED BY <1>1, <1>2, PTL DEF Spec

-----------------------------------------------------------------------------
\* Whichever groups die, when the others combine, they do it with the coefficients the manager found
\* for what is left, the manager's lists are the groups' tasks, and the tasks that were sent again are
\* not on two groups; they run on with the coefficients of the beginning (updateCombiParameters,
\* redistribute, recompute, restoreCombischeme).
THEOREM RecoveryCorrect == Spec => []ManagerInStep
<1>1. RecoveryInv => ManagerInStep
  <2>. SUFFICES ASSUME RecoveryInv PROVE ManagerInStep
    OBVIOUS
  <2>1. pc = "running" => \A g \in Alive : combiParams[g] = Nominal
    BY DEF RecoveryInv, ParamsArrive, ParamsRestored, Alive
  <2>2. pc = "combine" => \A g \in Alive : combiParams[g] = params
    BY DEF RecoveryInv, ParamsArrive, ParamsRestored, Alive
  <2>3. ASSUME pc = "combine"
        PROVE  /\ \A g \in Alive : containers[g] = DOMAIN work[g]
               /\ \A g, h \in Alive : g # h => DOMAIN work[g] \cap DOMAIN work[h] = {}
    <3>1. \A g \in Alive : status[g] # "fail" /\ Arriving(g) = {}
      BY <2>3 DEF RecoveryInv, Types, AtRest, AllWait, Alive, Idle, Arriving, NoCommand
    <3>2. \A g \in Alive : containers[g] = DOMAIN work[g]
      BY <3>1 DEF RecoveryInv, TasksListed, Alive
    <3>. QED BY <3>2 DEF RecoveryInv, TasksOnce, Alive
  <2>. QED BY <2>1, <2>2, <2>3 DEF ManagerInStep
<1>. QED BY <1>1, RecoveryInvariant, PTL

-----------------------------------------------------------------------------
(* Nothing is lost *)

TaskRecord == [time : Int, combiStep : Int, valid : BOOLEAN]

\* Every group has a grid of the two highest diagonals; the optimisation is made for those only.
EveryGroupHigh == \A g \in pgroups : ValidFaults(containers[g]) # {}

\* Tasks are positions in the scheme, and those of a living group have steps.
TasksTyped ==
    /\ i \in Nat \ {0}
    /\ containers \in [Groups -> SUBSET Tasks]
    /\ redistributed \subseteq Tasks /\ recomputed \subseteq Tasks
    /\ \A g \in pgroups : status[g] # "fail" => work[g] \in [DOMAIN work[g] -> TaskRecord]

\* Commands are under way, and tasks are still to be sent, in one phase of the loop each; a group
\* dies in a run, and the loop goes on without it.
Phases ==
    /\ \A g \in pgroups :
        /\ command[g].name = "RUN_NEXT" => pc = "running"
        /\ command[g].name = "ADD_TASK" => pc = "redistribute"
        /\ command[g].name = "RECOMPUTE" => pc = "recompute"
        /\ status[g] = "fail" => pc \in {"running", "recover", "failedInTheEnd", "aborted"}
    /\ pc # "aborted" =>
        /\ redistributed # {} => pc = "redistribute"
        /\ recomputed # {} => pc \in {"redistribute", "recompute"}

\* The sparse grids hold the solution of the last combination.
SolutionTime ==
    /\ pc \in {"combine", "recover", "redistribute", "recompute", "updated"} => dsgTime = i - 1
    /\ pc \in {"restore", "restored", "runnext", "running"} => dsgTime = i

\* A lost task that is not computed again is not used, and continues at the present step; another one
\* is computed from the last combination.
Unused(t) == params[t] = 0 /\ stepsTotal[t] = i
Again(t) == stepsTotal[t] = i - 1
Sent ==
    /\ \A t \in redistributed : Unused(t)
    /\ \A t \in recomputed : Again(t)
    /\ \A g \in pgroups : /\ command[g].name = "ADD_TASK" => Unused(command[g].task)
                          /\ command[g].name = "RECOMPUTE" => Again(command[g].task)

\* All tasks of a group are at the same step ...
StepOf(g) == IF pc = "running" /\ command[g].name # "RUN_NEXT" THEN i + 1 ELSE i
OnTime == \A g \in pgroups : status[g] # "fail" => \A t \in DOMAIN work[g] : work[g][t].time = StepOf(g)

\* ... and those that the scheme uses come from the last combination.
Current ==
    \A g \in pgroups : status[g] # "fail" => \A t \in DOMAIN work[g] :
        pc \in {"restore", "restored", "runnext", "running", "recover"} \/ params[t] # 0 => work[g][t].valid

\* Every task is in the list of a group, or still to be sent.
Covered ==
    pc # "aborted" =>
        \A t \in Tasks : t \in redistributed \cup recomputed \/ \E g \in pgroups : t \in containers[g]

LossInv ==
    /\ EveryGroupHigh /\ TasksTyped /\ Phases /\ SolutionTime
    /\ Sent /\ OnTime /\ Current /\ Covered

LEMMA LossInit ==
    ASSUME Init, EveryGroupHigh
    PROVE  LossInv
<1>1. PICK d \in Domains, c \in Criteria : \E owner \in Distributions(FTScheme(d[1], d[2])) :
        /\ scheme = FTScheme(d[1], d[2])
        /\ containers = [g \in Groups |-> {t \in DOMAIN owner : owner[t] = g}]
        /\ work = [g \in Groups |->
             [t \in {u \in DOMAIN owner : owner[u] = g} |-> [time |-> 1, combiStep |-> 1, valid |-> TRUE]]]
  BY DEF Init
<1>2. PICK owner \in Distributions(scheme) :
        /\ containers = [g \in Groups |-> {t \in DOMAIN owner : owner[t] = g}]
        /\ work = [g \in Groups |->
             [t \in {u \in DOMAIN owner : owner[u] = g} |-> [time |-> 1, combiStep |-> 1, valid |-> TRUE]]]
  BY <1>1
<1>3. owner \in [Tasks -> Groups]
  BY <1>1, <1>2, DistributionAssumption DEF Tasks
<1>. DEFINE one == [time |-> 1, combiStep |-> 1, valid |-> TRUE]
<1>4. one \in TaskRecord /\ one.time = 1 /\ one.valid
  BY DEF TaskRecord
<1>5. \A g \in Groups : /\ containers[g] = {t \in Tasks : owner[t] = g}
                        /\ work[g] = [t \in {u \in Tasks : owner[u] = g} |-> one]
  BY <1>2, <1>3
<1>. HIDE DEF one
<1>6. /\ pc = "combine" /\ i = 1 /\ pgroups = Groups /\ redistributed = {} /\ recomputed = {}
      /\ dsgTime = 0 /\ \A g \in Groups : status[g] = "wait" /\ command[g].name = "none"
  BY DEF Init, NoCommand
<1>7. TasksTyped
  <2>1. containers \in [Groups -> SUBSET Tasks]
    BY <1>2, <1>5
  <2>2. \A g \in Groups : work[g] \in [DOMAIN work[g] -> TaskRecord]
    BY <1>4, <1>5
  <2>. QED BY <1>6, <2>1, <2>2 DEF TasksTyped
<1>8. OnTime /\ Current
  <2>1. \A g \in Groups : \A t \in DOMAIN work[g] : work[g][t] = one
    BY <1>5
  <2>2. \A g \in Groups : StepOf(g) = 1
    BY <1>6 DEF StepOf
  <2>3. \A g \in Groups : \A t \in DOMAIN work[g] : work[g][t].time = 1 /\ work[g][t].valid
    BY <1>4, <2>1
  <2>. QED BY <1>6, <2>2, <2>3 DEF OnTime, Current
<1>9. Covered
  BY <1>3, <1>5, <1>6 DEF Covered
<1>. QED BY <1>6, <1>7, <1>8, <1>9 DEF LossInv, Phases, SolutionTime, Sent

\* Whether a task is on one of the two highest diagonals depends on the scheme.
LEMMA HighKept ==
    ASSUME EveryGroupHigh, scheme' = scheme, pgroups' \subseteq pgroups,
           \A g \in pgroups' : containers[g] \subseteq containers'[g]
    PROVE  EveryGroupHigh'
<1>1. \A S : ValidFaults(S) = {t \in S : ActiveSum(Level(t)) \in {HighestSum, HighestSum - 1}}
  BY DEF ValidFaults
<1>2. \A S : ValidFaults(S)' = {t \in S' : ActiveSum(Level(t))' \in {HighestSum', HighestSum' - 1}}
  BY DEF ValidFaults
<1>3. HighestSum' = HighestSum /\ \A t : ActiveSum(Level(t))' = ActiveSum(Level(t))
  BY DEF HighestSum, ActiveSum, Level, Active
<1>. SUFFICES ASSUME NEW g \in pgroups' PROVE ValidFaults(containers[g])' # {}
  BY DEF EveryGroupHigh
<1>4. PICK t \in containers[g] : ActiveSum(Level(t)) \in {HighestSum, HighestSum - 1}
  BY <1>1 DEF EveryGroupHigh
<1>5. t \in containers'[g]
  BY <1>4
<1>. QED BY <1>3, <1>4, <1>5 DEF ValidFaults

\* Steps in which the groups keep their tasks, as far as the tasks are concerned.
LEMMA QuietLoss ==
    ASSUME RecoveryInv, LossInv, ParametersSent \/ RedistributeFinished \/ UNCHANGED vars
    PROVE  LossInv'
<1>1. /\ UNCHANGED <<scheme, i, params, pgroups, status, command, containers, stepsTotal, work,
                     dsgTime, redistributed, recomputed>>
      /\ \/ pc' = pc
         \/ pc = "updated" /\ pc' = "combine"
         \/ pc = "restored" /\ pc' = "runnext"
         \/ pc = "redistribute" /\ pc' = "recompute" /\ redistributed = {} /\ AllWait
  BY DEF ParametersSent, RedistributeFinished, vars, config, groupVars
<1>2. Tasks' = Tasks
  BY <1>1 DEF Tasks
<1>3. EveryGroupHigh'
  BY <1>1, HighKept DEF LossInv
<1>4. TasksTyped'
  BY <1>1, <1>2 DEF LossInv, TasksTyped
<1>5. Phases' /\ SolutionTime'
  <2>1. AllWait => \A g \in pgroups : command[g].name = "none" 
    BY DEF AllWait, Alive, Idle, RecoveryInv, AtRest, Types, NoCommand
  <2>. QED BY <1>1, <2>1 DEF LossInv, Phases, SolutionTime
<1>6. Sent'
  BY <1>1 DEF LossInv, Sent, Unused, Again
<1>7. OnTime'
  <2>1. \A g \in pgroups : StepOf(g)' = StepOf(g)
    BY <1>1 DEF StepOf
  <2>. QED BY <1>1, <2>1 DEF LossInv, OnTime
<1>8. Current'
  BY <1>1 DEF LossInv, Current
<1>9. Covered'
  BY <1>1, <1>2 DEF LossInv, Covered
<1>. QED BY <1>3, <1>4, <1>5, <1>6, <1>7, <1>8, <1>9 DEF LossInv

\* A run ends, for the groups that are left.
LEMMA RunNextFinishedLoss ==
    ASSUME RecoveryInv, LossInv, RunNextFinished
    PROVE  LossInv'
<1>. USE DEF RunNextFinished, config, groupVars
<1>0. i \in Nat \ {0} /\ i' = i + 1 /\ i' - 1 = i
  BY DEF LossInv, TasksTyped
<1>1. /\ UNCHANGED <<scheme, params, pgroups, status, command, containers, stepsTotal, work,
                     dsgTime, redistributed, recomputed>>
      /\ pc = "running" /\ pc' \in {"combine", "recover", "done", "failedInTheEnd"}
      /\ pc' \notin {"recover", "failedInTheEnd"} => Failed = {}
  OBVIOUS
<1>2. \A g \in pgroups : command[g].name = "none"
  BY DEF NoneBusy, Alive, RecoveryInv, AtRest, Types, NoCommand
<1>3. redistributed = {} /\ recomputed = {}
  BY <1>1 DEF LossInv, Phases
<1>. HIDE DEF RunNextFinished
<1>4. Tasks' = Tasks
  BY <1>1 DEF Tasks
<1>5. EveryGroupHigh'
  BY <1>1, HighKept DEF LossInv
<1>6. TasksTyped'
  BY <1>0, <1>1, <1>4 DEF LossInv, TasksTyped
<1>7. Phases'
  <2>1. \A g \in pgroups : status[g] = "fail" => pc' \in {"recover", "failedInTheEnd"}
    BY <1>1 DEF Failed, Alive
  <2>. QED BY <1>1, <1>2, <1>3, <2>1 DEF Phases
<1>8. SolutionTime'
  BY <1>0, <1>1 DEF LossInv, SolutionTime
<1>9. Sent'
  BY <1>1, <1>2, <1>3 DEF Sent
<1>10. OnTime'
  <2>1. \A g \in pgroups : StepOf(g)' = StepOf(g)
    BY <1>0, <1>1, <1>2 DEF StepOf
  <2>. QED BY <1>1, <2>1 DEF LossInv, OnTime
<1>11. Current'
  BY <1>1 DEF LossInv, Current
<1>12. Covered'
  BY <1>1, <1>4 DEF LossInv, Covered
<1>. QED BY <1>5, <1>6, <1>7, <1>8, <1>9, <1>10, <1>11, <1>12 DEF LossInv

\* Every task gets the combined solution.
LEMMA CombineLoss ==
    ASSUME RecoveryInv, LossInv, Combine
    PROVE  LossInv'
<1>. USE DEF Combine, config, groupVars
<1>1. /\ UNCHANGED <<scheme, i, params, pgroups, status, command, containers, stepsTotal,
                     redistributed, recomputed>>
      /\ pc = "combine" /\ pc' \in {"runnext", "restore"} /\ dsgTime' = i
  OBVIOUS
<1>2. \A g \in pgroups : status[g] = "wait" /\ command[g].name = "none"
  BY DEF AllWait, Alive, Idle, RecoveryInv, AtRest, Types, NoCommand
<1>3. \A g \in pgroups : work'[g] = [t \in DOMAIN work[g] |-> [work[g][t] EXCEPT !.valid = TRUE]]
  BY DEF Alive, RecoveryInv, Types
<1>. HIDE DEF Combine
<1>4. redistributed = {} /\ recomputed = {}
  BY <1>1 DEF LossInv, Phases
<1>5. \A g \in pgroups : work[g] \in [DOMAIN work[g] -> TaskRecord]
  BY <1>2 DEF LossInv, TasksTyped
<1>7. \A g \in pgroups : /\ work'[g] \in [DOMAIN work[g] -> TaskRecord]
                         /\ \A t \in DOMAIN work[g] : work'[g][t].time = work[g][t].time /\ work'[g][t].valid
  <2>. SUFFICES ASSUME NEW g \in pgroups
       PROVE  /\ work'[g] \in [DOMAIN work[g] -> TaskRecord]
              /\ \A t \in DOMAIN work[g] : work'[g][t].time = work[g][t].time /\ work'[g][t].valid
    OBVIOUS
  <2>1. \A t \in DOMAIN work[g] : work[g][t] \in TaskRecord
    BY <1>5
  <2>2. \A t \in DOMAIN work[g] : work'[g][t] = [work[g][t] EXCEPT !.valid = TRUE]
    BY <1>3
  <2>3. \A t \in DOMAIN work[g] : /\ work'[g][t] \in TaskRecord
                                  /\ work'[g][t].time = work[g][t].time /\ work'[g][t].valid
    <3>. SUFFICES ASSUME NEW t \in DOMAIN work[g]
         PROVE  /\ work'[g][t] \in TaskRecord
                /\ work'[g][t].time = work[g][t].time /\ work'[g][t].valid
      OBVIOUS
    <3>. DEFINE r == work[g][t]
    <3>1. r \in TaskRecord /\ work'[g][t] = [r EXCEPT !.valid = TRUE]
      BY <2>1, <2>2
    <3>. HIDE DEF r
    <3>2. /\ [r EXCEPT !.valid = TRUE] \in TaskRecord
          /\ [r EXCEPT !.valid = TRUE].time = r.time
          /\ [r EXCEPT !.valid = TRUE].valid
      BY <3>1 DEF TaskRecord
    <3>3. r = work[g][t]
      BY DEF r
    <3>. QED BY <3>1, <3>2, <3>3
  <2>4. work'[g] = [t \in DOMAIN work[g] |-> work'[g][t]]
    BY <1>3
  <2>. QED BY <2>3, <2>4
<1>8. \A g \in pgroups : DOMAIN work'[g] = DOMAIN work[g]
  BY <1>3
<1>9. Tasks' = Tasks
  BY <1>1 DEF Tasks
<1>10. EveryGroupHigh'
  BY <1>1, HighKept DEF LossInv
<1>11. TasksTyped'
  BY <1>1, <1>7, <1>8, <1>9 DEF LossInv, TasksTyped
<1>12. Phases' /\ SolutionTime' /\ Sent'
  BY <1>1, <1>2, <1>4 DEF Phases, SolutionTime, Sent
<1>13. OnTime'
  <2>1. \A g \in pgroups : StepOf(g)' = StepOf(g)
    BY <1>1 DEF StepOf
  <2>. QED BY <1>1, <1>2, <1>7, <1>8, <2>1 DEF LossInv, OnTime
<1>14. Current'
  BY <1>1, <1>7, <1>8 DEF Current
<1>15. Covered'
  BY <1>1, <1>9 DEF LossInv, Covered
<1>. QED BY <1>10, <1>11, <1>12, <1>13, <1>14, <1>15 DEF LossInv

\* All groups get a command.
LEMMA SendAllLoss ==
    ASSUME RecoveryInv, LossInv, RecomputeFinished \/ RestoreCombischeme \/ RunNext
    PROVE  LossInv'
<1>. USE DEF RecomputeFinished, RestoreCombischeme, RunNext, SendAll, config, groupVars
<1>1. /\ UNCHANGED <<scheme, i, pgroups, containers, stepsTotal, work, dsgTime, redistributed, recomputed>>
      /\ \/ pc = "recompute" /\ pc' = "updated" /\ recomputed = {} /\ params' = params
         \/ pc = "restore" /\ pc' = "restored"
         \/ pc = "runnext" /\ pc' = "running" /\ params' = params
  OBVIOUS
<1>2. pgroups \subseteq Groups
  BY DEF RecoveryInv, Types
<1>3. \A g \in pgroups : status[g] = "wait"
  BY DEF AllWait, Alive, Idle
<1>4. \A g \in pgroups : /\ status'[g] = "busy"
                         /\ command'[g].name = IF pc = "runnext" THEN "RUN_NEXT" ELSE "UPDATE_COMBI_PARAMETERS"
  BY <1>2 DEF Alive
<1>. HIDE DEF RecomputeFinished, RestoreCombischeme, RunNext, SendAll
<1>5. redistributed = {} /\ recomputed = {}
  BY <1>1 DEF LossInv, Phases
<1>6. Tasks' = Tasks
  BY <1>1 DEF Tasks
<1>7. EveryGroupHigh'
  BY <1>1, HighKept DEF LossInv
<1>8. TasksTyped'
  BY <1>1, <1>3, <1>6 DEF LossInv, TasksTyped
<1>9. Phases' /\ Sent'
  BY <1>1, <1>4, <1>5 DEF Phases, Sent
<1>10. SolutionTime'
  BY <1>1 DEF LossInv, SolutionTime
<1>11. OnTime'
  <2>1. \A g \in pgroups : StepOf(g)' = i /\ StepOf(g) = i
    BY <1>1, <1>4 DEF StepOf
  <2>. QED BY <1>1, <1>3, <2>1 DEF LossInv, OnTime
<1>12. Current'
  BY <1>1, <1>3 DEF LossInv, Current
<1>13. Covered'
  BY <1>1, <1>6 DEF LossInv, Covered
<1>. QED BY <1>7, <1>8, <1>9, <1>10, <1>11, <1>12, <1>13 DEF LossInv

\* A lost task is sent to a group that waits.
LEMMA PollLoss ==
    ASSUME RecoveryInv, LossInv, Redistribute \/ Recompute
    PROVE  LossInv'
<1>. DEFINE name == IF pc = "redistribute" THEN "ADD_TASK" ELSE "RECOMPUTE"
            t == IF pc = "redistribute" THEN Min(redistributed) ELSE Min(recomputed)
<1>1. /\ UNCHANGED <<scheme, pc, i, params, pgroups, stepsTotal, work, dsgTime>>
      /\ pc \in {"redistribute", "recompute"}
  BY DEF Redistribute, Recompute, config, groupVars
<1>2. /\ pgroups \subseteq Groups /\ next \in pgroups
      /\ redistributed \in SUBSET Nat /\ recomputed \in SUBSET Nat
      /\ command = [g \in Groups |-> command[g]] /\ status = [g \in Groups |-> status[g]]
      /\ containers = [g \in Groups |-> containers[g]]
      /\ pc # "aborted"
  BY <1>1 DEF RecoveryInv, Types
<1>3. /\ pc = "redistribute" => t \in redistributed
      /\ pc = "recompute" => t \in recomputed
  BY <1>2, MinInSet DEF Redistribute, Recompute
<1>4. \/ UNCHANGED <<status, command, containers, redistributed, recomputed>>
      \/ /\ status[next] = "wait"
         /\ status' = [status EXCEPT ![next] = "busy"]
         /\ command' = [command EXCEPT ![next] = [name |-> name, task |-> t]]
         /\ containers' = [containers EXCEPT ![next] = @ \cup {t}]
         /\ redistributed' \subseteq redistributed /\ recomputed' \subseteq recomputed
         /\ redistributed \cup recomputed \subseteq redistributed' \cup recomputed' \cup {t}
  BY DEF Redistribute, Recompute, PollAndSend, Send, Idle
<1>. HIDE DEF name, t
<1>5. CASE UNCHANGED <<status, command, containers, redistributed, recomputed>>
  <2>1. Tasks' = Tasks /\ \A g : StepOf(g)' = StepOf(g)
    BY <1>1, <1>5 DEF Tasks, StepOf
  <2>2. EveryGroupHigh'
    BY <1>1, <1>5, HighKept DEF LossInv
  <2>3. TasksTyped' /\ Phases' /\ SolutionTime' /\ Sent'
    BY <1>1, <1>5, <2>1 DEF LossInv, TasksTyped, Phases, SolutionTime, Sent, Unused, Again
  <2>4. OnTime' /\ Current' /\ Covered'
    BY <1>1, <1>5, <2>1 DEF LossInv, OnTime, Current, Covered
  <2>. QED BY <2>2, <2>3, <2>4 DEF LossInv
<1>6. CASE ~UNCHANGED <<status, command, containers, redistributed, recomputed>>
  <2>1. /\ status'[next] = "busy" /\ status[next] = "wait"
        /\ command'[next].name = name /\ command'[next].task = t
        /\ containers'[next] = containers[next] \cup {t}
        /\ redistributed' \subseteq redistributed /\ recomputed' \subseteq recomputed
        /\ redistributed \cup recomputed \subseteq redistributed' \cup recomputed' \cup {t}
    BY <1>2, <1>4, <1>6
  <2>2. \A g \in Groups \ {next} : /\ status'[g] = status[g] /\ command'[g] = command[g]
                                   /\ containers'[g] = containers[g]
    BY <1>2, <1>4, <1>6
  <2>3. \A g \in Groups : containers[g] \subseteq containers'[g]
    BY <2>1, <2>2
  <2>4. Tasks' = Tasks
    BY <1>1 DEF Tasks
  <2>5. EveryGroupHigh'
    BY <1>1, <1>2, <2>3, HighKept DEF LossInv
  <2>6. t \in Tasks
    BY <1>1, <1>3 DEF LossInv, TasksTyped
  <2>7. containers' \in [Groups -> SUBSET Tasks]
    BY <1>2, <1>4, <1>6, <2>6 DEF LossInv, TasksTyped
  <2>8. TasksTyped'
    BY <1>1, <1>2, <2>1, <2>2, <2>4, <2>7 DEF LossInv, TasksTyped
  <2>9. Phases' /\ SolutionTime'
    BY <1>1, <1>2, <2>1, <2>2 DEF LossInv, Phases, SolutionTime, name
  <2>10. Sent'
    BY <1>1, <1>2, <1>3, <2>1, <2>2 DEF LossInv, Sent, Unused, Again, name
  <2>11. OnTime' /\ Current'
    <3>1. \A g \in pgroups : StepOf(g)' = StepOf(g)
      BY <1>1 DEF StepOf
    <3>. QED BY <1>1, <1>2, <2>1, <2>2, <3>1 DEF LossInv, OnTime, Current
  <2>12. Covered'
    <3>. SUFFICES ASSUME NEW u \in Tasks
         PROVE  u \in redistributed' \cup recomputed' \/ \E g \in pgroups : u \in containers'[g]
      BY <1>1, <2>4 DEF Covered
    <3>1. u \in redistributed \cup recomputed \/ \E g \in pgroups : u \in containers[g]
      BY <1>2 DEF LossInv, Covered
    <3>. QED BY <1>2, <2>1, <2>3, <3>1
  <2>. QED BY <2>5, <2>8, <2>9, <2>10, <2>11, <2>12 DEF LossInv
<1>. QED BY <1>5, <1>6

\* The optimisation leaves out the lost tasks of the two highest diagonals; what is left of the lost
\* tasks is not used, or computed again.
LEMMA LostTasksUnused ==
    ASSUME NEW lost \in SUBSET Tasks, NEW downset,
           NEW w \in Optimal(Feasible(ValidFaults(lost), downset)),
           NEW t \in lost \ ToRecompute(lost, NewCoefficients(w))
    PROVE  NewCoefficients(w)[t] = 0
<1>1. NewCoefficients(w)[t] = Coefficient(Level(t), w)
  BY DEF NewCoefficients
<1>2. CASE t \in ValidFaults(lost)
  <2>1. PICK c \in Feasible(ValidFaults(lost), downset) : w = c[2]
    BY DEF Optimal
  <2>2. PICK v \in SUBSET downset : /\ \A u \in ValidFaults(lost) : Coefficient(Level(u), v) = 0
                                    /\ c = <<Gain(v, SumOfSeq(scheme.lmax)), v>>
    BY <2>1 DEF Feasible
  <2>3. w = v
    BY <2>1, <2>2
  <2>. QED BY <1>1, <1>2, <2>2, <2>3
<1>3. CASE t \notin ValidFaults(lost)
  BY <1>3 DEF ToRecompute
<1>. QED BY <1>2, <1>3

\* The manager erases the groups that died, and is left with their tasks.
LEMMA RecoverLoss ==
    ASSUME RecoveryInv, LossInv, Recover
    PROVE  LossInv'
<1>1. /\ UNCHANGED <<scheme, i, status, command, containers, work, dsgTime>>
      /\ pc = "recover" /\ NoneBusy
      /\ \/ Failed = Alive /\ pc' = "aborted" /\ pgroups' = pgroups
         \/ Failed # Alive /\ pc' = "redistribute" /\ pgroups' = RemainingGroups
  BY DEF Recover, config, groupVars
<1>2. /\ pgroups \subseteq Groups /\ pgroups' \subseteq pgroups
      /\ \A g \in pgroups : command[g].name = "none"
  BY <1>1 DEF RecoveryInv, Types, RemainingGroups, NoneBusy, Alive, AtRest, NoCommand
<1>3. redistributed = {} /\ recomputed = {}
  BY <1>1 DEF LossInv, Phases
<1>4. containers \in [Groups -> SUBSET Tasks]
  BY DEF LossInv, TasksTyped
<1>5. LostTasks \subseteq Tasks
  BY <1>2, <1>4 DEF LostTasks, Failed, Alive
<1>6. ASSUME ValidFaults(LostTasks) # {}
      PROVE  /\ redistributed' \cup recomputed' = LostTasks
             /\ \A t \in redistributed' : params'[t] = 0 /\ stepsTotal'[t] = i
             /\ \A t \in recomputed' : stepsTotal'[t] = i - 1
  <2>1. PICK downset : \E w \in Optimal(Feasible(ValidFaults(LostTasks), downset)) :
            /\ params' = NewCoefficients(w)
            /\ recomputed' = ToRecompute(LostTasks, NewCoefficients(w))
            /\ redistributed' = LostTasks \ ToRecompute(LostTasks, NewCoefficients(w))
            /\ stepsTotal' = StepsAfter(redistributed', recomputed')
    BY <1>6 DEF Recover
  <2>2. PICK w \in Optimal(Feasible(ValidFaults(LostTasks), downset)) :
            /\ params' = NewCoefficients(w)
            /\ recomputed' = ToRecompute(LostTasks, NewCoefficients(w))
            /\ redistributed' = LostTasks \ ToRecompute(LostTasks, NewCoefficients(w))
            /\ stepsTotal' = StepsAfter(redistributed', recomputed')
    BY <2>1
  <2>3. \A t \in redistributed' : params'[t] = 0
    BY <1>5, <2>2, LostTasksUnused
  <2>4. recomputed' \subseteq LostTasks
    BY <2>2 DEF ToRecompute
  <2>5. \A t \in LostTasks : stepsTotal'[t] = IF t \in redistributed' THEN i
                                              ELSE IF t \in recomputed' THEN i - 1 ELSE stepsTotal[t]
    BY <1>5, <2>2 DEF StepsAfter
  <2>. QED BY <2>2, <2>3, <2>4, <2>5
<1>7. ASSUME ValidFaults(LostTasks) = {}
      PROVE  LostTasks = {} /\ UNCHANGED <<params, stepsTotal, redistributed, recomputed>>
  <2>1. \A g \in Failed : FALSE
    <3>. SUFFICES ASSUME NEW g \in Failed PROVE FALSE
      OBVIOUS
    <3>1. ValidFaults(containers[g]) # {}
      BY DEF LossInv, EveryGroupHigh, Failed, Alive
    <3>2. containers[g] \subseteq LostTasks
      BY DEF LostTasks
    <3>. QED BY <1>7, <3>1, <3>2 DEF ValidFaults
  <2>. QED BY <1>7, <2>1 DEF Recover, LostTasks
<1>8. redistributed' \cup recomputed' = LostTasks
  BY <1>3, <1>6, <1>7
<1>9. Tasks' = Tasks
  BY <1>1 DEF Tasks
<1>10. EveryGroupHigh'
  BY <1>1, <1>2, HighKept DEF LossInv
<1>11. TasksTyped'
  BY <1>1, <1>2, <1>5, <1>8, <1>9 DEF LossInv, TasksTyped
<1>12. Phases' /\ SolutionTime'
  BY <1>1, <1>2 DEF LossInv, Phases, SolutionTime, RemainingGroups
<1>13. Sent'
  BY <1>1, <1>2, <1>3, <1>6, <1>7 DEF Sent, Unused, Again
<1>14. OnTime'
  <2>1. \A g \in pgroups : StepOf(g)' = StepOf(g)
    BY <1>1 DEF StepOf
  <2>. QED BY <1>1, <1>2, <2>1 DEF LossInv, OnTime
<1>15. Current'
  BY <1>1, <1>2 DEF LossInv, Current
<1>16. Covered'
  <2>. SUFFICES ASSUME pc' # "aborted", NEW t \in Tasks
       PROVE  t \in redistributed' \cup recomputed' \/ \E g \in pgroups' : t \in containers'[g]
    BY <1>9 DEF Covered
  <2>1. PICK g \in pgroups : t \in containers[g]
    BY <1>1, <1>3 DEF LossInv, Covered
  <2>2. CASE status[g] = "fail"
    BY <1>8, <2>1, <2>2 DEF LostTasks, Failed, Alive
  <2>3. CASE status[g] # "fail"
    BY <1>1, <2>1, <2>3 DEF RemainingGroups
  <2>. QED BY <2>2, <2>3
<1>. QED BY <1>10, <1>11, <1>12, <1>13, <1>14, <1>15, <1>16 DEF LossInv

\* A task that has run.
LEMMA RunRecord ==
    ASSUME NEW task \in TaskRecord
    PROVE  /\ AfterRun(task) \in TaskRecord
           /\ AfterRun(task).time = task.time + 1
           /\ AfterRun(task).valid = task.valid
<1>1. task = [time |-> task.time, combiStep |-> task.combiStep, valid |-> task.valid]
      /\ task.time \in Int /\ task.combiStep \in Int /\ task.valid \in BOOLEAN
  BY DEF TaskRecord
<1>. DEFINE later == [task EXCEPT !.time = @ + 1]
            done == [later EXCEPT !.combiStep = @ + 1]
<1>2. later \in TaskRecord /\ later.time = task.time + 1 /\ later.valid = task.valid
  BY <1>1 DEF TaskRecord
<1>3. AfterRun(task) = done
  BY <1>1 DEF AfterRun
<1>. HIDE DEF later
<1>4. done \in TaskRecord /\ done.time = later.time /\ done.valid = later.valid
  BY <1>2 DEF TaskRecord
<1>. QED BY <1>2, <1>3, <1>4

\* What a worker's step has to keep of its tasks.
LEMMA WorkerLoss ==
    ASSUME RecoveryInv, LossInv, NEW g \in Groups, UNCHANGED managerVars,
           NEW w, work' = [work EXCEPT ![g] = w],
           NEW s \in {"wait", "fail"}, status' = [status EXCEPT ![g] = s],
           command' = [command EXCEPT ![g] = NoCommand],
           s = "fail" => pc = "running" \/ g \notin pgroups,
           g \in pgroups /\ s # "fail" =>
                /\ w \in [DOMAIN w -> TaskRecord]
                /\ \A t \in DOMAIN w : /\ w[t].time = IF pc = "running" THEN i + 1 ELSE i
                                       /\ \/ pc \in {"restore", "restored", "runnext", "running", "recover"}
                                          \/ params[t] # 0
                                          => w[t].valid
    PROVE  LossInv'
<1>. USE DEF managerVars, config
<1>1. /\ UNCHANGED <<scheme, pc, i, params, pgroups, containers, stepsTotal, dsgTime, redistributed, recomputed>>
      /\ pgroups \subseteq Groups
      /\ command = [h \in Groups |-> command[h]] /\ status = [h \in Groups |-> status[h]]
      /\ work = [h \in Groups |-> work[h]]
  BY DEF RecoveryInv, Types
<1>2. /\ work'[g] = w /\ status'[g] = s /\ command'[g].name = "none"
      /\ \A h \in Groups \ {g} : work'[h] = work[h] /\ status'[h] = status[h] /\ command'[h] = command[h]
  BY <1>1 DEF NoCommand
<1>3. Tasks' = Tasks
  BY <1>1 DEF Tasks
<1>4. EveryGroupHigh'
  BY <1>1, HighKept DEF LossInv
<1>5. TasksTyped'
  <2>1. \A h \in pgroups : status'[h] # "fail" => work'[h] \in [DOMAIN work'[h] -> TaskRecord]
    BY <1>1, <1>2 DEF LossInv, TasksTyped
  <2>. QED BY <1>1, <1>3, <2>1 DEF LossInv, TasksTyped
<1>6. Phases' /\ SolutionTime' /\ Sent'
  BY SMTT(30), <1>1, <1>2 DEF LossInv, Phases, SolutionTime, Sent, Unused, Again
<1>7. OnTime'
  <2>1. \A h \in pgroups \ {g} : StepOf(h)' = StepOf(h)
    BY <1>1, <1>2 DEF StepOf
  <2>2. StepOf(g)' = IF pc = "running" THEN i + 1 ELSE i
    BY <1>1, <1>2 DEF StepOf
  <2>3. \A h \in pgroups \ {g} : status'[h] # "fail" =>
            \A t \in DOMAIN work'[h] : work'[h][t].time = StepOf(h)'
    BY <1>1, <1>2, <2>1 DEF LossInv, OnTime
  <2>. QED BY <1>1, <1>2, <2>2, <2>3 DEF OnTime
<1>8. Current'
  BY <1>1, <1>2 DEF LossInv, Current
<1>9. Covered'
  BY <1>1, <1>3 DEF LossInv, Covered
<1>. QED BY <1>4, <1>5, <1>6, <1>7, <1>8, <1>9 DEF LossInv

LEMMA WorkersLoss ==
    ASSUME RecoveryInv, LossInv, NEW g \in Groups, Worker(g)
    PROVE  LossInv'
<1>1. command[g].name # "none" /\ status[g] = "busy"
  BY DEF Worker, WorkerRunNext, WorkerFails, WorkerAddTask, WorkerRecompute,
         WorkerUpdateCombiParameters, RecoveryInv, AtRest, NoCommand
<1>2. /\ i \in Nat \ {0} /\ work = [h \in Groups |-> work[h]]
      /\ g \in pgroups => /\ work[g] \in [DOMAIN work[g] -> TaskRecord]
                          /\ \A t \in DOMAIN work[g] : work[g][t].time = StepOf(g)
                          /\ \A t \in DOMAIN work[g] :
                                \/ pc \in {"restore", "restored", "runnext", "running", "recover"}
                                \/ params[t] # 0
                                => work[g][t].valid
  BY <1>1 DEF LossInv, RecoveryInv, Types, TasksTyped, OnTime, Current
<1>3. g \in pgroups =>
        /\ command[g].name = "RUN_NEXT" => pc = "running" /\ StepOf(g) = i
        /\ command[g].name # "RUN_NEXT" /\ pc # "running" => StepOf(g) = i
        /\ command[g].name = "ADD_TASK" => pc = "redistribute" /\ Unused(command[g].task)
        /\ command[g].name = "RECOMPUTE" => pc = "recompute" /\ Again(command[g].task) /\ dsgTime = i - 1
  BY DEF LossInv, Phases, Sent, StepOf, SolutionTime
<1>4. CASE WorkerRunNext(g)
  <2>. DEFINE w == [t \in DOMAIN work[g] |-> AfterRun(work[g][t])]
  <2>1. /\ UNCHANGED managerVars /\ status' = [status EXCEPT ![g] = "wait"]
        /\ command' = [command EXCEPT ![g] = NoCommand] /\ work' = [work EXCEPT ![g] = w]
        /\ command[g].name = "RUN_NEXT"
    BY <1>2, <1>4 DEF WorkerRunNext, Done
  <2>2. DOMAIN w = DOMAIN work[g]
    OBVIOUS
  <2>3. \A t \in DOMAIN work[g] : w[t] = AfterRun(work[g][t])
    OBVIOUS
  <2>4. w = [t \in DOMAIN w |-> w[t]]
    OBVIOUS
  <2>. HIDE DEF w
  <2>5. g \in pgroups => /\ w \in [DOMAIN w -> TaskRecord]
                         /\ \A t \in DOMAIN w : w[t].time = i + 1 /\ w[t].valid
    <3>. SUFFICES ASSUME g \in pgroups, NEW t \in DOMAIN w
         PROVE  w[t] \in TaskRecord /\ w[t].time = i + 1 /\ w[t].valid
      BY <2>4
    <3>1. work[g][t] \in TaskRecord /\ work[g][t].time = i /\ work[g][t].valid
      BY <1>2, <1>3, <2>1, <2>2
    <3>. QED BY <2>2, <2>3, <3>1, RunRecord
  <2>. QED BY <1>3, <2>1, <2>5, WorkerLoss
<1>5. CASE WorkerFails(g)
  <2>1. /\ UNCHANGED managerVars /\ status' = [status EXCEPT ![g] = "fail"]
        /\ command' = [command EXCEPT ![g] = NoCommand] /\ work' = [work EXCEPT ![g] = <<>>]
        /\ g \in pgroups => pc = "running"
    BY <1>3, <1>5 DEF WorkerFails
  <2>. QED BY <2>1, WorkerLoss
<1>6. CASE WorkerAddTask(g)
  <2>. DEFINE t == command[g].task
              w == AddTo(work[g], t, Received(t))
  <2>1. /\ UNCHANGED managerVars /\ status' = [status EXCEPT ![g] = "wait"]
        /\ command' = [command EXCEPT ![g] = NoCommand] /\ work' = [work EXCEPT ![g] = w]
        /\ command[g].name = "ADD_TASK"
    BY <1>2, <1>6 DEF WorkerAddTask, Done
  <2>2. ASSUME g \in pgroups
        PROVE  /\ w \in [DOMAIN w -> TaskRecord]
               /\ \A u \in DOMAIN w : w[u].time = i /\ (params[u] # 0 => w[u].valid)
    <3>. DEFINE task == Received(t)
    <3>1. params[t] = 0 /\ stepsTotal[t] = i
      BY <1>3, <2>1, <2>2 DEF Unused
    <3>2. task \in TaskRecord /\ task.time = i
      BY <1>2, <3>1 DEF Received, TaskRecord
    <3>. HIDE DEF task, t
    <3>3. /\ AddTo(work[g], t, task) \in [DOMAIN work[g] \cup {t} -> TaskRecord]
          /\ \A u \in DOMAIN work[g] : AddTo(work[g], t, task)[u] = work[g][u]
          /\ t \notin DOMAIN work[g] => AddTo(work[g], t, task)[t] = task
          /\ DOMAIN AddTo(work[g], t, task) = DOMAIN work[g] \cup {t}
      <4>. DEFINE tasks == work[g]
      <4>1. tasks \in [DOMAIN tasks -> TaskRecord]
        BY <1>2, <2>2
      <4>. HIDE DEF tasks
      <4>2. /\ AddTo(tasks, t, task) \in [DOMAIN tasks \cup {t} -> TaskRecord]
            /\ \A u \in DOMAIN tasks : AddTo(tasks, t, task)[u] = tasks[u]
            /\ t \notin DOMAIN tasks => AddTo(tasks, t, task)[t] = task
            /\ DOMAIN AddTo(tasks, t, task) = DOMAIN tasks \cup {t}
        BY <3>2, <4>1 DEF AddTo
      <4>. QED BY <4>2 DEF tasks
    <3>4. w = AddTo(work[g], t, task)
      BY DEF t, task
    <3>. HIDE DEF w
    <3>5. \A u \in DOMAIN work[g] : work[g][u].time = i /\ (params[u] # 0 => work[g][u].valid)
      BY <1>2, <1>3, <2>1, <2>2
    <3>. QED BY <3>1, <3>2, <3>3, <3>4, <3>5
  <2>. HIDE DEF w
  <2>. QED BY <1>3, <2>1, <2>2, WorkerLoss
<1>7. CASE WorkerRecompute(g)
  <2>. DEFINE t == command[g].task
              valid == dsgTime = stepsTotal[t]
              task == AfterRun([Received(t) EXCEPT !.valid = valid])
              w == AddTo(work[g], t, task)
  <2>1. /\ UNCHANGED managerVars /\ status' = [status EXCEPT ![g] = "wait"]
        /\ command' = [command EXCEPT ![g] = NoCommand] /\ work' = [work EXCEPT ![g] = w]
        /\ command[g].name = "RECOMPUTE"
    BY <1>2, <1>7 DEF WorkerRecompute, Done
  <2>2. ASSUME g \in pgroups
        PROVE  /\ w \in [DOMAIN w -> TaskRecord]
               /\ \A u \in DOMAIN w : w[u].time = i /\ (params[u] # 0 => w[u].valid)
    <3>1. stepsTotal[t] = i - 1 /\ valid
      BY <1>3, <2>1, <2>2 DEF Again
    <3>2. /\ [Received(t) EXCEPT !.valid = valid] \in TaskRecord
          /\ [Received(t) EXCEPT !.valid = valid].time = i - 1
          /\ [Received(t) EXCEPT !.valid = valid].valid
      <4>. DEFINE r == Received(t)
                  n == i - 1
      <4>1. r \in TaskRecord /\ r.time = n
        BY <1>2, <3>1 DEF Received, TaskRecord
      <4>. HIDE DEF r, n
      <4>2. /\ [r EXCEPT !.valid = TRUE] \in TaskRecord
            /\ [r EXCEPT !.valid = TRUE].time = n
            /\ [r EXCEPT !.valid = TRUE].valid
        BY <4>1 DEF TaskRecord
      <4>3. valid = TRUE
        BY <3>1
      <4>. HIDE DEF valid
      <4>. QED BY <4>2, <4>3 DEF r, n
    <3>3. task \in TaskRecord /\ task.time = (i - 1) + 1 /\ task.valid
      <4>. DEFINE r == [Received(t) EXCEPT !.valid = valid]
      <4>. HIDE DEF r
      <4>1. AfterRun(r) \in TaskRecord /\ AfterRun(r).time = (i - 1) + 1 /\ AfterRun(r).valid
        <5>1. r \in TaskRecord /\ r.time = i - 1 /\ r.valid
          BY <3>2 DEF r
        <5>. QED BY <5>1, RunRecord
      <4>. QED BY <4>1 DEF r
    <3>. HIDE DEF task, t
    <3>4. /\ w \in [DOMAIN work[g] \cup {t} -> TaskRecord]
          /\ \A u \in DOMAIN work[g] : w[u] = work[g][u]
          /\ t \notin DOMAIN work[g] => w[t] = task
          /\ DOMAIN w = DOMAIN work[g] \cup {t}
      <4>. DEFINE tasks == work[g]
      <4>1. tasks \in [DOMAIN tasks -> TaskRecord]
        BY <1>2, <2>2
      <4>. HIDE DEF tasks
      <4>2. /\ AddTo(tasks, t, task) \in [DOMAIN tasks \cup {t} -> TaskRecord]
            /\ \A u \in DOMAIN tasks : AddTo(tasks, t, task)[u] = tasks[u]
            /\ t \notin DOMAIN tasks => AddTo(tasks, t, task)[t] = task
            /\ DOMAIN AddTo(tasks, t, task) = DOMAIN tasks \cup {t}
        BY <3>3, <4>1 DEF AddTo
      <4>. QED BY <4>2 DEF tasks
    <3>. HIDE DEF w
    <3>5. \A u \in DOMAIN work[g] : work[g][u].time = i /\ (params[u] # 0 => work[g][u].valid)
      BY <1>2, <1>3, <2>1, <2>2
    <3>. QED BY <1>2, <3>3, <3>4, <3>5
  <2>. HIDE DEF w
  <2>. QED BY <1>3, <2>1, <2>2, WorkerLoss
<1>8. CASE WorkerUpdateCombiParameters(g)
  <2>1. /\ UNCHANGED managerVars /\ status' = [status EXCEPT ![g] = "wait"]
        /\ command' = [command EXCEPT ![g] = NoCommand] /\ work' = [work EXCEPT ![g] = work[g]]
        /\ command[g].name = "UPDATE_COMBI_PARAMETERS"
    BY <1>2, <1>8 DEF WorkerUpdateCombiParameters, Done
  <2>2. g \in pgroups => \A t \in DOMAIN work[g] : work[g][t].time = IF pc = "running" THEN i + 1 ELSE i
    BY <1>2, <2>1 DEF StepOf
  <2>. QED BY <1>2, <2>1, <2>2, WorkerLoss
<1>. QED BY <1>4, <1>5, <1>6, <1>7, <1>8 DEF Worker

\* Whichever groups die, when the others combine, every task is on one of them, at the step of this
\* combination, and the tasks the scheme uses come from the last one: what is lost is either left out
\* by the new coefficients or computed again from the sparse grids (recomputeOptimumCoefficients,
\* redistribute, recompute).  The optimisation is made for grids of the two highest diagonals only, so
\* every group has to have one at the start: a group without one takes its tasks with it.
THEOREM RecoveryComplete == Spec /\ EveryGroupHigh => []NothingLost
<1>. DEFINE Inv == RecoveryInv /\ LossInv
<1>1. Init /\ EveryGroupHigh => Inv
  BY RecoveryInit, LossInit
<1>2. Inv /\ [Next]_vars => Inv'
  <2>. SUFFICES ASSUME Inv, [Next]_vars PROVE Inv'
    OBVIOUS
  <2>1. RecoveryInv'
    BY QuietSteps, SendToAll, SendTask, RecoverStep, WorkerSteps DEF Next, Manager, Terminated
  <2>2. LossInv'
    BY QuietLoss, RunNextFinishedLoss, CombineLoss, SendAllLoss, PollLoss, RecoverLoss, WorkersLoss
    DEF Next, Manager, Terminated
  <2>. QED BY <2>1, <2>2
<1>3. Inv => NothingLost
  <2>. SUFFICES ASSUME Inv, pc = "combine", NEW t \in Tasks
       PROVE  \E g \in Alive : /\ t \in DOMAIN work[g]
                               /\ params[t] # 0 => work[g][t].valid /\ work[g][t].time = i
    BY DEF NothingLost
  <2>1. PICK g \in pgroups : t \in containers[g]
    BY DEF LossInv, Phases, Covered
  <2>2. status[g] = "wait" /\ command[g] = NoCommand
    BY DEF RecoveryInv, Types, AtRest, AllWait, Alive, Idle
  <2>3. t \in DOMAIN work[g]
    BY <2>1, <2>2 DEF RecoveryInv, TasksListed, Arriving, NoCommand
  <2>4. work[g][t].time = i /\ (params[t] # 0 => work[g][t].valid)
    BY <2>2, <2>3 DEF LossInv, OnTime, Current, StepOf
  <2>. QED BY <2>3, <2>4 DEF Alive
<1>. QED BY <1>1, <1>2, <1>3, PTL DEF Spec

=============================================================================
