--------------------------- MODULE FaultRecovery ---------------------------
(***************************************************************************)
(* The fault tolerant combination technique: a process group dies while it *)
(* runs its tasks, the manager computes new combination coefficients that  *)
(* avoid the lost grids, gives the lost tasks to the remaining groups,     *)
(* which take them over or compute them again, combines, and restores the  *)
(* old coefficients.                                                       *)
(*                                                                         *)
(* One process per group, as the recovery needs it: only a dying process   *)
(* announces PROCESS_GROUP_FAIL, so there are never processes of a dead    *)
(* group to be used again.  Tasks are positions in the scheme, from 1; a   *)
(* time step is one call of Task::run.                                     *)
(***************************************************************************)
EXTENDS CombiScheme

CONSTANTS
    Domains,            \* pairs <<lmin, lmax>>
    NumGroups,
    NumCombis,          \* ncombi
    Criteria,           \* fault criteria: [kind, faults]
    Distributions(_)    \* the initial owners tried for a scheme: functions from tasks to groups

Groups == 1..NumGroups

FTScheme(lmin, lmax) == makeFaultTolerant(createAdaptiveCombischeme(lmin, lmax))

\* At the start every task has one owner; the tasks are positions.
ASSUME DistributionAssumption ==
    \A d \in Domains : LET s == FTScheme(d[1], d[2]) IN
        /\ DOMAIN s.spaces \subseteq Nat
        /\ Distributions(s) \subseteq [DOMAIN s.spaces -> Groups]

ASSUME GroupsAssumption == NumGroups \in Nat \ {0}

VARIABLES
    scheme,     \* the scheme at the start
    criterion,  \* the fault criterion of the tasks
    pc,         \* what the manager does
    i,          \* number of the combination
    success,    \* no group failed in the last runnext
    params,     \* coefficients of the manager's CombiParameters
    pgroups,    \* pgroups_ of the manager, which lists the groups in the order of their numbers
    status,     \* status of every group: wait, busy or fail
    command,    \* the command a busy group executes, with its task
    containers, \* the tasks every ProcessGroupManager lists
    stepsTotal, \* of the manager's Task objects
    work,       \* the tasks of every group: [time, combiStep, valid]
    combiParams,\* coefficients of every group's CombiParameters
    dsgTime,    \* time of the combined solution in the sparse grids
    redistributed, recomputed,  \* the tasks still to be sent
    next        \* the group that is polled next

vars == <<scheme, criterion, pc, i, success, params, pgroups, status, command, containers, stepsTotal,
          work, combiParams, dsgTime, redistributed, recomputed, next>>
config == <<scheme, criterion>>
groupVars == <<work, combiParams>>

Tasks == DOMAIN scheme.spaces
Level(t) == scheme.spaces[t]
Nominal == scheme.coeffs
Alive == pgroups
NoCommand == [name |-> "none", task |-> 0]
Idle(g) == status[g] = "wait"

\* Task::getCoefficient: the coefficient of the constructor, which nothing changes.
getCoefficient(t) == scheme.coeffs[t]

Init ==
    /\ \E d \in Domains, c \in Criteria :
        LET s == FTScheme(d[1], d[2])
        IN  /\ scheme = s /\ criterion = c
            /\ \E owner \in Distributions(s) :
                /\ containers = [g \in Groups |-> {t \in DOMAIN owner : owner[t] = g}]
                /\ work = [g \in Groups |->
                     [t \in {u \in DOMAIN owner : owner[u] = g} |-> [time |-> 1, combiStep |-> 1, valid |-> TRUE]]]
            /\ params = s.coeffs
            /\ combiParams = [g \in Groups |-> s.coeffs]
            /\ stepsTotal = [t \in DOMAIN s.spaces |-> 0]
    /\ pc = "combine" /\ i = 1 /\ success = TRUE
    /\ pgroups = Groups
    /\ status = [g \in Groups |-> "wait"]
    /\ command = [g \in Groups |-> NoCommand]
    /\ dsgTime = 0
    /\ redistributed = {} /\ recomputed = {} /\ next = 1

-----------------------------------------------------------------------------
(* The optimisation: new coefficients that are zero on the lost grids *)

\* check_dimensionality: the dimensions that are refined.
Active == {d \in DOMAIN scheme.lmin : scheme.lmin[d] # scheme.lmax[d]}
ActiveSum(l) == PartSum(l, Active)

\* Every level from lmin that is below a grid with positive coefficient.
EntireDownset ==
    UNION {{l \in DownSet(Level(t)) : AllLE(scheme.lmin, l)} : t \in {u \in Tasks : params[u] > 0}}

\* l_max: the level sum of the highest diagonal if all dimensions are refined alike.
HighestSum ==
    LET first == Min(Active)
    IN  scheme.lmax[first] + PartSum(scheme.lmin, Active \ {first})

\* filter_faults
ValidFaults(lost) == {t \in lost : ActiveSum(Level(t)) \in {HighestSum, HighestSum - 1}}

\* Mutant: all entries of the inverse are positive.
CoefficientUnsigned(l, w) == Cardinality({k \in w : \A d \in DOMAIN l : k[d] - l[d] \in {0, 1}})

\* Row l of the inverse of the hierarchisation matrix, applied to the subspaces in w.
Coefficient(l, w) ==
    LET near == {k \in w : \A d \in DOMAIN l : k[d] - l[d] \in {0, 1}}
    IN  Cardinality({k \in near : Sign(levelSum(k) - levelSum(l)) = 1})
          - Cardinality({k \in near : Sign(levelSum(k) - levelSum(l)) = -1})

\* The objective, the sum of 4 ^ -levelSum, scaled to integers.
Gain(w, top) ==
    SumOfSeq([n \in 1..top |-> 4 ^ (top - n) * Cardinality({l \in w : levelSum(l) = n})])

\* The choices of subspaces that avoid the faults, with their gains.
Feasible(faults, downset) ==
    LET top == SumOfSeq(scheme.lmax)
    IN  {<<Gain(w, top), w>> :
            w \in {v \in SUBSET downset : \A t \in faults : Coefficient(Level(t), v) = 0}}

\* The solver returns one of the best.
Optimal(choices) == {c[2] : c \in {b \in choices : \A other \in choices : other[1] <= b[1]}}

NewCoefficients(w) == [t \in Tasks |-> Coefficient(Level(t), w)]

\* The lost tasks the optimisation did not avoid.
ToRecompute(lost, coeffs) == {t \in lost \ ValidFaults(lost) : coeffs[t] # 0}

-----------------------------------------------------------------------------
(* The manager *)

Send(g, name, t) ==
    /\ status' = [status EXCEPT ![g] = "busy"]
    /\ command' = [command EXCEPT ![g] = [name |-> name, task |-> t]]
SendAll(name) ==
    /\ status' = [g \in Groups |-> IF g \in Alive THEN "busy" ELSE status[g]]
    /\ command' = [g \in Groups |-> IF g \in Alive THEN [name |-> name, task |-> 0] ELSE command[g]]

Failed == {g \in Alive : status[g] = "fail"}
LostTasks == UNION {containers[g] : g \in Failed}
NoneBusy == \A g \in Alive : status[g] # "busy"
AllWait == \A g \in Alive : Idle(g)

\* Mutant: the tasks to be computed again start at the present step.
StepsAfterSame(redist, recomp) ==
    [t \in Tasks |-> IF t \in redist \cup recomp THEN i ELSE stepsTotal[t]]

\* The new steps of the tasks, as the program sets them before it sends them.
StepsAfter(redist, recomp) ==
    [t \in Tasks |-> IF t \in redist THEN i ELSE IF t \in recomp THEN i - 1 ELSE stepsTotal[t]]

\* Mutant: a failed group stays in the list of the manager.
RemainingGroupsAll == pgroups
RemainingGroups == {g \in pgroups : status[g] # "fail"}

\* getGroupFaultIDs, recomputeOptimumCoefficients and recoverCommunicators; there are no processes
\* to be used again, so the failed groups are erased.
Recover ==
    /\ pc = "recover" /\ NoneBusy
    /\ IF ValidFaults(LostTasks) = {}
       THEN UNCHANGED <<params, stepsTotal, redistributed, recomputed>>
       ELSE \E faults \in {ValidFaults(LostTasks)}, downset \in {EntireDownset} :
            \E choices \in {Feasible(faults, downset)} : \E w \in Optimal(choices) :
            LET coeffs == NewCoefficients(w)
                again == ToRecompute(LostTasks, coeffs)
            IN  /\ params' = coeffs
                /\ recomputed' = again
                /\ redistributed' = LostTasks \ again
                /\ stepsTotal' = StepsAfter(LostTasks \ again, again)
    /\ IF Failed = Alive
       THEN pc' = "aborted" /\ UNCHANGED pgroups
       ELSE pc' = "redistribute" /\ pgroups' = RemainingGroups
    /\ next' = Min(pgroups')
    /\ UNCHANGED <<config, i, success, status, command, containers, groupVars, dsgTime>>

\* The group after g in the list, or the first one.
Following(g) == LET later == {h \in pgroups : h > g} IN Min(IF later = {} THEN pgroups ELSE later)

\* Mutant: the task is sent, and the manager does not list it under the group.
PollAndSendUnlisted(name, t) ==
    IF Idle(next)
    THEN Send(next, name, t) /\ next' = Min(pgroups) /\ UNCHANGED containers
    ELSE next' = Following(next) /\ UNCHANGED <<status, command, containers>>

\* wait(): polls the groups in turn; sends task t to the first one that waits.
PollAndSend(name, t) ==
    IF Idle(next)
    THEN /\ Send(next, name, t)
         /\ containers' = [containers EXCEPT ![next] = @ \cup {t}]
         /\ next' = Min(pgroups)
    ELSE next' = Following(next) /\ UNCHANGED <<status, command, containers>>

Redistribute ==
    /\ pc = "redistribute" /\ redistributed # {}
    /\ PollAndSend("ADD_TASK", Min(redistributed))
    /\ redistributed' = IF Idle(next) THEN redistributed \ {Min(redistributed)} ELSE redistributed
    /\ UNCHANGED <<config, pc, i, success, params, pgroups, stepsTotal, groupVars, dsgTime, recomputed>>

RedistributeFinished ==
    /\ pc = "redistribute" /\ redistributed = {} /\ AllWait
    /\ pc' = "recompute" /\ next' = Min(pgroups)
    /\ UNCHANGED <<config, i, success, params, pgroups, status, command, containers, stepsTotal,
                   groupVars, dsgTime, redistributed, recomputed>>

Recompute ==
    /\ pc = "recompute" /\ recomputed # {}
    /\ PollAndSend("RECOMPUTE", Min(recomputed))
    /\ recomputed' = IF Idle(next) THEN recomputed \ {Min(recomputed)} ELSE recomputed
    /\ UNCHANGED <<config, pc, i, success, params, pgroups, stepsTotal, groupVars, dsgTime, redistributed>>

\* Also without a task to be computed again; then updateCombiParameters for all groups.
RecomputeFinished ==
    /\ pc = "recompute" /\ recomputed = {} /\ AllWait
    /\ SendAll("UPDATE_COMBI_PARAMETERS")
    /\ pc' = "updated"
    /\ UNCHANGED <<config, i, success, params, pgroups, containers, stepsTotal, groupVars, dsgTime,
                   redistributed, recomputed, next>>

ParametersSent ==
    /\ pc \in {"updated", "restored"} /\ AllWait
    /\ pc' = IF pc = "updated" THEN "combine" ELSE "runnext"
    /\ UNCHANGED <<config, i, success, params, pgroups, status, command, containers, stepsTotal, groupVars,
                   dsgTime, redistributed, recomputed, next>>

\* All groups combine together; every task gets the combined solution.
Combine ==
    /\ pc = "combine" /\ AllWait
    /\ dsgTime' = i
    /\ work' = [g \in Groups |-> IF g \in Alive THEN [t \in DOMAIN work[g] |-> [work[g][t] EXCEPT !.valid = TRUE]]
                                 ELSE work[g]]
    /\ pc' = IF success THEN "runnext" ELSE "restore"
    /\ UNCHANGED <<config, i, success, params, pgroups, status, command, containers, stepsTotal, combiParams,
                   redistributed, recomputed, next>>

\* restoreCombischeme constructs the scheme of the start once more.
RestoredCoefficients == scheme.coeffs

RestoreCombischeme ==
    /\ pc = "restore" /\ AllWait
    /\ params' = RestoredCoefficients
    /\ SendAll("UPDATE_COMBI_PARAMETERS")
    /\ pc' = "restored"
    /\ UNCHANGED <<config, i, success, pgroups, containers, stepsTotal, groupVars, dsgTime,
                   redistributed, recomputed, next>>

RunNext ==
    /\ pc = "runnext" /\ AllWait
    /\ SendAll("RUN_NEXT")
    /\ pc' = "running"
    /\ UNCHANGED <<config, i, success, params, pgroups, containers, stepsTotal, groupVars, dsgTime,
                   redistributed, recomputed, next>>

\* The end of the loop over the combinations; parallelEval asserts that no group failed.
RunNextFinished ==
    /\ pc = "running" /\ NoneBusy
    /\ i' = i + 1
    /\ success' = (Failed = {})
    /\ pc' = IF i' < NumCombis THEN IF success' THEN "combine" ELSE "recover"
             ELSE IF success' THEN "done" ELSE "failedInTheEnd"
    /\ UNCHANGED <<config, params, pgroups, status, command, containers, stepsTotal, groupVars, dsgTime,
                   redistributed, recomputed, next>>

-----------------------------------------------------------------------------
(* A process group *)

\* The rank among the group masters, which recoverCommunicators numbers anew.
globalRank(g) == Cardinality({h \in pgroups : h < g})

\* failNow of StaticFaults and WeibullFaults.  The time of a Weibull fault is never set: any outcome.
MayFail(g, t) ==
    /\ work[g][t].combiStep # 0
    /\ IF criterion.kind = "static" THEN <<work[g][t].combiStep, globalRank(g)>> \in criterion.faults
       ELSE work[g][t].combiStep # NumCombis - 1
MustFail(g, t) == criterion.kind = "static" /\ MayFail(g, t)

Done(g) == status' = [status EXCEPT ![g] = "wait"] /\ command' = [command EXCEPT ![g] = NoCommand]
managerVars == <<config, pc, i, success, params, pgroups, containers, stepsTotal, dsgTime,
                 redistributed, recomputed, next>>

AfterRun(task) == [task EXCEPT !.time = @ + 1, !.combiStep = @ + 1]

WorkerRunNext(g) ==
    /\ command[g].name = "RUN_NEXT"
    /\ \A t \in DOMAIN work[g] : ~MustFail(g, t)
    /\ work' = [work EXCEPT ![g] = [t \in DOMAIN @ |-> AfterRun(@[t])]]
    /\ Done(g)
    /\ UNCHANGED <<managerVars, combiParams>>

\* decideToKill: the process announces its failure and is gone, with all its tasks.
WorkerFails(g) ==
    /\ command[g].name = "RUN_NEXT"
    /\ \E t \in DOMAIN work[g] : MayFail(g, t)
    /\ status' = [status EXCEPT ![g] = "fail"]
    /\ command' = [command EXCEPT ![g] = NoCommand]
    /\ work' = [work EXCEPT ![g] = <<>>]
    /\ UNCHANGED <<managerVars, combiParams>>

Received(t) == [time |-> stepsTotal[t], combiStep |-> 0, valid |-> FALSE]

AddTo(tasks, t, task) == [u \in DOMAIN tasks \cup {t} |-> IF u \in DOMAIN tasks THEN tasks[u] ELSE task]

\* The values are those of the first time step: setZero does nothing.
WorkerAddTask(g) ==
    /\ command[g].name = "ADD_TASK"
    /\ work' = [work EXCEPT ![g] = AddTo(@, command[g].task, Received(command[g].task))]
    /\ Done(g)
    /\ UNCHANGED <<managerVars, combiParams>>

\* The values come from the sparse grid.
WorkerRecompute(g) ==
    LET t == command[g].task
    IN  /\ command[g].name = "RECOMPUTE"
        /\ work' = [work EXCEPT ![g] =
                        AddTo(@, t, AfterRun([Received(t) EXCEPT !.valid = (dsgTime = stepsTotal[t])]))]
        /\ Done(g)
        /\ UNCHANGED <<managerVars, combiParams>>

WorkerUpdateCombiParameters(g) ==
    /\ command[g].name = "UPDATE_COMBI_PARAMETERS"
    /\ combiParams' = [combiParams EXCEPT ![g] = params]
    /\ Done(g)
    /\ UNCHANGED <<managerVars, work>>

-----------------------------------------------------------------------------

Manager ==
    \/ Recover \/ Redistribute \/ RedistributeFinished \/ Recompute \/ RecomputeFinished
    \/ ParametersSent \/ Combine \/ RestoreCombischeme \/ RunNext \/ RunNextFinished
Worker(g) ==
    \/ WorkerRunNext(g) \/ WorkerFails(g) \/ WorkerAddTask(g) \/ WorkerRecompute(g)
    \/ WorkerUpdateCombiParameters(g)
Ended == pc \in {"aborted", "done", "failedInTheEnd"}
Terminated == Ended /\ UNCHANGED vars

Next == Manager \/ (\E g \in Groups : Worker(g)) \/ Terminated
Spec == Init /\ [][Next]_vars /\ WF_vars(Manager) /\ \A g \in Groups : WF_vars(Worker(g))

-----------------------------------------------------------------------------
(* Properties *)

\* The coefficients the manager combines with after a loss are those of a combination scheme: every
\* subspace is counted once or not at all, and the coarsest one is counted.
SchemeValid ==
    pc = "combine" =>
        LET count(l) == SumOfSeq([t \in Tasks |-> IF AllLE(l, Level(t)) THEN params[t] ELSE 0])
        IN  count(scheme.lmin) = 1 /\ \A l \in UNION {DownSet(Level(t)) : t \in Tasks} : count(l) \in {0, 1}

\* When the groups combine, they do it with the coefficients the manager found, the manager's lists are
\* those of the groups, and no task is on two groups.  When they run on, the coefficients are those of
\* the beginning.
ManagerInStep ==
    /\ pc = "combine" =>
        /\ \A g \in Alive : combiParams[g] = params /\ containers[g] = DOMAIN work[g]
        /\ \A g, h \in Alive : g # h => DOMAIN work[g] \cap DOMAIN work[h] = {}
    /\ pc = "running" => \A g \in Alive : combiParams[g] = Nominal

\* When the groups combine, every task is on one of the remaining groups, and a task the scheme uses
\* has computed up to this combination, from values of the last one.
NothingLost ==
    pc = "combine" =>
        \A t \in Tasks : \E g \in Alive :
            /\ t \in DOMAIN work[g]
            /\ params[t] # 0 => work[g][t].valid /\ work[g][t].time = i

\* The groups combine with the coefficients of the scheme the manager communicated.
NewCoefficientsUsed ==
    pc = "combine" => \A g \in Alive : \A t \in DOMAIN work[g] : getCoefficient(t) = combiParams[g][t]

\* Whatever groups fail, the program comes to an end: all combinations done, or no group left, or a
\* failure after the last combination.
ProgramEnds == <>Ended

=============================================================================
