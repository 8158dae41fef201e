------------------------------ MODULE ProcessGroup ------------------------------
(***************************************************************************)
(* The command protocol between the manager process and the process groups *)
(* (ProcessGroupManager.cpp on the manager, ProcessGroupWorker::wait on    *)
(* the master rank of each group), built without ENABLE_FT.                *)
(*                                                                         *)
(* The manager keeps one ProcessGroupManager per group: a status word, the *)
(* MPI_Irecv requests that will overwrite it, and the list of the group's  *)
(* tasks.  A command is a signal with its payload; the group executes one  *)
(* command at a time and answers each one with a status message.  MPI does *)
(* not reorder messages of one pair of ranks and one tag, so each          *)
(* direction is a FIFO channel.                                            *)
(***************************************************************************)
EXTENDS Naturals, Sequences, SequencesExt

CONSTANTS
    Groups,        \* the process groups
    Tasks,         \* the tasks (component grids) of the combination scheme
    Used,          \* the signals the application's manager sends
    CallerWaits,   \* TRUE: the application waits for the group before the
                   \* commands whose methods do not check the status
    MaxInFlight,   \* bound: commands of a group without a delivered status
    None           \* no task, no group

ASSUME UsedAssumption ==
    /\ CallerWaits \in BOOLEAN
    /\ MaxInFlight \in Nat
    /\ None \notin Groups
    /\ None \notin Tasks

-----------------------------------------------------------------------------
\* The signals of ProcessGroupSignals.hpp, by the way the manager sends them.

\* The task is appended to the manager's list and sent along; the methods
\* return false unless the group is waiting.
TaskSignals == {"RUN_FIRST", "ADD_TASK", "RECOMPUTE", "RESCHEDULE_ADD_TASK"}

\* The method asserts that the group is waiting.
CheckedSignals ==
    {"INIT_DSGUS", "COMBINE", "COMBINE_LOCAL_AND_GLOBAL", "COMBINE_THIRD_LEVEL",
     "COMBINE_THIRD_LEVEL_FILE", "COMBINE_WRITE_DSGS", "COMBINE_READ_DSGS_AND_REDUCE",
     "WAIT_FOR_TL_COMBI_RESULT", "WAIT_FOR_TL_SIZE_UPDATE", "UPDATE_COMBI_PARAMETERS",
     "PARALLEL_EVAL", "WRITE_DFGS_TO_VTK", "WRITE_DSGS_TO_DISK", "READ_DSGS_FROM_DISK"}

\* The method neither checks the status nor waits for it.
UncheckedSignals ==
    {"REDUCE_SUBSPACE_SIZES_TL", "REDUCE_SUBSPACE_SIZES_TL_AND_ALLOCATE_EXTRA_SG",
     "INTERPOLATE_VALUES", "INTERPOLATE_VALUES_AND_SEND_BACK",
     "INTERPOLATE_VALUES_AND_WRITE_SINGLE_FILE",
     "WRITE_INTERPOLATED_VALUES_PER_GRID", "WRITE_DSG_MINMAX_COEFFICIENTS"}

\* Likewise, and the manager blocks until the group has sent its norms.
NormSignals == {"GET_L1_NORM", "GET_L2_NORM", "GET_MAX_NORM"}

Signals == TaskSignals \cup CheckedSignals \cup UncheckedSignals \cup NormSignals
             \cup {"RUN_NEXT", "RESCHEDULE_REMOVE_TASK", "DO_DIAGNOSTICS", "EXIT"}

SignalsWithTask == TaskSignals \cup {"RESCHEDULE_REMOVE_TASK", "DO_DIAGNOSTICS"}

Command == [sig : SignalsWithTask, task : Tasks]
             \cup [sig : Signals \ SignalsWithTask, task : {None}]

NoCommand == [sig |-> None, task |-> None]

StatusType == {"WAIT", "BUSY"}

-----------------------------------------------------------------------------
VARIABLES
    \* the manager's ProcessGroupManager objects
    status,        \* [Groups -> StatusType]: status_
    posted,        \* [Groups -> Nat]: receives posted into status_, not complete
    managerTasks,  \* [Groups -> Seq(Tasks)]: tasks_
    awaiting,      \* the command [group, sig, task] whose reply blocks the manager
    closed,        \* the groups the application has sent EXIT to
    \* the channels
    toWorker,      \* [Groups -> Seq(Command)]
    statusMsgs,    \* [Groups -> Nat]: status messages under way
    replies,       \* [Groups -> Seq(Seq(Tasks))]: norms, by task, or a removed task
    \* the process groups
    phase,         \* [Groups -> {"idle", "running", "done", "exited"}]
    current,       \* [Groups -> Command]: the command of ProcessGroupWorker::wait
    workerTasks    \* [Groups -> Seq(Tasks)]: TaskWorker::tasks_

managerVars == <<status, posted, managerTasks, awaiting, closed>>
channelVars == <<toWorker, statusMsgs, replies>>
workerVars == <<phase, current, workerTasks>>
vars == <<managerVars, channelVars, workerVars>>

NotAwaiting == [group |-> None, sig |-> None, task |-> None]

Running(g) == IF phase[g] \in {"running", "done"} THEN 1 ELSE 0

\* The group waits for a command and none is under way.
Quiet(g) == toWorker[g] = <<>> /\ Running(g) = 0

\* The commands of g that have been sent and have no delivered status.
Load(g) == Len(toWorker[g]) + Running(g) + statusMsgs[g]

Asked(g) == IF awaiting.group = g THEN 1 ELSE 0

TypeOK ==
    /\ status \in [Groups -> StatusType]
    /\ posted \in [Groups -> Nat]
    /\ managerTasks \in [Groups -> Seq(Tasks)]
    /\ awaiting \in {NotAwaiting} \cup
                    [group : Groups, sig : NormSignals \cup {"RESCHEDULE_REMOVE_TASK"},
                     task : Tasks \cup {None}]
    /\ closed \subseteq Groups
    /\ toWorker \in [Groups -> Seq(Command)]
    /\ statusMsgs \in [Groups -> Nat]
    /\ replies \in [Groups -> Seq(Seq(Tasks))]
    /\ phase \in [Groups -> {"idle", "running", "done", "exited"}]
    /\ current \in [Groups -> Command \cup {NoCommand}]
    /\ \A g \in Groups : Running(g) = 1 => current[g] \in Command
    /\ workerTasks \in [Groups -> Seq(Tasks)]

Init ==
    /\ status = [g \in Groups |-> "WAIT"]
    /\ posted = [g \in Groups |-> 0]
    /\ managerTasks = [g \in Groups |-> <<>>]
    /\ awaiting = NotAwaiting
    /\ closed = {}
    /\ toWorker = [g \in Groups |-> <<>>]
    /\ statusMsgs = [g \in Groups |-> 0]
    /\ replies = [g \in Groups |-> <<>>]
    /\ phase = [g \in Groups |-> "idle"]
    /\ current = [g \in Groups |-> NoCommand]
    /\ workerTasks = [g \in Groups |-> <<>>]

-----------------------------------------------------------------------------
\* The manager.

\* The manager is one thread: it sends nothing while it blocks for a reply.
CanSend(g, sig) ==
    /\ sig \in Used
    /\ awaiting = NotAwaiting
    /\ g \notin closed
    /\ Load(g) < MaxInFlight

\* sendSignalToProcessGroup with the payload that follows it.
Send(g, sig, t) ==
    toWorker' = [toWorker EXCEPT ![g] = Append(@, [sig |-> sig, task |-> t])]

\* The receive goes into status_ itself and leaves earlier ones outstanding.
SetProcessGroupBusyAndReceive(g) ==
    /\ status' = [status EXCEPT ![g] = "BUSY"]
    /\ posted' = [posted EXCEPT ![g] = @ + 1]

Assigned == UNION {ToSet(managerTasks[g]) : g \in Groups}

\* Mutant: the new task goes to the front of the manager's list.
StoreTaskReferenceInFront(g, sig, t) ==
    /\ sig \in TaskSignals
    /\ CanSend(g, sig)
    /\ status[g] = "WAIT"
    /\ t \notin Assigned
    /\ managerTasks' = [managerTasks EXCEPT ![g] = <<t>> \o @]
    /\ Send(g, sig, t)
    /\ SetProcessGroupBusyAndReceive(g)
    /\ UNCHANGED <<awaiting, closed, statusMsgs, replies, workerVars>>

\* runfirst, addTask, recompute, rescheduleAddTask.
StoreTaskReferenceAndSend(g, sig, t) ==
    /\ sig \in TaskSignals
    /\ CanSend(g, sig)
    /\ status[g] = "WAIT"
    /\ t \notin Assigned
    /\ managerTasks' = [managerTasks EXCEPT ![g] = Append(@, t)]
    /\ Send(g, sig, t)
    /\ SetProcessGroupBusyAndReceive(g)
    /\ UNCHANGED <<awaiting, closed, statusMsgs, replies, workerVars>>

RunNext(g) ==
    /\ CanSend(g, "RUN_NEXT")
    /\ status[g] = "WAIT"
    /\ managerTasks[g] # <<>>
    /\ Send(g, "RUN_NEXT", None)
    /\ SetProcessGroupBusyAndReceive(g)
    /\ UNCHANGED <<managerTasks, awaiting, closed, statusMsgs, replies, workerVars>>

SendSignalAndReceive(g, sig) ==
    /\ sig \in CheckedSignals
    /\ CanSend(g, sig)
    /\ status[g] = "WAIT"
    /\ Send(g, sig, None)
    /\ SetProcessGroupBusyAndReceive(g)
    /\ UNCHANGED <<managerTasks, awaiting, closed, statusMsgs, replies, workerVars>>

\* Mutant: the status of the command is received, but status_ stays WAIT.
SendUncheckedStillWaiting(g, sig) ==
    /\ sig \in UncheckedSignals
    /\ CanSend(g, sig)
    /\ CallerWaits => status[g] = "WAIT"
    /\ Send(g, sig, None)
    /\ posted' = [posted EXCEPT ![g] = @ + 1]
    /\ UNCHANGED <<status, managerTasks, awaiting, closed, statusMsgs, replies, workerVars>>

\* interpolateValues, writeInterpolatedValuesPerGrid,
\* writeSparseGridMinMaxCoefficients.
SendUnchecked(g, sig) ==
    /\ sig \in UncheckedSignals
    /\ CanSend(g, sig)
    /\ CallerWaits => status[g] = "WAIT"
    /\ Send(g, sig, None)
    /\ SetProcessGroupBusyAndReceive(g)
    /\ UNCHANGED <<managerTasks, awaiting, closed, statusMsgs, replies, workerVars>>

\* The manager blocks in MPI_Recv for the norms before it posts the receive
\* of the status.
GetLpNorms(g, sig) ==
    /\ sig \in NormSignals
    /\ CanSend(g, sig)
    /\ CallerWaits => status[g] = "WAIT"
    /\ Send(g, sig, None)
    /\ awaiting' = [group |-> g, sig |-> sig, task |-> None]
    /\ UNCHANGED <<status, posted, managerTasks, closed, statusMsgs, replies, workerVars>>

\* The manager looks the task up in its own list and blocks in Task::receive.
RescheduleRemoveTask(g, t) ==
    /\ CanSend(g, "RESCHEDULE_REMOVE_TASK")
    /\ CallerWaits => status[g] = "WAIT"
    /\ Contains(managerTasks[g], t)
    /\ Send(g, "RESCHEDULE_REMOVE_TASK", t)
    /\ awaiting' = [group |-> g, sig |-> "RESCHEDULE_REMOVE_TASK", task |-> t]
    /\ UNCHANGED <<status, posted, managerTasks, closed, statusMsgs, replies, workerVars>>

\* Mutant: no receive of the status after the reply.
ReceiveReplyOnly(g) ==
    /\ awaiting.group = g
    /\ replies[g] # <<>>
    /\ replies' = [replies EXCEPT ![g] = Tail(@)]
    /\ managerTasks' = IF awaiting.sig = "RESCHEDULE_REMOVE_TASK"
                       THEN [managerTasks EXCEPT ![g] = RemoveFirst(@, awaiting.task)]
                       ELSE managerTasks
    /\ awaiting' = NotAwaiting
    /\ UNCHANGED <<status, posted, closed, toWorker, statusMsgs, workerVars>>

\* Mutant: the removed task stays in the manager's list.
ReceiveReplyNoErase(g) ==
    /\ awaiting.group = g
    /\ replies[g] # <<>>
    /\ replies' = [replies EXCEPT ![g] = Tail(@)]
    /\ SetProcessGroupBusyAndReceive(g)
    /\ awaiting' = NotAwaiting
    /\ UNCHANGED <<managerTasks, closed, toWorker, statusMsgs, workerVars>>

\* The rest of getLpNorms or rescheduleRemoveTask, when the reply arrives.
ReceiveReply(g) ==
    /\ awaiting.group = g
    /\ replies[g] # <<>>
    /\ replies' = [replies EXCEPT ![g] = Tail(@)]
    /\ SetProcessGroupBusyAndReceive(g)
    /\ managerTasks' = IF awaiting.sig = "RESCHEDULE_REMOVE_TASK"
                       THEN [managerTasks EXCEPT ![g] = RemoveFirst(@, awaiting.task)]
                       ELSE managerTasks
    /\ awaiting' = NotAwaiting
    /\ UNCHANGED <<closed, toWorker, statusMsgs, workerVars>>

\* Waits for the group first; sends and returns with status_ still WAIT and
\* no receive posted for the status the group will send.
DoDiagnostics(g, t) ==
    /\ CanSend(g, "DO_DIAGNOSTICS")
    /\ status[g] = "WAIT"
    /\ Contains(managerTasks[g], t)
    /\ Send(g, "DO_DIAGNOSTICS", t)
    /\ UNCHANGED <<managerVars, statusMsgs, replies, workerVars>>

\* EXIT; the application sends nothing to the group afterwards.
Exit(g) ==
    /\ CanSend(g, "EXIT")
    /\ status[g] = "WAIT"
    /\ Send(g, "EXIT", None)
    /\ SetProcessGroupBusyAndReceive(g)
    /\ closed' = closed \cup {g}
    /\ UNCHANGED <<managerTasks, awaiting, statusMsgs, replies, workerVars>>

\* Mutant: a status is taken before its receive is posted.
DeliverStatusUnposted(g) ==
    /\ statusMsgs[g] > 0
    /\ posted' = [posted EXCEPT ![g] = @ - 1]
    /\ statusMsgs' = [statusMsgs EXCEPT ![g] = @ - 1]
    /\ status' = [status EXCEPT ![g] = "WAIT"]
    /\ UNCHANGED <<managerTasks, awaiting, closed, toWorker, replies, workerVars>>

\* MPI completes the oldest posted receive, in any MPI call of the manager
\* (getStatus and waitStatus only look at the status word and wait for it).
DeliverStatus(g) ==
    /\ posted[g] > 0
    /\ statusMsgs[g] > 0
    /\ posted' = [posted EXCEPT ![g] = @ - 1]
    /\ statusMsgs' = [statusMsgs EXCEPT ![g] = @ - 1]
    /\ status' = [status EXCEPT ![g] = "WAIT"]
    /\ UNCHANGED <<managerTasks, awaiting, closed, toWorker, replies, workerVars>>

-----------------------------------------------------------------------------
\* The process group: ProcessGroupWorker::wait.

\* receiveSignalFromManagerAndBroadcast.
ReceiveSignal(g) ==
    /\ phase[g] = "idle"
    /\ toWorker[g] # <<>>
    /\ current' = [current EXCEPT ![g] = Head(toWorker[g])]
    /\ toWorker' = [toWorker EXCEPT ![g] = Tail(@)]
    /\ phase' = [phase EXCEPT ![g] = "running"]
    /\ UNCHANGED <<managerVars, statusMsgs, replies, workerTasks>>

\* What a command does to the tasks of the group.
TasksAfter(cmd, tasks) ==
    CASE cmd.sig \in TaskSignals -> Append(tasks, cmd.task)
      [] cmd.sig = "RESCHEDULE_REMOVE_TASK" -> RemoveFirst(tasks, cmd.task)
      [] cmd.sig = "EXIT" -> <<>>
      [] OTHER -> tasks

\* What the group sends to the manager before its status, by the tasks it has.
RepliesTo(cmd, tasks) ==
    CASE cmd.sig \in NormSignals -> <<tasks>>
      [] cmd.sig = "RESCHEDULE_REMOVE_TASK" /\ Contains(tasks, cmd.task) -> <<(<<cmd.task>>)>>
      [] OTHER -> <<>>

\* The switch statement.
Execute(g) ==
    /\ phase[g] = "running"
    /\ workerTasks' = [workerTasks EXCEPT ![g] = TasksAfter(current[g], @)]
    /\ replies' = [replies EXCEPT ![g] = @ \o RepliesTo(current[g], workerTasks[g])]
    /\ phase' = [phase EXCEPT ![g] = "done"]
    /\ UNCHANGED <<managerVars, toWorker, statusMsgs, current>>

\* Every command is answered, DO_DIAGNOSTICS and EXIT included.
SendStatus(g) ==
    /\ phase[g] = "done"
    /\ statusMsgs' = [statusMsgs EXCEPT ![g] = @ + 1]
    /\ phase' = [phase EXCEPT ![g] = IF current[g].sig = "EXIT" THEN "exited" ELSE "idle"]
    /\ current' = [current EXCEPT ![g] = NoCommand]
    /\ UNCHANGED <<managerVars, toWorker, replies, workerTasks>>

-----------------------------------------------------------------------------
ManagerStep(g) ==
    \/ \E sig \in TaskSignals, t \in Tasks : StoreTaskReferenceAndSend(g, sig, t)
    \/ RunNext(g)
    \/ \E sig \in CheckedSignals : SendSignalAndReceive(g, sig)
    \/ \E sig \in UncheckedSignals : SendUnchecked(g, sig)
    \/ \E sig \in NormSignals : GetLpNorms(g, sig)
    \/ \E t \in Tasks : RescheduleRemoveTask(g, t)
    \/ \E t \in Tasks : DoDiagnostics(g, t)
    \/ Exit(g)
    \/ ReceiveReply(g)

WorkerStep(g) == ReceiveSignal(g) \/ Execute(g) \/ SendStatus(g)

Next == \E g \in Groups : ManagerStep(g) \/ DeliverStatus(g) \/ WorkerStep(g)

\* Every rank runs, MPI makes progress, and the blocked manager takes its reply.
Fairness == \A g \in Groups : /\ WF_vars(WorkerStep(g))
                              /\ WF_vars(DeliverStatus(g))
                              /\ WF_vars(ReceiveReply(g))

Spec == Init /\ [][Next]_vars /\ Fairness

-----------------------------------------------------------------------------
\* Properties.

\* Every receive of a status has exactly one command that will answer it: none
\* is left over (a later wait would return early) and none is missing (a later
\* wait would never return).  DoDiagnostics is the command without a receive.
CommandBalance == \A g \in Groups : posted[g] + Asked(g) = Load(g)

\* When the manager reads WAIT for a group it has asked nothing of, the group
\* has executed every command and is back in ProcessGroupWorker::wait.
WaitMeansFinished ==
    \A g \in Groups : status[g] = "WAIT" /\ awaiting.group # g => Load(g) = 0 /\ posted[g] = 0

\* The manager's list of a group's tasks and the group's own list have the same
\* tasks in the same order whenever no command is under way.
TasksAgree ==
    \A g \in Groups : Quiet(g) /\ awaiting.group # g /\ phase[g] # "exited"
                      => managerTasks[g] = workerTasks[g]

\* The reply the manager takes answers the request it blocks on: the j-th norm,
\* which getLpNorms stores under the ID of the manager's j-th task, is the norm
\* of that task, and rescheduleRemoveTask gets the task it asked for.
ReplyAnswersTheRequest ==
    \A g \in Groups :
        IF awaiting.group # g
        THEN replies[g] = <<>>
        ELSE \A i \in DOMAIN replies[g] :
                replies[g][i] = IF awaiting.sig \in NormSignals THEN managerTasks[g]
                                ELSE <<awaiting.task>>

=============================================================================
