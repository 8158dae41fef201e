----------------------------- MODULE MCProcessGroup -----------------------------
(***************************************************************************)
(* Instances of ProcessGroup for TLC.  Signals that the manager sends and  *)
(* the worker answers in the same way are represented by one of them.      *)
(***************************************************************************)
EXTENDS ProcessGroup

CONSTANTS g1, g2, t1, t2, none

TwoGroups == {g1, g2}
OneGroup == {g1}
TwoTasks == {t1, t2}

\* One signal of every class, without diagnostics.
Regular == {"RUN_FIRST", "RESCHEDULE_ADD_TASK", "RUN_NEXT", "COMBINE",
            "INTERPOLATE_VALUES", "GET_L2_NORM", "RESCHEDULE_REMOVE_TASK", "EXIT"}

RegularAndDiagnostics == Regular \cup {"DO_DIAGNOSTICS"}

=============================================================================
