------------------------- MODULE CollectiveAgreement -------------------------
(***************************************************************************)
(* What Sim_FT_Check_dead_processes promises to the collective operations  *)
(* built on it: the alive processes call it the same number of times, and  *)
(* every call has one outcome, the same at each process that returns from  *)
(* it.  An outcome is the set of processes reported dead, or Revoked.  The *)
(* dead are reported only when all others have entered, and completely.    *)
(***************************************************************************)
EXTENDS Naturals, Sequences

CONSTANTS Procs, Revoked

VARIABLES
    dead,           \* processes that have failed
    entered,        \* calls a process has begun
    outcome         \* outcomes of the calls a process has returned from

vars == <<dead, entered, outcome>>

Init ==
    /\ dead = {}
    /\ entered = [p \in Procs |-> 0]
    /\ outcome = [p \in Procs |-> <<>>]

Fail(p) ==
    /\ p \notin dead
    /\ entered[p] = Len(outcome[p])
    /\ dead' = dead \cup {p}
    /\ UNCHANGED <<entered, outcome>>

Enter(p) ==
    /\ p \notin dead
    /\ entered[p] = Len(outcome[p])
    /\ entered' = [entered EXCEPT ![p] = @ + 1]
    /\ UNCHANGED <<dead, outcome>>

\* The outcome o of p's current call, if nobody has returned from it with another.
Return(p, o) ==
    LET call == entered[p] IN
    /\ Len(outcome[p]) < call
    /\ \A q \in Procs : Len(outcome[q]) >= call => outcome[q][call] = o
    /\ o # Revoked => o \subseteq dead /\ \A q \in Procs \ o : entered[q] >= call
    /\ outcome' = [outcome EXCEPT ![p] = Append(@, o)]
    /\ UNCHANGED <<dead, entered>>

Next ==
    \E p \in Procs :
        \/ Fail(p)
        \/ Enter(p)
        \/ \E o \in (SUBSET Procs) \cup {Revoked} : Return(p, o)

Spec == Init /\ [][Next]_vars
=============================================================================
