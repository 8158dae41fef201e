-------------------------- MODULE MCFaultSimulator --------------------------
(***************************************************************************)
(* Programs for the fault simulator, small enough for TLC.                 *)
(***************************************************************************)
EXTENDS FaultSimulator

Op0(op) == [op |-> op]
By(p) == [op |-> "Revoke", by |-> p]
P2P(op, p, q) == [op |-> op, from |-> p, to |-> q]

\* Failures around collective operations, and a communicator that is shrunk and left.
Shrinking == [ops |-> <<Op0("Collective"), Op0("Shrink"), Op0("Finalize")>>, mortal |-> Procs]

\* Failures before, between and after non-blocking collectives of a communicator that is freed.
Freeing == [ops |-> <<Op0("Icollective"), Op0("Collective"), Op0("Comm_free")>>, mortal |-> {0, 1}]

\* A worker's status, as ProcessGroupManager waits for it, and a blocking receive.
Status == [ops |-> <<Op0("Collective"), P2P("SendIrecv", 1, 2), P2P("Send", 0, 1), Op0("Finalize")>>,
           mortal |-> {0, 1}]

\* Revocations while others are in collective operations; nobody fails, and nobody shrinks
\* the communicator.
Revocation == [ops |-> <<By(1), Op0("Collective"), By(0), P2P("IsendIrecv", 2, 1), Op0("Collective")>>,
               mortal |-> {}]

\* A communicator is revoked after a process has failed.
RevokedAfterFailure == [ops |-> <<Op0("Collective"), By(1), P2P("IsendIrecv", 2, 1)>>,
                        mortal |-> {0, 2}]

SafePrograms == {Shrinking, Freeing, Status, Revocation, RevokedAfterFailure}
=============================================================================
