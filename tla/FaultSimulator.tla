--------------------------- MODULE FaultSimulator ---------------------------
(***************************************************************************)
(* The MPI fault simulator (src/mpi_fault_simulator): a layer on MPI in    *)
(* which a process that fails (Sim_FT_kill_me) keeps running, forwards the *)
(* layer's messages and tells the others that it is dead.  Modelled is one *)
(* communicator and the program its processes run on it.                   *)
(*                                                                         *)
(* A process handles the messages of the layer whenever it polls, which it *)
(* does in the loops of the layer and nowhere else.  One action handles    *)
(* one message; messages under different tags overtake each other.         *)
(* Left out: MPI_ANY_SOURCE, MPI_Comm_agree, Probe, Wait on a collective.  *)
(***************************************************************************)
EXTENDS Integers, Sequences, FiniteSets

CONSTANTS
    N,              \* size of the communicator
    TreeSuccessors, \* TREE_SUCCESSOR_COUNT, 6 in the code; less makes trees deeper
    Programs,       \* what the processes run: [ops, mortal]
    InOrder,        \* whether MPI keeps the order of broadcasts on different communicators
    Revoked,        \* MPI_ERR_REVOKED
    None

Procs == 0..(N - 1)
Root == 0           \* Root_Rank

ASSUME SimulatorAssumption == N \in Nat \ {0} /\ TreeSuccessors \in Nat \ {0}

VARIABLES
    program,        \* the operations in order, and the processes that may fail
    at,             \* the operation each process has reached
    sync,           \* how often it has called Check_dead_processes in it
    pc,             \* where in the operation it is
    alive,          \* it has not called Sim_FT_kill_me
    comm,           \* its Sim_FT_MPI_Comm_struct
    root,           \* the members only the root uses
    net,            \* messages under way
    outcome         \* history: what Check_dead_processes returned, call by call

vars == <<program, at, sync, pc, alive, comm, root, net, outcome>>

Normal == "normal"          \* SIM_FT_REDUCE_TAG, SIM_FT_DEAD_TAG
Revoke == "revoked"         \* the same _REVOKED
Tags == {Normal, Revoke}

-----------------------------------------------------------------------------
(* The tree of the layer's reductions and broadcasts. *)

ConvertId(id, size) ==
    IF id >= size THEN id - size ELSE IF id < 0 THEN size + id ELSE id

Bcast_Get_Successors(r, p, size) ==
    LET normalized(i) == ConvertId(p - r, size) * TreeSuccessors + i + 1
    IN  {ConvertId(normalized(i) + r, size) :
            i \in {j \in 0..(TreeSuccessors - 1) : normalized(j) < size}}

Successors == [p \in Procs |-> Bcast_Get_Successors(Root, p, N)]

\* Sim_FT_Custom_Ibcast_Root: a message to every successor, in the channels c.
ToSuccessors(c, p, m) ==
    [q \in Procs |-> IF q \in Successors[p] THEN Append(c[q], m) ELSE c[q]]

\* Receives the first message from its predecessor and passes it on.
Sim_FT_Custom_Ibcast_NRoot(c, p) == ToSuccessors([c EXCEPT ![p] = Tail(c[p])], p, Head(c[p]))

-----------------------------------------------------------------------------
Ops == {"Collective", "Icollective", "Revoke", "Send", "SendIrecv", "IsendIrecv", "Shrink", "Comm_free", "Finalize"}

PointToPoint == {"Send", "SendIrecv", "IsendIrecv"}

\* The ranks of point-to-point communication are in the communicator.
ASSUME ProgramsAssumption ==
    \A run \in Programs :
        /\ Len(run.ops) \in Nat
        /\ \A i \in 1..Len(run.ops) :
            /\ run.ops[i].op \in Ops
            /\ run.ops[i].op \in PointToPoint => {run.ops[i].from, run.ops[i].to} \subseteq Procs

\* The NextOp the second call of Check_dead_processes announces to the dead.
NextOp == [op \in Ops |-> IF op \in {"Shrink", "Comm_free", "Finalize"} THEN op ELSE "Default"]

Op(p) == program.ops[at[p]]
Option(p) == IF sync[p] = 2 THEN NextOp[Op(p).op] ELSE "Default"

\* One process's part of a reduction, before its successors' parts.
Send_Vector(p, nbc, option) == [dead |-> 0, nbc |-> nbc, rank |-> p, op |-> option]

\* Mutant: keeps the shortest list of non-blocking collectives.
customReduceOpShortest(in, inout) ==
    [dead |-> in.dead + inout.dead,
     nbc  |-> IF inout.nbc > in.nbc THEN in.nbc ELSE inout.nbc,
     rank |-> IF inout.nbc > in.nbc THEN in.rank ELSE inout.rank,
     op   |-> IF inout.op = "Default" THEN in.op ELSE inout.op]

customReduceOp(in, inout) ==
    [dead |-> in.dead + inout.dead,
     nbc  |-> IF inout.nbc < in.nbc THEN in.nbc ELSE inout.nbc,
     rank |-> IF inout.nbc < in.nbc THEN in.rank ELSE inout.rank,
     op   |-> IF inout.op = "Default" THEN in.op ELSE inout.op]

Init ==
    /\ program \in Programs
    /\ at = [p \in Procs |-> 1]
    /\ sync = [p \in Procs |-> 0]
    /\ pc = [p \in Procs |-> "idle"]
    /\ alive = [p \in Procs |-> TRUE]
    /\ comm = [p \in Procs |->
                [comm_revoked |-> FALSE, dead_nodes |-> {}, dead_set |-> {},
                 Recent_Icollectives |-> 0, received |-> {}, vector |-> Send_Vector(p, 0, "Default"),
                 Ireduce_Active |-> FALSE, tag |-> Normal, completed |-> FALSE]]
    /\ root = [Dead_Processes_Root |-> {}, recent |-> {}, Last_Send_Vector |-> None]
    /\ net = [reduce |-> [t \in Tags |-> [p \in Procs |-> <<>>]],   \* from p to its predecessor
              bcast |-> [t \in Tags |-> [p \in Procs |-> <<>>]],    \* from its predecessor to p
              nbcBcast |-> [p \in Procs |-> <<>>],
              revokeBcast |-> [p \in Procs |-> <<>>],
              dead |-> {}, revoke |-> 0, nbcRequest |-> {}, nbcResponse |-> None,
              p2p |-> [p \in Procs \X Procs |-> <<>>],              \* alive messages
              data |-> [p \in Procs \X Procs |-> 0]]                \* the messages themselves
    /\ outcome = [p \in Procs |-> <<>>]

Goto(p, label) == pc' = [pc EXCEPT ![p] = label]

\* The current operation of p is over, and its program goes on.
Done(p) ==
    /\ Goto(p, "idle")
    /\ at' = [at EXCEPT ![p] = @ + 1]
    /\ sync' = [sync EXCEPT ![p] = 0]

InCheck(p) == pc[p] \in {"check", "reduce", "collect", "bcast"}

\* After its program a process polls in operations on other communicators; one that has
\* failed waits for the operation that lets it exit.
Exits == \E i \in 1..Len(program.ops) : program.ops[i].op \in {"Comm_free", "Finalize"}
Ended(p) ==
    \/ pc[p] = "exited"
    \/ pc[p] = "idle" /\ at[p] > Len(program.ops)
    \/ ~alive[p] /\ ~Exits
Polls(p) == pc[p] \in {"check", "reduce", "collect", "bcast", "nbc", "send", "recv", "test", "dead"}
                \/ (pc[p] = "idle" /\ Ended(p))

-----------------------------------------------------------------------------
(* Sim_FT_Perform_background_operations, of alive and of dead processes. *)

Sim_FT_Receive_dead_msgs_root ==
    \E d \in net.dead :
        /\ Polls(Root)
        /\ net' = [net EXCEPT !.dead = @ \ {d}]
        /\ root' = [root EXCEPT !.Dead_Processes_Root = @ \cup {d}, !.recent = @ \cup {d}]
        /\ comm' = [comm EXCEPT ![Root].dead_set = @ \cup {d}]
        /\ UNCHANGED <<program, at, sync, pc, alive, outcome>>

\* SIM_FT_WAIT_NBC_BCAST has passed.
Sim_FT_NBC_bcast_root ==
    /\ Polls(Root)
    /\ root.recent # {}
    /\ net' = [net EXCEPT !.nbcBcast = ToSuccessors(@, Root, root.recent)]
    /\ root' = [root EXCEPT !.recent = {}]
    /\ UNCHANGED <<program, at, sync, pc, alive, comm, outcome>>

\* Mutant: the sets of dead processes are not extended but replaced.
Sim_FT_NBC_bcast_NrootReplaces(p) ==
    /\ Polls(p)
    /\ net.nbcBcast[p] # <<>>
    /\ InOrder => net.bcast[Normal][p] = <<>> /\ net.bcast[Revoke][p] = <<>>
    /\ net' = [net EXCEPT !.nbcBcast = Sim_FT_Custom_Ibcast_NRoot(@, p)]
    /\ comm' = [comm EXCEPT ![p].dead_set = Head(net.nbcBcast[p])]
    /\ UNCHANGED <<program, at, sync, pc, alive, root, outcome>>

Sim_FT_NBC_bcast_Nroot(p) ==
    /\ Polls(p)
    /\ net.nbcBcast[p] # <<>>
    /\ InOrder => net.bcast[Normal][p] = <<>> /\ net.bcast[Revoke][p] = <<>>
    /\ net' = [net EXCEPT !.nbcBcast = Sim_FT_Custom_Ibcast_NRoot(@, p)]
    /\ comm' = [comm EXCEPT ![p].dead_set = @ \cup Head(net.nbcBcast[p])]
    /\ UNCHANGED <<program, at, sync, pc, alive, root, outcome>>

AnswerNbcRequest(p) ==
    /\ Polls(p)
    /\ p \in net.nbcRequest
    /\ net' = [net EXCEPT !.nbcRequest = @ \ {p}, !.nbcResponse = comm[p].Recent_Icollectives]
    /\ UNCHANGED <<program, at, sync, pc, alive, comm, root, outcome>>

\* Not by a process inside Check_dead_processes, unless it is dead.
Sim_FT_Check_comm_revoked(p) ==
    /\ Polls(p)
    /\ pc[p] \notin {"reduce", "collect", "bcast"}
    /\ \/ /\ p = Root /\ net.revoke > 0
          /\ net' = [net EXCEPT !.revoke = @ - 1,
                                !.revokeBcast = IF comm[p].comm_revoked THEN @
                                                ELSE ToSuccessors(@, p, "revoke")]
       \/ /\ net.revokeBcast[p] # <<>>
          /\ net' = [net EXCEPT !.revokeBcast = Sim_FT_Custom_Ibcast_NRoot(@, p)]
    /\ comm' = [comm EXCEPT ![p].comm_revoked = TRUE]
    /\ UNCHANGED <<program, at, sync, pc, alive, root, outcome>>

\* A reduction begun under the tags of a communicator that is not revoked.
AnswerReduceRevoked(p) ==
    /\ Polls(p)
    /\ comm[p].comm_revoked
    /\ \E q \in Successors[p] :
        /\ net.reduce[Normal][q] # <<>>
        /\ net' = [net EXCEPT !.reduce[Normal][q] = Tail(@),
                              !.bcast[Normal][q] = Append(@, [op |-> "RevokedComm", dead |-> {}, nbc |-> 0])]
    /\ UNCHANGED <<program, at, sync, pc, alive, comm, root, outcome>>

\* Mutant: only a revoked communicator is a reason to answer.
AnswerAliveRevoked(p) ==
    /\ Polls(p)
    /\ comm[p].comm_revoked
    /\ \E q \in Procs \ {p} :
        /\ net.p2p[<<q, p>>] # <<>>
        /\ net' = [net EXCEPT !.p2p[<<q, p>>] = Tail(@),
                              !.p2p[<<p, q>>] = Append(@, "COMM_IS_REVOKED")]
    /\ UNCHANGED <<program, at, sync, pc, alive, comm, root, outcome>>

\* A request for p2p communication that the revocation or the failure of p cancels.
AnswerAlive(p) ==
    /\ Polls(p)
    /\ ~alive[p] \/ comm[p].comm_revoked
    /\ \E q \in Procs \ {p} :
        LET from == <<q, p>> back == <<p, q>> IN
        /\ net.p2p[from] # <<>>
        /\ LET answered == IF alive[p] THEN {"I_AM_ALIVE", "I_AM_ALIVE_NB"} ELSE {"I_AM_ALIVE"}
               answer == IF alive[p] THEN "COMM_IS_REVOKED" ELSE "I_AM_DEAD"
           IN  net' = [net EXCEPT !.p2p[from] = Tail(@),
                                  !.p2p[back] = IF Head(net.p2p[from]) \in answered
                                                THEN Append(@, answer) ELSE @]
    /\ UNCHANGED <<program, at, sync, pc, alive, comm, root, outcome>>

-----------------------------------------------------------------------------
(* Sim_FT_Check_dead_processes of an alive process. *)

Takes(p) == CASE Op(p).op = "Revoke" -> p = Op(p).by
              [] Op(p).op \in PointToPoint -> p \in {Op(p).from, Op(p).to}
              [] OTHER -> TRUE

Begin(p) == pc[p] = "idle" /\ alive[p] /\ at[p] <= Len(program.ops) /\ Takes(p)

\* An operation another process executes.
Skip(p) ==
    /\ pc[p] = "idle" /\ alive[p] /\ at[p] <= Len(program.ops) /\ ~Takes(p)
    /\ Done(p)
    /\ UNCHANGED <<program, alive, comm, root, net, outcome>>

\* A blocking collective operation, or one that announces what is next.
CallCollective(p) ==
    /\ Begin(p)
    /\ Op(p).op \in {"Collective", "Shrink", "Comm_free", "Finalize"}
    /\ sync' = [sync EXCEPT ![p] = 1]
    /\ Goto(p, "check")
    /\ UNCHANGED <<program, at, alive, comm, root, net, outcome>>

\* The outcome o of Check_dead_processes; the operation ends, goes on or calls MPI.
Return(p, o) ==
    /\ outcome' = [outcome EXCEPT ![p] = Append(@, o)]
    /\ IF Op(p).op = "Collective"
       THEN IF o = {} THEN Goto(p, "real") /\ UNCHANGED <<at, sync>> ELSE Done(p)
       ELSE Goto(p, IF sync[p] = 2 THEN "real" ELSE "returned") /\ UNCHANGED <<at, sync>>

\* A revoked communicator cancels the check, except of operations that need it.
CheckRevoked(p) ==
    /\ pc[p] = "check"
    /\ comm[p].comm_revoked
    /\ Option(p) = "Default"
    /\ Return(p, Revoked)
    /\ UNCHANGED <<program, alive, comm, root, net>>

BeginReduce(p) ==
    /\ pc[p] = "check"
    /\ ~(comm[p].comm_revoked /\ Option(p) = "Default")
    /\ Goto(p, "reduce")
    /\ comm' = [comm EXCEPT
                    ![p].vector = Send_Vector(p, comm[p].Recent_Icollectives, Option(p)),
                    ![p].received = {},
                    ![p].tag = IF comm[p].comm_revoked THEN Revoke ELSE Normal]
    /\ UNCHANGED <<program, at, sync, alive, root, net, outcome>>

\* A dead process changes the tags before it looks for messages again.
NewTags(p) == comm[p].comm_revoked => comm[p].tag = Revoke

\* A reduce message of the successor q, in Sim_FT_Custom_Reduce or _Ireduce.
ReceiveReduce(p, q) ==
    LET tag == comm[p].tag IN
    /\ pc[p] = "reduce" \/ (pc[p] = "dead" /\ ~comm[p].Ireduce_Active /\ NewTags(p))
    /\ q \in Successors[p] \ comm[p].received
    /\ net.reduce[tag][q] # <<>>
    /\ comm' = [comm EXCEPT ![p].vector = customReduceOp(Head(net.reduce[tag][q]), @),
                            ![p].received = @ \cup {q}]
    /\ net' = [net EXCEPT !.reduce[tag][q] = Tail(@)]
    /\ UNCHANGED <<program, at, sync, pc, alive, root, outcome>>

Sim_FT_Custom_Reduce(p) ==
    /\ pc[p] = "reduce"
    /\ comm[p].received = Successors[p]
    /\ IF p = Root
       THEN /\ Goto(p, "collect")
            /\ root' = [root EXCEPT !.Last_Send_Vector = comm[p].vector]
            /\ UNCHANGED net
       ELSE /\ Goto(p, "bcast")
            /\ net' = [net EXCEPT !.reduce[comm[p].tag][p] = Append(@, comm[p].vector)]
            /\ UNCHANGED root
    /\ UNCHANGED <<program, at, sync, alive, comm, outcome>>

\* Mutant: does not wait for the messages of the dead processes it has counted.
Sim_FT_Custom_Dead_bcastAtOnce(p) ==
    LET dead == root.Dead_Processes_Root
        m == [op |-> Option(p), dead |-> dead,
              nbc |-> IF Option(p) = "Comm_free" THEN net.nbcResponse ELSE 0]
    IN  /\ p = Root /\ pc[p] = "collect"
        /\ net' = [net EXCEPT !.bcast[comm[p].tag] = ToSuccessors(@, p, m)]
        /\ comm' = [comm EXCEPT ![p].dead_nodes = dead,
                                ![p].dead_set = IF dead = {} THEN comm[p].dead_nodes ELSE @,
                                ![p].vector.nbc = m.nbc]
        /\ Return(p, dead)
        /\ UNCHANGED <<program, alive, root>>

\* The root knows as many dead processes as the reduction has counted.
Sim_FT_Custom_Dead_bcast(p) ==
    LET dead == root.Dead_Processes_Root
        m == [op |-> Option(p), dead |-> dead,
              nbc |-> IF Option(p) = "Comm_free" THEN net.nbcResponse ELSE 0]
    IN  /\ p = Root /\ pc[p] = "collect"
        /\ Cardinality(dead) >= root.Last_Send_Vector.dead
        /\ net' = [net EXCEPT !.bcast[comm[p].tag] = ToSuccessors(@, p, m)]
        /\ comm' = [comm EXCEPT
                ![p].dead_nodes = dead,
                ![p].dead_set = IF dead = {} THEN comm[p].dead_nodes ELSE @,
                ![p].vector.nbc = m.nbc]
        /\ Return(p, dead)
        /\ UNCHANGED <<program, alive, root>>

\* RevokedComm comes without a dead count: what is read for it is not defined.
ReceiveDeadBcast(p) ==
    LET tag == comm[p].tag IN
    /\ pc[p] = "bcast"
    /\ net.bcast[tag][p] # <<>>
    /\ LET m == Head(net.bcast[tag][p])
           nodes == IF Cardinality(m.dead) \in {0, Cardinality(comm[p].dead_nodes)}
                    THEN comm[p].dead_nodes ELSE m.dead
       IN  /\ net' = [net EXCEPT !.bcast[tag] = Sim_FT_Custom_Ibcast_NRoot(@, p)]
           /\ \E read \in IF m.op = "RevokedComm" THEN {comm[p].dead_nodes, Procs} ELSE {nodes} :
                comm' = [comm EXCEPT
                    ![p].dead_nodes = read,
                    ![p].dead_set = IF Cardinality(@) # Cardinality(read) THEN read ELSE @,
                    ![p].comm_revoked = @ \/ m.op = "RevokedComm",
                    ![p].vector.nbc = m.nbc]
           /\ Return(p, IF m.op = "RevokedComm" THEN Revoked ELSE m.dead)
    /\ UNCHANGED <<program, alive, root>>

-----------------------------------------------------------------------------
(* The operations that use the check. *)

\* Sim_FT_MPI_Comm_free: the root asks for the longest list of non-blocking collectives.
RequestNbc(p) ==
    /\ pc[p] = "returned" /\ p = Root /\ Op(p).op = "Comm_free" /\ net.nbcResponse = None
    /\ LET rank == root.Last_Send_Vector.rank IN
        IF rank = Root
        THEN net' = [net EXCEPT !.nbcResponse = comm[p].Recent_Icollectives]
        ELSE net' = [net EXCEPT !.nbcRequest = @ \cup {rank}]
    /\ Goto(p, "nbc")
    /\ UNCHANGED <<program, at, sync, alive, comm, root, outcome>>

SecondCheck(p) ==
    /\ \/ pc[p] = "returned" /\ ~(p = Root /\ Op(p).op = "Comm_free")
       \/ pc[p] = "nbc" /\ net.nbcResponse # None
    /\ Goto(p, "check")
    /\ sync' = [sync EXCEPT ![p] = 2]
    /\ UNCHANGED <<program, at, alive, comm, root, net, outcome>>

\* The non-blocking collectives a process has started when the communicator is freed.
Issued(p) ==
    LET own == comm[p].Recent_Icollectives IN
    IF own < comm[p].vector.nbc THEN comm[p].vector.nbc ELSE own

\* A collective operation of MPI ends when all processes, the dead too, have called it,
\* and a communicator is freed when the collectives started on it are complete.
RealCollective ==
    \E op \in {"Collective", "Shrink", "Comm_free", "Finalize"} :
        /\ \A p \in Procs : IF alive[p] THEN pc[p] = "real" /\ Op(p).op = op ELSE pc[p] = op
        /\ op = "Comm_free" => \A p, q \in Procs : Issued(p) = Issued(q)
        /\ pc' = [p \in Procs |-> IF op \in {"Comm_free", "Finalize"} THEN "exited"
                                  ELSE IF alive[p] THEN "idle" ELSE "dead"]
        /\ at' = [p \in Procs |-> IF alive[p] THEN at[p] + 1 ELSE at[p]]
        /\ sync' = [p \in Procs |-> 0]
        /\ UNCHANGED <<program, alive, comm, root, net, outcome>>

\* Sim_FT_MPI_Ibarrier, Ibcast and Iallreduce, which are completed by Comm_free.
CallIcollective(p) ==
    /\ Begin(p) /\ Op(p).op = "Icollective"
    /\ comm' = [comm EXCEPT ![p].Recent_Icollectives = IF comm[p].comm_revoked THEN @ ELSE @ + 1]
    /\ Done(p)
    /\ UNCHANGED <<program, alive, root, net, outcome>>

MPI_Comm_revoke(p) ==
    /\ Begin(p) /\ Op(p).op = "Revoke"
    /\ IF N = 1
       THEN comm' = [comm EXCEPT ![p].comm_revoked = TRUE] /\ UNCHANGED net
       ELSE /\ net' = IF comm[p].comm_revoked THEN net ELSE [net EXCEPT !.revoke = @ + 1]
            /\ UNCHANGED comm
    /\ Done(p)
    /\ UNCHANGED <<program, alive, root, outcome>>

-----------------------------------------------------------------------------
(* Point-to-point communication: the message follows when both sides are alive. *)

Announce(n, p, q, m) == [n EXCEPT !.p2p[<<p, q>>] = Append(@, m)]

Sends(p) == p = Op(p).from
Partner(p) == IF Sends(p) THEN Op(p).to ELSE Op(p).from

\* Sim_FT_MPI_Send, Isend, Recv and Irecv announce p to its partner.
CallP2P(p) ==
    LET q == Partner(p)
        isend == Sends(p) /\ Op(p).op = "IsendIrecv"
        irecv == ~Sends(p) /\ Op(p).op # "Send"
        announced == Announce(net, p, q, IF isend \/ irecv THEN "I_AM_ALIVE_NB" ELSE "I_AM_ALIVE")
    IN  /\ Begin(p) /\ Op(p).op \in PointToPoint
        /\ IF comm[p].comm_revoked
           THEN Done(p) /\ UNCHANGED <<net, comm>>
           ELSE /\ net' = [announced EXCEPT !.data[<<p, q>>] = IF isend THEN @ + 1 ELSE @]
                /\ comm' = [comm EXCEPT ![p].completed = FALSE]
                /\ Goto(p, IF isend \/ irecv THEN "test" ELSE IF Sends(p) THEN "send" ELSE "recv")
                /\ UNCHANGED <<at, sync>>
        /\ UNCHANGED <<program, alive, root, outcome>>

\* The partner's answer to p.
Answer(p, q) == Head(net.p2p[<<q, p>>])
IsAlive(m) == m \in {"I_AM_ALIVE", "I_AM_ALIVE_NB"}

\* dead_set.insert, for any answer that is neither alive nor revoked.
NoteDead(p, q) ==
    comm' = IF Answer(p, q) = "I_AM_DEAD" THEN [comm EXCEPT ![p].dead_set = @ \cup {q}] ELSE comm

Sim_FT_MPI_Send(p) ==
    LET q == Op(p).to IN
    /\ pc[p] = "send"
    /\ net.p2p[<<q, p>>] # <<>>
    /\ IF comm[p].comm_revoked
       THEN UNCHANGED <<net, comm>>
       ELSE /\ net' = [net EXCEPT !.p2p[<<q, p>>] = Tail(@),
                                  !.data[<<p, q>>] = IF IsAlive(Answer(p, q)) THEN @ + 1 ELSE @]
            /\ NoteDead(p, q)
    /\ Done(p)
    /\ UNCHANGED <<program, alive, root, outcome>>

Sim_FT_MPI_Recv(p) ==
    LET q == Op(p).from IN
    /\ pc[p] = "recv"
    /\ net.p2p[<<q, p>>] # <<>>
    /\ net' = [net EXCEPT !.p2p[<<q, p>>] = Tail(@)]
    /\ NoteDead(p, q)
    /\ IF IsAlive(Answer(p, q)) THEN Goto(p, "recvReal") /\ UNCHANGED <<at, sync>> ELSE Done(p)
    /\ UNCHANGED <<program, alive, root, outcome>>

RealRecv(p) ==
    /\ pc[p] = "recvReal"
    /\ net.data[<<Op(p).from, p>>] > 0
    /\ net' = [net EXCEPT !.data[<<Op(p).from, p>>] = @ - 1]
    /\ Done(p)
    /\ UNCHANGED <<program, alive, comm, root, outcome>>

\* Sim_FT_MPI_Wait: tests an Isend or Irecv until it has completed or failed.
Sim_FT_MPI_Test(p) ==
    LET q == Partner(p) IN
    /\ pc[p] = "test"
    /\ \/ /\ comm[p].comm_revoked \/ q \in comm[p].dead_set
          /\ Done(p) /\ UNCHANGED <<comm, net>>
       \/ /\ ~comm[p].comm_revoked /\ q \notin comm[p].dead_set /\ ~comm[p].completed
          /\ Sends(p) \/ net.data[<<q, p>>] > 0
          /\ net' = [net EXCEPT !.data[<<q, p>>] = IF Sends(p) THEN @ ELSE @ - 1]
          /\ comm' = [comm EXCEPT ![p].completed = TRUE]
          /\ UNCHANGED <<pc, at, sync>>
       \/ /\ ~comm[p].comm_revoked /\ q \notin comm[p].dead_set /\ comm[p].completed
          /\ net.p2p[<<q, p>>] # <<>>
          /\ net' = [net EXCEPT !.p2p[<<q, p>>] = Tail(@)]
          /\ NoteDead(p, q)
          /\ Done(p)
    /\ UNCHANGED <<program, alive, root, outcome>>

-----------------------------------------------------------------------------
(* Sim_FT_kill_me: the loop of a dead process. *)

Sim_FT_kill_me(p) ==
    /\ pc[p] = "idle" /\ alive[p] /\ at[p] <= Len(program.ops)
    /\ p \in program.mortal
    /\ alive' = [alive EXCEPT ![p] = FALSE]
    /\ Goto(p, "dead")
    /\ net' = [net EXCEPT !.dead = @ \cup {p}]
    /\ comm' = [comm EXCEPT ![p].vector = Send_Vector(p, comm[p].Recent_Icollectives, "Default"),
                            ![p].received = {},
                            ![p].tag = IF comm[p].comm_revoked THEN Revoke ELSE Normal]
    /\ UNCHANGED <<program, at, sync, root, outcome>>

\* At the top of the loop.
SwitchTags(p) ==
    /\ pc[p] = "dead"
    /\ ~NewTags(p)
    /\ ~(p = Root /\ comm[p].Ireduce_Active)
    /\ comm' = [comm EXCEPT ![p].tag = Revoke]
    /\ UNCHANGED <<program, at, sync, pc, alive, root, net, outcome>>

\* Forwards the sum of its successors and itself, and is ready for the next reduction.
Sim_FT_Custom_Ireduce(p) ==
    LET sum == [comm[p].vector EXCEPT !.dead = @ + 1] IN
    /\ pc[p] = "dead"
    /\ ~comm[p].Ireduce_Active
    /\ comm[p].received = Successors[p]
    /\ IF p = Root
       THEN root' = [root EXCEPT !.Last_Send_Vector = sum] /\ UNCHANGED net
       ELSE net' = [net EXCEPT !.reduce[comm[p].tag][p] = Append(@, sum)] /\ UNCHANGED root
    /\ comm' = [comm EXCEPT ![p].Ireduce_Active = TRUE, ![p].received = {},
                            ![p].vector = Send_Vector(p, comm[p].Recent_Icollectives, "Default")]
    /\ UNCHANGED <<program, at, sync, pc, alive, outcome>>

\* What a dead process p does about the NextOp of a broadcast.
Follow(p, op, nbc) ==
    /\ Goto(p, IF op \in {"Shrink", "Comm_free", "Finalize"} THEN op ELSE "dead")
    /\ comm' = [comm EXCEPT ![p].Ireduce_Active = FALSE,
                            ![p].vector.nbc = IF op = "Comm_free" THEN nbc ELSE @,
                            ![p].tag = IF op = "RevokedComm" THEN Revoke ELSE @]

ReceiveDeadBcastDead(p) ==
    LET tag == comm[p].tag IN
    /\ pc[p] = "dead"
    /\ comm[p].Ireduce_Active /\ NewTags(p)
    /\ net.bcast[tag][p] # <<>>
    /\ LET m == Head(net.bcast[tag][p]) IN
        /\ net' = [net EXCEPT !.bcast[tag] = Sim_FT_Custom_Ibcast_NRoot(@, p)]
        /\ Follow(p, m.op, m.nbc)
    /\ UNCHANGED <<program, at, sync, alive, root, outcome>>

\* A dead root asks for the list of non-blocking collectives when Comm_free is next.
RequestNbcDead(p) ==
    /\ p = Root /\ pc[p] = "dead" /\ comm[p].Ireduce_Active
    /\ root.Last_Send_Vector.op = "Comm_free" /\ net.nbcResponse = None
    /\ net.nbcRequest = {}
    /\ net' = [net EXCEPT !.nbcRequest = {root.Last_Send_Vector.rank}]
    /\ UNCHANGED <<program, at, sync, pc, alive, comm, root, outcome>>

\* When all processes are dead the root has them finalize.
DeadBcastDead(p) ==
    LET dead == root.Dead_Processes_Root
        op == IF dead = Procs THEN "Finalize" ELSE root.Last_Send_Vector.op
        m == [op |-> op, dead |-> dead, nbc |-> IF op = "Comm_free" THEN net.nbcResponse ELSE 0]
    IN  /\ p = Root /\ pc[p] = "dead" /\ comm[p].Ireduce_Active
        /\ Cardinality(dead) >= root.Last_Send_Vector.dead
        /\ op = "Comm_free" => net.nbcResponse # None
        /\ net' = [net EXCEPT !.bcast[comm[p].tag] = ToSuccessors(@, p, m)]
        /\ Follow(p, op, m.nbc)
        /\ UNCHANGED <<program, at, sync, alive, root, outcome>>

-----------------------------------------------------------------------------
Background(p) ==
    \/ p = Root /\ (Sim_FT_Receive_dead_msgs_root \/ Sim_FT_NBC_bcast_root)
    \/ Sim_FT_NBC_bcast_Nroot(p)
    \/ AnswerNbcRequest(p)
    \/ Sim_FT_Check_comm_revoked(p)
    \/ AnswerReduceRevoked(p)
    \/ AnswerAlive(p)

Operation(p) ==
    \/ Skip(p) \/ CallCollective(p) \/ CallIcollective(p) \/ MPI_Comm_revoke(p) \/ CallP2P(p)
    \/ CheckRevoked(p) \/ BeginReduce(p)
    \/ \E q \in Procs : ReceiveReduce(p, q)
    \/ Sim_FT_Custom_Reduce(p) \/ Sim_FT_Custom_Dead_bcast(p) \/ ReceiveDeadBcast(p)
    \/ RequestNbc(p) \/ SecondCheck(p)
    \/ Sim_FT_MPI_Send(p) \/ Sim_FT_MPI_Recv(p) \/ RealRecv(p) \/ Sim_FT_MPI_Test(p)

Dead(p) ==
    \/ SwitchTags(p) \/ Sim_FT_Custom_Ireduce(p) \/ ReceiveDeadBcastDead(p)
    \/ RequestNbcDead(p) \/ DeadBcastDead(p)

Finished == \A p \in Procs : Ended(p)

Next ==
    \/ \E p \in Procs : Background(p) \/ Operation(p) \/ Dead(p) \/ Sim_FT_kill_me(p)
    \/ RealCollective
    \/ Finished /\ UNCHANGED vars

\* Every process runs, and polls in the loops of the layer; none has to fail.
Fairness ==
    /\ \A p \in Procs : WF_vars(Background(p)) /\ WF_vars(Operation(p)) /\ WF_vars(Dead(p))
    /\ WF_vars(RealCollective)

Spec == Init /\ [][Next]_vars /\ Fairness

-----------------------------------------------------------------------------
DeadProcs == {p \in Procs : ~alive[p]}

\* The communicator is revoked, or will be.
Revoking == net.revoke > 0 \/ \E p \in Procs : comm[p].comm_revoked \/ /\ net.revokeBcast[p] # <<>>

\* Check_dead_processes has the same outcome at all processes that return from it, and
\* reports all processes that do not take part (MPI-FT.cpp, Sim_FT_Check_dead_processes).
Agreement == INSTANCE CollectiveAgreement WITH
    dead <- DeadProcs,
    entered <- [p \in Procs |-> Len(outcome[p]) + IF InCheck(p) THEN 1 ELSE 0]

UniformVerdict == Agreement!Spec

\* Until the communicator is revoked a process takes only failed processes for dead, and the
\* ones a collective operation has reported stay in the set point-to-point operations look at.
DeadAreDead ==
    Revoking \/ \A p \in Procs :
        /\ comm[p].dead_nodes \subseteq comm[p].dead_set \/ ~alive[p] \/ InCheck(p)
        /\ comm[p].dead_set \subseteq DeadProcs

\* Freeing a communicator completes the non-blocking collectives: the dead have started what
\* the alive have (Sim_FT_Perform_nb_operations).
FreeCompletes ==
    (\A p \in Procs : pc[p] \in {"real", "Comm_free"}) =>
        \/ \A p \in Procs : pc[p] = "real" /\ Op(p).op # "Comm_free"
        \/ \A p, q \in Procs : Issued(p) = Issued(q)

\* Every operation returns, and every process, dead or alive, gets through its program, one
\* that has failed when the others finalize or free the communicator.
ProgramsEnd == \A p \in Procs : <>Ended(p)

=============================================================================
