---------------------------- MODULE ThirdLevelExchange ----------------------------
(***************************************************************************)
(* What the third level promises the systems it couples: their             *)
(* applications call the same methods in the same order, no method returns *)
(* before every system has called it, and it leaves all of them with the   *)
(* same outcome, made of what each brought to this very call.              *)
(*                                                                         *)
(* ThirdLevelManager implements it with sockets, roles and a broker.       *)
(***************************************************************************)
EXTENDS Naturals, Sequences

CONSTANTS
    Systems,        \* the coupled systems
    Pieces,         \* the sparse grids exchanged, one per grid and rank
    SpacesOf,       \* each system's own <<subspace, piece>>s
    Operations,     \* the third level methods the applications call
    MaxCalls        \* bound: calls per application

VARIABLES
    plan,           \* the methods the applications agree on, as far as called
    joined,         \* the calls each system has made
    left,           \* the calls that have returned
    result          \* what the last call left each system with

vars == <<plan, joined, left, result>>

Init ==
    /\ plan = <<>>
    /\ joined = [s \in Systems |-> 0]
    /\ left = [s \in Systems |-> 0]
    /\ result = [s \in Systems |-> {}]

\* The outcomes a method may have when it is the k-th call.
Outcomes(op, k) ==
    CASE op \in {"combineThirdLevel", "combineThirdLevelFileBased"} ->
            {(Systems \X {k}) \X Pieces}
      [] op = "unifySubspaceSizesThirdLevel" -> {UNION {SpacesOf[s] : s \in Systems}}
      [] op = "unifyExtraSparseGrid" ->
            {{x \in UNION {SpacesOf[s] : s \in Systems} : \A s \in Systems : x \in SpacesOf[s]}}
      \* Every system's values, at the coordinates one of them has drawn.
      [] op = "monteCarloThirdLevel" -> {Systems \X {<<c, k>>} : c \in Systems}
      [] op = "finalize" -> {{}}

Join(s) ==
    /\ joined[s] = left[s]
    /\ joined[s] > 0 => plan[joined[s]] # "finalize"
    /\ joined' = [joined EXCEPT ![s] = @ + 1]
    /\ IF joined[s] < Len(plan)
       THEN UNCHANGED plan
       ELSE \E op \in Operations \cup {"finalize"} :
                /\ op # "finalize" => Len(plan) < MaxCalls
                /\ plan' = Append(plan, op)
    /\ UNCHANGED <<left, result>>

Leave(s) ==
    LET k == joined[s]
    IN  /\ left[s] < k
        /\ plan[k] # "finalize" => \A o \in Systems : joined[o] >= k
        /\ left' = [left EXCEPT ![s] = k]
        /\ \E x \in Outcomes(plan[k], k) :
            /\ \A o \in Systems : left[o] = k => result[o] = x
            /\ result' = [result EXCEPT ![s] = x]
        /\ UNCHANGED <<plan, joined>>

Next == \E s \in Systems : Join(s) \/ Leave(s)

\* The applications go on to their end, and a call all systems made returns.
Fairness == \A s \in Systems : WF_vars(Join(s)) /\ WF_vars(Leave(s))

Spec == Init /\ [][Next]_vars /\ Fairness
=============================================================================
