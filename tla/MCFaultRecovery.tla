--------------------------- MODULE MCFaultRecovery ---------------------------
(* Small instances of FaultRecovery. *)
EXTENDS FaultRecovery

SmallDomains == {<<<<1, 1>>, <<3, 3>>>>, <<<<2, 1>>, <<2, 3>>>>, <<<<1, 1>>, <<4, 4>>>>}

\* Static faults by iteration and rank, and random ones.
SmallCriteria ==
    {[kind |-> "static", faults |-> {<<1, 0>>}], [kind |-> "static", faults |-> {<<1, 2>>, <<2, 1>>}],
     [kind |-> "static", faults |-> {<<2, 0>>, <<2, 1>>}], [kind |-> "weibull", faults |-> {}]}

\* wait() finds the first group first.  Every group has a grid of the two highest diagonals: without
\* one, its tasks would be lost.  All such distributions of up to six tasks, two of more tasks.
OnTop(s, t) == s.n - levelSum(s.spaces[t]) <= 1
SmallDistributions(s) ==
    LET tasks == DOMAIN s.spaces
    IN  {owner \in IF Len(s.spaces) <= 6 THEN [tasks -> Groups]
                   ELSE {[t \in tasks |-> ((t - 1) % NumGroups) + 1], [t \in tasks |-> IF t <= 2 THEN 1 ELSE IF t <= 4 THEN 2 ELSE 3]} :
            /\ owner[1] = 1
            /\ \A g \in Groups : \E t \in tasks : owner[t] = g /\ OnTop(s, t)}
=============================================================================
