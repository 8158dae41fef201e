---------------------------- MODULE MCMPISystem ----------------------------
(***************************************************************************)
(* Model checking MPISystem on up to seven processes.                       *)
(***************************************************************************)
EXTENDS MPISystem

\* Groups times processes: the layouts of tests/test_mpisystem.cpp, and smaller ones.
Size(l, manager) == l[1] * l[2] + (IF manager THEN 1 ELSE 0)
Reusable(l, manager) == CallInitWorldReusable(l[1], l[2], manager, Size(l, manager))

MCPrograms ==
    {<<CallInit(2, 3, TRUE, NumProcesses)>>, <<CallInitLcomm(3, 2, TRUE)>>,
     <<CallInit(7, 1, FALSE, NumProcesses)>>}
    \cup {<<CallInit(3, 2, FALSE, NumProcesses)>>}                     \* wrong number of processes
    \cup {<<CallInitWorldReusable(0, 0, TRUE, 1), Reusable(<<2, 2>>, TRUE)>>}   \* only a manager
    \cup {<<Reusable(l, m), Reusable(k, n)>> : l \in {<<2, 3>>, <<3, 2>>, <<6, 1>>, <<1, 6>>}, m \in BOOLEAN,
                                              k \in {<<2, 2>>, <<1, 4>>}, n \in BOOLEAN}
    \cup {<<Reusable(<<1, 4>>, FALSE), CallOutput(a), CallOutput(b), Reusable(<<2, 2>>, TRUE)>> :
             a \in {2, 4}, b \in {1, 2, 3}}
    \cup {<<Reusable(<<2, 3>>, FALSE), CallOutput(3), CallOutput(2)>>}
    \* files: the same number of parts, more of them, a restart with more groups, other processes;
    \* in the end shorter parts over longer ones, which cannot be read
    \cup {<<Reusable(<<1, 4>>, FALSE), CallOutput(parts), CallFile("some", "write", 1),
            CallFile("some", "read", 2), CallFile("some", "write", 3), CallFile("some", "reduce", 4),
            CallOutput(2), CallFile("some", "reduce", 5), CallOutput(4), CallFile("some", "write", 6),
            CallFile("some", "read", 7)>> : parts \in {1, 2, 4}}
    \cup {<<Reusable(<<1, 3>>, TRUE), CallFile(kind, "write", 1), CallFile(kind, "reduce", 2),
            Reusable(<<l, 3>>, TRUE), CallFile(kind, "read", 3), CallFile(kind, "write", 4),
            Reusable(<<1, 2>>, TRUE), CallFile(kind, "reduce", 5)>> : kind \in {"one", "some", "sizes"}, l \in {1, 2}}
    \cup {<<Reusable(<<5, 1>>, TRUE), CallRunAndRecover, CallRunAndRecover, CallRunAndRecover>>}
=============================================================================
