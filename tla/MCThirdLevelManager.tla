---------------------------- MODULE MCThirdLevelManager ----------------------------
(***************************************************************************)
(* Instances of ThirdLevelManager for TLC.                                 *)
(***************************************************************************)
EXTENDS ThirdLevelManager

CONSTANTS A, B, common

TwoSystems == {A, B}

AllSubspaces == {A, B, common}

\* Every piece has a subspace both systems have, and one that only one has.
SharedSpaces == (A :> {<<common, 1>>, <<A, 1>>, <<common, 2>>}) @@ (B :> {<<common, 1>>, <<common, 2>>, <<B, 2>>})

AllMethods == {"combineThirdLevel", "combineThirdLevelFileBased",
               "unifySubspaceSizesThirdLevel", "unifyExtraSparseGrid", "monteCarloThirdLevel"}

\* Both systems are built with assertions, or both without.
SameBuild == {{}, TwoSystems}

=============================================================================
