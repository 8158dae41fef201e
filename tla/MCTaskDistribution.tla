------------------------- MODULE MCTaskDistribution -------------------------
(* Small instances of TaskDistribution. *)
EXTENDS TaskDistribution

\* Dummy dimensions only where their level is that of the dimension it is taken from.
SmallInputs ==
    {<<<<1, 1>>, <<1, 1>>>>, <<<<1, 1>>, <<2, 2>>>>, <<<<1, 1>>, <<3, 3>>>>, <<<<2, 1>>, <<4, 3>>>>,
     <<<<1, 2>>, <<3, 5>>>>, <<<<2, 1>>, <<2, 3>>>>, <<<<2, 2, 1>>, <<2, 2, 3>>>>,
     <<<<1>>, <<4>>>>, <<<<1, 1, 1>>, <<2, 2, 2>>>>, <<<<1, 1, 1>>, <<3, 3, 3>>>>}

\* Uniform differences take either branch of the script; other differences the second one.
SmallToolInputs ==
    {<<<<1, 1>>, <<2, 2>>>>, <<<<1, 1>>, <<3, 3>>>>, <<<<1, 1>>, <<2, 3>>>>}

SmallManaged == {<<<<1, 1>>, <<2, 2>>>>}
SmallFractions == {<<1, 2>>, <<1, 3>>}

\* The bounds avoid the mid point and the last point of a dimension.
Lines(ref) ==
    IF ref < 2 THEN {<<0>>} ELSE IF ref = 2 THEN {<<0, 1>>, <<0, 3>>}
    ELSE {<<0, Pow2(ref - 1) - 1, Pow2(ref) - 2>>, <<0, Pow2(ref - 1) + 1>>}
SmallDecompositions(lmax) ==
    {dec \in [DOMAIN lmax -> UNION {Lines(lmax[d]) : d \in DOMAIN lmax}] :
        \A d \in DOMAIN lmax : dec[d] \in Lines(lmax[d])}

=============================================================================
