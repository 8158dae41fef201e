--------------------- MODULE MCDistributedHierarchization ---------------------
(***************************************************************************)
(* Small grids in one and two dimensions, split evenly and unevenly, with  *)
(* zero, one and two boundary points per dimension and every basis.        *)
(***************************************************************************)
EXTENDS DistributedHierarchization

HatPeriodic == "HierarchicalHatPeriodic"
PeriodicBases == {"HierarchicalHatPeriodic", "FullWeightingPeriodic", "BiorthogonalPeriodic"}

\* Values without symmetries; a periodic basis has equal ends.
Noise(n) == 1024 * (((n * n * n + 7 * n * n + 3 * n + 5) % 23) - 9)
Values(g, basis) ==
    [i \in 0..(SizeOf(g.sizes) - 1) |->
        LET v == getVectorIndex(g.sizes, i)
        IN  Noise(sequentialIndex(g.sizes, [d \in DOMAIN v |->
                IF basis[d] \in PeriodicBases THEN v[d] % Pow2(g.level[d]) ELSE v[d]]))]

Run(g, basis, lmin, program) ==
    [grid |-> g, target |-> g, basis |-> basis, lmin |-> lmin, program |-> program,
     values |-> Values(g, basis), gene |-> None, M |-> 16, coords |-> {}, stepsPerUnit |-> 64]

Line(level, bdry, decomposition) == Grid(<<level>>, <<bdry>>, <<Len(decomposition)>>, <<decomposition>>)
Plane(level, bdry, procs) ==
    Grid(level, bdry, procs,
         getDefaultDecomposition([d \in 1..2 |-> getNumDofNodal(level[d], bdry[d])], procs, bdry[1] # 1))

ThereAndBack == <<"hierarchize", "dehierarchize">>

Lines(bdry) ==
    CASE bdry = 0 -> {Line(3, 0, <<0, 3>>), Line(3, 0, <<0, 1, 4>>), Line(2, 0, <<0, 1, 2>>)}
      [] bdry = 1 -> {Line(3, 1, <<0, 4>>), Line(3, 1, <<0, 3, 6>>), Line(3, 1, <<0, 1, 5>>), Line(1, 1, <<0, 1>>)}
      [] bdry = 2 -> {Line(3, 2, <<0, 5>>), Line(3, 2, <<0, 2, 7>>), Line(2, 2, <<0, 1, 3>>)}

Transforms ==
    {Run(g, <<"HierarchicalHat">>, <<0>>, ThereAndBack) : g \in Lines(0)}
    \cup {Run(g, <<b>>, <<n>>, ThereAndBack) : g \in Lines(1), b \in PeriodicBases, n \in {0, 1}}
    \cup {Run(g, <<b>>, <<n>>, ThereAndBack) :
             g \in Lines(2), b \in PeriodicBases \cup {"HierarchicalHat", "FullWeighting"}, n \in {0, 1}}
    \cup {Run(Line(4, 1, <<0, 3, 8, 13>>), <<b>>, <<n>>, ThereAndBack) : b \in PeriodicBases, n \in {0, 2}}
    \cup {Run(Line(4, 2, <<0, 6, 7, 12>>), <<b>>, <<n>>, ThereAndBack) : b \in {"HierarchicalHat", "BiorthogonalPeriodic"}, n \in {0, 2}}
    \cup {Run(Line(4, 0, <<0, 2, 3, 9>>), <<"HierarchicalHat">>, <<0>>, ThereAndBack)}
    \cup {Run(Plane(<<2, 2>>, <<1, 1>>, procs), bs, <<0, 1>>, ThereAndBack) :
             procs \in {<<2, 1>>, <<1, 2>>, <<2, 2>>},
             bs \in {<<"HierarchicalHatPeriodic", "BiorthogonalPeriodic">>,
                     <<"FullWeightingPeriodic", "FullWeightingPeriodic">>}}
    \cup {Run(Plane(<<2, 1>>, <<2, 2>>, <<2, 2>>), <<"HierarchicalHat", "HierarchicalHat">>, <<0, 0>>, ThereAndBack)}

\* Grids cut from one decomposition, as downsampleDecomposition does for the grids of a scheme.
Cut(reference, level) ==
    Grid(level, reference.bdry, reference.procs,
         downsampleDecomposition(reference.decomposition, reference.level, level, reference.bdry))
Combined(reference, from, to, basis) ==
    LET g == Cut(reference, from)
    IN  [Run(g, basis, [d \in DOMAIN from |-> 0], <<"hierarchize", "combine", "dehierarchize">>)
            EXCEPT !.target = Cut(reference, to)]

Combinations ==
    {Combined(Line(3, b, <<0, 3>>), <<x[1]>>, <<x[2]>>, <<"HierarchicalHat">>) :
        b \in {0, 2}, x \in {<<2, 3>>, <<3, 2>>}}
    \cup {Combined(Line(3, 1, d), <<x[1]>>, <<x[2]>>, <<"HierarchicalHatPeriodic">>) :
        d \in {<<0, 3>>, <<0, 2, 6>>}, x \in {<<2, 3>>, <<3, 2>>}}
    \cup {Combined(Plane(<<2, 2>>, <<1, 1>>, procs), <<1, 2>>, <<2, 1>>, <<HatPeriodic, HatPeriodic>>) :
        procs \in {<<2, 1>>, <<1, 2>>, <<2, 2>>}}

Evaluations ==
    {[Run(g, <<"HierarchicalHat">>, <<0>>, <<"evaluate">>) EXCEPT !.coords = {<<c>> : c \in 0..16}] :
        g \in Lines(0) \cup Lines(2)}
    \cup {[Run(g, <<"HierarchicalHatPeriodic">>, <<0>>, <<"evaluate">>) EXCEPT !.coords = {<<c>> : c \in 0..15}] :
        g \in Lines(1)}
    \cup {[Run(Plane(<<2, 1>>, <<1, 2>>, <<2, 2>>), <<"HierarchicalHat", "HierarchicalHat">>, <<0, 0>>, <<"evaluate">>)
            EXCEPT !.coords = {<<c, e>> : c \in {0, 1, 6, 13, 15}, e \in {0, 5, 8, 16}}]}

Exchanges ==
    {Run(Plane(<<2, 2>>, <<1, 1>>, procs), <<"HierarchicalHatPeriodic", "HierarchicalHatPeriodic">>, <<0, 0>>, program) :
        procs \in {<<2, 2>>, <<1, 3>>, <<4, 1>>}, program \in {<<"advect">>, <<"gather">>}}
    \cup {Run(Plane(<<2, 2>>, <<2, 2>>, procs), <<"HierarchicalHat", "HierarchicalHat">>, <<0, 0>>, <<"mirror">>) :
        procs \in {<<2, 2>>, <<3, 1>>}}

\* Grids to be gathered and added to a serial grid of the same or of other levels.
Gathers ==
    {[Run(Plane(<<2, 2>>, b, <<2, 2>>), <<"HierarchicalHat", "HierarchicalHat">>, <<0, 0>>, <<"gather">>)
        EXCEPT !.target = Plane(level, b, <<1, 1>>)] :
        b \in {<<0, 0>>, <<2, 2>>, <<1, 2>>}, level \in {<<2, 2>>, <<1, 3>>, <<3, 2>>}}

\* A GENE task: x, y, z, v, w.  GENE's values are zero at the first point in x and for the highest mode.
GeneGrid(level, linear, procs) ==
    LET bdry == <<2, IF linear THEN 0 ELSE 2, 2, 2, 2>>
    IN  Grid(level, bdry, procs,
             getDefaultDecomposition([d \in 1..5 |-> getNumDofNodal(level[d], bdry[d])], procs, FALSE))
GeneSettings(level, linear, global, included) ==
    LET sizes == [d \in 1..5 |-> IF d = 2 /\ linear THEN 1 ELSE Pow2(level[d])]
    IN  [linear |-> linear, global |-> global, geneXBoundariesIncluded |-> included,
         phase |-> [x \in 0..Pow2(level[1]) |-> (x % 3) - 1], sizes |-> sizes,
         data |-> [v \in Box(sizes) |->
                      IF v[1] = 0 \/ (~global /\ 2 * v[1] = sizes[1]) THEN 0
                      ELSE Noise(sequentialIndex(sizes, v))]]
GeneRun(level, linear, global, included, procs, program) ==
    LET g == GeneGrid(level, linear, procs)
    IN  [Run(g, [d \in 1..5 |-> "HierarchicalHat"], [d \in 1..5 |-> 0], program)
            EXCEPT !.gene = GeneSettings(level, linear, global, included)]

\* A combination between two phases of GENE; a gathered grid; a task without further use of its grid.
Coupled == <<"writeLocalCheckpoint", "initDFG", "setDFG", "hierarchize", "dehierarchize", "getDFG">>
ShortSaved == <<"writeLocalCheckpoint", "initDFG2", "setDFG">>
Saved == <<"writeLocalCheckpoint", "initDFG", "setDFG", "gather">>
\* The task is created anew in another group and gets its values from the full grid.
Moved == <<"writeLocalCheckpoint", "initDFG2", "setDFG", "InitLocalCheckpoint", "getDFG", "initDFG", "setDFG">>

GeneTasks ==
    {GeneRun(<<2, 1, 1, 1, 1>>, TRUE, FALSE, FALSE, procs, Coupled) :
        procs \in {<<1, 1, 1, 1, 1>>, <<1, 1, 2, 1, 1>>, <<1, 1, 1, 2, 1>>}}
    \cup {GeneRun(<<2, 1, 2, 1, 1>>, TRUE, FALSE, included, procs, program) :
        included \in BOOLEAN, program \in {Saved, Moved},
        procs \in {<<1, 1, 1, 1, 1>>, <<1, 1, 2, 1, 1>>}}
    \cup {GeneRun(<<2, 1, 2, 1, 1>>, TRUE, FALSE, FALSE, <<1, 1, 3, 1, 1>>, Saved)}
    \cup {GeneRun(<<2, 1, 1, 1, 1>>, linear, TRUE, FALSE, procs, ShortSaved) :
        linear \in BOOLEAN, procs \in {<<1, 1, 1, 1, 2>>, <<1, 1, 2, 2, 1>>}}
    \cup {GeneRun(<<2, 1, 1, 1, 1>>, FALSE, TRUE, FALSE, <<2, 1, 2, 1, 1>>, ShortSaved)}

SmallSetups == Transforms \cup Combinations \cup Evaluations \cup Exchanges \cup Gathers \cup GeneTasks

=============================================================================
