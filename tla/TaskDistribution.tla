-------------------------- MODULE TaskDistribution --------------------------
(***************************************************************************)
(* The way of a combination scheme from its parameters to the process      *)
(* groups.  A scheme is constructed by one of the two constructions of     *)
(* CombiMinMaxScheme or by the script that writes scheme files, may get    *)
(* the extra grids for faults, may be split between two systems, and its   *)
(* grids are distributed over the groups, statically (workers only) or by  *)
(* the manager, which then measures how long the tasks take, keeps the     *)
(* durations in a load model and moves tasks between groups.               *)
(*                                                                         *)
(* Tasks are the positions of their grids in the scheme, from 1; process   *)
(* groups count from 0.                                                    *)
(***************************************************************************)
EXTENDS CombiScheme

CONSTANTS
    Inputs,         \* pairs <<lmin, lmax>> given to the two constructions
    ToolInputs,     \* pairs <<lmin, lmax>> given to the script
    ManagedInputs,  \* pairs whose tasks are run under the manager
    Fractions,      \* fractions of system 0, as <<numerator, denominator>>
    GroupCounts,    \* numbers of process groups
    Decompositions(_),  \* the decompositions tried for a reference level
    Durations,      \* the durations measured
    LastN,          \* lastN_ of AverageOfLastNLoadModel
    WriteEvery,     \* writeEveryNCombis_ of AveragingLoadModel
    MaxRuns,        \* bound on the measurements
    MaxIterations,  \* max_iterations_ of the rescheduler
    MinInbalance    \* min_inbalance_, rounded up: it is compared with an integer quotient

\* A task takes some time, and something is kept in memory (the code writes every 50 durations).
ASSUME DurationsAssumption == Durations \subseteq Nat \ {0} /\ WriteEvery \in Nat \ {0}

ASSUME CountsAssumption == GroupCounts \subseteq Nat \ {0} /\ MaxIterations \in Nat

\* The constructions list their grids, and the grids added for faults have the coefficient 0.
ASSUME InputsAssumption ==
    \A i \in Inputs :
        \A s \in {createClassicalCombischeme(i[1], i[2]), createAdaptiveCombischeme(i[1], i[2])} :
            /\ s.spaces \in Seq(Seq(Nat))
            /\ makeFaultTolerant(s) # s => 0 \in Range(makeFaultTolerant(s).coeffs)

VARIABLES
    phase,      \* new, scripting, created, split, assigned, running, restarted
    scheme,     \* the scheme, or what the script knows of lmin and lmax
    dict,       \* dictOfScheme of the script
    counts,     \* dictOfSubspaces of the script
    systems,    \* the schemes of the systems
    assigned,   \* [system, group -> tasks]
    numGroups,
    owner,      \* the group of every task under the manager
    last,       \* levelVectorToLastTaskDuration_
    history,    \* levelVectorToLastNDurations_
    average,    \* AveragingLoadModel: durationsOfLevels_, the files, last_durations_avg_
    received    \* all durations received, for the properties

vars == <<phase, scheme, dict, counts, systems, assigned, numGroups, owner, last, history, average, received>>
tool == <<dict, counts>>
measured == <<owner, last, history, average, received>>

Groups == 0..(numGroups - 1)
Tasks == DOMAIN scheme.spaces
Bdry(lmax) == [d \in DOMAIN lmax |-> 2]

-----------------------------------------------------------------------------
(* The constructions *)

Created(s) ==
    /\ phase = "new" /\ phase' = "created"
    /\ scheme' = s /\ systems' = <<s>>
    /\ UNCHANGED <<tool, assigned, numGroups, measured>>

CreateClassical == \E i \in Inputs : Created(createClassicalCombischeme(i[1], i[2]))
CreateAdaptive == \E i \in Inputs : Created(createAdaptiveCombischeme(i[1], i[2]))

MakeFaultTolerant ==
    /\ phase = "created" /\ scheme.groups = <<>> /\ 0 \notin Range(scheme.coeffs)
    /\ scheme' = makeFaultTolerant(scheme) /\ scheme' # scheme /\ systems' = <<scheme'>>
    /\ UNCHANGED <<phase, tool, assigned, numGroups, measured>>

\* Level vectors from 0, as in the script.
BoxFromZero(l) == {k \in [DOMAIN l -> 0..Max(Range(l))] : AllLE(k, l)}

ActiveSet(lmin, lmax) ==
    {l \in BoxFromZero(lmax) : AllLE(lmin, l) /\ levelSum(l) = levelSum(getFurthestCorner(lmax, lmin))}

\* The script asks for uniform differences, but tests a non-empty list, which is always true.
UsesBinomials(lmin, lmax) == lmax[1] - lmin[1] >= Len(lmin)

BinomialDict(lmin, lmax) ==
    LET top == levelSum(lmin) + lmax[1] - lmin[1]
        grids == {l \in BoxFromZero(lmax) : AllLE(lmin, l) /\ top - levelSum(l) \in 0..(Len(lmin) - 1)}
    IN  [l \in grids |-> Sign(top - levelSum(l)) * choose(Len(lmin) - 1, top - levelSum(l))]

StartScript == \E i \in ToolInputs :
    LET active == ActiveSet(i[1], i[2])
        covered == UNION {BoxFromZero(l) : l \in active}
    IN  /\ phase = "new" /\ phase' = "scripting"
        /\ scheme' = [lmin |-> i[1], lmax |-> i[2]]
        /\ IF UsesBinomials(i[1], i[2])
           THEN dict' = BinomialDict(i[1], i[2]) /\ counts' = <<>>
           ELSE /\ dict' = [l \in active |-> 1]
                /\ counts' = [s \in covered |-> Cardinality({l \in active : AllLE(s, l)})]
        /\ UNCHANGED <<systems, assigned, numGroups, measured>>

\* The coefficient of s after the correction; a grid with coefficient 0 is deleted.
Corrected(d, s, diff) ==
    IF s \notin DOMAIN d THEN d @@ (s :> -diff)
    ELSE IF d[s] = diff THEN [l \in DOMAIN d \ {s} |-> d[l]]
    ELSE [d EXCEPT ![s] = @ - diff]

\* The dictionary's order is that of a Python set: any subspace may be the next.
CorrectSubspace == \E s \in DOMAIN counts :
    /\ phase = "scripting" /\ counts[s] # 1
    /\ dict' = Corrected(dict, s, counts[s] - 1)
    /\ counts' = [l \in DOMAIN counts |-> IF AllLE(l, s) THEN counts[l] - (counts[s] - 1) ELSE counts[l]]
    /\ UNCHANGED <<phase, scheme, systems, assigned, numGroups, measured>>

\* The components of the file: by group, each group's by level sum; sums in order of appearance.
SchemeFile(groups) ==
    LET keys == SelectSeq(LevelBox(scheme.lmax), LAMBDA l : l \in DOMAIN dict)
        sizeRank(k) == Min({j \in DOMAIN keys : levelSum(keys[j]) = levelSum(keys[k])})
        Before(j, k) == sizeRank(j) < sizeRank(k) \/ (sizeRank(j) = sizeRank(k) /\ j < k)
        position == [k \in DOMAIN keys |-> Cardinality({j \in DOMAIN keys : Before(j, k)})]
        byGroup == FlattenSeq([g \in 1..groups |->
                       LET OfGroup(k) == position[k] % groups = g - 1
                           own == SelectSeq([k \in DOMAIN keys |-> k], OfGroup)
                       IN  [j \in DOMAIN own |-> CHOOSE k \in Range(own) :
                                Cardinality({m \in Range(own) : position[m] < position[k]}) = j - 1]])
    IN  [j \in DOMAIN byGroup |->
            [coeff |-> dict[keys[byGroup[j]]], level |-> keys[byGroup[j]], group_no |-> position[byGroup[j]] % groups]]

\* CombiMinMaxSchemeFromFile asserts the range of the levels and that there is a grid.
FromFile(file, lmin, lmax) ==
    [lmin |-> lmin, lmax |-> lmax, n |-> 0, levels |-> <<>>,
     spaces |-> [j \in DOMAIN file |-> file[j].level], coeffs |-> [j \in DOMAIN file |-> file[j].coeff],
     groups |-> [j \in DOMAIN file |-> file[j].group_no]]

WriteAndReadFile == \E g \in GroupCounts :
    LET s == FromFile(SchemeFile(g), scheme.lmin, scheme.lmax)
    IN  /\ phase = "scripting" /\ phase' = "created"
        /\ Range(counts) \subseteq {1}
        /\ s.spaces # <<>> /\ \A j \in DOMAIN s.spaces : AllLE(s.lmin, s.spaces[j]) /\ AllLE(s.spaces[j], s.lmax)
        /\ scheme' = s /\ systems' = <<s>> /\ numGroups' = g
        /\ UNCHANGED <<tool, assigned, measured>>

-----------------------------------------------------------------------------
(* Distribution *)

SplitSystems == \E f \in Fractions :
    LET Part(i) == createThirdLevelScheme(scheme, i, 2, f[1], f[2])
    IN  /\ phase = "created" /\ scheme.groups = <<>> /\ scheme.spaces # <<>> /\ 0 \notin Range(scheme.coeffs)
        /\ Part(0).spaces # <<>> /\ Part(1).spaces # <<>>    \* asserted by decomposeScheme
        /\ phase' = "split" /\ systems' = <<Part(0), Part(1)>>
        /\ UNCHANGED <<scheme, tool, assigned, numGroups, measured>>

\* Every group calls Levels(system, group) for itself.
Assign(Levels(_, _), groups) ==
    /\ phase' = "assigned" /\ numGroups' = groups
    /\ assigned' = [i \in DOMAIN systems |-> [g \in 0..(groups - 1) |-> Levels(systems[i], g)]]
    /\ UNCHANGED <<scheme, tool, systems, measured>>

EnoughTasks(groups) == \A i \in DOMAIN systems : Len(systems[i].spaces) >= groups

AssignRoundRobin == \E p \in GroupCounts :
    /\ phase \in {"created", "split"} /\ EnoughTasks(p)
    /\ Assign(LAMBDA s, g : getRoundRobinLevels(s, g, p), p)

AssignLoadBalanced == \E p \in GroupCounts : \E laterFirst \in BOOLEAN :
    /\ phase \in {"created", "split"} /\ EnoughTasks(p)
    /\ Assign(LAMBDA s, g : getLoadBalancedLevels(s, g, p, Bdry(s.lmax), laterFirst), p)

\* getAssignedLevels asserts that some task belongs to group 0.
AssignFromFile ==
    /\ phase = "created" /\ scheme.groups # <<>> /\ 0 \in Range(scheme.groups)
    /\ Assign(getAssignedLevels, numGroups)

\* The manager hands out the tasks one by one to groups that wait, so any group may get any task.
RunUnderManager == \E p \in GroupCounts :
    /\ phase = "created" /\ <<scheme.lmin, scheme.lmax>> \in ManagedInputs /\ scheme.groups = <<>>
    /\ 0 \notin Range(scheme.coeffs) /\ Len(scheme.spaces) >= p
    /\ phase' = "running" /\ numGroups' = p
    /\ \E f \in [Tasks -> 0..(p - 1)] : owner' = f
    /\ last' = [t \in Tasks |-> 0]
    /\ history' = [t \in Tasks |-> <<>>]
    /\ average' = [t \in Tasks |-> [deque |-> <<>>, file |-> <<>>, lastAvg |-> 0]]
    /\ received' = [t \in Tasks |-> <<>>]
    /\ UNCHANGED <<scheme, tool, systems, assigned>>

-----------------------------------------------------------------------------
(* Load models *)

\* AverageOfLastNLoadModel
addToHistory(h, d) == (IF Len(h) >= LastN THEN Tail(h) ELSE h) \o <<d>>
evalSpecificUOT(t) == SumOfSeq(history[t]) \div Len(history[t])

\* Mutant: the entries written are all removed from memory, whatever their number.
addDurationInformationClearing(a, d) ==
    LET all == Append(a.deque, d)
    IN  IF Len(all) > WriteEvery
        THEN [a EXCEPT !.deque = <<>>, !.file = @ \o SubSeq(all, 1, WriteEvery)]
        ELSE [a EXCEPT !.deque = all]

\* AveragingLoadModel: beyond WriteEvery entries the oldest WriteEvery go to the file.
addDurationInformation(a, d) ==
    LET all == Append(a.deque, d)
    IN  IF Len(all) > WriteEvery
        THEN [a EXCEPT !.deque = SubSeq(all, WriteEvery + 1, Len(all)),
                       !.file = @ \o SubSeq(all, 1, WriteEvery)]
        ELSE [a EXCEPT !.deque = all]

\* The destructor writes what is left; the constructor of the next run averages the file.
Reloaded(a) ==
    LET file == a.file \o a.deque
    IN  [deque |-> <<>>, file |-> file, lastAvg |-> IF file = <<>> THEN 0 ELSE SumOfSeq(file) \div Len(file)]

LinearLoad(l) == Pow2(levelSum(l))

AveragingLoad(t) ==
    IF average[t].deque # <<>> THEN SumOfSeq(average[t].deque) \div Len(average[t].deque)
    ELSE IF average[t].lastAvg # 0 THEN average[t].lastAvg
    ELSE LinearLoad(scheme.spaces[t])

-----------------------------------------------------------------------------
(* Rescheduling *)

GroupDurations(place) ==
    [g \in Range(place) |-> MapThenSumSet(LAMBDA t : last[t], {t \in Tasks : place[t] = g})]

\* The average is taken over the tasks: numberOfProcessGroups is the size of the map of the tasks.
AverageDuration == SumOfSeq(last) \div Len(last)

\* minmax_element: the first of the smallest, the last of the largest.
FastestGroup(load) == Min({g \in DOMAIN load : load[g] = Min(Range(load))})
SlowestGroup(load) == Max({g \in DOMAIN load : load[g] = Max(Range(load))})

\* Mutant: moves without asking whether the fastest group then becomes the slowest.
WorthMovingAlways(fast, prognosis, slow) == TRUE

WorthMoving(fast, prognosis, slow) == fast + prognosis < slow

\* The task of the slowest group that brings the fastest one nearest to the average.
TaskToMove(place, load) ==
    LET slowest == {t \in Tasks : place[t] = SlowestGroup(load)}
        Distance(t) == LET x == load[FastestGroup(load)] + evalSpecificUOT(t) - AverageDuration
                       IN  IF x < 0 THEN -x ELSE x
    IN  Min({t \in slowest : \A u \in slowest : Distance(t) <= Distance(u)})

\* An iteration of the rescheduler's loop.  A task that moved before is moved in the result only,
\* not in the copy the loop works on.
NextMove(s) ==
    LET load == GroupDurations(s.place)
        t == TaskToMove(s.place, load)
        earlier == {i \in DOMAIN s.moves : s.moves[i][1] = t}
        fast == FastestGroup(load)
        slow == SlowestGroup(load)
    IN  IF s.stop \/ load[slow] \div AverageDuration < MinInbalance
                \/ ~WorthMoving(load[fast], evalSpecificUOT(t), load[slow])
        THEN [s EXCEPT !.stop = TRUE]
        ELSE IF earlier # {}
        THEN [s EXCEPT !.moves = [i \in DOMAIN @ |-> IF i \in earlier THEN <<t, fast>> ELSE @[i]]]
        ELSE [s EXCEPT !.place[t] = fast, !.moves = Append(@, <<t, fast>>)]

\* RebalancingTaskRescheduler::eval: the moves.
Moves ==
    LET step[k \in 0..MaxIterations] ==
            IF k = 0 THEN [place |-> owner, moves |-> <<>>, stop |-> FALSE] ELSE NextMove(step[k - 1])
    IN  step[MaxIterations].moves

Measured == \A t \in Tasks : received[t] # <<>>

Measure ==
    /\ phase \in {"running", "restarted"} /\ Len(received[1]) < MaxRuns
    /\ \E d \in [Tasks -> Durations] :
        /\ last' = d
        /\ history' = [t \in Tasks |-> addToHistory(history[t], d[t])]
        /\ average' = [t \in Tasks |-> addDurationInformation(average[t], d[t])]
        /\ received' = [t \in Tasks |-> Append(received[t], d[t])]
    /\ UNCHANGED <<phase, scheme, tool, systems, assigned, numGroups, owner>>

\* ProcessManager::reschedule carries the moves out one after the other.
Reschedule ==
    /\ phase = "running" /\ Measured
    /\ LET moves == Moves
           target == [i \in DOMAIN moves |-> moves[i][1]]
       IN  owner' = [t \in Tasks |-> IF t \in Range(target)
                                     THEN moves[CHOOSE i \in DOMAIN moves : target[i] = t][2] ELSE owner[t]]
    /\ owner' # owner
    /\ UNCHANGED <<phase, scheme, tool, systems, assigned, numGroups, last, history, average, received>>

Restart ==
    /\ phase = "running" /\ Measured
    /\ phase' = "restarted"
    /\ average' = [t \in Tasks |-> Reloaded(average[t])]
    /\ UNCHANGED <<scheme, tool, systems, assigned, numGroups, owner, last, history, received>>

-----------------------------------------------------------------------------
Init ==
    /\ phase = "new" /\ scheme = <<>> /\ dict = <<>> /\ counts = <<>> /\ systems = <<>>
    /\ assigned = <<>> /\ numGroups = 0 /\ owner = <<>> /\ last = <<>> /\ history = <<>>
    /\ average = <<>> /\ received = <<>>

Next ==
    \/ CreateClassical \/ CreateAdaptive \/ MakeFaultTolerant
    \/ StartScript \/ CorrectSubspace \/ WriteAndReadFile
    \/ SplitSystems \/ AssignRoundRobin \/ AssignLoadBalanced \/ AssignFromFile
    \/ RunUnderManager \/ Measure \/ Reschedule \/ Restart

Spec == Init /\ [][Next]_vars

-----------------------------------------------------------------------------
(* Properties *)

Coefficient(s, l) == SumOfSeq([i \in DOMAIN s.spaces |-> IF s.spaces[i] = l THEN s.coeffs[i] ELSE 0])
Covered(s) == UNION {DownSet(s.spaces[i]) : i \in DOMAIN s.spaces}
UniformDifference(s) == Cardinality({s.lmax[d] - s.lmin[d] : d \in DOMAIN s.lmax}) = 1

\* The inclusion-exclusion principle of the combination technique: whichever way a scheme was
\* made, the grids that contain a hierarchical subspace have coefficients that sum up to one,
\* no grid is listed twice (if the
\* level differences are uniform), and (without dummy dimensions) the down set of the scheme holds the
\* subspaces of all grids, which are those of the grids with coefficient 1.
EachSubspaceOnce ==
    phase = "created" /\ scheme.spaces # <<>> =>
        /\ UniformDifference(scheme) => IsInjective(scheme.spaces)
        /\ \A l \in Covered(scheme) :
              SumOfSeq([i \in DOMAIN scheme.spaces |->
                  IF AllLE(l, scheme.spaces[i]) THEN scheme.coeffs[i] ELSE 0]) = 1
        /\ scheme.groups = <<>> /\ (\A d \in DOMAIN scheme.lmax : scheme.lmin[d] # scheme.lmax[d]) =>
              /\ Covered(scheme) \subseteq Range(scheme.levels)
              /\ createDownSet(scheme.spaces, scheme.coeffs) = Covered(scheme)

\* For a uniform difference of the levels the two constructions and the script make the same
\* scheme: the same grids with the same coefficients.
ConstructionsAgree ==
    phase = "created" /\ UniformDifference(scheme) /\ scheme.lmin # scheme.lmax =>
        \A other \in {createClassicalCombischeme(scheme.lmin, scheme.lmax),
                      createAdaptiveCombischeme(scheme.lmin, scheme.lmax)} :
            \A l \in Covered(scheme) \cup Covered(other) :
                Coefficient(scheme, l) = Coefficient(other, l)

\* The grids and coefficients a scheme is made of are right.
SchemeRight == EachSubspaceOnce /\ ConstructionsAgree

\* Every grid of every system's part is run by exactly one group, whichever of the three
\* functions the groups use to find their own tasks without talking to each other, and unless
\* the file says so no group is left without a task.
EveryTaskOneGroup ==
    phase = "assigned" =>
        \A i \in DOMAIN systems :
            /\ scheme.groups = <<>> => \A g \in Groups : assigned[i][g] # <<>>
            /\ \A t \in DOMAIN systems[i].spaces :
                Cardinality({p \in Groups \X DOMAIN systems[i].spaces :
                    p[2] \in DOMAIN assigned[i][p[1]] /\ assigned[i][p[1]][p[2]] = t}) = 1

\* The hierarchical level of index x of the reference grid; boundary points are on level 1.
LevelOfIndex(ref, x) == IF x = 0 \/ TrailingZeros(x) >= ref THEN 1 ELSE ref - TrailingZeros(x)

\* The points of the subspaces on partition p, dimension by dimension.
PointsOnPartition(levels, lmax, dec, p) ==
    LET v == getVectorIndex([d \in DOMAIN dec |-> Len(dec[d])], p)
        Upper(d) == IF v[d] + 1 = Len(dec[d]) THEN Pow2(lmax[d]) ELSE dec[d][v[d] + 2] - 1
        count == [d \in DOMAIN dec |-> [l \in 1..lmax[d] |->
            Cardinality({x \in dec[d][v[d] + 1]..Upper(d) : LevelOfIndex(lmax[d], x) = l})]]
    IN  SumOfSeq([i \in DOMAIN levels |-> SizeOf([d \in DOMAIN dec |-> count[d][levels[i][d]]])])

\* The sizes announced to the third level manager before anything is allocated are the numbers
\* of sparse grid points that will lie on every partition of the reference grid.
PartitionedSizesRight ==
    phase = "created" /\ scheme.levels # <<>> /\ scheme.spaces # <<>> =>
        \A dec \in Decompositions(scheme.lmax) :
            LET sizes == getPartitionedNumDOFSG(scheme.levels, scheme.lmax, dec)
            IN  /\ MapThenSumSet(LAMBDA p : sizes[p], DOMAIN sizes)
                        = getSGDegreesOfFreedomFromDownSet(scheme.levels)
                /\ \A p \in DOMAIN sizes :
                    sizes[p] = PointsOnPartition(scheme.levels, scheme.lmax, dec, p)

\* Moving tasks on the measured durations never makes the longest group longer and never
\* takes the last task of a group (the durations of the last run are the prognosis).
ReschedulingHelps ==
    [][ (phase = "running" /\ phase' = "running" /\ owner' # owner) =>
            /\ Range(owner) \subseteq Range(owner')
            /\ Max(Range(GroupDurations(owner'))) <= Max(Range(GroupDurations(owner))) ]_vars

\* No measured duration is lost by the load model that writes to files: the file and the memory
\* together hold all of them in order, the memory stays bounded, and after a restart the
\* expected load lies between the shortest and the longest duration there was.
DurationsKept ==
    \A t \in DOMAIN average :
        /\ average[t].file \o average[t].deque = received[t]
        /\ Len(average[t].deque) <= WriteEvery
        /\ phase = "restarted" =>
              AveragingLoad(t) \in Min(Range(received[t]))..Max(Range(received[t]))

=============================================================================
