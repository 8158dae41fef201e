---------------------------- MODULE MCProcessManager ----------------------------
(***************************************************************************)
(* Instances of ProcessManager for TLC.                                    *)
(***************************************************************************)
EXTENDS ProcessManager

CONSTANTS t1, t2, t3, remote

TwoTasks == {t1, t2}
ThreeTasks == {t1, t2, t3}

\* The remote system has the subspaces of t1, and some of its own.
SharedSpaces == {t1, remote}

\* The protocol may use every command.
Protocol == INSTANCE ProcessGroup WITH Used <- {}
AllSignals == Protocol!Signals

\* One system: the time loop with rescheduling and evaluation.
LocalLoop == {"runfirst", "runnext", "combine", "reschedule", "parallelEval", "exit"}

\* The methods that return while groups are at work: those that only command,
\* and combineThirdLevelFileBased, which waits for the third level group alone.
ReturnEarly == {"runfirst", "runnext", "combine", "getLpNorms", "interpolateValues",
                "writeInterpolatedValuesSingleFile", "writeInterpolatedValuesPerGrid",
                "writeSparseGridMinMaxCoefficients", "combineThirdLevelFileBased"}

\* Two systems, exchanging data through the managers or through files.
ThirdLevelLoop == {"runfirst", "runnext", "combineThirdLevel",
                   "unifySubspaceSizesThirdLevel", "unifyExtraSparseGrid",
                   "combineThirdLevelFileBasedWrite",
                   "combineThirdLevelFileBasedReadReduce", "reschedule",
                   "updateCombiParameters", "writeDSGsToDisk", "exit"}

\* The time loop of one system, with methods that leave groups at work in between.
LocalAndEarly == LocalLoop \cup ReturnEarly
=============================================================================
