---------------------------- MODULE MCMonteInput ----------------------------
(* Inputs for MonteInput: a Monte directory with RUN_00000..RUN_00002 (or  *)
(* with RUN_00001 removed), run directories given on the command line, and *)
(* monte_runs files of both formats, whole and with each error the parsers *)
(* report.                                                                  *)
EXTENDS MonteInput

R(n) == Run(FALSE, n)

MCMonteDirs == {<<R(0), R(1), R(2)>>}
MCMissingDirs == {<<R(0), R(2)>>}

\* RUN_00000 RUN_00001 RUN_00002; RUN_00000 given as a path; RUN_a RUN_00001
MCRunArgs == {<<R(0), R(1), R(2)>>, <<Run(TRUE, 0), R(2)>>, <<R(-1), R(1)>>}
\* the same RUN_00001 of two Monte directories
MCDupArgs == {<<Run(TRUE, 1), Run(TRUE, 1)>>}

Row07(id, ok, n) == L("row", id, ok, n)
Head07 == <<L("numruns", 3, TRUE, 0), L("vars", 0, FALSE, 0), L("var", 0, FALSE, 1),
            L("hash", 0, FALSE, 0), L("var", 0, FALSE, 1), L("data", 0, FALSE, 0)>>
Good07 == Head07 \o <<Row07(0, TRUE, 2), Row07(1, TRUE, 2), Row07(2, TRUE, 2)>>
Bad07  == {Head07 \o <<Row07(0, TRUE, 2), Row07(1, FALSE, 2), Row07(2, TRUE, 2)>>, \* no '#'
           Head07 \o <<Row07(0, TRUE, 2), Row07(1, TRUE, 1), Row07(2, TRUE, 2)>>,  \* a value short
           <<L("numruns", 0, FALSE, 0)>> \o Tail(Good07),                   \* NUM_RUNS: x
           <<L("numruns", 3, TRUE, 0), L("data", 0, FALSE, 0)>>,             \* no VARS:
           SubSeq(Head07, 1, 5)}                                              \* no DATA:

Row17(id, n) == L("row", id, TRUE, n)
Good17 == <<L("head", 0, FALSE, 3), Row17(0, 3), Row17(1, 3), Row17(2, 3)>>
Bad17  == {<<L("head", 0, FALSE, 3), Row17(0, 3), Row17(2, 3)>>,            \* id gap
           <<L("head", 0, FALSE, 3), Row17(0, 3), Row17(1, 2), Row17(2, 3)>>, \* a value short
           <<>>}                                                            \* empty file

MCFiles == {Good07, Good17, NoFile} \cup Bad07 \cup Bad17
MCGoodFiles == {Good07, Good17}
MCRunIds == {0, 1, 2}
\* run ids on both sides of -endRun's default, 100000
MCBigRunIds == {1, 200000, 300000}
====
