---------------------------- MODULE MCTrkExport ----------------------------
(* Model-checking values for TrkExport.                                   *)
EXTENDS TrkExport

CONSTANTS p1, p2

\* The requested DP parameters; the time parameter is requested too.
MCParamLists == {<<p1, TimeName, p2>>, <<TimeName>>}

\* Every strictly increasing time column over ticks -1..4: curves that start
\* before 0, after 0, at 0, regular or not, with 0..5 rows and frequencies
\* 1..4, so curves of different frequencies and stop times meet.
MCTicks == -1..4
SmallSeries == {Ascending(S) : S \in SUBSET MCTicks}

\* Columns whose span agrees with (rc-1)*t[1] but whose samples are not
\* multiples of t[1]; with a regular column of frequency 1 beside them.
IrregularSeries == {<<0, 3, 4, 5, 12>>, <<0, 3, 6, 9, 12>>, <<0, 1, 2>>}

\* A curve much shorter than the other: it is exhausted two timestamps early.
ShortSeries == {<<0, 1, 2, 3, 4>>, <<0, 2>>}

\* The tail of the last page of a mapping reads as zeros.
ZeroTail == {0}
=============================================================================
