------------------------------ MODULE MCConvert ------------------------------
(* Model-checking values for Convert.                                     *)
EXTENDS Convert

CONSTANTS v0, v1, bad

MCVals == {v0, v1}

\* Well-formed trk files of one or two columns and up to two rows, and one
\* whose data stops part-way through a row.
MCTrkChoices ==
    {TrkFile(1, s) : s \in UNION {[1..m -> MCVals] : m \in 0..2}}
    \cup {TrkFile(2, s) : s \in UNION {[1..m -> MCVals] : m \in {0, 2}}}
    \cup {TrkFile(2, <<v0>>)}

\* A regular csv, one with a short first row, one with a bad field, and an
\* empty one.
MCCsvChoices ==
    { CsvFile(2, <<<<v0, v1>>, <<v1, v0>>>>),
      CsvFile(2, <<<<v0>>, <<v1, v0>>>>),
      CsvFile(2, <<<<v0, bad>>>>),
      CsvFile(0, <<>>) }
=============================================================================
