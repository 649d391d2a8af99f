------------------------------ MODULE MCDp2Csv ------------------------------
(* Model-checking values for Dp2Csv.                                      *)
EXTENDS Dp2Csv

\* One to three DP files, each with zero to two tables.
MCDPChoices == UNION {[1..n -> 0..2] : n \in 1..3}

\* Nothing exists yet, the -dp2csv path exists, or an indexed name exists.
MCExistingChoices == {{}, {CsvOut}, {Indexed(1, 0)}}
=============================================================================
