----------------------------- MODULE RunSelect ------------------------------
(***************************************************************************)
(* runsSubset (src/koviz/main.cpp): the RUN directories -beginRun and      *)
(* -endRun keep.  A run name is [path, num]: path says a directory comes  *)
(* before RUN_, num is the number after RUN_ (-1: not a number).  Shared  *)
(* by MonteInput and KovizMain.                                            *)
(***************************************************************************)
EXTENDS Integers, Sequences

Run(path, num) == [path |-> path, num |-> num]

\* run.mid(4).toInt(&ok): the number after RUN_ for a bare RUN_<n> name
IdOf(r) == [ok |-> ~r.path /\ r.num >= 0, id |-> IF ~r.path /\ r.num >= 0 THEN r.num ELSE 0]

\* Mutant of InRange: -beginRun is exclusive.
InRangeExclusive(r, b, e) == ~IdOf(r).ok \/ (IdOf(r).id > b /\ IdOf(r).id <= e)

\* a run is kept unless its number parses and lies outside [b, e]
InRange(r, b, e) == ~IdOf(r).ok \/ (IdOf(r).id >= b /\ IdOf(r).id <= e)

\* the subset, in the order given; main aborts when it is empty
RunsSubset(list, b, e) == SelectSeq(list, LAMBDA r : InRange(r, b, e))
====
