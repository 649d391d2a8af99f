---------------------------- MODULE MCKovizMain -----------------------------
(* KovizMain for TLC.  Names are one character: "d" a DP file, "r" RUN_0, *)
(* "s" RUN_1, "p" a path ending in RUN_1, "m" a MONTE_ directory.        *)
EXTENDS KovizMain

\* a TLC string as the sequence of its characters
Chars(str) == [i \in 1..Len(str) |-> SubSeq(str, i, i)]

DP == [kind |-> "dp",    name |-> Chars("d"), run |-> Run(FALSE, -1)]
R0 == [kind |-> "run",   name |-> Chars("r"), run |-> Run(FALSE, 0)]
R1 == [kind |-> "run",   name |-> Chars("s"), run |-> Run(FALSE, 1)]
RP == [kind |-> "run",   name |-> Chars("p"), run |-> Run(TRUE, 1)]
MO == [kind |-> "monte", name |-> Chars("m"), run |-> Run(FALSE, -1)]

MCRunDps == {<<>>, <<DP>>, <<R0>>, <<DP, R0>>, <<DP, R0, R1>>, <<DP, RP>>,
             <<DP, MO>>, <<DP, MO, R1>>}

MCMapStrings == {Chars(x) : x \in {"a=b", "a=b=c", " a = b ,", "a=b,a=c", "a=b,b=a",
                                   ",", " ", "a", "a=", "=b", "a==b", "a=b, c"}}

MCMapFiles == {<<>>, <<Chars("a=b")>>, <<Chars("a=b,"), Chars("b=c")>>,
               <<Chars("a=b"), Chars("b=c")>>, <<Chars("a=b"), Chars("")>>}

MCShiftStrings == {Chars(x) : x \in {"", "1", "x", "r:1", "s:2", "r:x", "r:", ":1",
                                     "q:1", "r:1,s:2", "r:1:x", "1,2", "m:1"}}

MCTimeNames == {Chars(x) : x \in {"t", "t=u", " t = u"}}

MCMonteLists == {<<>>, <<Run(FALSE, 0)>>, <<Run(FALSE, 0), Run(FALSE, 1)>>}
====
