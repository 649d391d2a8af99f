------------------------- MODULE MCFieldDescription -------------------------
(* Comments for FieldDescription: every io spec combination with a plain *)
(* word of units, every trick_units text of up to four characters over    *)
(* the brackets and one unit letter, and every stand-alone units text of   *)
(* up to three characters, each with io left alone or set to **.          *)
EXTENDS FieldDescription

UChars == {"(", ")", "{", "}", "m"}

Base == [empty |-> FALSE, chk |-> "", tio |-> "", hasTu |-> FALSE, tu |-> <<>>,
         star |-> "", lead |-> [form |-> "none", text |-> <<>>], rest |-> <<"*", "/">>]

Word(w) == [form |-> "word", text |-> w]

\* io_map keys, and a key it lacks
MCSpecs == {"", "o", "i", "io", "**", "--", "q"}

IoComments ==
    {[Base EXCEPT !.chk = k, !.tio = t, !.star = s, !.lead = Word(w)] :
        k \in MCSpecs, t \in MCSpecs, s \in {"", "*i", "**"}, w \in {<<"m">>, <<"M">>, <<"x">>}}

TuComments ==
    {[Base EXCEPT !.hasTu = TRUE, !.tu = s, !.tio = t] : s \in BoundedSeq(UChars, 4), t \in {"", "**"}}

\* a word stops at ")" and one beginning with "(" is the paren form
LeadComments ==
    {[Base EXCEPT !.lead = [form |-> f, text |-> s], !.tio = t] :
        f \in {"paren", "word"}, s \in BoundedSeq(UChars, 3), t \in {"", "**"}}

\* C comments " text */" whose text has up to three characters, blanks and
\* characters the escape loop rewrites among them, and four-character texts
\* with two blanks or escapes between words
DescComments ==
    {[Base EXCEPT !.rest = <<" ">> \o t \o <<"*", "/">>] :
        t \in BoundedSeq({"a", " ", "\\", "\""}, 3) \cup {<<"a", x, y, "a">> : x, y \in {" ", "\\"}}}

\* a C++ comment "// a", and a C comment whose text follows the units
\* with no blank, "/* (m)a */"
LostComments ==
    {[Base EXCEPT !.rest = <<" ", "a">>], [Base EXCEPT !.rest = <<"a", " ", "*", "/">>]}

MCComments ==
    {[Base EXCEPT !.empty = TRUE]} \cup IoComments \cup TuComments
    \cup DescComments
    \cup {c \in LeadComments : c.lead.form = "word" =>
             (\A i \in 1..Len(c.lead.text) : c.lead.text[i] # ")") /\ (c.lead.text # <<>> => c.lead.text[1] # "(")}

\* the io specs alone; the empty comment alone
MCIoComments == {[Base EXCEPT !.empty = TRUE]} \cup IoComments
MCEmptyComment == {[Base EXCEPT !.empty = TRUE]}

\* the two comments that lose their description, beside a kept one
MCDescComments == MCEmptyComment \cup {Base} \cup LostComments

\* "m" and "m(m)" are units; "M" is an old Trick name for "m"
MCUdunits == {<<"m">>, <<"m", "(", "m", ")">>}

MCMapUnits(u) == IF u = <<"M">> THEN <<"m">> ELSE u
====
