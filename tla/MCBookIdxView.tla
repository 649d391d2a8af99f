---------------------------- MODULE MCBookIdxView ----------------------------
(* Inputs for BookIdxView: up to three curves with units m, s or "" (or no  *)
(* unit child), and legends of up to three labels under a normal font      *)
(* (lineSpacing 15, so v = 1) and a tiny one (lineSpacing 7, so v = 0).    *)
(* Viewports and plot math rects for the transform.                       *)
EXTENDS BookIdxView

MCMetrics == {[fw |-> 6, ls |-> 15, fh |-> 14], [fw |-> 3, ls |-> 7, fh |-> 7]}
\* a plot rect with a flipped y (height < 0), and a degenerate one
MCMathRects == {[x |-> 0, y |-> 6, w |-> 4, h |-> -6], [x |-> 2, y |-> 0, w |-> 0, h |-> 3]}

\* a curves view at (10, 10), 4 x 3, and views above, beside and across
\* from it: wider, the same size, and empty
MCViewRects ==
    {[gx |-> x, gy |-> y, w |-> w, h |-> h] :
        x \in {0, 10}, y \in {0, 10}, w \in {0, 2, 4}, h \in {3, 5}}

MCLabelSizes == {[w |-> 10, h |-> 14], [w |-> 40, h |-> 7]}
====
