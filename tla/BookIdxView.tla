----------------------------- MODULE BookIdxView -----------------------------
(***************************************************************************)
(* Two routines of BookIdxView (src/libkoviz/bookidxview.cpp), each one    *)
(* loop step at a time:                                                    *)
(*   _curvesXUnit / _curvesUnit  fold the units of a plot's curves into the *)
(*                               unit its axis shows;                      *)
(*   _paintCurvesLegend          lays out the legend box and its entries   *)
(*                               (integer QRect arithmetic);               *)
(*   _coordToPixelTransform      maps math coordinates to the pixels of a  *)
(*                               view through _mathRect, which offsets the *)
(*                               plot's math rect for a view beside the    *)
(*                               curves view (exact rationals for the      *)
(*                               doubles; a division by zero is non-finite).*)
(* A behaviour is one call (call).  A curve is the unit child of the axis  *)
(* asked for, [has, u]; x and y are looked up alike.  A label is the size  *)
(* of its bounding rectangle, [w, h]; font metrics are [fw, ls, fh]        *)
(* (averageCharWidth, lineSpacing, height).  What is drawn (lines,         *)
(* symbols, text, colours) is left out; the rectangles are kept.           *)
(***************************************************************************)
EXTENDS Integers, Sequences, SequencesExt

CONSTANTS
    Units,       \* unit strings a curve can carry ("" included)
    MaxCurves,   \* bound on the curves of a plot
    Metrics,     \* font metrics the painter can have
    LabelSizes,  \* bounding rectangles of legend labels
    MaxLabels,   \* bound on the legend entries
    RRight,      \* R.right() of the plot rectangle; R.top() is 0
    MathRects,   \* plot math rects [x, y, w, h], integers
    ViewRects    \* viewports [gx, gy, w, h]: global top left and size

NoCurveUnit == [has |-> FALSE, u |-> ""]
CurveUnits == {NoCurveUnit} \cup [has : {TRUE}, u : Units]
Rect(l, t, w, h) == [l |-> l, t |-> t, w |-> w, h |-> h]
NoRect == Rect(0, 0, 0, 0)

VARIABLES
    call, pc,
    axis, hasCurves, curves, ui, result,           \* the unit fold
    show, same, pres, metrics, labels, li, box, lastBB, drawn, \* the legend
    plotM, viewW, viewV, hasCurvesView, xform      \* the transform

unitVars   == <<axis, hasCurves, curves, ui, result>>
legendVars == <<show, same, pres, metrics, labels, li, box, lastBB, drawn>>
xformVars  == <<plotM, viewW, viewV, hasCurvesView, xform>>
vars == <<call, pc, unitVars, legendVars, xformVars>>

UnitInit ==
    /\ axis \in {"x", "y", "z"} /\ hasCurves \in BOOLEAN
    /\ curves \in BoundedSeq(CurveUnits, MaxCurves) /\ ui = 1 /\ result = ""

LegendInit ==
    /\ show \in {"", "yes", "no"} /\ same \in BOOLEAN
    /\ pres \in {"compare", "error", "error+compare"}
    /\ metrics \in Metrics /\ labels \in BoundedSeq(LabelSizes, MaxLabels)
    /\ li = 0 /\ box = NoRect /\ lastBB = NoRect /\ drawn = <<>>

\* the inputs of the routine not called are left at one value
UnitIdle ==
    /\ axis = "x" /\ hasCurves = FALSE /\ curves = <<>> /\ ui = 1 /\ result = ""
LegendIdle ==
    /\ show = "" /\ same = FALSE /\ pres = "compare" /\ metrics = CHOOSE m \in Metrics : TRUE
    /\ labels = <<>> /\ li = 0 /\ box = NoRect /\ lastBB = NoRect /\ drawn = <<>>

\* a rational number n/d, d # 0; the doubles of the transform
Q(n) == [n |-> n, d |-> 1]
QMul(p, q) == [n |-> p.n * q.n, d |-> p.d * q.d]
QDiv(p, q) == [n |-> p.n * q.d, d |-> p.d * q.n]
QSub(p, q) == [n |-> p.n * q.d - q.n * p.d, d |-> p.d * q.d]
QEq(p, q)  == p.n * q.d = q.n * p.d
QZero(p)   == p.n = 0

\* QTransform(a, 0, 0, b, c, d); the identity when finite is FALSE and
\* a, b, c, d are ignored
Identity == [finite |-> TRUE, a |-> Q(1), b |-> Q(1), c |-> Q(0), d |-> Q(0)]
NonFinite == [Identity EXCEPT !.finite = FALSE]

XformInit ==
    /\ plotM \in MathRects /\ viewW \in ViewRects /\ viewV \in ViewRects
    /\ hasCurvesView \in BOOLEAN /\ xform = Identity
XformIdle ==
    /\ plotM = (CHOOSE m \in MathRects : TRUE) /\ viewW = (CHOOSE r \in ViewRects : TRUE)
    /\ viewV = viewW /\ hasCurvesView = FALSE /\ xform = Identity

Init ==
    /\ pc = "start"
    /\ \/ call \in {"curvesXUnit", "curvesUnit"} /\ UnitInit /\ LegendIdle /\ XformIdle
       \/ call = "legend" /\ UnitIdle /\ LegendInit /\ XformIdle
       \/ call = "transform" /\ UnitIdle /\ LegendIdle /\ XformInit

-----------------------------------------------------------------------------
\* the entry both routines share: no Curves child, or no Curve under it,
\* is "--"
CurvesEntry ==
    IF hasCurves /\ curves # <<>>
    THEN pc' = "loop" /\ UNCHANGED result
    ELSE pc' = "ret" /\ result' = "--"

\* the entry of _curvesXUnit
XUnitStart ==
    /\ pc = "start" /\ call = "curvesXUnit" /\ CurvesEntry
    /\ UNCHANGED <<call, axis, hasCurves, curves, ui, legendVars, xformVars>>

\* the entry of _curvesUnit: an axis other than x and y aborts
UnitStart ==
    /\ pc = "start" /\ call = "curvesUnit"
    /\ \/ axis \notin {"x", "y"} /\ pc' = "exit" /\ UNCHANGED result
       \/ axis \in {"x", "y"} /\ CurvesEntry
    /\ UNCHANGED <<call, axis, hasCurves, curves, ui, legendVars, xformVars>>

\* Mutant of UnitStep: a curve without the unit child clears the result
\* but does not break.
UnitStepNoBreak ==
    /\ pc = "loop" /\ call \in {"curvesXUnit", "curvesUnit"}
    /\ IF ui > Len(curves) THEN pc' = "ret" /\ UNCHANGED <<ui, result>>
       ELSE LET c == curves[ui] IN
            \/ ~c.has /\ result' = "" /\ ui' = ui + 1 /\ UNCHANGED pc
            \/ c.has /\ result = "" /\ result' = c.u /\ ui' = ui + 1 /\ UNCHANGED pc
            \/ c.has /\ result # "" /\ result # c.u /\ result' = "--" /\ pc' = "ret"
               /\ UNCHANGED ui
            \/ c.has /\ result # "" /\ result = c.u /\ ui' = ui + 1 /\ UNCHANGED <<pc, result>>
    /\ UNCHANGED <<call, axis, hasCurves, curves, legendVars, xformVars>>

\* one pass of the foreach: a curve without the unit child clears the
\* result and breaks; an empty result takes the curve's unit; a different
\* unit gives "--" and breaks
UnitPass ==
    /\ IF ui > Len(curves) THEN pc' = "ret" /\ UNCHANGED <<ui, result>>
       ELSE LET c == curves[ui] IN
            \/ ~c.has /\ result' = "" /\ pc' = "ret" /\ UNCHANGED ui
            \/ c.has /\ result = "" /\ result' = c.u /\ ui' = ui + 1 /\ UNCHANGED pc
            \/ c.has /\ result # "" /\ result # c.u /\ result' = "--" /\ pc' = "ret"
               /\ UNCHANGED ui
            \/ c.has /\ result # "" /\ result = c.u /\ ui' = ui + 1 /\ UNCHANGED <<pc, result>>
    /\ UNCHANGED <<call, axis, hasCurves, curves, legendVars, xformVars>>

\* _curvesXUnit's loop: the CurveXUnit child of each curve
XUnitStep == pc = "loop" /\ call = "curvesXUnit" /\ UnitPass

\* _curvesUnit's loop: the CurveXUnit or CurveYUnit child, by axis
UnitStep == pc = "loop" /\ call = "curvesUnit" /\ UnitPass

-----------------------------------------------------------------------------
ErrorLabel == CHOOSE z \in LabelSizes : TRUE   \* the size of "error"

\* _paintCurvesLegend: IsShowPlotLegend "no", or legends the same on every
\* plot of the page and not forced with "yes", or an "error" plot, draw no
\* legend; "error+compare" adds the error entry
PaintLegend ==
    /\ pc = "start" /\ call = "legend"
    /\ IF show = "no" \/ (same /\ show # "yes") \/ pres = "error"
       THEN pc' = "ret" /\ UNCHANGED labels
       ELSE /\ pc' = "box"
            /\ labels' = IF pres = "error+compare" THEN Append(labels, ErrorLabel) ELSE labels
    /\ UNCHANGED <<call, unitVars, show, same, pres, metrics, li, box, lastBB, drawn, xformVars>>

Right(r)  == r.l + r.w - 1      \* QRect::right()
Bottom(r) == r.t + r.h - 1      \* QRect::bottom()
Margins(m) == [ml |-> m.fw, mr |-> m.fw, s |-> m.fw, l |-> 4 * m.fw,
               v |-> m.ls \div 8, mt |-> m.fh \div 4, mb |-> m.fh \div 4]

\* Mutant of BoxWidth: the width is the last label's, not the widest.
BoxWidthLast(m, ls) ==
    LET g == Margins(m) IN
    IF ls = <<>> THEN 0 ELSE g.ml + g.l + g.s + Last(ls).w + g.mr

\* w: the widest of ml + l + s + labelWidth + mr, 0 without labels
BoxWidth(m, ls) ==
    LET g == Margins(m) IN
    FoldLeft(LAMBDA w, z : IF g.ml + g.l + g.s + z.w + g.mr > w
                           THEN g.ml + g.l + g.s + z.w + g.mr ELSE w, 0, ls)

\* Mutant of LegendBox: the height leaves out the margins.
LegendBoxNoMargins ==
    /\ pc = "box" /\ pc' = "loop"
    /\ LET g == Margins(metrics)
           w == BoxWidth(metrics, labels)
           h == (Len(labels) - 1) * g.v
                  + FoldLeft(LAMBDA a, z : a + z.h, 0, labels)
       IN box' = Rect(RRight - w - metrics.fw \div 2, metrics.fh \div 4, w, h)
    /\ UNCHANGED <<call, unitVars, show, same, pres, metrics, labels, li, lastBB, drawn, xformVars>>

\* the legend box: h = (n-1)*v + mt + mb + the labels' heights, at
\* (R.right() - w - fw/2, R.top() + fh/4)
LegendBox ==
    /\ pc = "box" /\ pc' = "loop"
    /\ LET g == Margins(metrics)
           w == BoxWidth(metrics, labels)
           h == (Len(labels) - 1) * g.v + g.mt + g.mb
                  + FoldLeft(LAMBDA a, z : a + z.h, 0, labels)
       IN box' = Rect(RRight - w - metrics.fw \div 2, metrics.fh \div 4, w, h)
    /\ UNCHANGED <<call, unitVars, show, same, pres, metrics, labels, li, lastBB, drawn, xformVars>>

\* one pass of the entry loop: the first entry at the box's top left plus
\* (ml, mt); each next one at lastBB.bottomLeft() + (0, v); l + s wider
\* than its label
LegendEntry ==
    /\ pc = "loop" /\ call = "legend"
    /\ IF li >= Len(labels) THEN pc' = "ret" /\ UNCHANGED <<li, lastBB, drawn>>
       ELSE LET g  == Margins(metrics)
                z  == labels[li + 1]
                bb == IF li = 0 THEN Rect(box.l + g.ml, box.t + g.mt, g.l + g.s + z.w, z.h)
                      ELSE Rect(lastBB.l, Bottom(lastBB) + g.v, g.l + g.s + z.w, z.h)
            IN /\ lastBB' = bb /\ drawn' = Append(drawn, bb) /\ li' = li + 1
               /\ UNCHANGED pc
    /\ UNCHANGED <<call, unitVars, show, same, pres, metrics, labels, box, xformVars>>

-----------------------------------------------------------------------------
\* Mutant of MathRect: the offset is taken from the curves view to this
\* one (W - V) instead of V - W.
MathRectSwapped(M, W, V) ==
    IF W.w = V.w /\ W.h = V.h THEN [x |-> Q(M.x), y |-> Q(M.y), w |-> Q(M.w), h |-> Q(M.h)]
    ELSE LET pw == IF V.w > 0 THEN QDiv(Q(M.w), Q(V.w)) ELSE Q(0)
             ph == IF V.h > 0 THEN QDiv(Q(M.h), Q(V.h)) ELSE Q(0)
         IN [x |-> QSub(Q(M.x), QMul(pw, Q(W.gx - V.gx))),
             y |-> QSub(Q(M.y), QMul(ph, Q(W.gy - V.gy))),
             w |-> QMul(pw, Q(W.w)), h |-> QMul(ph, Q(W.h))]

\* _mathRect: the plot's math rect M unless this viewport's rect() differs
\* from the curves view's (both at (0,0), so only the sizes are compared);
\* then M is scaled by math units per curves pixel (0 for an empty curves
\* view) and shifted by the global offset of the curves view from this one
MathRect(M, W, V) ==
    IF W.w = V.w /\ W.h = V.h THEN [x |-> Q(M.x), y |-> Q(M.y), w |-> Q(M.w), h |-> Q(M.h)]
    ELSE LET pw == IF V.w > 0 THEN QDiv(Q(M.w), Q(V.w)) ELSE Q(0)
             ph == IF V.h > 0 THEN QDiv(Q(M.h), Q(V.h)) ELSE Q(0)
         IN [x |-> QSub(Q(M.x), QMul(pw, Q(V.gx - W.gx))),
             y |-> QSub(Q(M.y), QMul(ph, Q(V.gy - W.gy))),
             w |-> QMul(pw, Q(W.w)), h |-> QMul(ph, Q(W.h))]

\* a = du/dx, b = dv/dy, c = -a*x0, d = -b*y0 for the math rect R of a
\* viewport of size du x dv; dx or dy zero gives inf or NaN
Transform(R, W) ==
    IF QZero(R.w) \/ QZero(R.h) THEN NonFinite
    ELSE LET a == QDiv(Q(W.w), R.w)
             b == QDiv(Q(W.h), R.h)
         IN [finite |-> TRUE, a |-> a, b |-> b,
             c |-> QSub(Q(0), QMul(a, R.x)), d |-> QSub(Q(0), QMul(b, R.y))]

\* _coordToPixelTransform of the view W whose curves view is V: the
\* identity without a curves view
CoordToPixelTransform ==
    /\ pc = "start" /\ call = "transform" /\ pc' = "ret"
    /\ xform' = IF hasCurvesView THEN Transform(MathRect(plotM, viewW, viewV), viewW)
                ELSE Identity
    /\ UNCHANGED <<call, unitVars, legendVars, plotM, viewW, viewV, hasCurvesView>>

Finished == pc \in {"ret", "exit"} /\ UNCHANGED vars

Next == XUnitStart \/ UnitStart \/ XUnitStep \/ UnitStep \/ PaintLegend \/ LegendBox \/ LegendEntry
        \/ CoordToPixelTransform \/ Finished

Spec == Init /\ [][Next]_vars

-----------------------------------------------------------------------------
TypeOK ==
    /\ pc \in {"start", "loop", "box", "ret", "exit"}
    /\ ui \in 1..MaxCurves + 1 /\ result \in Units \cup {"--"}
    /\ li \in 0..Len(labels) /\ box.w \in Nat /\ box.h \in Nat
    /\ xform.finite \in BOOLEAN /\ hasCurvesView \in BOOLEAN

(* The unit an axis shows stands for every curve: when _curvesUnit returns *)
(* a unit (not "" and not "--"), every curve of the plot has a unit child, *)
(* and every curve whose unit is not empty has that unit.                  *)
CurvesUnitSound ==
    (pc = "ret" /\ call # "legend" /\ result \notin {"", "--"})
        => \A i \in 1..Len(curves) : curves[i].has /\ curves[i].u \in {"", result}

(* The unit an axis shows is the unit of every curve, as the comment above *)
(* _curvesXUnit says ("If all curves have same x unit, it returns x unit   *)
(* for all curves").                                                        *)
CurvesUnitIsCommon ==
    (pc = "ret" /\ call # "legend" /\ result \notin {"", "--"})
        => \A i \in 1..Len(curves) : curves[i] = [has |-> TRUE, u |-> result]

(* Every legend entry __paintCurvesLegend draws, line and label, lies      *)
(* inside the legend box it drew, whatever the font metrics and labels.    *)
EntriesInsideBox ==
    \A i \in 1..Len(drawn) :
        /\ drawn[i].l >= box.l /\ drawn[i].t >= box.t
        /\ Right(drawn[i]) <= Right(box) /\ Bottom(drawn[i]) <= Bottom(box)

(* Legend entries are v = lineSpacing/8 pixels apart, and the box keeps    *)
(* the bottom margin mb below the last one, as the box height counts them. *)
EntriesSpaced ==
    /\ \A i \in 2..Len(drawn) : drawn[i].t = Bottom(drawn[i - 1]) + 1 + Margins(metrics).v
    /\ (pc = "ret" /\ drawn # <<>>) => Bottom(box) - Bottom(Last(drawn)) = Margins(metrics).mb

\* the curves view's own transform: the plot's math rect over its viewport
CurvesXform == Transform(MathRect(plotM, viewV, viewV), viewV)

\* the pixel of this view at math x (y) is the curves view's pixel at the
\* same math x (y), in global coordinates
SameX(t, u) == QEq(t.a, u.a) /\ QEq(QSub(t.c, Q(viewV.gx - viewW.gx)), u.c)
SameY(t, u) == QEq(t.b, u.b) /\ QEq(QSub(t.d, Q(viewV.gy - viewW.gy)), u.d)

NonEmpty == plotM.w # 0 /\ plotM.h # 0 /\ viewW.w > 0 /\ viewW.h > 0
            /\ viewV.w > 0 /\ viewV.h > 0

(* A view beside the curves view draws every math point at the curves    *)
(* view's pixel for it, in global coordinates, when its size differs     *)
(* (_mathRect rescales and shifts the plot's rect for it); a view of the  *)
(* same size still lines up along the axis it shares with the curves     *)
(* view (the same global left for x, top for y). Non-empty views give a   *)
(* finite transform, so tics, labels and grid line up with the curves.    *)
PixelsAligned ==
    (call = "transform" /\ pc = "ret" /\ hasCurvesView /\ NonEmpty)
        => /\ xform.finite
           /\ (viewW.w # viewV.w \/ viewW.h # viewV.h)
                 => SameX(xform, CurvesXform) /\ SameY(xform, CurvesXform)
           /\ viewW.gx = viewV.gx => SameX(xform, CurvesXform)
           /\ viewW.gy = viewV.gy => SameY(xform, CurvesXform)

(* Every pixel of a view beside the curves view shows the math point the  *)
(* curves view shows at that global position, as the comment on          *)
(* _mathRect ("based on this windows rect(), and the plot's window and    *)
(* math rect") reads.                                                      *)
PixelsAlignedEverywhere ==
    (call = "transform" /\ pc = "ret" /\ hasCurvesView /\ NonEmpty)
        => SameX(xform, CurvesXform) /\ SameY(xform, CurvesXform)
====
