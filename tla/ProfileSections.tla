--------------------------- MODULE ProfileSections ---------------------------
(* What a profile's text means (geometry.cpp): parse_section and the three        *)
(* readers of tapered profiles.  A profile is its family and its numbers, all     *)
(* positive as dimensions() leaves them, and even, so that halves are whole; the  *)
(* families are those that do not share their text with another.  An arc keeps    *)
(* its two ends, a circle the four points on its axes.                            *)
EXTENDS Integers, Sequences, FiniteSetsExt

Profile(family, values) == [family |-> family, values |-> values]

None == [kind |-> "none"]
Solid(outer) == [kind |-> "solid", outer |-> outer, inner |-> <<>>, cap |-> <<>>]
Hollow(outer, inner) == [kind |-> "hollow", outer |-> outer, inner |-> inner, cap |-> <<>>]

Rectangle(height, width) ==
    LET h == height \div 2
        w == width \div 2
    IN  <<<<-h, -w>>, <<h, -w>>, <<h, w>>, <<-h, w>>>>

\* The larger number of a plate is its height.
Plate(a, b) == IF a < b THEN Rectangle(b, a) ELSE Rectangle(a, b)

Circle(diameter) ==
    LET r == diameter \div 2 IN <<<<-r, 0>>, <<0, -r>>, <<r, 0>>, <<0, r>>>>

RoundedRectangle(height, width, r) ==
    LET h == height \div 2
        w == width \div 2
    IN  <<<<-h, r - w>>, <<r - h, -w>>, <<h - r, -w>>, <<h, r - w>>,
          <<h, w - r>>, <<h - r, w>>, <<r - h, w>>, <<-h, w - r>>>>

\* Two flanges and a web between them, each flange with its width and thickness.
IShape(height, web, lower, lowerWidth, upper, upperWidth) ==
    LET h == height \div 2
        s == web \div 2
        l == lowerWidth \div 2
        u == upperWidth \div 2
    IN  <<<<-h, l>>, <<-h, -l>>, <<lower - h, -l>>, <<lower - h, -s>>, <<h - upper, -s>>,
          <<h - upper, -u>>, <<h, -u>>, <<h, u>>, <<h - upper, u>>, <<h - upper, s>>,
          <<lower - h, s>>, <<lower - h, l>>>>

Channel(size, t) ==
    LET h == size \div 2
        o == (5 * t) \div 2
    IN  <<<<-h, -h>>, <<h, -h>>, <<h, t - h>>, <<o - h, t - h>>, <<t - h, o - h>>,
          <<t - h, h - o>>, <<o - h, h - t>>, <<h, h - t>>, <<h, h>>, <<-h, h>>>>

RoundedAngle(height, width, t) ==
    LET h == height \div 2
        w == width \div 2
        o == (5 * t) \div 2
    IN  <<<<-w, -h>>, <<w, -h>>, <<w, t - h>>, <<o - w, t - h>>, <<t - w, o - h>>,
          <<t - w, h>>, <<-w, h>>>>

Angle(height, width, t) ==
    LET h == height \div 2
        w == width \div 2
    IN  <<<<-h, -w>>, <<h, -w>>, <<h, t - w>>, <<t - h, t - w>>, <<t - h, w>>, <<-h, w>>>>

AngleCap == <<<<1, 2, 3>>, <<1, 3, 4>>, <<1, 4, 6>>, <<4, 5, 6>>>>

Trapezium(height, width, short) ==
    LET h == height \div 2
        w == width \div 2
    IN  <<<<h, -w>>, <<-h, -w>>, <<-h, short - w>>, <<h, w>>>>
-----------------------------------------------------------------------------
(* The branches of parse_section: None where the text is not understood. *)

When(condition, section) == IF condition THEN section ELSE None

Pipe(v) ==
    IF Len(v) = 2
    THEN When(v[1] > 2 * v[2], Hollow(Circle(v[1]), Circle(v[1] - 2 * v[2])))
    ELSE None

\* A width left out is the height; the last number is the thickness.
Width(v) == IF Len(v) = 2 THEN v[1] ELSE v[2]

Tube(v) ==
    IF Len(v) \in {2, 3}
    THEN LET t == v[Len(v)] IN
         When(v[1] > 2 * t /\ Width(v) > 2 * t,
              Hollow(Rectangle(v[1], Width(v)), Rectangle(v[1] - 2 * t, Width(v) - 2 * t)))
    ELSE None

RoundedTube(v) ==
    IF Len(v) = 3
    THEN When(4 * v[3] < Min({v[1], v[2]}),
              Hollow(RoundedRectangle(v[1], v[2], 2 * v[3]),
                     RoundedRectangle(v[1] - 2 * v[3], v[2] - 2 * v[3], v[3])))
    ELSE None

FlatBar(v) == IF Len(v) = 2 THEN Solid(Plate(v[1], v[2])) ELSE None
PlainRectangle(v) == IF Len(v) = 2 THEN Solid(Rectangle(v[1], v[2])) ELSE None
Rod(v) == IF Len(v) = 1 THEN Solid(Circle(v[1])) ELSE None

ChannelSection(v) == IF Len(v) = 2 THEN When(5 * v[2] < v[1], Solid(Channel(v[1], v[2]))) ELSE None

BentAngle(v) ==
    IF Len(v) = 3
    THEN When(5 * v[3] < Min({v[1], v[2]}), Solid(RoundedAngle(v[1], v[2], v[3])))
    ELSE None

WideFlange(v) ==
    IF Len(v) = 4
    THEN When(v[2] < v[4] /\ 2 * v[3] < v[1], Solid(IShape(v[1], v[2], v[3], v[4], v[3], v[4])))
    ELSE None

\* A beam of two webs keeps the outsides of both.
BoxBeam(v) ==
    IF Len(v) = 5
    THEN LET outside == v[4] - 2 * v[5] IN
         When(2 * v[3] < v[1] /\ outside - 2 * v[2] > 0,
              Solid(IShape(v[1], outside, v[3], v[4], v[3], v[4])))
    ELSE None

PlateGirder(v) ==
    IF Len(v) = 6
    THEN When(v[4] < Min({v[2], v[5]}) /\ v[3] + v[6] < v[1],
              Solid(IShape(v[1], v[4], v[6], v[5], v[3], v[2])))
    ELSE None

Girder(v) ==
    IF Len(v) = 4
    THEN When(v[4] < v[2] /\ 2 * v[3] < v[1], Solid(IShape(v[1], v[4], v[3], v[2], v[3], v[2])))
    ELSE None

WeldedBeam(v) ==
    IF Len(v) = 6
    THEN When(v[4] < Min({v[2], v[3]}) /\ v[5] + v[6] < v[1],
              Solid(IShape(v[1], v[4], v[6], v[3], v[5], v[2])))
    ELSE None

IrregularBeam(v) ==
    IF Len(v) = 3 THEN When(v[3] <= v[2], Solid(Trapezium(v[1], v[2], v[3]))) ELSE None

AngleSection(v) ==
    IF Len(v) \in {2, 3}
    THEN When(v[Len(v)] < Min({v[1], Width(v)}),
              [Solid(Angle(v[1], Width(v), v[Len(v)])) EXCEPT !.cap = AngleCap])
    ELSE None

Families == {"PL", "PRMDAS", "D", "CHS", "SHS", "P", "U", "BLL", "HI", "HK", "PG", "TG",
             "B_WLD_H", "IRR_I", "L"}

ParseSection(p) ==
    LET v == p.values IN
    CASE p.family = "PL"      -> FlatBar(v)
      [] p.family = "PRMDAS"  -> PlainRectangle(v)
      [] p.family = "D"       -> Rod(v)
      [] p.family = "CHS"     -> Pipe(v)
      [] p.family = "SHS"     -> Tube(v)
      [] p.family = "P"       -> RoundedTube(v)
      [] p.family = "U"       -> ChannelSection(v)
      [] p.family = "BLL"     -> BentAngle(v)
      [] p.family = "HI"      -> WideFlange(v)
      [] p.family = "HK"      -> BoxBeam(v)
      [] p.family = "PG"      -> PlateGirder(v)
      [] p.family = "TG"      -> Girder(v)
      [] p.family = "B_WLD_H" -> WeldedBeam(v)
      [] p.family = "IRR_I"   -> IrregularBeam(v)
      [] p.family = "L"       -> AngleSection(v)
      [] OTHER                -> None
-----------------------------------------------------------------------------
(* Sections that change along the part: a contour for either end. *)

Tapered(start, end) == [kind |-> "tapered", start |-> start, end |-> end]

VariableRectangle(p) ==
    IF p.family = "PL_V" /\ Len(p.values) = 6
    THEN Tapered(Rectangle(p.values[1], p.values[2]), Rectangle(p.values[3], p.values[4]))
    ELSE None

Oval(height, width) ==
    LET h == height \div 2
        w == width \div 2
    IN  <<<<h, 0>>, <<0, w>>, <<-h, 0>>, <<0, -w>>>>

TaperedEllipse(p) ==
    IF p.family = "ELD" /\ Len(p.values) = 4
    THEN Tapered(Oval(p.values[1], p.values[2]), Oval(p.values[3], p.values[4]))
    ELSE None

IParameters(start, end, web, lower, lowerWidth, upper, upperWidth) ==
    [kind |-> "parameters", start |-> start, end |-> end, web |-> web, lower |-> lower,
     lowerWidth |-> lowerWidth, upper |-> upper, upperWidth |-> upperWidth]

\* Three spellings of the same numbers; the second and the third repeat at the
\* far end what must not change.
WrittenParameters(p) ==
    LET v == p.values IN
    CASE p.family = "PHI" /\ Len(v) = 5 -> IParameters(v[1], v[2], v[3], v[4], v[5], v[4], v[5])
      [] p.family = "PHI" /\ Len(v) = 7 -> IParameters(v[1], v[2], v[3], v[4], v[5], v[6], v[7])
      [] p.family = "TPG" /\ Len(v) = 12 /\ \A i \in 2 .. 6 : v[i] = v[i + 6] ->
             IParameters(v[1], v[7], v[4], v[6], v[5], v[3], v[2])
      [] p.family = "PGT" /\ Len(v) = 8 /\ \A i \in 2 .. 4 : v[i] = v[i + 4] ->
             IParameters(v[1], v[5], v[4], v[3], v[2], v[3], v[2])
      [] OTHER -> None

TaperedIParameters(p) ==
    LET w == WrittenParameters(p) IN
    IF w = None THEN None
    ELSE When(/\ w.web < Min({w.lowerWidth, w.upperWidth})
              /\ w.lower + w.upper < Min({w.start, w.end}), w)

\* The contour lies on its side, moved to where the part is anchored.
TaperedIContour(w, height, anchor, center) ==
    LET h == height \div 2
        s == w.web \div 2
        l == w.lowerWidth \div 2
        u == w.upperWidth \div 2
        upright == <<<<-l, -h>>, <<l, -h>>, <<l, w.lower - h>>, <<s, w.lower - h>>,
                     <<s, h - w.upper>>, <<u, h - w.upper>>, <<u, h>>, <<-u, h>>,
                     <<-u, h - w.upper>>, <<-s, h - w.upper>>, <<-s, w.lower - h>>,
                     <<-l, w.lower - h>>>>
    IN  [i \in DOMAIN upright |-> <<upright[i][2] + anchor + h, center - upright[i][1]>>]

TaperedI(p, anchor, center) ==
    LET w == TaperedIParameters(p) IN
    IF w = None THEN None
    ELSE Tapered(TaperedIContour(w, w.start, anchor, center), TaperedIContour(w, w.end, anchor, center))
=============================================================================
