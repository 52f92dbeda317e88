---------------------------- MODULE FittedMembers ----------------------------
(* Fittings of a straight member (geometry.cpp: set_fitted_report_length and       *)
(* make_bounded_topology_base): the length the definition reports and the solid    *)
(* the topology worker is asked for are worked out apart from each other.  The     *)
(* member is seen from the side, so that a section is a row of heights and a       *)
(* fitting a line; the axis runs along the first coordinate.                       *)
EXTENDS Integers, Sequences, FiniteSets, SequencesExt, FiniteSetsExt

CONSTANT Members   \* with the fittings attached to each

VARIABLES
    member,     \* the member at work
    reported,   \* the length its definition reports, nominal at first
    padded,       \* what the worker starts from: two ends and the heights there
    clips,      \* the half spaces the worker keeps
    fitting     \* "report", "bound", "clip", "settled"; "idle" while others are at work

fittingVars == <<member, reported, padded, clips, fitting>>

Along2(a, n) == a[1] * n[1] + a[2] * n[2]
Clip2(point, normal, event) == [at |-> point, normal |-> normal, event |-> event]
NoNormal == <<0, 0>>

Heights(m) == Range(m.start) \cup Range(m.end)
-----------------------------------------------------------------------------
(* Fittings: each keeps the side of the middle, given as its double; of those that *)
(* face the same way the newest counts, in the place of the first.                 *)

Facing2(f, middle) ==
    LET side == Along2(<<middle[1] - 2 * f.at[1], middle[2] - 2 * f.at[2]>>, f.normal)
    IN  IF side < 0 THEN [f EXCEPT !.normal = <<-f.normal[1], -f.normal[2]>>] ELSE f

KeepNewest(kept, f) ==
    LET same == {k \in DOMAIN kept : kept[k].normal = f.normal} IN
    IF same = {} THEN Append(kept, f)
    ELSE [kept EXCEPT ![Min(same)] = IF f.event > @.event THEN f ELSE @]

Fitted(m, middle) ==
    FoldLeft(LAMBDA kept, f : IF f.normal = NoNormal THEN kept
                              ELSE KeepNewest(kept, Facing2(f, middle)),
             <<>>, m.fittings)

AxisMiddle(m) == <<m.length, 0>>
BoxMiddle(m) == <<m.length, Min(Heights(m)) + Max(Heights(m))>>

AtStart(planes) == {k \in DOMAIN planes : planes[k].normal[1] > 0}
AtEnd(planes) == {k \in DOMAIN planes : planes[k].normal[1] < 0}

\* Where the line of a fitting meets a height; the normals are such that it is whole.
Station(f, height) == f.at[1] + ((f.at[2] - height) * f.normal[2]) \div f.normal[1]

\* The radius of a bar leans the fitting out by as much on either side.
Lean(f, radius) ==
    LET lean == (radius * f.normal[2]) \div f.normal[1] IN IF lean < 0 THEN -lean ELSE lean

Interval(m, planes, Near(_), Far(_)) ==
    [from |-> IF AtStart(planes) = {} THEN 0 ELSE Max({Near(planes[k]) : k \in AtStart(planes)}),
     to |-> IF AtEnd(planes) = {} THEN m.length
            ELSE Min({Far(planes[k]) : k \in AtEnd(planes)})]

\* An interval with nothing in it leaves the nominal length.
Span(m, from, to) == IF to > from THEN to - from ELSE m.length

RoundLength(m, planes) ==
    LET r == Max(Range(m.start))
        i == Interval(m, planes, LAMBDA f : Station(f, 0) - Lean(f, r),
                                 LAMBDA f : Station(f, 0) + Lean(f, r))
    IN  Span(m, i.from, i.to)

\* The lines along the member through the corners of its section.
CornerLength(m, planes) ==
    LET Line(y) == Interval(m, planes, LAMBDA f : Station(f, y), LAMBDA f : Station(f, y))
        left == {y \in Range(m.start) : Line(y).to >= Line(y).from}
    IN  IF left = {} THEN m.length
        ELSE Span(m, Min({Line(y).from : y \in left}), Max({Line(y).to : y \in left}))

\* Fittings count where one section is drawn, along a line, a path or an arc.
ReportedLength(m) ==
    LET planes == Fitted(m, AxisMiddle(m)) IN
    IF m.form \notin {"extruded", "path"} \/ planes = <<>> THEN m.length
    ELSE IF m.round THEN RoundLength(m, planes) ELSE CornerLength(m, planes)
-----------------------------------------------------------------------------
(* The solid.  The ends are moved out so that a fitting may lie beyond them.       *)

Padding(m) == Max({IF y < 0 THEN 1 - y ELSE 1 + y : y \in Heights(m)})

Bare(m) == [from |-> 0, to |-> m.length, start |-> m.start, end |-> m.end]

\* The sides of a frustum are carried on.
CarriedOn(m) ==
    [Bare(m) EXCEPT
        !.from = -Padding(m), !.to = m.length + Padding(m),
        !.start = [k \in DOMAIN @ |-> @[k] - ((m.end[k] - @[k]) * Padding(m)) \div m.length],
        !.end = [k \in DOMAIN @ |-> @[k] + ((@[k] - m.start[k]) * Padding(m)) \div m.length]]

MovedOut(m) == [Bare(m) EXCEPT !.from = -Padding(m), !.to = m.length + Padding(m)]

PaddedBase(m) ==
    CASE m.form \in {"kept", "path"} -> Bare(m)
      [] m.form = "frustum"          -> CarriedOn(m)
      [] OTHER                       -> MovedOut(m)

\* Wrong: a nominal end clips what a fitting beyond it keeps.
BothEnds(m) ==
    <<Clip2(<<0, 0>>, <<1, 0>>, 0), Clip2(<<m.length, 0>>, <<-1, 0>>, 0)>>

\* The nominal ends clip where no fitting does.
NominalEnds(m) ==
    LET planes == Fitted(m, AxisMiddle(m)) IN
    IF m.form \in {"kept", "path"} THEN <<>>
    ELSE (IF AtStart(planes) = {} THEN <<Clip2(<<0, 0>>, <<1, 0>>, 0)>> ELSE <<>>)
         \o (IF AtEnd(planes) = {} THEN <<Clip2(<<m.length, 0>>, <<-1, 0>>, 0)>> ELSE <<>>)

FittingInit ==
    /\ member \in Members
    /\ reported = member.length /\ padded = Bare(member) /\ clips = <<>>
    /\ fitting = "report"

Report ==
    /\ fitting = "report"
    /\ reported' = ReportedLength(member)
    /\ fitting' = "bound"
    /\ UNCHANGED <<member, padded, clips>>

Bound ==
    /\ fitting = "bound"
    /\ padded' = PaddedBase(member)
    /\ clips' = NominalEnds(member)
    /\ fitting' = "clip"
    /\ UNCHANGED <<member, reported>>

\* The middle of the box of the mesh decides here.
KeepFittings ==
    /\ fitting = "clip"
    /\ clips' = clips \o Fitted(member, BoxMiddle(member))
    /\ fitting' = "settled"
    /\ UNCHANGED <<member, reported, padded>>

FittingNext == Report \/ Bound \/ KeepFittings

FittingSpec == FittingInit /\ [][FittingNext]_fittingVars
-----------------------------------------------------------------------------
(* Safety. *)

\* Whether a point lies between the lines from the corners at one end to the other.
Within(b, p) ==
    LET run == b.to - b.from
        Gap(from, to) == (p[2] - from) * run - (to - from) * (p[1] - b.from)
    IN  /\ Gap(Min(Range(b.start)), Min(Range(b.end))) >= 0
        /\ Gap(Max(Range(b.start)), Max(Range(b.end))) <= 0

Points(b, planes) ==
    {p \in (b.from .. b.to) \X (Min(Range(b.start) \cup Range(b.end))
                                  .. Max(Range(b.start) \cup Range(b.end))) :
        /\ Within(b, p)
        /\ \A k \in DOMAIN planes :
              Along2(<<p[1] - planes[k].at[1], p[2] - planes[k].at[2]>>, planes[k].normal) >= 0}

Extent(points) ==
    LET along == {p[1] : p \in points} IN IF along = {} THEN 0 ELSE Max(along) - Min(along)

\* A loft that is not a frustum of the form the code carries on.
Flattened == member.form = "loft" /\ member.start # member.end

OneOnASide(planes) == Cardinality(AtStart(planes)) <= 1 /\ Cardinality(AtEnd(planes)) <= 1

\* Both sides agree on what the fittings are, there is one at either end and none
\* along the member, and they meet its corners before the padding ends.
Ordinary ==
    LET planes == Fitted(member, AxisMiddle(member)) IN
    /\ planes = Fitted(member, BoxMiddle(member))
    /\ OneOnASide(planes)
    /\ AtStart(planes) \cup AtEnd(planes) = DOMAIN planes
    /\ \A k \in DOMAIN planes, y \in Range(member.start) :
          Station(planes[k], y) \in padded.from .. padded.to

\* Moving the ends out and clipping them again gives a member without fittings back
\* as it was, all but a loft that is no frustum of form 51; and the length that is
\* reported of a straight member is, with ordinary fittings or none, the length of
\* the solid the worker is asked for, or the nominal one where nothing is left of it
\* (set_fitted_report_length, make_bounded_topology_base).
LengthIsFitted ==
    fitting = "settled" =>
        /\ Fitted(member, AxisMiddle(member)) = <<>> =>
              (Points(padded, clips) = Points(Bare(member), <<>>) <=> ~Flattened)
        /\ member.form = "extruded" /\ Ordinary =>
              LET solid == Extent(Points(padded, clips)) IN
              reported = IF solid > 0 THEN solid ELSE member.length
=============================================================================
