------------------------------ MODULE BarSpacing ------------------------------
(***************************************************************************)
(* Where the bars of a reinforcement group or mesh are along the line      *)
(* they are distributed on (spacing_distances, the exclusions of           *)
(* group_centerlines, regular_distances in nonpart_geometry.cpp).  Lengths *)
(* are natural numbers; a distance is a fraction, so a result is a         *)
(* sequence of numerators "at" with one denominator "over".                *)
(***************************************************************************)
EXTENDS Integers, Sequences

Refused(code) == [code |-> code, at |-> <<>>, over |-> 1]
Placed(at, over) == [code |-> "none", at |-> at, over |-> over]

\* Faulty variant: the last number is counted twice.
EvenlyPast(from, step, count) == [i \in 1..count + 1 |-> from + (i - 1) * step]

\* from, from + step, ..., count numbers in all.
Evenly(from, step, count) == [i \in 1..count |-> from + (i - 1) * step]

\* Spacings one after the other, the first bar at the start of the line.
Summed(spacings) ==
    LET at[i \in 1..Len(spacings) + 1] == IF i = 1 THEN 0 ELSE at[i - 1] + spacings[i - 1]
    IN  at

Ceiling(a, b) == (a + b - 1) \div b

ByCount(length, count, most) ==
    IF count = 0 THEN Placed(<<>>, 1)
    ELSE IF count > most THEN Refused("resource_limit")
    ELSE IF count = 1 THEN Placed(<<0>>, 1)
    ELSE Placed(Evenly(0, length, count), count - 1)

BySpacings(spacings, most) ==
    IF Len(spacings) >= most THEN Refused("resource_limit")
    ELSE IF \E i \in DOMAIN spacings : spacings[i] = 0 THEN Refused("invalid_geometry")
    ELSE Placed(Summed(spacings), 1)

\* Equal intervals of at most the target.
ByTarget(length, target, most) ==
    LET intervals == Ceiling(length, target) IN
    IF intervals + 1 > most THEN Refused("resource_limit")
    ELSE Placed(Evenly(0, length, intervals + 1), intervals)

\* Intervals of the target, and what is left over at the start, at the end, at both, or in
\* the middle.  All distances are doubled, for the half of what is left at both ends.
ByFixed(kind, length, target, most) ==
    LET fixed == IF length \div target = 0 THEN 0 ELSE length \div target - 1
        left  == length - fixed * target
    IN  IF length \div target + 2 > most THEN Refused("resource_limit")
        ELSE Placed(
            CASE kind = "left_over_first" -> <<0>> \o Evenly(2 * left, 2 * target, fixed + 1)
              [] kind = "left_over_last"  -> Evenly(0, 2 * target, fixed + 1) \o <<2 * length>>
              [] kind = "left_over_twice" ->
                     <<0>> \o Evenly(left, 2 * target, fixed + 1) \o <<2 * length>>
              [] kind = "left_over_between" ->
                     LET before == fixed \div 2
                         after  == fixed - before
                     IN  Evenly(0, 2 * target, before + 1)
                         \o Evenly(2 * (length - after * target), 2 * target, after + 1),
            2)

FixedKinds == {"left_over_first", "left_over_last", "left_over_twice", "left_over_between"}
SpacingKinds == {"count", "list", "equal"} \cup FixedKinds

\* spacing_distances; kinds that are none of these are not supported.
Distances(kind, length, spacings, most) ==
    IF spacings = <<>> THEN Refused("invalid_geometry")
    ELSE IF kind = "count" THEN ByCount(length, Head(spacings), most)
    ELSE IF kind = "list" THEN BySpacings(spacings, most)
    ELSE IF Head(spacings) = 0 THEN Refused("invalid_geometry")
    ELSE IF length = 0 THEN Placed(<<0>>, 1)
    ELSE IF kind = "equal" THEN ByTarget(length, Head(spacings), most)
    ELSE IF kind \notin FixedKinds THEN Refused("decoder_unavailable")
    ELSE ByFixed(kind, length, Head(spacings), most)

\* The bars left out at the ends.
Exclusions == {"none", "first", "last", "both"}

WithoutFirst(at) == IF at = <<>> THEN at ELSE Tail(at)
WithoutLast(at) == SubSeq(at, 1, Len(at) - 1)

Excluded(exclusion, placed) ==
    IF placed.code # "none" THEN placed
    ELSE IF exclusion \notin Exclusions THEN Refused("decoder_unavailable")
    ELSE LET first == IF exclusion \in {"first", "both"} THEN WithoutFirst(placed.at)
                      ELSE placed.at
             both  == IF exclusion \in {"last", "both"} /\ first # <<>> THEN WithoutLast(first)
                      ELSE first
         IN  [placed EXCEPT !.at = both]

\* regular_distance_count: the bars of one direction of a mesh.
RegularCount(from, to, spacing) == IF from > to THEN 0 ELSE (to - from) \div spacing + 1
=============================================================================
