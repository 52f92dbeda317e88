------------------------ MODULE NonPartGeometryProofs ------------------------
(***************************************************************************)
(* Proofs that the budgets of the non-part geometry hold, that what is     *)
(* retained is paid for, that chains of linked rows are read whole, that   *)
(* welds are drawn whole, that the bars of a group lie on their line and   *)
(* that every element is drawn or reported, for every table, link and      *)
(* limit.                                                                  *)
(***************************************************************************)
EXTENDS NonPartGeometry, FiniteSetTheorems, SequenceTheorems, TLAPS

\* What a decode is given does not change.
Given ==
  /\ model \in NonPartModels /\ rows = model.linked
  /\ limit \in Nat /\ mostVisits \in Nat

BudgetOK ==
  /\ used \in 0..limit /\ visits \in 0..mostVisits
  /\ weight \in 0..Remaining

\* The rows met are the first ones of the chain asked for, none of them twice.
PathOK ==
  /\ asked \in Seq(Links \cup {End}) /\ path \in Seq(Links)
  /\ asked = <<>> => path = <<>>
  /\ path = <<>> => weight = 0
  /\ path # <<>> => path[1] = Wanted /\ ~Known
  /\ \A i \in 1..Len(path) : path[i] \in DOMAIN rows
  /\ \A i \in 1..Len(path) : i < Len(path) => rows[path[i]].next = path[i + 1]
  /\ \A i, j \in 1..Len(path) : path[i] = path[j] => i = j

\* Only a row of reinforcement waits for links.
WaitingOK == asked # <<>> => AtRow("rebars")

ContoursOK == \A k \in DOMAIN contours : contours[k] \in Nat

GeometryInv == Given /\ BudgetOK /\ PathOK /\ WaitingOK /\ ContoursOK /\ LinkedRowsRead

\* Nothing of the walk over linked rows moves, and no link is waited for.
Resting ==
  /\ asked = <<>> /\ asked' = <<>>
  /\ UNCHANGED <<model, rows, limit, mostVisits, visits, cache, path, weight>>

\* A new round of links is asked for.
Asking ==
  /\ asked = <<>> /\ asked' \in Seq(Links \cup {End})
  /\ AtRow("rebars")
  /\ UNCHANGED <<model, rows, limit, mostVisits, visits, cache, path, weight, used, contours,
                 row, stage>>
-----------------------------------------------------------------------------
(* Sums over finite sets.  Nothing is known of a sum but the recursive function MapThenFoldSet   *)
(* chooses, so that there is such a function, and that it adds the members in any order,         *)
(* is shown first, by an induction over a set of numbers.                                        *)

\* The sums over the parts of a function's domain.
Totals(it, f) ==
  it = [s \in SUBSET DOMAIN f |->
           IF s = {} THEN 0
           ELSE f[CHOOSE x \in s : TRUE] + it[s \ {CHOOSE x \in s : TRUE}]]

\* Finitely many numbers to be added.
Numbers(f) == IsFiniteSet(DOMAIN f) /\ \A x \in DOMAIN f : f[x] \in Nat

\* A set of numbers up to n cannot have the successor of each of its members.
LEMMA NoEndlessAscent ==
  ASSUME NEW n \in Nat, NEW D, D \subseteq 0 .. n, 0 \in D, \A x \in D : x + 1 \in D
  PROVE  FALSE
<1>1. IsFiniteSet(0 .. n)
 BY FS_Interval
<1>2. IsFiniteSet(D) /\ Cardinality(D) \in Nat
 BY <1>1, FS_Subset, FS_CardinalityType
<1>3. PICK T : T = D \ {0}
 OBVIOUS
<1>4. IsFiniteSet(T) /\ Cardinality(T) < Cardinality(D)
 BY <1>2, <1>3, FS_RemoveElement
<1>5. PICK next : next = [x \in D |-> x + 1]
 OBVIOUS
<1>6. next \in [D -> T] /\ \A x \in D : next[x] = x + 1
 BY <1>3, <1>5
<1>7. /\ next \in [D -> T] /\ IsFiniteSet(D) /\ IsFiniteSet(T)
      /\ Cardinality(T) < Cardinality(D)
 BY <1>2, <1>4, <1>6
<1>8. \E x, y \in D : x # y /\ next[x] = next[y]
 BY ONLY <1>7, FS_PigeonHole
<1>9. QED
 BY <1>6, <1>8

\* Of some numbers one is the least.
LEMMA LeastOfNumbers ==
  ASSUME NEW S, S \subseteq Nat, S # {}
  PROVE  \E m \in S : \A k \in S : m <= k
<1> SUFFICES ASSUME \A m \in S : \E k \in S : k < m
             PROVE  FALSE
 OBVIOUS
<1>1. PICK n \in S : TRUE
 OBVIOUS
<1>2. PICK D : D = {x \in 0 .. n : \A k \in S : x <= k}
 OBVIOUS
<1>3. D \subseteq 0 .. n /\ 0 \in D
 BY <1>1, <1>2
<1>4. ASSUME NEW x \in D
      PROVE  x + 1 \in D
 BY <1>1, <1>2
<1>5. QED
 BY <1>1, <1>3, <1>4, NoEndlessAscent

\* A set with zero, and with the successor of each of its members, has all numbers.
LEMMA SetInduction ==
  ASSUME NEW S, 0 \in S, \A n \in Nat : n \in S => n + 1 \in S
  PROVE  Nat \subseteq S
<1> SUFFICES ASSUME Nat \ S # {}
             PROVE  FALSE
 OBVIOUS
<1>1. Nat \ S \subseteq Nat
 OBVIOUS
<1>2. PICK m \in Nat \ S : \A k \in Nat \ S : m <= k
 BY <1>1, LeastOfNumbers
<1>3. m # 0 /\ m - 1 \in Nat
 BY <1>2
<1>4. m - 1 \in S
 BY <1>2, <1>3
<1>5. QED
 BY <1>2, <1>3, <1>4

\* What a sum is, by its definition.
LEMMA TotalIs ==
  ASSUME NEW f
  PROVE  Total(f) = (CHOOSE it : Totals(it, f))[DOMAIN f]
 BY DEF Total, MapThenSumSet, MapThenFoldSet, Totals

\* A part without its first has one member fewer.
LEMMA OneFewer ==
  ASSUME NEW D, IsFiniteSet(D), NEW s \in SUBSET D, NEW y \in s
  PROVE  /\ IsFiniteSet(s) /\ Cardinality(s) \in Nat \ {0} /\ s \ {y} \in SUBSET D
         /\ Cardinality(s \ {y}) = Cardinality(s) - 1
BY FS_Subset, FS_CardinalityType, FS_RemoveElement

\* A set without a member is empty.
LEMMA Emptied ==
  ASSUME NEW D, IsFiniteSet(D), NEW s \in SUBSET D, Cardinality(s) <= 0
  PROVE  s = {}
<1> SUFFICES ASSUME s # {} PROVE FALSE
 OBVIOUS
<1>1. PICK y : y \in s
 OBVIOUS
<1>2. Cardinality(s) \in Nat \ {0}
 BY <1>1, OneFewer
<1> QED BY <1>2

\* A member can be chosen from a set that is not empty.
LEMMA ChosenFirst == \A s : s # {} => (CHOOSE x \in s : TRUE) \in s
 OBVIOUS

\* There are such sums.
LEMMA TotalsExist ==
  ASSUME NEW f, Numbers(f)
  PROVE  \E it : Totals(it, f) /\ \A s \in SUBSET DOMAIN f : it[s] \in Nat
<1> DEFINE D == DOMAIN f
           Small(n) == {s \in SUBSET D : Cardinality(s) <= n}
           Step(g, s) == IF s = {} THEN 0
                         ELSE f[CHOOSE x \in s : TRUE] + g[s \ {CHOOSE x \in s : TRUE}]
           Good(g, n) == g \in [Small(n) -> Nat] /\ \A s \in Small(n) : g[s] = Step(g, s)
           P == {n \in Nat : \E g : Good(g, n)}
<1>0. IsFiniteSet(D) /\ \A x \in D : f[x] \in Nat
 BY DEF Numbers
<1>1. 0 \in P
 <2>1. PICK g : g = [s \in Small(0) |-> 0]
  OBVIOUS
 <2>2. \A s \in Small(0) : s = {}
  BY <1>0, Emptied
 <2>3. Good(g, 0)
  BY <2>1, <2>2
 <2> QED BY <2>3
<1>2. ASSUME NEW n \in Nat, n \in P PROVE n + 1 \in P
 <2>1. PICK g : Good(g, n)
  BY <1>2
 <2>2. PICK h : h = [s \in Small(n + 1) |-> Step(g, s)]
  OBVIOUS
 <2>3. ASSUME NEW s \in Small(n + 1), s # {}
       PROVE  (CHOOSE x \in s : TRUE) \in D /\ s \ {CHOOSE x \in s : TRUE} \in Small(n)
  <3>1. PICK x : x = (CHOOSE y \in s : TRUE)
   OBVIOUS
  <3>2. x \in s
   BY <2>3, <3>1
  <3>3. s \in SUBSET D /\ Cardinality(s) <= n + 1
   OBVIOUS
  <3>4. Cardinality(s \ {x}) <= n /\ s \ {x} \in SUBSET D
   BY <1>0, <3>2, <3>3, OneFewer
  <3> QED BY <3>1, <3>2, <3>3, <3>4
 <2>4. \A s \in Small(n) : s \in Small(n + 1) /\ h[s] = g[s]
  <3>1. ASSUME NEW s \in Small(n) PROVE s \in Small(n + 1)
   BY <1>0, FS_Subset, FS_CardinalityType
  <3> QED BY <3>1, <2>1, <2>2
 <2>5. h \in [Small(n + 1) -> Nat]
  <3>1. ASSUME NEW s \in Small(n + 1) PROVE Step(g, s) \in Nat
   <4>1. CASE s = {}
    BY <4>1
   <4>2. CASE s # {}
    BY <1>0, <2>1, <2>3, <4>2
   <4> QED BY <4>1, <4>2
  <3> HIDE DEF Small, Step
  <3> QED BY <2>2, <3>1
 <2>6. ASSUME NEW s \in Small(n + 1) PROVE h[s] = Step(h, s)
  <3>1. h[s] = Step(g, s)
   <4> HIDE DEF Small, Step
   <4> QED BY <2>2
  <3>2. CASE s = {}
   BY <3>1, <3>2
  <3>3. CASE s # {}
   <4>1. h[s \ {CHOOSE x \in s : TRUE}] = g[s \ {CHOOSE x \in s : TRUE}]
    <5> HIDE DEF Small
    <5> QED BY <2>3, <2>4, <3>3
   <4> QED BY <3>1, <3>3, <4>1
  <3> QED BY <3>2, <3>3
 <2>7. Good(h, n + 1)
  BY <2>5, <2>6
 <2>8. n + 1 \in Nat
  OBVIOUS
 <2> HIDE DEF Good
 <2> QED BY <2>7, <2>8
<1>3. Nat \subseteq P
 <2> HIDE DEF P
 <2> QED BY <1>1, <1>2, SetInduction
<1>4. PICK N \in Nat : N = Cardinality(D)
 BY <1>0, FS_CardinalityType
<1>5. Small(N) = SUBSET D
 BY <1>0, <1>4, FS_Subset
<1>6. PICK g : Good(g, N)
 BY <1>3
<1>7. g \in [SUBSET D -> Nat] /\ \A s \in SUBSET D : g[s] = Step(g, s)
 <2>1. g \in [Small(N) -> Nat] /\ \A s \in Small(N) : g[s] = Step(g, s)
  BY <1>6
 <2> HIDE DEF Small, Step
 <2> QED BY <2>1, <1>5
<1>8. g = [s \in SUBSET D |-> Step(g, s)]
 <2> HIDE DEF Step
 <2> QED BY <1>7
<1>9. Totals(g, f)
 BY <1>8 DEF Totals
<1> QED BY <1>7, <1>9

\* Where two functions agree, so do their sums.
LEMMA SumsAgree ==
  ASSUME NEW f, NEW h, NEW it, NEW jt, Numbers(f), Totals(it, f), Totals(jt, h),
         DOMAIN h \subseteq DOMAIN f, \A x \in DOMAIN h : h[x] = f[x]
  PROVE  \A s \in SUBSET DOMAIN h : jt[s] = it[s]
<1> DEFINE D == DOMAIN h
           P == {n \in Nat : \A s \in SUBSET D : Cardinality(s) <= n => jt[s] = it[s]}
<1>0. IsFiniteSet(D)
 BY FS_Subset DEF Numbers
<1>1. \A s \in SUBSET D : /\ s = {} => it[s] = 0 /\ jt[s] = 0
                          /\ s # {} => \E x \in s : /\ it[s] = f[x] + it[s \ {x}]
                                                    /\ jt[s] = h[x] + jt[s \ {x}]
 <2> SUFFICES ASSUME NEW s \in SUBSET D
              PROVE  /\ s = {} => it[s] = 0 /\ jt[s] = 0
                     /\ s # {} => \E x \in s : /\ it[s] = f[x] + it[s \ {x}]
                                               /\ jt[s] = h[x] + jt[s \ {x}]
  OBVIOUS
 <2>1. s \in SUBSET DOMAIN f
  OBVIOUS
 <2>2. PICK x : x = (CHOOSE y \in s : TRUE)
  OBVIOUS
 <2>3. it[s] = IF s = {} THEN 0 ELSE f[x] + it[s \ {x}]
  BY <2>1, <2>2 DEF Totals
 <2>4. jt[s] = IF s = {} THEN 0 ELSE h[x] + jt[s \ {x}]
  BY <2>2 DEF Totals
 <2>5. s # {} => x \in s
  BY <2>2
 <2> QED BY <2>3, <2>4, <2>5
<1>2. 0 \in P
 BY <1>0, <1>1, Emptied
<1>3. ASSUME NEW n \in Nat, n \in P PROVE n + 1 \in P
 <2>1. ASSUME NEW s \in SUBSET D, Cardinality(s) <= n + 1 PROVE jt[s] = it[s]
  <3>1. CASE s = {}
   BY <1>1, <3>1
  <3>2. CASE s # {}
   <4>1. PICK x \in s : it[s] = f[x] + it[s \ {x}] /\ jt[s] = h[x] + jt[s \ {x}]
    BY <1>1, <3>2
   <4>2. s \ {x} \in SUBSET D /\ Cardinality(s \ {x}) = Cardinality(s) - 1
         /\ Cardinality(s) \in Nat
    BY <1>0, OneFewer
   <4>3. Cardinality(s \ {x}) <= n
    BY <2>1, <4>2
   <4>4. jt[s \ {x}] = it[s \ {x}]
    BY <1>3, <4>2, <4>3
   <4>5. h[x] = f[x]
    OBVIOUS
   <4> QED BY <4>1, <4>4, <4>5
  <3> QED BY <3>1, <3>2
 <2> QED BY <2>1
<1>4. Nat \subseteq P
 <2> HIDE DEF P
 <2> QED BY <1>2, <1>3, SetInduction
<1>5. ASSUME NEW s \in SUBSET D PROVE jt[s] = it[s]
 BY <1>0, <1>4, FS_Subset, FS_CardinalityType
<1> QED BY <1>5

\* A sum can be taken from any of its members.
LEMMA AnyComesFirst ==
  ASSUME NEW f, NEW it, Numbers(f), Totals(it, f), \A s \in SUBSET DOMAIN f : it[s] \in Nat
  PROVE  \A s \in SUBSET DOMAIN f : \A y \in s : it[s] = f[y] + it[s \ {y}]
<1> DEFINE D == DOMAIN f
           P == {n \in Nat : \A s \in SUBSET D :
                    Cardinality(s) <= n => \A y \in s : it[s] = f[y] + it[s \ {y}]}
<1>0. IsFiniteSet(D) /\ \A x \in D : f[x] \in Nat
 BY DEF Numbers
<1>1. \A s \in SUBSET D : s # {} => \E x \in s : it[s] = f[x] + it[s \ {x}]
 <2> SUFFICES ASSUME NEW s \in SUBSET D, s # {} PROVE \E x \in s : it[s] = f[x] + it[s \ {x}]
  OBVIOUS
 <2>1. PICK x : x = (CHOOSE y \in s : TRUE)
  OBVIOUS
 <2>2. it[s] = f[x] + it[s \ {x}]
  BY <2>1 DEF Totals
 <2>3. x \in s
  BY <2>1
 <2> QED BY <2>2, <2>3
<1>2. 0 \in P
 BY <1>0, Emptied
<1>3. ASSUME NEW n \in Nat, n \in P PROVE n + 1 \in P
 <2>1. ASSUME NEW s \in SUBSET D, Cardinality(s) <= n + 1, NEW y \in s
       PROVE  it[s] = f[y] + it[s \ {y}]
  <3>1. PICK x \in s : it[s] = f[x] + it[s \ {x}]
   BY <1>1
  <3>2. CASE x = y
   BY <3>1, <3>2
  <3>3. CASE x # y
   <4>1. /\ s \ {x} \in SUBSET D /\ Cardinality(s \ {x}) = Cardinality(s) - 1
         /\ s \ {y} \in SUBSET D /\ Cardinality(s \ {y}) = Cardinality(s) - 1
         /\ Cardinality(s) \in Nat
    BY <1>0, OneFewer
   <4>2. Cardinality(s \ {x}) <= n /\ Cardinality(s \ {y}) <= n
    BY <2>1, <4>1
   <4>3. y \in s \ {x} /\ x \in s \ {y}
    BY <3>3
   <4>4. it[s \ {x}] = f[y] + it[(s \ {x}) \ {y}]
    BY <1>3, <4>1, <4>2, <4>3
   <4>5. it[s \ {y}] = f[x] + it[(s \ {y}) \ {x}]
    BY <1>3, <4>1, <4>2, <4>3
   <4>6. PICK r : r = (s \ {x}) \ {y}
    OBVIOUS
   <4>7. (s \ {y}) \ {x} = r /\ r \in SUBSET D
    BY <4>6
   <4>8. it[r] \in Nat /\ f[x] \in Nat /\ f[y] \in Nat
    BY <1>0, <4>7
   <4>9. it[s \ {x}] = f[y] + it[r] /\ it[s \ {y}] = f[x] + it[r]
    BY <4>4, <4>5, <4>6, <4>7
   <4>10. \A a, b, c \in Nat : a + (b + c) = b + (a + c)
    OBVIOUS
   <4>11. f[x] + (f[y] + it[r]) = f[y] + (f[x] + it[r])
    BY <4>8, <4>10, Zenon
   <4> QED BY <3>1, <4>9, <4>11, Zenon
  <3> QED BY <3>2, <3>3
 <2> QED BY <2>1
<1>4. Nat \subseteq P
 <2> HIDE DEF P
 <2> QED BY <1>2, <1>3, SetInduction
<1>5. ASSUME NEW s \in SUBSET D, NEW y \in s PROVE it[s] = f[y] + it[s \ {y}]
 BY <1>0, <1>4, FS_Subset, FS_CardinalityType
<1> QED BY <1>5

\* What a sum of numbers is: nothing of nothing, a number, and a member more than without it.
LEMMA TotalIsNumber ==
  ASSUME NEW f, Numbers(f)
  PROVE  Total(f) \in Nat /\ (DOMAIN f = {} => Total(f) = 0)
<1>1. PICK jt : Totals(jt, f) /\ \A s \in SUBSET DOMAIN f : jt[s] \in Nat
 BY TotalsExist
<1>2. PICK it : it = CHOOSE g : Totals(g, f)
 OBVIOUS
<1>3. Totals(it, f)
 BY <1>1, <1>2
<1>4. it[DOMAIN f] = jt[DOMAIN f]
 BY <1>1, <1>3, SumsAgree
<1>5. Total(f) = it[DOMAIN f]
 BY <1>2, TotalIs
<1>6. DOMAIN f = {} => it[DOMAIN f] = 0
 BY <1>3 DEF Totals
<1> QED BY <1>1, <1>4, <1>5, <1>6

\* A sum is one of its members more than the sum without it.
LEMMA TotalWithout ==
  ASSUME NEW f, Numbers(f), NEW y \in DOMAIN f, NEW h,
         DOMAIN h = DOMAIN f \ {y}, \A x \in DOMAIN h : h[x] = f[x]
  PROVE  Numbers(h) /\ Total(h) \in Nat /\ Total(f) = f[y] + Total(h)
<1>1. Numbers(h)
 BY FS_RemoveElement DEF Numbers
<1>2. PICK it0 : Totals(it0, f) /\ \A s \in SUBSET DOMAIN f : it0[s] \in Nat
 BY TotalsExist
<1>3. PICK it : it = CHOOSE g : Totals(g, f)
 OBVIOUS
<1>4. Totals(it, f)
 BY <1>2, <1>3
<1>5. \A s \in SUBSET DOMAIN f : it[s] \in Nat
 BY <1>2, <1>4, SumsAgree
<1>6. PICK jt0 : Totals(jt0, h)
 BY <1>1, TotalsExist
<1>7. PICK jt : jt = CHOOSE g : Totals(g, h)
 OBVIOUS
<1>8. Totals(jt, h)
 BY <1>6, <1>7
<1>9. \A s \in SUBSET DOMAIN h : jt[s] = it[s]
 BY <1>4, <1>8, SumsAgree
<1>10. it[DOMAIN f] = f[y] + it[DOMAIN f \ {y}]
 BY <1>4, <1>5, AnyComesFirst
<1>11. jt[DOMAIN h] = it[DOMAIN h]
 BY <1>9
<1>12. Total(f) = it[DOMAIN f] /\ Total(h) = jt[DOMAIN h]
 BY <1>3, <1>7, TotalIs
<1> QED BY <1>1, <1>5, <1>10, <1>11, <1>12

\* One member changes.
LEMMA TotalChanged ==
  ASSUME NEW f, NEW g, Numbers(f), Numbers(g), DOMAIN g = DOMAIN f,
         NEW y \in DOMAIN f, \A x \in DOMAIN f : x # y => g[x] = f[x]
  PROVE  Total(g) - g[y] = Total(f) - f[y]
<1>1. PICK h : h = [x \in DOMAIN f \ {y} |-> f[x]]
 OBVIOUS
<1>2. DOMAIN h = DOMAIN f \ {y} /\ \A x \in DOMAIN h : h[x] = f[x]
 BY <1>1
<1>3. DOMAIN h = DOMAIN g \ {y} /\ \A x \in DOMAIN h : h[x] = g[x]
 BY <1>2
<1>4. Total(f) = f[y] + Total(h) /\ Total(h) \in Nat
 BY <1>2, TotalWithout
<1>5. Total(g) = g[y] + Total(h)
 BY <1>3, TotalWithout
<1>6. f[y] \in Nat /\ g[y] \in Nat
 BY DEF Numbers
<1> QED BY <1>4, <1>5, <1>6

\* Equal members make equal sums.
LEMMA TotalSame ==
  ASSUME NEW f, NEW g, Numbers(f), DOMAIN g = DOMAIN f, \A x \in DOMAIN f : g[x] = f[x]
  PROVE  Total(g) = Total(f)
<1>1. Numbers(g)
 BY DEF Numbers
<1>2. CASE DOMAIN f = {}
 BY <1>1, <1>2, TotalIsNumber
<1>3. CASE DOMAIN f # {}
 <2>1. PICK y : y \in DOMAIN f
  BY <1>3
 <2>2. Total(g) - g[y] = Total(f) - f[y] /\ g[y] = f[y] /\ f[y] \in Nat
  BY <1>1, <2>1, TotalChanged DEF Numbers
 <2> QED BY <2>2, <1>1, TotalIsNumber
<1> QED BY <1>2, <1>3
-----------------------------------------------------------------------------
\* The links of a model's reinforcement are links.
LEMMA LinksOfBar ==
  ASSUME model \in NonPartModels, AtRow("rebars")
  PROVE RebarLinks(Bar) \subseteq Links \cup {End}
BY NonPartAssumption DEF AtRow, RowsOf, Bar

\* A product of natural numbers, and that it grows with its first factor.
LEMMA Products == \A a, b, c \in Nat : a * c \in Nat /\ (a <= b => a * c <= b * c)
<1>1. ASSUME NEW a \in Nat, NEW c \in Nat PROVE a * c \in Nat
 BY <1>1
<1>2. ASSUME NEW a \in Nat, NEW b \in Nat, NEW c \in Nat, a <= b PROVE a * c <= b * c
 <2>1. (b - a) * c \in Nat
  BY <1>1, <1>2, b - a \in Nat
 <2>2. (b - a) * c = b * c - a * c
  BY <1>2
 <2> QED
  BY <2>1, <2>2, <1>1, <1>2
<1> QED
 BY <1>1, <1>2

\* The mesh over a contour costs less without the point that closes it.
LEMMA SurfaceBytes ==
  ASSUME NEW p \in Nat, NEW q \in Nat, 1 <= p, p <= q
  PROVE /\ MeshBytes(SurfacePositions(p), SurfaceIndices(p)) \in Nat
        /\ MeshBytes(SurfacePositions(p), SurfaceIndices(p))
               <= MeshBytes(SurfacePositions(q), SurfaceIndices(q))
<1> DEFINE a == 6 * p  b == 12 * p - 12  c == 6 * q  d == 12 * q - 12
<1>1. a \in Nat /\ b \in Nat /\ c \in Nat /\ d \in Nat /\ a <= c /\ b <= d
 OBVIOUS
<1>2. MeshRecord \in Nat /\ PositionBytes \in Nat /\ IndexBytes \in Nat
 BY LinksAssumption
<1> HIDE DEF a, b, c, d
<1>3. a * PositionBytes \in Nat /\ a * PositionBytes <= c * PositionBytes
 BY <1>1, <1>2, Products
<1>4. b * IndexBytes \in Nat /\ b * IndexBytes <= d * IndexBytes
 BY <1>1, <1>2, Products
<1>5. c * PositionBytes \in Nat /\ d * IndexBytes \in Nat
 BY <1>1, <1>2, Products
<1>6. MeshRecord + a * PositionBytes + b * IndexBytes
          <= MeshRecord + c * PositionBytes + d * IndexBytes
 BY <1>2, <1>3, <1>4, <1>5
<1>7. MeshRecord + a * PositionBytes + b * IndexBytes \in Nat
 BY <1>2, <1>3, <1>4
<1> QED
 BY <1>6, <1>7 DEF MeshBytes, SurfacePositions, SurfaceIndices, a, b, c, d
-----------------------------------------------------------------------------
(* What the walk over linked rows keeps. *)

\* The row the walk is at is a link, or there is none.
LEMMA CurrentIsLink ==
  ASSUME Given, PathOK, asked # <<>>
  PROVE /\ Wanted \in Links \cup {End}
        /\ Current \in Links \cup {End}
        /\ Tail(asked) \in Seq(Links \cup {End})
<1>1. LinkTable(rows)
 BY NonPartAssumption DEF Given
<1>2. Wanted \in Links \cup {End} /\ Tail(asked) \in Seq(Links \cup {End})
 BY DEF PathOK, Wanted
<1>3. ASSUME path # <<>> PROVE Current \in Links \cup {End}
 BY <1>1, <1>3 DEF PathOK, Current, LinkTable, LinkedRow
<1> QED
 BY <1>2, <1>3 DEF Current

\* A chain that has come to its end is the whole chain of its first link.
LEMMA EndedPathIsChain ==
  ASSUME Given, PathOK, asked # <<>>, Current = End
  PROVE Chain(path, Wanted)
<1>1. DOMAIN path = 1..Len(path) /\ Len(path) \in Nat
 BY DEF PathOK
<1>2. CASE path = <<>>
 BY <1>2 DEF Chain, Current
<1>3. CASE path # <<>>
 <2>1. \A i \in 1..Len(path) :
           rows[path[i]].next = IF i = Len(path) THEN End ELSE path[i + 1]
  <3>0. Len(path) \in Nat
   BY <1>1
  <3>1. rows[path[Len(path)]].next = End
   BY <1>3 DEF Current
  <3>2. \A i \in 1..Len(path) : i # Len(path) => i < Len(path)
   BY <3>0
  <3> QED
   BY <3>1, <3>2 DEF PathOK
 <2> QED
  BY <2>1, <1>1, <1>3 DEF PathOK, Chain
<1> QED
 BY <1>2, <1>3

\* A link that comes back to a row already met, or to none at all, leads nowhere.
LEMMA BrokenPathLeadsNowhere ==
  ASSUME Given, PathOK, asked # <<>>, Current # End, Broken
  PROVE LeadsNowhere(Wanted)
<1> DEFINE S == {path[i] : i \in 1..Len(path)} \cup {Current}
<1>1. DOMAIN path = 1..Len(path) /\ Len(path) \in Nat
 BY DEF PathOK
<1>2. Current \in Links
 BY CurrentIsLink
<1>3. S \subseteq Links
 BY <1>1, <1>2 DEF PathOK
<1>4. Wanted \in S
 <2>1. CASE path = <<>>
  BY <2>1 DEF Current
 <2>2. CASE path # <<>>
  BY <1>1, <2>2 DEF PathOK
 <2> QED
  BY <2>1, <2>2
<1>5. \A i \in 1..Len(path) : rows[path[i]].next \in S
 <2> TAKE i \in 1..Len(path)
 <2>1. CASE i = Len(path)
  BY <2>1, <1>1 DEF Current, PathOK
 <2>2. CASE i # Len(path)
  <3>0. Len(path) \in Nat
   BY <1>1
  <3>1. i < Len(path) /\ i + 1 \in 1..Len(path)
   BY <2>2, <3>0
  <3> QED
   BY <3>1 DEF PathOK
 <2> QED
  BY <2>1, <2>2
<1>6. Current \in DOMAIN rows => \E i \in 1..Len(path) : path[i] = Current
 BY <1>1 DEF Broken, Met
<1>7. \A k \in S : k \in DOMAIN rows => rows[k].next \in S
 BY <1>5, <1>6
<1> QED
 BY <1>3, <1>4, <1>7 DEF LeadsNowhere

\* An answer that says what the rows are keeps the answers right.
LEMMA RememberKeepsRead ==
  ASSUME Given, PathOK, LinkedRowsRead, asked # <<>>, rows' = rows,
         NEW status, NEW chain, Remember(status, chain),
         status = "success" => Chain(chain, Wanted),
         status = "invalid" => LeadsNowhere(Wanted)
  PROVE LinkedRowsRead'
<1>1. \A k \in DOMAIN cache' :
          cache'[k] = IF k = Wanted THEN [status |-> status, chain |-> chain] ELSE cache[k]
 BY DEF Remember
<1>2. \A k \in DOMAIN cache' : k # Wanted => k \in DOMAIN cache
 BY DEF Remember
<1>3. \A c, k : Chain(c, k)' <=> Chain(c, k)
 BY DEF Chain
<1>4. \A k : LeadsNowhere(k)' <=> LeadsNowhere(k)
 BY DEF LeadsNowhere
<1>5. ASSUME NEW k \in DOMAIN cache'
      PROVE /\ cache'[k].status = "success" => Chain(cache'[k].chain, k)
            /\ cache'[k].status = "invalid" => LeadsNowhere(k)
 BY <1>1, <1>2 DEF LinkedRowsRead
<1> QED
 BY <1>3, <1>4, <1>5 DEF LinkedRowsRead

\* A row met for the first time makes the path longer.
LEMMA PathGrows ==
  ASSUME Given, PathOK, Walking, Current # End, ~Broken,
         path' = Append(path, Current), UNCHANGED <<asked, rows, cache>>
  PROVE PathOK'
<1> DEFINE n == Len(path)  next == Current
<1>1. path \in Seq(Links) /\ n \in Nat
 BY DEF PathOK
<1>2. next \in Links
 BY CurrentIsLink DEF Walking
<1>3. path' \in Seq(Links) /\ Len(path') = n + 1 /\ path'[n + 1] = next
 BY <1>1, <1>2
<1>4. \A i \in 1..n : path'[i] = path[i]
 BY <1>1, <1>2
<1>5. next \in DOMAIN rows /\ \A i \in 1..n : path[i] # next
 BY <1>1 DEF Broken, Met
<1>6. n = 0 => next = Wanted
 BY <1>1 DEF Current
<1>7. n > 0 => rows[path[n]].next = next
 BY <1>1 DEF Current
<1> HIDE DEF next
<1>8. \A i \in 1..n + 1 : path'[i] \in DOMAIN rows
 BY <1>1, <1>3, <1>4, <1>5 DEF PathOK
<1>9. \A i \in 1..n + 1 : i < n + 1 => rows[path'[i]].next = path'[i + 1]
 <2> SUFFICES ASSUME NEW i \in 1..n + 1, i < n + 1
              PROVE rows[path'[i]].next = path'[i + 1]
  OBVIOUS
 <2>1. i \in 1..n
  BY <1>1
 <2>2. CASE i = n
  BY <2>1, <2>2, <1>1, <1>3, <1>4, <1>7
 <2>3. CASE i # n
  <3>1. i < n /\ i + 1 \in 1..n
   BY <2>1, <2>3, <1>1
  <3> QED
   BY <3>1, <2>1, <1>4 DEF PathOK
 <2> QED
  BY <2>2, <2>3
<1>10. \A i, j \in 1..n + 1 : path'[i] = path'[j] => i = j
 BY <1>1, <1>3, <1>4, <1>5 DEF PathOK
<1>11. path' # <<>> => path'[1] = Wanted
 <2>1. CASE n = 0
  BY <2>1, <1>3, <1>6
 <2>2. CASE n # 0
  BY <1>1, <1>4, <2>2 DEF PathOK
 <2> QED
  BY <2>1, <2>2
<1>12. Wanted' = Wanted /\ ~Known' /\ asked' # <<>> /\ path' # <<>>
 BY <1>3, <1>1 DEF Wanted, Walking, Known
<1> QED
 BY <1>3, <1>8, <1>9, <1>10, <1>11, <1>12 DEF PathOK, Walking
-----------------------------------------------------------------------------
\* What the rest of an action must leave alone while links are asked for.
AskStep ==
  Ask /\ UNCHANGED <<model, stage, row, todo, polygonVars, round, expanded, outVars>>

\* The steps of the walk keep the limits and the answers.
LEMMA AskKeeps ==
  ASSUME GeometryInv, AskStep
  PROVE GeometryInv'
<1> USE DEF AskStep
<1>1. asked # <<>> /\ AtRow("rebars")
 BY DEF GeometryInv, WaitingOK, Ask, Recall, VisitsExhausted, VisitBroken, Visit, Resolve, Walking
<1>2. UNCHANGED fixedLinkVars
 BY DEF Ask, Recall, VisitsExhausted, VisitBroken, Visit, Resolve, fixedLinkVars
<1>3. Given'
 BY <1>2 DEF GeometryInv, Given, fixedLinkVars
<1>4. WaitingOK'
 BY <1>1 DEF WaitingOK, AtRow, RowsOf
<1>5. ContoursOK'
 BY DEF GeometryInv, ContoursOK, polygonVars
<1>6. /\ Wanted \in Links \cup {End} /\ Current \in Links \cup {End}
      /\ Tail(asked) \in Seq(Links \cup {End})
 BY <1>1, CurrentIsLink DEF GeometryInv
<1>7. BudgetOK' /\ PathOK' /\ LinkedRowsRead'
 <2>0. limit \in Nat /\ mostVisits \in Nat /\ used \in 0..limit /\ visits \in 0..mostVisits
  BY DEF GeometryInv, Given, BudgetOK
 <2>1. CASE Recall
  <3>1. path = <<>> /\ weight = 0 /\ path' = <<>> /\ asked' = Tail(asked)
   BY <2>1 DEF GeometryInv, PathOK, Recall
  <3>2. PathOK'
   BY <3>1, <2>1, <1>6 DEF PathOK, Recall
  <3>3. BudgetOK'
   BY <2>1 DEF GeometryInv, BudgetOK, Recall, fixedLinkVars, Remaining
  <3>4. LinkedRowsRead'
   BY <2>1 DEF GeometryInv, LinkedRowsRead, Chain, LeadsNowhere, Recall, fixedLinkVars
  <3> QED
   BY <3>2, <3>3, <3>4
 <2>2. ASSUME NEW status, NEW chain, Remember(status, chain), rows' = rows, asked # <<>>,
              status = "success" => Chain(chain, Wanted),
              status = "invalid" => LeadsNowhere(Wanted)
       PROVE PathOK' /\ LinkedRowsRead' /\ weight' = 0
  BY <1>6, <2>2, RememberKeepsRead DEF GeometryInv, Remember, PathOK
 <2>3. CASE VisitsExhausted
  BY <1>1, <1>2, <2>0, <2>2, <2>3 DEF VisitsExhausted, Exhaust, fixedLinkVars, BudgetOK, Remaining
 <2>4. CASE VisitBroken
  <3>1. used' = used /\ visits' = visits + 1 /\ visits < mostVisits /\ rows' = rows
   BY <2>4 DEF VisitBroken, fixedLinkVars
  <3>2. LeadsNowhere(Wanted)
   BY <2>4, <1>1, BrokenPathLeadsNowhere DEF VisitBroken, GeometryInv
  <3>3. PathOK' /\ LinkedRowsRead' /\ weight' = 0
   BY <2>2, <2>4, <3>1, <3>2, <1>1 DEF VisitBroken
  <3>4. BudgetOK'
   BY <2>0, <1>2, <3>1, <3>3 DEF BudgetOK, Remaining, fixedLinkVars
  <3> QED
   BY <3>3, <3>4
 <2>5. CASE Visit
  <3> DEFINE bytes == weight + rows[Current].bytes
  <3>1. visits' = visits + 1 /\ visits < mostVisits /\ rows' = rows /\ limit' = limit
        /\ mostVisits' = mostVisits
   BY <2>5 DEF Visit, fixedLinkVars
  <3>2. CASE Affordable(bytes)
   <4>1. path' = Append(path, Current) /\ weight' = bytes /\ UNCHANGED <<used, cache, asked>>
    BY <2>5, <3>2 DEF Visit
   <4>2. PathOK'
    BY <2>5, <3>1, <4>1, PathGrows DEF Visit, GeometryInv
   <4>3. LinkedRowsRead'
    BY <3>1, <4>1 DEF GeometryInv, LinkedRowsRead, Chain, LeadsNowhere
   <4>4. BudgetOK'
    BY <2>0, <3>1, <3>2, <4>1 DEF BudgetOK, Remaining, Affordable
   <4> QED
    BY <4>2, <4>3, <4>4
  <3>3. CASE ~Affordable(bytes)
   BY <1>1, <2>0, <2>2, <2>5, <3>1, <3>3 DEF Visit, Exhaust, BudgetOK, Remaining
  <3> QED
   BY <3>2, <3>3
 <2>6. CASE Resolve
  <3>1. used' = used + weight /\ visits' = visits /\ rows' = rows /\ Current = End
   BY <2>6 DEF Resolve, Spent, fixedLinkVars
  <3>2. Chain(path, Wanted)
   BY <3>1, <1>1, EndedPathIsChain DEF GeometryInv
  <3>3. PathOK' /\ LinkedRowsRead' /\ weight' = 0
   BY <2>2, <2>6, <3>1, <3>2, <1>1 DEF Resolve
  <3>4. BudgetOK'
   BY <2>0, <1>2, <3>1, <3>3 DEF GeometryInv, BudgetOK, Remaining, fixedLinkVars
  <3> QED
   BY <3>3, <3>4
 <2> QED
  BY <2>1, <2>3, <2>4, <2>5, <2>6 DEF Ask
<1> QED
 BY <1>3, <1>4, <1>5, <1>7 DEF GeometryInv
-----------------------------------------------------------------------------
\* An action that leaves the walk alone keeps what it leaves alone, and the limit.
LEMMA RestingKeeps ==
  ASSUME GeometryInv, Resting, used' \in 0..limit, ContoursOK'
  PROVE GeometryInv'
<1>1. Given' /\ WaitingOK' /\ PathOK'
 BY DEF GeometryInv, Given, WaitingOK, PathOK, Resting
<1>2. weight = 0
 BY DEF GeometryInv, PathOK, Resting
<1>3. BudgetOK'
 <2>1. limit' = limit /\ visits' = visits /\ mostVisits' = mostVisits /\ weight' = 0
  BY <1>2 DEF Resting
 <2>2. limit \in Nat /\ mostVisits \in Nat /\ visits \in 0..mostVisits
  BY DEF GeometryInv, Given, BudgetOK
 <2>3. \A u, l : l \in Nat /\ u \in 0..l => 0 \in 0..l - u
  OBVIOUS
 <2>4. 0 \in 0..limit - used'
  BY <2>2, <2>3, Zenon
 <2> QED
  BY <2>1, <2>2, <2>4 DEF BudgetOK, Remaining
<1>4. LinkedRowsRead'
 BY DEF GeometryInv, LinkedRowsRead, Chain, LeadsNowhere, Resting
<1> QED
 BY <1>1, <1>3, <1>4 DEF GeometryInv

LEMMA AskingKeeps ==
  ASSUME GeometryInv, Asking
  PROVE GeometryInv'
<1>1. Given' /\ ContoursOK'
 BY DEF GeometryInv, Given, ContoursOK, Asking
<1>2. path = <<>> /\ weight = 0
 BY DEF GeometryInv, PathOK, Asking
<1>3. PathOK'
 BY <1>2 DEF PathOK, Asking
<1>4. WaitingOK'
 BY DEF WaitingOK, AtRow, RowsOf, Asking
<1>5. BudgetOK'
 BY DEF GeometryInv, BudgetOK, Asking, Remaining
<1>6. LinkedRowsRead'
 BY DEF GeometryInv, LinkedRowsRead, Chain, LeadsNowhere, Asking
<1> QED
 BY <1>1, <1>3, <1>4, <1>5, <1>6 DEF GeometryInv

\* Every way an action spends keeps the limit.
LEMMA SpendingKeeps ==
  ASSUME GeometryInv
  PROVE /\ used \in 0..limit /\ limit \in 0..limit
        /\ \A bytes : Affordable(bytes) /\ Spent(bytes) => used' \in 0..limit
        /\ \A count, points : SpentOnCurves(count, points) => used' \in 0..limit
<1>1. used \in 0..limit /\ limit \in Nat
 BY DEF GeometryInv, Given, BudgetOK
<1>2. ASSUME NEW bytes, Affordable(bytes), Spent(bytes) PROVE used' \in 0..limit
 BY <1>1, <1>2 DEF Affordable, Spent, Remaining
<1>3. ASSUME NEW count, NEW points, SpentOnCurves(count, points) PROVE used' \in 0..limit
 <2>1. PICK n : Affordable(n * CurveBytes(points)) /\ Spent(n * CurveBytes(points))
  BY <1>3 DEF SpentOnCurves
 <2> QED
  BY <2>1, <1>2
<1> QED
 BY <1>1, <1>2, <1>3

\* No link is waited for but at a row of reinforcement.
LEMMA NotWaiting ==
  ASSUME GeometryInv, stage # "rebars" \/ ~AtRow(stage) \/ AtRound(round)
  PROVE asked = <<>>
BY DEF GeometryInv, WaitingOK, AtRow, AtRound

LEMMA SurfaceKeeps ==
  ASSUME GeometryInv, ReadContour \/ DrawSurface
  PROVE GeometryInv'
<1>1. asked = <<>>
 BY NotWaiting DEF ReadContour, DrawSurface, AtRow
<1>2. CASE ReadContour
 <2> DEFINE part == model.contours[row]  bytes == ChunkRecord + part.points * PairBytes
 <2>1. Resting
  BY <1>1, <1>2 DEF ReadContour, Resting, NextRow, fixedLinkVars, walkVars
 <2>2. part.points \in Nat
  BY <1>2, NonPartAssumption DEF GeometryInv, Given, ReadContour, AtRow, RowsOf
 <2>3. used' = used \/ (Affordable(bytes) /\ Spent(bytes))
  BY <1>2 DEF ReadContour
 <2>4. \/ contours' = contours
       \/ contours' = [k \in DOMAIN contours \cup {part.key} |->
                          (IF k \in DOMAIN contours THEN contours[k] ELSE 0)
                          + (IF k = part.key THEN part.points ELSE 0)]
  BY <1>2 DEF ReadContour
 <2> HIDE DEF part, bytes
 <2>5. used' \in 0..limit
  BY <2>3, SpendingKeeps
 <2>6. ContoursOK'
  BY <2>2, <2>4 DEF GeometryInv, ContoursOK
 <2> QED
  BY <2>1, <2>5, <2>6, RestingKeeps
<1>3. CASE DrawSurface
 <2> DEFINE surface == model.surfaces[row]
            q == contours[surface.contour]
            p == IF surface.closed /\ q > 3 THEN q - 1 ELSE q
 <2>1. Resting /\ ContoursOK'
  BY <1>1, <1>3
  DEF DrawSurface, Resting, NextRow, fixedLinkVars, walkVars, polygonVars, GeometryInv, ContoursOK
 <2>2. \/ used' = used
       \/ /\ SurfaceProblem(surface) = "none"
          /\ Spent(MeshBytes(SurfacePositions(p), SurfaceIndices(p)))
  BY <1>3 DEF DrawSurface
 <2>3. ASSUME SurfaceProblem(surface) = "none",
              Spent(MeshBytes(SurfacePositions(p), SurfaceIndices(p)))
       PROVE used' \in 0..limit
  <3>1. /\ surface.contour \in DOMAIN contours /\ ~(q < 3)
        /\ Affordable(MeshBytes(SurfacePositions(q), SurfaceIndices(q)))
   BY <2>3 DEF SurfaceProblem
  <3>2. q \in Nat
   BY <3>1 DEF GeometryInv, ContoursOK
  <3>3. p \in Nat /\ 1 <= p /\ p <= q
   BY <3>1, <3>2
  <3> HIDE DEF p, q
  <3>4. Affordable(MeshBytes(SurfacePositions(p), SurfaceIndices(p)))
   BY <3>1, <3>2, <3>3, SurfaceBytes DEF Affordable, Remaining, GeometryInv, Given, BudgetOK
  <3> QED
   BY <3>4, <2>3, SpendingKeeps
 <2>4. used' \in 0..limit
  BY <2>2, <2>3, SpendingKeeps
 <2> QED
  BY <2>1, <2>4, RestingKeeps
<1> QED
 BY <1>2, <1>3
LEMMA WeldKeeps ==
  ASSUME GeometryInv, ReadWeldRow \/ \E polygon \in todo : DrawWeld(polygon) \/ ReportWeld(polygon)
  PROVE GeometryInv'
<1>1. asked = <<>>
 BY NotWaiting DEF ReadWeldRow, DrawWeld, ReportWeld, AtRow
<1>2. CASE ReadWeldRow
 <2> DEFINE bytes == WeldRowRecord + model.weldRows[row].values * PointBytes
 <2>1. Resting /\ contours' = contours
  BY <1>1, <1>2 DEF ReadWeldRow, Resting, NextRow, fixedLinkVars, walkVars
 <2>2. used' = used \/ (Affordable(bytes) /\ Spent(bytes))
  BY <1>2 DEF ReadWeldRow
 <2> HIDE DEF bytes
 <2> QED
  BY <2>1, <2>2, SpendingKeeps, RestingKeeps DEF GeometryInv, ContoursOK
<1>3. ASSUME NEW polygon \in todo, DrawWeld(polygon) PROVE GeometryInv'
 BY <1>1, <1>3, SpendingKeeps, RestingKeeps DEF DrawWeld, Resting, fixedLinkVars, walkVars,
    polygonVars, WeldProblem, GeometryInv, ContoursOK
<1>4. ASSUME NEW polygon \in todo, ReportWeld(polygon) PROVE GeometryInv'
 BY <1>1, <1>4, SpendingKeeps, RestingKeeps DEF ReportWeld, Resting, Quiet, linkVars, polygonVars,
    GeometryInv, ContoursOK
<1> QED
 BY <1>2, <1>3, <1>4

LEMMA StageKeeps ==
  ASSUME GeometryInv, NoObjects \/ NextStage \/ DrawGrid \/ DrawBolt
  PROVE GeometryInv'
<1>1. asked = <<>>
 BY NotWaiting DEF NoObjects, NextStage, DrawGrid, DrawBolt, AtRow
<1>2. Resting /\ contours' = contours
 BY <1>1
 DEF NoObjects, NextStage, DrawGrid, DrawBolt, Resting, Quiet, linkVars, polygonVars, NextRow,
     fixedLinkVars, walkVars
<1>3. \/ used' = used \/ used' = limit
      \/ \E bytes : Affordable(bytes) /\ Spent(bytes)
 BY DEF NoObjects, NextStage, DrawGrid, DrawBolt, Quiet, linkVars, Exhaust
<1> QED
 BY <1>2, <1>3, SpendingKeeps, RestingKeeps DEF GeometryInv, ContoursOK
-----------------------------------------------------------------------------
(* Reinforcement. *)

\* A row is left with what was spent, or asks for more.
LEMMA LeavingKeeps ==
  ASSUME GeometryInv, asked = <<>>, Leave,
         \/ used' = used \/ used' = limit
         \/ \E bytes : Affordable(bytes) /\ Spent(bytes)
         \/ \E count, points : SpentOnCurves(count, points)
  PROVE GeometryInv'
BY SpendingKeeps, RestingKeeps DEF Leave, Resting, NextRow, fixedLinkVars, walkVars, polygonVars,
   GeometryInv, ContoursOK

LEMMA AskForKeeps ==
  ASSUME GeometryInv, asked = <<>>, AtRow("rebars"), NEW next,
         NEW links \in Seq(Links \cup {End}), AskFor(next, links)
  PROVE GeometryInv'
<1>1. Asking
 BY DEF AskFor, Asking, fixedLinkVars, polygonVars
<1> QED
 BY <1>1, AskingKeeps

LEMMA RebarKeeps ==
  ASSUME GeometryInv, BeginRebar \/ HearPolygon \/ HearSize \/ HearGroup \/ HearMesh \/ HearBentMesh
  PROVE GeometryInv'
<1>1. asked = <<>> /\ AtRow("rebars")
 BY DEF BeginRebar, HearPolygon, HearSize, HearGroup, HearMesh, HearBentMesh, AtRound
<1>2. RebarLinks(Bar) \subseteq Links \cup {End}
 BY <1>1, LinksOfBar DEF GeometryInv, Given
<1> DEFINE L == Links \cup {End}
<1>3. Bar.polygon \in L /\ Bar.size \in L /\ Bar.info \in L /\ Bar.spacing \in L
      /\ Bar.geometry \in L /\ Bar.bending \in L
 BY <1>2 DEF RebarLinks
<1>4. /\ <<Bar.polygon>> \in Seq(L) /\ <<Bar.size>> \in Seq(L)
      /\ <<Bar.info, Bar.spacing, Bar.geometry>> \in Seq(L)
      /\ <<Bar.size, Bar.spacing, Bar.geometry>>
             \o (IF Bar.subtype = "bent_mesh" THEN <<Bar.bending>> ELSE <<>>) \in Seq(L)
 <2> DEFINE none == << >>
            bent == <<Bar.bending>>
            three == <<Bar.size, Bar.spacing, Bar.geometry>>
 <2> HIDE DEF L
 <2>1. /\ <<Bar.polygon>> \in Seq(L) /\ <<Bar.size>> \in Seq(L)
       /\ <<Bar.info, Bar.spacing, Bar.geometry>> \in Seq(L)
       /\ three \in Seq(L) /\ bent \in Seq(L) /\ none \in Seq(L)
  BY <1>3
 <2> HIDE DEF three, bent, none
 <2> DEFINE rest == IF Bar.subtype = "bent_mesh" THEN bent ELSE none
 <2>2. rest \in Seq(L)
  BY <2>1
 <2> HIDE DEF rest
 <2>3. three \o rest \in Seq(L)
  BY <2>1, <2>2
 <2> QED
  BY <2>1, <2>3 DEF rest, three, bent, none
<1> DEFINE Ways == \/ \E next : \E links \in Seq(L) : AskFor(next, links)
                   \/ /\ Leave
                      /\ \/ used' = used \/ used' = limit
                         \/ \E bytes : Affordable(bytes) /\ Spent(bytes)
                         \/ \E count, points : SpentOnCurves(count, points)
<1>5. ASSUME Ways PROVE GeometryInv'
 BY <1>5, <1>1, LeavingKeeps, AskForKeeps
<1> HIDE DEF L
<1>6. ASSUME NEW code, Report(code) PROVE Leave
 BY <1>6 DEF Report
<1>7. ASSUME NEW bars, NEW count, NEW points, Expand(bars, count, points)
      PROVE Leave /\ SpentOnCurves(bars, points)
 BY <1>7 DEF Expand, Report
<1>8. CASE BeginRebar
 BY <1>8, <1>4, <1>5, <1>6 DEF BeginRebar
<1>9. CASE HearPolygon
 BY <1>9, <1>4, <1>5, <1>6 DEF HearPolygon
<1>10. CASE HearSize
 BY <1>10, <1>4, <1>5, <1>6, <1>7 DEF HearSize, Exhaust
<1>11. CASE HearGroup
 BY <1>11, <1>5, <1>6, <1>7 DEF HearGroup, Exhaust
<1>12. CASE HearMesh
 BY <1>12, <1>5, <1>6, <1>7 DEF HearMesh, Exhaust
<1>13. CASE HearBentMesh
 BY <1>13, <1>5, <1>6 DEF HearBentMesh
<1> QED
 BY <1>8, <1>9, <1>10, <1>11, <1>12, <1>13
-----------------------------------------------------------------------------
LEMMA GeometryInitKeeps == GeometryInit => GeometryInv
<1> SUFFICES ASSUME GeometryInit PROVE GeometryInv
 OBVIOUS
<1>1. model \in NonPartModels /\ rows = model.linked
 BY DEF GeometryInit
<1>2. limit \in Nat
 BY <1>1, NonPartAssumption DEF GeometryInit, Budget, Larger
<1>3. mostVisits \in Nat
 <2>1. Cardinality(DOMAIN rows) \in Nat
  BY <1>1, NonPartAssumption, FS_CardinalityType
 <2>2. limit \div VisitBytes \in Nat
  BY <1>2, LinksAssumption
 <2> QED
  BY <2>1, <2>2 DEF GeometryInit, MostVisits
<1>4. asked = <<>> /\ path = <<>> /\ weight = 0 /\ used = 0 /\ visits = 0
 BY DEF GeometryInit, NoneAsked
<1>5. DOMAIN cache = {} /\ DOMAIN contours = {}
 BY DEF GeometryInit
<1>6. BudgetOK
 BY <1>2, <1>3, <1>4 DEF BudgetOK, Remaining
<1>7. PathOK
 BY <1>4 DEF PathOK
<1> QED
 BY <1>1, <1>2, <1>3, <1>4, <1>5, <1>6, <1>7
 DEF GeometryInv, Given, WaitingOK, ContoursOK, LinkedRowsRead

LEMMA GeometryStepKeeps == GeometryInv /\ [GeometryNext]_geometryVars => GeometryInv'
<1> SUFFICES ASSUME GeometryInv, [GeometryNext]_geometryVars PROVE GeometryInv'
 OBVIOUS
<1>1. CASE UNCHANGED geometryVars
 BY <1>1
 DEF geometryVars, linkVars, polygonVars, GeometryInv, Given, BudgetOK, Remaining, PathOK, Wanted,
     Known, WaitingOK, AtRow, RowsOf, ContoursOK, LinkedRowsRead, Chain, LeadsNowhere
<1>2. CASE Decode
 BY <1>2, AskKeeps, RebarKeeps, StageKeeps, SurfaceKeeps, WeldKeeps DEF DecodeRebar, AskStep,
    Decode
<1> QED
 BY <1>1, <1>2 DEF GeometryNext, Finished

\* The limits of the request are kept by every reader, in every order of weld polygons, for all
\* tables, limits and sizes of records (RetainedGeometryBudget, LinkedRowVisitBudget).
THEOREM LimitsAreKept == GeometrySpec => []WithinLimits
<1>1. GeometryInv => WithinLimits
 BY DEF GeometryInv, Given, BudgetOK, WithinLimits
<1> QED
 BY <1>1, GeometryInitKeeps, GeometryStepKeeps, PTL DEF GeometrySpec

\* What is remembered of a link is its whole chain, or the link leads nowhere, for all tables
\* of linked rows (resolve_array, resolve_string).
THEOREM ChainsAreReadWhole == GeometrySpec => []LinkedRowsRead
<1>1. GeometryInv => LinkedRowsRead
 BY DEF GeometryInv
<1> QED
 BY <1>1, GeometryInitKeeps, GeometryStepKeeps, PTL DEF GeometrySpec
-----------------------------------------------------------------------------
(* What is retained was paid for: the sums, part by part. *)

IsList(s) == s \in Seq({s[i] : i \in DOMAIN s})

CurvesSum(c) == Total([i \in DOMAIN c |-> CurveBytes(c[i].points)])
MeshesSum(m) == Total([i \in DOMAIN m |-> MeshBytes(m[i].positions, m[i].indices)])
ChainSum(t, chain) == Total([i \in DOMAIN chain |-> t[chain[i]].bytes])
Succeeded(c) == {k \in DOMAIN c : c[k].status = "success"}
ReadSum(t, c) == Total([k \in Succeeded(c) |-> ChainSum(t, c[k].chain)])
PointsSum(c) == Total([k \in DOMAIN c |-> c[k] * PairBytes])
KeptBytesOf(parts) == Len(parts) * WeldRowRecord + Values(parts) * PointBytes
KeptSum(p) == Total([k \in DOMAIN p |-> KeptBytesOf(p[k])])

\* Curves and meshes of numbers.
CurvesOK(c) == IsList(c) /\ \A i \in DOMAIN c : c[i].points \in Nat
IsMesh(e) ==
  /\ e = [id |-> e.id, sweeps |-> e.sweeps, positions |-> e.positions, indices |-> e.indices]
  /\ e.positions \in Nat /\ e.indices \in Nat
MeshesOK(m) == IsList(m) /\ \A i \in DOMAIN m : IsMesh(m[i])

\* A weld has one mesh.
WeldsOnce(types, m) ==
  \A i, j \in DOMAIN m : m[i].id = m[j].id /\ types[m[i].id] = "weld" => i = j

\* The chains that are read are chains, and the rows met weigh what they weigh.
ReadOK ==
  /\ IsFiniteSet(DOMAIN cache)
  /\ \A k \in Succeeded(cache) : cache[k].chain \in Seq(Links)
  /\ weight = ChainSum(rows, path)

PartsOK(parts) == IsList(parts) /\ \A i \in DOMAIN parts : parts[i].values \in Nat

\* Rows are kept of polygons that have an owner, and only such polygons are gone through.
KeptOK ==
  /\ IsFiniteSet(DOMAIN kept)
  /\ \A p \in DOMAIN kept : PartsOK(kept[p]) /\ Owners(p) # {}
  /\ stage = "welds" => todo \subseteq DOMAIN kept

PaidInv ==
  /\ CurvesOK(curves) /\ MeshesOK(meshes) /\ WeldsOnce(model.types, meshes)
  /\ ReadOK /\ IsFiniteSet(DOMAIN contours) /\ KeptOK
  /\ CurvesSum(curves) + MeshesSum(meshes) + ReadSum(rows, cache) + PointsSum(contours)
         + KeptSum(kept) <= used

\* A list is a sequence over every set that has its members.
LEMMA ListOf ==
  ASSUME NEW s, NEW S, s \in Seq(S)
  PROVE  IsList(s) /\ Len(s) \in Nat /\ DOMAIN s = 1..Len(s)
<1>1. Len(s) \in Nat /\ DOMAIN s = 1..Len(s)
 OBVIOUS
<1>2. s = [i \in 1..Len(s) |-> s[i]]
 OBVIOUS
<1>3. \A i \in 1..Len(s) : s[i] \in {s[j] : j \in DOMAIN s}
 BY <1>1
<1>4. s \in [1..Len(s) -> {s[j] : j \in DOMAIN s}]
 BY <1>2, <1>3
<1> QED BY <1>1, <1>4 DEF IsList

LEMMA FunctionIsList ==
  ASSUME NEW n \in Nat, NEW s, s = [i \in 1..n |-> s[i]]
  PROVE  IsList(s)
<1> DEFINE S == {s[i] : i \in DOMAIN s}
<1>1. DOMAIN s = 1..n
 OBVIOUS
<1>2. \A i \in 1..n : s[i] \in S
 BY <1>1
<1> HIDE DEF S
<1>3. s \in [1..n -> S]
 BY <1>2
<1>4. s \in Seq(S)
 BY <1>3
<1> QED BY <1>4 DEF IsList, S

LEMMA ListFacts ==
  ASSUME NEW s, IsList(s)
  PROVE  Len(s) \in Nat /\ DOMAIN s = 1..Len(s) /\ IsFiniteSet(DOMAIN s)
BY ListOf, FS_Interval DEF IsList

\* A list with n times e behind it.
Longer(t, s, n, e) ==
  /\ IsList(t) /\ DOMAIN t = 1..Len(s) + n /\ Len(t) = Len(s) + n
  /\ \A i \in 1..Len(s) : t[i] = s[i]
  /\ \A i \in 1..Len(s) + n : i > Len(s) => t[i] = e

\* Equal members joined to a list.
LEMMA ListGrows ==
  ASSUME NEW s, IsList(s), NEW n \in Nat, NEW e
  PROVE  Longer(s \o [i \in 1..n |-> e], s, n, e)
<1> DEFINE S == {s[i] : i \in DOMAIN s} \cup {e}
           r == [i \in 1..n |-> e]
<1>1. Len(s) \in Nat /\ s \in Seq(S)
 BY ListFacts DEF IsList
<1>2. r \in Seq(S) /\ Len(r) = n /\ \A i \in 1..n : r[i] = e
 OBVIOUS
<1> HIDE DEF S, r
<1>3. /\ s \o r \in Seq(S) /\ Len(s \o r) = Len(s) + n
      /\ \A i \in 1..Len(s) + n : (s \o r)[i] = IF i <= Len(s) THEN s[i] ELSE r[i - Len(s)]
 BY <1>1, <1>2, ConcatProperties
<1>4. PICK t : t = s \o r
 OBVIOUS
<1>5. ASSUME NEW i \in 1..Len(s) + n, i > Len(s) PROVE r[i - Len(s)] = e
 BY <1>1, <1>2, <1>5
<1>6. IsList(t) /\ DOMAIN t = 1..Len(t)
 BY <1>3, <1>4, ListOf
<1>7. Longer(t, s, n, e)
 BY <1>1, <1>3, <1>4, <1>5, <1>6 DEF Longer
<1> QED BY <1>4, <1>7 DEF r

LEMMA ListAppends ==
  ASSUME NEW s, IsList(s), NEW e
  PROVE  Longer(Append(s, e), s, 1, e)
<1> DEFINE S == {s[i] : i \in DOMAIN s} \cup {e}
<1>1. Len(s) \in Nat /\ s \in Seq(S) /\ e \in S
 BY ListFacts DEF IsList
<1> HIDE DEF S
<1>0. PICK t : t = Append(s, e)
 OBVIOUS
<1>2. /\ t \in Seq(S) /\ Len(t) = Len(s) + 1 /\ t[Len(s) + 1] = e
      /\ \A i \in 1..Len(s) : t[i] = s[i]
 BY <1>0, <1>1
<1>3. IsList(t) /\ DOMAIN t = 1..Len(t)
 BY <1>2, ListOf
<1>4. \A i \in 1..Len(s) + 1 : i > Len(s) => t[i] = e
 BY <1>1, <1>2
<1> QED BY <1>0, <1>2, <1>3, <1>4 DEF Longer

\* Members of a list that are added to a sum, all of one value.
MoreOf(f, g, m, n, c) ==
  /\ m \in Nat /\ n \in Nat /\ c \in Nat
  /\ DOMAIN f = 1..m /\ DOMAIN g = 1..m + n
  /\ \A i \in 1..m : f[i] \in Nat /\ g[i] = f[i]
  /\ \A i \in 1..m + n : i > m => g[i] = c

LEMMA TotalOfMore ==
  ASSUME NEW m, NEW n, NEW c, NEW f, NEW g, MoreOf(f, g, m, n, c)
  PROVE  Numbers(f) /\ Numbers(g) /\ Total(f) \in Nat /\ Total(g) = Total(f) + n * c
<1>0. /\ m \in Nat /\ n \in Nat /\ c \in Nat
      /\ DOMAIN f = 1..m /\ DOMAIN g = 1..m + n
      /\ \A i \in 1..m : f[i] \in Nat /\ g[i] = f[i]
      /\ \A i \in 1..m + n : i > m => g[i] = c
 BY DEF MoreOf
<1> USE <1>0
<1> DEFINE first(k) == [i \in 1..m + k |-> g[i]]
           P == {k \in Nat : k <= n => Total(first(k)) = Total(f) + k * c}
<1>1. \A i \in 1..m + n : g[i] \in Nat
 OBVIOUS
<1>2. ASSUME NEW k \in Nat, k <= n PROVE Numbers(first(k))
 <2>1. IsFiniteSet(1..m + k)
  BY FS_Interval
 <2>2. \A i \in 1..m + k : g[i] \in Nat
  BY <1>1, <1>2
 <2> QED BY <2>1, <2>2 DEF Numbers
<1>3. Numbers(f) /\ Total(f) \in Nat
 <2>1. IsFiniteSet(1..m)
  BY FS_Interval
 <2> QED BY <2>1, TotalIsNumber DEF Numbers
<1>4. 0 \in P
 <2>1. DOMAIN first(0) = DOMAIN f /\ \A i \in DOMAIN f : first(0)[i] = f[i]
  OBVIOUS
 <2>2. Total(first(0)) = Total(f)
  BY <1>3, <2>1, TotalSame
 <2> HIDE DEF first
 <2> QED BY <1>3, <2>2
<1>5. ASSUME NEW k \in Nat, k \in P PROVE k + 1 \in P
 <2> SUFFICES ASSUME k + 1 <= n PROVE Total(first(k + 1)) = Total(f) + (k + 1) * c
  OBVIOUS
 <2>1. Total(first(k)) = Total(f) + k * c
  BY <1>5
 <2>2. Numbers(first(k + 1))
  <3>1. k + 1 \in Nat
   OBVIOUS
  <3> HIDE DEF first
  <3> QED BY <1>2, <3>1
 <2>3. m + k + 1 \in DOMAIN first(k + 1) /\ first(k + 1)[m + k + 1] = c
  OBVIOUS
 <2>4. /\ DOMAIN first(k) = DOMAIN first(k + 1) \ {m + k + 1}
       /\ \A i \in DOMAIN first(k) : first(k)[i] = first(k + 1)[i]
  BY SMTT(30)
 <2> HIDE DEF first
 <2>5. Total(first(k + 1)) = c + Total(first(k))
  BY <2>2, <2>3, <2>4, TotalWithout, ZenonT(40)
 <2>6. PICK r \in Nat : r = Total(f)
  BY <1>3
 <2>7. (k + 1) * c = k * c + c /\ k * c \in Nat
  BY Products
 <2> QED BY <2>1, <2>5, <2>6, <2>7
<1>6. Nat \subseteq P
 <2> HIDE DEF P
 <2> QED BY <1>4, <1>5, SetInduction
<1>7. Total(first(n)) = Total(f) + n * c
 BY <1>6
<1>8. Numbers(g)
 BY <1>1, FS_Interval, SMTT(30) DEF Numbers
<1>9. Total(first(n)) = Total(g)
 BY <1>8, TotalSame
<1> QED BY <1>3, <1>7, <1>8, <1>9

\* Curves with n more of one element, with so many points each.
MoreCurves(c, n, id, p) == c \o [i \in 1..n |-> [id |-> id, points |-> p]]

\* More curves cost what each of them does.
LEMMA CurvesGrow ==
  ASSUME NEW c, CurvesOK(c), NEW n \in Nat, NEW id, NEW p \in Nat,
         NEW d, d = MoreCurves(c, n, id, p)
  PROVE  CurvesOK(d) /\ CurvesSum(c) \in Nat /\ CurvesSum(d) = CurvesSum(c) + n * CurveBytes(p)
<1> DEFINE e == [id |-> id, points |-> p]
           f == [i \in DOMAIN c |-> CurveBytes(c[i].points)]
           g == [i \in DOMAIN d |-> CurveBytes(d[i].points)]
<1>1. /\ IsList(d) /\ DOMAIN d = 1..Len(c) + n /\ Len(d) = Len(c) + n
      /\ \A i \in 1..Len(c) : d[i] = c[i]
      /\ \A i \in 1..Len(c) + n : i > Len(c) => d[i] = e
 <2>1. d = c \o [i \in 1..n |-> e] /\ IsList(c)
  BY DEF CurvesOK, MoreCurves
 <2> HIDE DEF e
 <2>2. Longer(c \o [i \in 1..n |-> e], c, n, e)
  BY <2>1, ListGrows
 <2> QED BY <2>1, <2>2 DEF Longer
<1>2. Len(c) \in Nat /\ DOMAIN c = 1..Len(c)
 BY ListFacts DEF CurvesOK
<1>3. e.points = p
 OBVIOUS
<1> HIDE DEF e
<1>4. \A i \in 1..Len(c) + n : d[i].points \in Nat
 <2> SUFFICES ASSUME NEW i \in 1..Len(c) + n PROVE d[i].points \in Nat
  OBVIOUS
 <2>1. CASE i > Len(c)
  BY <2>1, <1>1, <1>3
 <2>2. CASE ~(i > Len(c))
  BY <1>1, <1>2, <2>2 DEF CurvesOK
 <2> QED BY <2>1, <2>2
<1>5. \A q \in Nat : CurveBytes(q) \in Nat
 BY LinksAssumption, Products DEF CurveBytes
<1>6. \A i \in 1..Len(c) : f[i] \in Nat /\ g[i] = f[i]
 <2> SUFFICES ASSUME NEW i \in 1..Len(c) PROVE f[i] \in Nat /\ g[i] = f[i]
  OBVIOUS
 <2>1. c[i].points \in Nat /\ d[i] = c[i] /\ i \in DOMAIN d
  BY <1>1, <1>2 DEF CurvesOK
 <2>2. f[i] = CurveBytes(c[i].points) /\ g[i] = CurveBytes(c[i].points)
  BY <1>2, <2>1
 <2> QED BY <1>5, <2>1, <2>2
<1>7. \A i \in 1..Len(c) + n : i > Len(c) => g[i] = CurveBytes(p)
 BY <1>1, <1>3
<1>8. DOMAIN f = 1..Len(c) /\ DOMAIN g = 1..Len(c) + n /\ CurveBytes(p) \in Nat
 BY <1>1, <1>2, <1>5
<1> HIDE DEF f, g
<1>9. Total(f) \in Nat /\ Total(g) = Total(f) + n * CurveBytes(p)
 <2>1. MoreOf(f, g, Len(c), n, CurveBytes(p))
  BY <1>2, <1>6, <1>7, <1>8 DEF MoreOf
 <2> QED BY <2>1, TotalOfMore
<1>10. Total(f) = CurvesSum(c) /\ Total(g) = CurvesSum(d)
 BY DEF f, g, CurvesSum
<1> QED BY <1>1, <1>4, <1>9, <1>10 DEF CurvesOK

LEMMA MeshCosts == \A p, q \in Nat : MeshBytes(p, q) \in Nat
 BY LinksAssumption, Products DEF MeshBytes

\* One more mesh.
LEMMA MeshesGrow ==
  ASSUME NEW m, MeshesOK(m), NEW e, IsMesh(e),
         NEW d, d = Append(m, e)
  PROVE  /\ MeshesOK(d) /\ MeshesSum(m) \in Nat
         /\ MeshesSum(d) = MeshesSum(m) + MeshBytes(e.positions, e.indices)
<1> DEFINE f == [i \in DOMAIN m |-> MeshBytes(m[i].positions, m[i].indices)]
           g == [i \in DOMAIN d |-> MeshBytes(d[i].positions, d[i].indices)]
           b == MeshBytes(e.positions, e.indices)
<1>1. /\ IsList(d) /\ DOMAIN d = 1..Len(m) + 1
      /\ \A i \in 1..Len(m) : d[i] = m[i]
      /\ d[Len(m) + 1] = e
 BY ListAppends, ListFacts DEF MeshesOK, Longer
<1>2. Len(m) \in Nat /\ DOMAIN m = 1..Len(m)
 BY ListFacts DEF MeshesOK
<1>3. \A i \in 1..Len(m) + 1 : i \in 1..Len(m) \/ i = Len(m) + 1
 BY <1>2
<1>4. MeshesOK(d)
 BY <1>1, <1>2, <1>3 DEF MeshesOK
<1>5. \A i \in 1..Len(m) : f[i] \in Nat /\ g[i] = f[i]
 BY <1>1, <1>2, MeshCosts DEF MeshesOK, IsMesh
<1>6. \A i \in 1..Len(m) + 1 : i > Len(m) => g[i] = b
 BY <1>1, <1>2
<1>7. DOMAIN f = 1..Len(m) /\ DOMAIN g = 1..Len(m) + 1 /\ b \in Nat
 BY <1>1, <1>2, MeshCosts DEF IsMesh
<1> HIDE DEF f, g, b
<1>8. Total(f) \in Nat /\ Total(g) = Total(f) + 1 * b
 <2>1. MoreOf(f, g, Len(m), 1, b)
  BY <1>2, <1>5, <1>6, <1>7 DEF MoreOf
 <2> QED BY <2>1, TotalOfMore
<1>9. Total(f) = MeshesSum(m) /\ Total(g) = MeshesSum(d)
 BY DEF f, g, MeshesSum
<1> QED BY <1>4, <1>7, <1>8, <1>9 DEF b

\* One mesh grows.
LEMMA MeshGrows ==
  ASSUME NEW m, MeshesOK(m), NEW d, DOMAIN d = DOMAIN m, IsList(d), NEW k \in DOMAIN m,
         \A i \in DOMAIN m : i # k => d[i] = m[i],
         NEW p \in Nat, NEW q \in Nat, IsMesh(d[k]),
         d[k].positions = m[k].positions + p, d[k].indices = m[k].indices + q
  PROVE  /\ MeshesOK(d) /\ MeshesSum(m) \in Nat
         /\ MeshesSum(d) = MeshesSum(m) + p * PositionBytes + q * IndexBytes
<1> DEFINE f == [i \in DOMAIN m |-> MeshBytes(m[i].positions, m[i].indices)]
           g == [i \in DOMAIN d |-> MeshBytes(d[i].positions, d[i].indices)]
<1>1. MeshesOK(d)
 BY DEF MeshesOK
<1>2. IsFiniteSet(DOMAIN m)
 BY ListFacts DEF MeshesOK
<1>3. Numbers(f) /\ Numbers(g)
 BY <1>1, <1>2, MeshCosts DEF Numbers, MeshesOK, IsMesh
<1>4. \A i \in DOMAIN f : i # k => g[i] = f[i]
 OBVIOUS
<1>5. g[k] = f[k] + p * PositionBytes + q * IndexBytes /\ f[k] \in Nat
 <2>1. PICK x \in Nat, y \in Nat : x = m[k].positions /\ y = m[k].indices
  BY DEF MeshesOK, IsMesh
 <2>2. f[k] = MeshBytes(x, y) /\ g[k] = MeshBytes(x + p, y + q)
  BY <2>1
 <2> HIDE DEF f, g
 <2>3. MeshBytes(x + p, y + q) = MeshBytes(x, y) + p * PositionBytes + q * IndexBytes
  <3>1. \A a, b, c \in Nat : (a + b) * c = a * c + b * c
   OBVIOUS
  <3>2. MeshRecord \in Nat /\ PositionBytes \in Nat /\ IndexBytes \in Nat
   BY LinksAssumption
  <3>3. (x + p) * PositionBytes = x * PositionBytes + p * PositionBytes
        /\ (y + q) * IndexBytes = y * IndexBytes + q * IndexBytes
   BY <3>1, <3>2
  <3>4. /\ x * PositionBytes \in Nat /\ p * PositionBytes \in Nat
        /\ y * IndexBytes \in Nat /\ q * IndexBytes \in Nat
   BY <3>2, Products
  <3> QED BY <3>2, <3>3, <3>4 DEF MeshBytes
 <2> QED BY <2>1, <2>2, <2>3, MeshCosts
<1>6. DOMAIN g = DOMAIN f /\ k \in DOMAIN f
 OBVIOUS
<1> HIDE DEF f, g
<1>7. Total(g) - g[k] = Total(f) - f[k]
 BY <1>3, <1>4, <1>6, TotalChanged
<1>8. Total(f) \in Nat /\ Total(g) \in Nat
 BY <1>3, TotalIsNumber
<1>9. p * PositionBytes \in Nat /\ q * IndexBytes \in Nat
 BY LinksAssumption, Products
<1>10. Total(f) = MeshesSum(m) /\ Total(g) = MeshesSum(d)
 BY DEF f, g, MeshesSum
<1> QED BY <1>1, <1>5, <1>7, <1>8, <1>9, <1>10

\* A chain weighs what its rows do.
LEMMA ChainWeighs ==
  ASSUME NEW t, LinkTable(t), NEW chain \in Seq(Links), \A i \in DOMAIN chain : chain[i] \in DOMAIN t
  PROVE  /\ ChainSum(t, chain) \in Nat /\ ChainSum(t, <<>>) = 0
         /\ \A k \in DOMAIN t : ChainSum(t, Append(chain, k)) = ChainSum(t, chain) + t[k].bytes
<1> DEFINE f == [i \in DOMAIN chain |-> t[chain[i]].bytes]
<1>1. Len(chain) \in Nat /\ DOMAIN chain = 1..Len(chain)
 OBVIOUS
<1>2. \A k \in DOMAIN t : k \in Links /\ t[k].bytes \in Nat
 BY DEF LinkTable, LinkedRow
<1>3. \A i \in 1..Len(chain) : f[i] \in Nat /\ f[i] = t[chain[i]].bytes
 BY <1>1, <1>2
<1>4. DOMAIN f = 1..Len(chain)
 BY <1>1
<1>5. ChainSum(t, chain) = Total(f)
 BY DEF ChainSum
<1> HIDE DEF f
<1>6. Total(f) \in Nat
 <2>1. IsFiniteSet(1..Len(chain))
  BY <1>1, FS_Interval
 <2> QED BY <1>3, <1>4, <2>1, TotalIsNumber DEF Numbers
<1>7. ChainSum(t, <<>>) = 0
 <2> DEFINE h == [i \in DOMAIN << >> |-> t[<< >>[i]].bytes]
 <2>1. DOMAIN h = {}
  OBVIOUS
 <2>2. ChainSum(t, <<>>) = Total(h)
  BY DEF ChainSum
 <2> HIDE DEF h
 <2>3. Numbers(h)
  BY <2>1, FS_EmptySet DEF Numbers
 <2> QED BY <2>1, <2>2, <2>3, TotalIsNumber
<1>8. ASSUME NEW k \in DOMAIN t
      PROVE ChainSum(t, Append(chain, k)) = ChainSum(t, chain) + t[k].bytes
 <2>1. PICK d : d = Append(chain, k)
  OBVIOUS
 <2>2. k \in Links
  BY <1>2
 <2>3. /\ DOMAIN d = 1..Len(chain) + 1 /\ d[Len(chain) + 1] = k
       /\ \A i \in 1..Len(chain) : d[i] = chain[i]
  BY <2>1, <2>2
 <2> DEFINE g == [i \in DOMAIN d |-> t[d[i]].bytes]
 <2>4. ChainSum(t, d) = Total(g)
  BY DEF ChainSum
 <2>5. /\ DOMAIN g = 1..Len(chain) + 1
       /\ \A i \in 1..Len(chain) : g[i] = t[chain[i]].bytes
       /\ g[Len(chain) + 1] = t[k].bytes
  BY <1>1, <2>3
 <2> HIDE DEF g
 <2>6. MoreOf(f, g, Len(chain), 1, t[k].bytes)
  BY <1>1, <1>2, <1>3, <1>4, <2>5 DEF MoreOf
 <2>7. Total(g) = Total(f) + 1 * t[k].bytes
  BY <2>6, TotalOfMore
 <2> QED BY <1>2, <1>5, <1>6, <2>1, <2>4, <2>7
<1> QED BY <1>5, <1>6, <1>7, <1>8

\* What is known with an answer for one more link, and the contours with more points of one.
WithLink(c, w, status, chain) ==
  [k \in DOMAIN c \cup {w} |-> IF k = w THEN [status |-> status, chain |-> chain] ELSE c[k]]
WithPoints(c, w, n) ==
  [k \in DOMAIN c \cup {w} |-> (IF k \in DOMAIN c THEN c[k] ELSE 0) + (IF k = w THEN n ELSE 0)]

\* One more link is known: what is read grows by its chain, if it is one.
LEMMA ReadGrows ==
  ASSUME NEW t, NEW c, IsFiniteSet(DOMAIN c),
         \A k \in Succeeded(c) : ChainSum(t, c[k].chain) \in Nat,
         NEW w, w \notin DOMAIN c, NEW status, NEW chain, ChainSum(t, chain) \in Nat,
         NEW d, d = WithLink(c, w, status, chain)
  PROVE  /\ IsFiniteSet(DOMAIN d) /\ ReadSum(t, c) \in Nat
         /\ status # "success" => Succeeded(d) = Succeeded(c) /\ ReadSum(t, d) = ReadSum(t, c)
         /\ status = "success" => /\ Succeeded(d) = Succeeded(c) \cup {w}
                                  /\ ReadSum(t, d) = ReadSum(t, c) + ChainSum(t, chain)
<1> DEFINE f == [k \in Succeeded(c) |-> ChainSum(t, c[k].chain)]
           g == [k \in Succeeded(d) |-> ChainSum(t, d[k].chain)]
<1>1. /\ DOMAIN d = DOMAIN c \cup {w}
      /\ d[w].status = status /\ d[w].chain = chain
      /\ \A k \in DOMAIN c : k # w /\ d[k] = c[k]
 BY DEF WithLink
<1>2. IsFiniteSet(DOMAIN d)
 BY <1>1, FS_AddElement
<1>3. Succeeded(c) \subseteq DOMAIN c /\ Succeeded(d) \subseteq DOMAIN d
 BY DEF Succeeded
<1>4. IsFiniteSet(Succeeded(c)) /\ IsFiniteSet(Succeeded(d))
 BY <1>2, <1>3, FS_Subset
<1>5. Succeeded(d) = IF status = "success" THEN Succeeded(c) \cup {w} ELSE Succeeded(c)
 BY <1>1 DEF Succeeded
<1>6. ReadSum(t, c) = Total(f) /\ ReadSum(t, d) = Total(g)
 BY DEF ReadSum
<1>7. /\ DOMAIN f = Succeeded(c) /\ DOMAIN g = Succeeded(d)
      /\ \A k \in Succeeded(c) : f[k] = ChainSum(t, c[k].chain)
      /\ \A k \in Succeeded(d) : g[k] = ChainSum(t, d[k].chain)
 OBVIOUS
<1> HIDE DEF f, g
<1>8. \A k \in Succeeded(c) : k \in Succeeded(d) /\ f[k] = g[k]
 BY <1>1, <1>3, <1>5, <1>7
<1>9. Numbers(f) /\ Total(f) \in Nat
 BY <1>4, <1>7, TotalIsNumber DEF Numbers
<1>10. CASE status # "success"
 BY <1>2, <1>5, <1>6, <1>7, <1>8, <1>9, <1>10, TotalSame
<1>11. CASE status = "success"
 <2>1. w \in DOMAIN g /\ g[w] = ChainSum(t, chain)
  BY <1>1, <1>5, <1>7, <1>11
 <2>2. Numbers(g)
  BY <1>4, <1>5, <1>7, <1>8, <1>11, <2>1 DEF Numbers
 <2>3. w \notin Succeeded(c)
  BY <1>3
 <2>4. DOMAIN f = DOMAIN g \ {w} /\ \A k \in DOMAIN f : f[k] = g[k]
  BY <1>5, <1>7, <1>8, <1>11, <2>3
 <2>5. Total(g) = g[w] + Total(f)
  BY <2>1, <2>2, <2>4, TotalWithout, ZenonT(40)
 <2>6. ReadSum(t, d) = ReadSum(t, c) + ChainSum(t, chain)
  BY <1>6, <1>9, <2>1, <2>5
 <2>7. Succeeded(d) = Succeeded(c) \cup {w}
  BY <1>5, <1>11
 <2> QED BY <1>2, <1>6, <1>9, <1>11, <2>6, <2>7
<1> QED BY <1>10, <1>11

\* Points are added to a contour, which may be a new one.
LEMMA PointsGrow ==
  ASSUME NEW c, IsFiniteSet(DOMAIN c), \A k \in DOMAIN c : c[k] \in Nat, NEW w, NEW n \in Nat,
         NEW d, d = WithPoints(c, w, n)
  PROVE  /\ IsFiniteSet(DOMAIN d) /\ PointsSum(c) \in Nat
         /\ PointsSum(d) = PointsSum(c) + n * PairBytes
<1> DEFINE f == [k \in DOMAIN c |-> c[k] * PairBytes]
           g == [k \in DOMAIN d |-> d[k] * PairBytes]
<1>1. /\ DOMAIN d = DOMAIN c \cup {w}
      /\ \A k \in DOMAIN c : k # w => d[k] = c[k]
      /\ d[w] = (IF w \in DOMAIN c THEN c[w] ELSE 0) + n
 BY DEF WithPoints
<1>2. \A k \in DOMAIN d : d[k] \in Nat
 BY DEF WithPoints
<1>3. IsFiniteSet(DOMAIN d)
 BY <1>1, FS_AddElement
<1>4. PairBytes \in Nat
 BY NonPartAssumption
<1>5. /\ DOMAIN f = DOMAIN c /\ \A k \in DOMAIN c : f[k] = c[k] * PairBytes
      /\ DOMAIN g = DOMAIN d /\ \A k \in DOMAIN d : g[k] = d[k] * PairBytes
 OBVIOUS
<1>6. PointsSum(c) = Total(f) /\ PointsSum(d) = Total(g)
 BY DEF PointsSum
<1> HIDE DEF f, g
<1>7. Numbers(f) /\ Numbers(g)
 BY <1>2, <1>3, <1>4, <1>5, Products DEF Numbers
<1>8. Total(f) \in Nat /\ Total(g) \in Nat
 BY <1>7, TotalIsNumber
<1>9. n * PairBytes \in Nat
 BY <1>4, Products
<1>10. CASE w \in DOMAIN c
 <2>1. Total(g) - g[w] = Total(f) - f[w]
  <3>1. DOMAIN g = DOMAIN f /\ w \in DOMAIN f /\ \A k \in DOMAIN f : w # k => g[k] = f[k]
   BY <1>1, <1>5, <1>10
  <3> QED BY <1>7, <3>1, TotalChanged
 <2>2. g[w] = f[w] + n * PairBytes /\ f[w] \in Nat
  <3>1. PICK x \in Nat : x = c[w]
   BY <1>10
  <3>2. (x + n) * PairBytes = x * PairBytes + n * PairBytes /\ x * PairBytes \in Nat
   BY <1>4, Products
  <3> QED BY <1>1, <1>5, <1>10, <3>1, <3>2
 <2> QED BY <1>3, <1>6, <1>8, <1>9, <2>1, <2>2
<1>11. CASE w \notin DOMAIN c
 <2>1. Total(g) = g[w] + Total(f)
  <3>0. w \in DOMAIN g /\ DOMAIN f = DOMAIN g \ {w}
   BY ONLY <1>1, <1>5, <1>11
  <3>1. \A k \in DOMAIN f : f[k] = g[k]
   BY <1>1, <1>5, <1>11, Zenon
  <3> QED BY <1>7, <3>0, <3>1, TotalWithout
 <2>2. g[w] = n * PairBytes
  BY <1>1, <1>5, <1>11
 <2> QED BY <1>3, <1>6, <1>8, <1>9, <2>1, <2>2
<1> QED BY <1>10, <1>11

\* A part behind some others: its values are added.
LEMMA ValuesGrow ==
  ASSUME NEW parts, PartsOK(parts), NEW part, part.values \in Nat
  PROVE  /\ PartsOK(parts \o <<part>>) /\ Values(parts) \in Nat
         /\ Len(parts) \in Nat /\ Len(parts \o <<part>>) = Len(parts) + 1
         /\ Values(parts \o <<part>>) = Values(parts) + part.values
<1> DEFINE S == {parts[i] : i \in DOMAIN parts} \cup {part}
           l == Len(parts)
<1>1. l \in Nat /\ DOMAIN parts = 1..l /\ parts \in Seq(S) /\ <<part>> \in Seq(S)
 BY ListFacts DEF PartsOK, IsList
<1> HIDE DEF S
<1>2. PICK more : more = parts \o <<part>>
 OBVIOUS
<1>3. /\ more \in Seq(S) /\ Len(more) = l + 1
      /\ \A i \in 1..l + 1 : more[i] = IF i <= l THEN parts[i] ELSE <<part>>[i - l]
 BY <1>1, <1>2, ConcatProperties
<1>4. /\ \A i \in 1..l : i \in 1..l + 1 /\ more[i] = parts[i]
      /\ \A i \in 1..l + 1 : i > l => i = l + 1 /\ more[i] = part
 BY <1>1, <1>3
<1>5. IsList(more) /\ DOMAIN more = 1..l + 1
 BY <1>3, ListOf
<1>6. \A i \in 1..l : parts[i].values \in Nat
 BY <1>1 DEF PartsOK
<1>7. \A i \in 1..l + 1 : more[i].values \in Nat
 BY <1>1, <1>4, <1>6
<1>8. PartsOK(more)
 BY <1>5, <1>7 DEF PartsOK
<1> DEFINE f == [i \in DOMAIN parts |-> parts[i].values]
           g == [i \in DOMAIN more |-> more[i].values]
<1>9. /\ Values(parts) = Total(f) /\ Values(more) = Total(g)
      /\ DOMAIN f = 1..l /\ DOMAIN g = 1..l + 1
      /\ \A i \in 1..l : f[i] = parts[i].values
      /\ \A i \in 1..l + 1 : g[i] = more[i].values
 BY <1>1, <1>5 DEF Values
<1> HIDE DEF f, g
<1>10. MoreOf(f, g, l, 1, part.values)
 BY <1>1, <1>4, <1>6, <1>9 DEF MoreOf
<1>11. Total(f) \in Nat /\ Total(g) = Total(f) + 1 * part.values
 BY <1>10, TotalOfMore
<1> QED BY <1>1, <1>2, <1>3, <1>8, <1>9, <1>11

LEMMA NoParts == PartsOK(<<>>) /\ Values(<<>>) = 0 /\ Len(<<>>) = 0
<1>1. IsList(<<>>)
 <2>1. <<>> \in Seq({})
  OBVIOUS
 <2> QED BY <2>1, ListOf
<1> DEFINE none == << >>
           f == [i \in DOMAIN none |-> none[i].values]
<1>2. DOMAIN f = {} /\ DOMAIN none = {}
 OBVIOUS
<1>3. Values(none) = Total(f)
 BY DEF Values
<1>4. PartsOK(none)
 BY <1>1, <1>2 DEF PartsOK
<1> HIDE DEF f
<1>5. Numbers(f)
 BY <1>2, FS_EmptySet DEF Numbers
<1> QED BY <1>2, <1>3, <1>4, <1>5, TotalIsNumber

LEMMA PartsCost ==
  ASSUME NEW parts, PartsOK(parts)
  PROVE  Values(parts) \in Nat /\ Len(parts) \in Nat /\ KeptBytesOf(parts) \in Nat
<1>1. IsList(parts) /\ \A i \in DOMAIN parts : parts[i].values \in Nat
 BY DEF PartsOK
<1>2. Len(parts) \in Nat /\ IsFiniteSet(DOMAIN parts)
 BY <1>1, ListFacts
<1> DEFINE f == [i \in DOMAIN parts |-> parts[i].values]
<1>3. Numbers(f)
 BY <1>1, <1>2 DEF Numbers
<1>4. Values(parts) = Total(f)
 BY DEF Values
<1> HIDE DEF f
<1>5. Values(parts) \in Nat
 BY <1>3, <1>4, TotalIsNumber
<1>6. PICK v \in Nat, l \in Nat : v = Values(parts) /\ l = Len(parts)
 BY <1>2, <1>5
<1>7. l * WeldRowRecord \in Nat /\ v * PointBytes \in Nat
 BY NonPartAssumption, LinksAssumption, Products
<1> QED BY <1>2, <1>5, <1>6, <1>7 DEF KeptBytesOf

\* The rows kept with one more of a polygon.
WithRow(c, w, part) ==
  [p \in DOMAIN c \cup {w} |-> (IF p \in DOMAIN c THEN c[p] ELSE <<>>)
                               \o (IF p = w THEN <<part>> ELSE <<>>)]

\* The rows of polygons, and those with one more row of a polygon, which may be a new one.
KeepsRows(c) == IsFiniteSet(DOMAIN c) /\ \A p \in DOMAIN c : PartsOK(c[p])
KeptMore(c, d, w, n) ==
  /\ KeepsRows(d) /\ DOMAIN d = DOMAIN c \cup {w}
  /\ KeptSum(d) = KeptSum(c) + WeldRowRecord + n * PointBytes

\* A row is kept of a polygon.
LEMMA KeptGrows ==
  ASSUME NEW c, KeepsRows(c), NEW w, NEW part, part.values \in Nat,
         NEW d, d = WithRow(c, w, part)
  PROVE  KeptMore(c, d, w, part.values)
<1>0. IsFiniteSet(DOMAIN c) /\ \A p \in DOMAIN c : PartsOK(c[p])
 BY DEF KeepsRows
<1> USE <1>0
<1> DEFINE f == [p \in DOMAIN c |-> KeptBytesOf(c[p])]
           g == [p \in DOMAIN d |-> KeptBytesOf(d[p])]
           old == IF w \in DOMAIN c THEN c[w] ELSE <<>>
<1>1. DOMAIN d = DOMAIN c \cup {w} /\ d[w] = old \o <<part>>
 BY DEF WithRow
<1>2. \A p \in DOMAIN c : p # w => d[p] = c[p]
 <2> SUFFICES ASSUME NEW p \in DOMAIN c, p # w PROVE d[p] = c[p]
  OBVIOUS
 <2>1. d[p] = c[p] \o <<>>
  BY DEF WithRow
 <2>2. c[p] \in Seq({c[p][i] : i \in DOMAIN c[p]})
  BY DEF PartsOK, IsList
 <2>3. c[p] \o <<>> = c[p]
  BY <2>2, ConcatEmptySeq
 <2> QED BY <2>1, <2>3
<1>3. PartsOK(old)
 BY NoParts
<1> HIDE DEF old
<1>4. PartsOK(d[w])
 BY <1>1, <1>3, ValuesGrow
<1>5. \A p \in DOMAIN d : PartsOK(d[p])
 BY ONLY <1>0, <1>1, <1>2, <1>4
<1>6. IsFiniteSet(DOMAIN d)
 BY <1>1, FS_AddElement
<1>7. KeptBytesOf(d[w]) = KeptBytesOf(old) + WeldRowRecord + part.values * PointBytes
      /\ KeptBytesOf(old) \in Nat
 <2>1. PICK l \in Nat, v \in Nat : l = Len(old) /\ v = Values(old)
  BY <1>3, PartsCost
 <2>2. Len(d[w]) = l + 1 /\ Values(d[w]) = v + part.values
  BY <1>1, <1>3, <2>1, ValuesGrow
 <2>3. PICK x \in Nat : x = part.values
  OBVIOUS
 <2>4. (l + 1) * WeldRowRecord = l * WeldRowRecord + WeldRowRecord
       /\ (v + x) * PointBytes = v * PointBytes + x * PointBytes
  BY NonPartAssumption, LinksAssumption
 <2>5. /\ l * WeldRowRecord \in Nat /\ v * PointBytes \in Nat /\ x * PointBytes \in Nat
       /\ WeldRowRecord \in Nat
  BY NonPartAssumption, LinksAssumption, Products
 <2>6. /\ KeptBytesOf(old) = l * WeldRowRecord + v * PointBytes
       /\ KeptBytesOf(d[w]) = (l + 1) * WeldRowRecord + (v + x) * PointBytes
  BY ONLY <2>1, <2>2, <2>3 DEF KeptBytesOf
 <2> QED BY ONLY <2>3, <2>4, <2>5, <2>6
<1>8. /\ DOMAIN f = DOMAIN c /\ \A p \in DOMAIN c : f[p] = KeptBytesOf(c[p])
      /\ DOMAIN g = DOMAIN d /\ \A p \in DOMAIN d : g[p] = KeptBytesOf(d[p])
      /\ KeptSum(c) = Total(f) /\ KeptSum(d) = Total(g)
 BY DEF KeptSum
<1> HIDE DEF f, g
<1>9. Numbers(f) /\ Numbers(g)
 BY <1>5, <1>6, <1>8, PartsCost DEF Numbers
<1>10. Total(f) \in Nat /\ Total(g) \in Nat
 BY <1>9, TotalIsNumber
<1>11. part.values * PointBytes \in Nat /\ WeldRowRecord \in Nat
 BY NonPartAssumption, LinksAssumption, Products
<1>12. CASE w \in DOMAIN c
 <2>1. DOMAIN g = DOMAIN f /\ w \in DOMAIN f
  BY <1>1, <1>8, <1>12
 <2>2. \A p \in DOMAIN f : w # p => g[p] = f[p]
  BY ONLY <1>1, <1>2, <1>8
 <2>3. Total(g) - g[w] = Total(f) - f[w]
  BY ONLY <1>9, <2>1, <2>2, TotalChanged
 <2>4. g[w] = KeptBytesOf(d[w]) /\ f[w] = KeptBytesOf(old)
  BY <1>1, <1>8, <1>12 DEF old
 <2>5. KeptSum(d) = KeptSum(c) + WeldRowRecord + part.values * PointBytes
  BY ONLY <1>7, <1>8, <1>10, <1>11, <2>3, <2>4
 <2> QED BY ONLY <1>1, <1>5, <1>6, <2>5 DEF KeptMore, KeepsRows
<1>13. CASE w \notin DOMAIN c
 <2>1. w \in DOMAIN g /\ DOMAIN f = DOMAIN g \ {w}
  BY ONLY <1>1, <1>8, <1>13
 <2>2. \A p \in DOMAIN f : f[p] = g[p]
  BY ONLY <1>1, <1>2, <1>8, <1>13
 <2>3. Total(g) = g[w] + Total(f)
  BY ONLY <1>9, <2>1, <2>2, TotalWithout
 <2>4. old = <<>> /\ g[w] = KeptBytesOf(d[w])
  BY <1>1, <1>8, <1>13 DEF old
 <2>5. KeptBytesOf(old) = 0
  BY ONLY <2>4, NoParts, NonPartAssumption, LinksAssumption DEF KeptBytesOf
 <2>6. KeptSum(d) = KeptSum(c) + WeldRowRecord + part.values * PointBytes
  BY ONLY <1>7, <1>8, <1>10, <1>11, <2>3, <2>4, <2>5
 <2> QED BY ONLY <1>1, <1>5, <1>6, <2>6 DEF KeptMore, KeepsRows
<1> QED BY <1>12, <1>13

\* The last of some rows is one of them.
LEMMA LastIsOne ==
  ASSUME NEW n \in Nat, NEW S, S \subseteq 1..n, S # {}
  PROVE  LastOf(S) \in S
<1> DEFINE T == {n - i : i \in S}
<1>1. T \subseteq Nat /\ T # {}
 <2>1. \A i \in S : n - i \in Nat
  OBVIOUS
 <2> QED BY <2>1
<1>2. PICK m \in T : \A k \in T : m <= k
 <2> HIDE DEF T
 <2> QED BY <1>1, LeastOfNumbers
<1>3. PICK i \in S : m = n - i
 BY <1>2
<1>4. \A j \in S : j <= i
 <2> SUFFICES ASSUME NEW j \in S PROVE j <= i
  OBVIOUS
 <2>1. n - i <= n - j
  BY <1>2, <1>3
 <2> QED BY <2>1
<1> QED BY <1>4 DEF LastOf

\* Who owns a polygon is a weld that is asked for.
LEMMA OwnerIsWeld ==
  ASSUME model \in NonPartModels, NEW p, Owners(p) # {}
  PROVE  /\ Owner(p) \in model.range /\ Owner(p) \in DOMAIN model.welds
         /\ Owner(p) \in DOMAIN model.types /\ model.types[Owner(p)] = "weld"
<1>1. Table(model.relations)
 BY NonPartAssumption
<1>2. Owners(p) \subseteq 1..Len(model.relations) /\ Len(model.relations) \in Nat
 BY <1>1 DEF Owners, Related, Table
<1>3. LastOf(Owners(p)) \in Owners(p)
 BY <1>2, LastIsOne
<1> QED BY <1>3 DEF Owners, Owner, Wanting

\* Where bars lie is a sequence of numbers.
IsPlacement(x) == \E code, over : \E at \in Seq(Int) : x = [code |-> code, at |-> at, over |-> over]

LEMMA PlacementsArePlaced ==
  /\ \A code : IsPlacement(Refused(code))
  /\ \A over : \A at \in Seq(Int) : IsPlacement(Placed(at, over))
<1>1. <<>> \in Seq(Int)
 OBVIOUS
<1> QED BY <1>1 DEF IsPlacement, Refused, Placed

LEMMA EvenlyIsSequence ==
  ASSUME NEW from \in Int, NEW step \in Int, NEW count \in Nat
  PROVE  Evenly(from, step, count) \in Seq(Int)
<1>1. \A i \in 1..count : from + (i - 1) * step \in Int
 OBVIOUS
<1> HIDE DEF Evenly
<1>2. [i \in 1..count |-> from + (i - 1) * step] \in [1..count -> Int]
 BY <1>1
<1>3. [i \in 1..count |-> from + (i - 1) * step] \in Seq(Int)
 BY <1>2
<1> QED BY <1>3 DEF Evenly

\* There are the sums of spacings: of the first one, of the first two, and so on.
LEMMA SummedIsSequence ==
  ASSUME NEW spacings \in Seq(Nat)
  PROVE  /\ Summed(spacings) \in Seq(Int) /\ Len(Summed(spacings)) = Len(spacings) + 1
         /\ Summed(spacings)[1] = 0
         /\ \A n \in 1..Len(spacings) : Summed(spacings)[n + 1] = Summed(spacings)[n] + spacings[n]
<1> DEFINE l == Len(spacings)
           Step(g, i) == IF i = 1 THEN 0 ELSE g[i - 1] + spacings[i - 1]
           Sums(g, n) == g \in [1..n + 1 -> Int] /\ \A i \in 1..n + 1 : g[i] = Step(g, i)
           P == {n \in Nat : n <= l => \E g : Sums(g, n)}
<1>1. l \in Nat /\ \A k \in 1..l : spacings[k] \in Int
 OBVIOUS
<1>2. 0 \in P
 <2>1. PICK g : g = [i \in 1..1 |-> 0]
  OBVIOUS
 <2>2. g \in [1..0 + 1 -> Int] /\ \A i \in 1..0 + 1 : i = 1 /\ g[i] = 0
  BY <2>1
 <2>3. Sums(g, 0)
  BY <2>2
 <2> HIDE DEF Sums
 <2> QED BY <2>3
<1>3. ASSUME NEW n \in Nat, n \in P PROVE n + 1 \in P
 <2> SUFFICES ASSUME n + 1 <= l PROVE \E g : Sums(g, n + 1)
  <3>1. n + 1 \in Nat
   OBVIOUS
  <3> HIDE DEF Sums
  <3> QED BY <3>1
 <2>1. PICK g : Sums(g, n)
  <3> HIDE DEF Sums
  <3> QED BY <1>1, <1>3
 <2>2. spacings[n + 1] \in Int /\ g[n + 1] \in Int
  BY <1>1, <2>1
 <2>3. PICK h : h = [i \in 1..n + 2 |-> IF i = n + 2 THEN g[n + 1] + spacings[n + 1] ELSE g[i]]
  OBVIOUS
 <2>4. \A i \in 1..n + 2 : h[i] \in Int
  BY <2>1, <2>2, <2>3
 <2>5. h \in [1..(n + 1) + 1 -> Int]
  BY <2>3, <2>4
 <2>6. \A i \in 1..n + 1 : h[i] = g[i]
  BY <2>3
 <2>7. ASSUME NEW i \in 1..(n + 1) + 1 PROVE h[i] = Step(h, i)
  <3>1. CASE i = n + 2
   BY <2>3, <2>6, <3>1
  <3>2. CASE i = 1
   BY <2>1, <2>3, <3>2
  <3>3. CASE i # n + 2 /\ i # 1
   <4>1. i \in 1..n + 1 /\ i - 1 \in 1..n + 1
    BY <3>3
   <4>2. g[i] = g[i - 1] + spacings[i - 1]
    BY <2>1, <3>3, <4>1
   <4> QED BY <2>6, <3>3, <4>1, <4>2
  <3> QED BY <3>1, <3>2, <3>3
 <2>8. Sums(h, n + 1)
  BY <2>5, <2>7
 <2> HIDE DEF Sums
 <2> QED BY <2>8
<1>4. Nat \subseteq P
 <2> HIDE DEF P
 <2> QED BY <1>2, <1>3, SetInduction
<1>5. PICK g : Sums(g, l)
 <2>1. l \in P
  BY <1>1, <1>4
 <2> HIDE DEF Sums
 <2> QED BY <1>1, <2>1
<1>6. g = [i \in 1..l + 1 |-> Step(g, i)]
 BY <1>5
<1> DEFINE it == CHOOSE at : at = [i \in 1..l + 1 |-> Step(at, i)]
<1>7. it = [i \in 1..l + 1 |-> Step(it, i)]
 <2> HIDE DEF Step
 <2> QED BY <1>6
<1>8. Summed(spacings) = it
 BY DEF Summed
<1> HIDE DEF it
<1> DEFINE Q == {n \in Nat : n <= l => it[n + 1] \in Int}
<1>9. 0 \in Q
 BY <1>7
<1>10. ASSUME NEW n \in Nat, n \in Q PROVE n + 1 \in Q
 <2> SUFFICES ASSUME n + 1 <= l PROVE it[(n + 1) + 1] \in Int
  OBVIOUS
 <2>1. n + 2 \in 1..l + 1 /\ n + 2 # 1 /\ n + 1 \in 1..l
  BY <1>1
 <2>2. it[n + 2] = it[n + 1] + spacings[n + 1]
  <3>1. it[n + 2] = Step(it, n + 2)
   <4> HIDE DEF Step
   <4> QED BY <1>7, <2>1
  <3>2. (n + 2) - 1 = n + 1
   OBVIOUS
  <3>3. Step(it, n + 2) = it[(n + 2) - 1] + spacings[(n + 2) - 1]
   BY ONLY <2>1
  <3> QED BY ONLY <3>1, <3>2, <3>3
 <2>3. it[n + 1] \in Int /\ spacings[n + 1] \in Int
  BY <1>1, <1>10, <2>1
 <2> QED BY <2>2, <2>3
<1>11. Nat \subseteq Q
 <2> HIDE DEF Q
 <2> QED BY <1>9, <1>10, SetInduction
<1>12. \A i \in 1..l + 1 : it[i] \in Int
 <2> SUFFICES ASSUME NEW i \in 1..l + 1 PROVE it[i] \in Int
  OBVIOUS
 <2>1. i - 1 \in Nat /\ i - 1 <= l /\ (i - 1) + 1 = i
  BY <1>1
 <2> QED BY <1>11, <2>1
<1>13. it \in [1..l + 1 -> Int]
 BY <1>7, <1>12
<1>14. it \in Seq(Int) /\ Len(it) = l + 1 /\ it[1] = 0
 <2>1. 1 \in 1..l + 1 /\ l + 1 \in Nat
  BY <1>1
 <2>2. it[1] = Step(it, 1)
  <3> HIDE DEF Step
  <3> QED BY <1>7, <2>1
 <2>3. Step(it, 1) = 0
  OBVIOUS
 <2>4. it \in Seq(Int) /\ DOMAIN it = 1..l + 1
  BY <1>13, <2>1
 <2>5. Len(it) = l + 1
  <3> HIDE DEF l
  <3> QED BY <2>1, <2>4
 <2> QED BY <2>2, <2>3, <2>4, <2>5
<1>15. ASSUME NEW n \in 1..l PROVE it[n + 1] = it[n] + spacings[n]
 <2>1. n + 1 \in 1..l + 1 /\ n + 1 # 1 /\ (n + 1) - 1 = n
  BY <1>1
 <2>2. it[n + 1] = Step(it, n + 1)
  <3> HIDE DEF Step
  <3> QED BY <1>7, <2>1
 <2>3. Step(it, n + 1) = it[(n + 1) - 1] + spacings[(n + 1) - 1]
  BY ONLY <2>1
 <2> QED BY ONLY <2>1, <2>2, <2>3
<1> QED BY <1>8, <1>14, <1>15

LEMMA DistancesArePlaced ==
  ASSUME NEW kind, NEW length \in Nat, NEW most,
         NEW spacings \in Seq(Nat)
  PROVE  IsPlacement(Distances(kind, length, spacings, most))
<1> DEFINE first == Head(spacings)
<1>1. spacings # <<>> => first \in Nat
 OBVIOUS
<1>2. CASE spacings = <<>> \/ kind \notin SpacingKinds
           \/ (kind \notin {"count", "list"} /\ (first = 0 \/ length = 0))
 <2>1. <<0>> \in Seq(Int)
  OBVIOUS
 <2>2. kind \notin SpacingKinds => kind \notin {"count", "list", "equal"} \cup FixedKinds
  BY DEF SpacingKinds
 <2>3. \/ \E code : Distances(kind, length, spacings, most) = Refused(code)
       \/ Distances(kind, length, spacings, most) = Placed(<<0>>, 1)
  BY <1>2, <2>2 DEF Distances
 <2> QED BY <2>1, <2>3, PlacementsArePlaced
<1>3. CASE spacings # <<>> /\ kind = "count"
 <2>1. <<>> \in Seq(Int) /\ <<0>> \in Seq(Int)
  OBVIOUS
 <2>2. Evenly(0, length, first) \in Seq(Int)
  <3>1. length \in Int /\ 0 \in Int /\ first \in Nat
   BY <1>1, <1>3
  <3> HIDE DEF first
  <3> QED BY ONLY <3>1, EvenlyIsSequence
 <2>3. Distances(kind, length, spacings, most) = ByCount(length, first, most)
  BY <1>3 DEF Distances
 <2> HIDE DEF first
 <2> QED BY <2>1, <2>2, <2>3, PlacementsArePlaced DEF ByCount
<1>4. CASE spacings # <<>> /\ kind = "list"
 BY <1>4, SummedIsSequence, PlacementsArePlaced DEF Distances, BySpacings
<1>5. ASSUME spacings # <<>>, first # 0, length # 0, kind = "equal"
      PROVE  IsPlacement(Distances(kind, length, spacings, most))
 <2>1. Distances(kind, length, spacings, most) = ByTarget(length, first, most)
  BY <1>5 DEF Distances
 <2>2. Ceiling(length, first) + 1 \in Nat
  <3>1. first \in Nat \ {0} /\ length + first - 1 \in Nat
   BY <1>1, <1>5
  <3>2. \A a \in Nat, b \in Nat \ {0} : a \div b \in Nat
   OBVIOUS
  <3> HIDE DEF first
  <3> QED BY <3>1, <3>2 DEF Ceiling
 <2>3. Evenly(0, length, Ceiling(length, first) + 1) \in Seq(Int)
  BY <2>2, EvenlyIsSequence
 <2> HIDE DEF first
 <2> QED BY <2>1, <2>3, PlacementsArePlaced DEF ByTarget
<1>6. ASSUME spacings # <<>>, first # 0, length # 0, kind \in FixedKinds
      PROVE  IsPlacement(Distances(kind, length, spacings, most))
 <2>1. Distances(kind, length, spacings, most) = ByFixed(kind, length, first, most)
  BY <1>6 DEF Distances, FixedKinds
 <2> DEFINE whole == length \div first
            fixed == IF whole = 0 THEN 0 ELSE whole - 1
            left == length - fixed * first
            before == fixed \div 2
            after == fixed - before
 <2>2. first \in Nat /\ whole \in Nat
  <3>1. first \in Nat \ {0}
   BY <1>1, <1>6
  <3>2. \A a \in Nat, b \in Nat \ {0} : a \div b \in Nat
   OBVIOUS
  <3> HIDE DEF first
  <3> QED BY <3>1, <3>2
 <2>3. fixed \in Nat
  <3> HIDE DEF whole
  <3> QED BY <2>2
 <2>4. before \in Nat /\ after \in Nat
  <3>1. \A n \in Nat : n \div 2 \in Nat /\ n - n \div 2 \in Nat
   OBVIOUS
  <3> HIDE DEF fixed
  <3> QED BY <2>3, <3>1
 <2>5. left \in Int /\ 2 * left \in Int /\ 2 * first \in Int /\ 2 * (length - after * first) \in Int
       /\ 2 * length \in Int
  <3>1. \A a, b \in Int : a * b \in Int
   OBVIOUS
  <3> HIDE DEF fixed, after, first
  <3>2. fixed * first \in Int /\ after * first \in Int
   BY <2>2, <2>3, <2>4, <3>1
  <3> QED BY <2>2, <3>2
 <2> HIDE DEF first, whole, fixed, left, before, after
 <2> DEFINE one == Evenly(2 * left, 2 * first, fixed + 1)
            two == Evenly(0, 2 * first, fixed + 1)
            three == Evenly(left, 2 * first, fixed + 1)
            four == Evenly(0, 2 * first, before + 1)
            five == Evenly(2 * (length - after * first), 2 * first, after + 1)
 <2>6. /\ one \in Seq(Int) /\ two \in Seq(Int) /\ three \in Seq(Int) /\ four \in Seq(Int)
       /\ five \in Seq(Int)
  <3>1. 0 \in Int /\ fixed + 1 \in Nat /\ before + 1 \in Nat /\ after + 1 \in Nat
   BY <2>3, <2>4
  <3> QED BY ONLY <2>5, <3>1, EvenlyIsSequence
 <2>7. <<0>> \in Seq(Int) /\ <<2 * length>> \in Seq(Int)
  BY <2>5
 <2>8. \/ ByFixed(kind, length, first, most) = Refused("resource_limit")
       \/ \E at \in {<<0>> \o one, two \o <<2 * length>>, <<0>> \o three \o <<2 * length>>,
                     four \o five} : ByFixed(kind, length, first, most) = Placed(at, 2)
  <3>1. ByFixed(kind, length, first, most) =
           IF whole + 2 > most THEN Refused("resource_limit")
           ELSE Placed(
              CASE kind = "left_over_first" -> <<0>> \o one
                [] kind = "left_over_last"  -> two \o <<2 * length>>
                [] kind = "left_over_twice" -> <<0>> \o three \o <<2 * length>>
                [] kind = "left_over_between" -> four \o five, 2)
   BY DEF ByFixed, whole, fixed, left, before, after
  <3> HIDE DEF one, two, three, four, five
  <3> QED BY <1>6, <3>1 DEF FixedKinds
 <2> HIDE DEF one, two, three, four, five
 <2>9. \A a, b \in Seq(Int) : a \o b \in Seq(Int)
  BY ConcatProperties
 <2>10. \A at \in {<<0>> \o one, two \o <<2 * length>>, <<0>> \o three \o <<2 * length>>,
                   four \o five} : at \in Seq(Int)
  <3>1. <<0>> \o three \in Seq(Int)
   BY ONLY <2>6, <2>7, <2>9
  <3>2. /\ <<0>> \o one \in Seq(Int) /\ two \o <<2 * length>> \in Seq(Int)
        /\ (<<0>> \o three) \o <<2 * length>> \in Seq(Int) /\ four \o five \in Seq(Int)
   BY ONLY <2>6, <2>7, <2>9, <3>1
  <3> QED BY ONLY <3>2, Zenon
 <2> QED BY ONLY <2>1, <2>8, <2>10, PlacementsArePlaced
<1> QED BY <1>2, <1>3, <1>4, <1>5, <1>6 DEF SpacingKinds

LEMMA ExcludedIsPlaced ==
  ASSUME NEW exclusion, NEW x, IsPlacement(x)
  PROVE  IsPlacement(Excluded(exclusion, x)) /\ Len(Excluded(exclusion, x).at) \in Nat
<1>1. PICK code, over : \E at \in Seq(Int) : x = [code |-> code, at |-> at, over |-> over]
 BY DEF IsPlacement
<1>2. PICK at \in Seq(Int) : x = [code |-> code, at |-> at, over |-> over]
 BY <1>1
<1> DEFINE first == IF exclusion \in {"first", "both"} THEN WithoutFirst(at) ELSE at
           both == IF exclusion \in {"last", "both"} /\ first # <<>> THEN WithoutLast(first)
                   ELSE first
<1>3. first \in Seq(Int)
 BY DEF WithoutFirst
<1>4. both \in Seq(Int)
 <2> HIDE DEF first
 <2>1. first # <<>> => Len(first) - 1 \in 0..Len(first)
  BY <1>3
 <2>2. first # <<>> => SubSeq(first, 1, Len(first) - 1) \in Seq(Int)
  BY <1>3, <2>1, SubSeqProperties
 <2> QED BY <1>3, <2>2 DEF WithoutLast
<1>5. \/ Excluded(exclusion, x) = x
      \/ Excluded(exclusion, x) = Refused("decoder_unavailable")
      \/ Excluded(exclusion, x) = [code |-> code, at |-> both, over |-> over]
 <2>1. x.at = at /\ \A b : [x EXCEPT !.at = b] = [code |-> code, at |-> b, over |-> over]
  BY <1>2
 <2>2. x.code = "none" /\ exclusion \in Exclusions
       => Excluded(exclusion, x) = [x EXCEPT !.at = both]
  BY <2>1 DEF Excluded
 <2> HIDE DEF both
 <2> QED BY <2>1, <2>2 DEF Excluded
<1> HIDE DEF both
<1>6. IsPlacement(Excluded(exclusion, x))
 <2>1. IsPlacement([code |-> code, at |-> both, over |-> over])
  BY <1>4 DEF IsPlacement
 <2> QED BY <1>5, <2>1, PlacementsArePlaced
<1>7. \A y : IsPlacement(y) => Len(y.at) \in Nat
 BY DEF IsPlacement
<1> QED BY <1>6, <1>7

\* What is retained costs numbers of bytes.
LEMMA CostsAreNumbers ==
  ASSUME GeometryInv, PaidInv
  PROVE  /\ CurvesSum(curves) \in Nat /\ MeshesSum(meshes) \in Nat /\ ReadSum(rows, cache) \in Nat
         /\ PointsSum(contours) \in Nat /\ KeptSum(kept) \in Nat
         /\ \A k \in Succeeded(cache) : ChainSum(rows, cache[k].chain) \in Nat
         /\ ChainSum(rows, path) \in Nat /\ LinkTable(rows)
<1>1. CurvesSum(curves) \in Nat
 <2> DEFINE f == [i \in DOMAIN curves |-> CurveBytes(curves[i].points)]
 <2>1. IsFiniteSet(DOMAIN curves) /\ \A i \in DOMAIN curves : curves[i].points \in Nat
  BY ListFacts DEF PaidInv, CurvesOK
 <2>2. \A q \in Nat : CurveBytes(q) \in Nat
  BY LinksAssumption, Products DEF CurveBytes
 <2>3. Numbers(f)
  BY <2>1, <2>2 DEF Numbers
 <2>4. CurvesSum(curves) = Total(f)
  BY DEF CurvesSum
 <2> HIDE DEF f
 <2> QED BY <2>3, <2>4, TotalIsNumber
<1>2. MeshesSum(meshes) \in Nat
 <2> DEFINE f == [i \in DOMAIN meshes |-> MeshBytes(meshes[i].positions, meshes[i].indices)]
 <2>1. /\ IsFiniteSet(DOMAIN meshes)
       /\ \A i \in DOMAIN meshes : meshes[i].positions \in Nat /\ meshes[i].indices \in Nat
  BY ListFacts DEF PaidInv, MeshesOK, IsMesh
 <2>2. Numbers(f)
  BY <2>1, MeshCosts DEF Numbers
 <2>3. MeshesSum(meshes) = Total(f)
  BY DEF MeshesSum
 <2> HIDE DEF f
 <2> QED BY <2>2, <2>3, TotalIsNumber
<1>3. LinkTable(rows)
 BY NonPartAssumption DEF GeometryInv, Given
<1>4. ASSUME NEW chain \in Seq(Links), \A i \in DOMAIN chain : chain[i] \in DOMAIN rows
      PROVE  ChainSum(rows, chain) \in Nat
 BY <1>3, <1>4, ChainWeighs
<1>5. \A k \in Succeeded(cache) : ChainSum(rows, cache[k].chain) \in Nat
 BY <1>4 DEF PaidInv, ReadOK, GeometryInv, LinkedRowsRead, Chain, Succeeded
<1>6. ReadSum(rows, cache) \in Nat
 <2> DEFINE f == [k \in Succeeded(cache) |-> ChainSum(rows, cache[k].chain)]
 <2>1. IsFiniteSet(Succeeded(cache))
  BY FS_Subset DEF PaidInv, ReadOK, Succeeded
 <2>2. Numbers(f)
  BY <2>1, <1>5 DEF Numbers
 <2>3. ReadSum(rows, cache) = Total(f)
  BY DEF ReadSum
 <2> HIDE DEF f
 <2> QED BY <2>2, <2>3, TotalIsNumber
<1>7. PointsSum(contours) \in Nat
 <2> DEFINE f == [k \in DOMAIN contours |-> contours[k] * PairBytes]
 <2>1. IsFiniteSet(DOMAIN contours) /\ PairBytes \in Nat /\ \A k \in DOMAIN contours : contours[k] \in Nat
  BY NonPartAssumption DEF PaidInv, GeometryInv, ContoursOK
 <2>2. Numbers(f)
  BY <2>1, Products DEF Numbers
 <2>3. PointsSum(contours) = Total(f)
  BY DEF PointsSum
 <2> HIDE DEF f
 <2> QED BY <2>2, <2>3, TotalIsNumber
<1>8. KeptSum(kept) \in Nat
 <2> DEFINE f == [k \in DOMAIN kept |-> KeptBytesOf(kept[k])]
 <2>1. IsFiniteSet(DOMAIN kept) /\ \A k \in DOMAIN kept : KeptBytesOf(kept[k]) \in Nat
  BY PartsCost DEF PaidInv, KeptOK
 <2>2. Numbers(f)
  BY <2>1 DEF Numbers
 <2>3. KeptSum(kept) = Total(f)
  BY DEF KeptSum
 <2> HIDE DEF f
 <2> QED BY <2>2, <2>3, TotalIsNumber
<1>9. ChainSum(rows, path) \in Nat
 BY <1>4 DEF GeometryInv, PathOK
<1> QED BY <1>1, <1>2, <1>3, <1>5, <1>6, <1>7, <1>8, <1>9

\* A step that only retains what it pays for.
Retains(curvesMore, meshesMore, readMore, pointsMore, keptMore) ==
  /\ CurvesSum(curves') = CurvesSum(curves) + curvesMore
  /\ MeshesSum(meshes') = MeshesSum(meshes) + meshesMore
  /\ ReadSum(rows', cache') = ReadSum(rows, cache) + readMore
  /\ PointsSum(contours') = PointsSum(contours) + pointsMore
  /\ KeptSum(kept') = KeptSum(kept) + keptMore
  /\ used' \in Int /\ used + curvesMore + meshesMore + readMore + pointsMore + keptMore <= used'

LEMMA RetainingPays ==
  ASSUME GeometryInv, PaidInv,
         NEW a \in Nat, NEW b \in Nat, NEW c \in Nat, NEW d \in Nat, NEW e \in Nat,
         Retains(a, b, c, d, e)
  PROVE  CurvesSum(curves') + MeshesSum(meshes') + ReadSum(rows', cache') + PointsSum(contours')
             + KeptSum(kept') <= used'
BY CostsAreNumbers DEF GeometryInv, Given, BudgetOK, PaidInv, Retains

\* The lists are left as they are.
SameLists == UNCHANGED <<model, rows, curves, meshes, contours, kept>>
SameWalk == UNCHANGED <<cache, path, weight>>

\* The polygons gone through are ones that rows are kept of.
TodoKept == stage' = "welds" => todo' \subseteq DOMAIN kept'

LEMMA KeptStays ==
  ASSUME PaidInv, UNCHANGED <<model, kept>>, TodoKept
  PROVE  KeptOK'
BY DEF Owners, Related, Wanting, PaidInv, KeptOK, TodoKept

LEMMA ReadStays ==
  ASSUME PaidInv, UNCHANGED rows, SameWalk
  PROVE  ReadOK'
BY DEF PaidInv, ReadOK, SameWalk, Succeeded

\* Nothing more is retained.
LEMMA NothingRetained ==
  ASSUME GeometryInv, PaidInv, SameLists, SameWalk, TodoKept, used' \in Int, used <= used'
  PROVE  PaidInv'
<1>1. KeptOK' /\ ReadOK'
 BY KeptStays, ReadStays DEF SameLists
<1>2. Retains(0, 0, 0, 0, 0)
 BY CostsAreNumbers DEF GeometryInv, Given, BudgetOK, Retains, SameLists, SameWalk
<1>3. CurvesSum(curves') + MeshesSum(meshes') + ReadSum(rows', cache') + PointsSum(contours')
          + KeptSum(kept') <= used'
 BY <1>2, RetainingPays
<1> QED BY <1>1, <1>3 DEF PaidInv, SameLists

\* More curves are retained.
LEMMA CurvesRetained ==
  ASSUME GeometryInv, PaidInv, UNCHANGED <<model, rows, meshes, contours, kept>>, SameWalk,
         TodoKept, NEW a \in Nat, CurvesOK(curves'), CurvesSum(curves') = CurvesSum(curves) + a,
         used' = used + a
  PROVE  PaidInv'
<1>1. KeptOK' /\ ReadOK'
 BY KeptStays, ReadStays
<1>2. Retains(a, 0, 0, 0, 0)
 BY CostsAreNumbers DEF GeometryInv, Given, BudgetOK, Retains, SameWalk
<1>3. CurvesSum(curves') + MeshesSum(meshes') + ReadSum(rows', cache') + PointsSum(contours')
          + KeptSum(kept') <= used'
 BY <1>2, RetainingPays
<1> QED BY <1>1, <1>3 DEF PaidInv

\* More meshes, or larger ones.
LEMMA MeshesRetained ==
  ASSUME GeometryInv, PaidInv, UNCHANGED <<model, rows, curves, contours, kept>>, SameWalk,
         TodoKept, NEW b \in Nat, MeshesOK(meshes'), WeldsOnce(model.types, meshes'),
         MeshesSum(meshes') = MeshesSum(meshes) + b, used' = used + b
  PROVE  PaidInv'
<1>1. KeptOK' /\ ReadOK'
 BY KeptStays, ReadStays
<1>2. Retains(0, b, 0, 0, 0)
 BY CostsAreNumbers DEF GeometryInv, Given, BudgetOK, Retains, SameWalk
<1>3. CurvesSum(curves') + MeshesSum(meshes') + ReadSum(rows', cache') + PointsSum(contours')
          + KeptSum(kept') <= used'
 BY <1>2, RetainingPays
<1> QED BY <1>1, <1>3 DEF PaidInv

\* More contour points.
LEMMA PointsRetained ==
  ASSUME GeometryInv, PaidInv, UNCHANGED <<model, rows, curves, meshes, kept>>, SameWalk,
         TodoKept, NEW d \in Nat, IsFiniteSet(DOMAIN contours'),
         PointsSum(contours') = PointsSum(contours) + d, used' \in Int, used + d <= used'
  PROVE  PaidInv'
<1>1. KeptOK' /\ ReadOK'
 BY KeptStays, ReadStays
<1>2. Retains(0, 0, 0, d, 0)
 BY CostsAreNumbers DEF GeometryInv, Given, BudgetOK, Retains, SameWalk
<1>3. CurvesSum(curves') + MeshesSum(meshes') + ReadSum(rows', cache') + PointsSum(contours')
          + KeptSum(kept') <= used'
 BY <1>2, RetainingPays
<1> QED BY <1>1, <1>3 DEF PaidInv

\* More rows of welds.
LEMMA RowsRetained ==
  ASSUME GeometryInv, PaidInv, UNCHANGED <<model, rows, curves, meshes, contours>>, SameWalk,
         KeptOK', NEW e \in Nat, KeptSum(kept') = KeptSum(kept) + e, used' = used + e
  PROVE  PaidInv'
<1>1. ReadOK'
 BY ReadStays
<1>2. Retains(0, 0, 0, 0, e)
 BY CostsAreNumbers DEF GeometryInv, Given, BudgetOK, Retains, SameWalk
<1>3. CurvesSum(curves') + MeshesSum(meshes') + ReadSum(rows', cache') + PointsSum(contours')
          + KeptSum(kept') <= used'
 BY <1>2, RetainingPays
<1> QED BY <1>1, <1>3 DEF PaidInv

\* More linked rows, or other ones under way.
LEMMA ChainsRetained ==
  ASSUME GeometryInv, PaidInv, SameLists, TodoKept, ReadOK',
         NEW c \in Nat, ReadSum(rows', cache') = ReadSum(rows, cache) + c, used' \in Int,
         used + c <= used'
  PROVE  PaidInv'
<1>1. KeptOK'
 BY KeptStays DEF SameLists
<1>2. Retains(0, 0, c, 0, 0)
 BY CostsAreNumbers DEF GeometryInv, Given, BudgetOK, Retains, SameLists
<1>3. CurvesSum(curves') + MeshesSum(meshes') + ReadSum(rows', cache') + PointsSum(contours')
          + KeptSum(kept') <= used'
 BY <1>2, RetainingPays
<1> QED BY <1>1, <1>3 DEF PaidInv, SameLists

\* A mesh of another kind, or the first one of its weld, leaves one mesh to a weld.
LEMMA AppendsOther ==
  ASSUME NEW types, NEW m, IsList(m), WeldsOnce(types, m), NEW e,
         types[e.id] = "weld" => \A i \in DOMAIN m : m[i].id # e.id,
         NEW d, d = Append(m, e)
  PROVE  WeldsOnce(types, d)
<1>1. Len(m) \in Nat /\ DOMAIN m = 1..Len(m) /\ Longer(d, m, 1, e)
 BY ListFacts, ListAppends
<1>2. /\ DOMAIN d = 1..Len(m) + 1 /\ \A i \in 1..Len(m) : d[i] = m[i]
      /\ \A i \in 1..Len(m) + 1 : i > Len(m) => d[i] = e
 BY <1>1 DEF Longer
<1>3. \A i \in 1..Len(m) + 1 : i \in 1..Len(m) \/ i = Len(m) + 1
 BY <1>1
<1>4. d[Len(m) + 1] = e
 BY <1>1, <1>2
<1>5. SUFFICES ASSUME NEW i \in 1..Len(m) + 1, NEW j \in 1..Len(m) + 1,
                      d[i].id = d[j].id, types[d[i].id] = "weld"
               PROVE  i = j
 BY <1>2 DEF WeldsOnce
<1>6. CASE i \in 1..Len(m) /\ j \in 1..Len(m)
 BY <1>1, <1>2, <1>5, <1>6 DEF WeldsOnce
<1>7. CASE i = Len(m) + 1 /\ j \in 1..Len(m)
 BY <1>1, <1>2, <1>4, <1>5, <1>7
<1>8. CASE i \in 1..Len(m) /\ j = Len(m) + 1
 BY <1>1, <1>2, <1>4, <1>5, <1>8
<1> QED BY <1>3, <1>6, <1>7, <1>8

\* The walk over linked rows pays for a chain when it has all of it.
LEMMA AskPays ==
  ASSUME GeometryInv, PaidInv, AskStep
  PROVE  PaidInv'
<1>1. SameLists /\ TodoKept /\ asked # <<>>
 BY DEF AskStep, SameLists, outVars, polygonVars, Ask, Recall, VisitsExhausted, VisitBroken, Visit,
    Resolve, Walking, fixedLinkVars, TodoKept, PaidInv, KeptOK
<1>2. used \in Nat /\ limit \in Nat /\ used <= limit
 BY DEF GeometryInv, Given, BudgetOK
<1>3. /\ ReadSum(rows, cache) \in Nat /\ ChainSum(rows, path) \in Nat
      /\ \A k \in Succeeded(cache) : ChainSum(rows, cache[k].chain) \in Nat
      /\ LinkTable(rows)
 BY CostsAreNumbers
<1>4. path \in Seq(Links) /\ \A i \in DOMAIN path : path[i] \in DOMAIN rows
 BY DEF GeometryInv, PathOK
<1>5. ChainSum(rows, <<>>) = 0
 BY <1>3, <1>4, ChainWeighs
<1>6. ASSUME NEW status, NEW chain, Wanted \notin DOMAIN cache, Remember(status, chain),
             ChainSum(rows, chain) \in Nat, chain \in Seq(Links)
      PROVE  /\ ReadOK'
             /\ status # "success" => ReadSum(rows', cache') = ReadSum(rows, cache) + 0
             /\ status = "success"
                    => ReadSum(rows', cache') = ReadSum(rows, cache) + ChainSum(rows, chain)
 <2>1. PICK w : w = Wanted
  OBVIOUS
 <2>2. PICK d : d = WithLink(cache, w, status, chain)
  OBVIOUS
 <2>3. cache' = d /\ path' = <<>> /\ weight' = 0 /\ rows' = rows
  BY <1>1, <1>6, <2>1, <2>2 DEF Remember, SameLists, WithLink
 <2>4. IsFiniteSet(DOMAIN cache) /\ w \notin DOMAIN cache
  BY <1>6, <2>1 DEF PaidInv, ReadOK
 <2>5. /\ IsFiniteSet(DOMAIN d)
       /\ status # "success" => Succeeded(d) = Succeeded(cache)
                                /\ ReadSum(rows, d) = ReadSum(rows, cache)
       /\ status = "success" => /\ Succeeded(d) = Succeeded(cache) \cup {w}
                                /\ ReadSum(rows, d) = ReadSum(rows, cache) + ChainSum(rows, chain)
  BY <1>3, <1>6, <2>2, <2>4, ReadGrows
 <2>6. \A k \in Succeeded(d) : d[k].chain \in Seq(Links)
  BY <1>6, <2>2, <2>4, <2>5 DEF PaidInv, ReadOK, Succeeded, WithLink
 <2>7. ReadOK'
  BY <1>5, <2>3, <2>5, <2>6 DEF ReadOK
 <2> QED BY <1>3, <2>3, <2>5, <2>7
<1>7. ASSUME NEW status, status # "success", Wanted \notin DOMAIN cache, Remember(status, <<>>)
      PROVE  ReadOK' /\ ReadSum(rows', cache') = ReadSum(rows, cache) + 0
 <2>1. PICK none : none = <<>>
  OBVIOUS
 <2>2. none \in Seq(Links)
  BY <2>1
 <2>3. Remember(status, none) /\ ChainSum(rows, none) \in Nat
  BY <1>5, <1>7, <2>1
 <2> QED BY ONLY <1>6, <1>7, <2>2, <2>3
<1>8. Walking => Wanted \notin DOMAIN cache
 BY DEF Walking, Known
<1>9. CASE Recall
 BY <1>1, <1>2, <1>9, NothingRetained DEF Recall, fixedLinkVars, SameWalk
<1>10. CASE VisitsExhausted
 BY <1>1, <1>2, <1>7, <1>8, <1>10, ChainsRetained DEF VisitsExhausted, Exhaust
<1>11. CASE VisitBroken
 BY <1>1, <1>2, <1>7, <1>8, <1>11, ChainsRetained DEF VisitBroken
<1>12. CASE Visit
 <2>1. CASE Affordable(weight + rows[Current].bytes)
  <3>1. PICK k : k = Current
   OBVIOUS
  <3>2. /\ path' = Append(path, k) /\ weight' = weight + rows[k].bytes /\ k \in DOMAIN rows
        /\ cache' = cache /\ rows' = rows /\ used' = used
   BY <1>12, <2>1, <3>1 DEF Visit, Broken, fixedLinkVars
  <3>3. ChainSum(rows, Append(path, k)) = ChainSum(rows, path) + rows[k].bytes
   BY <1>3, <1>4, <3>2, ChainWeighs
  <3>4. ReadOK'
   BY <3>2, <3>3 DEF PaidInv, ReadOK, Succeeded
  <3>5. ReadSum(rows', cache') = ReadSum(rows, cache) + 0
   BY <1>3, <3>2
  <3> QED BY <1>1, <1>2, <3>2, <3>4, <3>5, ChainsRetained
 <2>2. CASE ~Affordable(weight + rows[Current].bytes)
  BY <1>1, <1>2, <1>7, <1>8, <1>12, <2>2, ChainsRetained DEF Visit, Exhaust
 <2> QED BY <2>1, <2>2
<1>13. CASE Resolve
 BY <1>1, <1>2, <1>3, <1>4, <1>6, <1>8, <1>13, ChainsRetained DEF Resolve, Spent, PaidInv, ReadOK
<1> QED BY <1>9, <1>10, <1>11, <1>12, <1>13 DEF AskStep, Ask

\* Points of contours, and surfaces.
LEMMA SurfacePays ==
  ASSUME GeometryInv, PaidInv, ReadContour \/ DrawSurface
  PROVE  PaidInv'
<1>1. TodoKept /\ SameWalk /\ UNCHANGED <<model, rows, curves, kept>>
 BY DEF ReadContour, DrawSurface, NextRow, SameWalk, walkVars, fixedLinkVars, outVars, polygonVars,
    Diagnose, Draw, TodoKept, PaidInv, KeptOK
<1>2. used \in Nat /\ limit \in Nat /\ used <= limit
 BY DEF GeometryInv, Given, BudgetOK
<1>3. CASE ReadContour
 <2> DEFINE part == model.contours[row]  bytes == ChunkRecord + part.points * PairBytes
 <2>1. meshes' = meshes
  BY <1>3 DEF ReadContour, outVars
 <2>2. PICK n \in Nat : n = part.points
  BY <1>3, NonPartAssumption DEF GeometryInv, Given, ReadContour, AtRow, RowsOf
 <2>3. PICK w : w = part.key
  OBVIOUS
 <2>4. \/ contours' = contours /\ used' = used
       \/ used' = used + bytes /\ contours' = contours
       \/ /\ used' = used + bytes
          /\ contours' = WithPoints(contours, w, n)
  BY <1>3, <2>2, <2>3 DEF ReadContour, Spent, WithPoints
 <2>5. bytes = ChunkRecord + n * PairBytes /\ ChunkRecord \in Nat /\ n * PairBytes \in Nat
  BY <2>2, NonPartAssumption, Products
 <2> HIDE DEF part, bytes
 <2>6. CASE contours' = contours /\ (used' = used \/ used' = used + bytes)
  BY <1>1, <1>2, <2>1, <2>5, <2>6, NothingRetained DEF SameLists
 <2>7. CASE used' = used + bytes /\ contours' = WithPoints(contours, w, n)
  <3>1. PICK d : d = WithPoints(contours, w, n)
   OBVIOUS
  <3>2. IsFiniteSet(DOMAIN contours) /\ \A k \in DOMAIN contours : contours[k] \in Nat
   BY DEF PaidInv, GeometryInv, ContoursOK
  <3>3. IsFiniteSet(DOMAIN d) /\ PointsSum(d) = PointsSum(contours) + n * PairBytes
   BY <2>2, <3>1, <3>2, PointsGrow
  <3>4. contours' = d /\ used' \in Int /\ used + n * PairBytes <= used'
   BY <1>2, <2>5, <2>7, <3>1
  <3> QED BY <1>1, <2>1, <2>5, <3>3, <3>4, PointsRetained
 <2> QED BY <2>4, <2>6, <2>7
<1>4. CASE DrawSurface
 <2> DEFINE surface == model.surfaces[row]
            q == contours[surface.contour]
            p == IF surface.closed /\ q > 3 THEN q - 1 ELSE q
            e == [id |-> surface.id, sweeps |-> <<>>,
                  positions |-> SurfacePositions(p), indices |-> SurfaceIndices(p)]
            b == MeshBytes(SurfacePositions(p), SurfaceIndices(p))
 <2>1. contours' = contours
  BY <1>4 DEF DrawSurface, polygonVars
 <2>2. \/ meshes' = meshes /\ used' = used
       \/ /\ Taken(surface, SurfaceTypes) /\ SurfaceProblem(surface) = "none"
          /\ meshes' = Append(meshes, e) /\ used' = used + b
  BY <1>4 DEF DrawSurface, Draw, Diagnose, outVars, Spent
 <2>3. CASE meshes' = meshes /\ used' = used
  BY <1>1, <1>2, <2>1, <2>3, NothingRetained DEF SameLists
 <2>4. CASE /\ Taken(surface, SurfaceTypes) /\ SurfaceProblem(surface) = "none"
            /\ meshes' = Append(meshes, e) /\ used' = used + b
  <3>1. surface.contour \in DOMAIN contours /\ ~(q < 3)
   BY <2>4 DEF SurfaceProblem
  <3>2. q \in Nat
   BY <3>1 DEF GeometryInv, ContoursOK
  <3>3. p \in Nat /\ 1 <= p
   BY <3>1, <3>2
  <3>4. model.types[surface.id] # "weld"
   BY <2>4 DEF Taken, Wanting, SurfaceTypes
  <3>5. e.id = surface.id /\ e.positions = SurfacePositions(p) /\ e.indices = SurfaceIndices(p)
   OBVIOUS
  <3> HIDE DEF p, q, surface
  <3>6. SurfacePositions(p) \in Nat /\ SurfaceIndices(p) \in Nat
   BY <3>3 DEF SurfacePositions, SurfaceIndices
  <3>0. IsMesh(e)
   BY <3>5, <3>6 DEF IsMesh
  <3> HIDE DEF e
  <3>7. PICK d : d = Append(meshes, e)
   OBVIOUS
  <3>8. /\ MeshesOK(d)
        /\ MeshesSum(d) = MeshesSum(meshes) + MeshBytes(e.positions, e.indices)
   BY <3>0, <3>7, MeshesGrow DEF PaidInv
  <3>9. WeldsOnce(model.types, d)
   BY <3>4, <3>5, <3>7, AppendsOther DEF PaidInv, MeshesOK
  <3>10. b \in Nat /\ b = MeshBytes(e.positions, e.indices) /\ meshes' = d
   BY <2>4, <3>5, <3>6, <3>7, MeshCosts
  <3> HIDE DEF b
  <3> QED BY <1>1, <2>1, <2>4, <3>8, <3>9, <3>10, MeshesRetained
 <2> QED BY <2>2, <2>3, <2>4
<1> QED BY <1>3, <1>4

\* The meshes with the one of a weld grown along a polygon.
WithSweep(m, weld, polygon) ==
  [i \in DOMAIN m |-> IF m[i].id = weld THEN Swept(m[i], polygon) ELSE m[i]]

\* The sweep along a polygon, behind those a mesh has.
SweepAlong(e, polygon) ==
  [polygon |-> polygon, parts |-> ByNumber(kept[polygon]), first |-> e.positions \div 3]

\* A sweep adds vertices and triangles to a mesh.
LEMMA SweptIsMesh ==
  ASSUME NEW polygon, NEW e, IsMesh(e), PartsOK(kept[polygon]), ~(Values(kept[polygon]) < 4)
  PROVE  /\ SweepPositions(kept[polygon]) \in Nat /\ SweepIndices(kept[polygon]) \in Nat
         /\ IsMesh(Swept(e, polygon)) /\ Swept(e, polygon).id = e.id
         /\ Swept(e, polygon).positions = e.positions + SweepPositions(kept[polygon])
         /\ Swept(e, polygon).indices = e.indices + SweepIndices(kept[polygon])
         /\ Swept(e, polygon).sweeps = Append(e.sweeps, SweepAlong(e, polygon))
<1> DEFINE parts == kept[polygon]
<1>1. PICK v \in Nat : v = Values(parts)
 BY PartsCost
<1>2. 4 <= v
 BY <1>1
<1>3. Segments(parts) \in Nat
 BY <1>1, <1>2 DEF Segments
<1>4. SweepPositions(parts) \in Nat /\ SweepIndices(parts) \in Nat
 BY <1>3 DEF SweepPositions, SweepIndices
<1>5. PICK s : s = Append(e.sweeps, SweepAlong(e, polygon))
 OBVIOUS
<1>6. /\ e = [id |-> e.id, sweeps |-> e.sweeps, positions |-> e.positions, indices |-> e.indices]
      /\ e.positions \in Nat /\ e.indices \in Nat
 BY DEF IsMesh
<1>7. Swept(e, polygon) = [e EXCEPT !.sweeps = s, !.positions = e.positions + SweepPositions(parts),
                                    !.indices = e.indices + SweepIndices(parts)]
 BY <1>5 DEF Swept, SweepAlong
<1>8. PICK x, y : x = SweepPositions(parts) /\ y = SweepIndices(parts)
 OBVIOUS
<1>9. Swept(e, polygon) = [id |-> e.id, sweeps |-> s, positions |-> e.positions + x,
                           indices |-> e.indices + y]
 <2>1. PICK id, w, p, q : id = e.id /\ w = e.sweeps /\ p = e.positions /\ q = e.indices
  OBVIOUS
 <2>2. e = [id |-> id, sweeps |-> w, positions |-> p, indices |-> q]
  BY <1>6, <2>1
 <2>3. PICK p2, q2 : p2 = p + x /\ q2 = q + y
  OBVIOUS
 <2>4. Swept(e, polygon) = [e EXCEPT !.sweeps = s, !.positions = p2, !.indices = q2]
  BY <1>7, <1>8, <2>1, <2>3
 <2>5. PICK e1 : e1 = [e EXCEPT !.sweeps = s]
  OBVIOUS
 <2>6. e1 = [id |-> id, sweeps |-> s, positions |-> p, indices |-> q]
  BY ONLY <2>2, <2>5
 <2>7. PICK e2 : e2 = [e1 EXCEPT !.positions = p2]
  OBVIOUS
 <2>8. e2 = [id |-> id, sweeps |-> s, positions |-> p2, indices |-> q]
  BY ONLY <2>6, <2>7
 <2>9. PICK e3 : e3 = [e2 EXCEPT !.indices = q2]
  OBVIOUS
 <2>10. e3 = [id |-> id, sweeps |-> s, positions |-> p2, indices |-> q2]
  BY ONLY <2>8, <2>9
 <2>11. [e EXCEPT !.sweeps = s, !.positions = p2, !.indices = q2]
           = [[[e EXCEPT !.sweeps = s] EXCEPT !.positions = p2] EXCEPT !.indices = q2]
  BY ONLY TRUE
 <2> QED BY <2>1, <2>3, <2>4, <2>5, <2>7, <2>11, <2>9, <2>10
<1>10. e.positions + x \in Nat /\ e.indices + y \in Nat
 BY <1>4, <1>6, <1>8
<1> HIDE DEF parts
<1> QED BY <1>4, <1>5, <1>8, <1>9, <1>10 DEF IsMesh, parts

\* The seam along a polygon is paid for, in a new mesh of its weld or in the one it has.
LEMMA DrawWeldPays ==
  ASSUME GeometryInv, PaidInv, NEW polygon \in todo, DrawWeld(polygon)
  PROVE  PaidInv'
<1> DEFINE weld == Owner(polygon)  parts == kept[polygon]
<1>1. TodoKept /\ SameWalk /\ UNCHANGED <<model, rows, curves, contours, kept>>
 BY DEF DrawWeld, SameWalk, walkVars, fixedLinkVars, polygonVars, Diagnose, Draw, TodoKept,
    PaidInv, KeptOK
<1>2. used \in Nat /\ limit \in Nat /\ used <= limit
 BY DEF GeometryInv, Given, BudgetOK
<1>3. CASE WeldProblem(polygon) # "none"
 BY <1>1, <1>2, <1>3, NothingRetained DEF DrawWeld, Diagnose, SameLists
<1>4. CASE WeldProblem(polygon) = "none"
 <2>1. PartsOK(parts) /\ Owners(polygon) # {}
  BY DEF PaidInv, KeptOK, DrawWeld
 <2>2. ~(Values(parts) < 4)
  BY <1>4 DEF WeldProblem
 <2>3. weld \in DOMAIN model.types /\ model.types[weld] = "weld"
  BY <2>1, OwnerIsWeld DEF GeometryInv, Given
 <2>4. used' = used + SweepBytes(polygon)
  BY <1>4 DEF DrawWeld, Spent
 <2>5. MeshesOK(meshes) /\ WeldsOnce(model.types, meshes)
  BY DEF PaidInv
 <2>6. CASE MeshOf(weld) = {}
  <3>1. PICK e : e = Swept(NewMesh(weld), polygon)
   OBVIOUS
  <3>2. meshes' = Append(meshes, e)
   BY <1>4, <2>6, <3>1 DEF DrawWeld, Draw
  <3>3. PICK new : new = NewMesh(weld)
   OBVIOUS
  <3>4. IsMesh(new) /\ new.id = weld /\ new.positions = 0 /\ new.indices = 0
   BY <3>3 DEF NewMesh, IsMesh
  <3>5. /\ IsMesh(e) /\ e.id = weld
        /\ e.positions = 0 + SweepPositions(parts) /\ e.indices = 0 + SweepIndices(parts)
        /\ SweepPositions(parts) \in Nat /\ SweepIndices(parts) \in Nat
   BY <2>1, <2>2, <3>1, <3>3, <3>4, SweptIsMesh
  <3>6. PICK b \in Nat : b = MeshBytes(SweepPositions(parts), SweepIndices(parts))
   BY <3>5, MeshCosts
  <3>7. e.positions = SweepPositions(parts) /\ e.indices = SweepIndices(parts)
   BY <3>5
  <3>8. SweepBytes(polygon) = b
   BY <2>6, <3>6 DEF SweepBytes
  <3>9. PICK d : d = Append(meshes, e)
   OBVIOUS
  <3> HIDE DEF parts, weld
  <3>10. MeshesOK(d) /\ MeshesSum(d) = MeshesSum(meshes) + b
   BY <2>5, <3>5, <3>6, <3>7, <3>9, MeshesGrow
  <3>11. \A i \in DOMAIN meshes : meshes[i].id # e.id
   BY <2>6, <3>5 DEF MeshOf
  <3>12. WeldsOnce(model.types, d)
   BY <2>5, <3>9, <3>11, AppendsOther DEF MeshesOK
  <3>13. meshes' = d /\ used' = used + b
   BY <2>4, <3>2, <3>8, <3>9
  <3> QED BY <1>1, <3>10, <3>12, <3>13, MeshesRetained
 <2>7. CASE MeshOf(weld) # {}
  <3>1. PICK k \in DOMAIN meshes : meshes[k].id = weld
   BY <2>7 DEF MeshOf
  <3>2. \A i \in DOMAIN meshes : meshes[i].id = weld => i = k
   BY <2>3, <2>5, <3>1 DEF WeldsOnce
  <3>3. PICK w : w = weld
   OBVIOUS
  <3>4. PICK d : d = WithSweep(meshes, w, polygon)
   OBVIOUS
  <3>5. meshes' = d
   <4>1. meshes' = [i \in DOMAIN meshes |-> IF i \in MeshOf(weld) THEN Swept(meshes[i], polygon)
                                            ELSE meshes[i]]
    BY <1>4, <2>7 DEF DrawWeld
   <4>2. \A i \in DOMAIN meshes : i \in MeshOf(weld) <=> meshes[i].id = weld
    BY DEF MeshOf
   <4> HIDE DEF weld
   <4> QED BY <3>3, <3>4, <4>1, <4>2 DEF WithSweep
  <3>6. IsMesh(meshes[k]) /\ Len(meshes) \in Nat /\ DOMAIN meshes = 1..Len(meshes)
   BY <2>5, <3>1, ListFacts DEF MeshesOK
  <3>7. PICK p \in Nat, q \in Nat : p = SweepPositions(parts) /\ q = SweepIndices(parts)
   BY <2>1, <2>2, <3>6, SweptIsMesh
  <3>8. /\ IsMesh(Swept(meshes[k], polygon)) /\ Swept(meshes[k], polygon).id = meshes[k].id
        /\ Swept(meshes[k], polygon).positions = meshes[k].positions + p
        /\ Swept(meshes[k], polygon).indices = meshes[k].indices + q
   BY <2>1, <2>2, <3>6, <3>7, SweptIsMesh
  <3>9. /\ DOMAIN d = DOMAIN meshes /\ d[k] = Swept(meshes[k], polygon)
        /\ \A i \in DOMAIN meshes : i # k => d[i] = meshes[i]
   BY <3>1, <3>2, <3>3, <3>4 DEF WithSweep
  <3>10. IsList(d)
   BY <3>4, <3>6, FunctionIsList DEF WithSweep
  <3>11. SweepBytes(polygon) = p * PositionBytes + q * IndexBytes
         /\ p * PositionBytes + q * IndexBytes \in Nat
   <4>1. SweepBytes(polygon) = MeshBytes(p, q) - MeshRecord
    BY <2>7, <3>7 DEF SweepBytes
   <4>2. MeshRecord \in Nat /\ p * PositionBytes \in Nat /\ q * IndexBytes \in Nat
    BY LinksAssumption, Products
   <4> QED BY <4>1, <4>2 DEF MeshBytes
  <3> HIDE DEF parts, weld
  <3>12. PICK m : m = meshes
   OBVIOUS
  <3>13. /\ MeshesOK(d) /\ MeshesSum(m) \in Nat
         /\ MeshesSum(d) = MeshesSum(m) + p * PositionBytes + q * IndexBytes
   <4>1. /\ MeshesOK(m) /\ DOMAIN d = DOMAIN m /\ IsList(d) /\ k \in DOMAIN m
         /\ \A i \in DOMAIN m : i # k => d[i] = m[i]
         /\ IsMesh(d[k]) /\ d[k].positions = m[k].positions + p
         /\ d[k].indices = m[k].indices + q
    BY <2>5, <3>1, <3>8, <3>9, <3>10, <3>12
   <4> QED BY ONLY <4>1, p \in Nat, q \in Nat, MeshGrows
  <3>14. \A i \in DOMAIN m : d[i].id = m[i].id
   BY <3>8, <3>9, <3>12
  <3>15. WeldsOnce(model.types, d)
   BY <2>5, <3>9, <3>12, <3>14 DEF WeldsOnce
  <3>16. PICK b \in Nat : b = p * PositionBytes + q * IndexBytes
   BY <3>11
  <3>17. MeshesSum(d) = MeshesSum(meshes) + b
   BY <3>12, <3>13, <3>16, LinksAssumption, Products
  <3>18. used' = used + b
   BY <2>4, <3>11, <3>16
  <3> QED BY <1>1, <3>5, <3>13, <3>15, <3>17, <3>18, MeshesRetained
 <2> QED BY <2>6, <2>7
<1> QED BY <1>3, <1>4

\* Rows of polygon welds, and polygons of which there is nothing to draw.
LEMMA WeldPays ==
  ASSUME GeometryInv, PaidInv, ReadWeldRow \/ \E polygon \in todo : DrawWeld(polygon) \/ ReportWeld(polygon)
  PROVE  PaidInv'
<1>2. used \in Nat /\ limit \in Nat /\ used <= limit
 BY DEF GeometryInv, Given, BudgetOK
<1>3. CASE ReadWeldRow
 <2>1. /\ stage' # "welds" /\ SameWalk
       /\ UNCHANGED <<model, rows, curves, meshes, contours>>
  BY <1>3 DEF ReadWeldRow, AtRow, NextRow, SameWalk, walkVars, fixedLinkVars, outVars
 <2>2. PICK part : part = model.weldRows[row]
  OBVIOUS
 <2>3. PICK entry, p, n, cost : /\ entry = [number |-> part.number, side |-> part.side,
                                           values |-> part.values]
                                /\ p = part.polygon /\ n = part.values
                                /\ cost = WeldRowRecord + part.values * PointBytes
  OBVIOUS
 <2>4. \/ kept' = kept /\ used' = used
       \/ /\ Displayable(part) /\ n \in 1..10 /\ used' = used + cost
          /\ kept' = WithRow(kept, p, entry)
  BY <1>3, <2>2, <2>3 DEF ReadWeldRow, Spent, WithRow
 <2>5. CASE kept' = kept /\ used' = used
  BY <1>2, <2>1, <2>5, NothingRetained DEF SameLists, TodoKept
 <2>6. CASE /\ Displayable(part) /\ n \in 1..10 /\ used' = used + cost
            /\ kept' = WithRow(kept, p, entry)
  <3>1. entry.values = n /\ n \in Nat
   BY <2>3, <2>6
  <3>2. PICK d : d = WithRow(kept, p, entry)
   OBVIOUS
  <3>3. IsFiniteSet(DOMAIN kept) /\ \A q \in DOMAIN kept : PartsOK(kept[q]) /\ Owners(q) # {}
   BY DEF PaidInv, KeptOK
  <3>4. /\ IsFiniteSet(DOMAIN d) /\ DOMAIN d = DOMAIN kept \cup {p}
        /\ \A q \in DOMAIN d : PartsOK(d[q])
        /\ KeptSum(d) = KeptSum(kept) + WeldRowRecord + entry.values * PointBytes
   <4>1. KeepsRows(kept)
    BY <3>3 DEF KeepsRows
   <4>2. KeptMore(kept, d, p, entry.values)
    BY <3>1, <3>2, <4>1, KeptGrows
   <4> QED BY <4>2 DEF KeptMore, KeepsRows
  <3>5. kept' = d /\ Owners(p) # {} /\ stage' # "welds" /\ model' = model
   BY <2>1, <2>3, <2>6, <3>2 DEF Displayable
  <3>6. \A q : Owners(q)' = Owners(q)
   BY <3>5 DEF Owners, Related, Wanting
  <3>7. KeptOK'
   BY <3>3, <3>4, <3>5, <3>6 DEF KeptOK
  <3>8. WeldRowRecord \in Nat /\ n * PointBytes \in Nat
   BY <3>1, NonPartAssumption, LinksAssumption, Products
  <3>9. PICK e \in Nat : e = WeldRowRecord + n * PointBytes
   BY <3>8
  <3>10. KeptSum(d) = KeptSum(kept) + e
   BY <3>1, <3>4, <3>8, <3>9, CostsAreNumbers
  <3>11. used' = used + e
   BY <2>3, <2>6, <3>9
  <3> QED BY <2>1, <3>5, <3>7, <3>10, <3>11, RowsRetained
 <2> QED BY <2>4, <2>5, <2>6
<1>4. ASSUME NEW polygon \in todo, ReportWeld(polygon) PROVE PaidInv'
 BY <1>2, <1>4, NothingRetained DEF ReportWeld, Quiet, Diagnose, linkVars, polygonVars, SameLists,
    SameWalk, TodoKept, PaidInv, KeptOK
<1> QED BY <1>3, <1>4, DrawWeldPays

\* Grids and bolts, and from one kind of rows to the next.
LEMMA StagePays ==
  ASSUME GeometryInv, PaidInv, NoObjects \/ NextStage \/ DrawGrid \/ DrawBolt
  PROVE  PaidInv'
<1>1. used \in Nat /\ limit \in Nat /\ used <= limit
 BY DEF GeometryInv, Given, BudgetOK
<1>2. CASE NoObjects \/ NextStage
 BY <1>1, <1>2, NothingRetained DEF NoObjects, NextStage, Quiet, Diagnose, linkVars, outVars,
    polygonVars, SameLists, SameWalk, TodoKept, TodoOf
<1>3. CASE DrawGrid
 <2>1. stage' = stage /\ stage = "grids" /\ SameWalk /\ UNCHANGED <<model, rows, meshes, contours, kept>>
  BY <1>3 DEF DrawGrid, AtRow, NextRow, SameWalk, walkVars, fixedLinkVars, outVars, polygonVars,
              Diagnose, DrawCurves
 <2>2. TodoKept
  BY <2>1 DEF TodoKept
 <2>3. PICK w : w = model.relations[row].from
  OBVIOUS
 <2>4. \/ curves' = curves /\ (used' = used \/ used' = limit)
       \/ used' = used + CurveBytes(2) /\ curves' = MoreCurves(curves, 1, w, 2)
  BY <1>3, <2>3 DEF DrawGrid, Diagnose, DrawCurves, Exhaust, Spent, outVars, MoreCurves
 <2>5. CASE curves' = curves /\ (used' = used \/ used' = limit)
  BY <1>1, <2>1, <2>2, <2>5, NothingRetained DEF SameLists
 <2>6. CASE used' = used + CurveBytes(2) /\ curves' = MoreCurves(curves, 1, w, 2)
  <3>1. PICK d : d = MoreCurves(curves, 1, w, 2)
   OBVIOUS
  <3>2. CurvesOK(d) /\ CurvesSum(d) = CurvesSum(curves) + 1 * CurveBytes(2)
   BY <3>1, CurvesGrow DEF PaidInv
  <3>3. PICK a \in Nat : a = CurveBytes(2)
   BY LinksAssumption, Products DEF CurveBytes
  <3>4. CurvesSum(d) = CurvesSum(curves) + a
   BY <3>2, <3>3
  <3>5. curves' = d /\ used' = used + a
   BY <2>6, <3>1, <3>3
  <3> QED BY <2>1, <2>2, <3>2, <3>4, <3>5, CurvesRetained
 <2> QED BY <2>4, <2>5, <2>6
<1>4. CASE DrawBolt
 <2> DEFINE bolt == model.bolts[row]
            n == PatternPoints(bolt.pattern)
            p == n * FastenerPositions(bolt)
            q == n * FastenerIndices(bolt)
            e == [id |-> bolt.id, sweeps |-> <<>>, positions |-> p, indices |-> q]
 <2>1. stage' = stage /\ stage = "bolts" /\ SameWalk
       /\ UNCHANGED <<model, rows, curves, contours, kept>>
  BY <1>4 DEF DrawBolt, AtRow, NextRow, SameWalk, walkVars, fixedLinkVars, outVars, polygonVars,
              Diagnose, Draw
 <2>2. TodoKept
  BY <2>1 DEF TodoKept
 <2>3. \/ meshes' = meshes /\ (used' = used \/ used' = limit)
       \/ /\ Taken(bolt, BoltTypes) /\ meshes' = Append(meshes, e)
          /\ used' = used + MeshBytes(p, q)
  BY <1>4 DEF DrawBolt, Draw, Diagnose, Exhaust, Spent, outVars
 <2>4. CASE meshes' = meshes /\ (used' = used \/ used' = limit)
  BY <1>1, <2>1, <2>2, <2>4, NothingRetained DEF SameLists
 <2>5. CASE Taken(bolt, BoltTypes) /\ meshes' = Append(meshes, e) /\ used' = used + MeshBytes(p, q)
  <3>1. model.types[bolt.id] # "weld"
   BY <2>5 DEF Taken, Wanting, BoltTypes
  <3>2. n \in Nat
   <4>1. PICK key : key = bolt.pattern
    OBVIOUS
   <4>2. Table(model.contours) /\ \A i \in DOMAIN model.contours : model.contours[i].points \in Nat
    BY NonPartAssumption DEF GeometryInv, Given
   <4>3. PatternRows(key) \subseteq 1..Len(model.contours) /\ IsFiniteSet(1..Len(model.contours))
    BY <4>2, FS_Interval DEF PatternRows, Table
   <4>4. IsFiniteSet(PatternRows(key)) /\ \A i \in PatternRows(key) : model.contours[i].points \in Nat
    BY <4>2, <4>3, FS_Subset DEF PatternRows
   <4> DEFINE f == [i \in PatternRows(key) |-> model.contours[i].points]
   <4>5. Numbers(f)
    BY <4>4 DEF Numbers
   <4>6. PatternPoints(key) = Total(f)
    BY DEF PatternPoints
   <4> HIDE DEF f
   <4> QED BY <4>1, <4>5, <4>6, TotalIsNumber
  <3>3. FastenerPositions(bolt) \in Nat /\ FastenerIndices(bolt) \in Nat
   BY DEF FastenerPositions, FastenerIndices, PrismPositions, PrismIndices
  <3>4. e.id = bolt.id /\ e.positions = p /\ e.indices = q
   OBVIOUS
  <3> HIDE DEF bolt, n
  <3>5. p \in Nat /\ q \in Nat
   BY <3>2, <3>3, Products
  <3>6. IsMesh(e)
   BY <3>4, <3>5 DEF IsMesh
  <3> HIDE DEF e, p, q
  <3>7. PICK d : d = Append(meshes, e)
   OBVIOUS
  <3>8. /\ MeshesOK(d)
        /\ MeshesSum(d) = MeshesSum(meshes) + MeshBytes(e.positions, e.indices)
   BY <3>6, <3>7, MeshesGrow DEF PaidInv
  <3>9. WeldsOnce(model.types, d)
   BY <3>1, <3>4, <3>7, AppendsOther DEF PaidInv, MeshesOK
  <3>10. PICK b \in Nat : b = MeshBytes(p, q)
   BY <3>5, MeshCosts
  <3>11. MeshesSum(d) = MeshesSum(meshes) + b /\ meshes' = d /\ used' = used + b
   BY <2>5, <3>4, <3>7, <3>8, <3>10
  <3> QED BY <2>1, <2>2, <3>8, <3>9, <3>11, MeshesRetained
 <2> QED BY <2>3, <2>4, <2>5
<1> QED BY <1>2, <1>3, <1>4

\* While a row of reinforcement is gone through, its polygon is asked for first, and was read
\* when anything else is asked for.
RoundOK ==
  /\ round # "none" => AtRow("rebars")
  /\ round = "polygon" => asked = <<Bar.polygon>> \/ Bar.polygon \in DOMAIN cache
  /\ round \notin {"none", "polygon"} => Bar.polygon \in Succeeded(cache)

\* What is known stays known.
LEMMA AskKeepsRound ==
  ASSUME RoundOK, AskStep
  PROVE  RoundOK'
<1>1. /\ round' = round /\ Bar' = Bar /\ AtRow("rebars") = AtRow("rebars")'
 BY DEF AskStep, Bar, AtRow, RowsOf
<1>2. ASSUME NEW status, NEW chain, Remember(status, chain), Wanted \notin DOMAIN cache
      PROVE  /\ Succeeded(cache) \subseteq Succeeded(cache')
             /\ DOMAIN cache \subseteq DOMAIN cache' /\ Wanted \in DOMAIN cache'
             /\ asked' = Tail(asked)
 BY <1>2 DEF Remember, Succeeded
<1>3. \/ cache' = cache /\ asked' = asked
      \/ /\ Succeeded(cache) \subseteq Succeeded(cache')
         /\ DOMAIN cache \subseteq DOMAIN cache' /\ Wanted \in DOMAIN cache'
         /\ asked' = Tail(asked)
 <2>1. Walking => Wanted \notin DOMAIN cache
  BY DEF Walking, Known
 <2>2. CASE Recall
  BY <2>2 DEF Recall, Known
 <2>3. CASE VisitsExhausted
  BY <1>2, <2>1, <2>3 DEF VisitsExhausted
 <2>4. CASE VisitBroken
  BY <1>2, <2>1, <2>4 DEF VisitBroken
 <2>5. CASE Visit
  BY <1>2, <2>1, <2>5 DEF Visit
 <2>6. CASE Resolve
  BY <1>2, <2>1, <2>6 DEF Resolve
 <2> QED BY <2>2, <2>3, <2>4, <2>5, <2>6 DEF AskStep, Ask
<1>4. asked = <<Bar.polygon>> => Wanted = Bar.polygon
 BY DEF Wanted
<1>5. Bar.polygon = Bar.polygon'
 BY <1>1
<1>6. PICK p, r : p = Bar.polygon /\ r = round
 OBVIOUS
<1>7. /\ (r = "polygon" => asked = <<p>> \/ p \in DOMAIN cache)
      /\ (r \notin {"none", "polygon"} => p \in Succeeded(cache))
      /\ (asked = <<p>> => Wanted = p)
 BY <1>4, <1>6 DEF RoundOK
<1>8. /\ (r = "polygon" => asked' = <<p>> \/ p \in DOMAIN cache')
      /\ (r \notin {"none", "polygon"} => p \in Succeeded(cache'))
 BY <1>3, <1>7, Zenon
<1>9. round' = r /\ Bar'.polygon = p /\ (r # "none" => AtRow("rebars")')
 BY <1>1, <1>6 DEF RoundOK
<1> QED BY <1>8, <1>9 DEF RoundOK, Succeeded

\* Between rows nothing is asked for.
LEMMA NoRoundKeeps ==
  ASSUME round' = "none"
  PROVE  RoundOK'
BY DEF RoundOK

LEMMA AskForKeepsRound ==
  ASSUME AtRow("rebars"), NEW next, NEW links, AskFor(next, links),
         \/ next = "polygon" /\ links = <<Bar.polygon>>
         \/ next \notin {"none", "polygon"} /\ Bar.polygon \in Succeeded(cache)
  PROVE  RoundOK'
<1>1. /\ round' = next /\ asked' = links /\ cache' = cache /\ Bar' = Bar
      /\ AtRow("rebars") = AtRow("rebars")'
 BY DEF AskFor, Bar, AtRow, RowsOf
<1>2. PICK p : p = Bar.polygon
 OBVIOUS
<1>3. Bar'.polygon = p
 BY <1>1, <1>2
<1>4. Succeeded(cache') = Succeeded(cache)
 BY <1>1
<1> QED BY <1>1, <1>2, <1>3, <1>4 DEF RoundOK, Succeeded

LEMMA RebarKeepsRound ==
  ASSUME RoundOK, BeginRebar \/ HearPolygon \/ HearSize \/ HearGroup \/ HearMesh \/ HearBentMesh
  PROVE  RoundOK'
<1>1. \A code : Report(code) => round' = "none"
 BY DEF Report, Leave
<1>2. \A bars, count, points : Expand(bars, count, points) => round' = "none"
 BY DEF Expand, Report, Leave
<1>3. Leave => round' = "none"
 BY DEF Leave
<1>4. CASE BeginRebar
 BY <1>1, <1>3, <1>4, NoRoundKeeps, AskForKeepsRound DEF BeginRebar, AtRound
<1>5. CASE HearPolygon
 <2>1. \/ round' = "none"
       \/ /\ AtRow("rebars") /\ round = "polygon" /\ asked = <<>> /\ AllRead({Bar.polygon})
          /\ \E next \in {"size", "mesh"} : \E links : AskFor(next, links)
  BY <1>1, <1>5 DEF PolygonProblem, HearPolygon, AtRound
 <2>2. CASE round' = "none"
  BY <2>2, NoRoundKeeps
 <2>3. CASE /\ AtRow("rebars") /\ round = "polygon" /\ asked = <<>> /\ AllRead({Bar.polygon})
            /\ \E next \in {"size", "mesh"} : \E links : AskFor(next, links)
  <3>1. Bar.polygon \in DOMAIN cache
   BY <2>3 DEF RoundOK
  <3>2. Bar.polygon \in Succeeded(cache)
   BY <2>3, <3>1 DEF AllRead, Succeeded
  <3>3. PICK next \in {"size", "mesh"} : \E links : AskFor(next, links)
   BY <2>3
  <3>4. PICK links : AskFor(next, links)
   BY <3>3
  <3> QED BY <2>3, <3>2, <3>4, AskForKeepsRound
 <2> QED BY <2>1, <2>2, <2>3
<1>6. CASE HearSize
 BY <1>1, <1>2, <1>6, NoRoundKeeps, AskForKeepsRound DEF HearSize, AtRound, RoundOK
<1>7. CASE HearGroup \/ HearMesh \/ HearBentMesh
 BY <1>1, <1>2, <1>3, <1>7, NoRoundKeeps DEF HearGroup, HearMesh, HearBentMesh
<1> QED BY <1>4, <1>5, <1>6, <1>7

\* The other rows ask for nothing.
LEMMA OthersKeepRound ==
  ASSUME RoundOK,
         \/ NoObjects \/ NextStage \/ ReadContour \/ DrawSurface \/ ReadWeldRow
         \/ (\E polygon \in todo : DrawWeld(polygon) \/ ReportWeld(polygon))
         \/ DrawGrid \/ DrawBolt
  PROVE  RoundOK'
BY NoRoundKeeps DEF NoObjects, NextStage, ReadContour, DrawSurface, ReadWeldRow, DrawWeld,
   ReportWeld, DrawGrid, DrawBolt, Quiet, AtRow, RoundOK

LEMMA RoundIsKept == RoundOK /\ [GeometryNext]_geometryVars => RoundOK'
BY AskKeepsRound, RebarKeepsRound, OthersKeepRound DEF geometryVars, linkVars, RoundOK, AtRow,
   RowsOf, Bar, Succeeded, Decode, DecodeRebar, AskStep, GeometryNext, Finished

\* A row of reinforcement that is asked for more, or that is left without a bar, retains nothing.
LEMMA NothingDrawn ==
  ASSUME GeometryInv, PaidInv, AtRow("rebars"), UNCHANGED <<curves, meshes>>,
         Leave \/ \E next, links : AskFor(next, links), used' \in Int, used <= used'
  PROVE  PaidInv'
BY NothingRetained DEF Leave, AskFor, NextRow, SameWalk, fixedLinkVars, walkVars, polygonVars,
   AtRow, TodoKept, SameLists

\* Bars are paid for one by one, and drawn when all of them are.
LEMMA ExpandPays ==
  ASSUME GeometryInv, PaidInv, AtRow("rebars"), NEW bars \in Nat, NEW count, NEW points \in Nat,
         Expand(bars, count, points)
  PROVE  PaidInv'
<1>1. used \in Nat /\ limit \in Nat /\ used <= limit
 BY DEF GeometryInv, Given, BudgetOK
<1>2. PICK c \in Nat : c = CurveBytes(points)
 BY LinksAssumption, Products DEF CurveBytes
<1>3. PICK n \in 0..bars :
          /\ n * c \in 0..limit - used
          /\ n < bars => ~((n + 1) * c \in 0..limit - used)
          /\ used' = used + n * c
 BY <1>2 DEF Expand, SpentOnCurves, Affordable, Remaining, Spent
<1>4. bars * c \in Nat /\ n * c \in Nat /\ (n + 1) * c \in Nat /\ (n < bars => (n + 1) * c <= bars * c)
 BY <1>3, Products
<1>5. CASE bars * CurveBytes(points) > Remaining
 BY <1>1, <1>3, <1>4, <1>5, NothingDrawn DEF Expand, Report, Diagnose
<1>6. CASE ~(bars * CurveBytes(points) > Remaining)
 <2>1. bars * c <= limit - used
  BY <1>1, <1>2, <1>4, <1>6 DEF Remaining
 <2>2. n = bars
  BY <1>1, <1>3, <1>4, <2>1
 <2>3. PICK a \in Nat : a = bars * c
  BY <1>4
 <2>4. used' = used + a
  BY <1>3, <2>2, <2>3
 <2>5. PICK id : id = Bar.id
  OBVIOUS
 <2>6. PICK d : d = MoreCurves(curves, bars, id, points)
  OBVIOUS
 <2>7. Leave /\ curves' = d /\ meshes' = meshes
  BY <1>6, <2>5, <2>6 DEF Expand, DrawCurves, MoreCurves
 <2>8. CurvesOK(d) /\ CurvesSum(d) = CurvesSum(curves) + bars * CurveBytes(points)
  BY <2>6, CurvesGrow DEF PaidInv
 <2>9. CurvesSum(d) = CurvesSum(curves) + a
  BY <1>2, <2>3, <2>8
 <2>10. SameWalk /\ UNCHANGED <<model, rows, meshes, contours, kept>> /\ stage' = stage
        /\ stage = "rebars"
  BY <2>7 DEF Leave, NextRow, SameWalk, fixedLinkVars, walkVars, polygonVars, AtRow
 <2>11. TodoKept
  BY <2>10 DEF TodoKept
 <2> QED BY <2>4, <2>7, <2>8, <2>9, <2>10, <2>11, CurvesRetained
<1> QED BY <1>5, <1>6

\* Numbers of points and of bars.
LEMMA BarsAreNumbers ==
  ASSUME GeometryInv, PaidInv, RoundOK, AtRow("rebars")
  PROVE  /\ round \notin {"none", "polygon"} => PathPoints \in Nat
         /\ Lengthwise \in Nat /\ Across \in Nat
         /\ \A most : Len(GroupDistances(most).at) \in Nat
<1>1. /\ Bar.length \in Nat /\ Bar.bars \in Nat /\ Bar.spacings \in Seq(Nat)
      /\ Direction(Bar.along) /\ Direction(Bar.across)
 BY NonPartAssumption DEF GeometryInv, Given, AtRow, RowsOf, Bar
<1>2. ASSUME round \notin {"none", "polygon"} PROVE PathPoints \in Nat
 <2>1. Bar.polygon \in Succeeded(cache)
  BY <1>2 DEF RoundOK
 <2>2. PICK n \in Nat : n = ChainSum(rows, cache[Bar.polygon].chain)
  BY <2>1, CostsAreNumbers
 <2>3. PathPoints = n \div PointBytes
  BY <2>2 DEF PathPoints, BytesOf, ChainSum
 <2>4. PointBytes \in Nat \ {0}
  BY LinksAssumption
 <2>5. \A a \in Nat, b \in Nat \ {0} : a \div b \in Nat
  OBVIOUS
 <2> QED BY <2>3, <2>4, <2>5
<1>3. \A a, b \in Int : \A s \in Nat \ {0} : RegularCount(a, b, s) \in Nat
 <2> SUFFICES ASSUME NEW a \in Int, NEW b \in Int, NEW s \in Nat \ {0}
              PROVE  RegularCount(a, b, s) \in Nat
  OBVIOUS
 <2>1. CASE a > b
  BY <2>1 DEF RegularCount
 <2>2. CASE ~(a > b)
  BY <2>2 DEF RegularCount
 <2> QED BY <2>1, <2>2
<1>4. Lengthwise \in Nat /\ Across \in Nat
 BY <1>1, <1>3 DEF Lengthwise, Across, Direction
<1>5. ASSUME NEW most PROVE Len(GroupDistances(most).at) \in Nat
 <2>1. CASE ~Bar.shaped
  <3>1. PICK none : none = <<>>
   OBVIOUS
  <3>2. Len(none) \in Nat
   BY <3>1
  <3>3. GroupDistances(most).at = none
   BY <2>1, <3>1 DEF GroupDistances, Refused
  <3> QED BY <3>2, <3>3
 <2>2. CASE Bar.shaped
  <3>1. PICK s : s = IF Bar.kind = "count" /\ Bar.bars > 0 THEN <<Bar.bars>> ELSE Bar.spacings
   OBVIOUS
  <3>2. s \in Seq(Nat)
   BY <1>1, <3>1
  <3>3. PICK x : x = Distances(Bar.kind, Bar.length, s, most)
   OBVIOUS
  <3>4. IsPlacement(x)
   BY <1>1, <3>2, <3>3, DistancesArePlaced
  <3>5. GroupDistances(most) = Excluded(Bar.exclusion, x)
   BY <2>2, <3>1, <3>3 DEF GroupDistances
  <3> QED BY <3>4, <3>5, ExcludedIsPlaced
 <2> QED BY <2>1, <2>2
<1> QED BY <1>2, <1>4, <1>5

\* The bars of a bent mesh are paid for together.
LEMMA BentMeshPays ==
  ASSUME GeometryInv, PaidInv, RoundOK, AtRow("rebars"), round = "mesh",
         Spent(BentBytes), Leave, meshes' = meshes,
         curves' = curves \o [i \in 1..Across |-> [id |-> Bar.id, points |-> PathPoints]]
                          \o [i \in 1..Lengthwise |-> [id |-> Bar.id, points |-> 2]]
  PROVE  PaidInv'
<1>1. PICK p \in Nat, n \in Nat, m \in Nat : p = PathPoints /\ n = Across /\ m = Lengthwise
 BY BarsAreNumbers
<1>2. PICK id : id = Bar.id
 OBVIOUS
<1>3. PICK d : d = MoreCurves(curves, n, id, p)
 OBVIOUS
<1>4. PICK e : e = MoreCurves(d, m, id, 2)
 OBVIOUS
<1>5. curves' = e
 BY <1>1, <1>2, <1>3, <1>4 DEF MoreCurves
<1>6. PICK x \in Nat, y \in Nat : x = CurveBytes(p) /\ y = CurveBytes(2)
 <2>1. \A q \in Nat : CurveBytes(q) \in Nat
  BY LinksAssumption, Products, SMTT(30) DEF CurveBytes
 <2> QED BY <2>1
<1>7. CurvesOK(d) /\ CurvesSum(curves) \in Nat /\ CurvesSum(d) = CurvesSum(curves) + n * CurveBytes(p)
 BY <1>3, CurvesGrow DEF PaidInv
<1>8. CurvesOK(e) /\ CurvesSum(d) \in Nat /\ CurvesSum(e) = CurvesSum(d) + m * CurveBytes(2)
 BY <1>4, <1>7, CurvesGrow
<1>9. PICK a \in Nat : a = n * x + m * y
 BY Products
<1>10. CurvesSum(e) = CurvesSum(curves) + a
 BY <1>6, <1>7, <1>8, <1>9, Products
<1>11. used' = used + a
 BY <1>1, <1>6, <1>9 DEF Spent, BentBytes
<1>12. SameWalk /\ UNCHANGED <<model, rows, meshes, contours, kept>> /\ stage' = stage
       /\ stage = "rebars"
 BY DEF Leave, NextRow, SameWalk, fixedLinkVars, walkVars, polygonVars, AtRow
<1>13. TodoKept
 BY <1>12 DEF TodoKept
<1> QED BY <1>5, <1>8, <1>10, <1>11, <1>12, <1>13, CurvesRetained

LEMMA RebarPays ==
  ASSUME GeometryInv, PaidInv, RoundOK,
         BeginRebar \/ HearPolygon \/ HearSize \/ HearGroup \/ HearMesh \/ HearBentMesh
  PROVE  PaidInv'
<1>1. AtRow("rebars")
 BY DEF BeginRebar, HearPolygon, HearSize, HearGroup, HearMesh, HearBentMesh, AtRound
<1>2. used \in Nat /\ limit \in Nat /\ used <= limit
 BY DEF GeometryInv, Given, BudgetOK
<1>3. ASSUME used' = used \/ used' = limit,
             \/ \E code : Report(code)
             \/ Leave /\ UNCHANGED outVars
             \/ \E next, links : AskFor(next, links)
      PROVE  PaidInv'
 <2>1. used' \in Int /\ used <= used'
  BY <1>2, <1>3
 <2>2. UNCHANGED <<curves, meshes>> /\ (Leave \/ \E next, links : AskFor(next, links))
  BY <1>3, Zenon DEF Report, Diagnose, outVars, AskFor
 <2> QED BY <1>1, <2>1, <2>2, NothingDrawn
<1>4. \A next, links : AskFor(next, links) => used' = used
 BY DEF AskFor
<1>5. CASE BeginRebar
 BY <1>3, <1>4, <1>5, Zenon DEF BeginRebar
<1>6. CASE HearPolygon
 BY <1>3, <1>4, <1>6, Zenon DEF HearPolygon
<1>7. /\ round \notin {"none", "polygon"} => PathPoints \in Nat
      /\ Lengthwise \in Nat /\ Across \in Nat
      /\ \A most : Len(GroupDistances(most).at) \in Nat
 BY <1>1, BarsAreNumbers
<1>8. CASE HearSize
 BY <1>1, <1>3, <1>4, <1>7, <1>8, ExpandPays DEF HearSize, AtRound, Exhaust
<1>9. CASE HearGroup
 <2>1. PathPoints \in Nat
  BY <1>7, <1>9 DEF HearGroup, AtRound
 <2>2. \/ \E code : Report(code) /\ (used' = used \/ used' = limit)
       \/ LET bars == Len(GroupDistances(Room(PathPoints)).at) IN
          Expand(bars, bars, IF Bar.tapered THEN 2 ELSE PathPoints)
  BY <1>9, Zenon DEF HearGroup, Exhaust
 <2>3. PICK bars \in Nat : bars = Len(GroupDistances(Room(PathPoints)).at)
  BY <1>7
 <2>4. PICK p \in Nat : p = IF Bar.tapered THEN 2 ELSE PathPoints
  BY <2>1
 <2>5. \/ \E code : Report(code) /\ (used' = used \/ used' = limit)
       \/ Expand(bars, bars, p)
  BY <2>2, <2>3, <2>4
 <2> QED BY <1>1, <1>3, <2>5, ExpandPays
<1>10. CASE HearMesh
 <2>1. \/ \E code : Report(code) /\ (used' = used \/ used' = limit)
       \/ Expand(Lengthwise + Across, Lengthwise + Across, 2)
  BY <1>10, Zenon DEF HearMesh, Exhaust
 <2>2. PICK bars \in Nat : bars = Lengthwise + Across
  BY <1>7
 <2>3. \/ \E code : Report(code) /\ (used' = used \/ used' = limit)
       \/ Expand(bars, bars, 2)
  BY <2>1, <2>2
 <2> QED BY <1>1, <1>3, <2>3, ExpandPays
<1>11. CASE HearBentMesh
 BY <1>1, <1>3, <1>11, BentMeshPays DEF HearBentMesh, AtRound
<1> QED BY <1>5, <1>6, <1>8, <1>9, <1>10, <1>11

\* Nothing is retained at the start.
LEMMA NothingAtFirst == GeometryInit => PaidInv /\ RoundOK
<1> SUFFICES ASSUME GeometryInit PROVE PaidInv /\ RoundOK
 OBVIOUS
<1>1. RoundOK
 BY DEF GeometryInit, RoundOK
<1>2. PICK none, k0, p0 : none = <<>> /\ k0 = [k \in {} |-> 0] /\ p0 = [k \in {} |-> <<>>]
 OBVIOUS
<1>3. /\ curves = none /\ meshes = none /\ cache = k0 /\ contours = k0 /\ kept = p0 /\ used = 0
      /\ path = none /\ weight = 0 /\ stage # "welds"
 BY <1>2 DEF GeometryInit, NoneAsked
<1>4. DOMAIN none = {} /\ DOMAIN k0 = {} /\ DOMAIN p0 = {} /\ IsList(none) /\ IsFiniteSet({})
 <2>1. none \in Seq({})
  BY <1>2
 <2>2. DOMAIN none = {}
  BY <1>2
 <2>3. DOMAIN k0 = {} /\ DOMAIN p0 = {}
  BY <1>2
 <2>4. IsList(none)
  BY <2>1, ListOf
 <2> QED BY <2>2, <2>3, <2>4, FS_EmptySet
<1>5. \A f : DOMAIN f = {} => Total(f) = 0
 BY <1>4, TotalIsNumber DEF Numbers
<1>6. CurvesSum(none) = 0 /\ MeshesSum(none) = 0
 BY <1>4, <1>5 DEF CurvesSum, MeshesSum
<1>7. Succeeded(k0) = {} /\ ReadSum(rows, k0) = 0 /\ PointsSum(k0) = 0
 BY <1>4, <1>5 DEF Succeeded, ReadSum, PointsSum
<1>8. KeptSum(p0) = 0 /\ ChainSum(rows, none) = 0
 BY <1>4, <1>5 DEF KeptSum, ChainSum
<1>9. CurvesOK(none) /\ MeshesOK(none) /\ WeldsOnce(model.types, none)
 BY <1>4 DEF CurvesOK, MeshesOK, WeldsOnce
<1>10. ReadOK /\ KeptOK /\ IsFiniteSet(DOMAIN contours)
 BY <1>3, <1>4, <1>7, <1>8 DEF ReadOK, KeptOK
<1> QED BY <1>1, <1>3, <1>6, <1>7, <1>8, <1>9, <1>10 DEF PaidInv

\* Every step pays for what it retains.
LEMMA StepPays == GeometryInv /\ PaidInv /\ RoundOK /\ [GeometryNext]_geometryVars => PaidInv'
<1> SUFFICES ASSUME GeometryInv, PaidInv, RoundOK, [GeometryNext]_geometryVars PROVE PaidInv'
 OBVIOUS
<1>1. CASE UNCHANGED geometryVars
 BY <1>1, NothingRetained DEF geometryVars, linkVars, outVars, polygonVars, SameLists, SameWalk,
    TodoKept, PaidInv, KeptOK, GeometryInv, Given, BudgetOK
<1>2. CASE Decode
 BY <1>2, AskPays, SurfacePays, WeldPays, StagePays, RebarPays, Zenon DEF Decode, DecodeRebar, AskStep
<1> QED BY <1>1, <1>2 DEF GeometryNext, Finished

\* For all tables and limits the bytes used are enough for everything that is retained together:
\* curves, meshes, the chains of linked rows that are known, and the contours and weld rows that
\* are kept aside.  Nothing is handed out or remembered before it was paid for, and no limit is
\* passed (make_nonpart_geometry_stream, RetainedGeometryBudget).
THEOREM EverythingIsPaidFor == GeometrySpec => []RetainedIsPaid
<1> DEFINE Inv == GeometryInv /\ PaidInv /\ RoundOK
<1>1. GeometryInit => Inv
 BY GeometryInitKeeps, NothingAtFirst
<1>2. Inv /\ [GeometryNext]_geometryVars => Inv'
 BY GeometryStepKeeps, StepPays, RoundIsKept
<1>3. Inv => RetainedIsPaid
 <2> SUFFICES ASSUME GeometryInv, PaidInv PROVE RetainedIsPaid
  OBVIOUS
 <2>1. WithinLimits
  BY DEF GeometryInv, Given, BudgetOK, WithinLimits
 <2>2. CurvesBytes = CurvesSum(curves) /\ MeshesBytes = MeshesSum(meshes)
  BY DEF CurvesBytes, CurvesSum, MeshesBytes, MeshesSum
 <2>3. ReadBytes = ReadSum(rows, cache)
  BY Zenon DEF ReadBytes, ReadSum, Succeeded, BytesOf, ChainSum
 <2>4. PointsBytes = PointsSum(contours) /\ KeptBytes = KeptSum(kept)
  BY DEF PointsBytes, PointsSum, KeptBytes, KeptSum, KeptBytesOf
 <2> QED BY <2>1, <2>2, <2>3, <2>4 DEF RetainedIsPaid, PaidInv
<1> QED BY <1>1, <1>2, <1>3, PTL DEF GeometrySpec
-----------------------------------------------------------------------------
(* Welds are whole: the sum of the values of a polygon's rows is the same in any order, and a *)
(* sweep begins where the sum over those before it ends.                                      *)

\* A sum over numbered members, taken in another order: what is summed as g is what is summed
\* as f, at the places h.
Reordered(f, g, h, n) ==
  /\ n \in Nat /\ Numbers(f) /\ DOMAIN f = 1..n /\ DOMAIN g = 1..n /\ DOMAIN h = 1..n
  /\ \A i \in 1..n : h[i] \in 1..n /\ g[i] = f[h[i]]
  /\ \A i, j \in 1..n : h[i] = h[j] => i = j
  /\ \A k \in 1..n : \E i \in 1..n : h[i] = k

LEMMA OrderIsNone ==
  ASSUME NEW f, NEW g, NEW h, NEW n, Reordered(f, g, h, n)
  PROVE  Total(g) = Total(f)
<1>0. /\ n \in Nat /\ Numbers(f) /\ DOMAIN f = 1..n /\ DOMAIN g = 1..n /\ DOMAIN h = 1..n
      /\ \A i \in 1..n : h[i] \in 1..n /\ g[i] = f[h[i]]
      /\ \A i, j \in 1..n : h[i] = h[j] => i = j
      /\ \A k \in 1..n : \E i \in 1..n : h[i] = k
 BY DEF Reordered
<1> DEFINE places(k) == {h[i] : i \in 1..k}
           first(k) == [i \in 1..k |-> g[i]]
           there(k) == [y \in places(k) |-> f[y]]
           P == {k \in Nat : k <= n => Total(first(k)) = Total(there(k))}
<1>1. \A y \in 1..n : f[y] \in Nat
 BY <1>0 DEF Numbers
<1>2. ASSUME NEW k \in Nat, k <= n PROVE Numbers(first(k)) /\ Numbers(there(k))
 <2>1. IsFiniteSet(1..k) /\ IsFiniteSet(1..n)
  BY <1>0, FS_Interval
 <2>2. \A i \in 1..k : i \in 1..n
  BY <1>0, <1>2
 <2>3. places(k) \subseteq 1..n
  BY <1>0, <2>2
 <2>4. IsFiniteSet(places(k))
  <3> HIDE DEF places
  <3> QED BY <2>1, <2>3, FS_Subset
 <2>5. Numbers(first(k))
  BY <1>0, <1>1, <2>1, <2>2 DEF Numbers
 <2>6. DOMAIN there(k) = places(k) /\ \A y \in places(k) : there(k)[y] = f[y]
  OBVIOUS
 <2> HIDE DEF places, there
 <2>7. Numbers(there(k))
  BY <1>1, <2>3, <2>4, <2>6 DEF Numbers
 <2> QED BY <2>5, <2>7
<1>3. 0 \in P
 <2>1. DOMAIN first(0) = {} /\ DOMAIN there(0) = {}
  OBVIOUS
 <2>2. Numbers(first(0)) /\ Numbers(there(0))
  <3>1. 0 \in Nat /\ 0 <= n
   BY <1>0
  <3> HIDE DEF first, there
  <3> QED BY <1>2, <3>1
 <2> HIDE DEF first, there
 <2> QED BY <2>1, <2>2, TotalIsNumber
<1>4. ASSUME NEW k \in Nat, k \in P PROVE k + 1 \in P
 <2> SUFFICES ASSUME k + 1 <= n PROVE Total(first(k + 1)) = Total(there(k + 1))
  OBVIOUS
 <2>1. Total(first(k)) = Total(there(k))
  BY <1>0, <1>4
 <2>2. Numbers(first(k + 1)) /\ Numbers(there(k + 1))
  <3>1. k + 1 \in Nat
   OBVIOUS
  <3> HIDE DEF first, there
  <3> QED BY <1>2, <3>1
 <2>3. /\ k + 1 \in DOMAIN first(k + 1) /\ first(k + 1)[k + 1] = g[k + 1]
       /\ DOMAIN first(k) = DOMAIN first(k + 1) \ {k + 1}
       /\ \A i \in DOMAIN first(k) : first(k)[i] = first(k + 1)[i]
  OBVIOUS
 <2>4. places(k) = places(k + 1) \ {h[k + 1]} /\ h[k + 1] \in places(k + 1)
  <3>1. \A i \in 1..k + 1 : i \in 1..k \/ i = k + 1
   OBVIOUS
  <3>2. k + 1 \in 1..k + 1 /\ k + 1 \in 1..n /\ k + 1 \notin 1..k /\ 1..k \subseteq 1..k + 1
        /\ 1..k \subseteq 1..n
   BY <1>0
  <3>3. \A i \in 1..k : h[i] # h[k + 1]
   BY <1>0, <3>2
  <3> QED BY <3>1, <3>2, <3>3
 <2>5. /\ h[k + 1] \in DOMAIN there(k + 1) /\ there(k + 1)[h[k + 1]] = f[h[k + 1]]
       /\ DOMAIN there(k) = DOMAIN there(k + 1) \ {h[k + 1]}
       /\ \A y \in DOMAIN there(k) : there(k)[y] = there(k + 1)[y]
  <3> HIDE DEF places
  <3> QED BY <2>4
 <2>6. g[k + 1] = f[h[k + 1]] /\ f[h[k + 1]] \in Nat
  BY <1>0, <1>1
 <2> HIDE DEF first, there, places
 <2>7. Total(first(k + 1)) = g[k + 1] + Total(first(k))
  BY <2>2, <2>3, TotalWithout
 <2>8. Total(there(k + 1)) = f[h[k + 1]] + Total(there(k))
  BY <2>2, <2>5, TotalWithout
 <2> QED BY <2>1, <2>6, <2>7, <2>8
<1>5. Nat \subseteq P
 <2> HIDE DEF P
 <2> QED BY <1>3, <1>4, SetInduction
<1>6. Total(first(n)) = Total(there(n))
 <2>1. n \in P /\ n <= n
  <3> HIDE DEF P
  <3> QED BY <1>0, <1>5
 <2> HIDE DEF first, there
 <2> QED BY <2>1
<1>7. places(n) = 1..n
 BY <1>0
<1>8. Total(there(n)) = Total(f)
 <2>1. DOMAIN there(n) = DOMAIN f /\ \A y \in DOMAIN f : there(n)[y] = f[y]
  BY <1>0, <1>7
 <2> HIDE DEF there
 <2> QED BY <1>0, <2>1, TotalSame
<1>9. Total(first(n)) = Total(g)
 <2>1. DOMAIN g = DOMAIN first(n) /\ \A i \in DOMAIN first(n) : g[i] = first(n)[i]
  BY <1>0
 <2>2. Numbers(first(n))
  <3>1. n <= n
   BY <1>0
  <3> HIDE DEF first, there
  <3> QED BY <1>0, <1>2, <3>1
 <2> HIDE DEF first
 <2> QED BY <2>1, <2>2, TotalSame
<1> QED BY <1>6, <1>8, <1>9

\* Rows whose numbers are 0, 1, 2, ... are put in this order, none of them is lost, and they
\* have the same values.
LEMMA ByNumberOrders ==
  ASSUME NEW parts, PartsOK(parts), InSequence(parts)
  PROVE  /\ PartsOK(ByNumber(parts)) /\ Len(ByNumber(parts)) = Len(parts)
         /\ \A n \in DOMAIN ByNumber(parts) : ByNumber(parts)[n].number = n - 1
         /\ Values(ByNumber(parts)) = Values(parts)
<1> DEFINE l == Len(parts)
<1>1. /\ l \in Nat /\ DOMAIN parts = 1..l /\ \A i \in 1..l : parts[i].values \in Nat
      /\ IsFiniteSet(DOMAIN parts)
 BY ListFacts DEF PartsOK
<1>2. {parts[i].number : i \in DOMAIN parts} = 0..l - 1
 BY DEF InSequence
<1> HIDE DEF l
<1>3. PICK t : t = [i \in 1..l |-> parts[i].number]
 OBVIOUS
<1>4. t \in Surjection(1..l, 0..l - 1)
 BY <1>1, <1>2, <1>3 DEF Surjection
<1>5. IsFiniteSet(1..l) /\ Cardinality(1..l) = Cardinality(0..l - 1)
 BY <1>1, FS_Interval
<1>6. t \in Injection(1..l, 0..l - 1)
 BY <1>4, <1>5, FS_SurjSameCardinalityImpliesInj
<1>7. \A i, j \in 1..l : t[i] = t[j] => i = j
 BY <1>6 DEF Injection, IsInjective
<1>8. PICK h : h = [n \in 1..l |-> CHOOSE i \in DOMAIN parts : parts[i].number = n - 1]
 OBVIOUS
<1>9. \A n \in 1..l : h[n] \in 1..l /\ parts[h[n]].number = n - 1
 <2> SUFFICES ASSUME NEW n \in 1..l PROVE h[n] \in 1..l /\ parts[h[n]].number = n - 1
  OBVIOUS
 <2>1. n - 1 \in 0..l - 1
  BY <1>1
 <2>2. PICK i \in DOMAIN parts : parts[i].number = n - 1
  BY <1>2, <2>1
 <2>3. h[n] = CHOOSE j \in DOMAIN parts : parts[j].number = n - 1
  BY <1>8
 <2> QED BY <1>1, <2>2, <2>3
<1>10. PICK o : o = ByNumber(parts)
 OBVIOUS
<1>11. /\ o = [n \in 1..l |-> parts[h[n]]]
       /\ DOMAIN o = 1..l /\ \A n \in 1..l : o[n] = parts[h[n]]
 BY <1>1, <1>8, <1>10 DEF ByNumber
<1>12. IsList(o)
 BY <1>1, <1>11, FunctionIsList
<1>13. PartsOK(o)
 BY <1>1, <1>9, <1>11, <1>12 DEF PartsOK
<1>14. Len(o) = l
 BY <1>1, <1>11, <1>12, ListFacts
<1>15. \A n \in DOMAIN o : o[n].number = n - 1
 BY <1>9, <1>11
<1>16. Values(o) = Values(parts)
 <2> DEFINE f == [i \in DOMAIN parts |-> parts[i].values]
            g == [i \in DOMAIN o |-> o[i].values]
 <2>1. Numbers(f)
  BY <1>1 DEF Numbers
 <2>2. DOMAIN f = 1..l /\ DOMAIN g = 1..l /\ DOMAIN h = 1..l
  BY <1>1, <1>8, <1>11
 <2>3. \A i \in 1..l : h[i] \in 1..l /\ g[i] = f[h[i]]
  BY <1>1, <1>9, <1>11
 <2>4. \A i, j \in 1..l : h[i] = h[j] => i = j
  <3>1. SUFFICES ASSUME NEW i \in 1..l, NEW j \in 1..l, h[i] = h[j] PROVE i = j
   OBVIOUS
  <3>2. i - 1 = j - 1
   BY <1>9, <3>1
  <3> QED BY <1>1, <3>2
 <2>5. \A k \in 1..l : \E i \in 1..l : h[i] = k
  <3>1. SUFFICES ASSUME NEW k \in 1..l PROVE \E i \in 1..l : h[i] = k
   OBVIOUS
  <3>2. parts[k].number \in 0..l - 1
   BY <1>1, <1>2
  <3>3. parts[k].number + 1 \in 1..l /\ (parts[k].number + 1) - 1 = parts[k].number
   BY <1>1, <3>2
  <3>4. parts[h[parts[k].number + 1]].number = parts[k].number
        /\ h[parts[k].number + 1] \in 1..l
   BY <1>9, <3>3
  <3>5. h[parts[k].number + 1] = k
   BY <1>3, <1>7, <3>4
  <3> QED BY <3>3, <3>5
 <2>6. Values(parts) = Total(f) /\ Values(o) = Total(g)
  BY DEF Values
 <2> HIDE DEF f, g
 <2>7. Reordered(f, g, h, l)
  BY <1>1, <2>1, <2>2, <2>3, <2>4, <2>5 DEF Reordered
 <2> QED BY <2>6, <2>7, OrderIsNone
<1> QED BY <1>10, <1>13, <1>14, <1>15, <1>16 DEF l

\* The rows of a polygon that are displayed, all of them and those before a row.
RowsOfPolygon(p) ==
  {r \in DOMAIN model.weldRows :
      Displayable(model.weldRows[r]) /\ model.weldRows[r].polygon = p}
RowsBefore(p, n) == {r \in RowsOfPolygon(p) : r < n}

\* The vertices of a sweep.
Vertices(parts) == SweepPositions(parts) \div 3

\* A sweep has all rows of its polygon, in order, and begins behind the vertices of those before.
WholeSweep(sweeps, j) ==
  /\ \A k \in DOMAIN sweeps : sweeps[k].polygon = sweeps[j].polygon => k = j
  /\ \A n \in DOMAIN sweeps[j].parts : sweeps[j].parts[n].number = n - 1
  /\ Len(sweeps[j].parts) = Cardinality(RowsOfPolygon(sweeps[j].polygon))
  /\ Vertices(sweeps[j].parts) \in Nat
  /\ sweeps[j].first = Total([k \in 1..j - 1 |-> Vertices(sweeps[k].parts)])

\* Only meshes of welds have sweeps, which are all they consist of.
WeldMesh(e) ==
  /\ IsList(e.sweeps)
  /\ e.sweeps # <<>> => model.types[e.id] = "weld"
  /\ model.types[e.id] = "weld"
         => e.positions = 3 * Total([k \in DOMAIN e.sweeps |-> Vertices(e.sweeps[k].parts)])
  /\ \A j \in DOMAIN e.sweeps :
      Owner(e.sweeps[j].polygon) = e.id /\ WholeSweep(e.sweeps, j)

\* A mesh of a weld has one more sweep, along a polygon it has no sweep of yet.
LEMMA SweepIsAdded ==
  ASSUME NEW e, IsMesh(e), WeldMesh(e), NEW polygon,
         model.types[e.id] = "weld", Owner(polygon) = e.id,
         \A k \in DOMAIN e.sweeps : e.sweeps[k].polygon # polygon,
         PartsOK(kept[polygon]), InSequence(kept[polygon]), ~(Values(kept[polygon]) < 4),
         Len(kept[polygon]) = Cardinality(RowsOfPolygon(polygon))
  PROVE  /\ WeldMesh(Swept(e, polygon))
         /\ \A j \in DOMAIN Swept(e, polygon).sweeps :
               \/ Swept(e, polygon).sweeps[j].polygon = polygon
               \/ \E k \in DOMAIN e.sweeps :
                     Swept(e, polygon).sweeps[j].polygon = e.sweeps[k].polygon
<1>1. PICK old, more, s, o : /\ old = e.sweeps /\ more = Append(e.sweeps, SweepAlong(e, polygon))
                             /\ s = SweepAlong(e, polygon) /\ o = ByNumber(kept[polygon])
 OBVIOUS
<1>2. PICK m : m = Len(old)
 OBVIOUS
<1>3. IsList(old) /\ m \in Nat /\ DOMAIN old = 1..m
 BY <1>1, <1>2, ListFacts DEF WeldMesh
<1>4. /\ IsList(more) /\ DOMAIN more = 1..m + 1 /\ more[m + 1] = s
      /\ \A i \in 1..m : more[i] = old[i]
 BY <1>1, <1>2, <1>3, ListAppends DEF Longer
<1>5. /\ s.polygon = polygon /\ s.parts = o /\ s.first = e.positions \div 3
 BY <1>1 DEF SweepAlong
<1>6. /\ \A n \in DOMAIN o : o[n].number = n - 1
      /\ Len(o) = Cardinality(RowsOfPolygon(polygon)) /\ Values(o) = Values(kept[polygon])
 BY <1>1, ByNumberOrders
<1>7. PICK x \in Nat : /\ Vertices(o) = x /\ SweepPositions(kept[polygon]) = 3 * x
 <2>1. PICK v \in Nat : v = Values(kept[polygon])
  BY PartsCost
 <2>2. 4 <= v
  BY <2>1
 <2>3. PICK y \in Nat : y = (v - 1) \div 3
  BY <2>2
 <2>4. Segments(kept[polygon]) = y /\ Segments(o) = y
  BY <1>6, <2>1, <2>3 DEF Segments
 <2>5. SweepPositions(kept[polygon]) = 9 * (y + 1) /\ SweepPositions(o) = 9 * (y + 1)
  BY <2>4 DEF SweepPositions
 <2>6. (9 * (y + 1)) \div 3 = 3 * (y + 1) /\ 9 * (y + 1) = 3 * (3 * (y + 1)) /\ 3 * (y + 1) \in Nat
  OBVIOUS
 <2> QED BY <2>5, <2>6 DEF Vertices
<1>8. PICK f, g : /\ f = [k \in DOMAIN old |-> Vertices(old[k].parts)]
                  /\ g = [k \in DOMAIN more |-> Vertices(more[k].parts)]
 OBVIOUS
<1>9. /\ DOMAIN f = 1..m /\ DOMAIN g = 1..m + 1
      /\ \A k \in 1..m : f[k] \in Nat /\ f[k] = Vertices(old[k].parts) /\ g[k] = f[k]
      /\ g[m + 1] = x
 <2>1. \A k \in 1..m : Vertices(old[k].parts) \in Nat
  BY <1>1, <1>3 DEF WeldMesh, WholeSweep
 <2>2. \A k \in 1..m : k \in 1..m + 1
  BY <1>3
 <2>3. m + 1 \in 1..m + 1
  BY <1>3
 <2> QED BY <1>3, <1>4, <1>5, <1>7, <1>8, <2>1, <2>2, <2>3
<1>10. Numbers(f) /\ Total(f) \in Nat /\ Total(g) = Total(f) + x
 <2>1. \A i \in 1..m + 1 : i > m => i = m + 1
  BY <1>3
 <2>2. \A i \in 1..m + 1 : i > m => g[i] = x
  BY <1>9, <2>1
 <2>3. MoreOf(f, g, m, 1, x)
  BY <1>3, <1>7, <1>9, <2>2 DEF MoreOf
 <2>4. Numbers(f) /\ Total(f) \in Nat /\ Total(g) = Total(f) + 1 * x
  BY <2>3, TotalOfMore
 <2> QED BY <1>7, <2>4
<1>11. e.positions = 3 * Total(f) /\ s.first = Total(f)
 <2>1. e.positions = 3 * Total(f)
  BY <1>1, <1>8 DEF WeldMesh
 <2>2. PICK t \in Nat : t = Total(f)
  BY <1>10
 <2>3. (3 * t) \div 3 = t
  OBVIOUS
 <2> QED BY <1>5, <2>1, <2>2, <2>3
<1>12. PICK w : w = Swept(e, polygon)
 OBVIOUS
<1>13. w.sweeps = more /\ w.id = e.id /\ w.positions = e.positions + SweepPositions(kept[polygon])
 BY <1>1, <1>12, SweptIsMesh
<1>14. w.positions = 3 * Total(g)
 BY <1>7, <1>10, <1>11, <1>13
<1>15. \A j \in 1..m + 1 : j \in 1..m \/ j = m + 1
 BY <1>3
<1>16. ASSUME NEW j \in 1..m + 1
       PROVE  more[j].first = Total([k \in 1..j - 1 |-> Vertices(more[k].parts)])
 <2> DEFINE a == [k \in 1..j - 1 |-> Vertices(more[k].parts)]
            b == [k \in 1..j - 1 |-> Vertices(old[k].parts)]
 <2>1. \A k \in 1..j - 1 : k \in 1..m
  BY <1>3, <1>16
 <2>2. a = b
  BY <1>4, <2>1
 <2>3. CASE j \in 1..m
  <3>1. WholeSweep(old, j)
   BY <1>1, <1>3, <2>3 DEF WeldMesh
  <3>2. old[j].first = Total(b)
   BY <3>1 DEF WholeSweep
  <3>3. more[j] = old[j]
   BY <1>4, <2>3
  <3> HIDE DEF a, b
  <3> QED BY <2>2, <3>2, <3>3 DEF a
 <2>4. CASE j = m + 1
  <3>1. j - 1 = m
   BY <1>3, <2>4
  <3>2. b = f
   BY <1>3, <1>8, <3>1
  <3> QED BY <1>4, <1>11, <2>2, <2>4, <3>2
 <2> QED BY <1>15, <1>16, <2>3, <2>4
<1>17. ASSUME NEW j \in 1..m + 1
       PROVE  Owner(more[j].polygon) = e.id /\ WholeSweep(more, j)
 <2>1. CASE j \in 1..m
  <3>1. Owner(old[j].polygon) = e.id /\ WholeSweep(old, j) /\ more[j] = old[j]
   BY <1>1, <1>3, <1>4, <2>1 DEF WeldMesh
  <3>2. old[j].polygon # polygon
   BY <1>1, <1>3, <2>1
  <3>3. \A k \in DOMAIN more : more[k].polygon = more[j].polygon => k = j
   BY <1>3, <1>4, <1>5, <1>15, <3>1, <3>2 DEF WholeSweep
  <3> QED BY <1>16, <3>1, <3>3 DEF WholeSweep
 <2>2. CASE j = m + 1
  <3>1. more[j] = s
   BY <1>4, <2>2
  <3>2. \A k \in DOMAIN more : more[k].polygon = more[j].polygon => k = j
   BY <1>1, <1>3, <1>4, <1>5, <1>15, <2>2, <3>1
  <3> QED BY <1>5, <1>6, <1>7, <1>16, <3>1, <3>2 DEF WholeSweep
 <2> QED BY <1>15, <1>17, <2>1, <2>2
<1>18. WeldMesh(w)
 BY <1>4, <1>8, <1>13, <1>14, <1>17 DEF WeldMesh
<1>19. \A j \in DOMAIN more : more[j].polygon = polygon \/ \E k \in DOMAIN old : more[j].polygon = old[k].polygon
 BY <1>3, <1>4, <1>5, <1>15
<1> QED BY <1>1, <1>12, <1>13, <1>18, <1>19

\* Of a polygon without a bad row, the rows kept are as many as those of a set.
Counted(p, S) == IF p \in DOMAIN kept THEN Len(kept[p]) = Cardinality(S) ELSE S = {}
Unspoiled(p) == p \notin limited \cup invalid

StageNames == {Stages[i] : i \in DOMAIN Stages}

NoSweeps(m) == \A i \in DOMAIN m : m[i].sweeps = <<>>
SweepsBefore(m, t) == \A i \in DOMAIN m : \A j \in DOMAIN m[i].sweeps : m[i].sweeps[j].polygon \notin t

\* Every mesh is whole all along; sweeps come when all rows of the polygons are read.
WeldsInv ==
  /\ row \in Nat \ {0} /\ stage \in StageNames
  /\ \A i \in DOMAIN meshes : WeldMesh(meshes[i])
  /\ stage \in {"start", "contours", "surfaces", "weld_rows"} => NoSweeps(meshes)
  /\ stage \in {"start", "contours", "surfaces"} => DOMAIN kept = {}
  /\ stage = "weld_rows" => \A p : Unspoiled(p) => Counted(p, RowsBefore(p, row))
  /\ stage = "welds" => SweepsBefore(meshes, todo)
                        /\ \A p : Unspoiled(p) => Counted(p, RowsOfPolygon(p))

\* What a whole mesh is depends on the tables alone.
LEMMA WholeStays ==
  ASSUME model' = model
  PROVE  /\ \A p : RowsOfPolygon(p)' = RowsOfPolygon(p) /\ Owner(p)' = Owner(p)
         /\ \A p, n : RowsBefore(p, n)' = RowsBefore(p, n)
         /\ \A e : WeldMesh(e)' <=> WeldMesh(e)
<1>1. \A p : Owners(p)' = Owners(p) /\ Owner(p)' = Owner(p)
 BY DEF Owners, Owner, Related, Wanting
<1>2. \A part : Displayable(part)' <=> Displayable(part)
 BY <1>1 DEF Displayable
<1>3. \A p : RowsOfPolygon(p)' = RowsOfPolygon(p)
 BY <1>2 DEF RowsOfPolygon
<1>4. \A p, n : RowsBefore(p, n)' = RowsBefore(p, n)
 BY <1>3 DEF RowsBefore
<1>5. \A s, j : WholeSweep(s, j)' <=> WholeSweep(s, j)
 BY <1>3, Zenon DEF WholeSweep
<1>6. \A e : WeldMesh(e)' <=> WeldMesh(e)
 BY <1>1, <1>5, Zenon DEF WeldMesh
<1> QED BY <1>1, <1>3, <1>4, <1>6

\* A mesh without a sweep, of another kind or without a position.
LEMMA NewIsWhole ==
  ASSUME NEW e, e.sweeps = <<>>, model.types[e.id] # "weld" \/ e.positions = 0
  PROVE  WeldMesh(e)
<1>1. PICK none : none = <<>>
 OBVIOUS
<1>2. none \in Seq({}) /\ DOMAIN none = {}
 BY <1>1
<1>3. IsList(none)
 BY <1>2, ListOf
<1>4. PICK f : f = [k \in DOMAIN e.sweeps |-> Vertices(e.sweeps[k].parts)]
 OBVIOUS
<1>5. DOMAIN f = {}
 BY <1>1, <1>2, <1>4
<1>6. Total(f) = 0
 BY <1>5, FS_EmptySet, TotalIsNumber DEF Numbers
<1>7. model.types[e.id] = "weld" => e.positions = 3 * Total(f)
 BY <1>6
<1> QED BY <1>1, <1>2, <1>3, <1>4, <1>7 DEF WeldMesh

\* Of a list with one member more each is that one or was there.
LEMMA AppendedOrThere ==
  ASSUME NEW s, IsList(s), NEW e, NEW t, t = Append(s, e)
  PROVE  \A i \in DOMAIN t : t[i] = e \/ (i \in DOMAIN s /\ t[i] = s[i])
<1>1. Longer(t, s, 1, e) /\ DOMAIN s = 1..Len(s)
 BY ListAppends, ListFacts
<1>2. PICK n \in Nat : n = Len(s)
 BY ListFacts
<1>3. \A i \in 1..n + 1 : i \in 1..n \/ i > n
 OBVIOUS
<1>4. /\ DOMAIN t = 1..n + 1 /\ DOMAIN s = 1..n
      /\ \A i \in 1..n : t[i] = s[i]
      /\ \A i \in 1..n + 1 : i > n => t[i] = e
 BY <1>1, <1>2 DEF Longer
<1> QED BY <1>3, <1>4

\* Steps that leave the welds alone.
LEMMA OthersKeepWelds ==
  ASSUME WeldsInv, MeshesOK(meshes), UNCHANGED <<model, stage, kept, limited, invalid>>,
         row' \in Nat \ {0}, stage = "weld_rows" => row' = row,
         stage = "welds" => meshes' = meshes /\ todo' = todo,
         \/ meshes' = meshes
         \/ \E e : /\ meshes' = Append(meshes, e)
                   /\ e.sweeps = <<>> /\ model.types[e.id] # "weld"
  PROVE  WeldsInv'
<1>1. /\ \A p : RowsOfPolygon(p)' = RowsOfPolygon(p)
      /\ \A p, n : RowsBefore(p, n)' = RowsBefore(p, n)
      /\ \A e : WeldMesh(e)' <=> WeldMesh(e)
 BY WholeStays
<1>2. PICK m : m = meshes'
 OBVIOUS
<1>3. /\ \A i \in DOMAIN m : WeldMesh(m[i])
      /\ NoSweeps(meshes) => NoSweeps(m)
 <2>1. CASE meshes' = meshes
  BY <1>2, <2>1 DEF WeldsInv
 <2>2. ASSUME NEW e, meshes' = Append(meshes, e), e.sweeps = <<>>, model.types[e.id] # "weld"
       PROVE  /\ \A i \in DOMAIN m : WeldMesh(m[i])
              /\ NoSweeps(meshes) => NoSweeps(m)
  <3>2. \A i \in DOMAIN m : m[i] = e \/ (i \in DOMAIN meshes /\ m[i] = meshes[i])
   BY <1>2, <2>2, AppendedOrThere DEF MeshesOK
  <3>3. WeldMesh(e)
   BY <2>2, NewIsWhole
  <3>4. \A i \in DOMAIN meshes : WeldMesh(meshes[i])
   BY DEF WeldsInv
  <3>5. \A i \in DOMAIN m : WeldMesh(m[i])
   BY <3>2, <3>3, <3>4, Zenon
  <3>6. NoSweeps(meshes) => NoSweeps(m)
   BY <2>2, <3>2 DEF NoSweeps
  <3> QED BY <3>5, <3>6
 <2> QED BY <2>1, <2>2
<1>4. \A i \in DOMAIN m : WeldMesh(m[i])'
 BY <1>1, <1>3, Zenon
<1>5. \A i \in (DOMAIN meshes)' : WeldMesh(meshes[i])'
 BY <1>2, <1>4
<1>6. \A p, S : (Counted(p, S)' <=> Counted(p, S)) /\ (Unspoiled(p)' <=> Unspoiled(p))
 BY DEF Counted, Unspoiled
<1>7. stage' \in {"start", "contours", "surfaces", "weld_rows"} => NoSweeps(meshes')
 BY <1>2, <1>3 DEF WeldsInv
<1>8. stage' \in {"start", "contours", "surfaces"} => DOMAIN kept' = {}
 BY DEF WeldsInv
<1>9. stage' = "weld_rows" => \A p : Unspoiled(p)' => Counted(p, RowsBefore(p, row))'
 BY <1>1, <1>6 DEF WeldsInv
<1>10. stage' = "welds" => SweepsBefore(meshes', todo')
                           /\ \A p : Unspoiled(p)' => Counted(p, RowsOfPolygon(p))'
 BY <1>1, <1>6 DEF WeldsInv
<1>11. row' \in Nat \ {0} /\ stage' \in StageNames
 BY DEF WeldsInv
<1> QED BY <1>5, <1>7, <1>8, <1>9, <1>10, <1>11 DEF WeldsInv, StageNames, Stages, NoSweeps, SweepsBefore

\* The stages, one after the other.
LEMMA StagesFollow ==
  /\ After("start") = "contours" /\ After("contours") = "surfaces"
  /\ After("surfaces") = "weld_rows" /\ After("weld_rows") = "welds"
  /\ \A s \in StageNames \ {"done"} : After(s) \in StageNames
  /\ \A s \in StageNames \ {"done", "start", "contours", "surfaces", "weld_rows"} :
        After(s) \notin {"start", "contours", "surfaces", "weld_rows", "welds"}
<1>1. PICK t : t = Stages
 OBVIOUS
<1>2. /\ DOMAIN t = 1..11 /\ t[1] = "start" /\ t[2] = "contours" /\ t[3] = "surfaces"
      /\ t[4] = "weld_rows" /\ t[5] = "welds" /\ t[6] = "invalid_welds" /\ t[7] = "limited_welds"
      /\ t[8] = "grids" /\ t[9] = "rebars" /\ t[10] = "bolts" /\ t[11] = "done"
 BY <1>1 DEF Stages
<1>3. \A i \in 1..11 : \/ i = 1 \/ i = 2 \/ i = 3 \/ i = 4 \/ i = 5 \/ i = 6 \/ i = 7 \/ i = 8
                       \/ i = 9 \/ i = 10 \/ i = 11
 OBVIOUS
<1>4. \A i, k \in 1..11 : t[i] = t[k] => i = k
 BY <1>2, <1>3
<1>5. \A k \in 1..11 : (CHOOSE i \in DOMAIN t : t[i] = t[k]) = k
 BY <1>2, <1>4
<1>6. \A k \in 1..11 : After(t[k]) = t[1 + k]
 BY <1>1, <1>5, Zenon DEF After
<1>7. StageNames = {t[k] : k \in 1..11}
 BY <1>1, <1>2 DEF StageNames
<1>8. /\ 1 + 1 = 2 /\ 1 + 2 = 3 /\ 1 + 3 = 4 /\ 1 + 4 = 5 /\ 1 + 5 = 6 /\ 1 + 6 = 7 /\ 1 + 7 = 8
      /\ 1 + 8 = 9 /\ 1 + 9 = 10 /\ 1 + 10 = 11
 OBVIOUS
<1>9. /\ After(t[1]) = t[2] /\ After(t[2]) = t[3] /\ After(t[3]) = t[4] /\ After(t[4]) = t[5]
      /\ After(t[5]) = t[6] /\ After(t[6]) = t[7] /\ After(t[7]) = t[8] /\ After(t[8]) = t[9]
      /\ After(t[9]) = t[10] /\ After(t[10]) = t[11]
 BY <1>6, <1>8
<1>10. \A s \in StageNames : \E k \in 1..11 : s = t[k]
 BY <1>7
<1>11. \A k \in 1..11 : t[k] \in StageNames
 BY <1>7
<1> QED BY <1>2, <1>3, <1>9, <1>10, <1>11

\* From one kind of rows to the next: all rows of weld polygons are behind when the polygons
\* are gone through.
LEMMA StageKeepsWelds ==
  ASSUME GeometryInv, PaidInv, WeldsInv, NoObjects \/ NextStage
  PROVE  WeldsInv'
<1>1. /\ UNCHANGED <<model, meshes, kept, limited, invalid>>
      /\ row' \in Nat \ {0}
 BY DEF NoObjects, NextStage, WeldsInv, outVars, polygonVars, Diagnose
<1>2. /\ \A p : RowsOfPolygon(p)' = RowsOfPolygon(p)
      /\ \A p, n : RowsBefore(p, n)' = RowsBefore(p, n)
      /\ \A e : WeldMesh(e)' <=> WeldMesh(e)
 BY <1>1, WholeStays
<1>3. \A i \in (DOMAIN meshes)' : WeldMesh(meshes[i])'
 BY <1>1, <1>2 DEF WeldsInv
<1>4. \A p, S : (Counted(p, S)' <=> Counted(p, S)) /\ (Unspoiled(p)' <=> Unspoiled(p))
 BY <1>1 DEF Counted, Unspoiled
<1>5. \A r \in DOMAIN model.weldRows : r \in Nat /\ r >= 1
      /\ (row \notin DOMAIN model.weldRows => r < row)
 BY NonPartAssumption DEF GeometryInv, Given, WeldsInv, Table
<1>6. CASE NoObjects
 BY <1>1, <1>3, <1>6 DEF NoObjects, StageNames, Stages, WeldsInv
<1>7. CASE NextStage
 <2>1. stage' = After(stage) /\ stage \in StageNames \ {"done"} /\ ~AtRow(stage) /\ row' = 1
  BY <1>7 DEF NextStage, WeldsInv
 <2>2. stage' \in StageNames
  BY <2>1, StagesFollow
 <2>3. stage' = "weld_rows" => stage = "surfaces"
  BY <2>1, StagesFollow
 <2>4. stage' = "welds" => stage = "weld_rows"
  BY <2>1, StagesFollow
 <2>5. stage' \in {"start", "contours", "surfaces"} => stage \in {"start", "contours", "surfaces"}
  BY <2>1, StagesFollow
 <2>6. stage' \in {"start", "contours", "surfaces", "weld_rows"} => NoSweeps(meshes')
  BY <1>1, <2>3, <2>5 DEF WeldsInv
 <2>7. stage' \in {"start", "contours", "surfaces"} => DOMAIN kept' = {}
  BY <1>1, <2>5 DEF WeldsInv
 <2>8. stage' = "weld_rows" => \A p : Unspoiled(p)' => Counted(p, RowsBefore(p, row))'
  <3> SUFFICES ASSUME stage' = "weld_rows", NEW p PROVE Counted(p, RowsBefore(p, row))'
   OBVIOUS
  <3>1. RowsBefore(p, 1) = {}
   BY <1>5 DEF RowsBefore, RowsOfPolygon
  <3>2. DOMAIN kept' = {}
   BY <1>1, <2>3 DEF WeldsInv
  <3>3. RowsBefore(p, 1)' = {}
   BY <1>2, <3>1
  <3>4. RowsBefore(p, row)' = {}
   BY <2>1, <3>3 DEF RowsBefore
  <3> QED BY <3>2, <3>4 DEF Counted
 <2>9. stage' = "welds" => /\ SweepsBefore(meshes', todo')
                           /\ \A p : Unspoiled(p)' => Counted(p, RowsOfPolygon(p))'
  <3> SUFFICES ASSUME stage' = "welds"
               PROVE  /\ SweepsBefore(meshes', todo')
                      /\ \A p : Unspoiled(p)' => Counted(p, RowsOfPolygon(p))'
   OBVIOUS
  <3>1. stage = "weld_rows" /\ row \notin DOMAIN model.weldRows
   BY <2>1, <2>4 DEF AtRow, RowsOf
  <3>2. NoSweeps(meshes)
   BY <3>1 DEF WeldsInv
  <3>3. SweepsBefore(meshes', todo')
   BY <1>1, <3>2 DEF NoSweeps, SweepsBefore
  <3>4. \A p : RowsBefore(p, row) = RowsOfPolygon(p)
   BY <1>5, <3>1 DEF RowsBefore, RowsOfPolygon
  <3>5. \A p : Unspoiled(p) => Counted(p, RowsOfPolygon(p))
   BY <3>1, <3>4 DEF WeldsInv
  <3>6. \A p : Unspoiled(p)' => Counted(p, RowsOfPolygon(p))'
   BY <1>2, <1>4, <3>5
  <3> QED BY <3>3, <3>6
 <2> QED BY <1>1, <1>3, <2>2, <2>6, <2>7, <2>8, <2>9
         DEF WeldsInv, StageNames, Stages, NoSweeps, SweepsBefore
<1> QED BY <1>6, <1>7

\* The rows before the next one: this one, if it is one of the polygon's, and those before it.
LEMMA NextRowIsBefore ==
  ASSUME model \in NonPartModels, row \in DOMAIN model.weldRows, NEW p
  PROVE  /\ row \in RowsOfPolygon(p) => /\ RowsBefore(p, row + 1) = RowsBefore(p, row) \cup {row}
                                        /\ Cardinality(RowsBefore(p, row + 1))
                                               = Cardinality(RowsBefore(p, row)) + 1
         /\ row \notin RowsOfPolygon(p) => RowsBefore(p, row + 1) = RowsBefore(p, row)
         /\ Cardinality(RowsBefore(p, row)) \in Nat
<1>1. PICK n \in Nat : n = Len(model.weldRows) /\ DOMAIN model.weldRows = 1..n
 BY NonPartAssumption DEF Table
<1>2. RowsOfPolygon(p) \subseteq 1..n /\ row \in 1..n
 BY <1>1 DEF RowsOfPolygon
<1>3. \A r \in 1..n : r < row + 1 <=> r < row \/ r = row
 BY <1>2
<1>4. row \notin RowsOfPolygon(p) => RowsBefore(p, row + 1) = RowsBefore(p, row)
 BY <1>2, <1>3 DEF RowsBefore
<1>5. row \in RowsOfPolygon(p) => RowsBefore(p, row + 1) = RowsBefore(p, row) \cup {row}
 BY <1>2, <1>3 DEF RowsBefore
<1>6. IsFiniteSet(RowsBefore(p, row)) /\ row \notin RowsBefore(p, row)
 <2>1. RowsBefore(p, row) \subseteq 1..n /\ row \notin RowsBefore(p, row)
  BY <1>2 DEF RowsBefore
 <2>2. IsFiniteSet(1..n)
  BY FS_Interval
 <2> QED BY <2>1, <2>2, FS_Subset
<1>7. Cardinality(RowsBefore(p, row) \cup {row}) = Cardinality(RowsBefore(p, row)) + 1
 BY <1>6, FS_AddElement
<1>8. Cardinality(RowsBefore(p, row)) \in Nat
 BY <1>6, FS_CardinalityType
<1> QED BY <1>4, <1>5, <1>7, <1>8

\* A row of a weld polygon is kept, or spoils it, or is none to display.
LEMMA RowKeepsWelds ==
  ASSUME GeometryInv, PaidInv, WeldsInv, ReadWeldRow
  PROVE  WeldsInv'
<1>1. /\ stage = "weld_rows" /\ row \in DOMAIN model.weldRows
      /\ UNCHANGED <<model, stage, meshes>> /\ row' = row + 1 /\ row' \in Nat \ {0}
 BY DEF ReadWeldRow, NextRow, WeldsInv, AtRow, RowsOf, outVars
<1>2. /\ \A p : RowsOfPolygon(p)' = RowsOfPolygon(p)
      /\ \A p, n : RowsBefore(p, n)' = RowsBefore(p, n)
      /\ \A e : WeldMesh(e)' <=> WeldMesh(e)
 BY <1>1, WholeStays
<1>3. \A i \in (DOMAIN meshes)' : WeldMesh(meshes[i])'
 BY <1>1, <1>2 DEF WeldsInv
<1>4. NoSweeps(meshes')
 BY <1>1 DEF WeldsInv
<1>5. PICK part, w, entry : /\ part = model.weldRows[row] /\ w = part.polygon
                            /\ entry = [number |-> part.number, side |-> part.side,
                                        values |-> part.values]
 OBVIOUS
<1>6. \A p : row \in RowsOfPolygon(p) <=> Displayable(part) /\ p = w
 BY <1>1, <1>5 DEF RowsOfPolygon
<1>7. \A p : Unspoiled(p) => Counted(p, RowsBefore(p, row))
 BY <1>1 DEF WeldsInv
<1>8. \A p : p # w \/ ~Displayable(part) => RowsBefore(p, row + 1) = RowsBefore(p, row)
 BY <1>1, <1>6, NextRowIsBefore DEF GeometryInv, Given
<1>0. PICK n : n = row + 1
 OBVIOUS
<1>9. \/ kept' = kept /\ UNCHANGED <<limited, invalid>> /\ ~Displayable(part)
      \/ kept' = kept /\ limited \cup invalid \cup {w} = limited' \cup invalid'
      \/ /\ UNCHANGED <<limited, invalid>> /\ Displayable(part) /\ part.values \in 1..10
         /\ kept' = WithRow(kept, w, entry)
 BY <1>5 DEF ReadWeldRow, WithRow
<1>10. \A p : Unspoiled(p)' => Counted(p, RowsBefore(p, n))'
 <2> SUFFICES ASSUME NEW p, Unspoiled(p)' PROVE Counted(p, RowsBefore(p, n))'
  OBVIOUS
 <2>1. PICK S : S = RowsBefore(p, row + 1)
  OBVIOUS
 <2>2. RowsBefore(p, n)' = S
  BY <1>0, <1>2, <2>1
 <2>3. CASE kept' = kept /\ UNCHANGED <<limited, invalid>> /\ ~Displayable(part)
  BY <1>7, <1>8, <2>1, <2>2, <2>3 DEF Unspoiled, Counted
 <2>4. CASE kept' = kept /\ limited \cup invalid \cup {w} = limited' \cup invalid'
  BY <1>7, <1>8, <2>1, <2>2, <2>4 DEF Unspoiled, Counted
 <2>5. CASE /\ UNCHANGED <<limited, invalid>> /\ Displayable(part) /\ part.values \in 1..10
            /\ kept' = WithRow(kept, w, entry)
  <3>1. Counted(p, RowsBefore(p, row))
   BY <1>7, <2>5 DEF Unspoiled
  <3>2. PICK d : d = kept'
   OBVIOUS
  <3>3. DOMAIN d = DOMAIN kept \cup {w}
   BY <2>5, <3>2 DEF WithRow
  <3>4. \A q \in DOMAIN kept : PartsOK(kept[q])
   BY DEF PaidInv, KeptOK
  <3>5. CASE p = w
   <4>1. row \in RowsOfPolygon(p)
    BY <1>6, <2>5, <3>5
   <4>2. PICK c \in Nat : c = Cardinality(RowsBefore(p, row))
    BY <1>1, NextRowIsBefore DEF GeometryInv, Given
   <4>3. Cardinality(S) = c + 1
    BY <1>1, <2>1, <4>1, <4>2, NextRowIsBefore DEF GeometryInv, Given
   <4>4. entry.values \in Nat
    BY <1>5, <2>5
   <4>5. CASE p \in DOMAIN kept
    BY <2>2, <2>5, <3>1, <3>2, <3>3, <3>4, <3>5, <4>2, <4>3, <4>4, <4>5, ValuesGrow DEF Counted,
       WithRow
   <4>6. CASE p \notin DOMAIN kept
    <5>1. RowsBefore(p, row) = {}
     BY <3>1, <4>6 DEF Counted
    <5>2. c = 0
     BY <4>2, <5>1, FS_EmptySet
    <5>3. d[p] = <<>> \o <<entry>>
     BY <2>5, <3>2, <3>5, <4>6 DEF WithRow
    <5>4. Len(d[p]) = 0 + 1
     BY <4>4, <5>3, ValuesGrow, NoParts
    <5> QED BY <2>2, <3>2, <3>3, <3>5, <4>3, <5>2, <5>4 DEF Counted
   <4> QED BY <4>5, <4>6
  <3>6. CASE p # w
   <4>1. Counted(p, S)
    BY <1>8, <2>1, <3>1, <3>6
   <4>2. p \in DOMAIN kept => Len(d[p]) = Len(kept[p])
    BY <2>5, <3>2, <3>4, <3>6 DEF WithRow, PartsOK, IsList
   <4> QED BY <2>2, <3>2, <3>3, <3>6, <4>1, <4>2 DEF Counted
  <3> QED BY <3>5, <3>6
 <2> QED BY <1>9, <2>3, <2>4, <2>5
<1>11. stage' = "weld_rows" => \A p : Unspoiled(p)' => Counted(p, RowsBefore(p, row))'
 BY <1>0, <1>1, <1>10 DEF RowsBefore
<1> QED BY <1>1, <1>3, <1>4, <1>11 DEF WeldsInv, StageNames, Stages, NoSweeps

\* The seam along a polygon is whole, in a new mesh of its weld or behind the seams it has.
LEMMA DrawKeepsWelds ==
  ASSUME GeometryInv, PaidInv, WeldsInv, NEW polygon \in todo, DrawWeld(polygon)
  PROVE  WeldsInv'
<1>1. /\ stage = "welds" /\ UNCHANGED <<model, stage, row, kept, limited, invalid>>
      /\ todo' = todo \ {polygon}
 BY DEF DrawWeld, polygonVars
<1>2. /\ \A p : RowsOfPolygon(p)' = RowsOfPolygon(p)
      /\ \A e : WeldMesh(e)' <=> WeldMesh(e)
 BY <1>1, WholeStays
<1>3. PICK m, weld : m = meshes' /\ weld = Owner(polygon)
 OBVIOUS
<1>4. SweepsBefore(meshes, todo) /\ \A p : Unspoiled(p) => Counted(p, RowsOfPolygon(p))
 BY <1>1 DEF WeldsInv
<1>5. (\A i \in DOMAIN m : WeldMesh(m[i])) /\ SweepsBefore(m, todo \ {polygon})
 <2>1. CASE WeldProblem(polygon) # "none"
  BY <1>3, <1>4, <2>1 DEF DrawWeld, Diagnose, WeldsInv, SweepsBefore
 <2>2. CASE WeldProblem(polygon) = "none"
  <3>1. Unspoiled(polygon) /\ InSequence(kept[polygon]) /\ ~(Values(kept[polygon]) < 4)
   BY <2>2 DEF WeldProblem, Unspoiled
  <3>2. polygon \in DOMAIN kept /\ PartsOK(kept[polygon]) /\ Owners(polygon) # {}
   BY <1>1 DEF PaidInv, KeptOK
  <3>3. Len(kept[polygon]) = Cardinality(RowsOfPolygon(polygon))
   BY <1>4, <3>1, <3>2 DEF Counted
  <3>4. model.types[weld] = "weld"
   BY <1>3, <3>2, OwnerIsWeld DEF GeometryInv, Given
  <3>5. MeshesOK(meshes) /\ WeldsOnce(model.types, meshes)
   BY DEF PaidInv
  <3>6. ASSUME NEW e, IsMesh(e), WeldMesh(e), e.id = weld,
               \A k \in DOMAIN e.sweeps : e.sweeps[k].polygon \notin todo
        PROVE  /\ WeldMesh(Swept(e, polygon))
               /\ \A j \in DOMAIN Swept(e, polygon).sweeps :
                      Swept(e, polygon).sweeps[j].polygon \notin todo \ {polygon}
   <4>1. /\ IsMesh(e) /\ WeldMesh(e) /\ model.types[e.id] = "weld" /\ Owner(polygon) = e.id
         /\ \A k \in DOMAIN e.sweeps : e.sweeps[k].polygon # polygon
         /\ PartsOK(kept[polygon]) /\ InSequence(kept[polygon]) /\ ~(Values(kept[polygon]) < 4)
         /\ Len(kept[polygon]) = Cardinality(RowsOfPolygon(polygon))
    BY <1>3, <3>1, <3>2, <3>3, <3>4, <3>6
   <4>2. PICK w : w = Swept(e, polygon)
    OBVIOUS
   <4>3. /\ WeldMesh(w)
         /\ \A j \in DOMAIN w.sweeps : \/ w.sweeps[j].polygon = polygon
                                       \/ \E k \in DOMAIN e.sweeps :
                                             w.sweeps[j].polygon = e.sweeps[k].polygon
    BY <4>1, <4>2, SweepIsAdded
   <4> QED BY <3>6, <4>2, <4>3
  <3>7. CASE MeshOf(weld) = {}
   <4>1. PICK new, e : new = NewMesh(weld) /\ e = Swept(new, polygon)
    OBVIOUS
   <4>2. m = Append(meshes, e)
    BY <1>3, <2>2, <3>7, <4>1 DEF DrawWeld, Draw
   <4>3. IsMesh(new) /\ new.id = weld /\ new.positions = 0 /\ new.sweeps = <<>>
    BY <4>1 DEF NewMesh, IsMesh
   <4>4. WeldMesh(new)
    BY <3>4, <4>3, NewIsWhole
   <4>5. \A k \in DOMAIN new.sweeps : new.sweeps[k].polygon \notin todo
    BY <4>3
   <4>6. /\ WeldMesh(e)
         /\ \A j \in DOMAIN e.sweeps : e.sweeps[j].polygon \notin todo \ {polygon}
    BY <3>6, <4>1, <4>3, <4>4, <4>5
   <4>7. \A i \in DOMAIN m : m[i] = e \/ (i \in DOMAIN meshes /\ m[i] = meshes[i])
    BY <3>5, <4>2, AppendedOrThere DEF MeshesOK
   <4>8. \A i \in DOMAIN meshes : WeldMesh(meshes[i])
    BY DEF WeldsInv
   <4>9. \A i \in DOMAIN m : WeldMesh(m[i])
    BY <4>6, <4>7, <4>8, Zenon
   <4>10. SweepsBefore(m, todo \ {polygon})
    BY <1>4, <4>6, <4>7 DEF SweepsBefore
   <4> QED BY <4>9, <4>10
  <3>8. CASE MeshOf(weld) # {}
   <4>1. PICK k \in DOMAIN meshes : meshes[k].id = weld
    BY <3>8 DEF MeshOf
   <4>2. \A i \in DOMAIN meshes : meshes[i].id = weld => i = k
    BY <3>4, <3>5, <4>1 DEF WeldsOnce
   <4>3. PICK e : e = Swept(meshes[k], polygon)
    OBVIOUS
   <4>4. m = [i \in DOMAIN meshes |-> IF i \in MeshOf(weld) THEN Swept(meshes[i], polygon)
                                      ELSE meshes[i]]
    BY <1>3, <2>2, <3>8 DEF DrawWeld
   <4>5. MeshOf(weld) = {k}
    BY <4>1, <4>2 DEF MeshOf
   <4>6. /\ DOMAIN m = DOMAIN meshes /\ m[k] = e
         /\ \A i \in DOMAIN meshes : i # k => m[i] = meshes[i]
    BY <4>1, <4>3, <4>4, <4>5
   <4>7. IsMesh(meshes[k]) /\ WeldMesh(meshes[k])
    BY <3>5, <4>1 DEF MeshesOK, WeldsInv
   <4>8. \A j \in DOMAIN meshes[k].sweeps : meshes[k].sweeps[j].polygon \notin todo
    BY <1>4, <4>1 DEF SweepsBefore
   <4>9. /\ WeldMesh(e)
         /\ \A j \in DOMAIN e.sweeps : e.sweeps[j].polygon \notin todo \ {polygon}
    BY <3>6, <4>1, <4>3, <4>7, <4>8
   <4>10. \A i \in DOMAIN m : m[i] = e \/ (i \in DOMAIN meshes /\ m[i] = meshes[i])
    BY <4>6
   <4>11. \A i \in DOMAIN meshes : WeldMesh(meshes[i])
    BY DEF WeldsInv
   <4>12. \A i \in DOMAIN m : WeldMesh(m[i])
    BY <4>9, <4>10, <4>11, Zenon
   <4>13. SweepsBefore(m, todo \ {polygon})
    BY <1>4, <4>9, <4>10 DEF SweepsBefore
   <4> QED BY <4>12, <4>13
  <3> QED BY <3>7, <3>8
 <2> QED BY <2>1, <2>2
<1>6. \A i \in (DOMAIN meshes)' : WeldMesh(meshes[i])'
 BY <1>2, <1>3, <1>5
<1>7. SweepsBefore(meshes', todo')
 BY <1>1, <1>3, <1>5
<1>8. \A p, S : (Counted(p, S)' <=> Counted(p, S)) /\ (Unspoiled(p)' <=> Unspoiled(p))
 BY <1>1 DEF Counted, Unspoiled
<1>9. \A p : Unspoiled(p)' => Counted(p, RowsOfPolygon(p))'
 BY <1>2, <1>4, <1>8
<1>10. stage' = "welds" /\ row' \in Nat \ {0} /\ stage' \in StageNames
 BY <1>1 DEF WeldsInv
<1> QED BY <1>6, <1>7, <1>9, <1>10 DEF WeldsInv, StageNames, Stages, SweepsBefore

\* Reinforcement leaves the welds alone.
LEMMA RebarsAreNoWelds ==
  ASSUME GeometryInv, DecodeRebar
  PROVE  /\ stage = "rebars" /\ row' \in {row, row + 1}
         /\ UNCHANGED <<model, stage, todo, kept, limited, invalid, meshes>>
<1> DEFINE Done == UNCHANGED <<model, stage, todo, kept, limited, invalid, meshes>>
                   /\ row' \in {row, row + 1}
<1>1. CASE AskStep
 BY <1>1 DEF GeometryInv, WaitingOK, AtRow, AskStep, Ask, Recall, VisitsExhausted, VisitBroken,
    Visit, Resolve, Walking, polygonVars, outVars
<1>2. CASE BeginRebar \/ HearPolygon \/ HearSize \/ HearGroup \/ HearMesh \/ HearBentMesh
 <2>1. stage = "rebars"
  BY <1>2 DEF BeginRebar, HearPolygon, HearSize, HearGroup, HearMesh, HearBentMesh, AtRound, AtRow
 <2>2. Done
  <3>1. \A code : Report(code) => Done
   BY DEF Report, Diagnose, Leave, NextRow, polygonVars
  <3>2. \A next, links : AskFor(next, links) => Done
   BY DEF AskFor, polygonVars, outVars
  <3>3. \A a, b, c : Expand(a, b, c) => Done
   BY <3>1 DEF Expand, DrawCurves, Leave, NextRow, polygonVars
  <3>4. Leave /\ meshes' = meshes => Done
   BY DEF Leave, NextRow, polygonVars
  <3>5. CASE BeginRebar
   BY <3>1, <3>2, <3>4, <3>5, Zenon DEF BeginRebar, outVars
  <3>6. CASE HearPolygon
   BY <3>1, <3>2, <3>6, Zenon DEF HearPolygon
  <3>7. CASE HearSize
   BY <3>1, <3>2, <3>3, <3>7, Zenon DEF HearSize
  <3>8. CASE HearGroup
   BY <3>1, <3>3, <3>8, Zenon DEF HearGroup
  <3>9. CASE HearMesh
   BY <3>1, <3>3, <3>9, Zenon DEF HearMesh
  <3>10. CASE HearBentMesh
   BY <3>1, <3>4, <3>10, Zenon DEF HearBentMesh
  <3> QED BY <1>2, <3>5, <3>6, <3>7, <3>8, <3>9, <3>10
 <2> QED BY <2>1, <2>2
<1> QED BY <1>1, <1>2 DEF DecodeRebar, AskStep

\* Every step keeps the welds whole.
LEMMA WeldsStayWhole == GeometryInv /\ PaidInv /\ WeldsInv /\ [GeometryNext]_geometryVars => WeldsInv'
<1> SUFFICES ASSUME GeometryInv, PaidInv, WeldsInv, [GeometryNext]_geometryVars PROVE WeldsInv'
 OBVIOUS
<1>1. MeshesOK(meshes) /\ row \in Nat \ {0} /\ row + 1 \in Nat \ {0}
 BY DEF PaidInv, WeldsInv
<1>2. CASE UNCHANGED geometryVars
 BY <1>1, <1>2, OthersKeepWelds DEF geometryVars, polygonVars, outVars
<1>3. CASE NoObjects \/ NextStage
 BY <1>3, StageKeepsWelds
<1>4. CASE ReadContour \/ DrawSurface
 <2>1. /\ UNCHANGED <<model, stage, todo, kept, limited, invalid>> /\ row' = row + 1
       /\ stage \in {"contours", "surfaces"}
  BY <1>4 DEF ReadContour, DrawSurface, AtRow, NextRow, polygonVars
 <2>2. \/ meshes' = meshes
       \/ \E e : meshes' = Append(meshes, e) /\ e.sweeps = <<>> /\ model.types[e.id] # "weld"
  <3>1. CASE ReadContour
   BY <3>1 DEF ReadContour, outVars
  <3>2. CASE DrawSurface
   <4> DEFINE surface == model.surfaces[row]
              count == contours[surface.contour]
              points == IF surface.closed /\ count > 3 THEN count - 1 ELSE count
              e == [id |-> surface.id, sweeps |-> <<>>, positions |-> SurfacePositions(points),
                    indices |-> SurfaceIndices(points)]
   <4>1. \/ meshes' = meshes
         \/ Taken(surface, SurfaceTypes) /\ meshes' = Append(meshes, e)
    BY <3>2 DEF DrawSurface, Diagnose, Draw, outVars
   <4>2. e.sweeps = <<>> /\ e.id = surface.id
    OBVIOUS
   <4>3. Taken(surface, SurfaceTypes) => model.types[surface.id] # "weld"
    BY DEF Taken, Wanting, SurfaceTypes
   <4> HIDE DEF e, surface
   <4> QED BY <4>1, <4>2, <4>3
  <3> QED BY <1>4, <3>1, <3>2
 <2> QED BY <1>1, <2>1, <2>2, OthersKeepWelds
<1>5. CASE ReadWeldRow
 BY <1>5, RowKeepsWelds
<1>6. ASSUME NEW polygon \in todo, ReportWeld(polygon) PROVE WeldsInv'
 BY <1>1, <1>6, OthersKeepWelds DEF ReportWeld, Diagnose, polygonVars
<1>7. CASE DrawGrid
 BY <1>1, <1>7, OthersKeepWelds DEF DrawGrid, AtRow, NextRow, polygonVars, Diagnose, DrawCurves,
    outVars
<1>8. CASE DecodeRebar
 BY <1>1, <1>8, RebarsAreNoWelds, OthersKeepWelds
<1>9. CASE DrawBolt
 <2> DEFINE bolt == model.bolts[row]
            p == PatternPoints(bolt.pattern) * FastenerPositions(bolt)
            q == PatternPoints(bolt.pattern) * FastenerIndices(bolt)
            e == [id |-> bolt.id, sweeps |-> <<>>, positions |-> p, indices |-> q]
 <2>1. /\ UNCHANGED <<model, stage, todo, kept, limited, invalid>> /\ row' = row + 1
       /\ stage = "bolts"
  BY <1>9 DEF DrawBolt, AtRow, NextRow, polygonVars
 <2>2. meshes' = meshes \/ (Taken(bolt, BoltTypes) /\ meshes' = Append(meshes, e))
  BY <1>9 DEF DrawBolt, Diagnose, Draw, outVars
 <2>3. e.sweeps = <<>> /\ e.id = bolt.id
  OBVIOUS
 <2>4. Taken(bolt, BoltTypes) => model.types[bolt.id] # "weld"
  BY DEF Taken, Wanting, BoltTypes
 <2> HIDE DEF bolt, e
 <2>5. \/ meshes' = meshes
       \/ \E x : meshes' = Append(meshes, x) /\ x.sweeps = <<>> /\ model.types[x.id] # "weld"
  BY <2>2, <2>3, <2>4
 <2> QED BY <1>1, <2>1, <2>5, OthersKeepWelds
<1>10. CASE Decode
 BY <1>10, <1>3, <1>4, <1>5, <1>6, <1>7, <1>8, <1>9, DrawKeepsWelds, Zenon DEF Decode
<1> QED BY <1>2, <1>10 DEF GeometryNext, Finished

\* There is no weld at the start.
LEMMA NoWeldsAtFirst == GeometryInit => WeldsInv
<1> SUFFICES ASSUME GeometryInit PROVE WeldsInv
 OBVIOUS
<1>1. row = 1 /\ stage = "start" /\ meshes = <<>> /\ DOMAIN kept = {}
 BY DEF GeometryInit
<1>2. DOMAIN meshes = {}
 BY <1>1
<1>3. stage \in StageNames
 BY <1>1 DEF StageNames, Stages
<1> QED BY <1>1, <1>2, <1>3 DEF WeldsInv, NoSweeps

\* For all tables, in whatever order the polygons are gone through: when the welds are done every
\* weld with seams has one mesh, with one sweep for each of its polygons that is not refused, made
\* of all rows the polygon has in the table, in the order of their numbers, and the vertices a
\* sweep begins at are behind those of all sweeps before it (make_nonpart_geometry_stream,
\* append_weld_fillet_sweep).
THEOREM WeldsAreWhole == GeometrySpec => []WeldsWhole
<1> DEFINE Inv == GeometryInv /\ PaidInv /\ RoundOK /\ WeldsInv
<1>1. GeometryInit => Inv
 BY GeometryInitKeeps, NothingAtFirst, NoWeldsAtFirst
<1>2. Inv /\ [GeometryNext]_geometryVars => Inv'
 BY GeometryStepKeeps, StepPays, RoundIsKept, WeldsStayWhole
<1>3. Inv => WeldsWhole
 <2> SUFFICES ASSUME PaidInv, WeldsInv, NEW i \in DOMAIN meshes, meshes[i].sweeps # <<>>
              PROVE  /\ MeshOf(meshes[i].id) = {i}
                     /\ \A j \in DOMAIN meshes[i].sweeps :
                           /\ Owner(meshes[i].sweeps[j].polygon) = meshes[i].id
                           /\ WholeSweep(meshes[i].sweeps, j)
  BY DEF WeldsWhole, WholeSweep, RowsOfPolygon, Vertices
 <2>1. WeldMesh(meshes[i])
  BY DEF WeldsInv
 <2>2. model.types[meshes[i].id] = "weld"
  BY <2>1 DEF WeldMesh
 <2>3. MeshOf(meshes[i].id) = {i}
  BY <2>2 DEF PaidInv, WeldsOnce, MeshOf
 <2> QED BY <2>1, <2>3 DEF WeldMesh
<1> QED BY <1>1, <1>2, <1>3, PTL DEF GeometrySpec
-----------------------------------------------------------------------------
(* Bars lie on their line: numbers at equal steps and joins of them go from the start of the *)
(* line to its end, and leaving out bars keeps the order of the rest.                         *)

\* Numbers one after the other, from the first to the last.
InOrder(at) == \A i \in 1..Len(at) - 1 : at[i] < at[i + 1]
Within(at, end) == \A i \in 1..Len(at) : at[i] \in 0..end
Lies(at, low, high) ==
  /\ at \in Seq(Int) /\ Len(at) > 0 /\ InOrder(at)
  /\ at[1] = low /\ at[Len(at)] = high
  /\ \A i \in 1..Len(at) : low <= at[i] /\ at[i] <= high

LEMMA OneLies == \A x \in Int : Lies(<<x>>, x, x) /\ Len(<<x>>) = 1
<1> SUFFICES ASSUME NEW x \in Int PROVE Lies(<<x>>, x, x) /\ Len(<<x>>) = 1
 OBVIOUS
<1>1. <<x>> \in Seq(Int) /\ Len(<<x>>) = 1 /\ <<x>>[1] = x
 OBVIOUS
<1>2. \A i \in 1..1 : i = 1
 OBVIOUS
<1>3. InOrder(<<x>>)
 BY <1>1 DEF InOrder
<1> QED BY <1>1, <1>2, <1>3 DEF Lies

LEMMA EvenlyLies ==
  ASSUME NEW from \in Int, NEW step \in Nat \ {0}, NEW more \in Nat
  PROVE  /\ Lies(Evenly(from, step, more + 1), from, from + more * step)
         /\ Len(Evenly(from, step, more + 1)) = more + 1
<1>1. PICK at : at = Evenly(from, step, more + 1)
 OBVIOUS
<1>2. at \in Seq(Int)
 BY <1>1, EvenlyIsSequence
<1>3. DOMAIN at = 1..more + 1 /\ \A i \in 1..more + 1 : at[i] = from + (i - 1) * step
 BY <1>1 DEF Evenly
<1>4. Len(at) = more + 1
 BY <1>2, <1>3
<1>5. \A a \in Nat : a * step \in Nat
 OBVIOUS
<1>6. \A a, b \in Nat : a <= b => a * step <= b * step
 BY Products
<1>7. \A i \in 1..more + 1 : from <= at[i] /\ at[i] <= from + more * step
 <2> SUFFICES ASSUME NEW i \in 1..more + 1 PROVE from <= at[i] /\ at[i] <= from + more * step
  OBVIOUS
 <2>1. PICK k \in Nat : k = i - 1 /\ k <= more
  OBVIOUS
 <2>2. at[i] = from + k * step
  BY <1>3, <2>1
 <2>3. k * step \in Nat /\ k * step <= more * step /\ more * step \in Nat
  BY <1>5, <1>6, <2>1
 <2> QED BY <2>2, <2>3
<1>8. InOrder(at)
 <2> SUFFICES ASSUME NEW i \in 1..Len(at) - 1 PROVE at[i] < at[i + 1]
  BY DEF InOrder
 <2>1. PICK k \in Nat : k = i - 1 /\ i \in 1..more + 1 /\ i + 1 \in 1..more + 1
  BY <1>4
 <2>2. at[i] = from + k * step /\ at[i + 1] = from + (k + 1) * step
  BY <1>3, <2>1
 <2>3. (k + 1) * step = k * step + step /\ k * step \in Nat
  OBVIOUS
 <2> QED BY <2>2, <2>3
<1>9. at[1] = from /\ at[Len(at)] = from + more * step
 BY <1>3, <1>4
<1>10. Lies(at, from, from + more * step)
 BY <1>2, <1>4, <1>7, <1>8, <1>9 DEF Lies
<1> QED BY <1>1, <1>4, <1>10

LEMMA JoinedLies ==
  ASSUME NEW a, NEW b, NEW l \in Int, NEW h \in Int, NEW l2 \in Int, NEW h2 \in Int,
         Lies(a, l, h), Lies(b, l2, h2), h < l2
  PROVE  Lies(a \o b, l, h2) /\ Len(a \o b) = Len(a) + Len(b)
<1>1. PICK m \in Nat, n \in Nat : m = Len(a) /\ n = Len(b)
 BY DEF Lies
<1>2. /\ a \in Seq(Int) /\ b \in Seq(Int) /\ m > 0 /\ n > 0
      /\ \A i \in 1..m : l <= a[i] /\ a[i] <= h /\ a[i] \in Int
      /\ \A i \in 1..n : l2 <= b[i] /\ b[i] <= h2 /\ b[i] \in Int
      /\ a[1] = l /\ b[n] = h2
      /\ \A i \in 1..m - 1 : a[i] < a[i + 1]
      /\ \A i \in 1..n - 1 : b[i] < b[i + 1]
 BY <1>1 DEF Lies, InOrder
<1>3. PICK c : c = a \o b
 OBVIOUS
<1>4. /\ c \in Seq(Int) /\ Len(c) = m + n
      /\ \A i \in 1..m : c[i] = a[i]
      /\ \A i \in 1..m + n : i > m => c[i] = b[i - m]
 BY <1>1, <1>2, <1>3, ConcatProperties
<1>5. \A i \in 1..m + n : i \in 1..m \/ (i > m /\ i - m \in 1..n)
 OBVIOUS
<1>6. l <= h /\ l2 <= h2
 BY <1>2
<1>7. \A i \in 1..m + n : l <= c[i] /\ c[i] <= h2
 <2> SUFFICES ASSUME NEW i \in 1..m + n PROVE l <= c[i] /\ c[i] <= h2
  OBVIOUS
 <2>1. CASE i \in 1..m
  <3>1. c[i] = a[i] /\ l <= a[i] /\ a[i] <= h /\ a[i] \in Int
   BY <1>2, <1>4, <2>1
  <3> QED BY <1>6, <3>1
 <2>2. CASE i > m /\ i - m \in 1..n
  <3>1. c[i] = b[i - m] /\ l2 <= b[i - m] /\ b[i - m] <= h2 /\ b[i - m] \in Int
   BY <1>2, <1>4, <2>2
  <3> QED BY <1>6, <3>1
 <2> QED BY <1>5, <2>1, <2>2
<1>8. \A i \in 1..(m + n) - 1 : c[i] < c[i + 1]
 <2> SUFFICES ASSUME NEW i \in 1..(m + n) - 1 PROVE c[i] < c[i + 1]
  OBVIOUS
 <2>1. CASE i < m
  BY <1>2, <1>4, <2>1
 <2>2. CASE i = m
  <3>1. m \in 1..m /\ m + 1 \in 1..m + n /\ m + 1 > m /\ (m + 1) - m = 1 /\ 1 \in 1..n
   BY <1>2
  <3>2. c[m] = a[m] /\ c[m + 1] = b[1]
   BY <1>4, <3>1
  <3>3. a[m] <= h /\ l2 <= b[1] /\ a[m] \in Int /\ b[1] \in Int
   BY <1>2, <3>1
  <3> QED BY <2>2, <3>2, <3>3
 <2>3. CASE i > m
  <3>1. /\ i - m \in 1..n - 1 /\ i \in 1..m + n /\ i + 1 \in 1..m + n /\ i + 1 > m
        /\ (i + 1) - m = (i - m) + 1
   BY <2>3
  <3>2. c[i] = b[i - m] /\ c[i + 1] = b[(i - m) + 1]
   BY <1>4, <2>3, <3>1, SMTT(30)
  <3> QED BY <1>2, <3>1, <3>2
 <2> QED BY <2>1, <2>2, <2>3
<1>9. c[1] = l /\ c[m + n] = h2
 <2>1. 1 \in 1..m /\ m + n \in 1..m + n /\ m + n > m /\ (m + n) - m = n
  BY <1>2
 <2> QED BY <1>2, <1>4, <2>1
<1>10. Lies(c, l, h2)
 BY <1>2, <1>4, <1>7, <1>8, <1>9 DEF Lies, InOrder
<1> QED BY <1>1, <1>3, <1>4, <1>10

\* The bars of a line: in order, from its start to its end unless they are listed, and at most
\* as many as there is room for, but for one more on a line shorter than its spacing with what
\* is left over at both ends.
OnLine(kind, length, x) ==
  /\ x.at \in Seq(Int)
  /\ length > 0 => /\ InOrder(x.at)
                   /\ kind # "list" => Within(x.at, length * x.over)
                   /\ Len(x.at) > 1 => /\ x.at[1] = 0
                                       /\ kind # "list" => x.at[Len(x.at)] = length * x.over

OneMore(kind, length, spacings) ==
  IF kind = "left_over_twice" /\ spacings # <<>> /\ length < Head(spacings) THEN 1 ELSE 0

\* What lies from the start of a line to its end is on it.
LEMMA LyingIsOnLine ==
  ASSUME NEW kind, NEW length \in Nat, NEW over \in Nat, NEW at, NEW end, end = length * over,
         Lies(at, 0, end)
  PROVE  OnLine(kind, length, Placed(at, over))
<1>1. PICK x : x = Placed(at, over)
 OBVIOUS
<1>2. x.at = at /\ x.over = over
 BY <1>1 DEF Placed
<1>3. PICK n : n = Len(at)
 OBVIOUS
<1>4. /\ at \in Seq(Int) /\ InOrder(at) /\ at[1] = 0 /\ at[n] = end
      /\ \A i \in 1..n : 0 <= at[i] /\ at[i] <= end /\ at[i] \in Int
 BY <1>3 DEF Lies
<1>5. end \in Nat
 BY Products
<1>6. Within(at, end)
 BY <1>3, <1>4, <1>5 DEF Within
<1>7. OnLine(kind, length, x)
 BY <1>2, <1>3, <1>4, <1>6 DEF OnLine
<1> QED BY <1>1, <1>7

\* A single bar, at the start, or none.
LEMMA FewAreOnLine ==
  ASSUME NEW kind, NEW length \in Nat
  PROVE  /\ OnLine(kind, length, Placed(<<>>, 1)) /\ Len(Placed(<<>>, 1).at) = 0
         /\ OnLine(kind, length, Placed(<<0>>, 1)) /\ Len(Placed(<<0>>, 1).at) = 1
<1>1. PICK x, none : none = <<>> /\ x = Placed(none, 1)
 OBVIOUS
<1>2. x.at = none /\ none \in Seq(Int) /\ Len(none) = 0
 BY <1>1 DEF Placed
<1>3. OnLine(kind, length, x)
 BY <1>2 DEF OnLine, InOrder, Within
<1>4. PICK y, one : one = <<0>> /\ y = Placed(one, 1)
 OBVIOUS
<1>5. y.at = one /\ y.over = 1 /\ one \in Seq(Int) /\ Len(one) = 1 /\ one[1] = 0
 BY <1>4 DEF Placed
<1>6. \A i \in 1..1 : i = 1
 OBVIOUS
<1>7. InOrder(one) /\ Within(one, length * 1)
 BY <1>5, <1>6 DEF InOrder, Within
<1>8. OnLine(kind, length, y)
 BY <1>5, <1>7 DEF OnLine
<1> QED BY <1>1, <1>2, <1>3, <1>4, <1>5, <1>8

\* So many bars, or listed spacings.
LEMMA CountFits ==
  ASSUME NEW kind, NEW length \in Nat, NEW count \in Nat, NEW most \in Nat,
         ByCount(length, count, most).code = "none"
  PROVE  /\ OnLine(kind, length, ByCount(length, count, most))
         /\ Len(ByCount(length, count, most).at) <= most
<1>1. count # 0 => count <= most
 BY DEF ByCount, Refused
<1>2. CASE count = 0
 BY <1>2, FewAreOnLine DEF ByCount
<1>3. CASE count = 1
 <2>1. PICK x : x = Placed(<<0>>, 1)
  OBVIOUS
 <2>2. 1 <= most
  BY <1>1, <1>3
 <2>3. ByCount(length, count, most) = x
  BY <1>3, <2>1, <2>2 DEF ByCount
 <2>4. OnLine(kind, length, x) /\ Len(x.at) = 1
  BY <2>1, FewAreOnLine
 <2> QED BY <2>2, <2>3, <2>4
<1>4. CASE count # 0 /\ count # 1
 <2>1. PICK at : at = Evenly(0, length, count)
  OBVIOUS
 <2>2. ByCount(length, count, most) = Placed(at, count - 1)
  BY <1>1, <1>4, <2>1 DEF ByCount
 <2>3. PICK more \in Nat : more = count - 1 /\ count = more + 1
  BY <1>4
 <2>4. at \in Seq(Int) /\ Len(at) = count
  BY <2>1, EvenlyIsSequence DEF Evenly
 <2>5. Placed(at, more).at = at
  BY DEF Placed
 <2>6. CASE length = 0
  BY <1>1, <1>4, <2>2, <2>3, <2>4, <2>5, <2>6 DEF OnLine
 <2>7. CASE length # 0
  <3>1. Lies(at, 0, 0 + more * length)
   <4>1. 0 \in Int /\ length \in Nat \ {0}
    BY <2>7
   <4>2. Lies(Evenly(0, length, more + 1), 0, 0 + more * length)
    BY ONLY <4>1, more \in Nat, EvenlyLies
   <4> QED BY <2>1, <2>3, <4>2
  <3>2. 0 + more * length = length * more
   OBVIOUS
  <3>3. OnLine(kind, length, Placed(at, more))
   BY <3>1, <3>2, LyingIsOnLine
  <3> QED BY <1>1, <1>4, <2>2, <2>3, <2>4, <2>5, <3>3
 <2> QED BY <2>6, <2>7
<1> QED BY <1>2, <1>3, <1>4

LEMMA ListFits ==
  ASSUME NEW length \in Nat, NEW spacings \in Seq(Nat), NEW most \in Nat,
         BySpacings(spacings, most).code = "none"
  PROVE  /\ OnLine("list", length, BySpacings(spacings, most))
         /\ Len(BySpacings(spacings, most).at) <= most
<1>1. PICK l \in Nat, at \in Seq(Int) : l = Len(spacings) /\ at = Summed(spacings)
 BY SummedIsSequence
<1>2. l < most /\ \A i \in 1..l : spacings[i] # 0
 BY <1>1, SMTT(30) DEF BySpacings, Refused
<1>3. /\ at \in Seq(Int) /\ Len(at) = l + 1 /\ at[1] = 0
      /\ \A n \in 1..l : at[n + 1] = at[n] + spacings[n]
 BY <1>1, SummedIsSequence
<1>4. \A n \in 1..l : at[n] < at[n + 1]
 BY <1>1, <1>2, <1>3, SMTT(30)
<1>5. (l + 1) - 1 = l
 OBVIOUS
<1>6. InOrder(at)
 BY <1>3, <1>4, <1>5 DEF InOrder
<1>7. PICK x : x = Placed(at, 1)
 OBVIOUS
<1>8. x.at = at
 BY <1>7 DEF Placed
<1>9. BySpacings(spacings, most) = x
 BY <1>1, <1>2, <1>7 DEF BySpacings
<1>10. OnLine("list", length, x)
 BY <1>3, <1>6, <1>8 DEF OnLine
<1>11. Len(x.at) <= most
 BY <1>2, <1>3, <1>8
<1> QED BY <1>9, <1>10, <1>11

\* Equal intervals.
LEMMA TargetFits ==
  ASSUME NEW kind, NEW length \in Nat \ {0}, NEW target \in Nat \ {0}, NEW most \in Nat,
         ByTarget(length, target, most).code = "none"
  PROVE  /\ OnLine(kind, length, ByTarget(length, target, most))
         /\ Len(ByTarget(length, target, most).at) <= most
<1>1. PICK n \in Nat : n = Ceiling(length, target)
 BY DEF Ceiling
<1>2. PICK at : at = Evenly(0, length, n + 1)
 OBVIOUS
<1>3. n + 1 <= most /\ ByTarget(length, target, most) = Placed(at, n)
 BY <1>1, <1>2 DEF ByTarget, Refused
<1>4. Lies(at, 0, 0 + n * length) /\ Len(at) = n + 1
 BY <1>2, EvenlyLies
<1>5. 0 + n * length = length * n
 OBVIOUS
<1>6. OnLine(kind, length, Placed(at, n))
 BY <1>4, <1>5, LyingIsOnLine
<1>7. Placed(at, n).at = at
 BY DEF Placed
<1> QED BY <1>3, <1>4, <1>6, <1>7

\* How often a length has room for a spacing.
LEMMA WholeSpacings ==
  ASSUME NEW length \in Nat, NEW target \in Nat \ {0}
  PROVE  /\ length \div target \in Nat
         /\ (length \div target) * target <= length
         /\ length \div target = 0 <=> length < target
<1>1. PICK w : w = length \div target
 OBVIOUS
<1>2. w \in Nat
 BY <1>1
<1>3. w * target <= length /\ length < w * target + target
 BY <1>1
<1>4. w = 0 => length < target
 BY <1>3
<1>5. w # 0 => target <= length
 BY <1>2, <1>3, Products
<1> QED BY <1>1, <1>2, <1>3, <1>4, <1>5

\* Intervals of the target with what is left over.
LEMMA FixedFits ==
  ASSUME NEW kind \in FixedKinds, NEW length \in Nat \ {0}, NEW target \in Nat \ {0},
         NEW most \in Nat, ByFixed(kind, length, target, most).code = "none"
  PROVE  /\ OnLine(kind, length, ByFixed(kind, length, target, most))
         /\ Len(ByFixed(kind, length, target, most).at)
                <= most + (IF kind = "left_over_twice" /\ length < target THEN 1 ELSE 0)
<1>1. PICK w \in Nat : /\ w = length \div target /\ w * target <= length
                       /\ w = 0 <=> length < target
 BY WholeSpacings
<1>2. PICK f \in Nat : f = IF w = 0 THEN 0 ELSE w - 1
 OBVIOUS
<1>3. PICK d \in Nat : d = f * target
 OBVIOUS
<1>4. d < length
 <2>1. CASE w = 0
  BY <1>2, <1>3, <2>1
 <2>2. CASE w # 0
  BY <1>1, <1>2, <1>3, <2>2, Products
 <2> QED BY <2>1, <2>2
<1>5. PICK left \in Nat \ {0} : left = length - d
 BY <1>4
<1>6. PICK b \in Nat, a \in Nat : b = f \div 2 /\ a = f - b /\ f = b + a
 OBVIOUS
<1>7. PICK p \in Nat, q \in Nat : /\ p = a * target /\ q = b * target /\ d = p + q
 BY <1>3, <1>6
<1>8. PICK s \in Nat \ {0} : s = 2 * target
 OBVIOUS
<1>9. f * s = 2 * d /\ a * s = 2 * p /\ b * s = 2 * q
 BY <1>3, <1>7, <1>8
<1>10. PICK one, two, three, four, five :
          /\ one = Evenly(2 * left, s, f + 1) /\ two = Evenly(0, s, f + 1)
          /\ three = Evenly(left, s, f + 1) /\ four = Evenly(0, s, b + 1)
          /\ five = Evenly(2 * (length - p), s, a + 1)
 OBVIOUS
<1>11. PICK end \in Nat : end = 2 * length
 OBVIOUS
<1>12. /\ 2 * left + f * s = end /\ 2 * (length - p) + a * s = end
       /\ 0 < 2 * left /\ 0 + f * s < end /\ left + f * s < end
       /\ 0 + b * s < 2 * (length - p)
       /\ 2 * left \in Int /\ 2 * (length - p) \in Int /\ 0 + f * s \in Int
       /\ left + f * s \in Int /\ 0 + b * s \in Int /\ 0 \in Int /\ end \in Int /\ 0 < left
       /\ left \in Int
 BY <1>4, <1>5, <1>7, <1>9, <1>11
<1>13. /\ Lies(one, 2 * left, end) /\ Len(one) = f + 1
       /\ Lies(two, 0, 0 + f * s) /\ Len(two) = f + 1
       /\ Lies(three, left, left + f * s) /\ Len(three) = f + 1
       /\ Lies(four, 0, 0 + b * s) /\ Len(four) = b + 1
       /\ Lies(five, 2 * (length - p), end) /\ Len(five) = a + 1
 <2>1. \A from \in Int : \A more \in Nat :
          /\ Lies(Evenly(from, s, more + 1), from, from + more * s)
          /\ Len(Evenly(from, s, more + 1)) = more + 1
  BY EvenlyLies
 <2> QED BY <1>10, <1>12, <2>1, ZenonT(40)
<1>14. PICK nought, last : nought = <<0>> /\ last = <<end>>
 OBVIOUS
<1>15. Lies(nought, 0, 0) /\ Len(nought) = 1 /\ Lies(last, end, end) /\ Len(last) = 1
 BY <1>12, <1>14, OneLies
<1>16. Lies(nought \o one, 0, end) /\ Len(nought \o one) = 1 + (f + 1)
 BY <1>12, <1>13, <1>15, JoinedLies, ZenonT(40)
<1>17. Lies(two \o last, 0, end) /\ Len(two \o last) = (f + 1) + 1
 BY <1>12, <1>13, <1>15, JoinedLies, ZenonT(40)
<1>18. Lies(nought \o three, 0, left + f * s) /\ Len(nought \o three) = 1 + (f + 1)
 BY <1>12, <1>13, <1>15, JoinedLies, ZenonT(40)
<1>19. PICK first : first = nought \o three
 OBVIOUS
<1>20. Lies(first \o last, 0, end) /\ Len(first \o last) = (1 + (f + 1)) + 1
 BY <1>12, <1>15, <1>18, <1>19, JoinedLies
<1>21. Lies(four \o five, 0, end) /\ Len(four \o five) = (b + 1) + (a + 1)
 BY <1>12, <1>13, JoinedLies
<1>22. w + 2 <= most
 BY <1>1 DEF ByFixed, Refused
<1>23. PICK at : /\ kind = "left_over_first" => at = nought \o one
                 /\ kind = "left_over_last" => at = two \o last
                 /\ kind = "left_over_twice" => at = first \o last
                 /\ kind = "left_over_between" => at = four \o five
 BY DEF FixedKinds
<1>24. ByFixed(kind, length, target, most) = Placed(at, 2)
 <2>1. ByFixed(kind, length, target, most) =
          Placed(CASE kind = "left_over_first" -> nought \o one
                   [] kind = "left_over_last"  -> two \o last
                   [] kind = "left_over_twice" -> first \o last
                   [] kind = "left_over_between" -> four \o five, 2)
  <3> DEFINE W == length \div target
             F == IF W = 0 THEN 0 ELSE W - 1
             L == length - F * target
             B == F \div 2
             A == F - B
             One == <<0>> \o Evenly(2 * L, 2 * target, F + 1)
             Two == Evenly(0, 2 * target, F + 1) \o <<2 * length>>
             Three == <<0>> \o Evenly(L, 2 * target, F + 1) \o <<2 * length>>
             Four == Evenly(0, 2 * target, B + 1)
                     \o Evenly(2 * (length - A * target), 2 * target, A + 1)
  <3>1. ByFixed(kind, length, target, most) =
           IF W + 2 > most THEN Refused("resource_limit")
           ELSE Placed(CASE kind = "left_over_first" -> One
                         [] kind = "left_over_last"  -> Two
                         [] kind = "left_over_twice" -> Three
                         [] kind = "left_over_between" -> Four, 2)
   BY DEF ByFixed
  <3>2. W = w /\ F = f /\ L = left
   BY <1>1, <1>2, <1>3, <1>5
  <3>3. B = b /\ A = a
   BY <1>6, <3>2
  <3> HIDE DEF W, F, L, A, B
  <3>4. /\ One = nought \o one /\ Two = two \o last /\ Three = first \o last
        /\ Four = four \o five
   BY <1>7, <1>8, <1>10, <1>11, <1>14, <1>19, <3>2, <3>3, Zenon
  <3> HIDE DEF One, Two, Three, Four
  <3>5. ~(W + 2 > most)
   BY <1>22, <3>2
  <3>6. ByFixed(kind, length, target, most) =
           Placed(CASE kind = "left_over_first" -> One
                    [] kind = "left_over_last"  -> Two
                    [] kind = "left_over_twice" -> Three
                    [] kind = "left_over_between" -> Four, 2)
   BY ONLY <3>1, <3>5, Zenon
  <3> QED BY ONLY <3>4, <3>6
 <2> QED BY <1>23, <2>1 DEF FixedKinds
<1>25. Lies(at, 0, end) /\ Len(at) <= most + (IF kind = "left_over_twice" /\ length < target THEN 1 ELSE 0)
 <2>1. f + 2 <= most /\ (~(length < target) => f + 3 <= most)
  BY <1>1, <1>2, <1>22
 <2>2. CASE kind = "left_over_first"
  <3>1. Lies(at, 0, end) /\ Len(at) = 1 + (f + 1)
   BY <1>16, <1>23, <2>2, Zenon
  <3> QED BY <1>22, <2>1, <2>2, <3>1
 <2>3. CASE kind = "left_over_last"
  <3>1. Lies(at, 0, end) /\ Len(at) = (f + 1) + 1
   BY <1>17, <1>23, <2>3, Zenon
  <3> QED BY <1>22, <2>1, <2>3, <3>1
 <2>4. CASE kind = "left_over_twice"
  <3>1. Lies(at, 0, end) /\ Len(at) = (1 + (f + 1)) + 1
   BY <1>20, <1>23, <2>4, Zenon
  <3> QED BY <1>22, <2>1, <2>4, <3>1
 <2>5. CASE kind = "left_over_between"
  <3>1. Lies(at, 0, end) /\ Len(at) = (b + 1) + (a + 1)
   BY <1>21, <1>23, <2>5, Zenon
  <3> QED BY <1>6, <1>22, <2>1, <2>5, <3>1
 <2> QED BY <2>2, <2>3, <2>4, <2>5 DEF FixedKinds
<1>26. end = length * 2 /\ 2 \in Nat /\ length \in Nat
 BY <1>11
<1>27. OnLine(kind, length, Placed(at, 2))
 BY <1>25, <1>26, LyingIsOnLine
<1>28. Placed(at, 2).at = at
 BY DEF Placed
<1> QED BY <1>24, <1>25, <1>27, <1>28

\* Whatever the kind of distribution.
LEMMA DistancesFit ==
  ASSUME NEW kind, NEW length \in Nat, NEW spacings \in Seq(Nat), NEW most \in Nat \ {0},
         NEW x, x = Distances(kind, length, spacings, most), x.code = "none"
  PROVE  OnLine(kind, length, x) /\ Len(x.at) <= most + OneMore(kind, length, spacings)
<1>1. \A code : Refused(code).code = code
 BY DEF Refused
<1>2. spacings # <<>>
 BY <1>1 DEF Distances
<1>3. PICK first \in Nat : first = Head(spacings)
 BY <1>2
<1>4. CASE kind = "count"
 <2>1. x = ByCount(length, first, most)
  BY <1>2, <1>3, <1>4 DEF Distances
 <2>2. OnLine(kind, length, x) /\ Len(x.at) <= most
  BY <2>1, CountFits
 <2>3. OneMore(kind, length, spacings) = 0
  BY <1>4 DEF OneMore
 <2>4. x.at \in Seq(Int)
  BY <2>2 DEF OnLine
 <2> QED BY <2>2, <2>3, <2>4
<1>5. CASE kind = "list"
 <2>1. x = BySpacings(spacings, most)
  BY <1>2, <1>5 DEF Distances
 <2>2. OnLine(kind, length, x) /\ Len(x.at) <= most
  BY <1>5, <2>1, ListFits
 <2>3. OneMore(kind, length, spacings) = 0
  BY <1>5 DEF OneMore
 <2>4. x.at \in Seq(Int)
  BY <2>2 DEF OnLine
 <2> QED BY <2>2, <2>3, <2>4
<1>6. CASE kind \notin {"count", "list"}
 <2>1. first # 0
  BY <1>1, <1>2, <1>3, <1>6 DEF Distances
 <2>2. CASE length = 0
  <3>1. PICK y : y = Placed(<<0>>, 1)
   OBVIOUS
  <3>2. x = y
   BY <1>2, <1>3, <1>6, <2>1, <2>2, <3>1 DEF Distances
  <3>3. OnLine(kind, length, y) /\ Len(y.at) = 1
   BY <3>1, FewAreOnLine
  <3>4. OneMore(kind, length, spacings) \in Nat
   BY DEF OneMore
  <3> QED BY <3>2, <3>3, <3>4
 <2>3. CASE length # 0 /\ kind = "equal"
  <3>1. x = ByTarget(length, first, most)
   BY <1>2, <1>3, <1>6, <2>1, <2>3 DEF Distances
  <3>2. OnLine(kind, length, x) /\ Len(x.at) <= most
   BY <2>1, <2>3, <3>1, TargetFits
  <3>3. OneMore(kind, length, spacings) = 0
   BY <2>3 DEF OneMore
  <3>4. x.at \in Seq(Int)
   BY <3>2 DEF OnLine
  <3> QED BY <3>2, <3>3, <3>4
 <2>4. CASE length # 0 /\ kind # "equal"
  <3>1. kind \in FixedKinds
   BY <1>1, <1>2, <1>3, <1>6, <2>1, <2>4 DEF Distances
  <3>2. x = ByFixed(kind, length, first, most)
   BY <1>2, <1>3, <1>6, <2>1, <2>4, <3>1 DEF Distances
  <3>3. PICK slack : slack = IF kind = "left_over_twice" /\ length < first THEN 1 ELSE 0
   OBVIOUS
  <3>4. OnLine(kind, length, x) /\ Len(x.at) <= most + slack
   BY <2>1, <2>4, <3>1, <3>2, <3>3, FixedFits
  <3>5. OneMore(kind, length, spacings) = slack
   BY <1>2, <1>3, <3>3 DEF OneMore
  <3> QED BY <3>4, <3>5
 <2> QED BY <2>2, <2>3, <2>4
<1> QED BY <1>4, <1>5, <1>6

\* Bars left out at an end leave those in between as they are.
LEMMA ShorterIsInOrder ==
  ASSUME NEW at \in Seq(Int), at # <<>>
  PROVE  \A s \in {WithoutFirst(at), WithoutLast(at)} :
            /\ s \in Seq(Int) /\ Len(s) <= Len(at)
            /\ InOrder(at) => InOrder(s)
            /\ \A end : Within(at, end) => Within(s, end)
<1>1. PICK n \in Nat : n = Len(at) /\ n > 0
 OBVIOUS
<1>2. PICK t : t = WithoutFirst(at)
 OBVIOUS
<1>3. t \in Seq(Int) /\ Len(t) = n - 1 /\ \A i \in 1..n - 1 : t[i] = at[i + 1]
 BY <1>1, <1>2 DEF WithoutFirst
<1>4. PICK u : u = WithoutLast(at)
 OBVIOUS
<1>5. u \in Seq(Int) /\ Len(u) = n - 1 /\ \A i \in 1..n - 1 : u[i] = at[i]
 BY <1>1, <1>4, SubSeqProperties DEF WithoutLast
<1>6. ASSUME InOrder(at) PROVE InOrder(t) /\ InOrder(u)
 <2>1. \A i \in 1..n - 1 : at[i] < at[i + 1]
  BY <1>1, <1>6 DEF InOrder
 <2>2. ASSUME NEW i \in 1..(n - 1) - 1 PROVE t[i] < t[i + 1] /\ u[i] < u[i + 1]
  <3>1. i \in 1..n - 1 /\ i + 1 \in 1..n - 1
   BY <1>1
  <3>2. t[i] = at[i + 1] /\ t[i + 1] = at[(i + 1) + 1] /\ u[i] = at[i] /\ u[i + 1] = at[i + 1]
   BY <1>3, <1>5, <3>1
  <3>3. at[i] < at[i + 1] /\ at[i + 1] < at[(i + 1) + 1]
   BY <2>1, <3>1
  <3> QED BY <3>2, <3>3
 <2> QED BY <1>3, <1>5, <2>2 DEF InOrder
<1>7. ASSUME NEW end, Within(at, end) PROVE Within(t, end) /\ Within(u, end)
 <2>1. \A i \in 1..n : at[i] \in 0..end
  BY <1>1, <1>7 DEF Within
 <2>2. \A i \in 1..n - 1 : i \in 1..n /\ i + 1 \in 1..n
  BY <1>1
 <2>3. \A i \in 1..n - 1 : t[i] \in 0..end /\ u[i] \in 0..end
  BY <1>3, <1>5, <2>1, <2>2
 <2> QED BY <1>3, <1>5, <2>3 DEF Within
<1>8. Len(t) <= Len(at) /\ Len(u) <= Len(at)
 BY <1>1, <1>3, <1>5
<1> QED BY <1>2, <1>3, <1>4, <1>5, <1>6, <1>7, <1>8

LEMMA ExcludedFits ==
  ASSUME NEW kind, NEW length, NEW x, IsPlacement(x), OnLine(kind, length, x), x.code = "none",
         NEW exclusion, NEW y, y = Excluded(exclusion, x), y.code = "none"
  PROVE  /\ y.at \in Seq(Int) /\ Len(y.at) <= Len(x.at) /\ y.over = x.over
         /\ length > 0 => InOrder(y.at) /\ (kind # "list" => Within(y.at, length * y.over))
         /\ exclusion = "none" => y.at = x.at
<1>1. PICK at, over : at = x.at /\ over = x.over
 OBVIOUS
<1>2. x = [code |-> "none", at |-> at, over |-> over] /\ at \in Seq(Int)
 BY <1>1 DEF IsPlacement
<1>3. exclusion \in Exclusions
 BY DEF Excluded, Refused
<1>4. PICK first, both :
         /\ first = IF exclusion \in {"first", "both"} THEN WithoutFirst(at) ELSE at
         /\ both = IF exclusion \in {"last", "both"} /\ first # <<>> THEN WithoutLast(first) ELSE first
 OBVIOUS
<1>5. y.at = both /\ y.over = over
 BY <1>1, <1>2, <1>3, <1>4 DEF Excluded
<1>6. /\ first \in Seq(Int) /\ Len(first) <= Len(at) /\ (InOrder(at) => InOrder(first))
      /\ \A end : Within(at, end) => Within(first, end)
 BY <1>2, <1>4, ShorterIsInOrder DEF WithoutFirst
<1>7. /\ both \in Seq(Int) /\ Len(both) <= Len(first) /\ (InOrder(first) => InOrder(both))
      /\ \A end : Within(first, end) => Within(both, end)
 BY <1>4, <1>6, ShorterIsInOrder
<1>8. exclusion = "none" => both = at
 BY <1>4
<1>9. Len(both) <= Len(at)
 BY <1>2, <1>6, <1>7
<1>10. length > 0 => InOrder(both) /\ (kind # "list" => Within(both, length * over))
 BY <1>1, <1>6, <1>7 DEF OnLine
<1> QED BY <1>1, <1>5, <1>7, <1>8, <1>9, <1>10

\* The bars expanded from groups and meshes are a number.
LEMMA ExpandedIsNumber ==
  ASSUME GeometryInv, PaidInv, RoundOK, expanded \in Nat, [GeometryNext]_geometryVars
  PROVE  expanded' \in Nat
<1>1. \A code : Report(code) => expanded' = expanded
 BY DEF Report
<1>2. \A bars, points : \A count \in Nat : Expand(bars, count, points) => expanded' \in Nat
 BY <1>1 DEF Expand
<1>3. \A next, links : AskFor(next, links) => expanded' = expanded
 BY DEF AskFor
<1>4. CASE UNCHANGED geometryVars
 BY <1>4 DEF geometryVars
<1>5. CASE BeginRebar \/ HearPolygon
 BY <1>1, <1>3, <1>5 DEF BeginRebar, HearPolygon
<1>6. CASE HearSize
 BY <1>1, <1>2, <1>3, <1>6 DEF HearSize
<1>7. CASE HearGroup
 <2>1. PICK n : n = Len(GroupDistances(Room(PathPoints)).at)
  OBVIOUS
 <2>2. n \in Nat
  BY <1>7, <2>1, BarsAreNumbers DEF HearGroup, AtRound
 <2>3. expanded' = expanded \/ \E bars, points : Expand(bars, n, points)
  BY <1>1, <1>7, <2>1, Zenon DEF HearGroup
 <2> QED BY <1>2, <2>2, <2>3
<1>8. CASE HearMesh \/ HearBentMesh
 <2>1. PICK n \in Nat, m \in Nat : n = Lengthwise /\ m = Across
  BY <1>8, BarsAreNumbers DEF HearMesh, HearBentMesh, AtRound
 <2>2. \/ expanded' = expanded
       \/ \E bars, points : Expand(bars, Lengthwise + Across, points)
       \/ expanded' = expanded + Across + Lengthwise
  BY <1>1, <1>8, Zenon DEF HearMesh, HearBentMesh
 <2>3. Lengthwise + Across \in Nat /\ expanded + Across + Lengthwise \in Nat
  BY <2>1
 <2> QED BY <1>2, <2>2, <2>3
<1>9. CASE \/ NoObjects \/ NextStage \/ ReadContour \/ DrawSurface \/ ReadWeldRow
           \/ (\E polygon \in todo : DrawWeld(polygon) \/ ReportWeld(polygon))
           \/ DrawGrid \/ DrawBolt \/ AskStep
 BY <1>9 DEF NoObjects, NextStage, ReadContour, DrawSurface, ReadWeldRow, DrawWeld, ReportWeld,
    DrawGrid, DrawBolt, AskStep, Quiet
<1> QED
 BY <1>4, <1>5, <1>6, <1>7, <1>8, <1>9, Zenon DEF GeometryNext, Finished, Decode, DecodeRebar, AskStep

\* The room for the bars of a group is a number.
LEMMA RoomIsNumber ==
  ASSUME GeometryInv, expanded \in Nat, NEW points \in Nat
  PROVE  Room(points) \in Nat
<1>1. Remaining \in Nat
 BY DEF GeometryInv, Given, BudgetOK, Remaining
<1>2. CurveBytes(points) \in Nat \ {0}
 BY LinksAssumption, Products DEF CurveBytes
<1>3. \A a \in Nat, b \in Nat \ {0} : a \div b \in Nat
 OBVIOUS
<1>4. Remaining \div CurveBytes(points) \in Nat
 BY <1>1, <1>2, <1>3
<1>5. MostBars \in Nat
 BY NonPartAssumption DEF GeometryInv, Given, MostBars, Larger
<1>6. (IF expanded >= MostBars THEN 0 ELSE MostBars - expanded) \in Nat
 BY <1>5
<1> QED BY <1>4, <1>6 DEF Room, Smaller

\* For all kinds of spacing, lengths, targets and budgets a group's bars lie on its line one after
\* the other, from its start to its end unless the ends are left out, and there are no more of them
\* than the budgets of bytes and of expanded bars leave room for, but for the third bar of a line
\* shorter than its spacing (spacing_distances, group_centerlines).
THEOREM BarsAreOnTheirLine == GeometrySpec => []BarsFit
<1> DEFINE Inv == GeometryInv /\ PaidInv /\ RoundOK /\ expanded \in Nat
<1>1. GeometryInit => Inv
 BY GeometryInitKeeps, NothingAtFirst DEF GeometryInit
<1>2. Inv /\ [GeometryNext]_geometryVars => Inv'
 BY GeometryStepKeeps, StepPays, RoundIsKept, ExpandedIsNumber
<1>3. Inv => BarsFit
 <2> SUFFICES ASSUME Inv, AtRound("group"), Room(PathPoints) > 0,
                     NEW y, y = GroupDistances(Room(PathPoints)), y.code = "none"
              PROVE  /\ Len(y.at) <= Room(PathPoints) + (IF ShortTwice THEN 1 ELSE 0)
                     /\ Bar.length > 0 =>
                        /\ \A i \in 1..Len(y.at) - 1 : y.at[i] < y.at[i + 1]
                        /\ Bar.kind # "list" =>
                               \A i \in 1..Len(y.at) : y.at[i] \in 0..Bar.length * y.over
                        /\ Len(y.at) > 1 /\ Bar.exclusion = "none" =>
                           /\ y.at[1] = 0
                           /\ Bar.kind # "list" => y.at[Len(y.at)] = Bar.length * y.over
  BY DEF BarsFit
 <2>1. AtRow("rebars") /\ round = "group"
  BY DEF AtRound
 <2>2. /\ Bar.length \in Nat /\ Bar.bars \in Nat /\ Bar.spacings \in Seq(Nat)
  BY <2>1, NonPartAssumption DEF GeometryInv, Given, AtRow, RowsOf, Bar
 <2>3. PICK most \in Nat \ {0} : most = Room(PathPoints)
  BY <2>1, BarsAreNumbers, RoomIsNumber
 <2>4. PICK s : s = IF Bar.kind = "count" /\ Bar.bars > 0 THEN <<Bar.bars>> ELSE Bar.spacings
  OBVIOUS
 <2>5. s \in Seq(Nat)
  BY <2>2, <2>4
 <2>6. PICK length, kind, exclusion : /\ length = Bar.length /\ length \in Nat
                                      /\ kind = Bar.kind /\ exclusion = Bar.exclusion
  BY <2>2
 <2>7. PICK x : x = Distances(kind, length, s, most)
  OBVIOUS
 <2>8. y = Excluded(exclusion, x)
  <3>1. Bar.shaped
   BY DEF GroupDistances, Refused
  <3> QED BY <2>3, <2>4, <2>6, <2>7, <3>1 DEF GroupDistances
 <2>9. x.code = "none"
  BY <2>8 DEF Excluded
 <2>10. IsPlacement(x)
  BY <2>5, <2>6, <2>7, DistancesArePlaced
 <2>11. OnLine(kind, length, x) /\ Len(x.at) <= most + OneMore(kind, length, s)
  BY <2>5, <2>6, <2>7, <2>9, DistancesFit
 <2>12. /\ y.at \in Seq(Int) /\ Len(y.at) <= Len(x.at) /\ y.over = x.over
        /\ length > 0 => InOrder(y.at) /\ (kind # "list" => Within(y.at, length * y.over))
        /\ exclusion = "none" => y.at = x.at
  BY <2>8, <2>9, <2>10, <2>11, ExcludedFits
 <2>13. OneMore(kind, length, s) = IF ShortTwice THEN 1 ELSE 0
  BY <2>4, <2>6 DEF OneMore, ShortTwice
 <2>14. Len(x.at) \in Nat /\ Len(y.at) \in Nat
  BY <2>11, <2>12 DEF OnLine
 <2>15. Len(y.at) <= Room(PathPoints) + (IF ShortTwice THEN 1 ELSE 0)
  BY <2>3, <2>11, <2>12, <2>13, <2>14
 <2>16. Len(y.at) > 1 /\ exclusion = "none" /\ length > 0 =>
            y.at[1] = 0 /\ (kind # "list" => y.at[Len(y.at)] = length * y.over)
  BY <2>11, <2>12 DEF OnLine
 <2> QED BY <2>6, <2>12, <2>15, <2>16 DEF InOrder, Within
<1> QED BY <1>1, <1>2, <1>3, PTL DEF GeometrySpec
-----------------------------------------------------------------------------
(* Every element is answered: what is handed out for an element is handed out while its row is *)
(* gone through, and every polygon gone through gives its weld a sweep or a report.             *)

\* Where an element is in a list.
IdsOf(s, id) == {i \in DOMAIN s : s[i].id = id}

\* A list with one member more.
LEMMA IdsAppended ==
  ASSUME NEW s, IsList(s), NEW e, NEW t, Longer(t, s, 1, e)
  PROVE  /\ IsList(t)
         /\ \A x : x # e.id => IdsOf(t, x) = IdsOf(s, x)
         /\ IdsOf(t, e.id) # {}
         /\ \E n : n \notin IdsOf(s, e.id) /\ IdsOf(t, e.id) = IdsOf(s, e.id) \cup {n}
<1>1. DOMAIN s = 1..Len(s)
 BY ListFacts
<1>2. PICK n \in Nat : n = Len(s)
 BY ListFacts
<1>3. /\ DOMAIN t = 1..n + 1 /\ DOMAIN s = 1..n /\ IsList(t)
      /\ \A i \in 1..n : t[i] = s[i]
      /\ \A i \in 1..n + 1 : i > n => t[i] = e
 BY <1>1, <1>2 DEF Longer
<1>4. \A i : i \in 1..n + 1 <=> i \in 1..n \/ i = n + 1
 OBVIOUS
<1>5. t[n + 1] = e /\ n + 1 \notin 1..n
 BY <1>3
<1>6. \A x : x # e.id => IdsOf(t, x) = IdsOf(s, x)
 BY <1>3, <1>4, <1>5 DEF IdsOf
<1>7. IdsOf(t, e.id) = IdsOf(s, e.id) \cup {n + 1} /\ n + 1 \notin IdsOf(s, e.id)
 BY <1>3, <1>4, <1>5 DEF IdsOf
<1> QED BY <1>3, <1>6, <1>7

\* Curves are added of one element.
LEMMA IdsOfMoreCurves ==
  ASSUME NEW c, CurvesOK(c), NEW n \in Nat, NEW id, NEW p \in Nat, NEW d, d = MoreCurves(c, n, id, p)
  PROVE  /\ \A x : x # id => IdsOf(d, x) = IdsOf(c, x)
         /\ IdsOf(c, id) \subseteq IdsOf(d, id)
         /\ n > 0 => IdsOf(d, id) # {}
         /\ \A i \in DOMAIN d : d[i].id = id \/ (i \in DOMAIN c /\ d[i] = c[i])
<1>1. PICK m \in Nat : m = Len(c) /\ DOMAIN c = 1..m
 BY ListFacts DEF CurvesOK
<1>2. PICK e : e = [id |-> id, points |-> p]
 OBVIOUS
<1>3. Longer(d, c, n, e)
 BY <1>2, ListGrows DEF MoreCurves, CurvesOK
<1>4. /\ DOMAIN d = 1..m + n
      /\ \A i \in 1..m : d[i] = c[i]
      /\ \A i \in 1..m + n : i > m => d[i] = e
 BY <1>1, <1>3 DEF Longer
<1>5. \A i \in 1..m : i \in 1..m + n
 OBVIOUS
<1>6. DOMAIN d = 1..m + n /\ \A i \in 1..m : i \in 1..m + n /\ d[i] = c[i]
 BY <1>4, <1>5
<1>7. \A i \in 1..m + n : i \notin 1..m => d[i] = e
 BY <1>4
<1>8. e.id = id
 BY <1>2
<1>9. n > 0 => m + n \in 1..m + n /\ m + n \notin 1..m
 OBVIOUS
<1>10. \A i \in DOMAIN d : d[i].id = id \/ (i \in DOMAIN c /\ d[i] = c[i])
 BY <1>1, <1>6, <1>7, <1>8
<1>11. \A x : x # id => IdsOf(d, x) = IdsOf(c, x)
 BY <1>1, <1>6, <1>7, <1>8 DEF IdsOf
<1>12. IdsOf(c, id) \subseteq IdsOf(d, id)
 BY <1>1, <1>6 DEF IdsOf
<1>13. n > 0 => IdsOf(d, id) # {}
 BY <1>6, <1>7, <1>8, <1>9 DEF IdsOf
<1> QED BY <1>10, <1>11, <1>12, <1>13

\* What is handed out for an element, and what a step adds for it.
CurvesOf(id) == IdsOf(curves, id)
Untouched(id) ==
  /\ MeshOf(id)' = MeshOf(id) /\ CurvesOf(id)' = CurvesOf(id) /\ Reported(id)' = Reported(id)
NoneTouched == \A x : Untouched(x)
OnlyOf(id) == \A x : x # id => Untouched(x)
Told(id) ==
  /\ OnlyOf(id) /\ MeshOf(id)' = MeshOf(id) /\ CurvesOf(id)' = CurvesOf(id)
  /\ \E n : n \notin Reported(id) /\ Reported(id)' = Reported(id) \cup {n}
Shaped(id) ==
  /\ OnlyOf(id) /\ CurvesOf(id)' = CurvesOf(id) /\ Reported(id)' = Reported(id)
  /\ MeshOf(id)' # {}
Lined(id) ==
  /\ OnlyOf(id) /\ MeshOf(id)' = MeshOf(id) /\ Reported(id)' = Reported(id)
  /\ CurvesOf(id) \subseteq CurvesOf(id)'

Blank(id) == MeshOf(id) = {} /\ CurvesOf(id) = {} /\ Reported(id) = {}
Settled(id, may) ==
  /\ Reported(id) # {} => MeshOf(id) = {} /\ CurvesOf(id) = {}
  /\ Cardinality(Reported(id)) <= 1
  /\ Blank(id) => may

LEMMA OfElements ==
  /\ \A id : MeshOf(id) = IdsOf(meshes, id) /\ Reported(id) = IdsOf(diagnostics, id)
  /\ \A id : Drawn(id) = MeshOf(id) \cup CurvesOf(id)
BY DEF MeshOf, Reported, CurvesOf, Drawn, IdsOf

\* What a report, a mesh and curves add.
LEMMA NothingIsTouched ==
  ASSUME UNCHANGED outVars
  PROVE  NoneTouched
BY DEF NoneTouched, Untouched, MeshOf, CurvesOf, Reported, IdsOf, outVars

LEMMA ReportTells ==
  ASSUME IsList(diagnostics), NEW id, NEW code, Diagnose(id, code)
  PROVE  Told(id) /\ IsList(diagnostics')
<1>1. PICK e, d : e = [id |-> id, code |-> code] /\ d = Append(diagnostics, e)
 OBVIOUS
<1>2. diagnostics' = d /\ e.id = id /\ UNCHANGED <<curves, meshes>>
 BY <1>1 DEF Diagnose
<1>0. PICK s : s = diagnostics
 OBVIOUS
<1>3. /\ IsList(d) /\ \A x : x # id => IdsOf(d, x) = IdsOf(diagnostics, x)
      /\ \E n : n \notin IdsOf(diagnostics, id) /\ IdsOf(d, id) = IdsOf(diagnostics, id) \cup {n}
 <2>1. IsList(s) /\ Longer(d, s, 1, e)
  BY <1>0, <1>1, ListAppends
 <2>2. /\ IsList(d) /\ \A x : x # e.id => IdsOf(d, x) = IdsOf(s, x)
       /\ \E n : n \notin IdsOf(s, e.id) /\ IdsOf(d, e.id) = IdsOf(s, e.id) \cup {n}
  BY ONLY <2>1, IdsAppended
 <2> QED BY <1>0, <1>2, <2>2
<1>4. \A x : MeshOf(x)' = MeshOf(x) /\ CurvesOf(x)' = CurvesOf(x) /\ Reported(x)' = IdsOf(d, x)
 BY <1>2 DEF MeshOf, CurvesOf, Reported, IdsOf
<1>5. \A x : Reported(x) = IdsOf(diagnostics, x)
 BY OfElements
<1> QED BY <1>2, <1>3, <1>4, <1>5 DEF Told, OnlyOf, Untouched

LEMMA MeshShapes ==
  ASSUME IsList(meshes), NEW e, Draw(e)
  PROVE  Shaped(e.id)
<1>1. PICK m : m = Append(meshes, e)
 OBVIOUS
<1>2. meshes' = m /\ UNCHANGED <<curves, diagnostics>>
 BY <1>1 DEF Draw
<1>3. (\A x : x # e.id => IdsOf(m, x) = IdsOf(meshes, x)) /\ IdsOf(m, e.id) # {}
 <2>0. PICK s : s = meshes
  OBVIOUS
 <2>1. IsList(s) /\ Longer(m, s, 1, e)
  BY <1>1, <2>0, ListAppends
 <2>2. (\A x : x # e.id => IdsOf(m, x) = IdsOf(s, x)) /\ IdsOf(m, e.id) # {}
  BY ONLY <2>1, IdsAppended
 <2> QED BY <2>0, <2>2
<1>4. \A x : MeshOf(x)' = IdsOf(m, x) /\ CurvesOf(x)' = CurvesOf(x) /\ Reported(x)' = Reported(x)
 BY <1>2 DEF MeshOf, CurvesOf, Reported, IdsOf
<1>5. \A x : MeshOf(x) = IdsOf(meshes, x)
 BY OfElements
<1> QED BY <1>3, <1>4, <1>5 DEF Shaped, OnlyOf, Untouched

LEMMA BarsLine ==
  ASSUME CurvesOK(curves), NEW n \in Nat, NEW id, NEW p \in Nat,
         curves' = MoreCurves(curves, n, id, p), UNCHANGED <<meshes, diagnostics>>
  PROVE  Lined(id) /\ (n > 0 => CurvesOf(id)' # {})
<1>1. PICK d : d = MoreCurves(curves, n, id, p)
 OBVIOUS
<1>2. /\ \A x : x # id => IdsOf(d, x) = IdsOf(curves, x)
      /\ IdsOf(curves, id) \subseteq IdsOf(d, id) /\ (n > 0 => IdsOf(d, id) # {})
 BY <1>1, IdsOfMoreCurves
<1>3. \A x : CurvesOf(x)' = IdsOf(d, x) /\ MeshOf(x)' = MeshOf(x) /\ Reported(x)' = Reported(x)
 BY <1>1 DEF MeshOf, CurvesOf, Reported, IdsOf
<1> QED BY <1>2, <1>3 DEF Lined, OnlyOf, Untouched, CurvesOf

\* The first thing handed out for an element settles it.
LEMMA FirstSettles ==
  ASSUME NEW id, Blank(id), NEW may,
         \/ Told(id) \/ Shaped(id)
         \/ Lined(id) /\ (CurvesOf(id)' # {} \/ may)
         \/ Untouched(id) /\ may
  PROVE  Settled(id, may)'
<1>1. Cardinality({}) = 0 /\ \A n : Cardinality({n}) = 1
 BY FS_EmptySet, FS_Singleton
<1>2. CASE Told(id)
 <2>1. PICK n : Reported(id)' = {n}
  BY <1>2 DEF Told, Blank
 <2>2. MeshOf(id)' = {} /\ CurvesOf(id)' = {}
  BY <1>2 DEF Told, Blank
 <2>3. Cardinality(Reported(id)') = 1
  BY <1>1, <2>1
 <2>4. Cardinality(Reported(id)') <= 1
  BY <2>3
 <2>5. ~Blank(id)'
  BY <2>1 DEF Blank
 <2> QED BY <2>2, <2>4, <2>5 DEF Settled
<1>3. CASE Shaped(id) \/ Lined(id) \/ Untouched(id)
 <2>1. Reported(id)' = {}
  BY <1>3 DEF Shaped, Lined, Untouched, Blank
 <2>2. CASE Told(id)
  BY <1>2, <2>2
 <2>3. CASE ~Told(id)
  BY <1>1, <2>1, <2>3 DEF Shaped, Settled, Blank
 <2> QED BY <2>2, <2>3
<1> QED BY <1>2, <1>3

LEMMA UntouchedStays ==
  ASSUME NEW id, Untouched(id)
  PROVE  (Blank(id)' <=> Blank(id)) /\ \A may : Settled(id, may)' <=> Settled(id, may)
BY DEF Untouched, Blank, Settled

\* Meshes, curves and reports are of elements that are asked for, each of its kind.
MeshTypes == {"surface", "weld", "bolt"}
CurveTypes == {"grid", "rebar"}
KindsOK ==
  /\ IsList(diagnostics)
  /\ \A x : /\ MeshOf(x) # {} => Wanting(x, MeshTypes)
            /\ CurvesOf(x) # {} => Wanting(x, CurveTypes)
            /\ Reported(x) # {} => Wanting(x, MeshTypes \cup CurveTypes)

LEMMA KindsStay ==
  ASSUME KindsOK, IsList(diagnostics'), model' = model,
         \/ NoneTouched
         \/ \E id : \/ Told(id) /\ Wanting(id, MeshTypes \cup CurveTypes)
                    \/ Shaped(id) /\ Wanting(id, MeshTypes)
                    \/ Lined(id) /\ Wanting(id, CurveTypes)
  PROVE  KindsOK'
<1>1. \A x, types : Wanting(x, types)' <=> Wanting(x, types)
 BY DEF Wanting
<1>2. SUFFICES ASSUME NEW x
               PROVE  /\ MeshOf(x)' # {} => Wanting(x, MeshTypes)
                      /\ CurvesOf(x)' # {} => Wanting(x, CurveTypes)
                      /\ Reported(x)' # {} => Wanting(x, MeshTypes \cup CurveTypes)
 BY <1>1 DEF KindsOK, MeshTypes, CurveTypes
<1>3. CASE Untouched(x)
 BY <1>3 DEF Untouched, KindsOK
<1>4. CASE ~Untouched(x)
 <2>1. PICK id : \/ Told(id) /\ Wanting(id, MeshTypes \cup CurveTypes)
                 \/ Shaped(id) /\ Wanting(id, MeshTypes)
                 \/ Lined(id) /\ Wanting(id, CurveTypes)
  BY <1>4 DEF NoneTouched
 <2>2. x = id
  BY <1>4, <2>1 DEF Told, Shaped, Lined, OnlyOf
 <2>3. CASE Told(id) /\ Wanting(id, MeshTypes \cup CurveTypes)
  BY <2>2, <2>3 DEF Told, KindsOK
 <2>4. CASE Shaped(id) /\ Wanting(id, MeshTypes)
  BY <2>2, <2>4 DEF Shaped, KindsOK
 <2>5. CASE Lined(id) /\ Wanting(id, CurveTypes)
  BY <2>2, <2>5 DEF Lined, KindsOK
 <2> QED BY <2>1, <2>3, <2>4, <2>5
<1> QED BY <1>3, <1>4

\* The stages whose rows are elements, and what may have nothing to draw.
RowStages == {"surfaces", "rebars", "bolts"}
TypesOf(s) == IF s = "surfaces" THEN {"surface"} ELSE IF s = "rebars" THEN {"rebar"} ELSE {"bolt"}
IsRow(s, j, e) == j \in DOMAIN RowsOf(s) /\ e = RowsOf(s)[j] /\ Taken(e, TypesOf(s))
MayBeEmpty(s, e) == (s = "rebars" /\ e.subtype # "bar") \/ (s = "bolts" /\ e.axis = "flat")

Late == {"grids", "rebars", "bolts", "done"}
Later(s) ==
  IF s = "surfaces" THEN {"weld_rows", "welds", "invalid_welds", "limited_welds"} \cup Late
  ELSE IF s = "weld_rows" THEN {"welds", "invalid_welds", "limited_welds"} \cup Late
  ELSE IF s = "welds" THEN {"invalid_welds", "limited_welds"} \cup Late
  ELSE IF s = "invalid_welds" THEN {"limited_welds"} \cup Late
  ELSE IF s = "limited_welds" THEN Late
  ELSE IF s = "rebars" THEN {"bolts", "done"} ELSE {"done"}
Behind(s, j) == stage \in Later(s) \/ (stage = s /\ j < row)

\* Elements behind are settled, and of those ahead nothing is handed out.
RowsAnswered(s) ==
  \A j, e : IsRow(s, j, e) => IF Behind(s, j) THEN Settled(e.id, MayBeEmpty(s, e)) ELSE Blank(e.id)

LEMMA RowsStay ==
  ASSUME model' = model
  PROVE  /\ \A s : RowsOf(s)' = RowsOf(s)
         /\ \A s, j, e : IsRow(s, j, e)' <=> IsRow(s, j, e)
BY DEF Taken, Wanting, RowsOf, IsRow

LEMMA RowsAreNumbered ==
  ASSUME model \in NonPartModels, NEW s \in RowStages
  PROVE  /\ \A j \in DOMAIN RowsOf(s) : j \in Nat \ {0}
         /\ \A n \in Nat \ {0} : n \notin DOMAIN RowsOf(s) => \A j \in DOMAIN RowsOf(s) : j < n
<1>1. PICK n \in Nat : DOMAIN RowsOf(s) = 1..n
 <2>1. Table(model.surfaces) /\ Table(model.rebars) /\ Table(model.bolts)
  BY NonPartAssumption
 <2>2. DOMAIN <<>> = 1..0
  OBVIOUS
 <2>3. \A t : Table(t) => \E n \in Nat : DOMAIN t = 1..n
  BY DEF Table
 <2>4. CASE s = "surfaces"
  BY <2>1, <2>3, <2>4 DEF RowsOf
 <2>5. CASE s = "rebars"
  BY <2>1, <2>3, <2>5 DEF RowsOf
 <2>6. CASE s = "bolts"
  BY <2>1, <2>2, <2>3, <2>6 DEF RowsOf
 <2> QED BY <2>4, <2>5, <2>6 DEF RowStages
<1> QED BY <1>1

\* Rows that are not gone through.
LEMMA OthersAnswered ==
  ASSUME NEW s \in RowStages, RowsAnswered(s), UNCHANGED <<model, stage>>,
         stage = s => row' = row,
         \/ NoneTouched
         \/ \E id : OnlyOf(id) /\ ~Wanting(id, TypesOf(s))
  PROVE  RowsAnswered(s)'
<1> SUFFICES ASSUME NEW j, NEW e, IsRow(s, j, e)
             PROVE  IF Behind(s, j)' THEN Settled(e.id, MayBeEmpty(s, e))' ELSE Blank(e.id)'
 BY RowsStay DEF RowsAnswered
<1>1. Behind(s, j)' <=> Behind(s, j)
 BY DEF Behind, Later
<1>2. Untouched(e.id)
 BY DEF NoneTouched, OnlyOf, IsRow, Taken
<1>3. PICK may, id : may = MayBeEmpty(s, e) /\ id = e.id
 OBVIOUS
<1>4. IF Behind(s, j) THEN Settled(id, may) ELSE Blank(id)
 BY <1>3 DEF RowsAnswered
<1>5. IF Behind(s, j)' THEN Settled(id, may)' ELSE Blank(id)'
 BY <1>1, <1>2, <1>3, <1>4, UntouchedStays
<1> QED BY <1>3, <1>5 DEF MayBeEmpty

\* No two elements of a kind have one id.
LEMMA RowsAreKeyed ==
  ASSUME IdsAreKeys(model), NEW s \in RowStages, NEW i, NEW j, NEW e, NEW f,
         IsRow(s, i, e), IsRow(s, j, f), e.id = f.id
  PROVE  i = j
<1>1. Keyed(model.surfaces) /\ Keyed(model.rebars) /\ Keyed(model.bolts)
 BY DEF IdsAreKeys
<1>2. /\ i \in DOMAIN RowsOf(s) /\ j \in DOMAIN RowsOf(s)
      /\ RowsOf(s)[i].visible /\ RowsOf(s)[j].visible /\ RowsOf(s)[i].id = RowsOf(s)[j].id
 BY DEF IsRow, Taken
<1>3. Keyed(RowsOf(s))
 <2>1. Keyed(<<>>)
  BY DEF Keyed
 <2> QED BY <1>1, <2>1 DEF RowStages, RowsOf
<1> QED BY <1>2, <1>3 DEF Keyed

\* The row gone through is settled by what is handed out for it.
LEMMA RowIsAnswered ==
  ASSUME model \in NonPartModels, IdsAreKeys(model), row \in Nat \ {0},
         NEW s \in RowStages, RowsAnswered(s), UNCHANGED <<model, stage>>,
         AtRow(s), row' = row + 1, NEW e, e = RowsOf(s)[row],
         \/ ~Taken(e, TypesOf(s)) /\ NoneTouched
         \/ Taken(e, TypesOf(s)) /\ OnlyOf(e.id)
            /\ (Blank(e.id) => \A may : may = MayBeEmpty(s, e) => Settled(e.id, may)')
  PROVE  RowsAnswered(s)'
<1> SUFFICES ASSUME NEW j, NEW f, IsRow(s, j, f)
             PROVE  IF Behind(s, j)' THEN Settled(f.id, MayBeEmpty(s, f))' ELSE Blank(f.id)'
 BY RowsStay DEF RowsAnswered
<1>1. stage = s /\ s \notin Later(s) /\ j \in Nat \ {0}
 BY RowsAreNumbered DEF RowStages, Later, Late, AtRow, IsRow
<1>2. Behind(s, j)' <=> Behind(s, j) \/ j = row
 BY <1>1 DEF Behind, Later, Late
<1>3. PICK may, id : may = MayBeEmpty(s, f) /\ id = f.id
 OBVIOUS
<1>4. MayBeEmpty(s, f)' <=> may
 BY <1>3 DEF MayBeEmpty
<1>5. CASE j = row
 BY <1>1, <1>2, <1>3, <1>4, <1>5 DEF IsRow, Behind, RowsAnswered, Settled
<1>6. CASE j # row
 <2>1. Untouched(id)
  <3>1. CASE NoneTouched
   BY <3>1 DEF NoneTouched
  <3>2. CASE Taken(e, TypesOf(s)) /\ OnlyOf(e.id)
   BY <1>3, <1>6, <3>2, RowsAreKeyed DEF IsRow, AtRow, OnlyOf
  <3> QED BY <3>1, <3>2
 <2>2. IF Behind(s, j) THEN Settled(id, may) ELSE Blank(id)
  BY <1>3 DEF RowsAnswered
 <2>3. IF Behind(s, j) THEN Settled(id, may)' ELSE Blank(id)'
  BY <2>1, <2>2, UntouchedStays
 <2> QED BY <1>2, <1>3, <1>4, <1>6, <2>3 DEF Settled
<1> QED BY <1>5, <1>6

\* What comes after what.
LEMMA LaterStages ==
  ASSUME NEW s \in RowStages \cup {"weld_rows", "welds", "invalid_welds", "limited_welds"},
         NEW t \in StageNames \ {"done"}
  PROVE  /\ t \in Later(s) => After(t) \in Later(s)
         /\ t = s => After(t) \in Later(s)
         /\ t \notin Later(s) /\ t # s => After(t) \notin Later(s)
         /\ s \notin Later(s)
<1>1. PICK a : a = Stages
 OBVIOUS
<1>2. /\ DOMAIN a = 1..11 /\ a[1] = "start" /\ a[2] = "contours" /\ a[3] = "surfaces"
      /\ a[4] = "weld_rows" /\ a[5] = "welds" /\ a[6] = "invalid_welds" /\ a[7] = "limited_welds"
      /\ a[8] = "grids" /\ a[9] = "rebars" /\ a[10] = "bolts" /\ a[11] = "done"
 BY <1>1 DEF Stages
<1>3. \A i \in 1..11 : \/ i = 1 \/ i = 2 \/ i = 3 \/ i = 4 \/ i = 5 \/ i = 6 \/ i = 7 \/ i = 8
                       \/ i = 9 \/ i = 10 \/ i = 11
 OBVIOUS
<1>4. \A i, k \in 1..11 : a[i] = a[k] => i = k
 BY <1>2, <1>3
<1>5. \A k \in 1..11 : (CHOOSE i \in DOMAIN a : a[i] = a[k]) = k
 BY <1>2, <1>4
<1>6. \A k \in 1..11 : After(a[k]) = a[1 + k]
 BY <1>1, <1>5, Zenon DEF After
<1>7. PICK k \in 1..11 : t = a[k]
 BY <1>1, <1>2 DEF StageNames
<1>8. After(t) = a[1 + k] /\ k # 11
 BY <1>2, <1>6, <1>7
<1>9. \/ k = 1 /\ t = "start" /\ After(t) = "contours"
      \/ k = 2 /\ t = "contours" /\ After(t) = "surfaces"
      \/ k = 3 /\ t = "surfaces" /\ After(t) = "weld_rows"
      \/ k = 4 /\ t = "weld_rows" /\ After(t) = "welds"
      \/ k = 5 /\ t = "welds" /\ After(t) = "invalid_welds"
      \/ k = 6 /\ t = "invalid_welds" /\ After(t) = "limited_welds"
      \/ k = 7 /\ t = "limited_welds" /\ After(t) = "grids"
      \/ k = 8 /\ t = "grids" /\ After(t) = "rebars"
      \/ k = 9 /\ t = "rebars" /\ After(t) = "bolts"
      \/ k = 10 /\ t = "bolts" /\ After(t) = "done"
 BY <1>2, <1>3, <1>7, <1>8
<1>10. \/ s = "surfaces" \/ s = "rebars" \/ s = "bolts" \/ s = "weld_rows" \/ s = "welds"
       \/ s = "invalid_welds" \/ s = "limited_welds"
 BY DEF RowStages
<1> QED BY <1>9, <1>10 DEF Later, Late

\* From one kind of rows to the next.
LEMMA StageAnswered ==
  ASSUME model \in NonPartModels, row \in Nat \ {0}, stage \in StageNames,
         NEW s \in RowStages, RowsAnswered(s), NextStage
  PROVE  RowsAnswered(s)'
<1>1. /\ stage' = After(stage) /\ stage \in StageNames \ {"done"} /\ ~AtRow(stage) /\ row' = 1
      /\ model' = model /\ UNCHANGED outVars
 BY DEF NextStage
<1> SUFFICES ASSUME NEW j, NEW e, IsRow(s, j, e)
             PROVE  IF Behind(s, j)' THEN Settled(e.id, MayBeEmpty(s, e))' ELSE Blank(e.id)'
 BY <1>1, RowsStay DEF RowsAnswered
<1>2. j \in DOMAIN RowsOf(s) /\ j \in Nat \ {0}
 BY RowsAreNumbered DEF IsRow
<1>3. /\ stage \in Later(s) => stage' \in Later(s)
      /\ stage = s => stage' \in Later(s)
      /\ stage \notin Later(s) /\ stage # s => stage' \notin Later(s)
 BY <1>1, LaterStages
<1>4. stage = s => j < row
 BY <1>1, <1>2, RowsAreNumbered DEF AtRow
<1>5. Behind(s, j)' <=> Behind(s, j)
 BY <1>1, <1>2, <1>3, <1>4 DEF Behind, Later, Late
<1>6. PICK may, id : may = MayBeEmpty(s, e) /\ id = e.id
 OBVIOUS
<1>7. Untouched(id)
 BY <1>1, NothingIsTouched DEF NoneTouched
<1>8. IF Behind(s, j) THEN Settled(id, may) ELSE Blank(id)
 BY <1>6 DEF RowsAnswered
<1>9. IF Behind(s, j)' THEN Settled(id, may)' ELSE Blank(id)'
 BY <1>5, <1>7, <1>8, UntouchedStays
<1> QED BY <1>6, <1>9 DEF MayBeEmpty

\* What comes of the row of an element.
Outcome(s, e) ==
  \/ ~Taken(e, TypesOf(s)) /\ NoneTouched
  \/ /\ Taken(e, TypesOf(s))
     /\ \/ Told(e.id)
        \/ s # "rebars" /\ Shaped(e.id)
        \/ s = "rebars" /\ Lined(e.id) /\ (CurvesOf(e.id)' # {} \/ MayBeEmpty(s, e))
        \/ NoneTouched /\ MayBeEmpty(s, e)

AllAnswered == KindsOK /\ \A s \in RowStages : RowsAnswered(s)

\* The welds are not touched.
WeldsAside == \A id : Wanting(id, {"weld"}) => Untouched(id)

LEMMA OutcomeAnswers ==
  ASSUME model \in NonPartModels, IdsAreKeys(model), row \in Nat \ {0}, AllAnswered,
         UNCHANGED <<model, stage>>, NEW s \in RowStages, AtRow(s), row' = row + 1,
         NEW e, e = RowsOf(s)[row], Outcome(s, e), IsList(diagnostics')
  PROVE  AllAnswered' /\ WeldsAside
<1>1. NoneTouched \/ (Taken(e, TypesOf(s)) /\ OnlyOf(e.id))
 BY DEF Outcome, Told, Shaped, Lined
<1>2. Taken(e, TypesOf(s)) => Wanting(e.id, TypesOf(s))
 BY DEF Taken
<1>3. stage = s
 BY DEF AtRow
<1>4. KindsOK'
 <2>1. CASE NoneTouched
  BY <2>1, KindsStay DEF AllAnswered
 <2>2. CASE Taken(e, TypesOf(s)) /\ ~NoneTouched
  <3>1. /\ Wanting(e.id, MeshTypes \cup CurveTypes)
        /\ s # "rebars" => Wanting(e.id, MeshTypes)
        /\ s = "rebars" => Wanting(e.id, CurveTypes)
   BY <1>2, <2>2 DEF Wanting, TypesOf, MeshTypes, CurveTypes, RowStages
  <3>2. PICK id : id = e.id
   OBVIOUS
  <3>3. \/ Told(id) /\ Wanting(id, MeshTypes \cup CurveTypes)
        \/ Shaped(id) /\ Wanting(id, MeshTypes)
        \/ Lined(id) /\ Wanting(id, CurveTypes)
   BY <2>2, <3>1, <3>2 DEF Outcome
  <3> QED BY <3>3, KindsStay DEF AllAnswered
 <2>3. CASE ~Taken(e, TypesOf(s))
  BY <2>1, <2>3 DEF Outcome
 <2> QED BY <2>1, <2>2, <2>3
<1>5. ASSUME NEW t \in RowStages, t # s PROVE RowsAnswered(t)'
 <2>1. NoneTouched \/ \E id : OnlyOf(id) /\ ~Wanting(id, TypesOf(t))
  BY <1>1, <1>2, <1>5 DEF Wanting, TypesOf, RowStages
 <2> QED BY <1>3, <1>5, <2>1, OthersAnswered DEF AllAnswered
<1>6. RowsAnswered(s)'
 <2>1. CASE ~Taken(e, TypesOf(s))
  BY <2>1, RowIsAnswered DEF Outcome, AllAnswered
 <2>2. CASE Taken(e, TypesOf(s))
  <3>1. OnlyOf(e.id)
   BY <1>1, <2>2 DEF NoneTouched, OnlyOf
  <3>2. PICK id : id = e.id
   OBVIOUS
  <3>3. ASSUME Blank(id), NEW may, may = MayBeEmpty(s, e) PROVE Settled(id, may)'
   BY <2>2, <3>2, <3>3, FirstSettles DEF Outcome, NoneTouched
  <3> QED BY <2>2, <3>1, <3>2, <3>3, RowIsAnswered DEF AllAnswered
 <2> QED BY <2>1, <2>2
<1>7. WeldsAside
 BY <1>1, <1>2 DEF WeldsAside, Wanting, TypesOf, NoneTouched, OnlyOf
<1> QED BY <1>4, <1>5, <1>6, <1>7 DEF AllAnswered

\* Steps that hand out nothing, or something of a weld or a grid.
LEMMA AsideAnswers ==
  ASSUME AllAnswered, UNCHANGED <<model, stage>>, stage \in RowStages => row' = row,
         IsList(diagnostics'),
         \/ NoneTouched
         \/ \E id : \/ Told(id) /\ Wanting(id, {"weld", "grid"})
                    \/ Shaped(id) /\ Wanting(id, {"weld"})
                    \/ Lined(id) /\ Wanting(id, {"grid"})
  PROVE  AllAnswered'
<1>1. KindsOK'
 <2>1. CASE NoneTouched
  BY <2>1, KindsStay DEF AllAnswered
 <2>2. ASSUME NEW id, \/ Told(id) /\ Wanting(id, {"weld", "grid"})
                      \/ Shaped(id) /\ Wanting(id, {"weld"})
                      \/ Lined(id) /\ Wanting(id, {"grid"})
       PROVE  KindsOK'
  BY <2>2, KindsStay DEF Wanting, MeshTypes, CurveTypes, AllAnswered
 <2> QED BY <2>1, <2>2
<1>2. ASSUME NEW s \in RowStages PROVE RowsAnswered(s)'
 <2>1. NoneTouched \/ \E id : OnlyOf(id) /\ ~Wanting(id, TypesOf(s))
  BY DEF Wanting, TypesOf, Told, Shaped, Lined
 <2>2. stage = s => row' = row
  BY <1>2
 <2> QED BY <1>2, <2>1, <2>2, OthersAnswered DEF AllAnswered
<1> QED BY <1>1, <1>2 DEF AllAnswered

\* Surfaces and bolts.
LEMMA SurfaceAnswers ==
  ASSUME model \in NonPartModels, IdsAreKeys(model), row \in Nat \ {0}, AllAnswered,
         MeshesOK(meshes), DrawSurface
  PROVE  AllAnswered' /\ WeldsAside
<1>1. /\ AtRow("surfaces") /\ row' = row + 1 /\ UNCHANGED <<model, stage>>
 BY DEF DrawSurface, NextRow
<1>2. PICK e : e = model.surfaces[row]
 OBVIOUS
<1>3. e = RowsOf("surfaces")[row] /\ TypesOf("surfaces") = SurfaceTypes
 BY <1>2 DEF RowsOf, TypesOf, SurfaceTypes
<1>4. PICK id : id = e.id
 OBVIOUS
<1>5. \/ ~Taken(e, SurfaceTypes) /\ UNCHANGED outVars
      \/ Taken(e, SurfaceTypes) /\ \E code : Diagnose(id, code)
      \/ Taken(e, SurfaceTypes) /\ \E m : m.id = id /\ Draw(m)
 BY <1>2, <1>4 DEF DrawSurface
<1>6. IsList(meshes) /\ IsList(diagnostics)
 BY DEF MeshesOK, AllAnswered, KindsOK
<1>7. Outcome("surfaces", e) /\ IsList(diagnostics')
 <2>1. CASE ~Taken(e, SurfaceTypes) /\ UNCHANGED outVars
  BY <1>3, <1>6, <2>1, NothingIsTouched DEF Outcome, outVars
 <2>2. ASSUME Taken(e, SurfaceTypes), NEW code, Diagnose(id, code)
       PROVE  Outcome("surfaces", e) /\ IsList(diagnostics')
  BY <1>3, <1>4, <1>6, <2>2, ReportTells DEF Outcome
 <2>3. ASSUME Taken(e, SurfaceTypes), NEW m, m.id = id, Draw(m)
       PROVE  Outcome("surfaces", e) /\ IsList(diagnostics')
  BY <1>3, <1>4, <1>6, <2>3, MeshShapes DEF Draw, Outcome
 <2> QED BY <1>5, <2>1, <2>2, <2>3
<1> QED BY <1>1, <1>3, <1>7, OutcomeAnswers DEF RowStages

LEMMA BoltAnswers ==
  ASSUME model \in NonPartModels, IdsAreKeys(model), row \in Nat \ {0}, AllAnswered,
         MeshesOK(meshes), DrawBolt
  PROVE  AllAnswered' /\ WeldsAside
<1>1. /\ AtRow("bolts") /\ row' = row + 1 /\ UNCHANGED <<model, stage>>
 BY DEF DrawBolt, NextRow
<1>2. PICK e : e = model.bolts[row]
 OBVIOUS
<1>3. e = RowsOf("bolts")[row] /\ TypesOf("bolts") = BoltTypes
 BY <1>1, <1>2 DEF AtRow, RowsOf, TypesOf, BoltTypes
<1>4. PICK id : id = e.id
 OBVIOUS
<1>5. \/ ~Taken(e, BoltTypes) /\ UNCHANGED outVars
      \/ Taken(e, BoltTypes) /\ \E code : Diagnose(id, code)
      \/ Taken(e, BoltTypes) /\ e.axis = "flat" /\ UNCHANGED outVars
      \/ Taken(e, BoltTypes) /\ \E m : m.id = id /\ Draw(m)
 BY <1>2, <1>4 DEF DrawBolt
<1>6. IsList(meshes) /\ IsList(diagnostics)
 BY DEF MeshesOK, AllAnswered, KindsOK
<1>7. Outcome("bolts", e) /\ IsList(diagnostics')
 <2>1. CASE ~Taken(e, BoltTypes) /\ UNCHANGED outVars
  BY <1>3, <1>6, <2>1, NothingIsTouched DEF Outcome, outVars
 <2>2. ASSUME Taken(e, BoltTypes), NEW code, Diagnose(id, code)
       PROVE  Outcome("bolts", e) /\ IsList(diagnostics')
  BY <1>3, <1>4, <1>6, <2>2, ReportTells DEF Outcome
 <2>3. CASE Taken(e, BoltTypes) /\ e.axis = "flat" /\ UNCHANGED outVars
  BY <1>3, <1>6, <2>3, NothingIsTouched DEF Outcome, outVars, MayBeEmpty
 <2>4. ASSUME Taken(e, BoltTypes), NEW m, m.id = id, Draw(m)
       PROVE  Outcome("bolts", e) /\ IsList(diagnostics')
  BY <1>3, <1>4, <1>6, <2>4, MeshShapes DEF Draw, Outcome
 <2> QED BY <1>5, <2>1, <2>2, <2>3, <2>4
<1> QED BY <1>1, <1>3, <1>7, OutcomeAnswers DEF RowStages

\* A row of reinforcement that waits for links is one that is asked for.
BarInv ==
  /\ round # "none" => Taken(Bar, RebarTypes)
  /\ round = "group" => Bar.subtype = "group"

LEMMA BentBarsLine ==
  ASSUME CurvesOK(curves), NEW n \in Nat, NEW m \in Nat, NEW id, NEW p \in Nat,
         curves' = MoreCurves(MoreCurves(curves, n, id, p), m, id, 2),
         UNCHANGED <<meshes, diagnostics>>
  PROVE  Lined(id)
<1>1. PICK c : c = MoreCurves(curves, n, id, p)
 OBVIOUS
<1>2. PICK d : d = MoreCurves(c, m, id, 2)
 OBVIOUS
<1>3. CurvesOK(c)
 BY <1>1, CurvesGrow
<1>4. /\ \A x : x # id => IdsOf(c, x) = IdsOf(curves, x)
      /\ IdsOf(curves, id) \subseteq IdsOf(c, id)
 BY <1>1, IdsOfMoreCurves
<1>5. /\ \A x : x # id => IdsOf(d, x) = IdsOf(c, x)
      /\ IdsOf(c, id) \subseteq IdsOf(d, id)
 BY <1>2, <1>3, IdsOfMoreCurves
<1>6. curves' = d
 BY <1>1, <1>2
<1>7. \A x : CurvesOf(x)' = IdsOf(d, x) /\ MeshOf(x)' = MeshOf(x) /\ Reported(x)' = Reported(x)
 BY <1>6 DEF MeshOf, CurvesOf, Reported, IdsOf
<1> QED BY <1>4, <1>5, <1>7 DEF Lined, OnlyOf, Untouched, CurvesOf

\* A row of reinforcement is left for good with a report or with its bars.
LEMMA BarIsAnswered ==
  ASSUME model \in NonPartModels, IdsAreKeys(model), row \in Nat \ {0}, AllAnswered,
         CurvesOK(curves), AtRow("rebars"), Leave,
         \/ ~Taken(Bar, RebarTypes) /\ UNCHANGED outVars
         \/ Taken(Bar, RebarTypes) /\ \E code : Diagnose(Bar.id, code)
         \/ /\ Taken(Bar, RebarTypes) /\ UNCHANGED <<meshes, diagnostics>>
            /\ \E n, p \in Nat : /\ curves' = MoreCurves(curves, n, Bar.id, p)
                                 /\ n > 0 \/ Bar.subtype # "bar"
         \/ /\ Taken(Bar, RebarTypes) /\ UNCHANGED <<meshes, diagnostics>> /\ Bar.subtype # "bar"
            /\ \E n, m, p \in Nat :
                  curves' = MoreCurves(MoreCurves(curves, n, Bar.id, p), m, Bar.id, 2)
  PROVE  AllAnswered' /\ WeldsAside /\ BarInv'
<1>1. row' = row + 1 /\ UNCHANGED <<model, stage>> /\ round' = "none"
 BY DEF Leave, NextRow
<1>2. PICK e : e = Bar
 OBVIOUS
<1>3. e = RowsOf("rebars")[row] /\ TypesOf("rebars") = RebarTypes
 BY <1>2 DEF RowsOf, TypesOf, RebarTypes, Bar
<1>4. PICK id : id = e.id
 OBVIOUS
<1>5. IsList(diagnostics)
 BY DEF AllAnswered, KindsOK
<1>6. Outcome("rebars", e) /\ IsList(diagnostics')
 <2>1. CASE ~Taken(Bar, RebarTypes) /\ UNCHANGED outVars
  BY <1>2, <1>3, <1>5, <2>1, NothingIsTouched DEF Outcome, outVars
 <2>2. ASSUME Taken(Bar, RebarTypes), NEW code, Diagnose(Bar.id, code)
       PROVE  Outcome("rebars", e) /\ IsList(diagnostics')
  BY <1>2, <1>3, <1>4, <1>5, <2>2, ReportTells DEF Outcome
 <2>3. ASSUME Taken(Bar, RebarTypes), UNCHANGED <<meshes, diagnostics>>, NEW n \in Nat, NEW p \in Nat,
              curves' = MoreCurves(curves, n, Bar.id, p), n > 0 \/ Bar.subtype # "bar"
       PROVE  Outcome("rebars", e) /\ IsList(diagnostics')
  BY <1>2, <1>3, <1>4, <1>5, <2>3, BarsLine DEF Outcome, MayBeEmpty
 <2>4. ASSUME Taken(Bar, RebarTypes), UNCHANGED <<meshes, diagnostics>>, Bar.subtype # "bar",
              NEW n \in Nat, NEW m \in Nat, NEW p \in Nat,
              curves' = MoreCurves(MoreCurves(curves, n, Bar.id, p), m, Bar.id, 2)
       PROVE  Outcome("rebars", e) /\ IsList(diagnostics')
  BY <1>2, <1>3, <1>4, <1>5, <2>4, BentBarsLine DEF Outcome, MayBeEmpty
 <2> QED BY <2>1, <2>2, <2>3, <2>4
<1>7. AllAnswered' /\ WeldsAside
 BY <1>1, <1>3, <1>6, OutcomeAnswers DEF RowStages
<1> QED BY <1>1, <1>7 DEF BarInv

\* While links are asked for nothing is handed out.
LEMMA AskingAnswers ==
  ASSUME AllAnswered, BarInv, AtRow("rebars"),
         \/ AskStep
         \/ \E next, links : /\ AskFor(next, links) /\ Taken(Bar, RebarTypes)
                             /\ next = "group" => Bar.subtype = "group"
  PROVE  AllAnswered' /\ WeldsAside /\ BarInv'
<1>1. UNCHANGED <<model, stage, row, outVars>>
 BY DEF AskStep, AskFor
<1>2. NoneTouched /\ IsList(diagnostics')
 BY <1>1, NothingIsTouched DEF AllAnswered, KindsOK, outVars
<1>3. AllAnswered'
 BY <1>1, <1>2, AsideAnswers
<1>4. WeldsAside
 BY <1>2 DEF WeldsAside, NoneTouched
<1>5. PICK e : e = Bar
 OBVIOUS
<1>6. Bar' = e /\ (Taken(e, RebarTypes)' <=> Taken(e, RebarTypes))
 BY <1>1, <1>5 DEF Bar, Taken, Wanting, RebarTypes
<1>7. /\ round' # "none" => Taken(e, RebarTypes)
      /\ round' = "group" => e.subtype = "group"
 BY <1>5 DEF AskStep, AskFor, BarInv
<1>8. BarInv'
 BY <1>6, <1>7 DEF BarInv
<1> QED BY <1>3, <1>4, <1>8

LEMMA RebarAnswers ==
  ASSUME GeometryInv, PaidInv, RoundOK, IdsAreKeys(model), row \in Nat \ {0}, AllAnswered, BarInv,
         BeginRebar \/ HearPolygon \/ HearSize \/ HearGroup \/ HearMesh \/ HearBentMesh
  PROVE  AllAnswered' /\ WeldsAside /\ BarInv'
<1>1. AtRow("rebars") /\ model \in NonPartModels /\ CurvesOK(curves)
 BY DEF BeginRebar, HearPolygon, HearSize, HearGroup, HearMesh, HearBentMesh, AtRound, GeometryInv,
        Given, PaidInv
<1> DEFINE Done == AllAnswered' /\ WeldsAside /\ BarInv'
<1>2. round # "none" => Taken(Bar, RebarTypes)
 BY DEF BarInv
<1>3. ASSUME NEW code, Report(code), Taken(Bar, RebarTypes) PROVE Done
 BY <1>1, <1>3, BarIsAnswered DEF Report
<1>4. ASSUME NEW n \in Nat, NEW count, NEW p \in Nat, Expand(n, count, p), Taken(Bar, RebarTypes),
             n > 0 \/ Bar.subtype # "bar"
      PROVE  Done
 <2>1. CASE \E code : Report(code)
  BY <1>3, <1>4, <2>1
 <2>2. CASE DrawCurves(Bar.id, n, p) /\ Leave
  BY <1>1, <1>4, <2>2, BarIsAnswered DEF DrawCurves, MoreCurves
 <2> QED BY <1>4, <2>1, <2>2 DEF Expand
<1>5. ASSUME NEW next, NEW links, AskFor(next, links), Taken(Bar, RebarTypes),
             next = "group" => Bar.subtype = "group"
      PROVE  Done
 BY <1>1, <1>5, AskingAnswers
<1> SUFFICES Done
 OBVIOUS
<1> HIDE DEF Done
<1>6. CASE BeginRebar
 <2>1. CASE ~Taken(Bar, RebarTypes)
  BY <1>1, <1>6, <2>1, BarIsAnswered DEF BeginRebar, Done
 <2>2. CASE Taken(Bar, RebarTypes)
  BY <1>3, <1>5, <1>6, <2>2 DEF BeginRebar
 <2> QED BY <2>1, <2>2
<1>7. CASE HearPolygon
 BY <1>2, <1>3, <1>5, <1>7 DEF HearPolygon, AtRound
<1>8. CASE HearSize
 <2>1. round = "size"
  BY <1>8 DEF HearSize, AtRound
 <2>2. \/ \E code : Report(code)
       \/ Bar.subtype = "group" /\ \E links : AskFor("group", links)
       \/ Expand(1, 0, PathPoints)
  BY <1>8, Zenon DEF HearSize
 <2>3. PICK p \in Nat : p = PathPoints
  BY <1>1, <2>1, BarsAreNumbers
 <2>4. Expand(1, 0, PathPoints) => Expand(1, 0, p)
  BY <2>3
 <2> QED BY <1>2, <1>3, <1>4, <1>5, <2>1, <2>2, <2>4
<1>9. CASE HearGroup
 <2>1. round = "group" /\ Bar.subtype # "bar"
  BY <1>9 DEF HearGroup, AtRound, BarInv
 <2>2. PICK p \in Nat : p = PathPoints
  BY <1>1, <2>1, BarsAreNumbers
 <2>3. PICK n \in Nat : n = Len(GroupDistances(Room(PathPoints)).at)
  BY <1>1, BarsAreNumbers
 <2>4. PICK q \in Nat : q = IF Bar.tapered THEN 2 ELSE PathPoints
  BY <2>2
 <2>5. (\E code : Report(code)) \/ Expand(n, n, q)
  BY <1>9, <2>3, <2>4, Zenon DEF HearGroup
 <2> QED BY <1>2, <1>3, <1>4, <2>1, <2>5
<1>10. CASE HearMesh
 <2>1. round = "mesh" /\ Bar.subtype = "mesh"
  BY <1>10 DEF HearMesh, AtRound
 <2>2. PICK n \in Nat : n = Lengthwise + Across
  BY <1>1, BarsAreNumbers
 <2>3. (\E code : Report(code)) \/ Expand(n, n, 2)
  BY <1>10, <2>2, Zenon DEF HearMesh
 <2> QED BY <1>2, <1>3, <1>4, <2>1, <2>3
<1>11. CASE HearBentMesh
 <2>1. round = "mesh" /\ Bar.subtype = "bent_mesh"
  BY <1>11 DEF HearBentMesh, AtRound
 <2>2. PICK p \in Nat, n \in Nat, m \in Nat : p = PathPoints /\ n = Across /\ m = Lengthwise
  BY <1>1, <2>1, BarsAreNumbers
 <2>3. \/ \E code : Report(code)
       \/ /\ UNCHANGED <<meshes, diagnostics>> /\ Leave
          /\ curves' = curves \o [i \in 1..n |-> [id |-> Bar.id, points |-> p]]
                               \o [i \in 1..m |-> [id |-> Bar.id, points |-> 2]]
  BY <1>11, <2>2 DEF HearBentMesh
 <2>4. CASE /\ UNCHANGED <<meshes, diagnostics>> /\ Leave
            /\ curves' = curves \o [i \in 1..n |-> [id |-> Bar.id, points |-> p]]
                                 \o [i \in 1..m |-> [id |-> Bar.id, points |-> 2]]
  BY <1>1, <1>2, <2>1, <2>4, BarIsAnswered DEF MoreCurves, Done
 <2> QED BY <1>2, <1>3, <2>1, <2>3, <2>4
<1> QED BY <1>6, <1>7, <1>8, <1>9, <1>10, <1>11

\* The polygons of the rows to display, those before a row and all of them.
PolygonsBefore(n) ==
  {model.weldRows[r].polygon : r \in {k \in DOMAIN model.weldRows :
                                         Displayable(model.weldRows[k]) /\ k < n}}
Displayed ==
  {model.weldRows[r].polygon : r \in {k \in DOMAIN model.weldRows : Displayable(model.weldRows[k])}}
Seen == DOMAIN kept \cup invalid \cup limited

\* Every polygon of a row to display is kept or refused, and none is forgotten.
SeenInv ==
  /\ IsFiniteSet(invalid) /\ IsFiniteSet(limited)
  /\ \A p \in Seen : Owners(p) # {}
  /\ stage \in {"start", "contours", "surfaces"} => Seen = {}
  /\ stage = "weld_rows" => Seen = PolygonsBefore(row)
  /\ stage \in Later("weld_rows") => Seen = Displayed
  /\ todo \subseteq TodoOf(stage)

LEMMA PolygonsStay ==
  ASSUME model' = model
  PROVE  /\ \A p : Owners(p)' = Owners(p) /\ Owner(p)' = Owner(p)
         /\ \A n : PolygonsBefore(n)' = PolygonsBefore(n)
         /\ Displayed' = Displayed
BY DEF Owners, Owner, Related, Wanting, Displayable, PolygonsBefore, Displayed

LEMMA OthersAreSeen ==
  ASSUME SeenInv, UNCHANGED <<model, stage, kept, invalid, limited>>, todo' \subseteq todo,
         stage = "weld_rows" => row' = row
  PROVE  SeenInv'
<1>1. /\ \A p : Owners(p)' = Owners(p)
      /\ \A n : PolygonsBefore(n)' = PolygonsBefore(n)
      /\ Displayed' = Displayed
 BY PolygonsStay
<1>2. Seen' = Seen /\ TodoOf(stage)' = TodoOf(stage) /\ Later("weld_rows")' = Later("weld_rows")
 BY DEF Seen, TodoOf, Later, Late
<1>3. PICK n : n = row
 OBVIOUS
<1>4. stage = "weld_rows" => PolygonsBefore(row)' = PolygonsBefore(n)'
 BY <1>3 DEF PolygonsBefore
<1> QED BY <1>1, <1>2, <1>3, <1>4 DEF SeenInv

LEMMA RowIsSeen ==
  ASSUME model \in NonPartModels, SeenInv, row \in Nat \ {0}, ReadWeldRow
  PROVE  SeenInv'
<1>1. /\ stage = "weld_rows" /\ row \in DOMAIN model.weldRows
      /\ UNCHANGED <<model, stage, todo>> /\ row' = row + 1
 BY DEF ReadWeldRow, NextRow, AtRow, RowsOf
<1>2. PICK part : part = model.weldRows[row]
 OBVIOUS
<1>3. IF Displayable(part)
      THEN /\ Seen' = Seen \cup {part.polygon}
           /\ invalid' \in {invalid, invalid \cup {part.polygon}}
           /\ limited' \in {limited, limited \cup {part.polygon}}
      ELSE UNCHANGED <<kept, invalid, limited>>
 BY <1>2 DEF ReadWeldRow, Seen
<1>4. PICK n : n = row + 1
 OBVIOUS
<1>5. PolygonsBefore(n) = PolygonsBefore(row) \cup (IF Displayable(part) THEN {part.polygon} ELSE {})
 <2>1. PICK l \in Nat : DOMAIN model.weldRows = 1..l
  BY NonPartAssumption DEF Table
 <2>2. \A k \in 1..l : k < n <=> k < row \/ k = row
  BY <1>4
 <2> DEFINE S == {k \in DOMAIN model.weldRows : Displayable(model.weldRows[k]) /\ k < row}
            T == {k \in DOMAIN model.weldRows : Displayable(model.weldRows[k]) /\ k < n}
 <2>3. T = S \cup (IF Displayable(part) THEN {row} ELSE {})
  BY <1>1, <1>2, <2>1, <2>2
 <2>4. PolygonsBefore(n) = {model.weldRows[r].polygon : r \in T}
       /\ PolygonsBefore(row) = {model.weldRows[r].polygon : r \in S}
  BY DEF PolygonsBefore
 <2> HIDE DEF S, T
 <2> QED BY <1>2, <2>3, <2>4
<1>6. IsFiniteSet(invalid') /\ IsFiniteSet(limited')
 BY <1>3, FS_AddElement DEF SeenInv
<1>7. Seen = PolygonsBefore(row)
 BY <1>1 DEF SeenInv
<1>8. Seen' = PolygonsBefore(n)
 BY <1>3, <1>5, <1>7 DEF Seen
<1>9. PolygonsBefore(n)' = PolygonsBefore(n) /\ \A p : Owners(p)' = Owners(p)
 BY <1>1, PolygonsStay
<1>10. PolygonsBefore(row)' = PolygonsBefore(n)'
 BY <1>1, <1>4 DEF PolygonsBefore
<1>11. \A p \in Seen' : Owners(p)' # {}
 BY <1>3, <1>9 DEF Displayable, Seen, SeenInv
<1>12. todo' \subseteq TodoOf(stage)' /\ stage' \notin Later("weld_rows")
 BY <1>1 DEF SeenInv, TodoOf, Later, Late
<1> QED BY <1>1, <1>6, <1>8, <1>9, <1>10, <1>11, <1>12 DEF SeenInv, Later, Late

LEMMA StageIsSeen ==
  ASSUME model \in NonPartModels, SeenInv, row \in Nat \ {0}, stage \in StageNames, NextStage
  PROVE  SeenInv'
<1>1. /\ stage' = After(stage) /\ stage \in StageNames \ {"done"} /\ ~AtRow(stage) /\ row' = 1
      /\ UNCHANGED <<model, kept, invalid, limited>> /\ todo' = TodoOf(stage')
 BY DEF NextStage, polygonVars
<1>2. /\ \A p : Owners(p)' = Owners(p)
      /\ \A n : PolygonsBefore(n)' = PolygonsBefore(n)
      /\ Displayed' = Displayed /\ Seen' = Seen
 BY <1>1, PolygonsStay DEF Seen
<1>3. PICK n \in Nat : DOMAIN model.weldRows = 1..n
 BY NonPartAssumption DEF Table
<1>4. PolygonsBefore(1) = {}
 BY <1>3 DEF PolygonsBefore
<1>5. stage = "weld_rows" => Seen = Displayed
 <2> SUFFICES ASSUME stage = "weld_rows" PROVE Seen = Displayed
  OBVIOUS
 <2>1. row \notin 1..n
  BY <1>1, <1>3 DEF AtRow, RowsOf
 <2>2. \A k \in 1..n : k < row
  BY <2>1
 <2>3. PolygonsBefore(row) = Displayed
  BY <1>3, <2>2 DEF PolygonsBefore, Displayed
 <2> QED BY <2>3 DEF SeenInv
<1>6. /\ stage \in Later("weld_rows") => stage' \in Later("weld_rows")
      /\ stage = "weld_rows" => stage' \in Later("weld_rows")
      /\ stage \notin Later("weld_rows") /\ stage # "weld_rows" => stage' \notin Later("weld_rows")
 BY <1>1, LaterStages
<1>7. stage' \in Later("weld_rows") => Seen' = Displayed'
 BY <1>2, <1>5, <1>6 DEF SeenInv
<1>8. /\ stage' = "weld_rows" => stage = "surfaces"
      /\ stage' \in {"start", "contours", "surfaces"} => stage \in {"start", "contours", "surfaces"}
 BY <1>1, StagesFollow
<1>9. stage' = "weld_rows" => Seen' = PolygonsBefore(row)'
 <2>1. PolygonsBefore(row)' = PolygonsBefore(1)'
  BY <1>1 DEF PolygonsBefore
 <2> QED BY <1>2, <1>4, <1>8, <2>1 DEF SeenInv
<1>10. stage' \in {"start", "contours", "surfaces"} => Seen' = {}
 BY <1>2, <1>8 DEF SeenInv
<1>11. todo' \subseteq TodoOf(stage)'
 BY <1>1 DEF TodoOf
<1>12. IsFiniteSet(invalid') /\ IsFiniteSet(limited') /\ \A p \in Seen' : Owners(p)' # {}
 BY <1>1, <1>2 DEF SeenInv
<1>13. Later("weld_rows")' = Later("weld_rows")
 BY DEF Later, Late
<1> QED BY <1>7, <1>9, <1>10, <1>11, <1>12, <1>13 DEF SeenInv

\* The polygons gone through, those of a weld among them, and how often they count.
WeldStages == {"welds", "invalid_welds", "limited_welds"}
Gone(s) == IF stage \in Later(s) THEN TodoOf(s) ELSE IF stage = s THEN TodoOf(s) \ todo ELSE {}
OfOwner(S, id) == {p \in S : Owner(p) = id}
GoneOf(s, id) == Cardinality(OfOwner(Gone(s), id))
Gained(id) == Cardinality(SweepsOf(id)) + Cardinality(Reported(id))
CountOf(id) ==
  /\ IsFiniteSet(SweepsOf(id)) /\ IsFiniteSet(Reported(id))
  /\ Gained(id) = GoneOf("welds", id) + GoneOf("invalid_welds", id) + GoneOf("limited_welds", id)

\* Every polygon gone through gave its weld a sweep or a report.
CountInv ==
  /\ IsFiniteSet(DOMAIN kept) /\ IsFiniteSet(invalid) /\ IsFiniteSet(limited)
  /\ \A id : Wanting(id, {"weld"}) => CountOf(id)

SameSweeps == \A i \in DOMAIN meshes : meshes'[i] = meshes[i]
SweepPolygons(e) == {e.sweeps[j].polygon : j \in DOMAIN e.sweeps}

SweptOf(m, id) == UNION {SweepPolygons(m[i]) : i \in IdsOf(m, id)}

\* A polygon is swept for the element of the mesh it is in.
LEMMA SweptMembers ==
  \A m, id, p : p \in SweptOf(m, id) <=> \E i \in DOMAIN m : m[i].id = id /\ p \in SweepPolygons(m[i])
BY DEF SweptOf, IdsOf

LEMMA SweepsAreSwept == \A id : SweepsOf(id) = SweptOf(meshes, id)
BY DEF SweepsOf, SweptOf, SweepPolygons, IdsOf, MeshOf

\* Who has the meshes he had has the sweeps he had.
LEMMA SweepsStay ==
  ASSUME SameSweeps, NEW id, MeshOf(id)' = MeshOf(id)
  PROVE  SweepsOf(id)' = SweepsOf(id)
<1>1. PICK M : M = MeshOf(id)
 OBVIOUS
<1>2. \A i \in M : i \in DOMAIN meshes
 BY <1>1 DEF MeshOf
<1>3. \A i \in M : meshes'[i] = meshes[i]
 BY <1>2 DEF SameSweeps
<1>4. \A i \in M : SweepPolygons(meshes'[i]) = SweepPolygons(meshes[i])
 BY <1>3
<1>5. /\ SweepsOf(id)' = UNION {SweepPolygons(meshes'[i]) : i \in M}
      /\ SweepsOf(id) = UNION {SweepPolygons(meshes[i]) : i \in M}
 BY <1>1 DEF SweepsOf, SweepPolygons
<1>6. {SweepPolygons(meshes'[i]) : i \in M} = {SweepPolygons(meshes[i]) : i \in M}
 BY <1>4
<1> QED BY <1>5, <1>6

\* Nothing is handed out for a weld and no polygon is gone through.
LEMMA CountStays ==
  ASSUME CountInv, model' = model, SameSweeps, WeldsAside,
         IsFiniteSet(DOMAIN kept'), IsFiniteSet(invalid'), IsFiniteSet(limited'),
         \A s \in WeldStages : Gone(s)' = Gone(s)
  PROVE  CountInv'
<1>1. \A id : Wanting(id, {"weld"})' <=> Wanting(id, {"weld"})
 BY DEF Wanting
<1>2. \A p : Owner(p)' = Owner(p)
 BY PolygonsStay
<1>3. \A s \in WeldStages : \A id : OfOwner(Gone(s), id)' = OfOwner(Gone(s), id)
 BY <1>2 DEF OfOwner
<1>4. \A s \in WeldStages : \A id : GoneOf(s, id)' = GoneOf(s, id)
 BY <1>3 DEF GoneOf
<1>5. ASSUME NEW id, Wanting(id, {"weld"}) PROVE CountOf(id)'
 <2>1. Untouched(id)
  BY <1>5 DEF WeldsAside
 <2>2. Reported(id)' = Reported(id) /\ SweepsOf(id)' = SweepsOf(id)
  BY <2>1, SweepsStay DEF Untouched
 <2>3. Gained(id)' = Gained(id)
  BY <2>2 DEF Gained
 <2>4. CountOf(id)
  BY <1>5 DEF CountInv
 <2>5. /\ GoneOf("welds", id)' = GoneOf("welds", id)
       /\ GoneOf("invalid_welds", id)' = GoneOf("invalid_welds", id)
       /\ GoneOf("limited_welds", id)' = GoneOf("limited_welds", id)
  BY <1>4 DEF WeldStages
 <2> QED BY <2>2, <2>3, <2>4, <2>5 DEF CountOf
<1> QED BY <1>1, <1>5 DEF CountInv

\* A polygon is gone through, and its weld gains a sweep or a report.
LEMMA CountGrows ==
  ASSUME CountInv, model' = model, UNCHANGED <<kept, invalid, limited>>,
         NEW s \in WeldStages, NEW polygon, polygon \notin Gone(s),
         Gone(s)' = Gone(s) \cup {polygon}, \A t \in WeldStages : t # s => Gone(t)' = Gone(t),
         NEW weld, weld = Owner(polygon), Wanting(weld, {"weld"}),
         \A x : x # weld => SweepsOf(x)' = SweepsOf(x) /\ Reported(x)' = Reported(x),
         \/ /\ SweepsOf(weld)' = SweepsOf(weld)
            /\ \E n : n \notin Reported(weld) /\ Reported(weld)' = Reported(weld) \cup {n}
         \/ /\ Reported(weld)' = Reported(weld)
            /\ polygon \notin SweepsOf(weld) /\ SweepsOf(weld)' = SweepsOf(weld) \cup {polygon}
  PROVE  CountInv'
<1>1. \A id : Wanting(id, {"weld"})' <=> Wanting(id, {"weld"})
 BY DEF Wanting
<1>2. \A p : Owner(p)' = Owner(p)
 BY PolygonsStay
<1>3. \A t, id : IsFiniteSet(OfOwner(Gone(t), id)) /\ GoneOf(t, id) \in Nat
 <2> SUFFICES ASSUME NEW t, NEW id PROVE IsFiniteSet(OfOwner(Gone(t), id)) /\ GoneOf(t, id) \in Nat
  OBVIOUS
 <2>1. Gone(t) \subseteq DOMAIN kept \cup invalid \cup limited
  BY DEF Gone, TodoOf
 <2>2. IsFiniteSet(DOMAIN kept \cup invalid \cup limited)
  BY FS_Union DEF CountInv
 <2>3. OfOwner(Gone(t), id) \subseteq DOMAIN kept \cup invalid \cup limited
  BY <2>1 DEF OfOwner
 <2>4. IsFiniteSet(OfOwner(Gone(t), id))
  BY <2>2, <2>3, FS_Subset
 <2> QED BY <2>4, FS_CardinalityType DEF GoneOf
<1>4. \A t \in WeldStages : \A id : t # s => GoneOf(t, id)' = GoneOf(t, id)
 BY <1>2 DEF OfOwner, GoneOf
<1>5. \A id : id # weld => GoneOf(s, id)' = GoneOf(s, id)
 BY <1>2 DEF OfOwner, GoneOf
<1>6. GoneOf(s, weld)' = GoneOf(s, weld) + 1
 <2>1. PICK G : G = OfOwner(Gone(s), weld)
  OBVIOUS
 <2>2. OfOwner(Gone(s), weld)' = G \cup {polygon} /\ polygon \notin G
  BY <1>2, <2>1 DEF OfOwner
 <2>3. IsFiniteSet(G) /\ GoneOf(s, weld) = Cardinality(G)
  BY <1>3, <2>1 DEF GoneOf
 <2>4. Cardinality(G \cup {polygon}) = Cardinality(G) + 1
  BY <2>2, <2>3, FS_AddElement
 <2> QED BY <2>2, <2>3, <2>4 DEF GoneOf
<1>7. ASSUME NEW id, Wanting(id, {"weld"}), id # weld PROVE CountOf(id)'
 <2>1. CountOf(id) /\ SweepsOf(id)' = SweepsOf(id) /\ Reported(id)' = Reported(id)
  BY <1>7 DEF CountInv
 <2>2. Gained(id)' = Gained(id)
  BY <2>1 DEF Gained
 <2>3. \A t \in WeldStages : GoneOf(t, id)' = GoneOf(t, id)
  BY <1>4, <1>5, <1>7
 <2>4. /\ GoneOf("welds", id)' = GoneOf("welds", id)
       /\ GoneOf("invalid_welds", id)' = GoneOf("invalid_welds", id)
       /\ GoneOf("limited_welds", id)' = GoneOf("limited_welds", id)
  BY <2>3 DEF WeldStages
 <2> QED BY <2>1, <2>2, <2>4 DEF CountOf
<1>8. CountOf(weld)'
 <2>1. CountOf(weld)
  BY DEF CountInv
 <2>2. PICK S, R : S = SweepsOf(weld) /\ R = Reported(weld)
  OBVIOUS
 <2>3. IsFiniteSet(S) /\ IsFiniteSet(R) /\ Cardinality(S) \in Nat /\ Cardinality(R) \in Nat
  BY <2>1, <2>2, FS_CardinalityType DEF CountOf
 <2>4. /\ IsFiniteSet(SweepsOf(weld)') /\ IsFiniteSet(Reported(weld)')
       /\ Gained(weld)' = Gained(weld) + 1
  <3>1. ASSUME SweepsOf(weld)' = SweepsOf(weld), NEW n, n \notin Reported(weld),
               Reported(weld)' = Reported(weld) \cup {n}
        PROVE  /\ IsFiniteSet(SweepsOf(weld)') /\ IsFiniteSet(Reported(weld)')
               /\ Gained(weld)' = Gained(weld) + 1
   <4>1. IsFiniteSet(R \cup {n}) /\ Cardinality(R \cup {n}) = Cardinality(R) + 1
    BY <2>2, <2>3, <3>1, FS_AddElement
   <4> QED BY <2>2, <2>3, <3>1, <4>1 DEF Gained
  <3>2. CASE /\ Reported(weld)' = Reported(weld)
             /\ polygon \notin SweepsOf(weld) /\ SweepsOf(weld)' = SweepsOf(weld) \cup {polygon}
   <4>1. IsFiniteSet(S \cup {polygon}) /\ Cardinality(S \cup {polygon}) = Cardinality(S) + 1
    BY <2>2, <2>3, <3>2, FS_AddElement
   <4> QED BY <2>2, <2>3, <3>2, <4>1 DEF Gained
  <3> QED BY <3>1, <3>2
 <2>5. PICK a \in Nat, b \in Nat, c \in Nat :
           a = GoneOf("welds", weld) /\ b = GoneOf("invalid_welds", weld) /\ c = GoneOf("limited_welds", weld)
  BY <1>3
 <2>6. \/ GoneOf("welds", weld)' = a + 1 /\ GoneOf("invalid_welds", weld)' = b
          /\ GoneOf("limited_welds", weld)' = c
       \/ GoneOf("welds", weld)' = a /\ GoneOf("invalid_welds", weld)' = b + 1
          /\ GoneOf("limited_welds", weld)' = c
       \/ GoneOf("welds", weld)' = a /\ GoneOf("invalid_welds", weld)' = b
          /\ GoneOf("limited_welds", weld)' = c + 1
  BY <1>4, <1>6, <2>5 DEF WeldStages
 <2>7. Gained(weld) = a + b + c
  BY <2>1, <2>5 DEF CountOf
 <2>8. Gained(weld)' = GoneOf("welds", weld)' + GoneOf("invalid_welds", weld)' + GoneOf("limited_welds", weld)'
  BY <2>4, <2>6, <2>7
 <2> QED BY <2>4, <2>8 DEF CountOf
<1>9. \A id : Wanting(id, {"weld"})' => CountOf(id)'
 BY <1>1, <1>7, <1>8
<1> QED BY <1>9 DEF CountInv

\* What is gone through changes when a polygon is.
LEMMA OthersKeepGone ==
  ASSUME UNCHANGED <<stage, todo, kept, invalid, limited>>
  PROVE  \A s \in WeldStages : Gone(s)' = Gone(s)
BY DEF TodoOf, Later, Late, Gone

\* All polygons of a stage are gone through when it is left, and none when it is entered.
LEMMA StageKeepsGone ==
  ASSUME stage \in StageNames, NextStage
  PROVE  \A s \in WeldStages : Gone(s)' = Gone(s)
<1>1. /\ stage' = After(stage) /\ stage \in StageNames \ {"done"} /\ todo = {}
      /\ UNCHANGED <<kept, invalid, limited>> /\ todo' = TodoOf(stage')
 BY DEF NextStage, polygonVars
<1>2. \A s : TodoOf(s)' = TodoOf(s) /\ Later(s)' = Later(s)
 BY <1>1 DEF TodoOf, Later, Late
<1>3. ASSUME NEW s \in WeldStages PROVE Gone(s)' = Gone(s)
 <2>1. /\ stage \in Later(s) => stage' \in Later(s)
       /\ stage = s => stage' \in Later(s)
       /\ stage \notin Later(s) /\ stage # s => stage' \notin Later(s)
       /\ s \notin Later(s)
  BY <1>1, LaterStages DEF WeldStages
 <2>2. PICK T : T = TodoOf(s)
  OBVIOUS
 <2>3. Gone(s) = IF stage \in Later(s) THEN T ELSE IF stage = s THEN T ELSE {}
  BY <1>1, <2>2 DEF Gone
 <2>4. Gone(s)' = IF stage' \in Later(s) THEN T ELSE IF stage' = s THEN T \ todo' ELSE {}
  BY <1>2, <2>2 DEF Gone
 <2>5. stage' = s => T \ todo' = {}
  BY <1>1, <2>2
 <2> QED BY <2>1, <2>3, <2>4, <2>5
<1> QED BY <1>3

\* One polygon more.
LEMMA PolygonIsGone ==
  ASSUME SeenInv, stage \in WeldStages, UNCHANGED <<stage, kept, invalid, limited>>,
         NEW polygon \in todo, todo' = todo \ {polygon}
  PROVE  /\ polygon \notin Gone(stage) /\ Gone(stage)' = Gone(stage) \cup {polygon}
         /\ \A t \in WeldStages : t # stage => Gone(t)' = Gone(t)
<1>1. \A s : TodoOf(s)' = TodoOf(s) /\ Later(s)' = Later(s)
 BY DEF TodoOf, Later, Late
<1>2. stage \notin Later(stage)
 BY DEF WeldStages, Later, Late
<1>3. PICK T, s : T = TodoOf(stage) /\ s = stage
 OBVIOUS
<1>4. todo \subseteq T
 BY <1>3 DEF SeenInv
<1>5. Gone(s) = T \ todo /\ Gone(s)' = T \ todo'
 BY <1>1, <1>2, <1>3 DEF Gone
<1>6. Gone(stage)' = Gone(s)'
 BY <1>3 DEF Gone
<1>7. T \ todo' = (T \ todo) \cup {polygon} /\ polygon \notin T \ todo
 BY <1>4
<1>8. \A t \in WeldStages : t # stage => Gone(t)' = Gone(t)
 BY <1>1 DEF Gone
<1> QED BY <1>3, <1>5, <1>6, <1>7, <1>8

\* Before the welds none is gone through.
LEMMA NoneIsGone ==
  stage = "weld_rows" \/ stage = "start" => \A s \in WeldStages : Gone(s) = {}
BY DEF WeldStages, Gone, Later, Late

\* Rows that are no rows of welds.
LEMMA RowsKeepCount ==
  ASSUME SeenInv, CountInv, UNCHANGED <<model, stage, todo, kept, invalid, limited>>,
         stage = "weld_rows" => row' = row, SameSweeps, WeldsAside
  PROVE  SeenInv' /\ CountInv'
BY OthersAreSeen, OthersKeepGone, CountStays DEF CountInv

LEMMA MeshesAreAdded ==
  ASSUME MeshesOK(meshes), meshes' = meshes \/ \E e : meshes' = Append(meshes, e)
  PROVE  SameSweeps
<1>1. CASE meshes' = meshes
 BY <1>1 DEF SameSweeps
<1>2. ASSUME NEW e, meshes' = Append(meshes, e) PROVE SameSweeps
 <2>1. PICK t : t = Append(meshes, e)
  OBVIOUS
 <2>2. Longer(t, meshes, 1, e) /\ DOMAIN meshes = 1..Len(meshes)
  BY <2>1, ListAppends, ListFacts DEF MeshesOK
 <2> QED BY <1>2, <2>1, <2>2 DEF Longer, SameSweeps
<1> QED BY <1>1, <1>2

\* Elements, the bar under way, polygons and their count.
AnswersInv == AllAnswered /\ BarInv /\ SeenInv /\ CountInv

\* Rows other than those of reinforcement: no bar is asked for.
LEMMA NoBarIsAsked ==
  ASSUME RoundOK, ~AtRow("rebars"), round' = round
  PROVE  BarInv'
BY DEF RoundOK, BarInv

\* A weld is told of a polygon that cannot be drawn.
LEMMA PolygonIsTold ==
  ASSUME AnswersInv, RoundOK, model \in NonPartModels, stage \in WeldStages, NEW polygon \in todo,
         \E code : Diagnose(Owner(polygon), code), todo' = todo \ {polygon},
         UNCHANGED <<model, stage, row, round, kept, invalid, limited>>
  PROVE  AnswersInv'
<1>1. PICK weld, code : weld = Owner(polygon) /\ Diagnose(weld, code)
 OBVIOUS
<1>2. Wanting(weld, {"weld"})
 <2>1. polygon \in Seen
  BY DEF AnswersInv, SeenInv, TodoOf, WeldStages, Seen
 <2>2. Owners(polygon) # {}
  BY <2>1 DEF AnswersInv, SeenInv
 <2> QED BY <1>1, <2>2, OwnerIsWeld DEF Wanting
<1>3. Told(weld) /\ IsList(diagnostics')
 BY <1>1, ReportTells DEF AnswersInv, AllAnswered, KindsOK
<1>4. AllAnswered'
 BY <1>2, <1>3, AsideAnswers DEF Wanting, AnswersInv
<1>5. BarInv'
 BY NoBarIsAsked DEF AtRow, WeldStages
<1>6. SeenInv'
 BY OthersAreSeen DEF AnswersInv
<1>7. CountInv'
 <2>1. SameSweeps
  BY <1>1 DEF Diagnose, SameSweeps
 <2>2. \A x : SweepsOf(x)' = SweepsOf(x)
  BY <1>3, <2>1, SweepsStay DEF Told, OnlyOf, Untouched
 <2>3. PICK s \in WeldStages : s = stage
  OBVIOUS
 <2>4. /\ polygon \notin Gone(s) /\ Gone(s)' = Gone(s) \cup {polygon}
       /\ \A t \in WeldStages : t # s => Gone(t)' = Gone(t)
  BY <2>3, PolygonIsGone DEF AnswersInv, Gone
 <2>5. \A x : x # weld => Reported(x)' = Reported(x)
  BY <1>3 DEF Told, OnlyOf, Untouched
 <2>6. \E n : n \notin Reported(weld) /\ Reported(weld)' = Reported(weld) \cup {n}
  BY <1>3 DEF Told
 <2>7. CountInv
  BY DEF AnswersInv
 <2> HIDE DEF CountInv
 <2> QED BY <1>1, <1>2, <2>2, <2>4, <2>5, <2>6, <2>7, CountGrows
<1> QED BY <1>4, <1>5, <1>6, <1>7 DEF AnswersInv

\* A mesh has a sweep more, and the polygon of that.
LEMMA SweptPolygons ==
  ASSUME NEW polygon, NEW e, IsMesh(e), IsList(e.sweeps), PartsOK(kept[polygon]),
         ~(Values(kept[polygon]) < 4)
  PROVE  SweepPolygons(Swept(e, polygon)) = SweepPolygons(e) \cup {polygon}
<1>1. PICK s, w, old, more : /\ s = SweepAlong(e, polygon) /\ w = Swept(e, polygon) /\ old = e.sweeps
                             /\ more = Append(old, s)
 OBVIOUS
<1>2. w.sweeps = more /\ s.polygon = polygon
 BY <1>1, SweptIsMesh DEF SweepAlong
<1>3. IsList(old) /\ Longer(more, old, 1, s)
 BY <1>1, ListAppends
<1>4. PICK n \in Nat : n = Len(old) /\ DOMAIN old = 1..n
 BY <1>3, ListFacts
<1>5. /\ DOMAIN more = 1..n + 1 /\ \A i \in 1..n : more[i] = old[i]
      /\ \A i \in 1..n + 1 : i > n => more[i] = s
 BY <1>3, <1>4 DEF Longer
<1>6. \A i : i \in 1..n + 1 <=> i \in 1..n \/ i = n + 1
 BY <1>4
<1>7. more[n + 1] = s
 BY <1>4, <1>5
<1>8. SweepPolygons(w) = {more[j].polygon : j \in 1..n + 1} /\ SweepPolygons(e) = {old[j].polygon : j \in 1..n}
 BY <1>1, <1>2, <1>4, <1>5 DEF SweepPolygons
<1>9. {more[j].polygon : j \in 1..n + 1} = {old[j].polygon : j \in 1..n} \cup {polygon}
 BY <1>2, <1>5, <1>6, <1>7
<1> QED BY <1>1, <1>8, <1>9

\* The seam along a polygon is drawn: its weld has one sweep more.
LEMMA PolygonIsDrawn ==
  ASSUME GeometryInv, PaidInv, RoundOK, WeldsInv, AnswersInv, NEW polygon \in todo, DrawWeld(polygon)
  PROVE  AnswersInv'
<1>1. /\ stage = "welds" /\ UNCHANGED <<model, stage, row, round, kept, limited, invalid>>
      /\ todo' = todo \ {polygon} /\ model \in NonPartModels
 BY DEF DrawWeld, polygonVars, GeometryInv, Given
<1>2. CASE WeldProblem(polygon) # "none"
 BY <1>1, <1>2, PolygonIsTold DEF DrawWeld, WeldStages
<1>3. CASE WeldProblem(polygon) = "none"
 <2>1. PICK m, weld : m = meshes' /\ weld = Owner(polygon)
  OBVIOUS
 <2>2. ~(Values(kept[polygon]) < 4)
  BY <1>3 DEF WeldProblem
 <2>3. PartsOK(kept[polygon]) /\ Owners(polygon) # {}
  BY <1>1 DEF PaidInv, KeptOK
 <2>4. Wanting(weld, {"weld"}) /\ model.types[weld] = "weld"
  BY <1>1, <2>1, <2>3, OwnerIsWeld DEF Wanting
 <2>5. MeshesOK(meshes) /\ WeldsOnce(model.types, meshes) /\ SweepsBefore(meshes, todo)
  BY <1>1 DEF PaidInv, WeldsInv
 <2>6. polygon \notin SweepsOf(weld)
  BY <2>5, SweepsAreSwept, SweptMembers DEF SweepsBefore, SweepPolygons
 <2>7. /\ IsList(diagnostics') /\ diagnostics' = diagnostics /\ curves' = curves
       /\ NoneTouched \/ Shaped(weld)
       /\ \A x : x # weld => SweepsOf(x)' = SweepsOf(x)
       /\ SweepsOf(weld)' = SweepsOf(weld) \cup {polygon}
  <3>0. diagnostics' = diagnostics /\ curves' = curves /\ IsList(diagnostics)
   BY <1>3 DEF DrawWeld, Draw, AnswersInv, AllAnswered, KindsOK
  <3>1. CASE MeshOf(weld) = {}
   <4>1. PICK new, e : new = NewMesh(weld) /\ e = Swept(new, polygon)
    OBVIOUS
   <4>2. Draw(e) /\ m = Append(meshes, e)
    BY <1>3, <2>1, <3>1, <4>1 DEF DrawWeld, Draw
   <4>3. IsMesh(new) /\ new.id = weld /\ new.sweeps = <<>>
    BY <4>1 DEF NewMesh, IsMesh
   <4>4. IsList(new.sweeps) /\ SweepPolygons(new) = {}
    <5>1. PICK none : none = <<>>
     OBVIOUS
    <5>2. none \in Seq({}) /\ DOMAIN none = {}
     BY <5>1
    <5> QED BY <4>3, <5>1, <5>2, ListOf DEF SweepPolygons
   <4>5. e.id = weld
    BY <2>2, <2>3, <4>1, <4>3, SweptIsMesh
   <4>6. SweepPolygons(e) = {polygon}
    BY <2>2, <2>3, <4>1, <4>3, <4>4, SweptPolygons
   <4>7. Shaped(weld)
    BY <2>5, <4>2, <4>5, MeshShapes DEF MeshesOK
   <4>8. SameSweeps
    BY <2>1, <2>5, <4>2, MeshesAreAdded
   <4>9. \A x : x # weld => SweepsOf(x)' = SweepsOf(x)
    BY <4>7, <4>8, SweepsStay DEF Shaped, OnlyOf, Untouched
   <4>10. \A i \in DOMAIN m : m[i] = e \/ (i \in DOMAIN meshes /\ m[i] = meshes[i])
    BY <2>5, <4>2, AppendedOrThere DEF MeshesOK
   <4>11. \A i \in DOMAIN meshes : meshes[i].id # weld
    BY <3>1 DEF MeshOf
   <4>12. SweepsOf(weld) = {}
    BY <4>11, SweepsAreSwept, SweptMembers
   <4>13. SweepsOf(weld)' = SweptOf(m, weld)
    BY <2>1 DEF SweepsOf, SweptOf, SweepPolygons, IdsOf, MeshOf
   <4>14. \E i \in DOMAIN m : m[i].id = weld
    BY <2>1, <4>7 DEF Shaped, MeshOf
   <4>15. \A p : p \in SweptOf(m, weld) <=> p = polygon
    BY <4>6, <4>10, <4>11, <4>14, SweptMembers
   <4>16. SweptOf(m, weld) = {polygon}
    BY <4>15
   <4> QED BY <3>0, <4>7, <4>9, <4>12, <4>13, <4>16
  <3>2. CASE MeshOf(weld) # {}
   <4>1. PICK k \in DOMAIN meshes : meshes[k].id = weld
    BY <3>2 DEF MeshOf
   <4>2. \A i \in DOMAIN meshes : meshes[i].id = weld => i = k
    BY <2>4, <2>5, <4>1 DEF WeldsOnce
   <4>3. PICK e : e = Swept(meshes[k], polygon)
    OBVIOUS
   <4>4. m = [i \in DOMAIN meshes |-> IF i \in MeshOf(weld) THEN Swept(meshes[i], polygon)
                                      ELSE meshes[i]]
    BY <1>3, <2>1, <3>2 DEF DrawWeld
   <4>5. MeshOf(weld) = {k}
    BY <4>1, <4>2 DEF MeshOf
   <4>6. /\ DOMAIN m = DOMAIN meshes /\ m[k] = e
         /\ \A i \in DOMAIN meshes : i # k => m[i] = meshes[i]
    BY <4>1, <4>3, <4>4, <4>5
   <4>7. IsMesh(meshes[k]) /\ IsList(meshes[k].sweeps)
    BY <2>5, <4>1 DEF MeshesOK, WeldsInv, WeldMesh
   <4>8. e.id = weld
    BY <2>2, <2>3, <4>1, <4>3, <4>7, SweptIsMesh
   <4>9. SweepPolygons(e) = SweepPolygons(meshes[k]) \cup {polygon}
    BY <2>2, <2>3, <4>3, <4>7, SweptPolygons
   <4>10. \A i \in DOMAIN meshes : m[i].id = meshes[i].id
    BY <4>1, <4>6, <4>8
   <4>11. \A x : IdsOf(m, x) = IdsOf(meshes, x)
    BY <4>6, <4>10 DEF IdsOf
   <4>12. NoneTouched
    BY <2>1, <3>0, <4>11 DEF MeshOf, IdsOf, CurvesOf, Reported, NoneTouched, Untouched
   <4>13. \A x : SweepsOf(x)' = SweptOf(m, x) /\ SweepsOf(x) = SweptOf(meshes, x)
    BY <2>1 DEF SweepsOf, SweptOf, SweepPolygons, IdsOf, MeshOf
   <4>14. ASSUME NEW x, x # weld PROVE SweptOf(m, x) = SweptOf(meshes, x)
    <5>1. \A i \in DOMAIN meshes : meshes[i].id = x => m[i] = meshes[i]
     BY <4>1, <4>6, <4>14
    <5>2. \A p : p \in SweptOf(m, x) <=> p \in SweptOf(meshes, x)
     BY <4>6, <4>10, <5>1, SweptMembers
    <5> QED BY <5>2
   <4>15. SweptOf(m, weld) = SweptOf(meshes, weld) \cup {polygon}
    BY <4>1, <4>2, <4>6, <4>9, <4>10, SweptMembers
   <4> QED BY <3>0, <4>12, <4>13, <4>14, <4>15
  <3> QED BY <3>1, <3>2
 <2>8. AllAnswered'
  BY <1>1, <2>4, <2>7, AsideAnswers DEF RowStages, AnswersInv
 <2>9. BarInv'
  BY <1>1, NoBarIsAsked DEF AtRow
 <2>10. SeenInv'
  BY <1>1, OthersAreSeen DEF AnswersInv
 <2>11. CountInv'
  <3>1. \A x : Reported(x)' = Reported(x)
   BY <2>7 DEF Reported
  <3>2. PICK s \in WeldStages : s = "welds"
   BY DEF WeldStages
  <3>3. /\ polygon \notin Gone(s) /\ Gone(s)' = Gone(s) \cup {polygon}
        /\ \A t \in WeldStages : t # s => Gone(t)' = Gone(t)
   BY <1>1, <3>2, PolygonIsGone DEF AnswersInv, WeldStages, Gone
  <3>4. CountInv
   BY DEF AnswersInv
  <3> HIDE DEF CountInv
  <3> QED BY <1>1, <2>1, <2>4, <2>6, <2>7, <3>1, <3>3, <3>4, CountGrows
 <2> QED BY <2>8, <2>9, <2>10, <2>11 DEF AnswersInv
<1> QED BY <1>2, <1>3

\* A row of a contour, of a weld or of a grid.
LEMMA QuietRowAnswers ==
  ASSUME AnswersInv, RoundOK, UNCHANGED outVars,
         UNCHANGED <<model, stage, todo, round, kept, invalid, limited>>,
         stage \notin RowStages \cup {"weld_rows"} \/ row' = row,
         ~AtRow("rebars") \/ row' = row
  PROVE  AnswersInv'
<1>1. NoneTouched /\ IsList(diagnostics') /\ SameSweeps /\ WeldsAside
 BY NothingIsTouched DEF outVars, AnswersInv, AllAnswered, KindsOK, SameSweeps, NoneTouched, WeldsAside
<1>2. AllAnswered'
 BY <1>1, AsideAnswers DEF AnswersInv
<1>3. SeenInv' /\ CountInv'
 BY <1>1, RowsKeepCount DEF AnswersInv
<1>4. BarInv'
 <2>1. CASE ~AtRow("rebars")
  BY <2>1, NoBarIsAsked
 <2>2. CASE row' = row
  <3>1. PICK e : e = Bar
   OBVIOUS
  <3>2. Bar' = e /\ (Taken(e, RebarTypes)' <=> Taken(e, RebarTypes))
   BY <2>2, <3>1 DEF Bar, Taken, Wanting, RebarTypes
  <3>3. (round # "none" => Taken(e, RebarTypes)) /\ (round = "group" => e.subtype = "group")
   BY <3>1 DEF AnswersInv, BarInv
  <3> QED BY <3>2, <3>3 DEF BarInv
 <2> QED BY <2>1, <2>2
<1> QED BY <1>2, <1>3, <1>4 DEF AnswersInv

\* A line of a grid, or a report of the grid.
LEMMA GridAnswers ==
  ASSUME AnswersInv, RoundOK, CurvesOK(curves), DrawGrid
  PROVE  AnswersInv'
<1>1. /\ stage = "grids" /\ ~AtRow("rebars") /\ UNCHANGED <<model, stage, todo, round, kept, invalid, limited>>
 BY DEF DrawGrid, AtRow, NextRow, polygonVars
<1>2. PICK id : id = model.relations[row].from
 OBVIOUS
<1>3. \/ UNCHANGED outVars
      \/ Wanting(id, {"grid"}) /\ Diagnose(id, "resource_limit")
      \/ Wanting(id, {"grid"}) /\ DrawCurves(id, 1, 2)
 BY <1>2 DEF DrawGrid, GridLine
<1>4. stage \notin RowStages \cup {"weld_rows"}
 BY <1>1 DEF RowStages
<1>5. CASE UNCHANGED outVars
 BY <1>1, <1>4, <1>5, QuietRowAnswers
<1>6. CASE Wanting(id, {"grid"}) /\ (Diagnose(id, "resource_limit") \/ DrawCurves(id, 1, 2))
 <2>1. IsList(diagnostics) /\ meshes' = meshes
  BY <1>6 DEF AnswersInv, AllAnswered, KindsOK, Diagnose, DrawCurves
 <2>2. (Told(id) \/ Lined(id)) /\ IsList(diagnostics')
  <3>1. CASE Diagnose(id, "resource_limit")
   BY <2>1, <3>1, ReportTells
  <3>2. CASE DrawCurves(id, 1, 2)
   <4>1. curves' = MoreCurves(curves, 1, id, 2) /\ UNCHANGED <<meshes, diagnostics>>
    BY <3>2 DEF DrawCurves, MoreCurves
   <4>2. Lined(id)
    BY <4>1, BarsLine
   <4> QED BY <2>1, <4>1, <4>2
  <3> QED BY <1>6, <3>1, <3>2
 <2>3. Wanting(id, {"weld", "grid"})
  BY <1>6 DEF Wanting
 <2>4. AllAnswered'
  BY <1>1, <1>4, <1>6, <2>2, <2>3, AsideAnswers DEF AnswersInv
 <2>5. WeldsAside
  BY <1>6, <2>2 DEF Wanting, WeldsAside, Told, Lined, OnlyOf
 <2>6. SameSweeps
  BY <2>1 DEF SameSweeps
 <2>7. SeenInv' /\ CountInv'
  BY <1>1, <1>4, <2>5, <2>6, RowsKeepCount DEF AnswersInv
 <2>8. BarInv'
  BY <1>1, NoBarIsAsked
 <2> QED BY <2>4, <2>7, <2>8 DEF AnswersInv
<1> QED BY <1>3, <1>5, <1>6

\* A row of a weld is kept or refused.
LEMMA WeldRowAnswers ==
  ASSUME AnswersInv, RoundOK, model \in NonPartModels, row \in Nat \ {0}, ReadWeldRow,
         IsFiniteSet(DOMAIN kept')
  PROVE  AnswersInv'
<1>1. /\ stage = "weld_rows" /\ ~AtRow("rebars") /\ UNCHANGED <<model, stage, todo, round>>
      /\ UNCHANGED outVars
 BY DEF ReadWeldRow, AtRow, NextRow
<1>2. NoneTouched /\ IsList(diagnostics') /\ SameSweeps /\ WeldsAside
 BY <1>1, NothingIsTouched
 DEF outVars, AnswersInv, AllAnswered, KindsOK, SameSweeps, NoneTouched, WeldsAside
<1>3. AllAnswered'
 BY <1>1, <1>2, AsideAnswers DEF RowStages, AnswersInv
<1>4. BarInv'
 BY <1>1, NoBarIsAsked
<1>5. SeenInv'
 BY RowIsSeen DEF AnswersInv
<1>6. CountInv'
 BY <1>1, <1>2, <1>5, CountStays DEF SeenInv, Gone, WeldStages, Later, Late, AnswersInv
<1> QED BY <1>3, <1>4, <1>5, <1>6 DEF AnswersInv

\* The next kind of rows.
LEMMA StageAnswers ==
  ASSUME AnswersInv, RoundOK, model \in NonPartModels, row \in Nat \ {0}, stage \in StageNames, NextStage
  PROVE  AnswersInv'
<1>1. ~AtRow("rebars") /\ UNCHANGED <<model, round, kept, invalid, limited>> /\ UNCHANGED outVars
 BY DEF NextStage, AtRow, Quiet, polygonVars
<1>2. NoneTouched /\ IsList(diagnostics') /\ SameSweeps /\ WeldsAside
 BY <1>1, NothingIsTouched
 DEF outVars, AnswersInv, AllAnswered, KindsOK, SameSweeps, NoneTouched, WeldsAside
<1>3. AllAnswered'
 BY <1>1, <1>2, KindsStay, StageAnswered DEF AnswersInv, AllAnswered
<1>4. BarInv'
 BY <1>1, NoBarIsAsked
<1>5. SeenInv'
 BY StageIsSeen DEF AnswersInv
<1>6. CountInv'
 BY <1>1, <1>2, StageKeepsGone, CountStays DEF AnswersInv, CountInv
<1> QED BY <1>3, <1>4, <1>5, <1>6 DEF AnswersInv

\* Surfaces, bolts and reinforcement.
LEMMA ElementAnswers ==
  ASSUME GeometryInv, PaidInv, RoundOK, IdsAreKeys(model), row \in Nat \ {0}, AnswersInv,
         DrawSurface \/ DrawBolt \/ DecodeRebar
  PROVE  AnswersInv'
<1>1. model \in NonPartModels /\ MeshesOK(meshes)
 BY DEF GeometryInv, Given, PaidInv
<1>2. CASE DrawSurface \/ DrawBolt
 <2>1. /\ ~AtRow("rebars") /\ UNCHANGED <<model, stage, todo, round, kept, invalid, limited>>
       /\ stage # "weld_rows"
  BY <1>2 DEF DrawSurface, DrawBolt, AtRow, NextRow, polygonVars
 <2>2. AllAnswered' /\ WeldsAside
  BY <1>1, <1>2, SurfaceAnswers, BoltAnswers DEF AnswersInv
 <2>3. meshes' = meshes \/ \E e : meshes' = Append(meshes, e)
  BY <1>2 DEF DrawSurface, Diagnose, Draw, outVars, DrawBolt
 <2>4. SeenInv' /\ CountInv'
  BY <1>1, <2>1, <2>2, <2>3, MeshesAreAdded, RowsKeepCount DEF AnswersInv
 <2>5. BarInv'
  BY <2>1, NoBarIsAsked
 <2> QED BY <2>2, <2>4, <2>5 DEF AnswersInv
<1>3. CASE DecodeRebar
 <2>1. /\ stage = "rebars" /\ UNCHANGED <<model, stage, todo, kept, invalid, limited, meshes>>
  BY <1>3, RebarsAreNoWelds
 <2>2. AllAnswered' /\ WeldsAside /\ BarInv'
  <3>1. CASE AskStep
   BY <3>1, AskingAnswers DEF GeometryInv, WaitingOK, AskStep, Ask, Recall, VisitsExhausted,
      VisitBroken, Visit, Resolve, Walking, AnswersInv
  <3>2. CASE BeginRebar \/ HearPolygon \/ HearSize \/ HearGroup \/ HearMesh \/ HearBentMesh
   BY <3>2, RebarAnswers DEF AnswersInv
  <3> QED BY <1>3, <3>1, <3>2 DEF DecodeRebar, AskStep
 <2>3. SeenInv' /\ CountInv'
  BY <2>1, <2>2, RowsKeepCount DEF SameSweeps, AnswersInv
 <2> QED BY <2>2, <2>3 DEF AnswersInv
<1> QED BY <1>2, <1>3

\* The tables stay what they are.
LEMMA ModelStays == GeometryInv /\ [GeometryNext]_geometryVars => model' = model
<1> SUFFICES ASSUME GeometryInv, [GeometryNext]_geometryVars PROVE model' = model
 OBVIOUS
<1>1. CASE UNCHANGED geometryVars
 BY <1>1 DEF geometryVars
<1>2. CASE NoObjects \/ NextStage \/ ReadContour \/ DrawSurface \/ ReadWeldRow \/ DrawGrid \/ DrawBolt
 BY <1>2 DEF NoObjects, NextStage, ReadContour, DrawSurface, ReadWeldRow, DrawGrid, DrawBolt, NextRow
<1>3. CASE DecodeRebar
 BY <1>3, RebarsAreNoWelds
<1>4. ASSUME NEW polygon \in todo, DrawWeld(polygon) \/ ReportWeld(polygon) PROVE model' = model
 BY <1>4 DEF DrawWeld, ReportWeld
<1> QED BY <1>1, <1>2, <1>3, <1>4, Zenon DEF GeometryNext, Finished, Decode

\* Every step keeps what is answered.
LEMMA StepAnswers ==
  ASSUME GeometryInv, PaidInv, RoundOK, WeldsInv, IdsAreKeys(model), model.objects, AnswersInv,
         [GeometryNext]_geometryVars, PaidInv'
  PROVE  AnswersInv'
<1>1. model \in NonPartModels /\ row \in Nat \ {0} /\ stage \in StageNames /\ CurvesOK(curves)
 BY DEF GeometryInv, Given, WeldsInv, PaidInv
<1>2. CASE UNCHANGED geometryVars
 BY <1>2, QuietRowAnswers DEF geometryVars, polygonVars
<1>3. ~NoObjects
 BY DEF NoObjects
<1>4. CASE NextStage
 BY <1>1, <1>4, StageAnswers
<1>5. CASE ReadContour
 BY <1>5, QuietRowAnswers DEF ReadContour, AtRow, NextRow, RowStages
<1>6. CASE ReadWeldRow
 BY <1>1, <1>6, WeldRowAnswers DEF PaidInv, KeptOK
<1>7. ASSUME NEW polygon \in todo, ReportWeld(polygon) PROVE AnswersInv'
 BY <1>1, <1>7, PolygonIsTold DEF ReportWeld, Quiet, polygonVars, WeldStages
<1>8. ASSUME NEW polygon \in todo, DrawWeld(polygon) PROVE AnswersInv'
 BY <1>8, PolygonIsDrawn
<1>9. CASE DrawGrid
 BY <1>1, <1>9, GridAnswers
<1>10. CASE DrawSurface \/ DecodeRebar \/ DrawBolt
 BY <1>1, <1>10, ElementAnswers
<1> QED BY <1>2, <1>3, <1>4, <1>5, <1>6, <1>7, <1>8, <1>9, <1>10, Zenon DEF GeometryNext, Finished, Decode

\* At the start nothing is handed out, and no row is read.
LEMMA NothingIsAnswered == GeometryInit => AnswersInv
<1> SUFFICES ASSUME GeometryInit PROVE AnswersInv
 OBVIOUS
<1>1. /\ stage = "start" /\ todo = {} /\ round = "none" /\ DOMAIN kept = {} /\ invalid = {} /\ limited = {}
      /\ curves = <<>> /\ meshes = <<>> /\ diagnostics = <<>>
 BY DEF GeometryInit
<1>2. PICK none : none = <<>>
 OBVIOUS
<1>3. DOMAIN none = {} /\ IsList(none)
 <2>1. none \in Seq({}) /\ DOMAIN none = {}
  BY <1>2
 <2> QED BY <2>1, ListOf
<1>4. \A x : MeshOf(x) = {} /\ CurvesOf(x) = {} /\ Reported(x) = {}
 BY <1>1, <1>2, <1>3 DEF MeshOf, CurvesOf, Reported, IdsOf
<1>5. KindsOK
 BY <1>1, <1>2, <1>3, <1>4 DEF KindsOK
<1>6. \A s \in RowStages : RowsAnswered(s)
 BY <1>1, <1>4 DEF RowsAnswered, RowStages, Behind, Later, Late, Blank
<1>7. BarInv
 BY <1>1 DEF BarInv
<1>8. IsFiniteSet(invalid) /\ IsFiniteSet(limited) /\ IsFiniteSet(DOMAIN kept)
 BY <1>1, FS_EmptySet
<1>9. SeenInv
 BY <1>1, <1>8 DEF SeenInv, Seen, Later, Late
<1>10. CountInv
 <2>1. \A s \in WeldStages : Gone(s) = {}
  BY <1>1, NoneIsGone
 <2>2. Cardinality({}) = 0 /\ IsFiniteSet({})
  BY FS_EmptySet
 <2>3. ASSUME NEW id PROVE CountOf(id)
  <3>1. SweepsOf(id) = {}
   BY <1>4 DEF SweepsOf
  <3>2. \A s \in WeldStages : GoneOf(s, id) = 0
   BY <2>1, <2>2 DEF OfOwner, GoneOf
  <3>3. Gained(id) = 0 + 0
   BY <1>4, <2>2, <3>1 DEF Gained
  <3> QED BY <1>4, <2>2, <3>1, <3>2, <3>3 DEF CountOf, WeldStages
 <2> QED BY <1>8, <2>3 DEF CountInv
<1> QED BY <1>5, <1>6, <1>7, <1>9, <1>10 DEF AnswersInv, AllAnswered

\* The polygons of a weld that were gone through are those with a row to display, and those with
\* two kinds of bad rows and none that was kept are gone through twice.
LEMMA PolygonsAreCounted ==
  ASSUME SeenInv, CountInv, stage = "done", NEW id, Wanting(id, {"weld"})
  PROVE  Cardinality(SweepsOf(id)) + Cardinality(Reported(id))
             = Cardinality(WeldPolygons(id))
               + Cardinality(WeldPolygons(id) \cap ((invalid \cap limited) \ DOMAIN kept))
<1>1. PICK K, I, L : /\ K = OfOwner(DOMAIN kept, id) /\ I = OfOwner(invalid \ DOMAIN kept, id)
                     /\ L = OfOwner(limited \ DOMAIN kept, id)
 OBVIOUS
<1>2. GoneOf("welds", id) = Cardinality(K) /\ GoneOf("invalid_welds", id) = Cardinality(I)
      /\ GoneOf("limited_welds", id) = Cardinality(L)
 BY <1>1 DEF GoneOf, Gone, Later, Late, TodoOf
<1>3. Cardinality(SweepsOf(id)) + Cardinality(Reported(id))
          = Cardinality(K) + Cardinality(I) + Cardinality(L)
 BY <1>2 DEF CountInv, CountOf, Gained
<1>4. IsFiniteSet(K) /\ IsFiniteSet(I) /\ IsFiniteSet(L)
 BY <1>1, FS_Subset DEF OfOwner, CountInv
<1>5. K \cap (I \cup L) = {}
 BY <1>1 DEF OfOwner
<1>6. /\ IsFiniteSet(I \cup L)
      /\ Cardinality(I \cup L) = Cardinality(I) + Cardinality(L) - Cardinality(I \cap L)
 BY <1>4, FS_Union
<1>7. Cardinality(K \cup (I \cup L)) = Cardinality(K) + Cardinality(I \cup L) - Cardinality(K \cap (I \cup L))
 BY <1>4, <1>6, FS_Union
<1>8. Cardinality(K \cap (I \cup L)) = 0
 BY <1>5, FS_EmptySet
<1>9. /\ Cardinality(K) \in Nat /\ Cardinality(I) \in Nat /\ Cardinality(L) \in Nat
      /\ Cardinality(I \cap L) \in Nat
 BY <1>4, FS_Intersection, FS_CardinalityType
<1>10. Cardinality(K) + Cardinality(I) + Cardinality(L) = Cardinality(K \cup (I \cup L)) + Cardinality(I \cap L)
 BY <1>6, <1>7, <1>8, <1>9
<1>11. Seen = Displayed
 BY DEF SeenInv, Later, Late
<1>12. WeldPolygons(id) = OfOwner(Displayed, id)
 BY DEF WeldPolygons, Displayed, OfOwner
<1>13. K \cup (I \cup L) = OfOwner(Seen, id)
 BY <1>1 DEF OfOwner, Seen
<1>14. WeldPolygons(id) = K \cup (I \cup L)
 BY <1>11, <1>12, <1>13
<1>15. WeldPolygons(id) \cap ((invalid \cap limited) \ DOMAIN kept) = I \cap L
 BY <1>1, <1>13, <1>14 DEF OfOwner, Seen
<1> QED BY <1>3, <1>10, <1>14, <1>15

\* In the end everybody is answered.
LEMMA DoneIsAnswered ==
  ASSUME model \in NonPartModels, AnswersInv
  PROVE  EveryElementAnswered
<1> SUFFICES ASSUME stage = "done", model.objects PROVE EveryElementAnswered
 BY DEF EveryElementAnswered
<1>1. ASSUME NEW s \in RowStages, NEW j, NEW e, IsRow(s, j, e)
      PROVE  Settled(e.id, MayBeEmpty(s, e))
 BY <1>1 DEF Behind, Later, Late, RowStages, AnswersInv, AllAnswered, RowsAnswered
<1>2. ASSUME NEW element \in Elements
      PROVE  Settled(element.id, Empty(element))
 <2>1. \/ \E i \in DOMAIN model.surfaces :
             /\ Taken(model.surfaces[i], SurfaceTypes)
             /\ element = [kind |-> "surface", id |-> model.surfaces[i].id]
       \/ \E i \in DOMAIN model.rebars :
             /\ Taken(model.rebars[i], RebarTypes)
             /\ element = [kind |-> "rebar", id |-> model.rebars[i].id, bar |-> model.rebars[i]]
       \/ \E i \in DOMAIN RowsOf("bolts") :
             /\ Taken(model.bolts[i], BoltTypes)
             /\ element = [kind |-> "bolt", id |-> model.bolts[i].id, bolt |-> model.bolts[i]]
  BY <1>2 DEF Elements
 <2>2. ASSUME NEW i \in DOMAIN model.surfaces, Taken(model.surfaces[i], SurfaceTypes),
              element = [kind |-> "surface", id |-> model.surfaces[i].id]
       PROVE  Settled(element.id, Empty(element))
  <3>1. PICK e, s : e = model.surfaces[i] /\ s = "surfaces"
   OBVIOUS
  <3>2. IsRow(s, i, e) /\ element.id = e.id /\ element.kind = "surface"
   BY <2>2, <3>1 DEF IsRow, RowsOf, TypesOf, SurfaceTypes
  <3>3. Settled(e.id, MayBeEmpty(s, e)) /\ ~MayBeEmpty(s, e)
   BY <1>1, <3>1, <3>2 DEF MayBeEmpty, RowStages
  <3> QED BY <3>2, <3>3 DEF Settled
 <2>3. ASSUME NEW i \in DOMAIN model.rebars, Taken(model.rebars[i], RebarTypes),
              element = [kind |-> "rebar", id |-> model.rebars[i].id, bar |-> model.rebars[i]]
       PROVE  Settled(element.id, Empty(element))
  <3>1. PICK e, s : e = model.rebars[i] /\ s = "rebars"
   OBVIOUS
  <3>2. IsRow(s, i, e) /\ element.id = e.id /\ element.kind = "rebar" /\ element.bar = e
   BY <2>3, <3>1 DEF IsRow, RowsOf, TypesOf, RebarTypes
  <3>3. Settled(e.id, MayBeEmpty(s, e)) /\ (MayBeEmpty(s, e) => Empty(element))
   BY <1>1, <3>1, <3>2 DEF MayBeEmpty, Empty, RowStages
  <3> QED BY <3>2, <3>3 DEF Settled
 <2>4. ASSUME NEW i \in DOMAIN RowsOf("bolts"), Taken(model.bolts[i], BoltTypes),
              element = [kind |-> "bolt", id |-> model.bolts[i].id, bolt |-> model.bolts[i]]
       PROVE  Settled(element.id, Empty(element))
  <3>1. PICK e, s : e = model.bolts[i] /\ s = "bolts"
   OBVIOUS
  <3>0. model.boltTables
   BY DEF RowsOf
  <3>2. IsRow(s, i, e) /\ element.id = e.id /\ element.kind = "bolt" /\ element.bolt = e
   BY <2>4, <3>0, <3>1 DEF IsRow, RowsOf, TypesOf, BoltTypes
  <3>3. Settled(e.id, MayBeEmpty(s, e)) /\ (MayBeEmpty(s, e) => Empty(element))
   BY <1>1, <3>1, <3>2 DEF MayBeEmpty, Empty, RowStages
  <3> QED BY <3>2, <3>3 DEF Settled
 <2> QED BY <2>1, <2>2, <2>3, <2>4
<1>3. ASSUME NEW element \in Elements
      PROVE  /\ ~(Drawn(element.id) # {} /\ Reported(element.id) # {})
             /\ Cardinality(Reported(element.id)) <= 1
             /\ Drawn(element.id) = {} /\ Reported(element.id) = {} => Empty(element)
 <2>1. PICK id : id = element.id
  OBVIOUS
 <2>2. Settled(id, Empty(element)) /\ Drawn(id) = MeshOf(id) \cup CurvesOf(id)
  BY <1>2, <2>1, OfElements
 <2> QED BY <2>1, <2>2 DEF Settled, Blank
<1>4. /\ \A i \in DOMAIN meshes : Wanting(meshes[i].id, {"surface", "weld", "bolt"})
      /\ \A i \in DOMAIN curves : Wanting(curves[i].id, {"grid", "rebar"})
      /\ \A i \in DOMAIN diagnostics :
            Wanting(diagnostics[i].id, {"surface", "weld", "grid", "rebar", "bolt"})
 <2>1. KindsOK
  BY DEF AnswersInv, AllAnswered
 <2>2. \A i \in DOMAIN meshes : Wanting(meshes[i].id, MeshTypes)
  BY <2>1 DEF KindsOK, MeshOf
 <2>3. \A i \in DOMAIN curves : Wanting(curves[i].id, CurveTypes)
  BY <2>1 DEF KindsOK, CurvesOf, IdsOf
 <2>4. \A i \in DOMAIN diagnostics : Wanting(diagnostics[i].id, MeshTypes \cup CurveTypes)
  BY <2>1 DEF KindsOK, Reported
 <2>5. MeshTypes \cup CurveTypes = {"surface", "weld", "grid", "rebar", "bolt"}
  BY DEF MeshTypes, CurveTypes
 <2> QED BY <2>2, <2>3, <2>4, <2>5 DEF MeshTypes, CurveTypes
<1>5. \A id : Wanting(id, {"weld"}) =>
          Cardinality(SweepsOf(id)) + Cardinality(Reported(id))
              = Cardinality(WeldPolygons(id))
                + Cardinality(WeldPolygons(id) \cap ((invalid \cap limited) \ DOMAIN kept))
 BY PolygonsAreCounted DEF AnswersInv
<1> QED BY <1>3, <1>4, <1>5 DEF EveryElementAnswered

\* For all tables in which no two visible rows of a kind have one id, and whatever fits the
\* budgets: when all is decoded every surface, bar and bolt that is asked for is drawn or is
\* reported, never both and never reported twice, every polygon of a weld gave the weld a seam or
\* a report (or two reports, when two of its rows were refused for two reasons and none was kept),
\* and nothing is handed out for anything that is not asked for or is of another kind
\* (make_nonpart_geometry_stream).
THEOREM ElementsAreAnswered ==
  (\A m \in NonPartModels : IdsAreKeys(m)) => (GeometrySpec => []EveryElementAnswered)
<1> SUFFICES ASSUME \A m \in NonPartModels : IdsAreKeys(m)
             PROVE  GeometrySpec => []EveryElementAnswered
 OBVIOUS
<1> DEFINE Inv == /\ GeometryInv /\ PaidInv /\ RoundOK /\ WeldsInv
                  /\ model.objects => AnswersInv
<1>1. GeometryInit => Inv
 BY GeometryInitKeeps, NothingAtFirst, NoWeldsAtFirst, NothingIsAnswered
<1>2. Inv /\ [GeometryNext]_geometryVars => Inv'
 <2> SUFFICES ASSUME Inv, [GeometryNext]_geometryVars PROVE Inv'
  OBVIOUS
 <2>1. GeometryInv' /\ PaidInv' /\ RoundOK' /\ WeldsInv'
  BY GeometryStepKeeps, StepPays, RoundIsKept, WeldsStayWhole
 <2>2. model' = model /\ IdsAreKeys(model)
  BY ModelStays DEF GeometryInv, Given
 <2>3. model.objects => AnswersInv'
  BY <2>1, <2>2, StepAnswers
 <2> QED BY <2>1, <2>2, <2>3
<1>3. Inv => EveryElementAnswered
 BY DoneIsAnswered DEF EveryElementAnswered, GeometryInv, Given
<1> QED BY <1>1, <1>2, <1>3, PTL DEF GeometrySpec
=============================================================================
