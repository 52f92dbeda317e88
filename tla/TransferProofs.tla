---------------------------- MODULE TransferProofs ----------------------------
(* What leaves the library: MessageSurvives for every request, answer and limit,  *)
(* and FileHoldsStream for every stream, every limit and every size of the text.  *)
EXTENDS WorkerMessages, GlbWriter, SequenceTheorems, FiniteSetTheorems, TLAPS

(* Folds over sequences.  A sum and a flattened sequence are what the recursive   *)
(* function gives that FoldLeft or FlattenSeq chooses; that there is one is shown  *)
(* by an induction over a set of numbers.                                          *)

Totals(it, f) ==
  it = [s \in SUBSET DOMAIN f |-> IF s = {} THEN 0 ELSE it[s \ {Max(s)}] + f[Max(s)]]
Flats(it, f) ==
  it = [i \in 1 .. Len(f) |-> IF i = 1 THEN f[i] ELSE it[i - 1] \o f[i]]
\* A set of numbers up to n cannot have the successor of each of its members.
LEMMA NoEndlessAscent ==
  ASSUME NEW n \in Nat, NEW D, D \subseteq 0 .. n, 0 \in D, \A x \in D : x + 1 \in D
  PROVE  FALSE
<1>1. IsFiniteSet(0 .. n)
 BY FS_Interval
<1>2. IsFiniteSet(D) /\ Cardinality(D) \in Nat
 BY <1>1, FS_Subset, FS_CardinalityType
<1>3. PICK T : T = D \ {0}
 OBVIOUS
<1>4. IsFiniteSet(T) /\ Cardinality(T) < Cardinality(D)
 BY <1>2, <1>3, FS_RemoveElement
<1>5. PICK next : next = [x \in D |-> x + 1]
 OBVIOUS
<1>6. next \in [D -> T] /\ \A x \in D : next[x] = x + 1
 BY <1>3, <1>5
<1>7. /\ next \in [D -> T] /\ IsFiniteSet(D) /\ IsFiniteSet(T)
      /\ Cardinality(T) < Cardinality(D)
 BY <1>2, <1>4, <1>6
<1>8. \E x, y \in D : x # y /\ next[x] = next[y]
 BY ONLY <1>7, FS_PigeonHole
<1>9. QED
 BY <1>6, <1>8

\* Of some numbers one is the least.
LEMMA LeastOfNumbers ==
  ASSUME NEW S, S \subseteq Nat, S # {}
  PROVE  \E m \in S : \A k \in S : m <= k
<1> SUFFICES ASSUME \A m \in S : \E k \in S : k < m
             PROVE  FALSE
 OBVIOUS
<1>1. PICK n \in S : TRUE
 OBVIOUS
<1>2. PICK D : D = {x \in 0 .. n : \A k \in S : x <= k}
 OBVIOUS
<1>3. D \subseteq 0 .. n /\ 0 \in D
 BY <1>1, <1>2
<1>4. ASSUME NEW x \in D
      PROVE  x + 1 \in D
 <2>1. \A k \in S : x <= k /\ x # k
  BY <1>2
 <2>2. \A k \in S : x + 1 <= k
  BY <1>2, <2>1
 <2>3. QED
  BY <1>1, <1>2, <2>2
<1>5. QED
 BY <1>1, <1>3, <1>4, NoEndlessAscent

\* A set with zero, and with the successor of each of its members, has all numbers.
LEMMA SetInduction ==
  ASSUME NEW S, 0 \in S, \A n \in Nat : n \in S => n + 1 \in S
  PROVE  Nat \subseteq S
<1> SUFFICES ASSUME Nat \ S # {}
             PROVE  FALSE
 OBVIOUS
<1>1. Nat \ S \subseteq Nat
 OBVIOUS
<1>2. PICK m \in Nat \ S : \A k \in Nat \ S : m <= k
 BY <1>1, LeastOfNumbers
<1>3. m # 0 /\ m - 1 \in Nat
 BY <1>2
<1>4. m - 1 \in S
 BY <1>2, <1>3
<1>5. QED
 BY <1>2, <1>3, <1>4

\* Of some numbers up to n one is the greatest.
LEMMA GreatestOfNumbers ==
  ASSUME NEW n \in Nat, NEW s, s \subseteq 0 .. n, s # {}
  PROVE  Max(s) \in s /\ \A y \in s : y <= Max(s)
<1>1. PICK below : below = {m \in 0 .. n : n - m \in s}
 OBVIOUS
<1>2. below \subseteq Nat /\ below # {}
 <2>1. PICK x \in s : TRUE
  OBVIOUS
 <2>2. n - x \in 0 .. n /\ n - (n - x) = x
  BY <2>1
 <2> QED BY <1>1, <2>1, <2>2
<1>3. PICK m \in below : \A k \in below : m <= k
 BY <1>2, LeastOfNumbers
<1>4. ASSUME NEW y \in s PROVE y <= n - m
 <2>1. y \in 0 .. n /\ n - y \in 0 .. n /\ n - (n - y) = y
  OBVIOUS
 <2>2. n - y \in below
  BY <1>1, <2>1
 <2>3. m <= n - y /\ m \in Nat
  BY <1>2, <1>3, <2>2
 <2> QED BY <2>1, <2>3
<1>5. n - m \in s /\ \A y \in s : n - m >= y
 BY <1>1, <1>3, <1>4
<1>6. \E x \in s : \A y \in s : x >= y
 BY <1>5
<1>7. Max(s) \in s /\ \A y \in s : Max(s) >= y
 BY <1>6 DEF Max
<1>8. \A y \in s : y \in Int
 OBVIOUS
<1> QED BY <1>7, <1>8

\* The greatest of the first k numbers, and what is left without it.
LEMMA LastOfFirst ==
  ASSUME NEW k \in Nat \ {0}
  PROVE  Max(1 .. k) = k /\ (1 .. k) \ {Max(1 .. k)} = 1 .. (k - 1)
<1>1. Max(1 .. k) \in 1 .. k /\ \A y \in 1 .. k : y <= Max(1 .. k)
 <2>1. 1 .. k \subseteq 0 .. k /\ 1 .. k # {}
  OBVIOUS
 <2> QED BY <2>1, GreatestOfNumbers
<1>2. k \in 1 .. k
 OBVIOUS
<1>3. k <= Max(1 .. k)
 BY <1>1, <1>2
<1>4. PICK m : m = Max(1 .. k)
 OBVIOUS
<1>5. m = k
 BY <1>1, <1>3, <1>4
<1> QED BY <1>4, <1>5
\* There is such a sum over the parts of the domain of a sequence of numbers.
LEMMA TotalsExist ==
  ASSUME NEW f \in Seq(Nat)
  PROVE  \E it \in [SUBSET DOMAIN f -> Nat] : Totals(it, f)
<1> DEFINE D == DOMAIN f
           Small(n) == {s \in SUBSET D : Cardinality(s) <= n}
           Step(g, s) == IF s = {} THEN 0 ELSE g[s \ {Max(s)}] + f[Max(s)]
           Good(g, n) == g \in [Small(n) -> Nat] /\ \A s \in Small(n) : g[s] = Step(g, s)
           P == {n \in Nat : \E g : Good(g, n)}
<1>0. IsFiniteSet(D) /\ \A x \in D : f[x] \in Nat
 <2>1. D = 1 .. Len(f) /\ Len(f) \in Nat /\ \A x \in D : f[x] \in Nat
  OBVIOUS
 <2>2. IsFiniteSet(1 .. Len(f))
  BY <2>1, FS_Interval
 <2> QED BY <2>1, <2>2
<1>1. ASSUME NEW s \in SUBSET D, s # {} PROVE Max(s) \in s
 <2>1. s \subseteq 0 .. Len(f) /\ Len(f) \in Nat
  OBVIOUS
 <2> QED BY <1>1, <2>1, GreatestOfNumbers
<1>2. ASSUME NEW s \in SUBSET D, s # {}
      PROVE  /\ s \ {Max(s)} \in SUBSET D /\ Max(s) \in D
             /\ Cardinality(s) \in Nat \ {0}
             /\ Cardinality(s \ {Max(s)}) = Cardinality(s) - 1
 <2>1. PICK y : y = Max(s)
  OBVIOUS
 <2>2. y \in s /\ IsFiniteSet(s)
  BY <1>0, <1>1, <1>2, <2>1, FS_Subset
 <2>3. /\ Cardinality(s) \in Nat
       /\ Cardinality(s \ {y}) = Cardinality(s) - 1 /\ Cardinality(s \ {y}) \in Nat
  BY <2>2, FS_RemoveElement, FS_CardinalityType
 <2> QED BY <2>1, <2>2, <2>3
<1>3. 0 \in P
 <2>1. PICK g : g = [s \in Small(0) |-> 0]
  OBVIOUS
 <2>2. ASSUME NEW s \in Small(0) PROVE s = {}
  <3>1. s \in SUBSET D /\ Cardinality(s) <= 0
   OBVIOUS
  <3>2. s # {} => Cardinality(s) \in Nat \ {0}
   BY <1>2, <3>1
  <3> QED BY <3>1, <3>2
 <2>3. Good(g, 0)
  BY <2>1, <2>2
 <2> QED BY <2>3
<1>4. ASSUME NEW n \in Nat, n \in P PROVE n + 1 \in P
 <2>1. PICK g : Good(g, n)
  BY <1>4
 <2>2. PICK h : h = [s \in Small(n + 1) |-> Step(g, s)]
  OBVIOUS
 <2>3. ASSUME NEW s \in Small(n + 1), s # {}
       PROVE  Max(s) \in D /\ s \ {Max(s)} \in Small(n)
  BY <1>2, <2>3
 <2>4. \A s \in Small(n) : s \in Small(n + 1) /\ h[s] = g[s]
  <3>1. ASSUME NEW s \in Small(n) PROVE s \in Small(n + 1)
   <4>1. IsFiniteSet(s)
    BY <1>0, FS_Subset
   <4> QED BY <4>1, FS_CardinalityType
  <3> QED BY <3>1, <2>1, <2>2
 <2>5. h \in [Small(n + 1) -> Nat]
  <3>1. ASSUME NEW s \in Small(n + 1) PROVE Step(g, s) \in Nat
   <4>1. CASE s = {}
    BY <4>1
   <4>2. CASE s # {}
    <5>1. f[Max(s)] \in Nat /\ g[s \ {Max(s)}] \in Nat
     BY <1>0, <2>1, <2>3, <4>2
    <5> QED BY <4>2, <5>1
   <4> QED BY <4>1, <4>2
  <3> HIDE DEF Small, Step
  <3> QED BY <2>2, <3>1
 <2>6. ASSUME NEW s \in Small(n + 1) PROVE h[s] = Step(h, s)
  <3>1. h[s] = Step(g, s)
   <4> HIDE DEF Small, Step
   <4> QED BY <2>2
  <3>2. CASE s = {}
   BY <3>1, <3>2
  <3>3. CASE s # {}
   <4>1. h[s \ {Max(s)}] = g[s \ {Max(s)}]
    <5> HIDE DEF Small
    <5> QED BY <2>3, <2>4, <3>3
   <4> QED BY <3>1, <3>3, <4>1
  <3> QED BY <3>2, <3>3
 <2>7. Good(h, n + 1)
  BY <2>5, <2>6
 <2> HIDE DEF Good
 <2> QED BY <2>7
<1>5. Nat \subseteq P
 <2> HIDE DEF P
 <2> QED BY <1>3, <1>4, SetInduction
<1>6. PICK N \in Nat : N = Cardinality(D)
 BY <1>0, FS_CardinalityType
<1>7. Small(N) = SUBSET D
 <2>1. \A s \in SUBSET D : Cardinality(s) <= N
  BY <1>0, <1>6, FS_Subset
 <2> QED BY <2>1
<1>8. PICK g : Good(g, N)
 BY <1>5
<1>9. g \in [SUBSET D -> Nat] /\ \A s \in SUBSET D : g[s] = Step(g, s)
 <2>1. g \in [Small(N) -> Nat] /\ \A s \in Small(N) : g[s] = Step(g, s)
  BY <1>8
 <2> HIDE DEF Small, Step
 <2> QED BY <2>1, <1>7
<1>10. g = [s \in SUBSET D |-> Step(g, s)]
 <2> HIDE DEF Step
 <2> QED BY <1>9
<1>11. Totals(g, f)
 BY <1>10 DEF Totals
<1> QED BY <1>9, <1>11

\* The sums of the first numbers of a sequence.
UpTo(sums, f) ==
  /\ sums \in [0 .. Len(f) -> Nat] /\ sums[0] = 0
  /\ \A k \in 1 .. Len(f) : sums[k] = sums[k - 1] + f[k]

LEMMA SumIs ==
  ASSUME NEW f \in Seq(Nat)
  PROVE  \E sums : UpTo(sums, f) /\ Sum(f) = sums[Len(f)]
<1>1. PICK it : it = (CHOOSE jt : Totals(jt, f))
 OBVIOUS
<1>2. Sum(f) = it[DOMAIN f]
 BY <1>1 DEF Sum, FoldLeft, MapThenFoldSet, Totals
<1>3. PICK jt \in [SUBSET DOMAIN f -> Nat] : Totals(jt, f)
 BY TotalsExist
<1>4. Totals(it, f)
 BY <1>1, <1>3
<1>5. PICK n \in Nat : n = Len(f) /\ DOMAIN f = 1 .. n
 OBVIOUS
<1>6. \A s \in SUBSET (1 .. n) : it[s] = IF s = {} THEN 0 ELSE it[s \ {Max(s)}] + f[Max(s)]
 BY <1>4, <1>5 DEF Totals
<1>7. PICK sums : sums = [k \in 0 .. n |-> it[1 .. k]]
 OBVIOUS
<1>8. sums[0] = 0
 <2>1. 1 .. 0 = {} /\ {} \in SUBSET (1 .. n) /\ 0 \in 0 .. n
  OBVIOUS
 <2>2. it[{}] = 0
  BY <1>6, <2>1
 <2>3. sums[0] = it[1 .. 0]
  BY <1>7, <2>1
 <2> QED BY <2>1, <2>2, <2>3
<1>9. ASSUME NEW k \in 1 .. n PROVE sums[k] = sums[k - 1] + f[k]
 <2>1. 1 .. k \in SUBSET (1 .. n) /\ 1 .. k # {} /\ k \in Nat \ {0}
  <3>1. k \in Nat \ {0} /\ k <= n /\ k \in 1 .. k
   OBVIOUS
  <3>2. \A x \in 1 .. k : x \in 1 .. n
   BY <3>1
  <3> QED BY <3>1, <3>2
 <2>2. it[1 .. k] = it[1 .. (k - 1)] + f[k]
  BY <1>6, <2>1, LastOfFirst
 <2> QED BY <1>7, <2>2
<1>10. sums \in [0 .. n -> Nat]
 <2> DEFINE P == {k \in Nat : k <= n => sums[k] \in Nat}
 <2>1. 0 \in P
  BY <1>8
 <2>2. ASSUME NEW k \in Nat, k \in P PROVE k + 1 \in P
  <3>1. ASSUME k + 1 <= n PROVE sums[k + 1] \in Nat
   <4>1. k + 1 \in 1 .. n /\ (k + 1) - 1 = k
    BY <3>1
   <4>2. sums[k + 1] = sums[k] + f[k + 1] /\ f[k + 1] \in Nat /\ sums[k] \in Nat
    BY <1>5, <1>9, <2>2, <3>1, <4>1
   <4> QED BY <4>2
  <3> QED BY <3>1
 <2>3. Nat \subseteq P
  <3> HIDE DEF P
  <3> QED BY <2>1, <2>2, SetInduction
 <2>4. \A k \in 0 .. n : sums[k] \in Nat
  BY <2>3
 <2> QED BY <1>7, <2>4
<1>11. n \in 0 .. n
 OBVIOUS
<1>12. Sum(f) = sums[n]
 BY <1>2, <1>5, <1>7, <1>11
<1> QED BY <1>5, <1>8, <1>9, <1>10, <1>12 DEF UpTo
\* Two sequences whose numbers are the same up to k have the same sums up to k, and a sequence
\* that starts one later has the same sums but for the first number.
LEMMA SumsShift ==
  ASSUME NEW f \in Seq(Nat), NEW g \in Seq(Nat), NEW sums, NEW tums, NEW n \in Nat,
         UpTo(sums, f), UpTo(tums, g), Len(g) = Len(f) + 1, g[1] = n,
         \A k \in 1 .. Len(f) : g[k + 1] = f[k]
  PROVE  \A k \in 0 .. Len(f) : tums[k + 1] = n + sums[k]
<1> DEFINE P == {k \in Nat : k <= Len(f) => tums[k + 1] = n + sums[k]}
<1>0. Len(f) \in Nat
 OBVIOUS
<1>1. 0 \in P
 <2>1. 1 \in 1 .. Len(g)
  BY <1>0
 <2>2. tums[1] = tums[1 - 1] + g[1] /\ tums[0] = 0 /\ sums[0] = 0
  BY <2>1 DEF UpTo
 <2> QED BY <2>2
<1>2. ASSUME NEW k \in Nat, k \in P PROVE k + 1 \in P
 <2>1. ASSUME k + 1 <= Len(f) PROVE tums[(k + 1) + 1] = n + sums[k + 1]
  <3>1. k + 1 \in 1 .. Len(f) /\ (k + 1) + 1 \in 1 .. Len(g) /\ k \in 0 .. Len(f)
   BY <1>0, <2>1
  <3>2. sums[k + 1] = sums[(k + 1) - 1] + f[k + 1]
   BY <3>1 DEF UpTo
  <3>3. tums[(k + 1) + 1] = tums[((k + 1) + 1) - 1] + g[(k + 1) + 1]
   BY <3>1 DEF UpTo
  <3>4. (k + 1) - 1 = k /\ ((k + 1) + 1) - 1 = k + 1
   OBVIOUS
  <3>5. tums[k + 1] = n + sums[k] /\ g[(k + 1) + 1] = f[k + 1]
   BY <1>0, <1>2, <2>1, <3>1
  <3>6. sums[k] \in Nat /\ f[k + 1] \in Nat
   <4>1. sums \in [0 .. Len(f) -> Nat]
    BY DEF UpTo
   <4>2. f[k + 1] \in Nat
    BY <3>1, ElementOfSeq
   <4> QED BY <3>1, <4>1, <4>2
  <3>7. sums[k + 1] = sums[k] + f[k + 1] /\ tums[(k + 1) + 1] = tums[k + 1] + f[k + 1]
   BY <3>2, <3>3, <3>4, <3>5
  <3> QED BY <3>5, <3>6, <3>7, SMTT(30)
 <2> QED BY <2>1
<1>3. Nat \subseteq P
 <2> HIDE DEF P
 <2> QED BY <1>1, <1>2, SetInduction
<1> QED BY <1>0, <1>3

\* A sum is a number; nothing comes to nothing; a sum begins with its first number.
LEMMA SumType ==
  ASSUME NEW f \in Seq(Nat)
  PROVE  Sum(f) \in Nat /\ (f = <<>> => Sum(f) = 0)
<1>1. PICK sums : UpTo(sums, f) /\ Sum(f) = sums[Len(f)]
 BY SumIs
<1>2. Len(f) \in 0 .. Len(f) /\ (f = <<>> => Len(f) = 0)
 OBVIOUS
<1> QED BY <1>1, <1>2 DEF UpTo

LEMMA SumUnrolls ==
  ASSUME NEW f \in Seq(Nat), f # <<>>
  PROVE  Sum(f) = f[1] + Sum(Tail(f)) /\ Tail(f) \in Seq(Nat) /\ f[1] \in Nat
<1>1. PICK t \in Seq(Nat) : t = Tail(f)
 BY HeadTailProperties
<1>2. Len(f) = Len(t) + 1 /\ f[1] \in Nat /\ \A k \in 1 .. Len(t) : f[k + 1] = t[k]
 BY <1>1
<1>3. PICK sums : UpTo(sums, t) /\ Sum(t) = sums[Len(t)]
 BY SumIs
<1>4. PICK tums : UpTo(tums, f) /\ Sum(f) = tums[Len(f)]
 BY SumIs
<1>5. Len(t) \in 0 .. Len(t)
 OBVIOUS
<1>6. tums[Len(t) + 1] = f[1] + sums[Len(t)]
 BY <1>2, <1>3, <1>4, <1>5, SumsShift, SMTT(30)
<1> QED BY <1>1, <1>2, <1>3, <1>4, <1>6

\* The flattened first sequences of a sequence.
FlatUpTo(it, f) == it[1] = f[1] /\ \A i \in 2 .. Len(f) : it[i] = it[i - 1] \o f[i]

LEMMA FlattenIs ==
  ASSUME NEW S, NEW f \in Seq(Seq(S)), f # <<>>
  PROVE  \E it \in [1 .. Len(f) -> Seq(S)] : FlatUpTo(it, f) /\ FlattenSeq(f) = it[Len(f)]
<1> DEFINE n == Len(f)
           Fits(k) == \E g \in [1 .. k -> Seq(S)] :
                          g[1] = f[1] /\ \A i \in 2 .. k : g[i] = g[i - 1] \o f[i]
           P == {k \in Nat : k + 1 <= n => Fits(k + 1)}
<1>0. n \in Nat \ {0} /\ DOMAIN f = 1 .. n /\ \A i \in 1 .. n : f[i] \in Seq(S)
 OBVIOUS
<1>1. 0 \in P
 <2>1. PICK g : g = [i \in 1 .. (0 + 1) |-> f[1]]
  OBVIOUS
 <2>2. g \in [1 .. (0 + 1) -> Seq(S)] /\ g[1] = f[1] /\ 2 .. (0 + 1) = {}
  BY <1>0, <2>1
 <2> QED BY <2>2
<1>2. ASSUME NEW k \in Nat, k \in P PROVE k + 1 \in P
 <2>1. ASSUME (k + 1) + 1 <= n
       PROVE  Fits((k + 1) + 1)
  <3>0. PICK m \in Nat \ {0} : m = k + 1
   OBVIOUS
  <3>1. PICK g \in [1 .. m -> Seq(S)] : g[1] = f[1] /\ \A i \in 2 .. m : g[i] = g[i - 1] \o f[i]
   <4>1. k + 1 <= n
    BY <1>0, <2>1
   <4>2. Fits(m)
    <5> HIDE DEF Fits
    <5> QED BY <1>2, <3>0, <4>1
   <4> QED BY <4>2
  <3>2. PICK h : h = [i \in 1 .. (m + 1) |-> IF i = m + 1 THEN g[m] \o f[m + 1] ELSE g[i]]
   OBVIOUS
  <3>3. g[m] \in Seq(S) /\ f[m + 1] \in Seq(S) /\ g[m] \o f[m + 1] \in Seq(S)
   <4>1. m \in 1 .. m /\ m + 1 \in 1 .. n
    BY <1>0, <2>1, <3>0
   <4>2. g[m] \in Seq(S) /\ f[m + 1] \in Seq(S)
    BY <1>0, <3>1, <4>1
   <4> QED BY <4>2, ConcatProperties
  <3>4. ASSUME NEW i \in 1 .. m PROVE i \in 1 .. (m + 1) /\ i # m + 1 /\ h[i] = g[i]
   <4>1. i \in 1 .. (m + 1) /\ i # m + 1
    BY <3>0
   <4> QED BY <3>2, <4>1
  <3>5. h[m + 1] = g[m] \o f[m + 1]
   <4>1. m + 1 \in 1 .. (m + 1)
    BY <3>0
   <4> QED BY <3>2, <4>1
  <3>6. h \in [1 .. (m + 1) -> Seq(S)]
   <4>1. ASSUME NEW i \in 1 .. (m + 1) PROVE h[i] \in Seq(S)
    <5>1. i \in 1 .. m \/ i = m + 1
     BY <3>0
    <5> QED BY <3>1, <3>3, <3>4, <3>5, <5>1
   <4> QED BY <3>2, <4>1
  <3>7. h[1] = f[1]
   BY <3>0, <3>1, <3>4
  <3>8. ASSUME NEW i \in 2 .. (m + 1) PROVE h[i] = h[i - 1] \o f[i]
   <4>1. i - 1 \in 1 .. m /\ (i = m + 1 => i - 1 = m) /\ (i # m + 1 => i \in 2 .. m /\ i \in 1 .. m)
    BY <3>0
   <4> QED BY <3>1, <3>4, <3>5, <4>1
  <3>9. Fits(m + 1)
   BY <3>6, <3>7, <3>8
  <3> HIDE DEF Fits
  <3> QED BY <3>0, <3>9
 <2> HIDE DEF Fits
 <2> QED BY <2>1
<1>3. Nat \subseteq P
 <2> HIDE DEF P
 <2> QED BY <1>1, <1>2, SetInduction
<1>4. n - 1 \in Nat /\ (n - 1) + 1 = n
 BY <1>0
<1>5. PICK g \in [1 .. n -> Seq(S)] : g[1] = f[1] /\ \A i \in 2 .. n : g[i] = g[i - 1] \o f[i]
 <2>0. PICK m : m = n - 1
  OBVIOUS
 <2>1. m \in Nat /\ m + 1 = n /\ m + 1 <= n
  BY <1>0, <2>0
 <2>2. m \in P
  <3> HIDE DEF P
  <3> QED BY <1>3, <2>1
 <2>3. Fits(m + 1)
  <3> HIDE DEF Fits
  <3> QED BY <2>1, <2>2
 <2>4. Fits(n)
  <3> HIDE DEF Fits
  <3> QED BY <2>1, <2>3
 <2> QED BY <2>4
<1>6. Flats(g, f)
 <2>1. ASSUME NEW i \in 1 .. n PROVE g[i] = IF i = 1 THEN f[i] ELSE g[i - 1] \o f[i]
  <3>1. i = 1 \/ i \in 2 .. n
   BY <1>0
  <3> QED BY <1>5, <3>1
 <2>2. g = [i \in 1 .. n |-> g[i]]
  BY <1>5
 <2> QED BY <2>1, <2>2 DEF Flats
<1>7. PICK it : it = (CHOOSE jt : Flats(jt, f))
 OBVIOUS
<1>8. Flats(it, f)
 BY <1>6, <1>7
<1>9. FlattenSeq(f) = it[n]
 BY <1>0, <1>7 DEF FlattenSeq, Flats
<1>10. \A i \in 1 .. n : it[i] = IF i = 1 THEN f[i] ELSE it[i - 1] \o f[i]
 BY <1>8 DEF Flats
<1>11. FlatUpTo(it, f)
 <2>1. it[1] = f[1]
  BY <1>0, <1>10
 <2>2. ASSUME NEW i \in 2 .. n PROVE it[i] = it[i - 1] \o f[i]
  <3>1. i \in 1 .. n /\ i # 1
   BY <1>0
  <3> QED BY <1>10, <3>1
 <2> QED BY <2>1, <2>2 DEF FlatUpTo
<1>12. it \in [1 .. n -> Seq(S)]
 <2> DEFINE Q == {k \in Nat : k + 1 <= n => it[k + 1] = g[k + 1]}
 <2>1. 0 \in Q
  BY <1>5, <1>11 DEF FlatUpTo
 <2>2. ASSUME NEW k \in Nat, k \in Q PROVE k + 1 \in Q
  <3>1. ASSUME (k + 1) + 1 <= n PROVE it[(k + 1) + 1] = g[(k + 1) + 1]
   <4>1. (k + 1) + 1 \in 2 .. n /\ ((k + 1) + 1) - 1 = k + 1 /\ k + 1 <= n
    BY <1>0, <3>1
   <4> QED BY <1>5, <1>11, <2>2, <4>1 DEF FlatUpTo
  <3> QED BY <3>1
 <2>3. Nat \subseteq Q
  <3> HIDE DEF Q
  <3> QED BY <2>1, <2>2, SetInduction
 <2>4. ASSUME NEW i \in 1 .. n PROVE it[i] \in Seq(S)
  <3>1. i - 1 \in Nat /\ (i - 1) + 1 = i /\ i <= n
   BY <1>0
  <3> QED BY <1>5, <2>3, <3>1
 <2>5. it = [i \in 1 .. n |-> it[i]]
  BY <1>8 DEF Flats
 <2> QED BY <2>4, <2>5
<1> QED BY <1>9, <1>11, <1>12
\* Sequences are joined in any grouping.
LEMMA Associative ==
  ASSUME NEW S
  PROVE  \A a, b, c \in Seq(S) : (a \o b) \o c = a \o (b \o c)
<1> TAKE a, b, c \in Seq(S)
<1> QED BY ConcatAssociative

\* A flattened sequence begins with the first of its parts.
LEMMA FlatEmpty == FlattenSeq(<<>>) = <<>>
 BY DEF FlattenSeq

LEMMA FlatType ==
  ASSUME NEW S, NEW ss \in Seq(Seq(S))
  PROVE  FlattenSeq(ss) \in Seq(S)
<1>1. CASE ss = <<>>
 BY <1>1, FlatEmpty, EmptySeq
<1>2. CASE ss # <<>>
 <2>1. PICK it \in [1 .. Len(ss) -> Seq(S)] : FlatUpTo(it, ss) /\ FlattenSeq(ss) = it[Len(ss)]
  BY <1>2, FlattenIs
 <2>2. Len(ss) \in 1 .. Len(ss)
  BY <1>2
 <2> QED BY <2>1, <2>2
<1> QED BY <1>1, <1>2

LEMMA FlatUnrolls ==
  ASSUME NEW S, NEW ss \in Seq(Seq(S)), ss # <<>>
  PROVE  /\ FlattenSeq(ss) = ss[1] \o FlattenSeq(Tail(ss))
         /\ Tail(ss) \in Seq(Seq(S)) /\ ss[1] \in Seq(S)
         /\ FlattenSeq(Tail(ss)) \in Seq(S)
<1>1. PICK t \in Seq(Seq(S)) : t = Tail(ss)
 BY HeadTailProperties
<1>2. /\ Len(t) \in Nat /\ Len(ss) = Len(t) + 1 /\ ss[1] \in Seq(S)
      /\ \A k \in 1 .. Len(t) : ss[k + 1] = t[k]
 BY <1>1, HeadTailProperties
<1>3. PICK it \in [1 .. Len(ss) -> Seq(S)] : FlatUpTo(it, ss) /\ FlattenSeq(ss) = it[Len(ss)]
 BY FlattenIs
<1>4. FlattenSeq(ss) = ss[1] \o FlattenSeq(t)
 <2>1. CASE t = <<>>
  <3>1. Len(ss) = 1
   BY <1>2, <2>1
  <3>2. FlattenSeq(ss) = ss[1]
   BY <1>3, <3>1 DEF FlatUpTo
  <3>3. ss[1] \o <<>> = ss[1]
   BY <1>2, ConcatEmptySeq
  <3> QED BY <2>1, <3>2, <3>3, FlatEmpty
 <2>2. CASE t # <<>>
  <3>1. PICK jt \in [1 .. Len(t) -> Seq(S)] : FlatUpTo(jt, t) /\ FlattenSeq(t) = jt[Len(t)]
   BY <2>2, FlattenIs
  <3> DEFINE Agree(m) == it[m + 1] = ss[1] \o jt[m]
             P == {k \in Nat : k + 1 <= Len(t) => Agree(k + 1)}
  <3>2. Agree(1)
   <4>1. 2 \in 2 .. Len(ss) /\ 1 \in 1 .. Len(t) /\ 2 - 1 = 1 /\ 1 + 1 = 2
    <5>1. Len(t) # 0
     BY <2>2
    <5> QED BY <1>2, <5>1
   <4>2. it[2] = it[2 - 1] \o ss[2] /\ it[1] = ss[1] /\ jt[1] = t[1]
    BY <1>3, <3>1, <4>1 DEF FlatUpTo
   <4>3. ss[1 + 1] = t[1]
    BY <1>2, <4>1
   <4> QED BY <4>1, <4>2, <4>3
  <3>3. ASSUME NEW m \in Nat \ {0}, m + 1 <= Len(t), Agree(m) PROVE Agree(m + 1)
   <4>1. /\ m \in 1 .. Len(t) /\ m + 1 \in 2 .. Len(t) /\ (m + 1) + 1 \in 2 .. Len(ss)
         /\ m + 1 \in 1 .. Len(t)
         /\ (m + 1) - 1 = m /\ ((m + 1) + 1) - 1 = m + 1
    BY <1>2, <3>3
   <4>2. it[(m + 1) + 1] = it[m + 1] \o ss[(m + 1) + 1]
    BY <1>3, <4>1 DEF FlatUpTo
   <4>3. jt[m + 1] = jt[m] \o t[m + 1]
    BY <3>1, <4>1 DEF FlatUpTo
   <4>4. ss[(m + 1) + 1] = t[m + 1]
    BY <1>2, <4>1
   <4>5. t[m + 1] \in Seq(S) /\ jt[m] \in Seq(S)
    <5>1. t[m + 1] \in Seq(S)
     BY <4>1, ElementOfSeq
    <5> QED BY <3>1, <4>1, <5>1
   <4>6. (ss[1] \o jt[m]) \o t[m + 1] = ss[1] \o (jt[m] \o t[m + 1])
    <5>1. \A a, b, c \in Seq(S) : (a \o b) \o c = a \o (b \o c)
     BY ONLY Associative, SMTT(30)
    <5>2. ss[1] \in Seq(S) /\ t[m + 1] \in Seq(S) /\ jt[m] \in Seq(S)
     BY <1>2, <4>5
    <5> QED BY ONLY <5>1, <5>2
   <4> QED BY <3>3, <4>2, <4>3, <4>4, <4>6
  <3> HIDE DEF Agree
  <3>4. Nat \subseteq P
   <4>1. 0 \in P
    BY <3>2
   <4>2. ASSUME NEW k \in Nat, k \in P PROVE k + 1 \in P
    <5>1. ASSUME (k + 1) + 1 <= Len(t) PROVE Agree((k + 1) + 1)
     <6>1. k + 1 \in Nat \ {0} /\ k + 1 <= Len(t)
      BY <1>2, <5>1
     <6>2. Agree(k + 1)
      BY <4>2, <6>1
     <6> QED BY <3>3, <5>1, <6>1, <6>2
    <5> QED BY <5>1
   <4> HIDE DEF P
   <4> QED BY <4>1, <4>2, SetInduction
  <3>5. PICK m \in Nat : m + 1 = Len(t)
   <4>1. Len(t) # 0
    BY <2>2
   <4>2. Len(t) - 1 \in Nat /\ (Len(t) - 1) + 1 = Len(t)
    BY <1>2, <4>1
   <4> QED BY <4>2
  <3>6. it[(m + 1) + 1] = ss[1] \o jt[m + 1]
   <4>1. m \in P
    <5> HIDE DEF P
    <5> QED BY <3>4
   <4>2. m + 1 <= Len(t)
    BY <3>5
   <4>3. Agree(m + 1)
    BY <4>1, <4>2
   <4> QED BY <4>3 DEF Agree
  <3> QED BY <1>2, <1>3, <3>1, <3>5, <3>6
 <2> QED BY <2>1, <2>2
<1> QED BY <1>1, <1>2, <1>4, FlatType

\* The first of a sequence and the rest of it.
LEMMA FirstAndRest ==
  ASSUME NEW S, NEW s \in Seq(S), NEW t \in Seq(S), s # <<>>
  PROVE  /\ s \o t # <<>> /\ (s \o t)[1] = s[1] /\ Tail(s \o t) = Tail(s) \o t
         /\ Tail(s) \in Seq(S) /\ Len(s) = Len(Tail(s)) + 1 /\ Len(Tail(s)) \in Nat
         /\ s[1] \in S /\ Head(s) = s[1] /\ s = <<s[1]>> \o Tail(s)
<1>1. Tail(s) \in Seq(S) /\ Len(s) = Len(Tail(s)) + 1 /\ Len(Tail(s)) \in Nat
      /\ \A i \in 1 .. Len(Tail(s)) : Tail(s)[i] = s[i + 1]
 BY HeadTailProperties
<1>2. s[1] \in S /\ Head(s) = s[1] /\ Len(s) \in Nat \ {0}
 BY <1>1
<1>3. s \o t \in Seq(S) /\ Len(s \o t) = Len(s) + Len(t) /\ Len(t) \in Nat
      /\ \A i \in 1 .. Len(s) + Len(t) : (s \o t)[i] = IF i <= Len(s) THEN s[i] ELSE t[i - Len(s)]
 BY ConcatProperties
<1>4. s \o t # <<>> /\ (s \o t)[1] = s[1]
 BY <1>2, <1>3
<1>5. /\ Tail(s \o t) \in Seq(S) /\ Len(Tail(s \o t)) = Len(s \o t) - 1
      /\ \A i \in 1 .. Len(Tail(s \o t)) : Tail(s \o t)[i] = (s \o t)[i + 1]
 BY <1>3, <1>4, HeadTailProperties
<1>6. /\ Tail(s) \o t \in Seq(S) /\ Len(Tail(s) \o t) = Len(Tail(s)) + Len(t)
      /\ \A i \in 1 .. Len(Tail(s)) + Len(t) :
            (Tail(s) \o t)[i] = IF i <= Len(Tail(s)) THEN Tail(s)[i] ELSE t[i - Len(Tail(s))]
 BY <1>1, ConcatProperties
<1>7. Tail(s \o t) = Tail(s) \o t
 <2>1. Len(Tail(s \o t)) = Len(Tail(s) \o t)
  BY <1>1, <1>3, <1>5, <1>6
 <2>2. ASSUME NEW i \in 1 .. Len(Tail(s \o t)) PROVE Tail(s \o t)[i] = (Tail(s) \o t)[i]
  <3>1. i + 1 \in 1 .. Len(s) + Len(t) /\ i \in 1 .. Len(Tail(s)) + Len(t)
   BY <1>1, <1>3, <1>5
  <3>2. (i + 1) - Len(s) = i - Len(Tail(s)) /\ (i + 1 <= Len(s) <=> i <= Len(Tail(s)))
   BY <1>1
  <3>3. i <= Len(Tail(s)) => i \in 1 .. Len(Tail(s))
   BY <1>1
  <3> QED BY <1>1, <1>3, <1>5, <1>6, <3>1, <3>2, <3>3
 <2> QED BY <1>5, <1>6, <2>1, <2>2, SeqEqual
<1>8. s = <<s[1]>> \o Tail(s)
 BY <1>1, <1>2
<1> QED BY <1>1, <1>2, <1>4, <1>7, <1>8
LEMMA SumOfNone == Sum(<<>>) = 0
<1>1. <<>> \in Seq(Nat)
 OBVIOUS
<1> QED BY <1>1, SumType

\* The sum of two sequences of numbers, one after the other.
LEMMA SumOfBoth ==
  ASSUME NEW f \in Seq(Nat), NEW g \in Seq(Nat)
  PROVE  Sum(f \o g) = Sum(f) + Sum(g)
<1> DEFINE Adds(n) == \A h \in Seq(Nat) : Len(h) = n => Sum(h \o g) = Sum(h) + Sum(g)
           P == {n \in Nat : Adds(n)}
<1>1. Adds(0)
 <2> SUFFICES ASSUME NEW h \in Seq(Nat), Len(h) = 0 PROVE Sum(h \o g) = Sum(h) + Sum(g)
  OBVIOUS
 <2>1. h = <<>> /\ h \o g = g
  BY ConcatEmptySeq
 <2>2. Sum(g) \in Nat
  BY SumType
 <2> QED BY <2>1, <2>2, SumOfNone
<1>2. ASSUME NEW n \in Nat, Adds(n) PROVE Adds(n + 1)
 <2> SUFFICES ASSUME NEW h \in Seq(Nat), Len(h) = n + 1 PROVE Sum(h \o g) = Sum(h) + Sum(g)
  OBVIOUS
 <2>1. h # <<>>
  OBVIOUS
 <2>2. /\ h \o g # <<>> /\ (h \o g)[1] = h[1] /\ Tail(h \o g) = Tail(h) \o g
       /\ Tail(h) \in Seq(Nat) /\ Len(Tail(h)) = n
  BY <2>1, FirstAndRest
 <2>3. h \o g \in Seq(Nat)
  BY ConcatProperties
 <2>4. Sum(h \o g) = h[1] + Sum(Tail(h) \o g)
  BY <2>2, <2>3, SumUnrolls
 <2>5. Sum(h) = h[1] + Sum(Tail(h)) /\ h[1] \in Nat
  BY <2>1, SumUnrolls
 <2>6. Sum(Tail(h) \o g) = Sum(Tail(h)) + Sum(g)
  BY <1>2, <2>2
 <2>7. Sum(Tail(h)) \in Nat /\ Sum(g) \in Nat
  BY <2>2, SumType
 <2> QED BY <2>4, <2>5, <2>6, <2>7
<1> HIDE DEF Adds
<1>3. Nat \subseteq P
 <2>1. 0 \in P
  BY <1>1
 <2>2. \A n \in Nat : n \in P => n + 1 \in P
  BY <1>2
 <2> HIDE DEF P
 <2> QED BY <2>1, <2>2, SetInduction
<1>4. Adds(Len(f)) /\ Len(f) \in Nat
 BY <1>3
<1> QED BY <1>4 DEF Adds

\* Each number of a sequence being c or more, their sum is c times as many or more.
LEMMA SumAtLeast ==
  ASSUME NEW f \in Seq(Nat), NEW c \in Nat, \A k \in 1 .. Len(f) : f[k] >= c
  PROVE  Sum(f) >= c * Len(f)
<1> DEFINE Enough(n) == \A h \in Seq(Nat) :
                           Len(h) = n /\ (\A k \in 1 .. Len(h) : h[k] >= c) => Sum(h) >= c * n
           P == {n \in Nat : Enough(n)}
<1>1. Enough(0)
 <2> SUFFICES ASSUME NEW h \in Seq(Nat), Len(h) = 0 PROVE Sum(h) >= c * 0
  OBVIOUS
 <2>1. h = <<>> /\ c * 0 = 0
  OBVIOUS
 <2> QED BY <2>1, SumOfNone
<1>2. ASSUME NEW n \in Nat, Enough(n) PROVE Enough(n + 1)
 <2> SUFFICES ASSUME NEW h \in Seq(Nat), Len(h) = n + 1, \A k \in 1 .. Len(h) : h[k] >= c
              PROVE  Sum(h) >= c * (n + 1)
  OBVIOUS
 <2>1. h # <<>> /\ 1 \in 1 .. Len(h)
  OBVIOUS
 <2>2. /\ Tail(h) \in Seq(Nat) /\ Len(Tail(h)) = n /\ h[1] >= c
       /\ \A k \in 1 .. Len(Tail(h)) : Tail(h)[k] = h[k + 1] /\ k + 1 \in 1 .. Len(h)
  BY <2>1, HeadTailProperties
 <2>3. \A k \in 1 .. Len(Tail(h)) : Tail(h)[k] >= c
  BY <2>2
 <2>4. Sum(Tail(h)) >= c * n
  BY <1>2, <2>2, <2>3
 <2>5. Sum(h) = h[1] + Sum(Tail(h)) /\ h[1] \in Nat
  BY <2>1, SumUnrolls
 <2>6. Sum(Tail(h)) \in Nat
  BY <2>2, SumType
 <2>7. c * (n + 1) = c * n + c /\ c * n \in Nat
  BY ONLY c \in Nat, n \in Nat
 <2> QED BY <2>2, <2>4, <2>5, <2>6, <2>7
<1> HIDE DEF Enough
<1>3. Nat \subseteq P
 <2>1. 0 \in P
  BY <1>1
 <2>2. \A n \in Nat : n \in P => n + 1 \in P
  BY <1>2
 <2> HIDE DEF P
 <2> QED BY <2>1, <2>2, SetInduction
<1>4. Enough(Len(f)) /\ Len(f) \in Nat
 BY <1>3
<1> QED BY <1>4 DEF Enough

\* What a function makes of each member of a sequence.
Image(g, s) == [k \in DOMAIN s |-> g[s[k]]]
Maps(g, S, T) == g \in [S -> T]

LEMMA ImageType ==
  ASSUME NEW S, NEW T, NEW g, Maps(g, S, T), NEW s \in Seq(S)
  PROVE  /\ Image(g, s) \in Seq(T) /\ Len(Image(g, s)) = Len(s)
         /\ \A i \in 1 .. Len(s) : Image(g, s)[i] = g[s[i]]
<1>1. PICK n \in Nat : n = Len(s) /\ DOMAIN s = 1 .. n /\ \A i \in 1 .. n : s[i] \in S
 OBVIOUS
<1>2. \A i \in 1 .. n : g[s[i]] \in T
 BY <1>1 DEF Maps
<1>3. Image(g, s) \in [1 .. n -> T] /\ \A i \in 1 .. n : Image(g, s)[i] = g[s[i]]
 BY <1>1, <1>2 DEF Image
<1>4. PICK h \in [1 .. n -> T] : h = Image(g, s)
 BY <1>3
<1>5. h \in Seq(T) /\ Len(h) = n
 BY <1>1
<1> QED BY <1>1, <1>3, <1>4, <1>5

LEMMA ImageOfBoth ==
  ASSUME NEW S, NEW T, NEW g, Maps(g, S, T), NEW s \in Seq(S), NEW t \in Seq(S)
  PROVE  Image(g, s \o t) = Image(g, s) \o Image(g, t)
<1>1. /\ s \o t \in Seq(S) /\ Len(s \o t) = Len(s) + Len(t) /\ Len(s) \in Nat /\ Len(t) \in Nat
      /\ \A i \in 1 .. Len(s) + Len(t) : (s \o t)[i] = IF i <= Len(s) THEN s[i] ELSE t[i - Len(s)]
 BY ConcatProperties
<1>0. Maps(g, S, T) /\ s \in Seq(S) /\ t \in Seq(S)
 OBVIOUS
<1>2. /\ Image(g, s) \in Seq(T) /\ Len(Image(g, s)) = Len(s)
      /\ \A i \in 1 .. Len(s) : Image(g, s)[i] = g[s[i]]
 BY ONLY <1>0, ImageType
<1>3. /\ Image(g, t) \in Seq(T) /\ Len(Image(g, t)) = Len(t)
      /\ \A i \in 1 .. Len(t) : Image(g, t)[i] = g[t[i]]
 BY ONLY <1>0, ImageType
<1>4. /\ Image(g, s \o t) \in Seq(T) /\ Len(Image(g, s \o t)) = Len(s) + Len(t)
      /\ \A i \in 1 .. Len(s) + Len(t) : Image(g, s \o t)[i] = g[(s \o t)[i]]
 <2>1. /\ Image(g, s \o t) \in Seq(T) /\ Len(Image(g, s \o t)) = Len(s \o t)
       /\ \A i \in 1 .. Len(s \o t) : Image(g, s \o t)[i] = g[(s \o t)[i]]
  <3>1. PICK u \in Seq(S) : u = s \o t
   BY <1>1
  <3>2. /\ Image(g, u) \in Seq(T) /\ Len(Image(g, u)) = Len(u)
        /\ \A i \in 1 .. Len(u) : Image(g, u)[i] = g[u[i]]
   <4>1. u \in Seq(S)
    OBVIOUS
   <4> HIDE <3>1
   <4> QED BY ONLY <1>0, <4>1, ImageType
  <3> QED BY <3>1, <3>2
 <2> QED BY <1>1, <2>1
<1>5. PICK a \in Seq(T), b \in Seq(T) : a = Image(g, s) /\ b = Image(g, t)
 BY <1>2, <1>3
<1>6. /\ a \o b \in Seq(T) /\ Len(a \o b) = Len(s) + Len(t)
      /\ \A i \in 1 .. Len(s) + Len(t) : (a \o b)[i] = IF i <= Len(s) THEN a[i] ELSE b[i - Len(s)]
 <2>1. Len(a) = Len(s) /\ Len(b) = Len(t)
  BY <1>2, <1>3, <1>5
 <2>2. /\ a \o b \in Seq(T) /\ Len(a \o b) = Len(a) + Len(b)
       /\ \A i \in 1 .. Len(a) + Len(b) : (a \o b)[i] = IF i <= Len(a) THEN a[i] ELSE b[i - Len(a)]
  BY ConcatProperties
 <2> QED BY <2>1, <2>2
<1>7. ASSUME NEW i \in 1 .. Len(s) + Len(t) PROVE Image(g, s \o t)[i] = (a \o b)[i]
 <2>1. CASE i <= Len(s)
  <3>1. i \in 1 .. Len(s)
   BY <1>1, <2>1
  <3> QED BY <1>1, <1>2, <1>4, <1>5, <1>6, <2>1, <3>1
 <2>2. CASE ~(i <= Len(s))
  <3>1. i - Len(s) \in 1 .. Len(t)
   BY <1>1, <2>2
  <3> QED BY <1>1, <1>3, <1>4, <1>5, <1>6, <2>2, <3>1, ZenonT(40)
 <2> QED BY <2>1, <2>2
<1>8. PICK c \in Seq(T) : c = Image(g, s \o t)
 BY <1>4
<1>9. c = a \o b
 BY <1>4, <1>6, <1>7, <1>8, SeqEqual
<1> QED BY <1>5, <1>8, <1>9

-----------------------------------------------------------------------------
(* Cells and their bytes. *)

Marks == {"request", "response", "linear", "angular"}
Values == Int \cup Extents \cup STRING \cup Marks
CellSet == Nat \X Values

Widths(cells) == [k \in DOMAIN cells |-> cells[k][1]]
WidthOf == [c \in CellSet |-> c[1]]

LEMMA WidthsType ==
  ASSUME NEW s \in Seq(CellSet)
  PROVE  /\ Widths(s) = Image(WidthOf, s) /\ Widths(s) \in Seq(Nat) /\ Len(Widths(s)) = Len(s)
         /\ Bytes(s) = Sum(Widths(s)) /\ Bytes(s) \in Nat
<1>1. WidthOf \in [CellSet -> Nat] /\ \A c \in CellSet : WidthOf[c] = c[1]
 BY DEF CellSet, WidthOf
<1>2. Widths(s) = Image(WidthOf, s)
 <2>1. \A k \in DOMAIN s : s[k] \in CellSet
  OBVIOUS
 <2> QED BY <1>1, <2>1 DEF Widths, Image
<1>3. Widths(s) \in Seq(Nat) /\ Len(Widths(s)) = Len(s)
 <2>1. Maps(WidthOf, CellSet, Nat) /\ s \in Seq(CellSet)
  BY <1>1 DEF Maps
 <2> QED BY ONLY <1>2, <2>1, ImageType
<1>4. Bytes(s) = Sum(Widths(s))
 BY DEF Bytes, Widths
<1> QED BY <1>2, <1>3, <1>4, SumType

LEMMA BytesOfBoth ==
  ASSUME NEW s \in Seq(CellSet), NEW t \in Seq(CellSet)
  PROVE  Bytes(s \o t) = Bytes(s) + Bytes(t)
<1>1. s \o t \in Seq(CellSet)
 BY ConcatProperties
<1>2. Maps(WidthOf, CellSet, Nat)
 BY DEF CellSet, WidthOf, Maps
<1>3. s \in Seq(CellSet) /\ t \in Seq(CellSet)
 OBVIOUS
<1>4. Image(WidthOf, s \o t) = Image(WidthOf, s) \o Image(WidthOf, t)
 BY ONLY <1>2, <1>3, ImageOfBoth
<1>5. Widths(s \o t) = Widths(s) \o Widths(t)
 BY ONLY <1>1, <1>3, <1>4, WidthsType
<1> QED BY ONLY <1>1, <1>3, <1>5, WidthsType, SumOfBoth

LEMMA BytesOfNone == Bytes(<<>>) = 0
<1>1. [k \in DOMAIN <<>> |-> <<>>[k][1]] = <<>>
 OBVIOUS
<1> QED BY <1>1, SumOfNone DEF Bytes

LEMMA BytesOfOne ==
  ASSUME NEW c \in CellSet
  PROVE  Bytes(<<c>>) = c[1] /\ c[1] \in Nat
<1>1. c[1] \in Nat /\ Widths(<<c>>) = <<c[1]>> /\ <<c>> \in Seq(CellSet)
 BY DEF CellSet, Widths
<1>2. <<c[1]>> \in Seq(Nat) /\ <<c[1]>> # <<>> /\ Tail(<<c[1]>>) = <<>> /\ <<c[1]>>[1] = c[1]
 BY <1>1
<1>3. Sum(<<c[1]>>) = c[1] + Sum(<<>>)
 BY <1>2, SumUnrolls
<1>4. Bytes(<<c>>) = Sum(<<c[1]>>)
 BY <1>1, WidthsType
<1> QED BY <1>1, <1>3, <1>4, SumOfNone

\* Cells of one width.
LEMMA BytesOfEqual ==
  ASSUME NEW s \in Seq(CellSet), NEW w \in Nat, \A k \in 1 .. Len(s) : s[k][1] = w
  PROVE  Bytes(s) = w * Len(s)
<1> DEFINE Equal(n) == \A h \in Seq(CellSet) :
                           Len(h) = n /\ (\A k \in 1 .. Len(h) : h[k][1] = w) => Bytes(h) = w * n
           P == {n \in Nat : Equal(n)}
<1>1. Equal(0)
 <2> SUFFICES ASSUME NEW h \in Seq(CellSet), Len(h) = 0 PROVE Bytes(h) = w * 0
  OBVIOUS
 <2>1. h = <<>> /\ w * 0 = 0
  OBVIOUS
 <2> QED BY <2>1, BytesOfNone
<1>2. ASSUME NEW n \in Nat, Equal(n) PROVE Equal(n + 1)
 <2> SUFFICES ASSUME NEW h \in Seq(CellSet), Len(h) = n + 1, \A k \in 1 .. Len(h) : h[k][1] = w
              PROVE  Bytes(h) = w * (n + 1)
  OBVIOUS
 <2>1. h # <<>> /\ 1 \in 1 .. Len(h) /\ h[1] \in CellSet
  OBVIOUS
 <2>2. /\ Tail(h) \in Seq(CellSet) /\ Len(Tail(h)) = n /\ h[1][1] = w
       /\ \A k \in 1 .. Len(Tail(h)) : Tail(h)[k] = h[k + 1] /\ k + 1 \in 1 .. Len(h)
  BY <2>1, HeadTailProperties
 <2>3. \A k \in 1 .. Len(Tail(h)) : Tail(h)[k][1] = w
  BY <2>2
 <2>4. Bytes(Tail(h)) = w * n
  BY <1>2, <2>2, <2>3
 <2>5. h = <<h[1]>> \o Tail(h) /\ <<h[1]>> \in Seq(CellSet)
  <3>1. h = <<h[1]>> \o Tail(h)
   BY <2>1, EmptySeq, FirstAndRest
  <3> QED BY <2>1, <3>1
 <2>6. Bytes(h) = w + Bytes(Tail(h))
  BY <2>1, <2>2, <2>5, BytesOfBoth, BytesOfOne
 <2>7. w * (n + 1) = w * n + w /\ w * n \in Nat
  BY ONLY w \in Nat, n \in Nat
 <2> QED BY <2>4, <2>6, <2>7
<1> HIDE DEF Equal
<1>3. Nat \subseteq P
 <2>1. 0 \in P
  BY <1>1
 <2>2. \A n \in Nat : n \in P => n + 1 \in P
  BY <1>2
 <2> HIDE DEF P
 <2> QED BY <2>1, <2>2, SetInduction
<1>4. Equal(Len(s)) /\ Len(s) \in Nat
 BY <1>3
<1> QED BY <1>4 DEF Equal
\* The bytes of flattened sequences of cells are the sum of the bytes of each.
LEMMA BytesOfFlat ==
  ASSUME NEW ss \in Seq(Seq(CellSet)), NEW f \in Seq(Nat), Len(f) = Len(ss),
         \A k \in 1 .. Len(ss) : f[k] = Bytes(ss[k])
  PROVE  Bytes(FlattenSeq(ss)) = Sum(f)
<1> DEFINE Agree(n) == \A uu \in Seq(Seq(CellSet)), h \in Seq(Nat) :
                          /\ Len(uu) = n /\ Len(h) = n
                          /\ \A k \in 1 .. n : h[k] = Bytes(uu[k])
                          => Bytes(FlattenSeq(uu)) = Sum(h)
           P == {n \in Nat : Agree(n)}
<1>1. Agree(0)
 <2> SUFFICES ASSUME NEW uu \in Seq(Seq(CellSet)), NEW h \in Seq(Nat), Len(uu) = 0, Len(h) = 0
              PROVE  Bytes(FlattenSeq(uu)) = Sum(h)
  OBVIOUS
 <2>1. uu = <<>> /\ h = <<>>
  OBVIOUS
 <2> QED BY <2>1, FlatEmpty, BytesOfNone, SumOfNone
<1>2. ASSUME NEW n \in Nat, Agree(n) PROVE Agree(n + 1)
 <2> SUFFICES ASSUME NEW uu \in Seq(Seq(CellSet)), NEW h \in Seq(Nat), Len(uu) = n + 1,
                     Len(h) = n + 1, \A k \in 1 .. n + 1 : h[k] = Bytes(uu[k])
              PROVE  Bytes(FlattenSeq(uu)) = Sum(h)
  OBVIOUS
 <2>1. uu # <<>> /\ h # <<>> /\ 1 \in 1 .. n + 1
  OBVIOUS
 <2>2. PICK vv : vv = Tail(uu)
  OBVIOUS
 <2>3. PICK t : t = Tail(h)
  OBVIOUS
 <2>4. vv \in Seq(Seq(CellSet)) /\ Len(vv) = n /\ \A k \in 1 .. n : vv[k] = uu[k + 1]
  BY <2>1, <2>2, HeadTailProperties
 <2>5. t \in Seq(Nat) /\ Len(t) = n /\ \A k \in 1 .. n : t[k] = h[k + 1]
  BY <2>1, <2>3, HeadTailProperties
 <2>6. \A k \in 1 .. n : t[k] = Bytes(vv[k])
  <3>1. \A k \in 1 .. n : k + 1 \in 1 .. n + 1
   OBVIOUS
  <3> QED BY <2>4, <2>5, <3>1
 <2>7. Bytes(FlattenSeq(vv)) = Sum(t)
  BY <1>2, <2>4, <2>5, <2>6
 <2>8. /\ FlattenSeq(uu) = uu[1] \o FlattenSeq(vv) /\ uu[1] \in Seq(CellSet)
       /\ FlattenSeq(vv) \in Seq(CellSet)
  BY <2>1, <2>2, FlatUnrolls
 <2>9. Sum(h) = h[1] + Sum(t)
  BY <2>1, <2>3, SumUnrolls
 <2>10. Bytes(FlattenSeq(uu)) = Bytes(uu[1]) + Bytes(FlattenSeq(vv))
  BY <2>8, BytesOfBoth
 <2> QED BY <2>1, <2>7, <2>9, <2>10
<1> HIDE DEF Agree
<1>3. Nat \subseteq P
 <2>1. 0 \in P
  BY <1>1
 <2>2. \A n \in Nat : n \in P => n + 1 \in P
  BY <1>2
 <2> HIDE DEF P
 <2> QED BY <2>1, <2>2, SetInduction
<1>4. Agree(Len(f)) /\ Len(f) \in Nat
 BY <1>3
<1> QED BY <1>4 DEF Agree

\* What a function makes of flattened sequences is the flattened images.
LEMMA ImageOfFlat ==
  ASSUME NEW S, NEW T, NEW g, Maps(g, S, T), NEW ss \in Seq(Seq(S)), NEW tt \in Seq(Seq(T)),
         Len(tt) = Len(ss), \A k \in 1 .. Len(ss) : tt[k] = Image(g, ss[k])
  PROVE  Image(g, FlattenSeq(ss)) = FlattenSeq(tt)
<1> DEFINE Agree(n) == \A uu \in Seq(Seq(S)), ww \in Seq(Seq(T)) :
                          /\ Len(uu) = n /\ Len(ww) = n
                          /\ \A k \in 1 .. n : ww[k] = Image(g, uu[k])
                          => Image(g, FlattenSeq(uu)) = FlattenSeq(ww)
           P == {n \in Nat : Agree(n)}
<1>0. \A a, b \in Seq(S) : Image(g, a \o b) = Image(g, a) \o Image(g, b)
 <2> TAKE a, b \in Seq(S)
 <2>1. a \in Seq(S) /\ b \in Seq(S) /\ Maps(g, S, T)
  OBVIOUS
 <2> QED BY ONLY <2>1, ImageOfBoth
<1>1. Agree(0)
 <2> SUFFICES ASSUME NEW uu \in Seq(Seq(S)), NEW ww \in Seq(Seq(T)), Len(uu) = 0, Len(ww) = 0
              PROVE  Image(g, FlattenSeq(uu)) = FlattenSeq(ww)
  OBVIOUS
 <2>1. uu = <<>> /\ ww = <<>>
  OBVIOUS
 <2>2. Image(g, <<>>) = <<>>
  BY DEF Image
 <2> QED BY <2>1, <2>2, FlatEmpty
<1>2. ASSUME NEW n \in Nat, Agree(n) PROVE Agree(n + 1)
 <2> SUFFICES ASSUME NEW uu \in Seq(Seq(S)), NEW ww \in Seq(Seq(T)), Len(uu) = n + 1,
                     Len(ww) = n + 1, \A k \in 1 .. n + 1 : ww[k] = Image(g, uu[k])
              PROVE  Image(g, FlattenSeq(uu)) = FlattenSeq(ww)
  OBVIOUS
 <2>1. uu # <<>> /\ ww # <<>> /\ 1 \in 1 .. n + 1
  OBVIOUS
 <2>2. PICK vv : vv = Tail(uu)
  OBVIOUS
 <2>3. PICK t : t = Tail(ww)
  OBVIOUS
 <2>4. vv \in Seq(Seq(S)) /\ Len(vv) = n /\ \A k \in 1 .. n : vv[k] = uu[k + 1]
  BY <2>1, <2>2, HeadTailProperties
 <2>5. t \in Seq(Seq(T)) /\ Len(t) = n /\ \A k \in 1 .. n : t[k] = ww[k + 1]
  BY <2>1, <2>3, HeadTailProperties
 <2>6. \A k \in 1 .. n : t[k] = Image(g, vv[k])
  <3>1. \A k \in 1 .. n : k + 1 \in 1 .. n + 1
   OBVIOUS
  <3> QED BY <2>4, <2>5, <3>1
 <2>7. Image(g, FlattenSeq(vv)) = FlattenSeq(t)
  BY <1>2, <2>4, <2>5, <2>6
 <2>8. /\ FlattenSeq(uu) = uu[1] \o FlattenSeq(vv) /\ uu[1] \in Seq(S)
       /\ FlattenSeq(vv) \in Seq(S)
  BY <2>1, <2>2, FlatUnrolls
 <2>9. FlattenSeq(ww) = ww[1] \o FlattenSeq(t)
  BY <2>1, <2>3, FlatUnrolls
 <2>10. Image(g, FlattenSeq(uu)) = Image(g, uu[1]) \o Image(g, FlattenSeq(vv))
  BY <1>0, <2>8
 <2> QED BY <2>1, <2>7, <2>9, <2>10
<1> HIDE DEF Agree
<1>3. Nat \subseteq P
 <2>1. 0 \in P
  BY <1>1
 <2>2. \A n \in Nat : n \in P => n + 1 \in P
  BY <1>2
 <2> HIDE DEF P
 <2> QED BY <2>1, <2>2, SetInduction
<1>4. Agree(Len(ss)) /\ Len(ss) \in Nat
 BY <1>3
<1> QED BY <1>4 DEF Agree

\* The image of a sequence begins with what the function makes of the first.
LEMMA ImageUnrolls ==
  ASSUME NEW S, NEW T, NEW g, Maps(g, S, T), NEW s \in Seq(S), s # <<>>
  PROVE  /\ Image(g, s) # <<>> /\ Image(g, s)[1] = g[s[1]] /\ g[s[1]] \in T
         /\ Tail(Image(g, s)) = Image(g, Tail(s))
         /\ Image(g, s) \in Seq(T) /\ Tail(s) \in Seq(S) /\ s[1] \in S
<1>1. PICK t : t = Tail(s)
 OBVIOUS
<1>2. /\ t \in Seq(S) /\ Len(s) = Len(t) + 1 /\ Len(t) \in Nat /\ s[1] \in S
      /\ \A k \in 1 .. Len(t) : t[k] = s[k + 1]
 BY <1>1, HeadTailProperties
<1>3. /\ Image(g, s) \in Seq(T) /\ Len(Image(g, s)) = Len(s)
      /\ \A k \in 1 .. Len(s) : Image(g, s)[k] = g[s[k]]
 <2>1. Maps(g, S, T) /\ s \in Seq(S)
  OBVIOUS
 <2> QED BY ONLY <2>1, ImageType
<1>4. /\ Image(g, t) \in Seq(T) /\ Len(Image(g, t)) = Len(t)
      /\ \A k \in 1 .. Len(t) : Image(g, t)[k] = g[t[k]]
 <2>1. Maps(g, S, T) /\ t \in Seq(S)
  BY <1>2
 <2> QED BY ONLY <2>1, ImageType
<1>5. Image(g, s) # <<>> /\ Image(g, s)[1] = g[s[1]]
 BY <1>2, <1>3
<1>6. PICK i : i = Image(g, s)
 OBVIOUS
<1>7. i \in Seq(T) /\ i # <<>> /\ Len(i) = Len(t) + 1
 BY <1>2, <1>3, <1>5, <1>6
<1>8. /\ Tail(i) \in Seq(T) /\ Len(Tail(i)) = Len(t)
      /\ \A k \in 1 .. Len(t) : Tail(i)[k] = i[k + 1]
 BY <1>2, <1>7, HeadTailProperties
<1>9. \A k \in 1 .. Len(t) : Tail(i)[k] = Image(g, t)[k]
 <2>1. \A k \in 1 .. Len(t) : k + 1 \in 1 .. Len(s)
  BY <1>2
 <2> QED BY <1>2, <1>3, <1>4, <1>6, <1>8, <2>1
<1>10. Tail(i) = Image(g, t)
 <2>1. PICK a \in Seq(T), b \in Seq(T) : a = Tail(i) /\ b = Image(g, t)
  BY <1>4, <1>8
 <2>2. Len(a) = Len(b) /\ \A k \in 1 .. Len(a) : a[k] = b[k]
  BY <1>4, <1>8, <1>9, <2>1
 <2> QED BY <2>1, <2>2, SeqEqual
<1>11. g[s[1]] \in T
 BY <1>2 DEF Maps
<1> QED BY <1>1, <1>2, <1>3, <1>5, <1>6, <1>10, <1>11

LEMMA FlatOfImage ==
  ASSUME NEW S, NEW T, NEW g, Maps(g, S, Seq(T)), NEW s \in Seq(S), s # <<>>
  PROVE  /\ FlattenSeq(Image(g, s)) = g[s[1]] \o FlattenSeq(Image(g, Tail(s)))
         /\ g[s[1]] \in Seq(T) /\ FlattenSeq(Image(g, Tail(s))) \in Seq(T)
<1>1. Maps(g, S, Seq(T)) /\ s \in Seq(S) /\ s # <<>>
 OBVIOUS
<1>2. /\ Image(g, s) # <<>> /\ Image(g, s)[1] = g[s[1]] /\ g[s[1]] \in Seq(T)
      /\ Tail(Image(g, s)) = Image(g, Tail(s)) /\ Image(g, s) \in Seq(Seq(T))
 BY ONLY <1>1, ImageUnrolls
<1>3. PICK i \in Seq(Seq(T)) : i = Image(g, s)
 BY <1>2
<1>4. i # <<>>
 BY <1>2, <1>3
<1>5. FlattenSeq(i) = i[1] \o FlattenSeq(Tail(i)) /\ FlattenSeq(Tail(i)) \in Seq(T)
 BY <1>4, FlatUnrolls
<1> QED BY <1>2, <1>3, <1>5

LEMMA SumOfImage ==
  ASSUME NEW S, NEW g, Maps(g, S, Nat), NEW s \in Seq(S), s # <<>>
  PROVE  /\ Sum(Image(g, s)) = g[s[1]] + Sum(Image(g, Tail(s)))
         /\ g[s[1]] \in Nat /\ Sum(Image(g, Tail(s))) \in Nat
<1>1. Maps(g, S, Nat) /\ s \in Seq(S) /\ s # <<>>
 OBVIOUS
<1>2. /\ Image(g, s) # <<>> /\ Image(g, s)[1] = g[s[1]] /\ g[s[1]] \in Nat
      /\ Tail(Image(g, s)) = Image(g, Tail(s)) /\ Image(g, s) \in Seq(Nat)
 BY ONLY <1>1, ImageUnrolls
<1>3. PICK i \in Seq(Nat) : i = Image(g, s)
 BY <1>2
<1>4. Sum(i) = i[1] + Sum(Tail(i)) /\ Tail(i) \in Seq(Nat)
 BY <1>2, <1>3, SumUnrolls
<1> QED BY <1>2, <1>3, <1>4, SumType
\* A run of cells of one width.
Run(w, v) == [k \in DOMAIN v |-> <<w, v[k]>>]

LEMMA EachIsARun ==
  ASSUME NEW v
  PROVE  Each(Point, v) = Run(24, v) /\ Each(Word, v) = Run(4, v) /\ Each(Box, v) = Run(48, v)
 BY DEF Each, Point, Word, Box, Run

LEMMA RunFacts ==
  ASSUME NEW v \in Seq(Values), NEW w \in Nat
  PROVE  /\ Run(w, v) \in Seq(CellSet) /\ Len(Run(w, v)) = Len(v)
         /\ \A k \in 1 .. Len(v) : Run(w, v)[k] = <<w, v[k]>>
         /\ Bytes(Run(w, v)) = w * Len(v)
<1>1. Run(w, v) \in Seq(CellSet) /\ Len(Run(w, v)) = Len(v)
 <2>1. \A k \in DOMAIN v : <<w, v[k]>> \in CellSet
  BY DEF CellSet
 <2> HIDE DEF CellSet, Values
 <2> QED BY <2>1 DEF Run
<1>2. \A k \in 1 .. Len(v) : Run(w, v)[k] = <<w, v[k]>>
 BY DEF Run
<1>3. \A k \in 1 .. Len(Run(w, v)) : Run(w, v)[k][1] = w
 BY <1>1, <1>2
<1>4. Bytes(Run(w, v)) = w * Len(Run(w, v))
 BY <1>1, <1>3, BytesOfEqual
<1> QED BY <1>1, <1>2, <1>4
\* Integers, extents and texts are values.
LEMMA Widened ==
  ASSUME NEW v, v \in Seq(Int) \/ v \in Seq(Nat) \/ v \in Seq(Extents) \/ v \in Seq(STRING)
  PROVE  v \in Seq(Values) /\ Len(v) \in Nat
<1>1. /\ \A S : S \subseteq Values => Seq(S) \subseteq Seq(Values)
      /\ \A w : w \in Seq(Values) => Len(w) \in Nat
 <2>1. \A S : S \subseteq Values => Seq(S) \subseteq Seq(Values)
  BY SeqMonotonic
 <2>2. \A w : w \in Seq(Values) => Len(w) \in Nat
  BY LenProperties
 <2> QED BY <2>1, <2>2
<1>2. Int \subseteq Values
 BY DEF Values
<1>3. Nat \subseteq Values
 BY DEF Values
<1>4. Extents \subseteq Values
 BY Zenon DEF Values
<1>5. STRING \subseteq Values
 BY Zenon DEF Values
<1>6. /\ Seq(Int) \subseteq Seq(Values) /\ Seq(Nat) \subseteq Seq(Values)
      /\ Seq(Extents) \subseteq Seq(Values) /\ Seq(STRING) \subseteq Seq(Values)
 BY Zenon, <1>1, <1>2, <1>3, <1>4, <1>5
<1> QED BY Zenon, <1>1, <1>6

LEMMA WordFacts ==
  ASSUME NEW v \in Values
  PROVE  /\ Word(v) \in CellSet /\ Number(v) \in CellSet /\ Point(v) \in CellSet /\ Box(v) \in CellSet
         /\ Bytes(<<Word(v)>>) = 4
<1>1. Word(v) \in CellSet /\ Number(v) \in CellSet /\ Point(v) \in CellSet /\ Box(v) \in CellSet
 BY DEF Word, Number, Point, Box, CellSet
<1>2. Word(v)[1] = 4
 BY DEF Word
<1> QED BY <1>1, <1>2, BytesOfOne

\* Nothing but the type of a width is needed of a cell from here on.
LEMMA CellsJoin ==
  ASSUME NEW s \in Seq(CellSet), NEW t \in Seq(CellSet)
  PROVE  s \o t \in Seq(CellSet) /\ Bytes(s \o t) = Bytes(s) + Bytes(t)
         /\ Bytes(s) \in Nat /\ Bytes(t) \in Nat /\ Len(s \o t) = Len(s) + Len(t)
 BY ConcatProperties, BytesOfBoth, WidthsType

\* A list of things, each in its cells and of its size.
LEMMA ListFacts ==
  ASSUME NEW S, NEW g, NEW f, NEW v \in Seq(S), NEW c \in Nat,
         Maps(g, S, Seq(CellSet)), Maps(f, S, Nat),
         \A x \in S : f[x] = Bytes(g[x]) /\ f[x] >= c
  PROVE  /\ FlattenSeq(Image(g, v)) \in Seq(CellSet)
         /\ Bytes(FlattenSeq(Image(g, v))) = Sum(Image(f, v))
         /\ Sum(Image(f, v)) \in Nat /\ Sum(Image(f, v)) >= c * Len(v)
<1>1. /\ Image(g, v) \in Seq(Seq(CellSet)) /\ Len(Image(g, v)) = Len(v)
      /\ \A i \in 1 .. Len(v) : Image(g, v)[i] = g[v[i]]
 <2>1. v \in Seq(S) /\ Maps(g, S, Seq(CellSet))
  OBVIOUS
 <2> QED BY ONLY <2>1, ImageType
<1>2. /\ Image(f, v) \in Seq(Nat) /\ Len(Image(f, v)) = Len(v)
      /\ \A i \in 1 .. Len(v) : Image(f, v)[i] = f[v[i]]
 <2>1. v \in Seq(S) /\ Maps(f, S, Nat)
  OBVIOUS
 <2> QED BY ONLY <2>1, ImageType
<1>3. \A i \in 1 .. Len(v) : f[v[i]] = Bytes(g[v[i]]) /\ f[v[i]] >= c
 <2>1. \A i \in 1 .. Len(v) : v[i] \in S
  OBVIOUS
 <2> QED BY <2>1
<1>4. PICK cc \in Seq(Seq(CellSet)), h \in Seq(Nat) : cc = Image(g, v) /\ h = Image(f, v)
 BY <1>1, <1>2
<1>5. /\ Len(h) = Len(cc) /\ Len(h) = Len(v)
      /\ \A k \in 1 .. Len(cc) : h[k] = Bytes(cc[k]) /\ h[k] >= c
 BY <1>1, <1>2, <1>3, <1>4, SMTT(30)
<1>6. Bytes(FlattenSeq(cc)) = Sum(h)
 BY <1>5, BytesOfFlat
<1>7. Sum(h) >= c * Len(h) /\ Sum(h) \in Nat
 BY <1>5, SumAtLeast, SumType
<1>8. FlattenSeq(cc) \in Seq(CellSet)
 BY FlatType
<1> QED BY <1>4, <1>5, <1>6, <1>7, <1>8

\* A flattened sequence of sequences, one after the other.
LEMMA FlatOfBoth ==
  ASSUME NEW S, NEW aa \in Seq(Seq(S)), NEW bb \in Seq(Seq(S))
  PROVE  FlattenSeq(aa \o bb) = FlattenSeq(aa) \o FlattenSeq(bb)
<1> DEFINE Joins(n) == \A h \in Seq(Seq(S)) :
                          Len(h) = n => FlattenSeq(h \o bb) = FlattenSeq(h) \o FlattenSeq(bb)
           P == {n \in Nat : Joins(n)}
<1>0. FlattenSeq(bb) \in Seq(S)
 BY FlatType
<1>1. Joins(0)
 <2> SUFFICES ASSUME NEW h \in Seq(Seq(S)), Len(h) = 0
              PROVE  FlattenSeq(h \o bb) = FlattenSeq(h) \o FlattenSeq(bb)
  OBVIOUS
 <2>1. h = <<>> /\ h \o bb = bb
  BY ConcatEmptySeq
 <2>2. PICK b \in Seq(S) : b = FlattenSeq(bb)
  BY <1>0
 <2>3. <<>> \o b = b
  BY ConcatEmptySeq
 <2> QED BY <2>1, <2>2, <2>3, FlatEmpty
<1>2. ASSUME NEW n \in Nat, Joins(n) PROVE Joins(n + 1)
 <2> SUFFICES ASSUME NEW h \in Seq(Seq(S)), Len(h) = n + 1
              PROVE  FlattenSeq(h \o bb) = FlattenSeq(h) \o FlattenSeq(bb)
  OBVIOUS
 <2>1. h # <<>>
  OBVIOUS
 <2>2. PICK t : t = Tail(h)
  OBVIOUS
 <2>3. /\ h \o bb # <<>> /\ (h \o bb)[1] = h[1] /\ Tail(h \o bb) = t \o bb
       /\ t \in Seq(Seq(S)) /\ Len(t) = n
  BY <2>1, <2>2, FirstAndRest
 <2>4. h \o bb \in Seq(Seq(S))
  BY ConcatProperties
 <2>5. PICK j \in Seq(Seq(S)) : j = h \o bb
  BY <2>4
 <2>6. FlattenSeq(j) = j[1] \o FlattenSeq(Tail(j))
  BY <2>3, <2>5, FlatUnrolls
 <2>7. FlattenSeq(h) = h[1] \o FlattenSeq(t) /\ h[1] \in Seq(S) /\ FlattenSeq(t) \in Seq(S)
  BY <2>1, <2>2, FlatUnrolls
 <2>8. FlattenSeq(t \o bb) = FlattenSeq(t) \o FlattenSeq(bb)
  BY <1>2, <2>3
 <2>9. FlattenSeq(j) = h[1] \o (FlattenSeq(t) \o FlattenSeq(bb))
  BY <2>3, <2>5, <2>6, <2>8
 <2>10. PICK x \in Seq(S), y \in Seq(S), z \in Seq(S) :
            x = h[1] /\ y = FlattenSeq(t) /\ z = FlattenSeq(bb)
  BY <1>0, <2>7
 <2>11. (x \o y) \o z = x \o (y \o z)
  <3>1. x \in Seq(S) /\ y \in Seq(S) /\ z \in Seq(S)
   OBVIOUS
  <3> QED BY ONLY <3>1, Associative, SMTT(30)
 <2> QED BY <2>5, <2>7, <2>9, <2>10, <2>11
<1> HIDE DEF Joins
<1>3. Nat \subseteq P
 <2>1. 0 \in P
  BY <1>1
 <2>2. \A n \in Nat : n \in P => n + 1 \in P
  BY <1>2
 <2> HIDE DEF P
 <2> QED BY <2>1, <2>2, SetInduction
<1>4. Joins(Len(aa)) /\ Len(aa) \in Nat
 BY <1>3
<1> QED BY <1>4 DEF Joins
\* The bytes of the headers, cell by cell.
LEMMA BytesOfEleven ==
  ASSUME NEW s \in Seq(CellSet), Len(s) = 11
  PROVE  Bytes(s) = s[1][1] + s[2][1] + s[3][1] + s[4][1] + s[5][1] + s[6][1] + s[7][1]
                    + s[8][1] + s[9][1] + s[10][1] + s[11][1]
<1>1. PICK f \in Seq(Nat) : f = Widths(s)
 BY WidthsType
<1>2. Len(f) = 11 /\ Bytes(s) = Sum(f) /\ \A k \in 1 .. 11 : f[k] = s[k][1]
 <2>1. Len(f) = Len(s) /\ Bytes(s) = Sum(f)
  BY <1>1, WidthsType
 <2>2. \A k \in DOMAIN s : f[k] = s[k][1]
  BY <1>1 DEF Widths
 <2>3. DOMAIN s = 1 .. Len(s)
  OBVIOUS
 <2> QED BY <2>1, <2>2, <2>3
<1>3. PICK sums : UpTo(sums, f) /\ Sum(f) = sums[Len(f)]
 BY SumIs
<1>4. sums[0] = 0 /\ \A k \in 1 .. 11 : sums[k] = sums[k - 1] + f[k] /\ f[k] \in Nat
 <2>1. sums[0] = 0 /\ \A k \in 1 .. Len(f) : sums[k] = sums[k - 1] + f[k]
  BY <1>3 DEF UpTo
 <2>2. \A k \in 1 .. Len(f) : f[k] \in Nat
  OBVIOUS
 <2> QED BY <1>2, <2>1, <2>2
<1>5. /\ sums[1] = f[1] /\ sums[2] = sums[1] + f[2] /\ sums[3] = sums[2] + f[3]
      /\ sums[4] = sums[3] + f[4] /\ sums[5] = sums[4] + f[5] /\ sums[6] = sums[5] + f[6]
      /\ sums[7] = sums[6] + f[7] /\ sums[8] = sums[7] + f[8] /\ sums[9] = sums[8] + f[9]
      /\ sums[10] = sums[9] + f[10] /\ sums[11] = sums[10] + f[11]
 <2> DEFINE Steps(j, k) == sums[k] = sums[j] + f[k]
 <2>1. \A k \in 1 .. 11, j \in 0 .. 10 : j = k - 1 => Steps(j, k)
  BY <1>4
 <2> HIDE DEF Steps
 <2>2. /\ Steps(0, 1) /\ Steps(1, 2) /\ Steps(2, 3) /\ Steps(3, 4) /\ Steps(4, 5) /\ Steps(5, 6)
       /\ Steps(6, 7) /\ Steps(7, 8) /\ Steps(8, 9) /\ Steps(9, 10) /\ Steps(10, 11)
  BY ONLY <2>1
 <2> QED BY ONLY <1>4, <2>2 DEF Steps
<1>6. sums[11] = f[1] + f[2] + f[3] + f[4] + f[5] + f[6] + f[7] + f[8] + f[9] + f[10] + f[11]
 <2>1. /\ f[1] \in Nat /\ f[2] \in Nat /\ f[3] \in Nat /\ f[4] \in Nat /\ f[5] \in Nat
       /\ f[6] \in Nat /\ f[7] \in Nat /\ f[8] \in Nat /\ f[9] \in Nat /\ f[10] \in Nat
       /\ f[11] \in Nat
  BY <1>4
 <2> QED BY ONLY <1>4, <1>5, <2>1
<1>7. /\ f[1] = s[1][1] /\ f[2] = s[2][1] /\ f[3] = s[3][1] /\ f[4] = s[4][1] /\ f[5] = s[5][1]
      /\ f[6] = s[6][1] /\ f[7] = s[7][1] /\ f[8] = s[8][1] /\ f[9] = s[9][1]
      /\ f[10] = s[10][1] /\ f[11] = s[11][1]
 BY ONLY <1>2
<1> QED BY ONLY <1>2, <1>3, <1>6, <1>7

LEMMA BytesOfThirteen ==
  ASSUME NEW s \in Seq(CellSet), Len(s) = 13
  PROVE  Bytes(s) = s[1][1] + s[2][1] + s[3][1] + s[4][1] + s[5][1] + s[6][1] + s[7][1]
                    + s[8][1] + s[9][1] + s[10][1] + s[11][1] + s[12][1] + s[13][1]
<1>1. PICK f \in Seq(Nat) : f = Widths(s)
 BY WidthsType
<1>2. Len(f) = 13 /\ Bytes(s) = Sum(f) /\ \A k \in 1 .. 13 : f[k] = s[k][1]
 <2>1. Len(f) = Len(s) /\ Bytes(s) = Sum(f)
  BY <1>1, WidthsType
 <2>2. \A k \in DOMAIN s : f[k] = s[k][1]
  BY <1>1 DEF Widths
 <2>3. DOMAIN s = 1 .. Len(s)
  OBVIOUS
 <2> QED BY <2>1, <2>2, <2>3
<1>3. PICK sums : UpTo(sums, f) /\ Sum(f) = sums[Len(f)]
 BY SumIs
<1>4. sums[0] = 0 /\ \A k \in 1 .. 13 : sums[k] = sums[k - 1] + f[k] /\ f[k] \in Nat
 <2>1. sums[0] = 0 /\ \A k \in 1 .. Len(f) : sums[k] = sums[k - 1] + f[k]
  BY <1>3 DEF UpTo
 <2>2. \A k \in 1 .. Len(f) : f[k] \in Nat
  OBVIOUS
 <2> QED BY <1>2, <2>1, <2>2
<1>5. /\ sums[1] = f[1] /\ sums[2] = sums[1] + f[2] /\ sums[3] = sums[2] + f[3]
      /\ sums[4] = sums[3] + f[4] /\ sums[5] = sums[4] + f[5] /\ sums[6] = sums[5] + f[6]
      /\ sums[7] = sums[6] + f[7] /\ sums[8] = sums[7] + f[8] /\ sums[9] = sums[8] + f[9]
      /\ sums[10] = sums[9] + f[10] /\ sums[11] = sums[10] + f[11]
      /\ sums[12] = sums[11] + f[12] /\ sums[13] = sums[12] + f[13]
 <2> DEFINE Steps(j, k) == sums[k] = sums[j] + f[k]
 <2>1. \A k \in 1 .. 13, j \in 0 .. 12 : j = k - 1 => Steps(j, k)
  BY <1>4
 <2> HIDE DEF Steps
 <2>2. /\ Steps(0, 1) /\ Steps(1, 2) /\ Steps(2, 3) /\ Steps(3, 4) /\ Steps(4, 5) /\ Steps(5, 6)
       /\ Steps(6, 7) /\ Steps(7, 8) /\ Steps(8, 9) /\ Steps(9, 10) /\ Steps(10, 11) /\ Steps(11, 12)
       /\ Steps(12, 13)
  BY ONLY <2>1
 <2> QED BY ONLY <1>4, <2>2, SMTT(30) DEF Steps
<1>6. sums[13] = f[1] + f[2] + f[3] + f[4] + f[5] + f[6] + f[7] + f[8] + f[9] + f[10] + f[11]
                 + f[12] + f[13]
 <2>1. /\ f[1] \in Nat /\ f[2] \in Nat /\ f[3] \in Nat /\ f[4] \in Nat /\ f[5] \in Nat
       /\ f[6] \in Nat /\ f[7] \in Nat /\ f[8] \in Nat /\ f[9] \in Nat /\ f[10] \in Nat
       /\ f[11] \in Nat /\ f[12] \in Nat /\ f[13] \in Nat
  BY <1>4
 <2> QED BY ONLY <1>4, <1>5, <2>1
<1>7. /\ f[1] = s[1][1] /\ f[2] = s[2][1] /\ f[3] = s[3][1] /\ f[4] = s[4][1] /\ f[5] = s[5][1]
      /\ f[6] = s[6][1] /\ f[7] = s[7][1] /\ f[8] = s[8][1] /\ f[9] = s[9][1]
      /\ f[10] = s[10][1] /\ f[11] = s[11][1] /\ f[12] = s[12][1] /\ f[13] = s[13][1]
 BY ONLY <1>2
<1> QED BY ONLY <1>2, <1>3, <1>6, <1>7

-----------------------------------------------------------------------------
(* What a request says of a solid, part by part. *)

Loops == Seq(Int)

LEMMA LoopFacts ==
  ASSUME NEW l \in Loops
  PROVE  /\ LoopCells(l) \in Seq(CellSet) /\ Bytes(LoopCells(l)) = LoopSize(l)
         /\ LoopSize(l) \in Nat /\ LoopSize(l) >= 4
         /\ LoopCells(l) = <<Word(3 * Len(l))>> \o Run(24, l)
<1>1. l \in Seq(Values) /\ Len(l) \in Nat
 BY Widened DEF Loops
<1>2. LoopCells(l) = <<Word(3 * Len(l))>> \o Run(24, l)
 BY EachIsARun DEF LoopCells
<1>3. Run(24, l) \in Seq(CellSet) /\ Bytes(Run(24, l)) = 24 * Len(l)
 BY <1>1, RunFacts
<1>4. 3 * Len(l) \in Values
 BY <1>1 DEF Values
<1>5. <<Word(3 * Len(l))>> \in Seq(CellSet) /\ Bytes(<<Word(3 * Len(l))>>) = 4
 <2>1. Word(3 * Len(l)) \in CellSet
  BY <1>4, WordFacts
 <2>2. Bytes(<<Word(3 * Len(l))>>) = 4
  BY <1>4, WordFacts
 <2> HIDE DEF CellSet
 <2> QED BY <2>1, <2>2
<1>6. LoopCells(l) \in Seq(CellSet) /\ Bytes(LoopCells(l)) = 4 + 24 * Len(l)
 BY <1>2, <1>3, <1>5, CellsJoin
<1> QED BY <1>1, <1>2, <1>6 DEF LoopSize

LoopMap == [l \in Loops |-> LoopCells(l)]
LoopSizes == [l \in Loops |-> LoopSize(l)]

\* The loops of an extrusion or the sections of a sweep.
LEMMA LoopsFacts ==
  ASSUME NEW v \in Seq(Loops)
  PROVE  /\ Each(LoopCells, v) = Image(LoopMap, v) /\ Maps(LoopMap, Loops, Seq(CellSet))
         /\ FlattenSeq(Each(LoopCells, v)) \in Seq(CellSet)
         /\ Bytes(FlattenSeq(Each(LoopCells, v))) = Sum(Each(LoopSize, v))
         /\ Sum(Each(LoopSize, v)) \in Nat /\ Sum(Each(LoopSize, v)) >= 4 * Len(v)
<1>1. \A l \in Loops : LoopCells(l) \in Seq(CellSet) /\ LoopSize(l) \in Nat
 BY LoopFacts
<1>2. Maps(LoopMap, Loops, Seq(CellSet)) /\ Maps(LoopSizes, Loops, Nat)
 BY <1>1 DEF Maps, LoopMap, LoopSizes
<1>3. Each(LoopCells, v) = Image(LoopMap, v) /\ Each(LoopSize, v) = Image(LoopSizes, v)
 <2>1. \A k \in DOMAIN v : v[k] \in Loops
  OBVIOUS
 <2> QED BY <2>1 DEF Each, Image, LoopMap, LoopSizes
<1>4. \A l \in Loops : LoopSizes[l] = Bytes(LoopMap[l]) /\ LoopSizes[l] >= 4
 BY LoopFacts DEF LoopMap, LoopSizes
<1>5. v \in Seq(Loops) /\ 4 \in Nat
 OBVIOUS
<1>6. /\ FlattenSeq(Image(LoopMap, v)) \in Seq(CellSet)
      /\ Bytes(FlattenSeq(Image(LoopMap, v))) = Sum(Image(LoopSizes, v))
      /\ Sum(Image(LoopSizes, v)) \in Nat /\ Sum(Image(LoopSizes, v)) >= 4 * Len(v)
 BY ONLY <1>2, <1>4, <1>5, ListFacts
<1> QED BY <1>2, <1>3, <1>6

SweepMap == [l \in Seq(Loops) |-> SweepCells(l)]
SweepSizes == [l \in Seq(Loops) |-> SweepSize(l)]

LEMMA SweepFacts ==
  ASSUME NEW l \in Seq(Loops)
  PROVE  /\ SweepCells(l) \in Seq(CellSet) /\ Bytes(SweepCells(l)) = SweepSize(l)
         /\ SweepSize(l) \in Nat /\ SweepSize(l) >= 4
<1>1. Len(l) \in Nat /\ Len(l) \in Values
 BY DEF Values
<1>2. <<Word(Len(l))>> \in Seq(CellSet) /\ Bytes(<<Word(Len(l))>>) = 4
 <2>1. Word(Len(l)) \in CellSet
  BY <1>1, WordFacts
 <2>2. Bytes(<<Word(Len(l))>>) = 4
  BY <1>1, WordFacts
 <2> QED BY <2>1, <2>2
<1>3. PICK c \in Seq(CellSet) : c = FlattenSeq(Each(LoopCells, l))
 BY LoopsFacts
<1>4. Bytes(c) = Sum(Each(LoopSize, l)) /\ Bytes(c) \in Nat
 BY <1>3, LoopsFacts
<1>5. SweepCells(l) = <<Word(Len(l))>> \o c
 BY <1>3 DEF SweepCells
<1>6. SweepCells(l) \in Seq(CellSet) /\ Bytes(SweepCells(l)) = 4 + Bytes(c)
 BY <1>2, <1>5, CellsJoin
<1> QED BY <1>4, <1>6 DEF SweepSize

LEMMA SweepsFacts ==
  ASSUME NEW v \in Seq(Seq(Loops))
  PROVE  /\ Each(SweepCells, v) = Image(SweepMap, v) /\ Maps(SweepMap, Seq(Loops), Seq(CellSet))
         /\ FlattenSeq(Each(SweepCells, v)) \in Seq(CellSet)
         /\ Bytes(FlattenSeq(Each(SweepCells, v))) = Sum(Each(SweepSize, v))
         /\ Sum(Each(SweepSize, v)) \in Nat /\ Sum(Each(SweepSize, v)) >= 4 * Len(v)
<1>1. \A l \in Seq(Loops) : SweepCells(l) \in Seq(CellSet) /\ SweepSize(l) \in Nat
 BY SweepFacts
<1>2. Maps(SweepMap, Seq(Loops), Seq(CellSet)) /\ Maps(SweepSizes, Seq(Loops), Nat)
 BY <1>1 DEF Maps, SweepMap, SweepSizes
<1>3. Each(SweepCells, v) = Image(SweepMap, v) /\ Each(SweepSize, v) = Image(SweepSizes, v)
 <2>1. \A k \in DOMAIN v : v[k] \in Seq(Loops)
  OBVIOUS
 <2> QED BY <2>1 DEF Each, Image, SweepMap, SweepSizes
<1>4. \A l \in Seq(Loops) : SweepSizes[l] = Bytes(SweepMap[l]) /\ SweepSizes[l] >= 4
 BY SweepFacts DEF SweepMap, SweepSizes
<1>5. v \in Seq(Seq(Loops)) /\ 4 \in Nat
 OBVIOUS
<1>6. /\ FlattenSeq(Image(SweepMap, v)) \in Seq(CellSet)
      /\ Bytes(FlattenSeq(Image(SweepMap, v))) = Sum(Image(SweepSizes, v))
      /\ Sum(Image(SweepSizes, v)) \in Nat /\ Sum(Image(SweepSizes, v)) >= 4 * Len(v)
 BY ONLY <1>2, <1>4, <1>5, ListFacts
<1> QED BY <1>2, <1>3, <1>6
LEMMA MeshFacts ==
  ASSUME NEW m \in TriangleMeshes
  PROVE  /\ m.positions \in Seq(Int) /\ m.indices \in Seq(Nat)
         /\ MeshCells(m) = Run(24, m.positions) \o Run(4, m.indices)
         /\ Run(24, m.positions) \in Seq(CellSet) /\ Run(4, m.indices) \in Seq(CellSet)
         /\ MeshCells(m) \in Seq(CellSet) /\ Bytes(MeshCells(m)) = MeshSize(m)
         /\ MeshSize(m) \in Nat
<1>1. m.positions \in Seq(Int) /\ m.indices \in Seq(Nat)
 BY DEF TriangleMeshes
<1>2. PICK p, i : p = m.positions /\ i = m.indices
 OBVIOUS
<1>3. p \in Seq(Values) /\ Len(p) \in Nat /\ i \in Seq(Values) /\ Len(i) \in Nat
 BY <1>1, <1>2, Widened
<1>4. MeshCells(m) = Run(24, p) \o Run(4, i)
 BY <1>2, EachIsARun DEF MeshCells
<1>5. /\ Run(24, p) \in Seq(CellSet) /\ Bytes(Run(24, p)) = 24 * Len(p)
      /\ Run(4, i) \in Seq(CellSet) /\ Bytes(Run(4, i)) = 4 * Len(i)
 BY <1>3, RunFacts
<1>6. MeshCells(m) \in Seq(CellSet) /\ Bytes(MeshCells(m)) = 24 * Len(p) + 4 * Len(i)
 BY <1>4, <1>5, CellsJoin
<1>7. MeshSize(m) = 24 * Len(p) + 4 * Len(i)
 BY ONLY <1>2 DEF MeshSize
<1>8. MeshCells(m) \in Seq(CellSet) /\ Bytes(MeshCells(m)) = MeshSize(m) /\ MeshSize(m) \in Nat
 BY ONLY <1>3, <1>6, <1>7
<1> QED BY ONLY <1>1, <1>2, <1>4, <1>5, <1>8

LEMMA TwoWords ==
  ASSUME NEW a \in Nat, NEW b \in Nat
  PROVE  /\ <<Word(a), Word(b)>> \in Seq(CellSet) /\ Bytes(<<Word(a), Word(b)>>) = 8
         /\ Len(<<Word(a), Word(b)>>) = 2
<1>1. a \in Values /\ b \in Values
 BY DEF Values
<1>2. Word(a) \in CellSet /\ Word(b) \in CellSet /\ Bytes(<<Word(a)>>) = 4 /\ Bytes(<<Word(b)>>) = 4
 BY <1>1, WordFacts
<1>3. PICK c \in CellSet, d \in CellSet : c = Word(a) /\ d = Word(b)
 BY <1>2
<1>4. <<c, d>> \in Seq(CellSet) /\ Len(<<c, d>>) = 2
 OBVIOUS
<1>5. <<c>> \in Seq(CellSet) /\ <<d>> \in Seq(CellSet) /\ <<c, d>> = <<c>> \o <<d>>
 <2>1. PICK s \in Seq(CellSet) : s = <<c, d>>
  BY <1>4
 <2>2. s # <<>> /\ s[1] = c /\ Tail(s) = <<d>>
  BY <2>1
 <2>3. s = <<s[1]>> \o Tail(s)
  BY <2>2, FirstAndRest
 <2> QED BY <2>1, <2>2, <2>3
<1>6. Bytes(<<c, d>>) = Bytes(<<c>>) + Bytes(<<d>>)
 BY <1>5, BytesOfBoth
<1> QED BY <1>2, <1>3, <1>4, <1>6

LEMMA CutterFacts ==
  ASSUME NEW m \in TriangleMeshes
  PROVE  /\ CutterCells(m) \in Seq(CellSet) /\ Bytes(CutterCells(m)) = CutterSize(m)
         /\ CutterSize(m) \in Nat /\ CutterSize(m) >= 8
<1>1. Len(m.positions) \in Nat /\ Len(m.indices) \in Nat /\ 3 * Len(m.positions) \in Nat
 BY MeshFacts
<1>2. PICK h : h = <<Word(3 * Len(m.positions)), Word(Len(m.indices))>>
 OBVIOUS
<1>3. h \in Seq(CellSet) /\ Bytes(h) = 8
 BY <1>1, <1>2, TwoWords
<1>4. MeshCells(m) \in Seq(CellSet) /\ Bytes(MeshCells(m)) = MeshSize(m) /\ MeshSize(m) \in Nat
 BY MeshFacts
<1>5. CutterCells(m) = h \o MeshCells(m)
 BY <1>2 DEF CutterCells
<1>6. CutterCells(m) \in Seq(CellSet) /\ Bytes(CutterCells(m)) = 8 + MeshSize(m)
 BY <1>3, <1>4, <1>5, CellsJoin
<1> QED BY <1>4, <1>6 DEF CutterSize

CutterMap == [m \in TriangleMeshes |-> CutterCells(m)]
CutterSizes == [m \in TriangleMeshes |-> CutterSize(m)]

LEMMA CuttersFacts ==
  ASSUME NEW v \in Seq(TriangleMeshes)
  PROVE  /\ Each(CutterCells, v) = Image(CutterMap, v) /\ Maps(CutterMap, TriangleMeshes, Seq(CellSet))
         /\ FlattenSeq(Each(CutterCells, v)) \in Seq(CellSet)
         /\ Bytes(FlattenSeq(Each(CutterCells, v))) = Sum(Each(CutterSize, v))
         /\ Sum(Each(CutterSize, v)) \in Nat /\ Sum(Each(CutterSize, v)) >= 8 * Len(v)
<1>1. \A m \in TriangleMeshes : CutterCells(m) \in Seq(CellSet) /\ CutterSize(m) \in Nat
 BY CutterFacts
<1>2. Maps(CutterMap, TriangleMeshes, Seq(CellSet)) /\ Maps(CutterSizes, TriangleMeshes, Nat)
 BY <1>1 DEF Maps, CutterMap, CutterSizes
<1>3. Each(CutterCells, v) = Image(CutterMap, v) /\ Each(CutterSize, v) = Image(CutterSizes, v)
 <2>1. \A k \in DOMAIN v : v[k] \in TriangleMeshes
  OBVIOUS
 <2> QED BY <2>1 DEF Each, Image, CutterMap, CutterSizes
<1>4. \A m \in TriangleMeshes : CutterSizes[m] = Bytes(CutterMap[m]) /\ CutterSizes[m] >= 8
 BY CutterFacts DEF CutterMap, CutterSizes
<1>5. v \in Seq(TriangleMeshes) /\ 8 \in Nat
 OBVIOUS
<1>6. /\ FlattenSeq(Image(CutterMap, v)) \in Seq(CellSet)
      /\ Bytes(FlattenSeq(Image(CutterMap, v))) = Sum(Image(CutterSizes, v))
      /\ Sum(Image(CutterSizes, v)) \in Nat /\ Sum(Image(CutterSizes, v)) >= 8 * Len(v)
 BY ONLY <1>2, <1>4, <1>5, ListFacts
<1> QED BY <1>2, <1>3, <1>6

Regrouped(a, b, c) == (a \o b) \o c = a \o (b \o c)

LEMMA Regroup ==
  ASSUME NEW T
  PROVE  \A a, b, c \in Seq(T) : Regrouped(a, b, c)
 BY Associative DEF Regrouped

LEMMA CellsRegroup == \A a, b, c \in Seq(CellSet) : Regrouped(a, b, c)
 BY Regroup

SixJoined(a, b, c, d, e, f, p, i) ==
  a \o b \o c \o d \o e \o f = a \o (b \o (c \o (p \o (i \o (e \o f)))))
EightJoined(a, b, c, d, e, f, g, h, p, i) ==
  /\ a \o b \o c \o d \o e \o f \o g \o h = a \o b \o c \o d \o e \o (f \o (g \o h))
  /\ SixJoined(a, b, c, d, e, f \o (g \o h), p, i)

\* Six and eight parts, one after the other; the fourth, a mesh, is two of them.
LEMMA SixJoin ==
  ASSUME NEW T, NEW a \in Seq(T), NEW b \in Seq(T), NEW c \in Seq(T), NEW d \in Seq(T),
         NEW e \in Seq(T), NEW f \in Seq(T), NEW p \in Seq(T), NEW i \in Seq(T), d = p \o i
  PROVE  SixJoined(a, b, c, d, e, f, p, i)
<1>1. \A x, y \in Seq(T) : x \o y \in Seq(T)
 OBVIOUS
<1>2. PICK t3 \in Seq(T) : t3 = e \o f
 BY ONLY <1>1, e \in Seq(T), f \in Seq(T)
<1>5. PICK t4 \in Seq(T) : t4 = i \o t3
 BY ONLY <1>1, i \in Seq(T), t3 \in Seq(T)
<1>6. PICK t5 \in Seq(T) : t5 = p \o t4
 BY ONLY <1>1, p \in Seq(T), t4 \in Seq(T)
<1>7. PICK t6 \in Seq(T) : t6 = c \o t5
 BY ONLY <1>1, c \in Seq(T), t5 \in Seq(T)
<1>8. PICK x1 \in Seq(T) : x1 = a \o b
 BY ONLY <1>1, a \in Seq(T), b \in Seq(T)
<1>9. PICK x2 \in Seq(T) : x2 = x1 \o c
 BY ONLY <1>1, x1 \in Seq(T), c \in Seq(T)
<1>10. PICK x3 \in Seq(T) : x3 = x2 \o d
 BY ONLY <1>1, x2 \in Seq(T), d \in Seq(T)
<1>13. Regrouped(x3, e, f) /\ Regrouped(x2, d, t3) /\ Regrouped(p, i, t3) /\ Regrouped(x1, c, t5)
       /\ Regrouped(a, b, t6)
 <2>1. \A x, y, z \in Seq(T) : Regrouped(x, y, z)
  BY ONLY Regroup
 <2> QED BY <2>1
<1>16. (x3 \o e) \o f = x3 \o t3
 BY ONLY <1>2, <1>13 DEF Regrouped
<1>17. d \o t3 = t5
 BY ONLY <1>5, <1>6, <1>13, d = p \o i DEF Regrouped
<1>18. x3 \o t3 = x2 \o t5
 BY ONLY <1>10, <1>13, <1>17 DEF Regrouped
<1>19. x2 \o t5 = x1 \o t6
 BY ONLY <1>7, <1>9, <1>13 DEF Regrouped
<1>20. x1 \o t6 = a \o (b \o t6)
 BY ONLY <1>8, <1>13 DEF Regrouped
<1>21. (x3 \o e) \o f = a \o (b \o t6)
 BY ONLY <1>16, <1>18, <1>19, <1>20
<1>22. a \o b \o c \o d \o e \o f = (x3 \o e) \o f
 BY ONLY <1>8, <1>9, <1>10
<1>23. b \o t6 = b \o (c \o (p \o (i \o (e \o f))))
 BY ONLY <1>2, <1>5, <1>6, <1>7
<1> QED BY ONLY <1>21, <1>22, <1>23 DEF SixJoined

LEMMA EightJoin ==
  ASSUME NEW T, NEW a \in Seq(T), NEW b \in Seq(T), NEW c \in Seq(T), NEW d \in Seq(T),
         NEW e \in Seq(T), NEW f \in Seq(T), NEW g \in Seq(T), NEW h \in Seq(T),
         NEW p \in Seq(T), NEW i \in Seq(T), d = p \o i
  PROVE  EightJoined(a, b, c, d, e, f, g, h, p, i)
<1>0. \A k, l \in Seq(T) : k \o l \in Seq(T)
 OBVIOUS
<1>1. PICK t \in Seq(T) : t = g \o h
 BY ONLY <1>0, g \in Seq(T), h \in Seq(T)
<1>2. PICK u \in Seq(T) : u = f \o t
 BY ONLY <1>0, f \in Seq(T), t \in Seq(T)
<1>3. SixJoined(a, b, c, d, e, u, p, i)
 <2>1. /\ a \in Seq(T) /\ b \in Seq(T) /\ c \in Seq(T) /\ d \in Seq(T) /\ e \in Seq(T)
       /\ u \in Seq(T) /\ p \in Seq(T) /\ i \in Seq(T) /\ d = p \o i
  OBVIOUS
 <2> QED BY ONLY <2>1, SixJoin
<1>4. PICK x \in Seq(T) : x = a \o b \o c \o d \o e
 <2>1. a \in Seq(T) /\ b \in Seq(T) /\ c \in Seq(T) /\ d \in Seq(T) /\ e \in Seq(T)
  OBVIOUS
 <2> QED BY ONLY <1>0, <2>1
<1>5. PICK y \in Seq(T) : y = x \o f
 BY ONLY <1>0, x \in Seq(T), f \in Seq(T)
<1>6. Regrouped(y, g, h) /\ Regrouped(x, f, t)
 <2>1. \A k, l, m \in Seq(T) : Regrouped(k, l, m)
  BY ONLY Regroup
 <2> QED BY <2>1
<1>7. (y \o g) \o h = x \o u
 BY ONLY <1>1, <1>2, <1>5, <1>6 DEF Regrouped
<1>8. a \o b \o c \o d \o e \o f \o g \o h = a \o b \o c \o d \o e \o u
 BY ONLY <1>4, <1>5, <1>7
<1> QED BY ONLY <1>1, <1>2, <1>3, <1>8 DEF EightJoined

RequestJoined(a, b, c, d, e, f, p, i) ==
  /\ a \o b \o c \o d \o e \o f \in Seq(CellSet)
  /\ SixJoined(a, b, c, d, e, f, p, i)
  /\ Bytes(a \o b \o c \o d \o e \o f)
        = Bytes(a) + Bytes(b) + Bytes(c) + Bytes(d) + Bytes(e) + Bytes(f)

LEMMA RequestJoins ==
  ASSUME NEW a \in Seq(CellSet), NEW b \in Seq(CellSet), NEW c \in Seq(CellSet),
         NEW d \in Seq(CellSet), NEW e \in Seq(CellSet), NEW f \in Seq(CellSet),
         NEW p \in Seq(CellSet), NEW i \in Seq(CellSet), d = p \o i
  PROVE  RequestJoined(a, b, c, d, e, f, p, i)
<1>1. PICK x2 \in Seq(CellSet) : x2 = a \o b /\ Bytes(x2) = Bytes(a) + Bytes(b)
 BY CellsJoin
<1>2. PICK x3 \in Seq(CellSet) : x3 = x2 \o c /\ Bytes(x3) = Bytes(x2) + Bytes(c)
 BY CellsJoin
<1>3. PICK x4 \in Seq(CellSet) : x4 = x3 \o d /\ Bytes(x4) = Bytes(x3) + Bytes(d)
 BY CellsJoin
<1>4. PICK x5 \in Seq(CellSet) : x5 = x4 \o e /\ Bytes(x5) = Bytes(x4) + Bytes(e)
 BY CellsJoin
<1>5. PICK x6 \in Seq(CellSet) : x6 = x5 \o f /\ Bytes(x6) = Bytes(x5) + Bytes(f)
 BY CellsJoin
<1>6. Bytes(x6) = Bytes(a) + Bytes(b) + Bytes(c) + Bytes(d) + Bytes(e) + Bytes(f)
 BY ONLY <1>1, <1>2, <1>3, <1>4, <1>5
<1>7. SixJoined(a, b, c, d, e, f, p, i)
 <2>1. /\ a \in Seq(CellSet) /\ b \in Seq(CellSet) /\ c \in Seq(CellSet) /\ d \in Seq(CellSet)
       /\ e \in Seq(CellSet) /\ f \in Seq(CellSet)
       /\ p \in Seq(CellSet) /\ i \in Seq(CellSet) /\ d = p \o i
  OBVIOUS
 <2> QED BY ONLY <2>1, SixJoin
<1>8. x6 = a \o b \o c \o d \o e \o f /\ x6 \in Seq(CellSet)
 BY <1>1, <1>2, <1>3, <1>4, <1>5
<1> QED BY ONLY <1>6, <1>7, <1>8 DEF RequestJoined

NodeJoined(a, b, c, d, e, f, g, h, p, i) ==
  /\ a \o b \o c \o d \o e \o f \o g \o h \in Seq(CellSet)
  /\ EightJoined(a, b, c, d, e, f, g, h, p, i)
  /\ Bytes(a \o b \o c \o d \o e \o f \o g \o h)
        = Bytes(a) + Bytes(b) + Bytes(c) + Bytes(d) + Bytes(e) + Bytes(f) + Bytes(g) + Bytes(h)

LEMMA NodeJoins ==
  ASSUME NEW a \in Seq(CellSet), NEW b \in Seq(CellSet), NEW c \in Seq(CellSet),
         NEW d \in Seq(CellSet), NEW e \in Seq(CellSet), NEW f \in Seq(CellSet),
         NEW g \in Seq(CellSet), NEW h \in Seq(CellSet), NEW p \in Seq(CellSet),
         NEW i \in Seq(CellSet), d = p \o i
  PROVE  NodeJoined(a, b, c, d, e, f, g, h, p, i)
<1>1. /\ a \in Seq(CellSet) /\ b \in Seq(CellSet) /\ c \in Seq(CellSet) /\ d \in Seq(CellSet)
      /\ e \in Seq(CellSet) /\ f \in Seq(CellSet) /\ g \in Seq(CellSet) /\ h \in Seq(CellSet)
      /\ p \in Seq(CellSet) /\ i \in Seq(CellSet) /\ d = p \o i
 OBVIOUS
<1>2. RequestJoined(a, b, c, d, e, f, p, i)
 BY ONLY <1>1, RequestJoins
<1>3. PICK x6 \in Seq(CellSet) :
         /\ x6 = a \o b \o c \o d \o e \o f
         /\ Bytes(x6) = Bytes(a) + Bytes(b) + Bytes(c) + Bytes(d) + Bytes(e) + Bytes(f)
 BY ONLY <1>2 DEF RequestJoined
<1>4. PICK x7 \in Seq(CellSet) : x7 = x6 \o g /\ Bytes(x7) = Bytes(x6) + Bytes(g)
 BY CellsJoin
<1>5. PICK x8 \in Seq(CellSet) : x8 = x7 \o h /\ Bytes(x8) = Bytes(x7) + Bytes(h)
 BY CellsJoin
<1>6. EightJoined(a, b, c, d, e, f, g, h, p, i)
 BY ONLY <1>1, EightJoin
<1> QED BY ONLY <1>3, <1>4, <1>5, <1>6 DEF NodeJoined

LEMMA NodeFields ==
  ASSUME NEW n \in NodeRecords
  PROVE  /\ n.object \in Nat /\ n.base \in Extents /\ n.vector \in Int /\ n.circular \in BOOLEAN
         /\ n.boxes \in Seq(Extents) /\ n.planes \in Seq(Extents) /\ n.mesh \in TriangleMeshes
         /\ n.children \in Seq(Nat) /\ n.unions \in Seq(Nat)
         /\ n.extrusion \in Seq(Loops) /\ n.sweep \in Seq(Seq(Loops))
 BY DEF NodeRecords, Loops

LEMMA NodeHeaderFacts ==
  ASSUME NEW n \in NodeRecords
  PROVE  /\ NodeHeader(n) \in Seq(CellSet) /\ Len(NodeHeader(n)) = 13
         /\ Bytes(NodeHeader(n)) = 120
<1>1. PICK p, i : p = n.mesh.positions /\ i = n.mesh.indices
 OBVIOUS
<1>2. p \in Seq(Int) /\ i \in Seq(Nat) /\ 3 * Len(p) \in Nat
 BY <1>1, NodeFields, MeshFacts
<1>3. /\ n.object \in Values /\ n.base \in Values /\ Len(n.boxes) \in Values
      /\ Len(n.planes) \in Values /\ 3 * Len(p) \in Values /\ Len(i) \in Values
      /\ Len(n.children) \in Values /\ Len(n.extrusion) \in Values /\ n.vector \in Values
      /\ Len(n.sweep) \in Values /\ (IF n.circular THEN 1 ELSE 0) \in Values
      /\ Len(n.unions) \in Values /\ 0 \in Values
 <2>1. n.base \in Values
  BY Zenon, NodeFields DEF Values
 <2>2. \A x \in Int : x \in Values
  BY DEF Values
 <2>3. /\ n.object \in Int /\ Len(n.boxes) \in Int
       /\ Len(n.planes) \in Int /\ 3 * Len(p) \in Int /\ Len(i) \in Int
       /\ Len(n.children) \in Int /\ Len(n.extrusion) \in Int /\ n.vector \in Int
       /\ Len(n.sweep) \in Int /\ (IF n.circular THEN 1 ELSE 0) \in Int
       /\ Len(n.unions) \in Int /\ 0 \in Int
  BY <1>2, NodeFields
 <2> QED BY ONLY <2>1, <2>2, <2>3
<1>4. PICK a \in CellSet, b \in CellSet, c \in CellSet, d \in CellSet, e \in CellSet, f \in CellSet,
           g \in CellSet, h \in CellSet, j \in CellSet, k \in CellSet, l \in CellSet, m \in CellSet,
           o \in CellSet :
         /\ a = Number(n.object) /\ b = Box(n.base) /\ c = Word(Len(n.boxes))
         /\ d = Word(Len(n.planes)) /\ e = Word(3 * Len(p)) /\ f = Word(Len(i))
         /\ g = Word(Len(n.children)) /\ h = Word(Len(n.extrusion)) /\ j = Point(n.vector)
         /\ k = Word(Len(n.sweep)) /\ l = Word(IF n.circular THEN 1 ELSE 0)
         /\ m = Word(Len(n.unions)) /\ o = Word(0)
 <2>1. /\ Number(n.object) \in CellSet /\ Box(n.base) \in CellSet /\ Word(Len(n.boxes)) \in CellSet
       /\ Word(Len(n.planes)) \in CellSet /\ Word(3 * Len(p)) \in CellSet /\ Word(Len(i)) \in CellSet
       /\ Word(Len(n.children)) \in CellSet /\ Word(Len(n.extrusion)) \in CellSet
       /\ Point(n.vector) \in CellSet /\ Word(Len(n.sweep)) \in CellSet
       /\ Word(IF n.circular THEN 1 ELSE 0) \in CellSet
       /\ Word(Len(n.unions)) \in CellSet /\ Word(0) \in CellSet
  BY ONLY <1>3, WordFacts
 <2> QED BY ONLY <2>1
<1>5. NodeHeader(n) = <<a, b, c, d, e, f, g, h, j, k, l, m, o>>
 BY ONLY <1>1, <1>4 DEF NodeHeader
<1>6. <<a, b, c, d, e, f, g, h, j, k, l, m, o>> \in Seq(CellSet)
 OBVIOUS
<1>7. PICK s \in Seq(CellSet) : s = <<a, b, c, d, e, f, g, h, j, k, l, m, o>>
 BY <1>6
<1>8. /\ Len(s) = 13 /\ s[1] = a /\ s[2] = b /\ s[3] = c /\ s[4] = d /\ s[5] = e /\ s[6] = f
      /\ s[7] = g /\ s[8] = h /\ s[9] = j /\ s[10] = k /\ s[11] = l /\ s[12] = m /\ s[13] = o
 BY ONLY <1>7
<1>9. /\ a[1] = 8 /\ b[1] = 48 /\ c[1] = 4 /\ d[1] = 4 /\ e[1] = 4 /\ f[1] = 4 /\ g[1] = 4
      /\ h[1] = 4 /\ j[1] = 24 /\ k[1] = 4 /\ l[1] = 4 /\ m[1] = 4 /\ o[1] = 4
 BY ONLY <1>4 DEF Number, Box, Word, Point
<1>10. Bytes(s) = s[1][1] + s[2][1] + s[3][1] + s[4][1] + s[5][1] + s[6][1] + s[7][1]
                  + s[8][1] + s[9][1] + s[10][1] + s[11][1] + s[12][1] + s[13][1]
 BY <1>8, BytesOfThirteen
<1>11. Bytes(s) = 120
 <2>1. Bytes(s) = a[1] + b[1] + c[1] + d[1] + e[1] + f[1] + g[1] + h[1] + j[1] + k[1] + l[1]
                  + m[1] + o[1]
  BY ONLY <1>8, <1>10
 <2>2. Bytes(s) = 8 + 48 + 4 + 4 + 4 + 4 + 4 + 4 + 24 + 4 + 4 + 4 + 4
  BY ONLY <1>9, <2>1
 <2> QED BY ONLY <2>2
<1> QED BY <1>5, <1>7, <1>8, <1>11

\* A node is its header and its parts.
LEMMA NodeFacts ==
  ASSUME NEW n \in NodeRecords
  PROVE  /\ EncodeNode(n) \in Seq(CellSet) /\ Bytes(EncodeNode(n)) = NodeSize(n)
         /\ NodeSize(n) \in Nat /\ NodeSize(n) >= 120
         /\ EncodeNode(n) =
               NodeHeader(n) \o
               (Run(48, n.boxes) \o
                (Run(48, n.planes) \o
                 (Run(24, n.mesh.positions) \o
                  (Run(4, n.mesh.indices) \o
                   (FlattenSeq(Each(LoopCells, n.extrusion)) \o
                    (FlattenSeq(Each(SweepCells, n.sweep)) \o
                     (Run(4, n.unions) \o Run(4, n.children))))))))
<1>1. PICK a \in Seq(CellSet) : a = NodeHeader(n) /\ Bytes(a) = 120
 BY NodeHeaderFacts
<1>2. /\ n.boxes \in Seq(Values) /\ n.planes \in Seq(Values) /\ n.unions \in Seq(Values)
      /\ n.children \in Seq(Values)
 BY NodeFields, Widened
<1>3. /\ Len(n.boxes) \in Nat /\ Len(n.planes) \in Nat /\ Len(n.unions) \in Nat
      /\ Len(n.children) \in Nat
 BY <1>2
<1>4. PICK b \in Seq(CellSet) : b = Run(48, n.boxes) /\ Bytes(b) = 48 * Len(n.boxes)
 BY <1>2, RunFacts
<1>5. PICK c \in Seq(CellSet) : c = Run(48, n.planes) /\ Bytes(c) = 48 * Len(n.planes)
 BY <1>2, RunFacts
<1>6. n.mesh \in TriangleMeshes
 BY NodeFields
<1>7. PICK d \in Seq(CellSet), p \in Seq(CellSet), i \in Seq(CellSet) :
         /\ d = MeshCells(n.mesh) /\ Bytes(d) = MeshSize(n.mesh) /\ MeshSize(n.mesh) \in Nat
         /\ d = p \o i /\ p = Run(24, n.mesh.positions) /\ i = Run(4, n.mesh.indices)
 BY ONLY <1>6, MeshFacts
<1>8. PICK e \in Seq(CellSet) :
         /\ e = FlattenSeq(Each(LoopCells, n.extrusion)) /\ Bytes(e) = Sum(Each(LoopSize, n.extrusion))
         /\ Sum(Each(LoopSize, n.extrusion)) \in Nat
 <2>1. n.extrusion \in Seq(Loops)
  BY NodeFields
 <2> QED BY ONLY <2>1, LoopsFacts
<1>9. PICK f \in Seq(CellSet) :
         /\ f = FlattenSeq(Each(SweepCells, n.sweep)) /\ Bytes(f) = Sum(Each(SweepSize, n.sweep))
         /\ Sum(Each(SweepSize, n.sweep)) \in Nat
 <2>1. n.sweep \in Seq(Seq(Loops))
  BY NodeFields
 <2> QED BY ONLY <2>1, SweepsFacts
<1>10. PICK g \in Seq(CellSet) : g = Run(4, n.unions) /\ Bytes(g) = 4 * Len(n.unions)
 BY <1>2, RunFacts
<1>11. PICK h \in Seq(CellSet) : h = Run(4, n.children) /\ Bytes(h) = 4 * Len(n.children)
 BY <1>2, RunFacts
<1>12. EncodeNode(n) = a \o b \o c \o d \o e \o f \o g \o h
 <2>1. /\ Each(Box, n.boxes) = b /\ Each(Box, n.planes) = c /\ Each(Word, n.unions) = g
       /\ Each(Word, n.children) = h
  BY ONLY <1>4, <1>5, <1>10, <1>11, EachIsARun
 <2> QED BY ONLY <1>1, <1>7, <1>8, <1>9, <2>1 DEF EncodeNode
<1>13. /\ a \o b \o c \o d \o e \o f \o g \o h \in Seq(CellSet)
       /\ a \o b \o c \o d \o e \o f \o g \o h
             = a \o (b \o (c \o (p \o (i \o (e \o (f \o (g \o h)))))))
       /\ Bytes(a \o b \o c \o d \o e \o f \o g \o h)
             = Bytes(a) + Bytes(b) + Bytes(c) + Bytes(d) + Bytes(e) + Bytes(f) + Bytes(g) + Bytes(h)
 <2>1. /\ a \in Seq(CellSet) /\ b \in Seq(CellSet) /\ c \in Seq(CellSet) /\ d \in Seq(CellSet)
       /\ e \in Seq(CellSet) /\ f \in Seq(CellSet) /\ g \in Seq(CellSet) /\ h \in Seq(CellSet)
       /\ p \in Seq(CellSet) /\ i \in Seq(CellSet) /\ d = p \o i
  BY <1>7
 <2>2. NodeJoined(a, b, c, d, e, f, g, h, p, i)
  BY ONLY <2>1, NodeJoins
 <2> QED BY ONLY <2>2 DEF NodeJoined, EightJoined, SixJoined
<1>14. PICK x : x = a \o b \o c \o d \o e \o f \o g \o h
 OBVIOUS
<1>15. x = EncodeNode(n) /\ x \in Seq(CellSet)
 BY ONLY <1>12, <1>13, <1>14
<1>16. Bytes(x) = NodeSize(n) /\ NodeSize(n) \in Nat /\ NodeSize(n) >= 120
 <2>1. Bytes(x) = 120 + 48 * Len(n.boxes) + 48 * Len(n.planes) + MeshSize(n.mesh)
                  + Sum(Each(LoopSize, n.extrusion)) + Sum(Each(SweepSize, n.sweep))
                  + 4 * Len(n.unions) + 4 * Len(n.children)
  BY ONLY <1>1, <1>4, <1>5, <1>7, <1>8, <1>9, <1>10, <1>11, <1>13, <1>14
 <2>2. PICK y \in Nat, z \in Nat, w \in Nat :
          /\ y = MeshSize(n.mesh) /\ z = Sum(Each(LoopSize, n.extrusion))
          /\ w = Sum(Each(SweepSize, n.sweep))
  BY <1>7, <1>8, <1>9
 <2>3. PICK t \in Nat, u \in Nat, v \in Nat, s \in Nat :
          t = Len(n.boxes) /\ u = Len(n.planes) /\ v = Len(n.unions) /\ s = Len(n.children)
  BY <1>3
 <2>4. Bytes(x) = 120 + 48 * t + 48 * u + y + z + w + 4 * v + 4 * s
  BY ONLY <2>1, <2>2, <2>3
 <2>5. NodeSize(n) = 120 + 48 * (t + u) + y + 4 * (v + s) + z + w
  BY ONLY <2>2, <2>3 DEF NodeSize
 <2>6. /\ 120 + 48 * t + 48 * u + y + z + w + 4 * v + 4 * s
            = 120 + 48 * (t + u) + y + 4 * (v + s) + z + w
       /\ 120 + 48 * (t + u) + y + 4 * (v + s) + z + w \in Nat
       /\ 120 + 48 * (t + u) + y + 4 * (v + s) + z + w >= 120
  OBVIOUS
 <2> QED BY ONLY <2>4, <2>5, <2>6
<1>17. x = a \o (b \o (c \o (p \o (i \o (e \o (f \o (g \o h)))))))
 BY ONLY <1>13, <1>14
<1> QED BY ONLY <1>1, <1>4, <1>5, <1>7, <1>8, <1>9, <1>10, <1>11, <1>15, <1>16, <1>17
NodeMap == [n \in NodeRecords |-> EncodeNode(n)]
NodeSizes == [n \in NodeRecords |-> NodeSize(n)]

LEMMA NodesFacts ==
  ASSUME NEW v \in Seq(NodeRecords)
  PROVE  /\ Each(EncodeNode, v) = Image(NodeMap, v) /\ Maps(NodeMap, NodeRecords, Seq(CellSet))
         /\ FlattenSeq(Each(EncodeNode, v)) \in Seq(CellSet)
         /\ Bytes(FlattenSeq(Each(EncodeNode, v))) = Sum(Each(NodeSize, v))
         /\ Sum(Each(NodeSize, v)) \in Nat /\ Sum(Each(NodeSize, v)) >= 120 * Len(v)
<1>1. \A n \in NodeRecords : EncodeNode(n) \in Seq(CellSet) /\ NodeSize(n) \in Nat
 BY NodeFacts
<1>2. Maps(NodeMap, NodeRecords, Seq(CellSet)) /\ Maps(NodeSizes, NodeRecords, Nat)
 BY <1>1 DEF Maps, NodeMap, NodeSizes
<1>3. Each(EncodeNode, v) = Image(NodeMap, v) /\ Each(NodeSize, v) = Image(NodeSizes, v)
 <2>1. \A k \in DOMAIN v : v[k] \in NodeRecords
  OBVIOUS
 <2> QED BY <2>1 DEF Each, Image, NodeMap, NodeSizes
<1>4. \A n \in NodeRecords : NodeSizes[n] = Bytes(NodeMap[n]) /\ NodeSizes[n] >= 120
 BY NodeFacts DEF NodeMap, NodeSizes
<1>5. v \in Seq(NodeRecords) /\ 120 \in Nat
 OBVIOUS
<1>6. /\ FlattenSeq(Image(NodeMap, v)) \in Seq(CellSet)
      /\ Bytes(FlattenSeq(Image(NodeMap, v))) = Sum(Image(NodeSizes, v))
      /\ Sum(Image(NodeSizes, v)) \in Nat /\ Sum(Image(NodeSizes, v)) >= 120 * Len(v)
 BY ONLY <1>2, <1>4, <1>5, ListFacts, SMTT(30)
<1> QED BY <1>2, <1>3, <1>6

LEMMA RequestFields ==
  ASSUME NEW r \in WantedRequests
  PROVE  /\ r.object \in Nat /\ r.base \in Extents /\ r.boxes \in Seq(Extents)
         /\ r.planes \in Seq(Extents) /\ r.mesh \in TriangleMeshes
         /\ r.cutters \in Seq(TriangleMeshes) /\ r.nodes \in Seq(NodeRecords)
 BY DEF WantedRequests

RequestHeader(r) ==
  <<Word("request"), Word(Version), Number(r.object), Box(r.base), Number("linear"),
    Number("angular"), Word(Len(r.boxes)), Word(Len(r.planes)), Word(3 * Len(r.mesh.positions)),
    Word(Len(r.mesh.indices)), Word(Len(r.cutters)), Word(Len(r.nodes)), Number(RequestSize(r))>>

LEMMA RequestSizes ==
  ASSUME NEW r \in WantedRequests
  PROVE  RequestSize(r) \in Nat
<1>1. /\ r.boxes \in Seq(Extents) /\ r.planes \in Seq(Extents) /\ r.mesh \in TriangleMeshes
      /\ r.cutters \in Seq(TriangleMeshes) /\ r.nodes \in Seq(NodeRecords)
 BY RequestFields
<1>2. PICK y \in Nat, z \in Nat, w \in Nat :
         y = MeshSize(r.mesh) /\ z = Sum(Each(CutterSize, r.cutters)) /\ w = Sum(Each(NodeSize, r.nodes))
 BY ONLY <1>1, MeshFacts, CuttersFacts, NodesFacts
<1>3. PICK t \in Nat, u \in Nat : t = Len(r.boxes) /\ u = Len(r.planes)
 BY <1>1
<1>4. RequestSize(r) = 112 + 48 * (t + u) + y + z + w
 BY ONLY <1>2, <1>3 DEF RequestSize
<1>5. 112 + 48 * (t + u) + y + z + w \in Nat
 OBVIOUS
<1> QED BY ONLY <1>4, <1>5

LEMMA RequestHeaderFacts ==
  ASSUME NEW r \in WantedRequests
  PROVE  /\ RequestHeader(r) \in Seq(CellSet) /\ Len(RequestHeader(r)) = 13
         /\ Bytes(RequestHeader(r)) = 112
<1>1. PICK p, i : p = r.mesh.positions /\ i = r.mesh.indices
 OBVIOUS
<1>2. p \in Seq(Int) /\ i \in Seq(Nat) /\ 3 * Len(p) \in Nat
 BY <1>1, RequestFields, MeshFacts
<1>3. /\ "request" \in Values /\ Version \in Values /\ r.object \in Values /\ r.base \in Values
      /\ "linear" \in Values /\ "angular" \in Values /\ Len(r.boxes) \in Values
      /\ Len(r.planes) \in Values /\ 3 * Len(p) \in Values /\ Len(i) \in Values
      /\ Len(r.cutters) \in Values /\ Len(r.nodes) \in Values /\ RequestSize(r) \in Values
 <2>1. r.base \in Values
  BY Zenon, RequestFields DEF Values
 <2>2. \A x \in Int : x \in Values
  BY DEF Values
 <2>3. /\ Version \in Int /\ r.object \in Int /\ Len(r.boxes) \in Int
       /\ Len(r.planes) \in Int /\ 3 * Len(p) \in Int /\ Len(i) \in Int
       /\ Len(r.cutters) \in Int /\ Len(r.nodes) \in Int /\ RequestSize(r) \in Int
  BY <1>2, RequestFields, RequestSizes DEF Version
 <2>4. "request" \in Values /\ "linear" \in Values /\ "angular" \in Values
  BY Zenon DEF Values, Marks
 <2> QED BY ONLY <2>1, <2>2, <2>3, <2>4
<1>4. PICK a \in CellSet, b \in CellSet, c \in CellSet, d \in CellSet, e \in CellSet, f \in CellSet,
           g \in CellSet, h \in CellSet, j \in CellSet, k \in CellSet, l \in CellSet, m \in CellSet,
           o \in CellSet :
         /\ a = Word("request") /\ b = Word(Version) /\ c = Number(r.object) /\ d = Box(r.base)
         /\ e = Number("linear") /\ f = Number("angular") /\ g = Word(Len(r.boxes))
         /\ h = Word(Len(r.planes)) /\ j = Word(3 * Len(p)) /\ k = Word(Len(i))
         /\ l = Word(Len(r.cutters)) /\ m = Word(Len(r.nodes)) /\ o = Number(RequestSize(r))
 <2>1. /\ Word("request") \in CellSet /\ Word(Version) \in CellSet /\ Number(r.object) \in CellSet
       /\ Box(r.base) \in CellSet /\ Number("linear") \in CellSet /\ Number("angular") \in CellSet
       /\ Word(Len(r.boxes)) \in CellSet /\ Word(Len(r.planes)) \in CellSet
       /\ Word(3 * Len(p)) \in CellSet /\ Word(Len(i)) \in CellSet
       /\ Word(Len(r.cutters)) \in CellSet /\ Word(Len(r.nodes)) \in CellSet
       /\ Number(RequestSize(r)) \in CellSet
  BY ONLY <1>3, WordFacts
 <2> QED BY ONLY <2>1
<1>5. RequestHeader(r) = <<a, b, c, d, e, f, g, h, j, k, l, m, o>>
 BY ONLY <1>1, <1>4 DEF RequestHeader
<1>6. <<a, b, c, d, e, f, g, h, j, k, l, m, o>> \in Seq(CellSet)
 OBVIOUS
<1>7. PICK s \in Seq(CellSet) : s = <<a, b, c, d, e, f, g, h, j, k, l, m, o>>
 BY <1>6
<1>8. /\ Len(s) = 13 /\ s[1] = a /\ s[2] = b /\ s[3] = c /\ s[4] = d /\ s[5] = e /\ s[6] = f
      /\ s[7] = g /\ s[8] = h /\ s[9] = j /\ s[10] = k /\ s[11] = l /\ s[12] = m /\ s[13] = o
 BY ONLY <1>7
<1>9. /\ a[1] = 4 /\ b[1] = 4 /\ c[1] = 8 /\ d[1] = 48 /\ e[1] = 8 /\ f[1] = 8 /\ g[1] = 4
      /\ h[1] = 4 /\ j[1] = 4 /\ k[1] = 4 /\ l[1] = 4 /\ m[1] = 4 /\ o[1] = 8
 BY ONLY <1>4 DEF Number, Box, Word, Point
<1>10. Bytes(s) = s[1][1] + s[2][1] + s[3][1] + s[4][1] + s[5][1] + s[6][1] + s[7][1]
                  + s[8][1] + s[9][1] + s[10][1] + s[11][1] + s[12][1] + s[13][1]
 BY <1>8, BytesOfThirteen
<1>11. Bytes(s) = 112
 <2>1. Bytes(s) = a[1] + b[1] + c[1] + d[1] + e[1] + f[1] + g[1] + h[1] + j[1] + k[1] + l[1]
                  + m[1] + o[1]
  BY ONLY <1>8, <1>10
 <2>2. Bytes(s) = 4 + 4 + 8 + 48 + 8 + 8 + 4 + 4 + 4 + 4 + 4 + 4 + 8
  BY ONLY <1>9, <2>1
 <2> QED BY ONLY <2>2
<1> QED BY <1>5, <1>7, <1>8, <1>11

\* A request is its header and its parts.
LEMMA RequestFacts ==
  ASSUME NEW r \in WantedRequests
  PROVE  /\ EncodeRequest(r) \in Seq(CellSet) /\ Bytes(EncodeRequest(r)) = RequestSize(r)
         /\ EncodeRequest(r) =
               RequestHeader(r) \o
               (Run(48, r.boxes) \o
                (Run(48, r.planes) \o
                 (Run(24, r.mesh.positions) \o
                  (Run(4, r.mesh.indices) \o
                   (FlattenSeq(Each(CutterCells, r.cutters)) \o
                    FlattenSeq(Each(EncodeNode, r.nodes)))))))
<1>1. PICK a \in Seq(CellSet) : a = RequestHeader(r) /\ Bytes(a) = 112
 BY RequestHeaderFacts
<1>2. r.boxes \in Seq(Values) /\ r.planes \in Seq(Values)
 BY RequestFields, Widened
<1>3. Len(r.boxes) \in Nat /\ Len(r.planes) \in Nat
 BY <1>2
<1>4. PICK b \in Seq(CellSet) : b = Run(48, r.boxes) /\ Bytes(b) = 48 * Len(r.boxes)
 BY <1>2, RunFacts
<1>5. PICK c \in Seq(CellSet) : c = Run(48, r.planes) /\ Bytes(c) = 48 * Len(r.planes)
 BY <1>2, RunFacts
<1>6. /\ r.mesh \in TriangleMeshes /\ r.cutters \in Seq(TriangleMeshes)
      /\ r.nodes \in Seq(NodeRecords)
 BY RequestFields
<1>7. PICK d \in Seq(CellSet), p \in Seq(CellSet), i \in Seq(CellSet) :
         /\ d = MeshCells(r.mesh) /\ Bytes(d) = MeshSize(r.mesh) /\ MeshSize(r.mesh) \in Nat
         /\ d = p \o i /\ p = Run(24, r.mesh.positions) /\ i = Run(4, r.mesh.indices)
 BY ONLY <1>6, MeshFacts
<1>8. PICK e \in Seq(CellSet) :
         /\ e = FlattenSeq(Each(CutterCells, r.cutters)) /\ Bytes(e) = Sum(Each(CutterSize, r.cutters))
         /\ Sum(Each(CutterSize, r.cutters)) \in Nat
 BY ONLY <1>6, CuttersFacts
<1>9. PICK f \in Seq(CellSet) :
         /\ f = FlattenSeq(Each(EncodeNode, r.nodes)) /\ Bytes(f) = Sum(Each(NodeSize, r.nodes))
         /\ Sum(Each(NodeSize, r.nodes)) \in Nat
 BY ONLY <1>6, NodesFacts
<1>10. EncodeRequest(r) = a \o b \o c \o d \o e \o f
 <2>1. Each(Box, r.boxes) = b /\ Each(Box, r.planes) = c
  BY ONLY <1>4, <1>5, EachIsARun
 <2>2. EncodeRequest(r) = RequestHeader(r) \o Each(Box, r.boxes) \o Each(Box, r.planes)
                          \o MeshCells(r.mesh) \o FlattenSeq(Each(CutterCells, r.cutters))
                          \o FlattenSeq(Each(EncodeNode, r.nodes))
  BY DEF EncodeRequest, RequestHeader
 <2> QED BY ONLY <1>1, <1>7, <1>8, <1>9, <2>1, <2>2
<1>11. RequestJoined(a, b, c, d, e, f, p, i)
 <2>1. /\ a \in Seq(CellSet) /\ b \in Seq(CellSet) /\ c \in Seq(CellSet) /\ d \in Seq(CellSet)
       /\ e \in Seq(CellSet) /\ f \in Seq(CellSet)
       /\ p \in Seq(CellSet) /\ i \in Seq(CellSet) /\ d = p \o i
  BY <1>7
 <2> QED BY ONLY <2>1, RequestJoins
<1>12. PICK x \in Seq(CellSet) :
          /\ x = EncodeRequest(r)
          /\ x = a \o (b \o (c \o (p \o (i \o (e \o f)))))
          /\ Bytes(x) = Bytes(a) + Bytes(b) + Bytes(c) + Bytes(d) + Bytes(e) + Bytes(f)
 BY ONLY <1>10, <1>11 DEF RequestJoined, SixJoined
<1>13. Bytes(x) = RequestSize(r)
 <2>1. Bytes(x) = 112 + 48 * Len(r.boxes) + 48 * Len(r.planes) + MeshSize(r.mesh)
                  + Sum(Each(CutterSize, r.cutters)) + Sum(Each(NodeSize, r.nodes))
  BY ONLY <1>1, <1>4, <1>5, <1>7, <1>8, <1>9, <1>12
 <2>2. PICK y \in Nat, z \in Nat, w \in Nat :
          /\ y = MeshSize(r.mesh) /\ z = Sum(Each(CutterSize, r.cutters))
          /\ w = Sum(Each(NodeSize, r.nodes))
  BY <1>7, <1>8, <1>9
 <2>3. PICK t \in Nat, u \in Nat : t = Len(r.boxes) /\ u = Len(r.planes)
  BY <1>3
 <2>4. Bytes(x) = 112 + 48 * t + 48 * u + y + z + w
  BY ONLY <2>1, <2>2, <2>3
 <2>5. RequestSize(r) = 112 + 48 * (t + u) + y + z + w
  BY ONLY <2>2, <2>3 DEF RequestSize
 <2>6. 112 + 48 * t + 48 * u + y + z + w = 112 + 48 * (t + u) + y + z + w
  OBVIOUS
 <2> QED BY ONLY <2>4, <2>5, <2>6
<1> QED BY ONLY <1>1, <1>4, <1>5, <1>7, <1>8, <1>9, <1>12, <1>13
\* What is still to be read, part by part.
(* What is still to be read: parts, each with what it is, how many it is of, its  *)
(* cells, what they say, and the loops, sections and coordinates in them.         *)

Names ==
  {"object", "base", "body", "vector", "circular", "boxes", "planes", "positions", "points",
   "indices", "unions", "children", "loop", "sweep", "cutter", "loops", "sections", "sweeps",
   "cutters", "nodes"}
Entries == Names \X (Values \cup BOOLEAN)
PartRecords ==
  [what : Names, count : Nat, cells : Seq(CellSet), says : Seq(Entries),
   loops : Nat, sections : Nat, coordinates : Nat]

CellsOf == [p \in PartRecords |-> p.cells]
SaysOf == [p \in PartRecords |-> p.says]
PartLoops == [p \in PartRecords |-> p.loops]
PartSections == [p \in PartRecords |-> p.sections]
PartCoordinates == [p \in PartRecords |-> p.coordinates]

TodoCells(A) == FlattenSeq(Image(CellsOf, A))
TodoSays(A) == FlattenSeq(Image(SaysOf, A))
TodoLoops(A) == Sum(Image(PartLoops, A))
TodoSections(A) == Sum(Image(PartSections, A))
TodoCoordinates(A) == Sum(Image(PartCoordinates, A))

LEMMA PartMaps ==
  /\ Maps(CellsOf, PartRecords, Seq(CellSet)) /\ Maps(SaysOf, PartRecords, Seq(Entries))
  /\ Maps(PartLoops, PartRecords, Nat) /\ Maps(PartSections, PartRecords, Nat)
  /\ Maps(PartCoordinates, PartRecords, Nat)
 BY DEF Maps, CellsOf, SaysOf, PartLoops, PartSections, PartCoordinates, PartRecords

LEMMA TodoType ==
  ASSUME NEW A \in Seq(PartRecords)
  PROVE  /\ TodoCells(A) \in Seq(CellSet) /\ TodoSays(A) \in Seq(Entries)
         /\ TodoLoops(A) \in Nat /\ TodoSections(A) \in Nat /\ TodoCoordinates(A) \in Nat
<1>1. A \in Seq(PartRecords)
 OBVIOUS
<1>2. Image(CellsOf, A) \in Seq(Seq(CellSet))
 BY ONLY <1>1, PartMaps, ImageType
<1>3. Image(SaysOf, A) \in Seq(Seq(Entries))
 BY ONLY <1>1, PartMaps, ImageType
<1>4. Image(PartLoops, A) \in Seq(Nat)
 BY ONLY <1>1, PartMaps, ImageType
<1>5. Image(PartSections, A) \in Seq(Nat)
 BY ONLY <1>1, PartMaps, ImageType
<1>6. Image(PartCoordinates, A) \in Seq(Nat)
 BY ONLY <1>1, PartMaps, ImageType
<1>7. TodoCells(A) \in Seq(CellSet) /\ TodoSays(A) \in Seq(Entries)
 BY ONLY <1>2, <1>3, FlatType DEF TodoCells, TodoSays
<1> QED BY ONLY <1>4, <1>5, <1>6, <1>7, SumType DEF TodoLoops, TodoSections, TodoCoordinates

LEMMA TodoOfNone ==
  /\ TodoCells(<<>>) = <<>> /\ TodoSays(<<>>) = <<>>
  /\ TodoLoops(<<>>) = 0 /\ TodoSections(<<>>) = 0 /\ TodoCoordinates(<<>>) = 0
<1>1. \A g : Image(g, <<>>) = <<>>
 BY DEF Image
<1> QED BY <1>1, FlatEmpty, SumOfNone
        DEF TodoCells, TodoSays, TodoLoops, TodoSections, TodoCoordinates

TodoBegins(A, p, B) ==
  /\ TodoCells(A) = p.cells \o TodoCells(B) /\ TodoSays(A) = p.says \o TodoSays(B)
  /\ TodoLoops(A) = p.loops + TodoLoops(B) /\ TodoSections(A) = p.sections + TodoSections(B)
  /\ TodoCoordinates(A) = p.coordinates + TodoCoordinates(B)

LEMMA TodoUnrolls ==
  ASSUME NEW A \in Seq(PartRecords), A # <<>>
  PROVE  TodoBegins(A, A[1], Tail(A)) /\ A[1] \in PartRecords /\ Tail(A) \in Seq(PartRecords)
<1>1. A \in Seq(PartRecords) /\ A # <<>> /\ A[1] \in PartRecords /\ Tail(A) \in Seq(PartRecords)
 OBVIOUS
<1>2. /\ CellsOf[A[1]] = A[1].cells /\ SaysOf[A[1]] = A[1].says /\ PartLoops[A[1]] = A[1].loops
      /\ PartSections[A[1]] = A[1].sections /\ PartCoordinates[A[1]] = A[1].coordinates
 BY ONLY <1>1 DEF CellsOf, SaysOf, PartLoops, PartSections, PartCoordinates
<1>3. FlattenSeq(Image(CellsOf, A)) = CellsOf[A[1]] \o FlattenSeq(Image(CellsOf, Tail(A)))
 BY ONLY <1>1, PartMaps, FlatOfImage
<1>4. FlattenSeq(Image(SaysOf, A)) = SaysOf[A[1]] \o FlattenSeq(Image(SaysOf, Tail(A)))
 BY ONLY <1>1, PartMaps, FlatOfImage
<1>5. Sum(Image(PartLoops, A)) = PartLoops[A[1]] + Sum(Image(PartLoops, Tail(A)))
 BY ONLY <1>1, PartMaps, SumOfImage
<1>6. Sum(Image(PartSections, A)) = PartSections[A[1]] + Sum(Image(PartSections, Tail(A)))
 BY ONLY <1>1, PartMaps, SumOfImage
<1>7. Sum(Image(PartCoordinates, A)) = PartCoordinates[A[1]] + Sum(Image(PartCoordinates, Tail(A)))
 BY ONLY <1>1, PartMaps, SumOfImage
<1> QED BY ONLY <1>1, <1>2, <1>3, <1>4, <1>5, <1>6, <1>7
        DEF TodoBegins, TodoCells, TodoSays, TodoLoops, TodoSections, TodoCoordinates

TodoJoined(C, A, B) ==
  /\ TodoCells(C) = TodoCells(A) \o TodoCells(B) /\ TodoSays(C) = TodoSays(A) \o TodoSays(B)
  /\ TodoLoops(C) = TodoLoops(A) + TodoLoops(B)
  /\ TodoSections(C) = TodoSections(A) + TodoSections(B)
  /\ TodoCoordinates(C) = TodoCoordinates(A) + TodoCoordinates(B)

LEMMA TodoJoins ==
  ASSUME NEW A \in Seq(PartRecords), NEW B \in Seq(PartRecords)
  PROVE  TodoJoined(A \o B, A, B) /\ A \o B \in Seq(PartRecords)
<1>1. A \in Seq(PartRecords) /\ B \in Seq(PartRecords)
 OBVIOUS
<1>2. FlattenSeq(Image(CellsOf, A \o B)) = FlattenSeq(Image(CellsOf, A)) \o FlattenSeq(Image(CellsOf, B))
 <2>1. Image(CellsOf, A \o B) = Image(CellsOf, A) \o Image(CellsOf, B)
  BY ONLY <1>1, PartMaps, ImageOfBoth, SMTT(30)
 <2>2. Image(CellsOf, A) \in Seq(Seq(CellSet)) /\ Image(CellsOf, B) \in Seq(Seq(CellSet))
  BY ONLY <1>1, PartMaps, ImageType
 <2> QED BY ONLY <2>1, <2>2, FlatOfBoth
<1>3. FlattenSeq(Image(SaysOf, A \o B)) = FlattenSeq(Image(SaysOf, A)) \o FlattenSeq(Image(SaysOf, B))
 <2>1. Image(SaysOf, A \o B) = Image(SaysOf, A) \o Image(SaysOf, B)
  BY ONLY <1>1, PartMaps, ImageOfBoth, SMTT(30)
 <2>2. Image(SaysOf, A) \in Seq(Seq(Entries)) /\ Image(SaysOf, B) \in Seq(Seq(Entries))
  BY ONLY <1>1, PartMaps, ImageType
 <2> QED BY ONLY <2>1, <2>2, FlatOfBoth
<1>4. ASSUME NEW g, Maps(g, PartRecords, Nat)
      PROVE  Sum(Image(g, A \o B)) = Sum(Image(g, A)) + Sum(Image(g, B))
 <2>0. Maps(g, PartRecords, Nat)
  BY <1>4
 <2>1. Image(g, A \o B) = Image(g, A) \o Image(g, B)
  BY ONLY <1>1, <2>0, ImageOfBoth
 <2>2. Image(g, A) \in Seq(Nat) /\ Image(g, B) \in Seq(Nat)
  BY ONLY <1>1, <2>0, ImageType
 <2> QED BY ONLY <2>1, <2>2, SumOfBoth
<1>5. A \o B \in Seq(PartRecords)
 BY ConcatProperties
<1>6. /\ Sum(Image(PartLoops, A \o B)) = Sum(Image(PartLoops, A)) + Sum(Image(PartLoops, B))
      /\ Sum(Image(PartSections, A \o B)) = Sum(Image(PartSections, A)) + Sum(Image(PartSections, B))
      /\ Sum(Image(PartCoordinates, A \o B))
            = Sum(Image(PartCoordinates, A)) + Sum(Image(PartCoordinates, B))
 BY ONLY <1>4, PartMaps
<1> QED BY ONLY <1>2, <1>3, <1>5, <1>6
        DEF TodoJoined, TodoCells, TodoSays, TodoLoops, TodoSections, TodoCoordinates
\* Few parts, from the first to the last.
LEMMA TodoOfOne ==
  ASSUME NEW p \in PartRecords
  PROVE  /\ <<p>> \in Seq(PartRecords) /\ TodoCells(<<p>>) = p.cells /\ TodoSays(<<p>>) = p.says
         /\ TodoLoops(<<p>>) = p.loops /\ TodoSections(<<p>>) = p.sections
         /\ TodoCoordinates(<<p>>) = p.coordinates
<1>0. <<p>> \in Seq(PartRecords)
 OBVIOUS
<1>1. PICK A \in Seq(PartRecords) : A = <<p>>
 BY <1>0
<1>2. A # <<>> /\ A[1] = p /\ Tail(A) = <<>>
 BY <1>1
<1>3. TodoBegins(A, p, <<>>)
 BY <1>2, TodoUnrolls
<1>4. /\ p.cells \in Seq(CellSet) /\ p.says \in Seq(Entries) /\ p.loops \in Nat
      /\ p.sections \in Nat /\ p.coordinates \in Nat
 BY DEF PartRecords
<1>5. \A S : \A s \in Seq(S) : s \o <<>> = s
 BY ConcatEmptySeq
<1>6. p.cells \o <<>> = p.cells /\ p.says \o <<>> = p.says
 BY ONLY <1>4, <1>5
<1>7. /\ TodoCells(A) = p.cells /\ TodoSays(A) = p.says /\ TodoLoops(A) = p.loops
      /\ TodoSections(A) = p.sections /\ TodoCoordinates(A) = p.coordinates
 BY ONLY <1>3, <1>4, <1>6, TodoOfNone, SMTT(30) DEF TodoBegins
<1> QED BY <1>1, <1>7

TwoParts(p1, p2) ==
  /\ <<p1, p2>> \in Seq(PartRecords)
  /\ TodoCells(<<p1, p2>>) = p1.cells \o p2.cells
  /\ TodoSays(<<p1, p2>>) = p1.says \o p2.says
  /\ TodoLoops(<<p1, p2>>) = p1.loops + p2.loops
  /\ TodoSections(<<p1, p2>>) = p1.sections + p2.sections
  /\ TodoCoordinates(<<p1, p2>>) = p1.coordinates + p2.coordinates

LEMMA TodoOfTwo ==
  ASSUME NEW p1 \in PartRecords, NEW p2 \in PartRecords
  PROVE  TwoParts(p1, p2)
<1>0. <<p1, p2>> \in Seq(PartRecords)
 OBVIOUS
<1>1. PICK A \in Seq(PartRecords) : A = <<p1, p2>>
 BY ONLY <1>0
<1>2. A # <<>> /\ A[1] = p1 /\ Tail(A) = <<p2>>
 BY ONLY <1>1
<1>3. TodoBegins(A, p1, <<p2>>)
 BY ONLY <1>2, A \in Seq(PartRecords), TodoUnrolls
<1>4. /\ p2 \in PartRecords
 OBVIOUS
<1>5. /\ <<p2>> \in Seq(PartRecords)
      /\ TodoCells(<<p2>>) = p2.cells
      /\ TodoSays(<<p2>>) = p2.says
      /\ TodoLoops(<<p2>>) = p2.loops
      /\ TodoSections(<<p2>>) = p2.sections
      /\ TodoCoordinates(<<p2>>) = p2.coordinates
 BY ONLY <1>4, TodoOfOne
<1> QED BY ONLY A \in Seq(PartRecords), <1>1, <1>3, <1>5 DEF TodoBegins, TwoParts

ThreeParts(p1, p2, p3) ==
  /\ <<p1, p2, p3>> \in Seq(PartRecords)
  /\ TodoCells(<<p1, p2, p3>>) = p1.cells \o (p2.cells \o p3.cells)
  /\ TodoSays(<<p1, p2, p3>>) = p1.says \o (p2.says \o p3.says)
  /\ TodoLoops(<<p1, p2, p3>>) = p1.loops + (p2.loops + p3.loops)
  /\ TodoSections(<<p1, p2, p3>>) = p1.sections + (p2.sections + p3.sections)
  /\ TodoCoordinates(<<p1, p2, p3>>) = p1.coordinates + (p2.coordinates + p3.coordinates)

LEMMA TodoOfThree ==
  ASSUME NEW p1 \in PartRecords, NEW p2 \in PartRecords, NEW p3 \in PartRecords
  PROVE  ThreeParts(p1, p2, p3)
<1>0. <<p1, p2, p3>> \in Seq(PartRecords)
 OBVIOUS
<1>1. PICK A \in Seq(PartRecords) : A = <<p1, p2, p3>>
 BY ONLY <1>0
<1>2. A # <<>> /\ A[1] = p1 /\ Tail(A) = <<p2, p3>>
 BY ONLY <1>1
<1>3. TodoBegins(A, p1, <<p2, p3>>)
 BY ONLY <1>2, A \in Seq(PartRecords), TodoUnrolls
<1>4. /\ p2 \in PartRecords /\ p3 \in PartRecords
 OBVIOUS
<1>5. TwoParts(p2, p3)
 BY ONLY <1>4, TodoOfTwo
<1> QED BY ONLY A \in Seq(PartRecords), <1>1, <1>3, <1>5 DEF TodoBegins, TwoParts, ThreeParts

SixParts(p1, p2, p3, p4, p5, p6) ==
  /\ <<p1, p2, p3, p4, p5, p6>> \in Seq(PartRecords)
  /\ TodoCells(<<p1, p2, p3, p4, p5, p6>>)
        = p1.cells \o (p2.cells \o (p3.cells \o (p4.cells \o (p5.cells \o p6.cells))))
  /\ TodoSays(<<p1, p2, p3, p4, p5, p6>>)
        = p1.says \o (p2.says \o (p3.says \o (p4.says \o (p5.says \o p6.says))))
  /\ TodoLoops(<<p1, p2, p3, p4, p5, p6>>)
        = p1.loops + (p2.loops + (p3.loops + (p4.loops + (p5.loops + p6.loops))))
  /\ TodoSections(<<p1, p2, p3, p4, p5, p6>>)
        = p1.sections + (p2.sections + (p3.sections + (p4.sections +
           (p5.sections + p6.sections))))
  /\ TodoCoordinates(<<p1, p2, p3, p4, p5, p6>>)
        = p1.coordinates + (p2.coordinates + (p3.coordinates + (p4.coordinates +
           (p5.coordinates + p6.coordinates))))

LEMMA TodoOfSix ==
  ASSUME NEW p1 \in PartRecords, NEW p2 \in PartRecords, NEW p3 \in PartRecords,
         NEW p4 \in PartRecords, NEW p5 \in PartRecords, NEW p6 \in PartRecords
  PROVE  SixParts(p1, p2, p3, p4, p5, p6)
<1>1. PICK A1 \in Seq(PartRecords) : A1 = <<p1, p2, p3, p4, p5, p6>>
 <2>1. <<p1, p2, p3, p4, p5, p6>> \in Seq(PartRecords)
  OBVIOUS
 <2> QED BY ONLY <2>1
<1>2. PICK A2 \in Seq(PartRecords) : A2 = <<p2, p3, p4, p5, p6>>
 <2>1. <<p2, p3, p4, p5, p6>> \in Seq(PartRecords)
  OBVIOUS
 <2> QED BY ONLY <2>1
<1>3. PICK A3 \in Seq(PartRecords) : A3 = <<p3, p4, p5, p6>>
 <2>1. <<p3, p4, p5, p6>> \in Seq(PartRecords)
  OBVIOUS
 <2> QED BY ONLY <2>1
<1>4. TodoBegins(A1, p1, <<p2, p3, p4, p5, p6>>)
 <2>1. A1 # <<>> /\ A1[1] = p1 /\ Tail(A1) = <<p2, p3, p4, p5, p6>>
  BY ONLY <1>1
 <2> QED BY ONLY <2>1, A1 \in Seq(PartRecords), TodoUnrolls
<1>5. TodoBegins(A2, p2, <<p3, p4, p5, p6>>)
 <2>1. A2 # <<>> /\ A2[1] = p2 /\ Tail(A2) = <<p3, p4, p5, p6>>
  BY ONLY <1>2
 <2> QED BY ONLY <2>1, A2 \in Seq(PartRecords), TodoUnrolls
<1>6. TodoBegins(A3, p3, <<p4, p5, p6>>)
 <2>1. A3 # <<>> /\ A3[1] = p3 /\ Tail(A3) = <<p4, p5, p6>>
  BY ONLY <1>3
 <2> QED BY ONLY <2>1, A3 \in Seq(PartRecords), TodoUnrolls
<1>7. ThreeParts(p4, p5, p6)
 BY ONLY p4 \in PartRecords, p5 \in PartRecords, p6 \in PartRecords, TodoOfThree
<1> QED BY ONLY A1 \in Seq(PartRecords), <1>1, <1>2, <1>3, <1>4, <1>5, <1>6, <1>7
        DEF TodoBegins, ThreeParts, SixParts

EightParts(p1, p2, p3, p4, p5, p6, p7, p8) ==
  /\ <<p1, p2, p3, p4, p5, p6, p7, p8>> \in Seq(PartRecords)
  /\ TodoCells(<<p1, p2, p3, p4, p5, p6, p7, p8>>)
        = p1.cells \o (p2.cells \o (p3.cells \o (p4.cells \o (p5.cells \o (p6.cells \o
           (p7.cells \o p8.cells))))))
  /\ TodoSays(<<p1, p2, p3, p4, p5, p6, p7, p8>>)
        = p1.says \o (p2.says \o (p3.says \o (p4.says \o (p5.says \o (p6.says \o
           (p7.says \o p8.says))))))
  /\ TodoLoops(<<p1, p2, p3, p4, p5, p6, p7, p8>>)
        = p1.loops + (p2.loops + (p3.loops + (p4.loops + (p5.loops + (p6.loops +
           (p7.loops + p8.loops))))))
  /\ TodoSections(<<p1, p2, p3, p4, p5, p6, p7, p8>>)
        = p1.sections + (p2.sections + (p3.sections + (p4.sections + (p5.sections +
           (p6.sections + (p7.sections + p8.sections))))))
  /\ TodoCoordinates(<<p1, p2, p3, p4, p5, p6, p7, p8>>)
        = p1.coordinates + (p2.coordinates + (p3.coordinates + (p4.coordinates +
           (p5.coordinates + (p6.coordinates + (p7.coordinates + p8.coordinates))))))

LEMMA TodoOfEight ==
  ASSUME NEW p1 \in PartRecords, NEW p2 \in PartRecords, NEW p3 \in PartRecords,
         NEW p4 \in PartRecords, NEW p5 \in PartRecords, NEW p6 \in PartRecords,
         NEW p7 \in PartRecords, NEW p8 \in PartRecords
  PROVE  EightParts(p1, p2, p3, p4, p5, p6, p7, p8)
<1>1. PICK A1 \in Seq(PartRecords) : A1 = <<p1, p2, p3, p4, p5, p6, p7, p8>>
 <2>1. <<p1, p2, p3, p4, p5, p6, p7, p8>> \in Seq(PartRecords)
  OBVIOUS
 <2> QED BY ONLY <2>1
<1>2. PICK A2 \in Seq(PartRecords) : A2 = <<p2, p3, p4, p5, p6, p7, p8>>
 <2>1. <<p2, p3, p4, p5, p6, p7, p8>> \in Seq(PartRecords)
  OBVIOUS
 <2> QED BY ONLY <2>1
<1>3. TodoBegins(A1, p1, <<p2, p3, p4, p5, p6, p7, p8>>)
 <2>1. A1 # <<>> /\ A1[1] = p1 /\ Tail(A1) = <<p2, p3, p4, p5, p6, p7, p8>>
  BY ONLY <1>1
 <2> QED BY ONLY <2>1, A1 \in Seq(PartRecords), TodoUnrolls
<1>4. TodoBegins(A2, p2, <<p3, p4, p5, p6, p7, p8>>)
 <2>1. A2 # <<>> /\ A2[1] = p2 /\ Tail(A2) = <<p3, p4, p5, p6, p7, p8>>
  BY ONLY <1>2
 <2> QED BY ONLY <2>1, A2 \in Seq(PartRecords), TodoUnrolls
<1>5. SixParts(p3, p4, p5, p6, p7, p8)
 <2>1. /\ p3 \in PartRecords /\ p4 \in PartRecords /\ p5 \in PartRecords
       /\ p6 \in PartRecords /\ p7 \in PartRecords /\ p8 \in PartRecords
  OBVIOUS
 <2> QED BY ONLY <2>1, TodoOfSix
<1> QED BY ONLY A1 \in Seq(PartRecords), <1>1, <1>2, <1>3, <1>4, <1>5
        DEF TodoBegins, SixParts, EightParts
\* What the cells of each part say.
LEMMA TaggedFacts ==
  ASSUME NEW name \in Names, NEW v \in Seq(Values)
  PROVE  /\ Tagged(name, v) \in Seq(Entries) /\ Len(Tagged(name, v)) = Len(v)
         /\ \A k \in 1 .. Len(v) : Tagged(name, v)[k] = <<name, v[k]>>
<1>1. \A k \in DOMAIN v : <<name, v[k]>> \in Entries
 <2>1. \A k \in DOMAIN v : v[k] \in Values
  OBVIOUS
 <2> QED BY Zenon, <2>1 DEF Entries
<1>2. Tagged(name, v) \in Seq(Entries) /\ Len(Tagged(name, v)) = Len(v)
 BY <1>1 DEF Tagged
<1>3. \A k \in 1 .. Len(v) : Tagged(name, v)[k] = <<name, v[k]>>
 BY DEF Tagged
<1> QED BY <1>2, <1>3

LEMMA EntryFacts ==
  ASSUME NEW name \in Names, NEW x, x \in Int \/ x \in Extents \/ x \in BOOLEAN
  PROVE  <<name, x>> \in Entries
 BY Zenon DEF Entries, Values

LEMMA LoopListingFacts ==
  ASSUME NEW l \in Loops
  PROVE  /\ LoopListing(l) \in Seq(Entries)
         /\ LoopListing(l) = <<<<"loop", 3 * Len(l)>>>> \o Tagged("points", l)
         /\ <<<<"loop", 3 * Len(l)>>>> \in Seq(Entries) /\ Tagged("points", l) \in Seq(Entries)
<1>1. "loop" \in Names /\ "points" \in Names
 BY DEF Names
<1>2. Tagged("points", l) \in Seq(Entries)
 BY <1>1, Widened, TaggedFacts DEF Loops
<1>3. 3 * Len(l) \in Int
 BY DEF Loops
<1>4. PICK e \in Entries : e = <<"loop", 3 * Len(l)>>
 BY <1>1, <1>3, EntryFacts
<1>5. <<e>> \in Seq(Entries)
 OBVIOUS
<1>6. LoopListing(l) = <<<<"loop", 3 * Len(l)>>>> \o Tagged("points", l)
 BY DEF LoopListing
<1>7. <<e>> \o Tagged("points", l) \in Seq(Entries)
 BY <1>2, <1>5, ConcatProperties
<1> QED BY ONLY <1>2, <1>4, <1>5, <1>6, <1>7

LEMMA SaidFacts ==
  ASSUME NEW S, NEW g, Maps(g, S, Seq(Entries)), NEW v \in Seq(S)
  PROVE  FlattenSeq(Image(g, v)) \in Seq(Entries)
<1>1. Maps(g, S, Seq(Entries)) /\ v \in Seq(S)
 OBVIOUS
<1>2. Image(g, v) \in Seq(Seq(Entries))
 BY ONLY <1>1, ImageType
<1> QED BY ONLY <1>2, FlatType

LoopSays == [l \in Loops |-> LoopListing(l)]
PointCounts == [l \in Loops |-> 3 * Len(l)]

LEMMA LoopsSaid ==
  ASSUME NEW v \in Seq(Loops)
  PROVE  /\ Each(LoopListing, v) = Image(LoopSays, v) /\ Maps(LoopSays, Loops, Seq(Entries))
         /\ FlattenSeq(Each(LoopListing, v)) \in Seq(Entries)
         /\ Coordinates(v) = Sum(Image(PointCounts, v)) /\ Maps(PointCounts, Loops, Nat)
         /\ Coordinates(v) \in Nat
<1>1. \A l \in Loops : LoopListing(l) \in Seq(Entries)
 BY LoopListingFacts
<1>2. Maps(LoopSays, Loops, Seq(Entries))
 BY ONLY <1>1 DEF Maps, LoopSays
<1>3. \A k \in DOMAIN v : v[k] \in Loops
 OBVIOUS
<1>4. Each(LoopListing, v) = Image(LoopSays, v)
 BY ONLY <1>3 DEF Each, Image, LoopSays
<1>5. v \in Seq(Loops)
 OBVIOUS
<1>6. FlattenSeq(Image(LoopSays, v)) \in Seq(Entries)
 BY ONLY <1>2, <1>5, SaidFacts
<1>7. \A l \in Loops : 3 * Len(l) \in Nat
 BY DEF Loops
<1>8. Maps(PointCounts, Loops, Nat)
 BY ONLY <1>7 DEF Maps, PointCounts
<1>9. Coordinates(v) = Sum(Image(PointCounts, v))
 <2>1. [k \in DOMAIN v |-> 3 * Len(v[k])] = Image(PointCounts, v)
  BY ONLY <1>3 DEF Image, PointCounts
 <2> QED BY ONLY <2>1 DEF Coordinates
<1>10. Image(PointCounts, v) \in Seq(Nat)
 BY ONLY <1>5, <1>8, ImageType
<1> QED BY ONLY <1>2, <1>4, <1>6, <1>8, <1>9, <1>10, SumType

LEMMA SweepListingFacts ==
  ASSUME NEW l \in Seq(Loops)
  PROVE  /\ SweepListing(l) \in Seq(Entries)
         /\ SweepListing(l) = <<<<"sweep", Len(l)>>>> \o FlattenSeq(Each(LoopListing, l))
         /\ <<<<"sweep", Len(l)>>>> \in Seq(Entries)
<1>1. "sweep" \in Names
 BY DEF Names
<1>2. PICK t \in Seq(Entries) : t = FlattenSeq(Each(LoopListing, l))
 BY LoopsSaid
<1>3. Len(l) \in Int
 OBVIOUS
<1>4. PICK e \in Entries : e = <<"sweep", Len(l)>>
 BY <1>1, <1>3, EntryFacts
<1>5. <<e>> \in Seq(Entries)
 OBVIOUS
<1>6. SweepListing(l) = <<<<"sweep", Len(l)>>>> \o FlattenSeq(Each(LoopListing, l))
 BY DEF SweepListing
<1>7. <<e>> \o t \in Seq(Entries)
 BY <1>5, ConcatProperties
<1> QED BY ONLY <1>2, <1>4, <1>5, <1>6, <1>7

SweepSays == [l \in Seq(Loops) |-> SweepListing(l)]
SectionCounts == [l \in Seq(Loops) |-> Len(l)]
SweepPoints == [l \in Seq(Loops) |-> Coordinates(l)]

LEMMA SweepsSaid ==
  ASSUME NEW v \in Seq(Seq(Loops))
  PROVE  /\ Each(SweepListing, v) = Image(SweepSays, v) /\ Maps(SweepSays, Seq(Loops), Seq(Entries))
         /\ FlattenSeq(Each(SweepListing, v)) \in Seq(Entries)
         /\ Sum(Each(Len, v)) = Sum(Image(SectionCounts, v)) /\ Maps(SectionCounts, Seq(Loops), Nat)
         /\ Sum(Each(Coordinates, v)) = Sum(Image(SweepPoints, v)) /\ Maps(SweepPoints, Seq(Loops), Nat)
         /\ Sum(Each(Len, v)) \in Nat /\ Sum(Each(Coordinates, v)) \in Nat
<1>1. \A l \in Seq(Loops) : SweepListing(l) \in Seq(Entries) /\ Len(l) \in Nat /\ Coordinates(l) \in Nat
 <2>1. \A l \in Seq(Loops) : SweepListing(l) \in Seq(Entries)
  BY SweepListingFacts
 <2>2. \A l \in Seq(Loops) : Coordinates(l) \in Nat
  BY LoopsSaid
 <2> QED BY <2>1, <2>2
<1>2. /\ Maps(SweepSays, Seq(Loops), Seq(Entries)) /\ Maps(SectionCounts, Seq(Loops), Nat)
      /\ Maps(SweepPoints, Seq(Loops), Nat)
 BY ONLY <1>1 DEF Maps, SweepSays, SectionCounts, SweepPoints
<1>3. \A k \in DOMAIN v : v[k] \in Seq(Loops)
 OBVIOUS
<1>4. /\ Each(SweepListing, v) = Image(SweepSays, v) /\ Each(Len, v) = Image(SectionCounts, v)
      /\ Each(Coordinates, v) = Image(SweepPoints, v)
 BY ONLY <1>3 DEF Each, Image, SweepSays, SectionCounts, SweepPoints
<1>5. v \in Seq(Seq(Loops))
 OBVIOUS
<1>6. FlattenSeq(Image(SweepSays, v)) \in Seq(Entries)
 BY ONLY <1>2, <1>5, SaidFacts
<1>7. Image(SectionCounts, v) \in Seq(Nat)
 BY ONLY <1>2, <1>5, ImageType
<1>8. Image(SweepPoints, v) \in Seq(Nat)
 BY ONLY <1>2, <1>5, ImageType
<1>9. Sum(Image(SectionCounts, v)) \in Nat /\ Sum(Image(SweepPoints, v)) \in Nat
 BY ONLY <1>7, <1>8, SumType
<1> QED BY ONLY <1>2, <1>4, <1>6, <1>9

LEMMA CutterListingFacts ==
  ASSUME NEW m \in TriangleMeshes
  PROVE  /\ CutterListing(m) \in Seq(Entries)
         /\ CutterListing(m) = <<<<"cutter", 3 * Len(m.positions)>>>> \o
                               (Tagged("positions", m.positions) \o Tagged("indices", m.indices))
         /\ <<<<"cutter", 3 * Len(m.positions)>>>> \in Seq(Entries)
         /\ Tagged("positions", m.positions) \in Seq(Entries)
         /\ Tagged("indices", m.indices) \in Seq(Entries)
<1>1. "cutter" \in Names /\ "positions" \in Names /\ "indices" \in Names
 BY DEF Names
<1>2. m.positions \in Seq(Int) /\ m.indices \in Seq(Nat)
 BY MeshFacts
<1>3. Tagged("positions", m.positions) \in Seq(Entries) /\ Tagged("indices", m.indices) \in Seq(Entries)
 BY <1>1, <1>2, Widened, TaggedFacts
<1>4. 3 * Len(m.positions) \in Int
 BY <1>2
<1>5. PICK e \in Entries : e = <<"cutter", 3 * Len(m.positions)>>
 BY <1>1, <1>4, EntryFacts
<1>6. <<e>> \in Seq(Entries)
 OBVIOUS
<1>7. PICK t \in Seq(Entries) : t = Tagged("positions", m.positions) \o Tagged("indices", m.indices)
 BY <1>3, ConcatProperties
<1>8. CutterListing(m) = <<<<"cutter", 3 * Len(m.positions)>>>> \o
                         (Tagged("positions", m.positions) \o Tagged("indices", m.indices))
 BY DEF CutterListing, MeshListing
<1>9. <<e>> \o t \in Seq(Entries)
 BY <1>6, ConcatProperties
<1> QED BY ONLY <1>3, <1>5, <1>6, <1>7, <1>8, <1>9

CutterSays == [m \in TriangleMeshes |-> CutterListing(m)]

LEMMA CuttersSaid ==
  ASSUME NEW v \in Seq(TriangleMeshes)
  PROVE  /\ Each(CutterListing, v) = Image(CutterSays, v) /\ Maps(CutterSays, TriangleMeshes, Seq(Entries))
         /\ FlattenSeq(Each(CutterListing, v)) \in Seq(Entries)
<1>1. \A m \in TriangleMeshes : CutterListing(m) \in Seq(Entries)
 BY CutterListingFacts
<1>2. Maps(CutterSays, TriangleMeshes, Seq(Entries))
 BY ONLY <1>1 DEF Maps, CutterSays
<1>3. \A k \in DOMAIN v : v[k] \in TriangleMeshes
 OBVIOUS
<1>4. Each(CutterListing, v) = Image(CutterSays, v)
 BY ONLY <1>3 DEF Each, Image, CutterSays
<1>5. v \in Seq(TriangleMeshes)
 OBVIOUS
<1>6. FlattenSeq(Image(CutterSays, v)) \in Seq(Entries)
 BY ONLY <1>2, <1>5, SaidFacts
<1> QED BY ONLY <1>2, <1>4, <1>6
RunPart(what, w, v) ==
  [what |-> what, count |-> Len(v), cells |-> Run(w, v), says |-> Tagged(what, v),
   loops |-> 0, sections |-> 0, coordinates |-> 0]
LoopsPart(what, v) ==
  [what |-> what, count |-> Len(v), cells |-> FlattenSeq(Image(LoopMap, v)),
   says |-> FlattenSeq(Image(LoopSays, v)),
   loops |-> 0, sections |-> 0, coordinates |-> Sum(Image(PointCounts, v))]
SweepsPart(v) ==
  [what |-> "sweeps", count |-> Len(v), cells |-> FlattenSeq(Image(SweepMap, v)),
   says |-> FlattenSeq(Image(SweepSays, v)), loops |-> 0,
   sections |-> Sum(Image(SectionCounts, v)), coordinates |-> Sum(Image(SweepPoints, v))]
CuttersPart(v) ==
  [what |-> "cutters", count |-> Len(v), cells |-> FlattenSeq(Image(CutterMap, v)),
   says |-> FlattenSeq(Image(CutterSays, v)), loops |-> 0, sections |-> 0, coordinates |-> 0]

NodeParts(n) ==
  <<RunPart("boxes", 48, n.boxes), RunPart("planes", 48, n.planes),
    RunPart("positions", 24, n.mesh.positions), RunPart("indices", 4, n.mesh.indices),
    LoopsPart("loops", n.extrusion), SweepsPart(n.sweep), RunPart("unions", 4, n.unions),
    RunPart("children", 4, n.children)>>
NodeOpening(n) ==
  <<<<"object", n.object>>, <<"base", n.base>>, <<"vector", n.vector>>, <<"circular", n.circular>>>>
NodeSays(n) == NodeOpening(n) \o TodoSays(NodeParts(n))

NodeTells == [n \in NodeRecords |-> NodeSays(n)]
NodeLoops == [n \in NodeRecords |-> LoopsOf(n)]
NodeSections == [n \in NodeRecords |-> SectionsOf(n)]
NodeCoordinates == [n \in NodeRecords |-> CoordinatesOf(n)]

NodesPart(v) ==
  [what |-> "nodes", count |-> Len(v), cells |-> FlattenSeq(Image(NodeMap, v)),
   says |-> FlattenSeq(Image(NodeTells, v)), loops |-> Sum(Image(NodeLoops, v)),
   sections |-> Sum(Image(NodeSections, v)), coordinates |-> Sum(Image(NodeCoordinates, v))]

LEMMA RunPartFacts ==
  ASSUME NEW what \in Names, NEW w \in Nat, NEW v,
         v \in Seq(Int) \/ v \in Seq(Nat) \/ v \in Seq(Extents)
  PROVE  RunPart(what, w, v) \in PartRecords
<1>1. v \in Seq(Values) /\ Len(v) \in Nat
 BY Widened
<1>2. Run(w, v) \in Seq(CellSet) /\ Tagged(what, v) \in Seq(Entries)
 BY <1>1, RunFacts, TaggedFacts
<1> QED BY ONLY <1>1, <1>2, what \in Names DEF PartRecords, RunPart

LEMMA LoopsPartFacts ==
  ASSUME NEW what \in Names, NEW v \in Seq(Loops)
  PROVE  LoopsPart(what, v) \in PartRecords
<1>1. v \in Seq(Loops) /\ Len(v) \in Nat
 OBVIOUS
<1>2. /\ FlattenSeq(Image(LoopMap, v)) \in Seq(CellSet) /\ FlattenSeq(Image(LoopSays, v)) \in Seq(Entries)
      /\ Sum(Image(PointCounts, v)) \in Nat
 BY <1>1, LoopsFacts, LoopsSaid
<1> QED BY ONLY <1>1, <1>2, what \in Names DEF PartRecords, LoopsPart

LEMMA SweepsPartFacts ==
  ASSUME NEW v \in Seq(Seq(Loops))
  PROVE  SweepsPart(v) \in PartRecords
<1>1. v \in Seq(Seq(Loops)) /\ Len(v) \in Nat
 OBVIOUS
<1>2. /\ FlattenSeq(Image(SweepMap, v)) \in Seq(CellSet) /\ FlattenSeq(Image(SweepSays, v)) \in Seq(Entries)
      /\ Sum(Image(SectionCounts, v)) \in Nat /\ Sum(Image(SweepPoints, v)) \in Nat
 BY <1>1, SweepsFacts, SweepsSaid
<1>3. "sweeps" \in Names
 BY DEF Names
<1> QED BY ONLY <1>1, <1>2, <1>3 DEF PartRecords, SweepsPart

LEMMA CuttersPartFacts ==
  ASSUME NEW v \in Seq(TriangleMeshes)
  PROVE  CuttersPart(v) \in PartRecords
<1>1. v \in Seq(TriangleMeshes) /\ Len(v) \in Nat
 OBVIOUS
<1>2. FlattenSeq(Image(CutterMap, v)) \in Seq(CellSet) /\ FlattenSeq(Image(CutterSays, v)) \in Seq(Entries)
 BY <1>1, CuttersFacts, CuttersSaid
<1>3. "cutters" \in Names
 BY DEF Names
<1> QED BY ONLY <1>1, <1>2, <1>3 DEF PartRecords, CuttersPart

NodeLined(n, p1, p2, p3, p4, p5, p6, p7, p8) ==
  /\ p1 = RunPart("boxes", 48, n.boxes) /\ p2 = RunPart("planes", 48, n.planes)
  /\ p3 = RunPart("positions", 24, n.mesh.positions) /\ p4 = RunPart("indices", 4, n.mesh.indices)
  /\ p5 = LoopsPart("loops", n.extrusion) /\ p6 = SweepsPart(n.sweep)
  /\ p7 = RunPart("unions", 4, n.unions) /\ p8 = RunPart("children", 4, n.children)
  /\ NodeParts(n) = <<p1, p2, p3, p4, p5, p6, p7, p8>> /\ EightParts(p1, p2, p3, p4, p5, p6, p7, p8)

LEMMA NodeLines ==
  ASSUME NEW n \in NodeRecords
  PROVE  \E p1 \in PartRecords, p2 \in PartRecords, p3 \in PartRecords, p4 \in PartRecords,
            p5 \in PartRecords, p6 \in PartRecords, p7 \in PartRecords, p8 \in PartRecords :
            NodeLined(n, p1, p2, p3, p4, p5, p6, p7, p8)
<1>1. /\ n.boxes \in Seq(Extents) /\ n.planes \in Seq(Extents) /\ n.mesh.positions \in Seq(Int)
      /\ n.mesh.indices \in Seq(Nat) /\ n.children \in Seq(Nat) /\ n.unions \in Seq(Nat)
      /\ n.extrusion \in Seq(Loops) /\ n.sweep \in Seq(Seq(Loops))
 BY NodeFields, MeshFacts
<1>2. /\ "boxes" \in Names /\ "planes" \in Names /\ "positions" \in Names /\ "indices" \in Names
      /\ "loops" \in Names /\ "unions" \in Names /\ "children" \in Names
 BY DEF Names
<1>3. PICK p1 \in PartRecords, p2 \in PartRecords, p3 \in PartRecords, p4 \in PartRecords,
           p5 \in PartRecords, p6 \in PartRecords, p7 \in PartRecords, p8 \in PartRecords :
         /\ p1 = RunPart("boxes", 48, n.boxes) /\ p2 = RunPart("planes", 48, n.planes)
         /\ p3 = RunPart("positions", 24, n.mesh.positions)
         /\ p4 = RunPart("indices", 4, n.mesh.indices)
         /\ p5 = LoopsPart("loops", n.extrusion) /\ p6 = SweepsPart(n.sweep)
         /\ p7 = RunPart("unions", 4, n.unions) /\ p8 = RunPart("children", 4, n.children)
 <2>1. /\ RunPart("boxes", 48, n.boxes) \in PartRecords /\ RunPart("planes", 48, n.planes) \in PartRecords
       /\ RunPart("positions", 24, n.mesh.positions) \in PartRecords
       /\ RunPart("indices", 4, n.mesh.indices) \in PartRecords
       /\ RunPart("unions", 4, n.unions) \in PartRecords
       /\ RunPart("children", 4, n.children) \in PartRecords
  BY <1>1, <1>2, RunPartFacts
 <2>2. LoopsPart("loops", n.extrusion) \in PartRecords /\ SweepsPart(n.sweep) \in PartRecords
  BY <1>1, <1>2, LoopsPartFacts, SweepsPartFacts
 <2> QED BY ONLY <2>1, <2>2
<1>4. NodeParts(n) = <<p1, p2, p3, p4, p5, p6, p7, p8>>
 BY ONLY <1>3 DEF NodeParts
<1>5. EightParts(p1, p2, p3, p4, p5, p6, p7, p8)
 <2>1. /\ p1 \in PartRecords /\ p2 \in PartRecords /\ p3 \in PartRecords /\ p4 \in PartRecords
       /\ p5 \in PartRecords /\ p6 \in PartRecords /\ p7 \in PartRecords /\ p8 \in PartRecords
  OBVIOUS
 <2> QED BY ONLY <2>1, TodoOfEight
<1> QED BY ONLY <1>3, <1>4, <1>5 DEF NodeLined

LEMMA NodePartsFacts ==
  ASSUME NEW n \in NodeRecords
  PROVE  /\ NodeParts(n) \in Seq(PartRecords) /\ NodeOpening(n) \in Seq(Entries)
         /\ NodeSays(n) \in Seq(Entries)
         /\ EncodeNode(n) = NodeHeader(n) \o TodoCells(NodeParts(n))
         /\ TodoSays(NodeParts(n)) \in Seq(Entries)
         /\ TodoLoops(NodeParts(n)) = 0 /\ TodoSections(NodeParts(n)) = SectionsOf(n)
         /\ TodoCoordinates(NodeParts(n)) = CoordinatesOf(n)
         /\ SectionsOf(n) \in Nat /\ CoordinatesOf(n) \in Nat /\ LoopsOf(n) \in Nat
<1>1. /\ n.boxes \in Seq(Extents) /\ n.planes \in Seq(Extents) /\ n.mesh.positions \in Seq(Int)
      /\ n.mesh.indices \in Seq(Nat) /\ n.children \in Seq(Nat) /\ n.unions \in Seq(Nat)
      /\ n.extrusion \in Seq(Loops) /\ n.sweep \in Seq(Seq(Loops))
 BY NodeFields, MeshFacts
<1>2. /\ "boxes" \in Names /\ "planes" \in Names /\ "positions" \in Names /\ "indices" \in Names
      /\ "loops" \in Names /\ "unions" \in Names /\ "children" \in Names
      /\ "object" \in Names /\ "base" \in Names /\ "vector" \in Names /\ "circular" \in Names
 BY DEF Names
<1>3. PICK p1 \in PartRecords, p2 \in PartRecords, p3 \in PartRecords, p4 \in PartRecords,
           p5 \in PartRecords, p6 \in PartRecords, p7 \in PartRecords, p8 \in PartRecords :
         NodeLined(n, p1, p2, p3, p4, p5, p6, p7, p8)
 BY ONLY n \in NodeRecords, NodeLines
<1>6. /\ p1.cells = Run(48, n.boxes) /\ p2.cells = Run(48, n.planes)
      /\ p3.cells = Run(24, n.mesh.positions) /\ p4.cells = Run(4, n.mesh.indices)
      /\ p5.cells = FlattenSeq(Image(LoopMap, n.extrusion))
      /\ p6.cells = FlattenSeq(Image(SweepMap, n.sweep))
      /\ p7.cells = Run(4, n.unions) /\ p8.cells = Run(4, n.children)
 BY ONLY <1>3 DEF NodeLined, RunPart, LoopsPart, SweepsPart
<1>7. TodoCells(NodeParts(n))
         = p1.cells \o (p2.cells \o (p3.cells \o (p4.cells \o (p5.cells \o (p6.cells \o
             (p7.cells \o p8.cells))))))
 BY ONLY <1>3 DEF NodeLined, EightParts
<1>8. EncodeNode(n) = NodeHeader(n) \o TodoCells(NodeParts(n))
 <2>1. n \in NodeRecords
  OBVIOUS
 <2>2. EncodeNode(n) =
                NodeHeader(n) \o
                (Run(48, n.boxes) \o
                 (Run(48, n.planes) \o
                  (Run(24, n.mesh.positions) \o
                   (Run(4, n.mesh.indices) \o
                    (FlattenSeq(Each(LoopCells, n.extrusion)) \o
                     (FlattenSeq(Each(SweepCells, n.sweep)) \o
                      (Run(4, n.unions) \o Run(4, n.children))))))))
  BY ONLY <2>1, NodeFacts
 <2>3. Each(LoopCells, n.extrusion) = Image(LoopMap, n.extrusion)
  BY <1>1, LoopsFacts
 <2>4. Each(SweepCells, n.sweep) = Image(SweepMap, n.sweep)
  BY <1>1, SweepsFacts
 <2> QED BY ONLY <1>6, <1>7, <2>2, <2>3, <2>4
<1>9. /\ p1.loops = 0 /\ p2.loops = 0 /\ p3.loops = 0 /\ p4.loops = 0 /\ p5.loops = 0 /\ p6.loops = 0
      /\ p7.loops = 0 /\ p8.loops = 0
      /\ p1.sections = 0 /\ p2.sections = 0 /\ p3.sections = 0 /\ p4.sections = 0 /\ p5.sections = 0
      /\ p6.sections = Sum(Image(SectionCounts, n.sweep)) /\ p7.sections = 0 /\ p8.sections = 0
      /\ p1.coordinates = 0 /\ p2.coordinates = 0 /\ p3.coordinates = 0 /\ p4.coordinates = 0
      /\ p5.coordinates = Sum(Image(PointCounts, n.extrusion))
      /\ p6.coordinates = Sum(Image(SweepPoints, n.sweep)) /\ p7.coordinates = 0 /\ p8.coordinates = 0
 BY ONLY <1>3 DEF NodeLined, RunPart, LoopsPart, SweepsPart
<1>10. PICK x \in Nat, y \in Nat, z \in Nat :
          /\ x = Sum(Image(SectionCounts, n.sweep)) /\ y = Sum(Image(PointCounts, n.extrusion))
          /\ z = Sum(Image(SweepPoints, n.sweep))
          /\ x = Sum(Each(Len, n.sweep)) /\ y = Coordinates(n.extrusion)
          /\ z = Sum(Each(Coordinates, n.sweep))
 BY <1>1, LoopsSaid, SweepsSaid
<1>11. /\ TodoLoops(NodeParts(n)) = 0 + (0 + (0 + (0 + (0 + (0 + (0 + 0))))))
       /\ TodoSections(NodeParts(n)) = 0 + (0 + (0 + (0 + (0 + (x + (0 + 0))))))
       /\ TodoCoordinates(NodeParts(n)) = 0 + (0 + (0 + (0 + (y + (z + (0 + 0))))))
 <2>1. NodeParts(n) = <<p1, p2, p3, p4, p5, p6, p7, p8>>
       /\ EightParts(p1, p2, p3, p4, p5, p6, p7, p8)
  BY ONLY <1>3 DEF NodeLined
 <2> QED BY ONLY <1>9, <1>10, <2>1 DEF EightParts
<1>12. SectionsOf(n) = x /\ CoordinatesOf(n) = y + z
 BY ONLY <1>10 DEF SectionsOf, CoordinatesOf, SweepCoordinates
<1>13. LoopsOf(n) \in Nat
 <2>1. PICK a \in Nat, b \in Nat : a = Len(n.extrusion) /\ b = Len(n.sweep)
  BY <1>1
 <2>2. LoopsOf(n) = a + b
  BY <2>1 DEF LoopsOf
 <2> QED BY <2>2
<1>14. NodeParts(n) \in Seq(PartRecords)
 BY ONLY <1>3 DEF NodeLined, EightParts
<1>15. TodoSays(NodeParts(n)) \in Seq(Entries)
 BY ONLY <1>14, TodoType
<1>16. NodeOpening(n) \in Seq(Entries)
 <2>1. n.object \in Int /\ n.base \in Extents /\ n.vector \in Int /\ n.circular \in BOOLEAN
  BY NodeFields
 <2>2. PICK a \in Entries, b \in Entries, c \in Entries, d \in Entries :
          /\ a = <<"object", n.object>> /\ b = <<"base", n.base>> /\ c = <<"vector", n.vector>>
          /\ d = <<"circular", n.circular>>
  BY ONLY <1>2, <2>1, EntryFacts
 <2>3. <<a, b, c, d>> \in Seq(Entries)
  OBVIOUS
 <2> QED BY ONLY <2>2, <2>3 DEF NodeOpening
<1>17. NodeSays(n) \in Seq(Entries)
 BY ONLY <1>15, <1>16, ConcatProperties DEF NodeSays
<1>18. x \in Nat /\ y + z \in Nat
 OBVIOUS
<1> QED BY ONLY <1>8, <1>11, <1>12, <1>13, <1>14, <1>15, <1>16, <1>17, <1>18
LEMMA NodesSaid ==
  ASSUME NEW v \in Seq(NodeRecords)
  PROVE  /\ Each(NodeSays, v) = Image(NodeTells, v) /\ Maps(NodeTells, NodeRecords, Seq(Entries))
         /\ Sum(Each(LoopsOf, v)) = Sum(Image(NodeLoops, v)) /\ Maps(NodeLoops, NodeRecords, Nat)
         /\ Sum(Each(SectionsOf, v)) = Sum(Image(NodeSections, v)) /\ Maps(NodeSections, NodeRecords, Nat)
         /\ Sum(Each(CoordinatesOf, v)) = Sum(Image(NodeCoordinates, v))
         /\ Maps(NodeCoordinates, NodeRecords, Nat)
         /\ NodesPart(v) \in PartRecords
<1>1. \A n \in NodeRecords : /\ NodeSays(n) \in Seq(Entries) /\ LoopsOf(n) \in Nat
                             /\ SectionsOf(n) \in Nat /\ CoordinatesOf(n) \in Nat
 BY NodePartsFacts
<1>2. /\ Maps(NodeTells, NodeRecords, Seq(Entries)) /\ Maps(NodeLoops, NodeRecords, Nat)
      /\ Maps(NodeSections, NodeRecords, Nat) /\ Maps(NodeCoordinates, NodeRecords, Nat)
 BY ONLY <1>1 DEF Maps, NodeTells, NodeLoops, NodeSections, NodeCoordinates
<1>3. \A k \in DOMAIN v : v[k] \in NodeRecords
 OBVIOUS
<1>4. /\ Each(NodeSays, v) = Image(NodeTells, v) /\ Each(LoopsOf, v) = Image(NodeLoops, v)
      /\ Each(SectionsOf, v) = Image(NodeSections, v)
      /\ Each(CoordinatesOf, v) = Image(NodeCoordinates, v)
 BY ONLY <1>3 DEF Each, Image, NodeTells, NodeLoops, NodeSections, NodeCoordinates
<1>5. v \in Seq(NodeRecords) /\ Len(v) \in Nat
 OBVIOUS
<1>6. FlattenSeq(Image(NodeTells, v)) \in Seq(Entries)
 BY ONLY <1>2, <1>5, SaidFacts
<1>7. Image(NodeLoops, v) \in Seq(Nat)
 BY ONLY <1>2, <1>5, ImageType
<1>8. Image(NodeSections, v) \in Seq(Nat)
 BY ONLY <1>2, <1>5, ImageType
<1>9. Image(NodeCoordinates, v) \in Seq(Nat)
 BY ONLY <1>2, <1>5, ImageType
<1>10. /\ Sum(Image(NodeLoops, v)) \in Nat /\ Sum(Image(NodeSections, v)) \in Nat
       /\ Sum(Image(NodeCoordinates, v)) \in Nat
 BY ONLY <1>7, <1>8, <1>9, SumType
<1>11. FlattenSeq(Image(NodeMap, v)) \in Seq(CellSet)
 BY <1>5, NodesFacts
<1>12. "nodes" \in Names
 BY DEF Names
<1>13. NodesPart(v) \in PartRecords
 BY ONLY <1>5, <1>6, <1>10, <1>11, <1>12 DEF PartRecords, NodesPart
<1> QED BY ONLY <1>2, <1>4, <1>13

-----------------------------------------------------------------------------
(* A part that is not read at once opens into what is read of it now and the     *)
(* parts that follow.                                                              *)

Opens(p, head, said, next, loops, sections, coordinates) ==
  /\ next \in Seq(PartRecords) /\ head \in Seq(CellSet) /\ said \in Seq(Entries)
  /\ p.cells = head \o TodoCells(next) /\ p.says = said \o TodoSays(next)
  /\ p.loops = loops + TodoLoops(next) /\ p.sections = sections + TodoSections(next)
  /\ p.coordinates = coordinates + TodoCoordinates(next)

LEMMA SaysRegroup == \A a, b, c \in Seq(Entries) : Regrouped(a, b, c)
 BY Regroup

ListOpened(g, v, h, b) == FlattenSeq(Image(g, v)) = h \o (b \o FlattenSeq(Image(g, Tail(v))))

\* The first thing of a list is opened.
LEMMA ListOpens ==
  ASSUME NEW S, NEW T, NEW g, NEW v \in Seq(S), NEW h \in Seq(T), NEW b \in Seq(T),
         Maps(g, S, Seq(T)), v # <<>>, g[v[1]] = h \o b
  PROVE  ListOpened(g, v, h, b)
<1>1. Maps(g, S, Seq(T)) /\ v \in Seq(S) /\ v # <<>>
 OBVIOUS
<1>2. /\ FlattenSeq(Image(g, v)) = g[v[1]] \o FlattenSeq(Image(g, Tail(v)))
      /\ FlattenSeq(Image(g, Tail(v))) \in Seq(T)
 BY ONLY <1>1, FlatOfImage
<1>3. PICK r \in Seq(T) : r = FlattenSeq(Image(g, Tail(v)))
 BY <1>2
<1>4. (h \o b) \o r = h \o (b \o r)
 <2>1. h \in Seq(T) /\ b \in Seq(T) /\ r \in Seq(T)
  OBVIOUS
 <2> QED BY ONLY <2>1, Associative
<1> QED BY ONLY g[v[1]] = h \o b, <1>2, <1>3, <1>4 DEF ListOpened

LEMMA LoopsOpen ==
  ASSUME NEW what \in Names, NEW v \in Seq(Loops), v # <<>>
  PROVE  /\ Opens(LoopsPart(what, v), <<Word(3 * Len(v[1]))>>, <<<<"loop", 3 * Len(v[1])>>>>,
                  <<RunPart("points", 24, v[1]), LoopsPart(what, Tail(v))>>, 0, 0, 3 * Len(v[1]))
         /\ Tail(v) \in Seq(Loops) /\ v[1] \in Loops /\ Len(v) = Len(Tail(v)) + 1
<1>1. v[1] \in Loops /\ Tail(v) \in Seq(Loops) /\ v \in Seq(Loops) /\ v # <<>>
      /\ Len(v) = Len(Tail(v)) + 1
 OBVIOUS
<1>2. PICK l \in Loops, t \in Seq(Loops) : l = v[1] /\ t = Tail(v)
 BY ONLY <1>1
<1>3. "points" \in Names /\ what \in Names
 BY DEF Names
<1>4. PICK p \in PartRecords, q \in PartRecords : p = RunPart("points", 24, l) /\ q = LoopsPart(what, t)
 <2>1. l \in Seq(Int) /\ 24 \in Nat
  BY DEF Loops
 <2>2. RunPart("points", 24, l) \in PartRecords
  BY ONLY <1>3, <2>1, RunPartFacts
 <2>3. t \in Seq(Loops)
  OBVIOUS
 <2>4. LoopsPart(what, t) \in PartRecords
  BY ONLY <1>3, <2>3, LoopsPartFacts
 <2> QED BY ONLY <2>2, <2>4
<1>5. TwoParts(p, q)
 BY ONLY p \in PartRecords, q \in PartRecords, TodoOfTwo
<1>6. /\ p.cells = Run(24, l) /\ p.says = Tagged("points", l) /\ p.loops = 0 /\ p.sections = 0
      /\ p.coordinates = 0 /\ q.cells = FlattenSeq(Image(LoopMap, t))
      /\ q.says = FlattenSeq(Image(LoopSays, t)) /\ q.loops = 0 /\ q.sections = 0
      /\ q.coordinates = Sum(Image(PointCounts, t))
 BY ONLY <1>4 DEF RunPart, LoopsPart
<1>7. PICK h \in Seq(CellSet), b \in Seq(CellSet) : h = <<Word(3 * Len(l))>> /\ b = Run(24, l)
 <2>1. 3 * Len(l) \in Values /\ l \in Seq(Values)
  BY Widened DEF Loops, Values
 <2>2. Word(3 * Len(l)) \in CellSet
  BY ONLY <2>1, WordFacts
 <2>3. <<Word(3 * Len(l))>> \in Seq(CellSet)
  BY ONLY <2>2
 <2>4. Run(24, l) \in Seq(CellSet)
  BY <2>1, RunFacts
 <2> QED BY ONLY <2>3, <2>4
<1>8. FlattenSeq(Image(LoopMap, v)) = h \o (p.cells \o q.cells)
 <2>1. Maps(LoopMap, Loops, Seq(CellSet)) /\ v \in Seq(Loops) /\ v # <<>>
       /\ h \in Seq(CellSet) /\ b \in Seq(CellSet)
  BY <1>1, LoopsFacts
 <2>2. LoopMap[v[1]] = h \o b
  BY <1>2, <1>7, LoopFacts DEF LoopMap
 <2>3. ListOpened(LoopMap, v, h, b)
  BY ONLY <2>1, <2>2, ListOpens
 <2> QED BY ONLY <1>2, <1>6, <1>7, <2>3 DEF ListOpened
<1>9. PICK i \in Seq(Entries), j \in Seq(Entries) :
         i = <<<<"loop", 3 * Len(l)>>>> /\ j = Tagged("points", l)
 <2>1. <<<<"loop", 3 * Len(l)>>>> \in Seq(Entries) /\ Tagged("points", l) \in Seq(Entries)
  BY ONLY l \in Loops, LoopListingFacts
 <2> QED BY ONLY <2>1
<1>10. FlattenSeq(Image(LoopSays, v)) = i \o (p.says \o q.says)
 <2>1. Maps(LoopSays, Loops, Seq(Entries)) /\ v \in Seq(Loops) /\ v # <<>>
       /\ i \in Seq(Entries) /\ j \in Seq(Entries)
  BY <1>1, LoopsSaid
 <2>2. LoopSays[v[1]] = i \o j
  BY <1>2, <1>9, LoopListingFacts DEF LoopSays
 <2>3. ListOpened(LoopSays, v, i, j)
  BY ONLY <2>1, <2>2, ListOpens
 <2> QED BY ONLY <1>2, <1>6, <1>9, <2>3 DEF ListOpened
<1>11. Sum(Image(PointCounts, v)) = 3 * Len(l) + (p.coordinates + q.coordinates)
 <2>0. Maps(PointCounts, Loops, Nat)
  BY ONLY <1>1, LoopsSaid
 <2>1. /\ Sum(Image(PointCounts, v)) = PointCounts[v[1]] + Sum(Image(PointCounts, Tail(v)))
       /\ Sum(Image(PointCounts, Tail(v))) \in Nat
  BY ONLY <1>1, <2>0, SumOfImage
 <2>2. PointCounts[l] = 3 * Len(l)
  BY DEF PointCounts
 <2>3. p.coordinates + q.coordinates = Sum(Image(PointCounts, t))
  BY ONLY <1>2, <1>6, <2>1
 <2> QED BY ONLY <1>2, <2>1, <2>2, <2>3
<1>12. /\ LoopsPart(what, v).cells = h \o (p.cells \o q.cells)
       /\ LoopsPart(what, v).says = i \o (p.says \o q.says)
       /\ LoopsPart(what, v).loops = 0 + (p.loops + q.loops)
       /\ LoopsPart(what, v).sections = 0 + (p.sections + q.sections)
       /\ LoopsPart(what, v).coordinates = 3 * Len(l) + (p.coordinates + q.coordinates)
 <2>1. /\ LoopsPart(what, v).cells = FlattenSeq(Image(LoopMap, v))
       /\ LoopsPart(what, v).says = FlattenSeq(Image(LoopSays, v))
       /\ LoopsPart(what, v).loops = 0 /\ LoopsPart(what, v).sections = 0
       /\ LoopsPart(what, v).coordinates = Sum(Image(PointCounts, v))
  BY DEF LoopsPart
 <2>2. 0 = 0 + (p.loops + q.loops) /\ 0 = 0 + (p.sections + q.sections)
  BY ONLY <1>6
 <2> QED BY ONLY <1>8, <1>10, <1>11, <2>1, <2>2
<1>13. Opens(LoopsPart(what, v), h, i, <<p, q>>, 0, 0, 3 * Len(l))
 <2>1. h \in Seq(CellSet) /\ i \in Seq(Entries)
  OBVIOUS
 <2> QED BY ONLY <1>5, <1>12, <2>1 DEF Opens, TwoParts
<1> QED BY ONLY <1>1, <1>2, <1>4, <1>7, <1>9, <1>13

LEMMA SweepsOpen ==
  ASSUME NEW v \in Seq(Seq(Loops)), v # <<>>
  PROVE  /\ Opens(SweepsPart(v), <<Word(Len(v[1]))>>, <<<<"sweep", Len(v[1])>>>>,
                  <<LoopsPart("sections", v[1]), SweepsPart(Tail(v))>>, 0, Len(v[1]), 0)
         /\ Tail(v) \in Seq(Seq(Loops)) /\ v[1] \in Seq(Loops) /\ Len(v) = Len(Tail(v)) + 1
<1>1. v[1] \in Seq(Loops) /\ Tail(v) \in Seq(Seq(Loops)) /\ v \in Seq(Seq(Loops)) /\ v # <<>>
      /\ Len(v) = Len(Tail(v)) + 1
 OBVIOUS
<1>2. PICK l \in Seq(Loops), t \in Seq(Seq(Loops)) : l = v[1] /\ t = Tail(v)
 BY ONLY <1>1
<1>3. "sections" \in Names
 BY DEF Names
<1>4. PICK p \in PartRecords, q \in PartRecords : p = LoopsPart("sections", l) /\ q = SweepsPart(t)
 <2>1. l \in Seq(Loops) /\ t \in Seq(Seq(Loops))
  OBVIOUS
 <2>2. LoopsPart("sections", l) \in PartRecords
  BY ONLY <1>3, <2>1, LoopsPartFacts
 <2>3. SweepsPart(t) \in PartRecords
  BY ONLY <2>1, SweepsPartFacts
 <2> QED BY ONLY <2>2, <2>3
<1>5. TwoParts(p, q)
 BY ONLY p \in PartRecords, q \in PartRecords, TodoOfTwo
<1>6. /\ p.cells = FlattenSeq(Image(LoopMap, l)) /\ p.says = FlattenSeq(Image(LoopSays, l))
      /\ p.loops = 0 /\ p.sections = 0 /\ p.coordinates = Sum(Image(PointCounts, l))
      /\ q.cells = FlattenSeq(Image(SweepMap, t)) /\ q.says = FlattenSeq(Image(SweepSays, t))
      /\ q.loops = 0 /\ q.sections = Sum(Image(SectionCounts, t)) /\ q.coordinates = Sum(Image(SweepPoints, t))
 BY ONLY <1>4 DEF LoopsPart, SweepsPart
<1>7. PICK h \in Seq(CellSet), b \in Seq(CellSet) : h = <<Word(Len(l))>> /\ b = p.cells
 <2>1. Len(l) \in Values
  BY DEF Values
 <2>2. Word(Len(l)) \in CellSet
  BY ONLY <2>1, WordFacts
 <2>3. <<Word(Len(l))>> \in Seq(CellSet)
  BY ONLY <2>2
 <2>4. p.cells \in Seq(CellSet)
  BY DEF PartRecords
 <2> QED BY ONLY <2>3, <2>4
<1>8. FlattenSeq(Image(SweepMap, v)) = h \o (p.cells \o q.cells)
 <2>1. Maps(SweepMap, Seq(Loops), Seq(CellSet)) /\ v \in Seq(Seq(Loops)) /\ v # <<>>
       /\ h \in Seq(CellSet) /\ b \in Seq(CellSet)
  BY <1>1, SweepsFacts
 <2>2. SweepMap[v[1]] = h \o b
  <3>1. SweepMap[l] = SweepCells(l)
   BY DEF SweepMap
  <3>2. Each(LoopCells, l) = Image(LoopMap, l)
   BY LoopsFacts
  <3> QED BY ONLY <1>2, <1>6, <1>7, <3>1, <3>2 DEF SweepCells
 <2>3. ListOpened(SweepMap, v, h, b)
  BY ONLY <2>1, <2>2, ListOpens
 <2> QED BY ONLY <1>2, <1>6, <1>7, <2>3 DEF ListOpened
<1>9. PICK i \in Seq(Entries), j \in Seq(Entries) : i = <<<<"sweep", Len(l)>>>> /\ j = p.says
 <2>1. <<<<"sweep", Len(l)>>>> \in Seq(Entries)
  BY ONLY l \in Seq(Loops), SweepListingFacts
 <2>2. p.says \in Seq(Entries)
  BY DEF PartRecords
 <2> QED BY ONLY <2>1, <2>2
<1>10. FlattenSeq(Image(SweepSays, v)) = i \o (p.says \o q.says)
 <2>1. Maps(SweepSays, Seq(Loops), Seq(Entries)) /\ v \in Seq(Seq(Loops)) /\ v # <<>>
       /\ i \in Seq(Entries) /\ j \in Seq(Entries)
  BY <1>1, SweepsSaid
 <2>2. SweepSays[v[1]] = i \o j
  <3>1. SweepSays[l] = SweepListing(l)
   BY DEF SweepSays
  <3>2. Each(LoopListing, l) = Image(LoopSays, l)
   BY LoopsSaid
  <3> QED BY ONLY <1>2, <1>6, <1>9, <3>1, <3>2 DEF SweepListing
 <2>3. ListOpened(SweepSays, v, i, j)
  BY ONLY <2>1, <2>2, ListOpens
 <2> QED BY ONLY <1>2, <1>6, <1>9, <2>3 DEF ListOpened
<1>11. /\ Sum(Image(SectionCounts, v)) = Len(l) + (p.sections + q.sections)
       /\ Sum(Image(SweepPoints, v)) = 0 + (p.coordinates + q.coordinates)
 <2>0. Maps(SectionCounts, Seq(Loops), Nat) /\ Maps(SweepPoints, Seq(Loops), Nat)
  BY ONLY <1>1, SweepsSaid
 <2>1. /\ Sum(Image(SectionCounts, v)) = SectionCounts[v[1]] + Sum(Image(SectionCounts, Tail(v)))
       /\ Sum(Image(SectionCounts, Tail(v))) \in Nat
  BY ONLY <1>1, <2>0, SumOfImage
 <2>2. /\ Sum(Image(SweepPoints, v)) = SweepPoints[v[1]] + Sum(Image(SweepPoints, Tail(v)))
       /\ Sum(Image(SweepPoints, Tail(v))) \in Nat
  BY ONLY <1>1, <2>0, SumOfImage
 <2>3. SectionCounts[l] = Len(l) /\ SweepPoints[l] = Coordinates(l)
  BY DEF SectionCounts, SweepPoints
 <2>4. Coordinates(l) \in Nat /\ Coordinates(l) = Sum(Image(PointCounts, l))
  BY LoopsSaid
 <2>5. p.sections + q.sections = Sum(Image(SectionCounts, t))
  BY ONLY <1>2, <1>6, <2>1
 <2>6. 0 + (p.coordinates + q.coordinates) = Coordinates(l) + Sum(Image(SweepPoints, t))
  BY ONLY <1>2, <1>6, <2>2, <2>4
 <2> QED BY ONLY <1>2, <2>1, <2>2, <2>3, <2>5, <2>6
<1>12. /\ SweepsPart(v).cells = h \o (p.cells \o q.cells)
       /\ SweepsPart(v).says = i \o (p.says \o q.says)
       /\ SweepsPart(v).loops = 0 + (p.loops + q.loops)
       /\ SweepsPart(v).sections = Len(l) + (p.sections + q.sections)
       /\ SweepsPart(v).coordinates = 0 + (p.coordinates + q.coordinates)
 <2>1. /\ SweepsPart(v).cells = FlattenSeq(Image(SweepMap, v))
       /\ SweepsPart(v).says = FlattenSeq(Image(SweepSays, v))
       /\ SweepsPart(v).loops = 0 /\ SweepsPart(v).sections = Sum(Image(SectionCounts, v))
       /\ SweepsPart(v).coordinates = Sum(Image(SweepPoints, v))
  BY DEF SweepsPart
 <2>2. 0 = 0 + (p.loops + q.loops)
  BY ONLY <1>6
 <2> QED BY ONLY <1>8, <1>10, <1>11, <2>1, <2>2
<1>13. Opens(SweepsPart(v), h, i, <<p, q>>, 0, Len(l), 0)
 <2>1. h \in Seq(CellSet) /\ i \in Seq(Entries)
  OBVIOUS
 <2> QED BY ONLY <1>5, <1>12, <2>1 DEF Opens, TwoParts
<1> QED BY ONLY <1>1, <1>2, <1>4, <1>7, <1>9, <1>13

LEMMA CuttersOpen ==
  ASSUME NEW v \in Seq(TriangleMeshes), v # <<>>
  PROVE  /\ Opens(CuttersPart(v),
                  <<Word(3 * Len(v[1].positions)), Word(Len(v[1].indices))>>,
                  <<<<"cutter", 3 * Len(v[1].positions)>>>>,
                  <<RunPart("positions", 24, v[1].positions), RunPart("indices", 4, v[1].indices),
                    CuttersPart(Tail(v))>>, 0, 0, 0)
         /\ Tail(v) \in Seq(TriangleMeshes) /\ v[1] \in TriangleMeshes /\ Len(v) = Len(Tail(v)) + 1
<1>1. v[1] \in TriangleMeshes /\ Tail(v) \in Seq(TriangleMeshes) /\ v \in Seq(TriangleMeshes)
      /\ v # <<>> /\ Len(v) = Len(Tail(v)) + 1
 OBVIOUS
<1>2. PICK m \in TriangleMeshes, t \in Seq(TriangleMeshes) : m = v[1] /\ t = Tail(v)
 BY ONLY <1>1
<1>3. "positions" \in Names /\ "indices" \in Names
 BY DEF Names
<1>4. PICK x \in Seq(Int), y \in Seq(Nat) : x = m.positions /\ y = m.indices
 BY MeshFacts
<1>5. PICK p \in PartRecords, q \in PartRecords, r \in PartRecords :
         p = RunPart("positions", 24, x) /\ q = RunPart("indices", 4, y) /\ r = CuttersPart(t)
 <2>1. x \in Seq(Int) /\ y \in Seq(Nat) /\ t \in Seq(TriangleMeshes) /\ 24 \in Nat /\ 4 \in Nat
  OBVIOUS
 <2>2. RunPart("positions", 24, x) \in PartRecords /\ RunPart("indices", 4, y) \in PartRecords
  BY ONLY <1>3, <2>1, RunPartFacts
 <2>3. CuttersPart(t) \in PartRecords
  BY ONLY <2>1, CuttersPartFacts
 <2> QED BY ONLY <2>2, <2>3
<1>6. ThreeParts(p, q, r)
 BY ONLY p \in PartRecords, q \in PartRecords, r \in PartRecords, TodoOfThree
<1>7. /\ p.cells = Run(24, x) /\ p.says = Tagged("positions", x) /\ p.loops = 0 /\ p.sections = 0
      /\ p.coordinates = 0 /\ q.cells = Run(4, y) /\ q.says = Tagged("indices", y) /\ q.loops = 0
      /\ q.sections = 0 /\ q.coordinates = 0 /\ r.cells = FlattenSeq(Image(CutterMap, t))
      /\ r.says = FlattenSeq(Image(CutterSays, t)) /\ r.loops = 0 /\ r.sections = 0
      /\ r.coordinates = 0
 BY ONLY <1>5 DEF RunPart, CuttersPart
<1>8. PICK h \in Seq(CellSet), b \in Seq(CellSet), c \in Seq(CellSet) :
         /\ h = <<Word(3 * Len(x)), Word(Len(y))>> /\ b = p.cells /\ c = q.cells
 <2>1. 3 * Len(x) \in Nat /\ Len(y) \in Nat
  OBVIOUS
 <2>2. <<Word(3 * Len(x)), Word(Len(y))>> \in Seq(CellSet)
  BY ONLY <2>1, TwoWords
 <2>3. p.cells \in Seq(CellSet) /\ q.cells \in Seq(CellSet)
  BY DEF PartRecords
 <2> QED BY ONLY <2>2, <2>3
<1>9. FlattenSeq(Image(CutterMap, v)) = h \o (p.cells \o (q.cells \o r.cells))
 <2>1. PICK d \in Seq(CellSet), e \in Seq(CellSet) : d = b \o c /\ e = r.cells
  <3>1. b \o c \in Seq(CellSet) /\ r.cells \in Seq(CellSet)
   BY ConcatProperties DEF PartRecords
  <3> QED BY ONLY <3>1
 <2>2. Maps(CutterMap, TriangleMeshes, Seq(CellSet)) /\ v \in Seq(TriangleMeshes) /\ v # <<>>
       /\ h \in Seq(CellSet) /\ d \in Seq(CellSet)
  BY <1>1, CuttersFacts
 <2>3. CutterMap[v[1]] = h \o d
  <3>1. CutterMap[m] = CutterCells(m)
   BY DEF CutterMap
  <3>2. MeshCells(m) = Run(24, x) \o Run(4, y)
   BY <1>4, MeshFacts
  <3> QED BY ONLY <1>2, <1>4, <1>7, <1>8, <2>1, <3>1, <3>2 DEF CutterCells
 <2>4. ListOpened(CutterMap, v, h, d)
  BY ONLY <2>2, <2>3, ListOpens
 <2>5. Regrouped(b, c, e)
  BY ONLY b \in Seq(CellSet), c \in Seq(CellSet), e \in Seq(CellSet), CellsRegroup
 <2> QED BY ONLY <1>2, <1>7, <1>8, <2>1, <2>4, <2>5 DEF ListOpened, Regrouped
<1>10. PICK i \in Seq(Entries), j \in Seq(Entries), k \in Seq(Entries) :
          i = <<<<"cutter", 3 * Len(x)>>>> /\ j = p.says /\ k = q.says
 <2>1. <<<<"cutter", 3 * Len(x)>>>> \in Seq(Entries)
  BY ONLY m \in TriangleMeshes, <1>4, CutterListingFacts
 <2>2. p.says \in Seq(Entries) /\ q.says \in Seq(Entries)
  BY DEF PartRecords
 <2> QED BY ONLY <2>1, <2>2
<1>11. FlattenSeq(Image(CutterSays, v)) = i \o (p.says \o (q.says \o r.says))
 <2>1. PICK d \in Seq(Entries), e \in Seq(Entries) : d = j \o k /\ e = r.says
  <3>1. j \o k \in Seq(Entries) /\ r.says \in Seq(Entries)
   BY ConcatProperties DEF PartRecords
  <3> QED BY ONLY <3>1
 <2>2. Maps(CutterSays, TriangleMeshes, Seq(Entries)) /\ v \in Seq(TriangleMeshes) /\ v # <<>>
       /\ i \in Seq(Entries) /\ d \in Seq(Entries)
  BY <1>1, CuttersSaid
 <2>3. CutterSays[v[1]] = i \o d
  <3>1. CutterSays[m] = CutterListing(m)
   BY DEF CutterSays
  <3>2. CutterListing(m) = <<<<"cutter", 3 * Len(m.positions)>>>> \o
                           (Tagged("positions", m.positions) \o Tagged("indices", m.indices))
   BY CutterListingFacts
  <3> QED BY ONLY <1>2, <1>4, <1>7, <1>10, <2>1, <3>1, <3>2
 <2>4. ListOpened(CutterSays, v, i, d)
  BY ONLY <2>2, <2>3, ListOpens
 <2>5. Regrouped(j, k, e)
  BY ONLY j \in Seq(Entries), k \in Seq(Entries), e \in Seq(Entries), SaysRegroup
 <2> QED BY ONLY <1>2, <1>7, <1>10, <2>1, <2>4, <2>5 DEF ListOpened, Regrouped
<1>12. /\ CuttersPart(v).cells = h \o (p.cells \o (q.cells \o r.cells))
       /\ CuttersPart(v).says = i \o (p.says \o (q.says \o r.says))
       /\ CuttersPart(v).loops = 0 + (p.loops + (q.loops + r.loops))
       /\ CuttersPart(v).sections = 0 + (p.sections + (q.sections + r.sections))
       /\ CuttersPart(v).coordinates = 0 + (p.coordinates + (q.coordinates + r.coordinates))
 <2>1. /\ CuttersPart(v).cells = FlattenSeq(Image(CutterMap, v))
       /\ CuttersPart(v).says = FlattenSeq(Image(CutterSays, v))
       /\ CuttersPart(v).loops = 0 /\ CuttersPart(v).sections = 0 /\ CuttersPart(v).coordinates = 0
  BY DEF CuttersPart
 <2>2. /\ 0 = 0 + (p.loops + (q.loops + r.loops))
       /\ 0 = 0 + (p.sections + (q.sections + r.sections))
       /\ 0 = 0 + (p.coordinates + (q.coordinates + r.coordinates))
  BY ONLY <1>7
 <2> QED BY ONLY <1>9, <1>11, <2>1, <2>2
<1>13. Opens(CuttersPart(v), h, i, <<p, q, r>>, 0, 0, 0)
 <2>1. h \in Seq(CellSet) /\ i \in Seq(Entries)
  OBVIOUS
 <2> QED BY ONLY <1>6, <1>12, <2>1 DEF Opens, ThreeParts
<1> QED BY ONLY <1>1, <1>2, <1>4, <1>5, <1>8, <1>10, <1>13

LEMMA NodesOpen ==
  ASSUME NEW v \in Seq(NodeRecords), v # <<>>
  PROVE  /\ Opens(NodesPart(v), NodeHeader(v[1]), NodeOpening(v[1]),
                  NodeParts(v[1]) \o <<NodesPart(Tail(v))>>, LoopsOf(v[1]), 0, 0)
         /\ Tail(v) \in Seq(NodeRecords) /\ v[1] \in NodeRecords /\ Len(v) = Len(Tail(v)) + 1
<1>1. v[1] \in NodeRecords /\ Tail(v) \in Seq(NodeRecords) /\ v \in Seq(NodeRecords)
      /\ v # <<>> /\ Len(v) = Len(Tail(v)) + 1
 OBVIOUS
<1>2. PICK n \in NodeRecords, t \in Seq(NodeRecords) : n = v[1] /\ t = Tail(v)
 BY ONLY <1>1
<1>3. PICK q \in PartRecords : q = NodesPart(t)
 BY ONLY t \in Seq(NodeRecords), NodesSaid
<1>4. PICK A \in Seq(PartRecords), B \in Seq(PartRecords) : A = NodeParts(n) /\ B = <<q>>
 <2>1. NodeParts(n) \in Seq(PartRecords)
  BY NodePartsFacts
 <2>2. <<q>> \in Seq(PartRecords)
  BY ONLY q \in PartRecords, TodoOfOne
 <2> QED BY ONLY <2>1, <2>2
<1>5. /\ TodoCells(B) = q.cells /\ TodoSays(B) = q.says /\ TodoLoops(B) = q.loops
      /\ TodoSections(B) = q.sections /\ TodoCoordinates(B) = q.coordinates
 BY ONLY <1>4, q \in PartRecords, TodoOfOne
<1>6. TodoJoined(A \o B, A, B) /\ A \o B \in Seq(PartRecords)
 BY ONLY A \in Seq(PartRecords), B \in Seq(PartRecords), TodoJoins
<1>7. PICK h \in Seq(CellSet), b \in Seq(CellSet), i \in Seq(Entries), j \in Seq(Entries) :
         h = NodeHeader(n) /\ b = TodoCells(A) /\ i = NodeOpening(n) /\ j = TodoSays(A)
 BY <1>4, NodeHeaderFacts, NodePartsFacts, TodoType
<1>8. NodesPart(v).cells = h \o (b \o q.cells)
 <2>1. Maps(NodeMap, NodeRecords, Seq(CellSet)) /\ v \in Seq(NodeRecords) /\ v # <<>>
       /\ h \in Seq(CellSet) /\ b \in Seq(CellSet)
  BY <1>1, NodesFacts
 <2>2. NodeMap[v[1]] = h \o b
  BY <1>2, <1>4, <1>7, NodePartsFacts DEF NodeMap
 <2>3. ListOpened(NodeMap, v, h, b)
  BY ONLY <2>1, <2>2, ListOpens
 <2>4. NodesPart(v).cells = FlattenSeq(Image(NodeMap, v)) /\ q.cells = FlattenSeq(Image(NodeMap, t))
  BY ONLY <1>3 DEF NodesPart
 <2> QED BY ONLY <1>2, <2>3, <2>4 DEF ListOpened
<1>9. NodesPart(v).says = i \o (j \o q.says)
 <2>1. Maps(NodeTells, NodeRecords, Seq(Entries)) /\ v \in Seq(NodeRecords) /\ v # <<>>
       /\ i \in Seq(Entries) /\ j \in Seq(Entries)
  BY <1>1, NodesSaid
 <2>2. NodeTells[v[1]] = i \o j
  BY <1>2, <1>4, <1>7 DEF NodeTells, NodeSays
 <2>3. ListOpened(NodeTells, v, i, j)
  BY ONLY <2>1, <2>2, ListOpens
 <2>4. NodesPart(v).says = FlattenSeq(Image(NodeTells, v)) /\ q.says = FlattenSeq(Image(NodeTells, t))
  BY ONLY <1>3 DEF NodesPart
 <2> QED BY ONLY <1>2, <2>3, <2>4 DEF ListOpened
<1>10. /\ Sum(Image(NodeLoops, v)) = NodeLoops[v[1]] + Sum(Image(NodeLoops, Tail(v)))
       /\ Sum(Image(NodeSections, v)) = NodeSections[v[1]] + Sum(Image(NodeSections, Tail(v)))
       /\ Sum(Image(NodeCoordinates, v)) = NodeCoordinates[v[1]] + Sum(Image(NodeCoordinates, Tail(v)))
       /\ Sum(Image(NodeLoops, Tail(v))) \in Nat /\ Sum(Image(NodeSections, Tail(v))) \in Nat
       /\ Sum(Image(NodeCoordinates, Tail(v))) \in Nat
 <2>1. /\ Maps(NodeLoops, NodeRecords, Nat) /\ Maps(NodeSections, NodeRecords, Nat)
       /\ Maps(NodeCoordinates, NodeRecords, Nat)
  BY ONLY <1>1, NodesSaid
 <2>2. ASSUME NEW g, Maps(g, NodeRecords, Nat)
       PROVE  /\ Sum(Image(g, v)) = g[v[1]] + Sum(Image(g, Tail(v)))
              /\ Sum(Image(g, Tail(v))) \in Nat
  BY ONLY <1>1, <2>2, SumOfImage
 <2> QED BY ONLY <2>1, <2>2
<1>11. /\ NodeLoops[n] = LoopsOf(n) /\ NodeSections[n] = SectionsOf(n)
       /\ NodeCoordinates[n] = CoordinatesOf(n)
 BY DEF NodeLoops, NodeSections, NodeCoordinates
<1>12. /\ TodoLoops(A) = 0 /\ TodoSections(A) = SectionsOf(n) /\ TodoCoordinates(A) = CoordinatesOf(n)
       /\ LoopsOf(n) \in Nat /\ SectionsOf(n) \in Nat /\ CoordinatesOf(n) \in Nat
 BY <1>4, NodePartsFacts
<1>13. /\ NodesPart(v).loops = LoopsOf(n) + (TodoLoops(A) + q.loops)
       /\ NodesPart(v).sections = 0 + (TodoSections(A) + q.sections)
       /\ NodesPart(v).coordinates = 0 + (TodoCoordinates(A) + q.coordinates)
 <2>1. /\ NodesPart(v).loops = Sum(Image(NodeLoops, v)) /\ q.loops = Sum(Image(NodeLoops, t))
       /\ NodesPart(v).sections = Sum(Image(NodeSections, v))
       /\ q.sections = Sum(Image(NodeSections, t))
       /\ NodesPart(v).coordinates = Sum(Image(NodeCoordinates, v))
       /\ q.coordinates = Sum(Image(NodeCoordinates, t))
  BY ONLY <1>3 DEF NodesPart
 <2>2. PICK a \in Nat, b1 \in Nat, c \in Nat, d \in Nat, e \in Nat, f \in Nat :
          /\ a = Sum(Image(NodeLoops, t)) /\ b1 = Sum(Image(NodeSections, t))
          /\ c = Sum(Image(NodeCoordinates, t))
          /\ d = LoopsOf(n) /\ e = SectionsOf(n) /\ f = CoordinatesOf(n)
  BY ONLY <1>2, <1>10, <1>12
 <2>3. /\ NodesPart(v).loops = d + a /\ NodesPart(v).sections = e + b1
       /\ NodesPart(v).coordinates = f + c
  BY ONLY <1>2, <1>10, <1>11, <2>1, <2>2
 <2>4. /\ d + a = d + (0 + a) /\ e + b1 = 0 + (e + b1) /\ f + c = 0 + (f + c)
  OBVIOUS
 <2> QED BY ONLY <1>12, <2>1, <2>2, <2>3, <2>4
<1>14. Opens(NodesPart(v), h, i, A \o B, LoopsOf(n), 0, 0)
 <2>1. h \in Seq(CellSet) /\ i \in Seq(Entries)
  OBVIOUS
 <2> QED BY ONLY <1>5, <1>6, <1>7, <1>8, <1>9, <1>13, <2>1 DEF Opens, TodoJoined
<1> QED BY ONLY <1>1, <1>2, <1>3, <1>4, <1>7, <1>14
\* The parts a reader may meet in a request of N nodes.
RunNames == {"boxes", "planes", "positions", "points", "indices", "unions", "children"}
Within(v, N) == v \in Seq(Nat) /\ \A k \in 1 .. Len(v) : v[k] < N
IsRun(p, N) ==
  /\ p.what \in RunNames
  /\ \E v \in Seq(Values) :
        /\ p = RunPart(p.what, CellWidth(p.what), v)
        /\ p.what \in {"unions", "children"} => Within(v, N)
IsLoops(p) == p.what \in {"loops", "sections"} /\ \E v \in Seq(Loops) : p = LoopsPart(p.what, v)
IsSweeps(p) == \E v \in Seq(Seq(Loops)) : p = SweepsPart(v)
IsCutters(p) == \E v \in Seq(TriangleMeshes) : p = CuttersPart(v)
EdgesWithin(n, N) == Within(n.unions, N) /\ Within(n.children, N)
IsNodes(p, N) ==
  \E v \in Seq(NodeRecords) : p = NodesPart(v) /\ \A k \in 1 .. Len(v) : EdgesWithin(v[k], N)
Parts(N) ==
  {p \in PartRecords : IsRun(p, N) \/ IsLoops(p) \/ IsSweeps(p) \/ IsCutters(p) \/ IsNodes(p, N)}

\* The name of a part tells what it is.
LEMMA PartKinds ==
  ASSUME NEW N, NEW p \in Parts(N)
  PROVE  /\ p \in PartRecords
         /\ p.what \in RunNames => IsRun(p, N)
         /\ p.what \in {"loops", "sections"} => IsLoops(p)
         /\ p.what = "sweeps" => IsSweeps(p)
         /\ p.what = "cutters" => IsCutters(p)
         /\ p.what = "nodes" => IsNodes(p, N)
<1>1. IsSweeps(p) => p.what = "sweeps"
 BY DEF IsSweeps, SweepsPart
<1>2. IsCutters(p) => p.what = "cutters"
 BY DEF IsCutters, CuttersPart
<1>3. IsNodes(p, N) => p.what = "nodes"
 BY DEF IsNodes, NodesPart
<1>4. IsRun(p, N) => p.what \in RunNames
 BY DEF IsRun
<1>5. IsLoops(p) => p.what \in {"loops", "sections"}
 BY DEF IsLoops
<1>6. p \in PartRecords /\ (IsRun(p, N) \/ IsLoops(p) \/ IsSweeps(p) \/ IsCutters(p) \/ IsNodes(p, N))
 BY DEF Parts
<1> QED BY ONLY <1>1, <1>2, <1>3, <1>4, <1>5, <1>6 DEF RunNames

\* A run is read at once.
LEMMA RunOpens ==
  ASSUME NEW what \in Names, NEW w \in Nat, NEW v \in Seq(Values)
  PROVE  Opens(RunPart(what, w, v), Run(w, v), Tagged(what, v), <<>>, 0, 0, 0)
<1>1. PICK a \in Seq(CellSet), b \in Seq(Entries) : a = Run(w, v) /\ b = Tagged(what, v)
 BY RunFacts, TaggedFacts
<1>2. a = a \o <<>> /\ b = b \o <<>>
 OBVIOUS
<1>3. /\ RunPart(what, w, v).cells = a /\ RunPart(what, w, v).says = b
      /\ RunPart(what, w, v).loops = 0 + 0 /\ RunPart(what, w, v).sections = 0 + 0
      /\ RunPart(what, w, v).coordinates = 0 + 0
 BY ONLY <1>1 DEF RunPart
<1>4. <<>> \in Seq(PartRecords)
 OBVIOUS
<1> QED BY ONLY <1>1, <1>2, <1>3, <1>4, TodoOfNone DEF Opens

Blank(p) == p.cells = <<>> /\ p.says = <<>> /\ p.loops = 0 /\ p.sections = 0 /\ p.coordinates = 0

\* Nor is anything left of a list at its end.
LEMMA NothingOpens ==
  ASSUME NEW N, NEW p \in Parts(N), p.what \notin RunNames, p.count = 0
  PROVE  Opens(p, <<>>, <<>>, <<>>, 0, 0, 0)
<1>1. \A g : FlattenSeq(Image(g, <<>>)) = <<>> /\ Sum(Image(g, <<>>)) = 0
 <2>1. \A g : Image(g, <<>>) = <<>>
  BY DEF Image
 <2> QED BY ONLY <2>1, FlatEmpty, SumOfNone
<1>2. \A S : \A v \in Seq(S) : Len(v) = 0 => v = <<>>
 OBVIOUS
<1>3. ASSUME IsLoops(p)
      PROVE  Blank(p)
 <2>1. PICK v \in Seq(Loops) : p = LoopsPart(p.what, v)
  BY <1>3 DEF IsLoops
 <2>2. Len(v) = 0
  BY <2>1 DEF LoopsPart
 <2>3. v = <<>>
  BY <1>2, <2>2
 <2>4. /\ p.cells = FlattenSeq(Image(LoopMap, v)) /\ p.says = FlattenSeq(Image(LoopSays, v))
       /\ p.loops = 0 /\ p.sections = 0 /\ p.coordinates = Sum(Image(PointCounts, v))
  BY ONLY <2>1 DEF LoopsPart
 <2> QED BY ONLY <1>1, <2>3, <2>4 DEF Blank
<1>4. ASSUME IsSweeps(p)
      PROVE  Blank(p)
 <2>1. PICK v \in Seq(Seq(Loops)) : p = SweepsPart(v)
  BY <1>4 DEF IsSweeps
 <2>2. Len(v) = 0
  BY <2>1 DEF SweepsPart
 <2>3. v = <<>>
  BY <1>2, <2>2
 <2>4. /\ p.cells = FlattenSeq(Image(SweepMap, v)) /\ p.says = FlattenSeq(Image(SweepSays, v))
       /\ p.loops = 0 /\ p.sections = Sum(Image(SectionCounts, v))
       /\ p.coordinates = Sum(Image(SweepPoints, v))
  BY ONLY <2>1 DEF SweepsPart
 <2> QED BY ONLY <1>1, <2>3, <2>4 DEF Blank
<1>5. ASSUME IsCutters(p)
      PROVE  Blank(p)
 <2>1. PICK v \in Seq(TriangleMeshes) : p = CuttersPart(v)
  BY <1>5 DEF IsCutters
 <2>2. Len(v) = 0
  BY <2>1 DEF CuttersPart
 <2>3. v = <<>>
  BY <1>2, <2>2
 <2>4. /\ p.cells = FlattenSeq(Image(CutterMap, v)) /\ p.says = FlattenSeq(Image(CutterSays, v))
       /\ p.loops = 0 /\ p.sections = 0 /\ p.coordinates = 0
  BY ONLY <2>1 DEF CuttersPart
 <2> QED BY ONLY <1>1, <2>3, <2>4 DEF Blank
<1>6. ASSUME IsNodes(p, N)
      PROVE  Blank(p)
 <2>1. PICK v \in Seq(NodeRecords) : p = NodesPart(v)
  BY <1>6 DEF IsNodes
 <2>2. Len(v) = 0
  BY <2>1 DEF NodesPart
 <2>3. v = <<>>
  BY <1>2, <2>2
 <2>4. /\ p.cells = FlattenSeq(Image(NodeMap, v)) /\ p.says = FlattenSeq(Image(NodeTells, v))
       /\ p.loops = Sum(Image(NodeLoops, v)) /\ p.sections = Sum(Image(NodeSections, v))
       /\ p.coordinates = Sum(Image(NodeCoordinates, v))
  BY ONLY <2>1 DEF NodesPart
 <2> QED BY ONLY <1>1, <2>3, <2>4 DEF Blank
<1>7. ~IsRun(p, N)
 BY DEF IsRun
<1>8. Blank(p)
 BY <1>3, <1>4, <1>5, <1>6, <1>7 DEF Parts
<1>9. /\ <<>> \o <<>> = <<>> /\ 0 + 0 = 0 /\ <<>> \in Seq(CellSet) /\ <<>> \in Seq(Entries)
      /\ <<>> \in Seq(PartRecords)
 OBVIOUS
<1> QED BY ONLY <1>8, <1>9, TodoOfNone DEF Opens, Blank
\* What a part says of its size is at most what it has of cells.
LEMMA PartBytes ==
  ASSUME NEW N, NEW p \in Parts(N)
  PROVE  /\ Bytes(p.cells) \in Nat /\ p.count \in Nat
         /\ p.what \in RunNames => Bytes(p.cells) = CellWidth(p.what) * p.count
         /\ p.what \in {"loops", "sections", "sweeps"} => Bytes(p.cells) >= 4 * p.count
         /\ p.what = "cutters" => Bytes(p.cells) >= 8 * p.count
         /\ p.what = "nodes" => Bytes(p.cells) >= 120 * p.count
<1>1. p \in PartRecords /\ p.cells \in Seq(CellSet) /\ p.count \in Nat
 BY PartKinds DEF PartRecords
<1>2. Bytes(p.cells) \in Nat
 BY ONLY <1>1, CellsJoin
<1>3. ASSUME p.what \in RunNames
      PROVE  Bytes(p.cells) = CellWidth(p.what) * p.count
 <2>1. PICK v \in Seq(Values) : p = RunPart(p.what, CellWidth(p.what), v)
  BY <1>3, PartKinds DEF IsRun
 <2>2. p.cells = Run(CellWidth(p.what), v) /\ p.count = Len(v)
  BY <2>1 DEF RunPart
 <2>3. CellWidth(p.what) \in Nat
  BY <1>3 DEF CellWidth, RunNames
 <2> QED BY <2>2, <2>3, RunFacts
<1>4. ASSUME p.what \in {"loops", "sections"}
      PROVE  Bytes(p.cells) >= 4 * p.count
 <2>1. PICK v \in Seq(Loops) : p = LoopsPart(p.what, v)
  BY <1>4, PartKinds DEF IsLoops
 <2>2. p.cells = FlattenSeq(Image(LoopMap, v)) /\ p.count = Len(v)
  BY <2>1 DEF LoopsPart
 <2>3. Each(LoopCells, v) = Image(LoopMap, v) /\ Bytes(FlattenSeq(Each(LoopCells, v))) >= 4 * Len(v)
  BY LoopsFacts
 <2> QED BY ONLY <2>2, <2>3
<1>5. ASSUME p.what = "sweeps"
      PROVE  Bytes(p.cells) >= 4 * p.count
 <2>1. PICK v \in Seq(Seq(Loops)) : p = SweepsPart(v)
  BY <1>5, PartKinds DEF IsSweeps
 <2>2. p.cells = FlattenSeq(Image(SweepMap, v)) /\ p.count = Len(v)
  BY <2>1 DEF SweepsPart
 <2>3. Each(SweepCells, v) = Image(SweepMap, v) /\ Bytes(FlattenSeq(Each(SweepCells, v))) >= 4 * Len(v)
  BY SweepsFacts
 <2> QED BY ONLY <2>2, <2>3
<1>6. ASSUME p.what = "cutters"
      PROVE  Bytes(p.cells) >= 8 * p.count
 <2>1. PICK v \in Seq(TriangleMeshes) : p = CuttersPart(v)
  BY <1>6, PartKinds DEF IsCutters
 <2>2. p.cells = FlattenSeq(Image(CutterMap, v)) /\ p.count = Len(v)
  BY <2>1 DEF CuttersPart
 <2>3. Each(CutterCells, v) = Image(CutterMap, v) /\ Bytes(FlattenSeq(Each(CutterCells, v))) >= 8 * Len(v)
  BY CuttersFacts
 <2> QED BY ONLY <2>2, <2>3
<1>7. ASSUME p.what = "nodes"
      PROVE  Bytes(p.cells) >= 120 * p.count
 <2>1. PICK v \in Seq(NodeRecords) : p = NodesPart(v)
  BY <1>7, PartKinds DEF IsNodes
 <2>2. p.cells = FlattenSeq(Image(NodeMap, v)) /\ p.count = Len(v)
  BY <2>1 DEF NodesPart
 <2>3. Each(EncodeNode, v) = Image(NodeMap, v) /\ Bytes(FlattenSeq(Each(EncodeNode, v))) >= 120 * Len(v)
  BY NodesFacts
 <2> QED BY ONLY <2>2, <2>3
<1> QED BY ONLY <1>1, <1>2, <1>3, <1>4, <1>5, <1>6, <1>7

(* The reader under way in the cells of a request.                                 *)

RequestParts(r) ==
  <<RunPart("boxes", 48, r.boxes), RunPart("planes", 48, r.planes),
    RunPart("positions", 24, r.mesh.positions), RunPart("indices", 4, r.mesh.indices),
    CuttersPart(r.cutters), NodesPart(r.nodes)>>
RequestOpening(r) == <<<<"object", r.object>>, <<"base", r.base>>>>
Reads(r) == RequestOpening(r) \o TodoSays(RequestParts(r))

DueOf == [p \in PartRecords |-> Item(p.what, p.count)]
Dues(A) == Image(DueOf, A)
Counts == [loops : Nat, sections : Nat, coordinates : Nat]

OnTheWay(r, todo, done, msg, off, ag, gt, cn) ==
  /\ r \in WantedRequests /\ todo \in Seq(Parts(Len(r.nodes))) /\ done \in Seq(CellSet)
  /\ msg = done \o TodoCells(todo) /\ Len(done) = off /\ off > 0
  /\ ag = Dues(todo)
  /\ gt \in Seq(Entries) /\ gt \o TodoSays(todo) = Reads(r)
  /\ cn \in Counts
  /\ cn.loops + TodoLoops(todo) <= MaximumLoops
  /\ cn.sections + TodoSections(todo) <= MaximumSections
  /\ cn.coordinates + TodoCoordinates(todo) <= MaximumCoordinates
  /\ msg[12][2] = Len(r.nodes)

Midway(r, msg, off, ag, gt, cn) == \E todo, done : OnTheWay(r, todo, done, msg, off, ag, gt, cn)

LEMMA PartsAreRecords ==
  ASSUME NEW N, NEW A \in Seq(Parts(N))
  PROVE  A \in Seq(PartRecords)
<1>1. Parts(N) \subseteq PartRecords
 BY DEF Parts
<1> QED BY <1>1, SeqMonotonic

LEMMA DueMaps == Maps(DueOf, PartRecords, {Item(p.what, p.count) : p \in PartRecords})
 BY DEF Maps, DueOf

\* What the reader sees next of the first part.
NextSeen(r, todo, msg, off, ag) ==
  /\ todo[1] \in Parts(Len(r.nodes)) /\ Tail(todo) \in Seq(Parts(Len(r.nodes)))
  /\ ag # <<>> /\ ag[1] = Item(todo[1].what, todo[1].count)
  /\ ag = <<ag[1]>> \o Dues(Tail(todo)) /\ Tail(ag) = Dues(Tail(todo))
  /\ Bytes(msg) - Bytes(SubSeq(msg, 1, off)) >= Bytes(todo[1].cells)
  /\ Bytes(msg) - Bytes(SubSeq(msg, 1, off)) \in Int
  /\ \A k \in 1 .. Len(todo[1].cells) : msg[off + k] = todo[1].cells[k]
  /\ off \in Nat

LEMMA NextIsRead ==
  ASSUME NEW r, NEW todo, NEW done, NEW msg, NEW off, NEW ag, NEW gt, NEW cn,
         OnTheWay(r, todo, done, msg, off, ag, gt, cn), todo # <<>>
  PROVE  NextSeen(r, todo, msg, off, ag)
<1>1. todo \in Seq(Parts(Len(r.nodes))) /\ todo \in Seq(PartRecords)
 BY PartsAreRecords DEF OnTheWay
<1>2. todo[1] \in Parts(Len(r.nodes)) /\ Tail(todo) \in Seq(Parts(Len(r.nodes)))
 BY <1>1
<1>3. PICK p \in PartRecords, t \in Seq(PartRecords) : p = todo[1] /\ t = Tail(todo)
 BY ONLY <1>1, todo # <<>>, TodoUnrolls
<1>4. TodoBegins(todo, p, t)
 BY ONLY <1>1, <1>3, todo # <<>>, TodoUnrolls
<1>5. /\ ag # <<>> /\ ag[1] = DueOf[p] /\ Tail(ag) = Dues(t)
      /\ ag \in Seq({Item(q.what, q.count) : q \in PartRecords})
 <2>1. ag = Image(DueOf, todo)
  BY DEF OnTheWay, Dues
 <2> QED BY ONLY <1>1, <1>3, <2>1, todo # <<>>, DueMaps, ImageUnrolls DEF Dues
<1>6. ag = <<ag[1]>> \o Tail(ag)
 BY ONLY <1>5
<1>7. DueOf[p] = Item(p.what, p.count)
 BY DEF DueOf
<1>8. PICK c \in Seq(CellSet), d \in Seq(CellSet) : c = p.cells /\ d = TodoCells(t)
 BY ONLY p \in PartRecords, t \in Seq(PartRecords), TodoType DEF PartRecords
<1>9. done \in Seq(CellSet) /\ msg = done \o (c \o d) /\ Len(done) = off /\ off \in Nat
 BY <1>4, <1>8 DEF OnTheWay, TodoBegins
<1>10. c \o d \in Seq(CellSet) /\ Bytes(c \o d) = Bytes(c) + Bytes(d) /\ Bytes(c) \in Nat /\ Bytes(d) \in Nat
 BY ONLY <1>8, CellsJoin
<1>11. Bytes(msg) = Bytes(done) + Bytes(c \o d) /\ Bytes(done) \in Nat
 BY ONLY <1>9, <1>10, CellsJoin
<1>12. SubSeq(msg, 1, off) = done
 BY ONLY <1>9, <1>10
<1>13. \A k \in 1 .. Len(c) : msg[off + k] = c[k]
 <2>1. c \in Seq(CellSet) /\ d \in Seq(CellSet)
  OBVIOUS
 <2>2. \A k \in 1 .. Len(c) : (c \o d)[k] = c[k] /\ k \in 1 .. Len(c \o d)
  BY ONLY <2>1
 <2>3. \A k \in 1 .. Len(c \o d) : msg[off + k] = (c \o d)[k]
  <3>1. PICK x \in Seq(CellSet) : x = c \o d
   BY <1>10
  <3>2. ASSUME NEW k \in 1 .. Len(x)
        PROVE  msg[off + k] = x[k]
   <4>1. msg = done \o x /\ Len(done) = off /\ off \in Nat /\ x \in Seq(CellSet) /\ done \in Seq(CellSet)
    BY ONLY <1>9, <3>1, x \in Seq(CellSet)
   <4>2. k \in Nat /\ k >= 1 /\ k <= Len(x)
    OBVIOUS
   <4>3. off + k \in 1 .. Len(done) + Len(x) /\ off + k > Len(done) /\ off + k - Len(done) = k
    BY ONLY <4>1, <4>2
   <4> QED BY ONLY <4>1, <4>2, <4>3
  <3> QED BY ONLY <3>1, <3>2
 <2> QED BY ONLY <2>2, <2>3
<1>14. /\ Bytes(msg) - Bytes(SubSeq(msg, 1, off)) >= Bytes(c)
       /\ Bytes(msg) - Bytes(SubSeq(msg, 1, off)) \in Int
 <2>1. PICK x \in Nat, y \in Nat, z \in Nat : x = Bytes(done) /\ y = Bytes(c) /\ z = Bytes(d)
  BY ONLY <1>10, <1>11
 <2>2. Bytes(msg) = x + (y + z)
  BY ONLY <1>10, <1>11, <2>1
 <2>3. (x + (y + z)) - x >= y /\ (x + (y + z)) - x \in Int
  OBVIOUS
 <2> QED BY ONLY <1>12, <2>1, <2>2, <2>3
<1> QED BY ONLY <1>2, <1>3, <1>5, <1>6, <1>7, <1>8, <1>9, <1>13, <1>14 DEF NextSeen

LEMMA LimitsAreNumbers ==
  /\ MaximumNodes \in Nat /\ MaximumLoops \in Nat /\ MaximumSections \in Nat
  /\ MaximumCoordinates \in Nat /\ MaximumBytes \in Nat
 BY MessageAssumption

\* A reader who reads what the first part opens into is on its way in the rest.
Progressed(r, msg, off, ag, gt, cn, head, said, next, l, s, c) ==
  /\ Midway(r, msg, off + Len(head), Dues(next) \o Tail(ag), gt \o said,
           [loops |-> cn.loops + l, sections |-> cn.sections + s,
            coordinates |-> cn.coordinates + c])
  /\ cn.loops + l <= MaximumLoops /\ cn.sections + s <= MaximumSections
  /\ cn.coordinates + c <= MaximumCoordinates
  /\ \A k \in 1 .. Len(head) : msg[off + k] = head[k]

LEMMA Progress ==
  ASSUME NEW r, NEW todo, NEW done, NEW msg, NEW off, NEW ag, NEW gt, NEW cn,
         OnTheWay(r, todo, done, msg, off, ag, gt, cn), todo # <<>>,
         NEW head, NEW said, NEW next, NEW l \in Nat, NEW s \in Nat, NEW c \in Nat,
         Opens(todo[1], head, said, next, l, s, c), next \in Seq(Parts(Len(r.nodes)))
  PROVE  Progressed(r, msg, off, ag, gt, cn, head, said, next, l, s, c)
<1>1. todo \in Seq(Parts(Len(r.nodes))) /\ todo \in Seq(PartRecords)
 BY PartsAreRecords DEF OnTheWay
<1>2. /\ todo[1] \in Parts(Len(r.nodes)) /\ Tail(todo) \in Seq(Parts(Len(r.nodes)))
      /\ Tail(ag) = Dues(Tail(todo))
      /\ \A k \in 1 .. Len(todo[1].cells) : msg[off + k] = todo[1].cells[k]
 <2>1. NextSeen(r, todo, msg, off, ag)
  BY ONLY OnTheWay(r, todo, done, msg, off, ag, gt, cn), todo # <<>>, NextIsRead
 <2> QED BY ONLY <2>1 DEF NextSeen
<1>3. PICK p \in PartRecords, t \in Seq(PartRecords) : p = todo[1] /\ t = Tail(todo)
 BY ONLY <1>1, todo # <<>>, TodoUnrolls
<1>4. TodoBegins(todo, p, t)
 BY ONLY <1>1, <1>3, todo # <<>>, TodoUnrolls
<1>5. Opens(p, head, said, next, l, s, c)
 BY ONLY <1>3, Opens(todo[1], head, said, next, l, s, c)
<1>6. PICK n \in Seq(PartRecords) : n = next
 BY <1>5 DEF Opens
<1>7. PICK h \in Seq(CellSet), i \in Seq(Entries) : h = head /\ i = said
 BY <1>5 DEF Opens
<1>8. TodoJoined(n \o t, n, t) /\ n \o t \in Seq(PartRecords)
 BY ONLY n \in Seq(PartRecords), t \in Seq(PartRecords), TodoJoins
<1>9. n \o t \in Seq(Parts(Len(r.nodes)))
 <2>1. n \in Seq(Parts(Len(r.nodes))) /\ t \in Seq(Parts(Len(r.nodes)))
  BY <1>2, <1>3, <1>6
 <2> QED BY ONLY <2>1, ConcatProperties
<1>10. Dues(n \o t) = Dues(n) \o Dues(t)
 BY ONLY n \in Seq(PartRecords), t \in Seq(PartRecords), DueMaps, ImageOfBoth DEF Dues
<1>11. PICK u \in Seq(CellSet), v \in Seq(CellSet), w \in Seq(Entries), x \in Seq(Entries) :
          u = TodoCells(n) /\ v = TodoCells(t) /\ w = TodoSays(n) /\ x = TodoSays(t)
 BY ONLY n \in Seq(PartRecords), t \in Seq(PartRecords), TodoType
<1>12. /\ r \in WantedRequests /\ done \in Seq(CellSet) /\ msg = done \o TodoCells(todo) /\ Len(done) = off /\ off > 0
       /\ gt \in Seq(Entries) /\ gt \o TodoSays(todo) = Reads(r) /\ cn \in Counts
       /\ cn.loops + TodoLoops(todo) <= MaximumLoops
       /\ cn.sections + TodoSections(todo) <= MaximumSections
       /\ cn.coordinates + TodoCoordinates(todo) <= MaximumCoordinates
       /\ msg[12][2] = Len(r.nodes)
 BY DEF OnTheWay
<1>13. msg = (done \o h) \o TodoCells(n \o t)
 <2>1. TodoCells(todo) = (h \o u) \o v
  BY ONLY <1>4, <1>5, <1>6, <1>7, <1>11 DEF TodoBegins, Opens
 <2>2. TodoCells(n \o t) = u \o v
  BY ONLY <1>8, <1>11 DEF TodoJoined
 <2>3. u \o v \in Seq(CellSet)
  BY ONLY u \in Seq(CellSet), v \in Seq(CellSet), CellsJoin
 <2>4. Regrouped(h, u, v)
  BY ONLY h \in Seq(CellSet), u \in Seq(CellSet), v \in Seq(CellSet), CellsRegroup
 <2>5. PICK y \in Seq(CellSet) : y = u \o v
  BY <2>3
 <2>6. Regrouped(done, h, y)
  BY ONLY <1>12, h \in Seq(CellSet), y \in Seq(CellSet), CellsRegroup
 <2> QED BY ONLY <1>12, <2>1, <2>2, <2>4, <2>5, <2>6 DEF Regrouped
<1>14. (gt \o i) \o TodoSays(n \o t) = Reads(r)
 <2>1. TodoSays(todo) = (i \o w) \o x
  BY ONLY <1>4, <1>5, <1>6, <1>7, <1>11 DEF TodoBegins, Opens
 <2>2. TodoSays(n \o t) = w \o x
  BY ONLY <1>8, <1>11 DEF TodoJoined
 <2>3. w \o x \in Seq(Entries)
  BY ONLY w \in Seq(Entries), x \in Seq(Entries), ConcatProperties
 <2>4. Regrouped(i, w, x)
  BY ONLY i \in Seq(Entries), w \in Seq(Entries), x \in Seq(Entries), SaysRegroup
 <2>5. PICK y \in Seq(Entries) : y = w \o x
  BY <2>3
 <2>6. Regrouped(gt, i, y)
  BY ONLY <1>12, i \in Seq(Entries), y \in Seq(Entries), SaysRegroup
 <2> QED BY ONLY <1>12, <2>1, <2>2, <2>4, <2>5, <2>6 DEF Regrouped
<1>15. /\ TodoLoops(n) \in Nat /\ TodoLoops(t) \in Nat /\ TodoSections(n) \in Nat
       /\ TodoSections(t) \in Nat /\ TodoCoordinates(n) \in Nat /\ TodoCoordinates(t) \in Nat
 BY ONLY n \in Seq(PartRecords), t \in Seq(PartRecords), TodoType
<1>16. /\ TodoLoops(todo) = (l + TodoLoops(n)) + TodoLoops(t)
       /\ TodoSections(todo) = (s + TodoSections(n)) + TodoSections(t)
       /\ TodoCoordinates(todo) = (c + TodoCoordinates(n)) + TodoCoordinates(t)
       /\ TodoLoops(n \o t) = TodoLoops(n) + TodoLoops(t)
       /\ TodoSections(n \o t) = TodoSections(n) + TodoSections(t)
       /\ TodoCoordinates(n \o t) = TodoCoordinates(n) + TodoCoordinates(t)
 BY ONLY <1>4, <1>5, <1>6, <1>8 DEF TodoBegins, TodoJoined, Opens
<1>17. cn.loops \in Nat /\ cn.sections \in Nat /\ cn.coordinates \in Nat
 BY <1>12 DEF Counts
<1>18. ASSUME NEW a \in Nat, NEW b \in Nat, NEW d \in Nat, NEW e \in Nat, NEW m \in Nat,
              a + ((b + d) + e) <= m
       PROVE  (a + b) + (d + e) <= m /\ a + b <= m /\ a + b \in Nat
 BY ONLY <1>18
<1>19. /\ (cn.loops + l) + TodoLoops(n \o t) <= MaximumLoops /\ cn.loops + l <= MaximumLoops
       /\ cn.loops + l \in Nat
 <2>1. PICK a \in Nat, b \in Nat, d \in Nat, e \in Nat, m \in Nat :
          /\ a = cn.loops /\ b = l /\ d = TodoLoops(n) /\ e = TodoLoops(t) /\ m = MaximumLoops
  BY ONLY <1>15, <1>17, LimitsAreNumbers, l \in Nat
 <2>2. a + ((b + d) + e) <= m
  BY ONLY <1>12, <1>16, <2>1
 <2>3. (a + b) + (d + e) <= m /\ a + b <= m /\ a + b \in Nat
  BY ONLY <2>2, <1>18
 <2> QED BY ONLY <1>16, <2>1, <2>3
<1>20. /\ (cn.sections + s) + TodoSections(n \o t) <= MaximumSections
       /\ cn.sections + s <= MaximumSections /\ cn.sections + s \in Nat
 <2>1. PICK a \in Nat, b \in Nat, d \in Nat, e \in Nat, m \in Nat :
          /\ a = cn.sections /\ b = s /\ d = TodoSections(n) /\ e = TodoSections(t) /\ m = MaximumSections
  BY ONLY <1>15, <1>17, LimitsAreNumbers, s \in Nat
 <2>2. a + ((b + d) + e) <= m
  BY ONLY <1>12, <1>16, <2>1
 <2>3. (a + b) + (d + e) <= m /\ a + b <= m /\ a + b \in Nat
  BY ONLY <2>2, <1>18
 <2> QED BY ONLY <1>16, <2>1, <2>3
<1>21. /\ (cn.coordinates + c) + TodoCoordinates(n \o t) <= MaximumCoordinates
       /\ cn.coordinates + c <= MaximumCoordinates /\ cn.coordinates + c \in Nat
 <2>1. PICK a \in Nat, b \in Nat, d \in Nat, e \in Nat, m \in Nat :
          /\ a = cn.coordinates /\ b = c /\ d = TodoCoordinates(n) /\ e = TodoCoordinates(t) /\ m = MaximumCoordinates
  BY ONLY <1>15, <1>17, LimitsAreNumbers, c \in Nat
 <2>2. a + ((b + d) + e) <= m
  BY ONLY <1>12, <1>16, <2>1
 <2>3. (a + b) + (d + e) <= m /\ a + b <= m /\ a + b \in Nat
  BY ONLY <2>2, <1>18
 <2> QED BY ONLY <1>16, <2>1, <2>3
<1>22. done \o h \in Seq(CellSet) /\ Len(done \o h) = off + Len(h) /\ off + Len(h) > 0
 <2>1. done \o h \in Seq(CellSet) /\ Len(done \o h) = Len(done) + Len(h)
  BY ONLY <1>12, h \in Seq(CellSet), CellsJoin
 <2>2. Len(h) \in Nat /\ Len(done) \in Nat
  BY <1>12
 <2> QED BY ONLY <1>12, <2>1, <2>2
<1>23. gt \o i \in Seq(Entries)
 BY ONLY <1>12, i \in Seq(Entries), ConcatProperties
<1>24. PICK k2 \in Counts :
          k2 = [loops |-> cn.loops + l, sections |-> cn.sections + s, coordinates |-> cn.coordinates + c]
 BY ONLY <1>19, <1>20, <1>21 DEF Counts
<1>25. /\ k2.loops = cn.loops + l /\ k2.sections = cn.sections + s
       /\ k2.coordinates = cn.coordinates + c
 BY ONLY <1>24
<1>26. OnTheWay(r, n \o t, done \o h, msg, off + Len(h), Dues(n) \o Tail(ag), gt \o i, k2)
 BY ONLY <1>2, <1>3, <1>9, <1>10, <1>12, <1>13, <1>14, <1>19, <1>20, <1>21, <1>22, <1>23, <1>25,
         k2 \in Counts DEF OnTheWay
<1>27. \A k \in 1 .. Len(h) : msg[off + k] = h[k]
 <2>1. p.cells = h \o u
  BY ONLY <1>5, <1>6, <1>7, <1>11 DEF Opens
 <2>2. \A k \in 1 .. Len(h) : k \in 1 .. Len(h \o u) /\ (h \o u)[k] = h[k]
  BY ONLY h \in Seq(CellSet), u \in Seq(CellSet)
 <2> QED BY ONLY <1>2, <1>3, <2>1, <2>2
<1>28. Midway(r, msg, off + Len(h), Dues(n) \o Tail(ag), gt \o i, k2)
 BY ONLY <1>26 DEF Midway
<1> QED BY ONLY <1>6, <1>7, <1>19, <1>20, <1>21, <1>24, <1>27, <1>28 DEF Progressed

(* The reader step by step: nothing of a request is refused.                       *)

LEMMA FirstPart ==
  ASSUME NEW r, Midway(r, message, offset, agenda, got, counted), agenda # <<>>
  PROVE  \E todo, done :
            /\ OnTheWay(r, todo, done, message, offset, agenda, got, counted) /\ todo # <<>>
            /\ NextSeen(r, todo, message, offset, agenda)
            /\ agenda[1].what = todo[1].what /\ agenda[1].count = todo[1].count
            /\ Left >= Bytes(todo[1].cells) /\ Left \in Int
<1>1. PICK todo, done : OnTheWay(r, todo, done, message, offset, agenda, got, counted)
 BY ONLY Midway(r, message, offset, agenda, got, counted) DEF Midway
<1>2. todo # <<>>
 <2>1. agenda = Image(DueOf, todo)
  BY <1>1 DEF OnTheWay, Dues
 <2>2. Image(DueOf, <<>>) = <<>>
  BY DEF Image
 <2> QED BY ONLY <2>1, <2>2, agenda # <<>>
<1>3. NextSeen(r, todo, message, offset, agenda)
 BY ONLY <1>1, <1>2, NextIsRead
<1>4. agenda[1] = Item(todo[1].what, todo[1].count) /\ Left >= Bytes(todo[1].cells) /\ Left \in Int
 BY ONLY <1>3 DEF NextSeen, Left
<1>5. agenda[1].what = todo[1].what /\ agenda[1].count = todo[1].count
 BY ONLY <1>4 DEF Item
<1> QED BY ONLY <1>1, <1>2, <1>3, <1>4, <1>5

\* Counting nothing changes no count.
LEMMA SameCounts ==
  ASSUME NEW cn \in Counts
  PROVE  [loops |-> cn.loops + 0, sections |-> cn.sections + 0,
          coordinates |-> cn.coordinates + 0] = cn
<1>1. cn.loops + 0 = cn.loops /\ cn.sections + 0 = cn.sections /\ cn.coordinates + 0 = cn.coordinates
 BY DEF Counts
<1>2. cn = [loops |-> cn.loops, sections |-> cn.sections, coordinates |-> cn.coordinates]
 BY DEF Counts
<1> QED BY ONLY <1>1, <1>2

Kept == UNCHANGED <<request, origin, message, reply, exchange>>

LEMMA RunIsRead ==
  ASSUME NEW r, Midway(r, message, offset, agenda, got, counted), ReadRun
  PROVE  Midway(r, message, offset', agenda', got', counted') /\ Kept
<1>1. PICK what \in RunNames :
         /\ Due(what)
         /\ LET values == [k \in 1 .. Count |-> <<what, Read(k)>>] IN
            IF \/ CellWidth(what) * Count > Left
               \/ /\ what \in {"unions", "children"}
                  /\ \E k \in 1 .. Count : Read(k) >= message[12][2]
            THEN Refuse
            ELSE Consume(Count, values, <<>>) /\ UNCHANGED counted
 BY DEF ReadRun, RunNames
<1>2. agenda # <<>> /\ agenda[1].what = what
 BY <1>1 DEF Due
<1>3. PICK todo, done :
         /\ OnTheWay(r, todo, done, message, offset, agenda, got, counted) /\ todo # <<>>
         /\ NextSeen(r, todo, message, offset, agenda)
         /\ agenda[1].what = todo[1].what /\ agenda[1].count = todo[1].count
         /\ Left >= Bytes(todo[1].cells) /\ Left \in Int
 BY ONLY <1>2, FirstPart, Midway(r, message, offset, agenda, got, counted)
<1>4. PICK p \in Parts(Len(r.nodes)) : p = todo[1]
 BY <1>3 DEF NextSeen
<1>5. p.what = what /\ p.count = Count /\ IsRun(p, Len(r.nodes)) /\ Bytes(p.cells) = CellWidth(what) * Count
      /\ Left >= Bytes(p.cells)
 BY <1>2, <1>3, <1>4, PartKinds, PartBytes DEF Count
<1>6. PICK v \in Seq(Values) :
         /\ p = RunPart(what, CellWidth(what), v)
         /\ what \in {"unions", "children"} => Within(v, Len(r.nodes))
 BY ONLY <1>5 DEF IsRun
<1>7. what \in Names /\ CellWidth(what) \in Nat
 BY DEF Names, RunNames, CellWidth
<1>8. Opens(p, Run(CellWidth(what), v), Tagged(what, v), <<>>, 0, 0, 0)
 <2>1. v \in Seq(Values)
  OBVIOUS
 <2> QED BY ONLY <1>6, <1>7, <2>1, RunOpens
<1>9. /\ Run(CellWidth(what), v) \in Seq(CellSet) /\ Len(Run(CellWidth(what), v)) = Len(v)
      /\ \A k \in 1 .. Len(v) : Run(CellWidth(what), v)[k] = <<CellWidth(what), v[k]>>
 BY ONLY <1>7, v \in Seq(Values), RunFacts
<1>10. Count = Len(v)
 BY ONLY <1>5, <1>6 DEF RunPart
<1>11. <<>> \in Seq(Parts(Len(r.nodes)))
 OBVIOUS
<1>12. /\ Midway(r, message, offset + Len(Run(CellWidth(what), v)), Dues(<<>>) \o Tail(agenda),
                 got \o Tagged(what, v),
                 [loops |-> counted.loops + 0, sections |-> counted.sections + 0,
                  coordinates |-> counted.coordinates + 0])
       /\ \A k \in 1 .. Len(Run(CellWidth(what), v)) :
             message[offset + k] = Run(CellWidth(what), v)[k]
 <2>1. 0 \in Nat
  OBVIOUS
 <2>2. OnTheWay(r, todo, done, message, offset, agenda, got, counted) /\ todo # <<>>
  BY <1>3
 <2>3. Opens(todo[1], Run(CellWidth(what), v), Tagged(what, v), <<>>, 0, 0, 0)
  BY ONLY <1>4, <1>8
 <2>4. Progressed(r, message, offset, agenda, got, counted, Run(CellWidth(what), v),
                  Tagged(what, v), <<>>, 0, 0, 0)
  BY ONLY <1>11, <2>1, <2>2, <2>3, Progress
 <2> QED BY ONLY <2>4 DEF Progressed
<1>13. \A k \in 1 .. Count : Read(k) = v[k]
 <2>1. ASSUME NEW k \in 1 .. Len(v)
       PROVE  Read(k) = v[k]
  <3>1. message[offset + k] = <<CellWidth(what), v[k]>>
   BY ONLY <1>9, <1>12, k \in 1 .. Len(v)
  <3> QED BY ONLY <3>1 DEF Read
 <2> QED BY ONLY <1>10, <2>1
<1>14. Dues(<<>>) = <<>>
 BY DEF Dues, Image
<1>15. counted \in Counts /\ message[12][2] = Len(r.nodes)
 BY <1>3 DEF OnTheWay
<1>16. ~(CellWidth(what) * Count > Left)
 <2>1. CellWidth(what) * Count = Bytes(p.cells) /\ Left >= Bytes(p.cells) /\ Bytes(p.cells) \in Nat
  BY <1>5, PartBytes
 <2>2. PICK b \in Nat : b = Bytes(p.cells)
  BY <2>1
 <2>3. Left \in Int
  BY <1>3
 <2> QED BY ONLY <2>1, <2>2, <2>3
<1>17. what \in {"unions", "children"} => \A k \in 1 .. Count : ~(Read(k) >= message[12][2])
 <2>1. SUFFICES ASSUME what \in {"unions", "children"}, NEW k \in 1 .. Count
                PROVE  ~(Read(k) >= message[12][2])
  OBVIOUS
 <2>2. v \in Seq(Nat) /\ v[k] < Len(r.nodes) /\ Read(k) = v[k] /\ k \in 1 .. Len(v)
  BY <1>6, <1>10, <1>13, <2>1 DEF Within
 <2>3. v[k] \in Nat
  BY ONLY <2>2
 <2>4. Len(r.nodes) \in Int
  <3>1. r.nodes \in Seq(NodeRecords)
   BY <1>3, RequestFields DEF OnTheWay
  <3> QED BY ONLY <3>1
 <2> QED BY ONLY <1>15, <2>2, <2>3, <2>4
<1>18. Consume(Count, [k \in 1 .. Count |-> <<what, Read(k)>>], <<>>) /\ UNCHANGED counted
 BY ONLY <1>1, <1>16, <1>17
<1>19. [k \in 1 .. Count |-> <<what, Read(k)>>] = Tagged(what, v)
 <2>1. DOMAIN v = 1 .. Count
  BY <1>10
 <2> QED BY ONLY <1>13, <2>1 DEF Tagged
<1>20. /\ offset' = offset + Len(Run(CellWidth(what), v)) /\ got' = got \o Tagged(what, v)
       /\ agenda' = Dues(<<>>) \o Tail(agenda) /\ counted' = counted /\ Kept
 BY ONLY <1>9, <1>10, <1>14, <1>18, <1>19 DEF Consume, Kept
<1>21. [loops |-> counted.loops + 0, sections |-> counted.sections + 0,
        coordinates |-> counted.coordinates + 0] = counted
 BY ONLY <1>15, SameCounts
<1> QED BY ONLY <1>12, <1>20, <1>21
\* What a part opens into are parts again.
LEMMA RunIsPart ==
  ASSUME NEW N, NEW what \in RunNames, NEW v,
         v \in Seq(Int) \/ v \in Seq(Nat) \/ v \in Seq(Extents),
         what \in {"unions", "children"} => Within(v, N)
  PROVE  RunPart(what, CellWidth(what), v) \in Parts(N)
<1>1. v \in Seq(Values) /\ what \in Names /\ CellWidth(what) \in Nat
 BY Widened DEF Names, RunNames, CellWidth
<1>2. RunPart(what, CellWidth(what), v) \in PartRecords
 BY <1>1, RunPartFacts
<1>3. RunPart(what, CellWidth(what), v).what = what
 BY DEF RunPart
<1>4. IsRun(RunPart(what, CellWidth(what), v), N)
 <2>1. PICK p : p = RunPart(what, CellWidth(what), v)
  OBVIOUS
 <2>2. p.what = what
  BY ONLY <1>3, <2>1
 <2>3. IsRun(p, N)
  BY <1>1, <2>1, <2>2 DEF IsRun
 <2> QED BY ONLY <2>1, <2>3
<1> QED BY ONLY <1>2, <1>4 DEF Parts

LEMMA LoopsArePart ==
  ASSUME NEW N, NEW what \in {"loops", "sections"}, NEW v \in Seq(Loops)
  PROVE  LoopsPart(what, v) \in Parts(N)
<1>1. what \in Names
 BY DEF Names
<1>2. PICK p \in PartRecords : p = LoopsPart(what, v)
 BY ONLY <1>1, v \in Seq(Loops), LoopsPartFacts
<1>3. p.what = what
 BY ONLY <1>2 DEF LoopsPart
<1>4. IsLoops(p)
 BY <1>2, <1>3 DEF IsLoops
<1> QED BY ONLY <1>2, <1>4 DEF Parts

LEMMA SweepsArePart ==
  ASSUME NEW N, NEW v \in Seq(Seq(Loops))
  PROVE  SweepsPart(v) \in Parts(N)
<1>1. SweepsPart(v) \in PartRecords
 BY SweepsPartFacts
<1>2. IsSweeps(SweepsPart(v))
 BY DEF IsSweeps
<1> QED BY ONLY <1>1, <1>2 DEF Parts

LEMMA CuttersArePart ==
  ASSUME NEW N, NEW v \in Seq(TriangleMeshes)
  PROVE  CuttersPart(v) \in Parts(N)
<1>1. CuttersPart(v) \in PartRecords
 BY CuttersPartFacts
<1>2. IsCutters(CuttersPart(v))
 BY DEF IsCutters
<1> QED BY ONLY <1>1, <1>2 DEF Parts

LEMMA NodesArePart ==
  ASSUME NEW N, NEW v \in Seq(NodeRecords), \A k \in 1 .. Len(v) : EdgesWithin(v[k], N)
  PROVE  NodesPart(v) \in Parts(N)
<1>1. NodesPart(v) \in PartRecords
 BY NodesSaid
<1>2. IsNodes(NodesPart(v), N)
 BY DEF IsNodes
<1> QED BY ONLY <1>1, <1>2 DEF Parts

Due1(p) == Item(p.what, p.count)

LEMMA DuesOfTwo ==
  ASSUME NEW p \in PartRecords, NEW q \in PartRecords
  PROVE  Dues(<<p, q>>) = <<Due1(p), Due1(q)>>
 BY DEF Dues, Image, DueOf, Due1

LEMMA DuesOfThree ==
  ASSUME NEW p \in PartRecords, NEW q \in PartRecords, NEW r \in PartRecords
  PROVE  Dues(<<p, q, r>>) = <<Due1(p), Due1(q), Due1(r)>>
 BY DEF Dues, Image, DueOf, Due1

LEMMA NothingIsRead ==
  ASSUME NEW r, Midway(r, message, offset, agenda, got, counted), ReadNothing
  PROVE  Midway(r, message, offset', agenda', got', counted') /\ Kept
<1>1. PICK what \in {"cutters", "nodes", "loops", "sweeps", "sections"} : Due(what) /\ Count = 0
 BY DEF ReadNothing
<1>2. agenda # <<>> /\ agenda[1].what = what
 BY <1>1 DEF Due
<1>3. PICK todo, done :
         /\ OnTheWay(r, todo, done, message, offset, agenda, got, counted) /\ todo # <<>>
         /\ NextSeen(r, todo, message, offset, agenda)
         /\ agenda[1].what = todo[1].what /\ agenda[1].count = todo[1].count
         /\ Left >= Bytes(todo[1].cells) /\ Left \in Int
 BY ONLY <1>2, FirstPart, Midway(r, message, offset, agenda, got, counted)
<1>4. PICK p \in Parts(Len(r.nodes)) : p = todo[1]
 BY <1>3 DEF NextSeen
<1>5. p.what = what /\ p.count = 0 /\ what \notin RunNames
 BY <1>1, <1>2, <1>3, <1>4 DEF Count, RunNames
<1>6. Opens(p, <<>>, <<>>, <<>>, 0, 0, 0)
 BY ONLY <1>5, p \in Parts(Len(r.nodes)), NothingOpens
<1>7. /\ Midway(r, message, offset + Len(<<>>), Dues(<<>>) \o Tail(agenda), got \o <<>>,
                [loops |-> counted.loops + 0, sections |-> counted.sections + 0,
                 coordinates |-> counted.coordinates + 0])
 <2>1. 0 \in Nat /\ <<>> \in Seq(Parts(Len(r.nodes)))
  OBVIOUS
 <2>2. OnTheWay(r, todo, done, message, offset, agenda, got, counted) /\ todo # <<>>
  BY <1>3
 <2>3. Opens(todo[1], <<>>, <<>>, <<>>, 0, 0, 0)
  BY ONLY <1>4, <1>6
 <2>4. Progressed(r, message, offset, agenda, got, counted, <<>>, <<>>, <<>>, 0, 0, 0)
  BY ONLY <2>1, <2>2, <2>3, Progress
 <2> QED BY ONLY <2>4 DEF Progressed
<1>8. Dues(<<>>) = <<>>
 BY DEF Dues, Image
<1>9. counted \in Counts
 BY <1>3 DEF OnTheWay
<1>10. [loops |-> counted.loops + 0, sections |-> counted.sections + 0,
        coordinates |-> counted.coordinates + 0] = counted
 BY ONLY <1>9, SameCounts
<1>11. Consume(0, <<>>, <<>>) /\ UNCHANGED counted
 BY DEF ReadNothing
<1>12. Len(<<>>) = 0
 OBVIOUS
<1> QED BY ONLY <1>7, <1>8, <1>10, <1>11, <1>12 DEF Consume, Kept
LEMMA LoopIsRead ==
  ASSUME NEW r, Midway(r, message, offset, agenda, got, counted), ReadLoop
  PROVE  Midway(r, message, offset', agenda', got', counted') /\ Kept
<1>1. PICK what \in {"loops", "sections"} :
         /\ Due(what) /\ Count > 0
         /\ IF 4 * Count > Left \/ counted.coordinates + Read(1) > MaximumCoordinates
            THEN Refuse
            ELSE /\ counted' = [counted EXCEPT !.coordinates = @ + Read(1)]
                 /\ Consume(1, <<<<"loop", Read(1)>>>>, <<Item("points", Read(1) \div 3), Rest(what)>>)
 BY DEF ReadLoop
<1>2. agenda # <<>> /\ agenda[1].what = what
 BY <1>1 DEF Due
<1>3. PICK todo, done :
         /\ OnTheWay(r, todo, done, message, offset, agenda, got, counted) /\ todo # <<>>
         /\ NextSeen(r, todo, message, offset, agenda)
         /\ agenda[1].what = todo[1].what /\ agenda[1].count = todo[1].count
         /\ Left >= Bytes(todo[1].cells) /\ Left \in Int
 BY ONLY <1>2, FirstPart, Midway(r, message, offset, agenda, got, counted)
<1>4. PICK p \in Parts(Len(r.nodes)) : p = todo[1]
 BY <1>3 DEF NextSeen
<1>5. /\ p.what = what /\ p.count = Count /\ IsLoops(p) /\ Bytes(p.cells) >= 4 * Count
      /\ Left >= Bytes(p.cells) /\ Bytes(p.cells) \in Nat /\ Count \in Nat /\ Left \in Int
 BY <1>2, <1>3, <1>4, PartKinds, PartBytes DEF Count
<1>6. PICK v \in Seq(Loops) : p = LoopsPart(what, v)
 BY ONLY <1>5 DEF IsLoops
<1>7. Len(v) = Count /\ v # <<>>
 BY <1>1, <1>5, <1>6 DEF LoopsPart
<1>8. what \in Names
 BY DEF Names
<1>9. PICK w \in Loops, t \in Seq(Loops) : w = v[1] /\ t = Tail(v)
 <2>1. v \in Seq(Loops) /\ v # <<>>
  BY <1>7
 <2>2. v[1] \in Loops /\ Tail(v) \in Seq(Loops)
  BY ONLY <2>1
 <2> QED BY ONLY <2>2
<1>10. /\ Opens(p, <<Word(3 * Len(w))>>, <<<<"loop", 3 * Len(w)>>>>,
                <<RunPart("points", 24, w), LoopsPart(what, t)>>, 0, 0, 3 * Len(w))
       /\ Len(v) = Len(t) + 1
 BY ONLY <1>6, <1>7, <1>8, <1>9, v \in Seq(Loops), LoopsOpen
<1>11. PICK a \in Parts(Len(r.nodes)), b \in Parts(Len(r.nodes)) :
          a = RunPart("points", 24, w) /\ b = LoopsPart(what, t)
 <2>1. "points" \in RunNames /\ CellWidth("points") = 24 /\ "points" \notin {"unions", "children"}
  BY DEF RunNames, CellWidth
 <2>2. w \in Seq(Int)
  BY DEF Loops
 <2>3. RunPart("points", 24, w) \in Parts(Len(r.nodes))
  BY ONLY <2>1, <2>2, RunIsPart
 <2>4. LoopsPart(what, t) \in Parts(Len(r.nodes))
  BY ONLY what \in {"loops", "sections"}, t \in Seq(Loops), LoopsArePart
 <2> QED BY ONLY <2>3, <2>4
<1>12. PICK h, s, n : /\ h = <<Word(3 * Len(w))>> /\ s = <<<<"loop", 3 * Len(w)>>>> /\ n = <<a, b>>
 OBVIOUS
<1>13. Len(w) \in Nat /\ Len(t) \in Nat
 BY DEF Loops
<1>14. Progressed(r, message, offset, agenda, got, counted, h, s, n, 0, 0, 3 * Len(w))
 <2>1. 0 \in Nat /\ n \in Seq(Parts(Len(r.nodes)))
  BY <1>12
 <2>2. OnTheWay(r, todo, done, message, offset, agenda, got, counted) /\ todo # <<>>
  BY <1>3
 <2>3. Opens(todo[1], h, s, n, 0, 0, 3 * Len(w))
  BY ONLY <1>4, <1>10, <1>11, <1>12
 <2>4. 3 * Len(w) \in Nat
  BY <1>13
 <2> QED BY ONLY <2>1, <2>2, <2>3, <2>4, Progress
<1>15. /\ Midway(r, message, offset + Len(h), Dues(n) \o Tail(agenda), got \o s,
                 [loops |-> counted.loops + 0, sections |-> counted.sections + 0,
                  coordinates |-> counted.coordinates + 3 * Len(w)])
       /\ counted.coordinates + 3 * Len(w) <= MaximumCoordinates
       /\ \A k \in 1 .. Len(h) : message[offset + k] = h[k]
 BY ONLY <1>14 DEF Progressed
<1>16. Read(1) = 3 * Len(w)
 <2>1. 1 \in 1 .. Len(h) /\ h[1] = Word(3 * Len(w))
  BY ONLY <1>12
 <2>2. message[offset + 1] = Word(3 * Len(w))
  BY ONLY <1>15, <2>1
 <2> QED BY ONLY <2>2 DEF Read, Word
<1>17. counted \in Counts
 BY <1>3 DEF OnTheWay
<1>18. ~(4 * Count > Left) /\ ~(counted.coordinates + Read(1) > MaximumCoordinates)
 <2>1. PICK c \in Nat, m \in Nat, x \in Nat : c = counted.coordinates /\ m = MaximumCoordinates /\ x = 3 * Len(w)
  BY <1>13, <1>17, LimitsAreNumbers DEF Counts
 <2>2. c + x <= m
  BY ONLY <1>15, <2>1
 <2>3. PICK y \in Nat, z \in Nat, i \in Int : y = Bytes(p.cells) /\ z = Count /\ i = Left
  BY <1>5
 <2> QED BY ONLY <1>5, <1>16, <2>1, <2>2, <2>3, SMTT(30)
<1>19. /\ counted' = [counted EXCEPT !.coordinates = @ + Read(1)]
       /\ Consume(1, <<<<"loop", Read(1)>>>>, <<Item("points", Read(1) \div 3), Rest(what)>>)
 BY ONLY <1>1, <1>18
<1>20. Dues(n) = <<Item("points", Read(1) \div 3), Rest(what)>>
 <2>1. a \in PartRecords /\ b \in PartRecords
  BY DEF Parts
 <2>2. Dues(n) = <<Due1(a), Due1(b)>>
  BY ONLY <1>12, <2>1, DuesOfTwo
 <2>3. Due1(a) = Item("points", Len(w)) /\ Due1(b) = Item(what, Len(t))
  BY ONLY <1>11 DEF RunPart, LoopsPart, Due1
 <2>4. Len(w) = (3 * Len(w)) \div 3 /\ Len(t) = Len(v) - 1
  <3>1. PICK x \in Nat, y \in Nat, z \in Nat : x = Len(w) /\ y = Len(t) /\ z = Len(v)
   BY <1>5, <1>7, <1>13
  <3>2. x = (3 * x) \div 3
   OBVIOUS
  <3> QED BY ONLY <1>10, <3>1, <3>2
 <2> QED BY ONLY <1>7, <1>16, <2>2, <2>3, <2>4 DEF Rest
<1>21. counted' = [loops |-> counted.loops + 0, sections |-> counted.sections + 0,
                   coordinates |-> counted.coordinates + 3 * Len(w)]
 <2>1. [counted EXCEPT !.coordinates = @ + Read(1)]
          = [loops |-> counted.loops, sections |-> counted.sections,
             coordinates |-> counted.coordinates + 3 * Len(w)]
  BY ONLY <1>16, <1>17 DEF Counts
 <2>2. counted.loops + 0 = counted.loops /\ counted.sections + 0 = counted.sections
  BY ONLY <1>17 DEF Counts
 <2> QED BY ONLY <1>19, <2>1, <2>2
<1>22. Len(h) = 1 /\ s = <<<<"loop", Read(1)>>>>
 BY ONLY <1>12, <1>16
<1> QED BY ONLY <1>15, <1>19, <1>20, <1>21, <1>22 DEF Consume, Kept

LEMMA SweepIsRead ==
  ASSUME NEW r, Midway(r, message, offset, agenda, got, counted), ReadSweep
  PROVE  Midway(r, message, offset', agenda', got', counted') /\ Kept
<1>1. /\ Due("sweeps") /\ Count > 0
      /\ IF 4 * Count > Left \/ counted.sections + Read(1) > MaximumSections
         THEN Refuse
         ELSE /\ counted' = [counted EXCEPT !.sections = @ + Read(1)]
              /\ Consume(1, <<<<"sweep", Read(1)>>>>, <<Item("sections", Read(1)), Rest("sweeps")>>)
 BY DEF ReadSweep
<1>2. agenda # <<>> /\ agenda[1].what = "sweeps"
 BY <1>1 DEF Due
<1>3. PICK todo, done :
         /\ OnTheWay(r, todo, done, message, offset, agenda, got, counted) /\ todo # <<>>
         /\ NextSeen(r, todo, message, offset, agenda)
         /\ agenda[1].what = todo[1].what /\ agenda[1].count = todo[1].count
         /\ Left >= Bytes(todo[1].cells) /\ Left \in Int
 BY ONLY <1>2, FirstPart, Midway(r, message, offset, agenda, got, counted)
<1>4. PICK p \in Parts(Len(r.nodes)) : p = todo[1]
 BY <1>3 DEF NextSeen
<1>5. /\ p.what = "sweeps" /\ p.count = Count /\ IsSweeps(p) /\ Bytes(p.cells) >= 4 * Count
      /\ Left >= Bytes(p.cells) /\ Bytes(p.cells) \in Nat /\ Count \in Nat /\ Left \in Int
 BY <1>2, <1>3, <1>4, PartKinds, PartBytes DEF Count
<1>6. PICK v \in Seq(Seq(Loops)) : p = SweepsPart(v)
 BY ONLY <1>5 DEF IsSweeps
<1>7. Len(v) = Count /\ v # <<>>
 BY <1>1, <1>5, <1>6 DEF SweepsPart
<1>9. PICK w \in Seq(Loops), t \in Seq(Seq(Loops)) : w = v[1] /\ t = Tail(v)
 <2>1. v \in Seq(Seq(Loops)) /\ v # <<>>
  BY <1>7
 <2>2. v[1] \in Seq(Loops) /\ Tail(v) \in Seq(Seq(Loops))
  BY ONLY <2>1
 <2> QED BY ONLY <2>2
<1>10. /\ Opens(p, <<Word(Len(w))>>, <<<<"sweep", Len(w)>>>>,
                <<LoopsPart("sections", w), SweepsPart(t)>>, 0, Len(w), 0)
       /\ Len(v) = Len(t) + 1
 BY ONLY <1>6, <1>7, <1>9, v \in Seq(Seq(Loops)), SweepsOpen
<1>11. PICK a \in Parts(Len(r.nodes)), b \in Parts(Len(r.nodes)) :
          a = LoopsPart("sections", w) /\ b = SweepsPart(t)
 <2>1. "sections" \in {"loops", "sections"}
  OBVIOUS
 <2>2. LoopsPart("sections", w) \in Parts(Len(r.nodes))
  BY ONLY <2>1, w \in Seq(Loops), LoopsArePart
 <2>3. SweepsPart(t) \in Parts(Len(r.nodes))
  BY ONLY t \in Seq(Seq(Loops)), SweepsArePart
 <2> QED BY ONLY <2>2, <2>3
<1>12. PICK h, s, n : /\ h = <<Word(Len(w))>> /\ s = <<<<"sweep", Len(w)>>>> /\ n = <<a, b>>
 OBVIOUS
<1>13. Len(w) \in Nat /\ Len(t) \in Nat
 OBVIOUS
<1>14. Progressed(r, message, offset, agenda, got, counted, h, s, n, 0, Len(w), 0)
 <2>1. 0 \in Nat /\ n \in Seq(Parts(Len(r.nodes)))
  BY <1>12
 <2>2. OnTheWay(r, todo, done, message, offset, agenda, got, counted) /\ todo # <<>>
  BY <1>3
 <2>3. Opens(todo[1], h, s, n, 0, Len(w), 0)
  BY ONLY <1>4, <1>10, <1>11, <1>12
 <2> QED BY ONLY <1>13, <2>1, <2>2, <2>3, Progress
<1>15. /\ Midway(r, message, offset + Len(h), Dues(n) \o Tail(agenda), got \o s,
                 [loops |-> counted.loops + 0, sections |-> counted.sections + Len(w),
                  coordinates |-> counted.coordinates + 0])
       /\ counted.sections + Len(w) <= MaximumSections
       /\ \A k \in 1 .. Len(h) : message[offset + k] = h[k]
 BY ONLY <1>14 DEF Progressed
<1>16. Read(1) = Len(w)
 <2>1. 1 \in 1 .. Len(h) /\ h[1] = Word(Len(w))
  BY ONLY <1>12
 <2>2. message[offset + 1] = Word(Len(w))
  BY ONLY <1>15, <2>1
 <2> QED BY ONLY <2>2 DEF Read, Word
<1>17. counted \in Counts
 BY <1>3 DEF OnTheWay
<1>18. ~(4 * Count > Left) /\ ~(counted.sections + Read(1) > MaximumSections)
 <2>1. PICK c \in Nat, m \in Nat, x \in Nat : c = counted.sections /\ m = MaximumSections /\ x = Len(w)
  BY <1>13, <1>17, LimitsAreNumbers DEF Counts
 <2>2. c + x <= m
  BY ONLY <1>15, <2>1
 <2>3. PICK y \in Nat, z \in Nat, i \in Int : y = Bytes(p.cells) /\ z = Count /\ i = Left
  BY <1>5
 <2> QED BY ONLY <1>5, <1>16, <2>1, <2>2, <2>3
<1>19. /\ counted' = [counted EXCEPT !.sections = @ + Read(1)]
       /\ Consume(1, <<<<"sweep", Read(1)>>>>, <<Item("sections", Read(1)), Rest("sweeps")>>)
 BY ONLY <1>1, <1>18
<1>20. Dues(n) = <<Item("sections", Read(1)), Rest("sweeps")>>
 <2>1. a \in PartRecords /\ b \in PartRecords
  BY DEF Parts
 <2>2. Dues(n) = <<Due1(a), Due1(b)>>
  BY ONLY <1>12, <2>1, DuesOfTwo
 <2>3. Due1(a) = Item("sections", Len(w)) /\ Due1(b) = Item("sweeps", Len(t))
  BY ONLY <1>11 DEF LoopsPart, SweepsPart, Due1
 <2>4. Len(t) = Len(v) - 1
  <3>1. PICK y \in Nat, z \in Nat : y = Len(t) /\ z = Len(v)
   BY <1>5, <1>7, <1>13
  <3> QED BY ONLY <1>10, <3>1
 <2> QED BY ONLY <1>7, <1>16, <2>2, <2>3, <2>4 DEF Rest
<1>21. counted' = [loops |-> counted.loops + 0, sections |-> counted.sections + Len(w),
                   coordinates |-> counted.coordinates + 0]
 <2>1. [counted EXCEPT !.sections = @ + Read(1)]
          = [loops |-> counted.loops, sections |-> counted.sections + Len(w),
             coordinates |-> counted.coordinates]
  <3>1. PICK x : x = counted.sections + Read(1) /\ x = counted.sections + Len(w)
   BY ONLY <1>16
  <3>2. PICK f \in Nat, g \in Nat, j \in Nat :
           counted = [loops |-> f, sections |-> g, coordinates |-> j]
   BY ONLY <1>17 DEF Counts
  <3>3. [counted EXCEPT !.sections = x] = [loops |-> f, sections |-> x, coordinates |-> j]
   BY ONLY <3>2
  <3>4. counted.loops = f /\ counted.coordinates = j
   BY ONLY <3>2
  <3> QED BY ONLY <3>1, <3>3, <3>4
 <2>2. counted.loops + 0 = counted.loops /\ counted.coordinates + 0 = counted.coordinates
  BY ONLY <1>17 DEF Counts
 <2> QED BY ONLY <1>19, <2>1, <2>2
<1>22. Len(h) = 1 /\ s = <<<<"sweep", Read(1)>>>>
 BY ONLY <1>12, <1>16
<1> QED BY ONLY <1>15, <1>19, <1>20, <1>21, <1>22 DEF Consume, Kept
LEMMA CutterIsRead ==
  ASSUME NEW r, Midway(r, message, offset, agenda, got, counted), ReadCutter
  PROVE  Midway(r, message, offset', agenda', got', counted') /\ Kept
<1>1. /\ Due("cutters") /\ Count > 0
      /\ IF 8 * Count > Left THEN Refuse
         ELSE /\ Consume(2, <<<<"cutter", Read(1)>>>>,
                         <<Item("positions", Read(1) \div 3), Item("indices", Read(2)), Rest("cutters")>>)
              /\ UNCHANGED counted
 BY DEF ReadCutter
<1>2. agenda # <<>> /\ agenda[1].what = "cutters"
 BY <1>1 DEF Due
<1>3. PICK todo, done :
         /\ OnTheWay(r, todo, done, message, offset, agenda, got, counted) /\ todo # <<>>
         /\ NextSeen(r, todo, message, offset, agenda)
         /\ agenda[1].what = todo[1].what /\ agenda[1].count = todo[1].count
         /\ Left >= Bytes(todo[1].cells) /\ Left \in Int
 BY ONLY <1>2, FirstPart, Midway(r, message, offset, agenda, got, counted)
<1>4. PICK p \in Parts(Len(r.nodes)) : p = todo[1]
 BY <1>3 DEF NextSeen
<1>5. /\ p.what = "cutters" /\ p.count = Count /\ IsCutters(p) /\ Bytes(p.cells) >= 8 * Count
      /\ Left >= Bytes(p.cells) /\ Bytes(p.cells) \in Nat /\ Count \in Nat /\ Left \in Int
 BY <1>2, <1>3, <1>4, PartKinds, PartBytes DEF Count
<1>6. PICK v \in Seq(TriangleMeshes) : p = CuttersPart(v)
 BY ONLY <1>5 DEF IsCutters
<1>7. Len(v) = Count /\ v # <<>>
 BY <1>1, <1>5, <1>6 DEF CuttersPart
<1>9. PICK m \in TriangleMeshes, t \in Seq(TriangleMeshes) : m = v[1] /\ t = Tail(v)
 <2>1. v \in Seq(TriangleMeshes) /\ v # <<>>
  BY <1>7
 <2>2. v[1] \in TriangleMeshes /\ Tail(v) \in Seq(TriangleMeshes)
  BY ONLY <2>1
 <2> QED BY ONLY <2>2
<1>10. /\ Opens(p, <<Word(3 * Len(m.positions)), Word(Len(m.indices))>>,
                <<<<"cutter", 3 * Len(m.positions)>>>>,
                <<RunPart("positions", 24, m.positions), RunPart("indices", 4, m.indices),
                  CuttersPart(t)>>, 0, 0, 0)
       /\ Len(v) = Len(t) + 1
 BY ONLY <1>6, <1>7, <1>9, v \in Seq(TriangleMeshes), CuttersOpen
<1>11. PICK x \in Seq(Int), y \in Seq(Nat) : x = m.positions /\ y = m.indices
 BY MeshFacts
<1>12. PICK a \in Parts(Len(r.nodes)), b \in Parts(Len(r.nodes)), c \in Parts(Len(r.nodes)) :
          a = RunPart("positions", 24, x) /\ b = RunPart("indices", 4, y) /\ c = CuttersPart(t)
 <2>1. /\ "positions" \in RunNames /\ CellWidth("positions") = 24
       /\ "positions" \notin {"unions", "children"}
       /\ "indices" \in RunNames /\ CellWidth("indices") = 4 /\ "indices" \notin {"unions", "children"}
  BY DEF RunNames, CellWidth
 <2>2. RunPart("positions", 24, x) \in Parts(Len(r.nodes))
  BY ONLY <2>1, x \in Seq(Int), RunIsPart
 <2>3. RunPart("indices", 4, y) \in Parts(Len(r.nodes))
  BY ONLY <2>1, y \in Seq(Nat), RunIsPart
 <2>4. CuttersPart(t) \in Parts(Len(r.nodes))
  BY ONLY t \in Seq(TriangleMeshes), CuttersArePart
 <2> QED BY ONLY <2>2, <2>3, <2>4
<1>13. PICK h, s, n : /\ h = <<Word(3 * Len(x)), Word(Len(y))>> /\ s = <<<<"cutter", 3 * Len(x)>>>>
                      /\ n = <<a, b, c>>
 OBVIOUS
<1>14. Progressed(r, message, offset, agenda, got, counted, h, s, n, 0, 0, 0)
 <2>1. 0 \in Nat /\ n \in Seq(Parts(Len(r.nodes)))
  BY <1>13
 <2>2. OnTheWay(r, todo, done, message, offset, agenda, got, counted) /\ todo # <<>>
  BY <1>3
 <2>3. Opens(todo[1], h, s, n, 0, 0, 0)
  BY ONLY <1>4, <1>10, <1>11, <1>12, <1>13
 <2> QED BY ONLY <2>1, <2>2, <2>3, Progress
<1>15. /\ Midway(r, message, offset + Len(h), Dues(n) \o Tail(agenda), got \o s,
                 [loops |-> counted.loops + 0, sections |-> counted.sections + 0,
                  coordinates |-> counted.coordinates + 0])
       /\ \A k \in 1 .. Len(h) : message[offset + k] = h[k]
 BY ONLY <1>14 DEF Progressed
<1>16. Read(1) = 3 * Len(x) /\ Read(2) = Len(y)
 <2>1. 1 \in 1 .. Len(h) /\ h[1] = Word(3 * Len(x)) /\ 2 \in 1 .. Len(h) /\ h[2] = Word(Len(y))
  BY ONLY <1>13
 <2>2. message[offset + 1] = Word(3 * Len(x)) /\ message[offset + 2] = Word(Len(y))
  BY ONLY <1>15, <2>1
 <2> QED BY ONLY <2>2 DEF Read, Word
<1>17. counted \in Counts
 BY <1>3 DEF OnTheWay
<1>18. ~(8 * Count > Left)
 <2>1. PICK e \in Nat, z \in Nat, i \in Int : e = Bytes(p.cells) /\ z = Count /\ i = Left
  BY <1>5
 <2> QED BY ONLY <1>5, <2>1
<1>19. /\ Consume(2, <<<<"cutter", Read(1)>>>>,
                  <<Item("positions", Read(1) \div 3), Item("indices", Read(2)), Rest("cutters")>>)
       /\ UNCHANGED counted
 BY ONLY <1>1, <1>18
<1>20. Dues(n) = <<Item("positions", Read(1) \div 3), Item("indices", Read(2)), Rest("cutters")>>
 <2>1. a \in PartRecords /\ b \in PartRecords /\ c \in PartRecords
  BY DEF Parts
 <2>2. Dues(n) = <<Due1(a), Due1(b), Due1(c)>>
  BY ONLY <1>13, <2>1, DuesOfThree
 <2>3. /\ Due1(a) = Item("positions", Len(x)) /\ Due1(b) = Item("indices", Len(y))
       /\ Due1(c) = Item("cutters", Len(t))
  BY ONLY <1>12 DEF RunPart, CuttersPart, Due1
 <2>4. Len(x) = (3 * Len(x)) \div 3 /\ Len(t) = Len(v) - 1
  <3>1. PICK e \in Nat, f \in Nat, g \in Nat : e = Len(x) /\ f = Len(t) /\ g = Len(v)
   BY <1>5, <1>7
  <3>2. e = (3 * e) \div 3
   OBVIOUS
  <3> QED BY ONLY <1>10, <3>1, <3>2
 <2> QED BY ONLY <1>7, <1>16, <2>2, <2>3, <2>4 DEF Rest
<1>21. [loops |-> counted.loops + 0, sections |-> counted.sections + 0,
        coordinates |-> counted.coordinates + 0] = counted
 BY ONLY <1>17, SameCounts
<1>22. Len(h) = 2 /\ s = <<<<"cutter", Read(1)>>>>
 BY ONLY <1>13, <1>16
<1> QED BY ONLY <1>15, <1>19, <1>20, <1>21, <1>22 DEF Consume, Kept
EightDues(a, b, c, d, e, f, g, h) ==
  Dues(<<a, b, c, d, e, f, g, h>>)
     = <<Due1(a), Due1(b), Due1(c), Due1(d), Due1(e), Due1(f), Due1(g), Due1(h)>>

LEMMA DuesOfEight ==
  ASSUME NEW a \in PartRecords, NEW b \in PartRecords, NEW c \in PartRecords, NEW d \in PartRecords,
         NEW e \in PartRecords, NEW f \in PartRecords, NEW g \in PartRecords, NEW h \in PartRecords
  PROVE  EightDues(a, b, c, d, e, f, g, h)
<1>1. \A p \in PartRecords : DueOf[p] = Due1(p)
 BY DEF DueOf, Due1
<1>2. Dues(<<a, b, c, d, e, f, g, h>>)
         = <<DueOf[a], DueOf[b], DueOf[c], DueOf[d], DueOf[e], DueOf[f], DueOf[g], DueOf[h]>>
 BY DEF Dues, Image
<1> QED BY ONLY <1>1, <1>2, a \in PartRecords, b \in PartRecords, c \in PartRecords,
        d \in PartRecords, e \in PartRecords, f \in PartRecords, g \in PartRecords, h \in PartRecords
        DEF EightDues

\* What a node announces.
NodeDues(n) ==
  <<Item("boxes", Len(n.boxes)), Item("planes", Len(n.planes)),
    Item("positions", Len(n.mesh.positions)), Item("indices", Len(n.mesh.indices)),
    Item("loops", Len(n.extrusion)), Item("sweeps", Len(n.sweep)),
    Item("unions", Len(n.unions)), Item("children", Len(n.children))>>

LEMMA NodeIsAnnounced ==
  ASSUME NEW N, NEW n \in NodeRecords, EdgesWithin(n, N)
  PROVE  NodeParts(n) \in Seq(Parts(N)) /\ Dues(NodeParts(n)) = NodeDues(n)
<1>1. /\ n.boxes \in Seq(Extents) /\ n.planes \in Seq(Extents) /\ n.mesh.positions \in Seq(Int)
      /\ n.mesh.indices \in Seq(Nat) /\ n.children \in Seq(Nat) /\ n.unions \in Seq(Nat)
      /\ n.extrusion \in Seq(Loops) /\ n.sweep \in Seq(Seq(Loops))
 BY NodeFields, MeshFacts
<1>2. /\ "boxes" \in RunNames /\ CellWidth("boxes") = 48 /\ "boxes" \notin {"unions", "children"}
      /\ "planes" \in RunNames /\ CellWidth("planes") = 48 /\ "planes" \notin {"unions", "children"}
      /\ "positions" \in RunNames /\ CellWidth("positions") = 24
      /\ "positions" \notin {"unions", "children"}
      /\ "indices" \in RunNames /\ CellWidth("indices") = 4 /\ "indices" \notin {"unions", "children"}
      /\ "unions" \in RunNames /\ CellWidth("unions") = 4
      /\ "children" \in RunNames /\ CellWidth("children") = 4
      /\ "loops" \in {"loops", "sections"}
 BY DEF RunNames, CellWidth
<1>3. RunPart("boxes", 48, n.boxes) \in Parts(N)
 BY ONLY <1>1, <1>2, RunIsPart, ZenonT(40)
<1>4. RunPart("planes", 48, n.planes) \in Parts(N)
 BY ONLY <1>1, <1>2, RunIsPart, ZenonT(40)
<1>5. RunPart("positions", 24, n.mesh.positions) \in Parts(N)
 BY ONLY <1>1, <1>2, RunIsPart, ZenonT(40)
<1>6. RunPart("indices", 4, n.mesh.indices) \in Parts(N)
 BY ONLY <1>1, <1>2, RunIsPart, ZenonT(40)
<1>7. Within(n.unions, N) /\ Within(n.children, N)
 BY DEF EdgesWithin
<1>8. RunPart("unions", 4, n.unions) \in Parts(N)
 BY ONLY <1>1, <1>2, <1>7, RunIsPart
<1>9. RunPart("children", 4, n.children) \in Parts(N)
 BY ONLY <1>1, <1>2, <1>7, RunIsPart
<1>10. LoopsPart("loops", n.extrusion) \in Parts(N) /\ SweepsPart(n.sweep) \in Parts(N)
 BY ONLY <1>1, <1>2, LoopsArePart, SweepsArePart
<1>11. PICK a \in Parts(N), b \in Parts(N), c \in Parts(N), d \in Parts(N),
            e \in Parts(N), f \in Parts(N), g \in Parts(N), h \in Parts(N) :
          /\ a = RunPart("boxes", 48, n.boxes) /\ b = RunPart("planes", 48, n.planes)
          /\ c = RunPart("positions", 24, n.mesh.positions)
          /\ d = RunPart("indices", 4, n.mesh.indices)
          /\ e = LoopsPart("loops", n.extrusion) /\ f = SweepsPart(n.sweep)
          /\ g = RunPart("unions", 4, n.unions) /\ h = RunPart("children", 4, n.children)
 BY ONLY <1>3, <1>4, <1>5, <1>6, <1>8, <1>9, <1>10
<1>12. NodeParts(n) = <<a, b, c, d, e, f, g, h>>
 BY ONLY <1>11 DEF NodeParts
<1>13. <<a, b, c, d, e, f, g, h>> \in Seq(Parts(N))
 OBVIOUS
<1>14. /\ a \in PartRecords /\ b \in PartRecords /\ c \in PartRecords /\ d \in PartRecords
       /\ e \in PartRecords /\ f \in PartRecords /\ g \in PartRecords /\ h \in PartRecords
 BY PartKinds
<1>15. EightDues(a, b, c, d, e, f, g, h)
 BY ONLY <1>14, DuesOfEight
<1>16. /\ Due1(a) = Item("boxes", Len(n.boxes)) /\ Due1(b) = Item("planes", Len(n.planes))
       /\ Due1(c) = Item("positions", Len(n.mesh.positions))
       /\ Due1(d) = Item("indices", Len(n.mesh.indices))
       /\ Due1(e) = Item("loops", Len(n.extrusion)) /\ Due1(f) = Item("sweeps", Len(n.sweep))
       /\ Due1(g) = Item("unions", Len(n.unions)) /\ Due1(h) = Item("children", Len(n.children))
 BY ONLY <1>11 DEF RunPart, LoopsPart, SweepsPart, Due1
<1> QED BY ONLY <1>12, <1>13, <1>15, <1>16 DEF NodeDues, EightDues

\* The header of a node as it is read.
HeaderRead(n, off, msg) ==
  /\ msg[off + 1][2] = n.object /\ msg[off + 2][2] = n.base /\ msg[off + 3][2] = Len(n.boxes)
  /\ msg[off + 4][2] = Len(n.planes) /\ msg[off + 5][2] = 3 * Len(n.mesh.positions)
  /\ msg[off + 6][2] = Len(n.mesh.indices) /\ msg[off + 7][2] = Len(n.children)
  /\ msg[off + 8][2] = Len(n.extrusion) /\ msg[off + 9][2] = n.vector
  /\ msg[off + 10][2] = Len(n.sweep) /\ msg[off + 11][2] = (IF n.circular THEN 1 ELSE 0)
  /\ msg[off + 12][2] = Len(n.unions) /\ msg[off + 13][2] = 0

LEMMA HeaderIsRead ==
  ASSUME NEW n, NEW off, NEW msg, \A k \in 1 .. 13 : msg[off + k] = NodeHeader(n)[k]
  PROVE  HeaderRead(n, off, msg)
<1>1. PICK h : h = NodeHeader(n)
 OBVIOUS
<1>2. /\ h[1] = Number(n.object) /\ h[2] = Box(n.base) /\ h[3] = Word(Len(n.boxes))
      /\ h[4] = Word(Len(n.planes)) /\ h[5] = Word(3 * Len(n.mesh.positions))
      /\ h[6] = Word(Len(n.mesh.indices)) /\ h[7] = Word(Len(n.children))
      /\ h[8] = Word(Len(n.extrusion)) /\ h[9] = Point(n.vector) /\ h[10] = Word(Len(n.sweep))
      /\ h[11] = Word(IF n.circular THEN 1 ELSE 0) /\ h[12] = Word(Len(n.unions)) /\ h[13] = Word(0)
 BY <1>1 DEF NodeHeader
<1>3. /\ msg[off + 1] = h[1] /\ msg[off + 2] = h[2] /\ msg[off + 3] = h[3] /\ msg[off + 4] = h[4]
      /\ msg[off + 5] = h[5] /\ msg[off + 6] = h[6] /\ msg[off + 7] = h[7] /\ msg[off + 8] = h[8]
      /\ msg[off + 9] = h[9] /\ msg[off + 10] = h[10] /\ msg[off + 11] = h[11]
      /\ msg[off + 12] = h[12] /\ msg[off + 13] = h[13]
 BY <1>1
<1> QED BY ONLY <1>2, <1>3 DEF HeaderRead, Number, Box, Word, Point
LEMMA DuesJoin ==
  ASSUME NEW A \in Seq(PartRecords), NEW p \in PartRecords
  PROVE  Dues(A \o <<p>>) = Dues(A) \o <<Due1(p)>>
<1>1. <<p>> \in Seq(PartRecords)
 OBVIOUS
<1>2. Dues(A \o <<p>>) = Dues(A) \o Dues(<<p>>)
 <2>1. PICK B \in Seq(PartRecords) : B = <<p>>
  BY <1>1
 <2>2. Image(DueOf, A \o B) = Image(DueOf, A) \o Image(DueOf, B)
  BY ONLY A \in Seq(PartRecords), B \in Seq(PartRecords), DueMaps, ImageOfBoth
 <2> QED BY ONLY <2>1, <2>2 DEF Dues
<1>3. Dues(<<p>>) = <<Due1(p)>>
 BY DEF Dues, Image, DueOf, Due1
<1> QED BY ONLY <1>2, <1>3

\* A sequence and one more, element by element.
LEMMA OneMore ==
  ASSUME NEW T, NEW u \in Seq(T), NEW x \in T, NEW z \in Seq(T), Len(z) = Len(u) + 1,
         \A k \in 1 .. Len(u) : u[k] = z[k], z[Len(u) + 1] = x
  PROVE  u \o <<x>> = z
<1>1. PICK w \in Seq(T) : w = u \o <<x>>
 OBVIOUS
<1>2. Len(w) = Len(u) + 1 /\ w[Len(u) + 1] = x
 BY <1>1
<1>3. \A k \in 1 .. Len(u) : w[k] = u[k]
 BY <1>1
<1>4. \A k \in 1 .. Len(z) : w[k] = z[k]
 BY <1>2, <1>3
<1>5. Len(w) = Len(z)
 BY <1>2
<1>6. w \in Seq(T) /\ z \in Seq(T)
 OBVIOUS
<1> QED BY ONLY <1>1, <1>4, <1>5, <1>6, SeqEqual

Nine(a, b, c, d, e, f, g, h, i) ==
  <<a, b, c, d, e, f, g, h>> \o <<i>> = <<a, b, c, d, e, f, g, h, i>>

LEMMA EightAndOne ==
  ASSUME NEW a, NEW b, NEW c, NEW d, NEW e, NEW f, NEW g, NEW h, NEW i
  PROVE  Nine(a, b, c, d, e, f, g, h, i)
<1>1. PICK T : T = {a, b, c, d, e, f, g, h, i}
 OBVIOUS
<1>2. PICK u, z : u = <<a, b, c, d, e, f, g, h>> /\ z = <<a, b, c, d, e, f, g, h, i>>
 OBVIOUS
<1>3. u \in Seq(T) /\ z \in Seq(T)
 BY <1>1, <1>2
<1>4. Len(u) = 8 /\ Len(z) = 9 /\ \A k \in 1 .. 8 : u[k] = z[k]
 BY <1>2
<1>5. u \o <<i>> = z
 <2>1. i \in T /\ z[9] = i
  BY <1>1, <1>2
 <2>2. Len(u) = 8 /\ Len(z) = Len(u) + 1 /\ z[Len(u) + 1] = i /\ \A k \in 1 .. Len(u) : u[k] = z[k]
  BY ONLY <1>4, <2>1
 <2> QED BY ONLY <1>3, <2>1, <2>2, OneMore
<1> QED BY ONLY <1>2, <1>5 DEF Nine

LEMMA NodeIsRead ==
  ASSUME NEW r, Midway(r, message, offset, agenda, got, counted), ReadNode
  PROVE  Midway(r, message, offset', agenda', got', counted') /\ Kept
<1>1. /\ Due("nodes") /\ Count > 0
      /\ IF 120 * Count > Left \/ Read(11) > 1 \/ Read(13) # 0
         THEN Refuse
         ELSE IF counted.loops + Read(8) + Read(10) > MaximumLoops
         THEN Refuse
         ELSE /\ counted' = [counted EXCEPT !.loops = @ + Read(8) + Read(10)]
              /\ Consume(NodeCells,
                         <<<<"object", Read(1)>>, <<"base", Read(2)>>, <<"vector", Read(9)>>,
                           <<"circular", Read(11) = 1>>>>,
                         <<Item("boxes", Read(3)), Item("planes", Read(4)),
                           Item("positions", Read(5) \div 3), Item("indices", Read(6)),
                           Item("loops", Read(8)), Item("sweeps", Read(10)),
                           Item("unions", Read(12)), Item("children", Read(7)), Rest("nodes")>>)
 BY DEF ReadNode
<1>2. agenda # <<>> /\ agenda[1].what = "nodes"
 BY <1>1 DEF Due
<1>3. PICK todo, done :
         /\ OnTheWay(r, todo, done, message, offset, agenda, got, counted) /\ todo # <<>>
         /\ NextSeen(r, todo, message, offset, agenda)
         /\ agenda[1].what = todo[1].what /\ agenda[1].count = todo[1].count
         /\ Left >= Bytes(todo[1].cells) /\ Left \in Int
 BY ONLY <1>2, FirstPart, Midway(r, message, offset, agenda, got, counted)
<1>4. PICK p \in Parts(Len(r.nodes)) : p = todo[1]
 BY <1>3 DEF NextSeen
<1>5. /\ p.what = "nodes" /\ p.count = Count /\ IsNodes(p, Len(r.nodes)) /\ Bytes(p.cells) >= 120 * Count
      /\ Left >= Bytes(p.cells) /\ Bytes(p.cells) \in Nat /\ Count \in Nat /\ Left \in Int
 BY <1>2, <1>3, <1>4, PartKinds, PartBytes DEF Count
<1>6. PICK v \in Seq(NodeRecords) :
         p = NodesPart(v) /\ \A k \in 1 .. Len(v) : EdgesWithin(v[k], Len(r.nodes))
 BY ONLY <1>5 DEF IsNodes
<1>7. Len(v) = Count /\ v # <<>>
 BY <1>1, <1>5, <1>6 DEF NodesPart
<1>9. PICK m \in NodeRecords, t \in Seq(NodeRecords) : m = v[1] /\ t = Tail(v)
 <2>1. v \in Seq(NodeRecords) /\ v # <<>>
  BY <1>7
 <2>2. v[1] \in NodeRecords /\ Tail(v) \in Seq(NodeRecords)
  BY ONLY <2>1
 <2> QED BY ONLY <2>2
<1>10. /\ Opens(p, NodeHeader(m), NodeOpening(m), NodeParts(m) \o <<NodesPart(t)>>, LoopsOf(m), 0, 0)
       /\ Len(v) = Len(t) + 1
 BY ONLY <1>6, <1>7, <1>9, v \in Seq(NodeRecords), NodesOpen
<1>11. EdgesWithin(m, Len(r.nodes)) /\ \A k \in 1 .. Len(t) : EdgesWithin(t[k], Len(r.nodes))
 <2>1. 1 \in 1 .. Len(v) /\ \A k \in 1 .. Len(t) : k + 1 \in 1 .. Len(v) /\ t[k] = v[k + 1]
  <3>1. v \in Seq(NodeRecords) /\ v # <<>> /\ t = Tail(v)
   BY <1>7, <1>9
  <3> QED BY ONLY <3>1
 <2> QED BY ONLY <1>6, <1>9, <2>1
<1>12. PICK b \in Parts(Len(r.nodes)) : b = NodesPart(t)
 BY ONLY <1>11, t \in Seq(NodeRecords), NodesArePart
<1>13. PICK A \in Seq(Parts(Len(r.nodes))) : A = NodeParts(m) /\ Dues(A) = NodeDues(m)
 BY ONLY <1>11, m \in NodeRecords, NodeIsAnnounced
<1>14. PICK h, s, n : h = NodeHeader(m) /\ s = NodeOpening(m) /\ n = A \o <<b>>
 OBVIOUS
<1>15. LoopsOf(m) \in Nat /\ LoopsOf(m) = Len(m.extrusion) + Len(m.sweep)
       /\ Len(m.extrusion) \in Nat /\ Len(m.sweep) \in Nat
 <2>1. m.extrusion \in Seq(Loops) /\ m.sweep \in Seq(Seq(Loops))
  BY NodeFields
 <2>2. LoopsOf(m) \in Nat
  BY NodePartsFacts
 <2>3. Len(m.extrusion) \in Nat /\ Len(m.sweep) \in Nat
  BY ONLY <2>1
 <2> QED BY ONLY <2>2, <2>3 DEF LoopsOf
<1>16. Progressed(r, message, offset, agenda, got, counted, h, s, n, LoopsOf(m), 0, 0)
 <2>1. 0 \in Nat
  OBVIOUS
 <2>2. n \in Seq(Parts(Len(r.nodes)))
  <3>1. <<b>> \in Seq(Parts(Len(r.nodes))) /\ A \in Seq(Parts(Len(r.nodes)))
   OBVIOUS
  <3> QED BY ONLY <3>1, <1>14, ConcatProperties
 <2>3. OnTheWay(r, todo, done, message, offset, agenda, got, counted) /\ todo # <<>>
  BY <1>3
 <2>4. Opens(todo[1], h, s, n, LoopsOf(m), 0, 0)
  BY ONLY <1>4, <1>10, <1>12, <1>13, <1>14
 <2> QED BY ONLY <1>15, <2>1, <2>2, <2>3, <2>4, Progress
<1>17. /\ Midway(r, message, offset + Len(h), Dues(n) \o Tail(agenda), got \o s,
                 [loops |-> counted.loops + LoopsOf(m), sections |-> counted.sections + 0,
                  coordinates |-> counted.coordinates + 0])
       /\ counted.loops + LoopsOf(m) <= MaximumLoops
       /\ \A k \in 1 .. Len(h) : message[offset + k] = h[k]
 BY ONLY <1>16 DEF Progressed
<1>18. Len(h) = 13
 BY <1>14, NodeHeaderFacts
<1>19. HeaderRead(m, offset, message)
 <2>1. \A k \in 1 .. 13 : message[offset + k] = NodeHeader(m)[k]
  BY ONLY <1>14, <1>17, <1>18
 <2> QED BY ONLY <2>1, HeaderIsRead
<1>20. /\ Read(1) = m.object /\ Read(2) = m.base /\ Read(3) = Len(m.boxes) /\ Read(4) = Len(m.planes)
       /\ Read(5) = 3 * Len(m.mesh.positions) /\ Read(6) = Len(m.mesh.indices)
       /\ Read(7) = Len(m.children) /\ Read(8) = Len(m.extrusion) /\ Read(9) = m.vector
       /\ Read(10) = Len(m.sweep) /\ Read(11) = (IF m.circular THEN 1 ELSE 0)
       /\ Read(12) = Len(m.unions) /\ Read(13) = 0
 BY ONLY <1>19 DEF HeaderRead, Read
<1>21. counted \in Counts
 BY <1>3 DEF OnTheWay
<1>22. ~(120 * Count > Left) /\ ~(Read(11) > 1) /\ Read(13) = 0
 <2>1. PICK e \in Nat, z \in Nat, i \in Int : e = Bytes(p.cells) /\ z = Count /\ i = Left
  BY <1>5
 <2>2. ~(120 * Count > Left)
  BY ONLY <1>5, <2>1
 <2> QED BY ONLY <1>20, <2>2
<1>23. ~(counted.loops + Read(8) + Read(10) > MaximumLoops)
       /\ counted.loops + Read(8) + Read(10) = counted.loops + LoopsOf(m)
 <2>1. PICK c \in Nat, x \in Nat, y \in Nat, z \in Nat :
          c = counted.loops /\ z = MaximumLoops /\ x = Len(m.extrusion) /\ y = Len(m.sweep)
  BY <1>15, <1>21, LimitsAreNumbers DEF Counts
 <2>2. c + (x + y) <= z
  BY ONLY <1>15, <1>17, <2>1
 <2>3. Read(8) = x /\ Read(10) = y /\ counted.loops + LoopsOf(m) = c + (x + y)
  BY ONLY <1>15, <1>20, <2>1
 <2>4. c + x + y = c + (x + y) /\ ~(c + x + y > z)
  BY ONLY <2>2
 <2> QED BY ONLY <2>1, <2>3, <2>4
<1>24. /\ counted' = [counted EXCEPT !.loops = @ + Read(8) + Read(10)]
       /\ Consume(NodeCells,
                  <<<<"object", Read(1)>>, <<"base", Read(2)>>, <<"vector", Read(9)>>,
                    <<"circular", Read(11) = 1>>>>,
                  <<Item("boxes", Read(3)), Item("planes", Read(4)),
                    Item("positions", Read(5) \div 3), Item("indices", Read(6)),
                    Item("loops", Read(8)), Item("sweeps", Read(10)),
                    Item("unions", Read(12)), Item("children", Read(7)), Rest("nodes")>>)
 BY ONLY <1>1, <1>22, <1>23
<1>25. Dues(n) = <<Item("boxes", Read(3)), Item("planes", Read(4)),
                   Item("positions", Read(5) \div 3), Item("indices", Read(6)),
                   Item("loops", Read(8)), Item("sweeps", Read(10)),
                   Item("unions", Read(12)), Item("children", Read(7)), Rest("nodes")>>
 <2>1. A \in Seq(PartRecords) /\ b \in PartRecords
  BY PartsAreRecords, PartKinds
 <2>2. Dues(n) = NodeDues(m) \o <<Due1(b)>>
  BY ONLY <1>13, <1>14, <2>1, DuesJoin
 <2>3. Due1(b) = Item("nodes", Len(t))
  BY ONLY <1>12 DEF NodesPart, Due1
 <2>4. Len(m.mesh.positions) = (3 * Len(m.mesh.positions)) \div 3 /\ Len(t) = Len(v) - 1
  <3>0. m.mesh.positions \in Seq(Int) /\ t \in Seq(NodeRecords) /\ v \in Seq(NodeRecords)
   BY NodeFields, MeshFacts
  <3>1. PICK e \in Nat, f \in Nat, g \in Nat : e = Len(m.mesh.positions) /\ f = Len(t) /\ g = Len(v)
   BY ONLY <3>0
  <3>2. e = (3 * e) \div 3
   OBVIOUS
  <3>3. f = g - 1
   BY ONLY <1>10, <3>1
  <3> QED BY ONLY <3>1, <3>2, <3>3
 <2>5. Due1(b) = Rest("nodes")
  BY ONLY <1>7, <2>3, <2>4 DEF Rest
 <2>6. NodeDues(m) =
          <<Item("boxes", Read(3)), Item("planes", Read(4)),
            Item("positions", Read(5) \div 3), Item("indices", Read(6)),
            Item("loops", Read(8)), Item("sweeps", Read(10)),
            Item("unions", Read(12)), Item("children", Read(7))>>
  BY ONLY <1>20, <2>4 DEF NodeDues
 <2>7. Nine(Item("boxes", Read(3)), Item("planes", Read(4)), Item("positions", Read(5) \div 3),
            Item("indices", Read(6)), Item("loops", Read(8)), Item("sweeps", Read(10)),
            Item("unions", Read(12)), Item("children", Read(7)), Rest("nodes"))
  BY ONLY EightAndOne
 <2> QED BY ONLY <2>2, <2>5, <2>6, <2>7 DEF Nine
<1>26. counted' = [loops |-> counted.loops + LoopsOf(m), sections |-> counted.sections + 0,
                   coordinates |-> counted.coordinates + 0]
 <2>1. PICK f \in Nat, g \in Nat, j \in Nat :
          counted = [loops |-> f, sections |-> g, coordinates |-> j]
  BY ONLY <1>21 DEF Counts
 <2>2. counted.loops = f /\ counted.sections = g /\ counted.coordinates = j
  BY ONLY <2>1
 <2>3. PICK x : x = counted.loops + Read(8) + Read(10)
  OBVIOUS
 <2>4. [counted EXCEPT !.loops = x] = [loops |-> x, sections |-> g, coordinates |-> j]
  BY ONLY <2>1
 <2>5. g + 0 = g /\ j + 0 = j
  OBVIOUS
 <2>6. counted' = [counted EXCEPT !.loops = x]
  BY ONLY <1>24, <2>3
 <2> QED BY ONLY <1>23, <2>2, <2>3, <2>4, <2>5, <2>6
<1>27. s = <<<<"object", Read(1)>>, <<"base", Read(2)>>, <<"vector", Read(9)>>,
             <<"circular", Read(11) = 1>>>>
 <2>1. (Read(11) = 1) = m.circular
  <3>1. m.circular \in BOOLEAN
   BY DEF NodeRecords
  <3>2. CASE m.circular = TRUE
   <4>1. Read(11) = 1
    BY ONLY <1>20, <3>2
   <4> QED BY ONLY <3>2, <4>1
  <3>3. CASE m.circular = FALSE
   <4>1. Read(11) = 0
    BY ONLY <1>20, <3>3
   <4>2. ~(Read(11) = 1)
    BY ONLY <4>1
   <4> QED BY ONLY <3>3, <4>2
  <3> QED BY ONLY <3>1, <3>2, <3>3
 <2>2. PICK z : z = m.circular /\ z = (Read(11) = 1)
  BY <2>1
 <2>3. s = <<<<"object", Read(1)>>, <<"base", Read(2)>>, <<"vector", Read(9)>>, <<"circular", z>>>>
  BY ONLY <1>14, <1>20, <2>2 DEF NodeOpening
 <2> QED BY ONLY <2>2, <2>3
<1>28. NodeCells = Len(h)
 BY ONLY <1>18 DEF NodeCells
<1> QED BY ONLY <1>17, <1>24, <1>25, <1>26, <1>27, <1>28 DEF Consume, Kept
(* A request before anything of it is read.                                        *)

RequestDues(r) ==
  <<Item("boxes", Len(r.boxes)), Item("planes", Len(r.planes)),
    Item("positions", Len(r.mesh.positions)), Item("indices", Len(r.mesh.indices)),
    Item("cutters", Len(r.cutters)), Item("nodes", Len(r.nodes))>>

SixDues(a, b, c, d, e, f) ==
  Dues(<<a, b, c, d, e, f>>) = <<Due1(a), Due1(b), Due1(c), Due1(d), Due1(e), Due1(f)>>

LEMMA DuesOfSix ==
  ASSUME NEW a \in PartRecords, NEW b \in PartRecords, NEW c \in PartRecords, NEW d \in PartRecords,
         NEW e \in PartRecords, NEW f \in PartRecords
  PROVE  SixDues(a, b, c, d, e, f)
<1>1. \A p \in PartRecords : DueOf[p] = Due1(p)
 BY DEF DueOf, Due1
<1>2. Dues(<<a, b, c, d, e, f>>) = <<DueOf[a], DueOf[b], DueOf[c], DueOf[d], DueOf[e], DueOf[f]>>
 BY DEF Dues, Image
<1> QED BY ONLY <1>1, <1>2, a \in PartRecords, b \in PartRecords, c \in PartRecords,
        d \in PartRecords, e \in PartRecords, f \in PartRecords DEF SixDues

\* The edges of what may be encoded lead to nodes.
LEMMA EdgesLead ==
  ASSUME NEW r \in WantedRequests, Encodable(r)
  PROVE  \A k \in 1 .. Len(r.nodes) : EdgesWithin(r.nodes[k], Len(r.nodes))
<1>1. TAKE k \in 1 .. Len(r.nodes)
<1>2. r.nodes \in Seq(NodeRecords)
 BY RequestFields
<1>3. r.nodes[k] \in NodeRecords /\ k \in DOMAIN r.nodes
 BY ONLY <1>2, k \in 1 .. Len(r.nodes)
<1>4. PICK n \in NodeRecords : n = r.nodes[k]
 BY <1>3
<1>5. NodeFits(n, Len(r.nodes))
 BY ONLY <1>3, <1>4, Encodable(r) DEF Encodable
<1>6. n.unions \in Seq(Nat) /\ n.children \in Seq(Nat)
 BY NodeFields
<1>7. DOMAIN n.unions = 1 .. Len(n.unions) /\ DOMAIN n.children = 1 .. Len(n.children)
 BY ONLY <1>6
<1> QED BY ONLY <1>4, <1>5, <1>6, <1>7 DEF NodeFits, EdgesWithin, Within

RequestOpens(r) ==
  /\ RequestParts(r) \in Seq(Parts(Len(r.nodes))) /\ Dues(RequestParts(r)) = RequestDues(r)
  /\ EncodeRequest(r) = RequestHeader(r) \o TodoCells(RequestParts(r))
  /\ TodoLoops(RequestParts(r)) <= MaximumLoops
  /\ TodoSections(RequestParts(r)) <= MaximumSections
  /\ TodoCoordinates(RequestParts(r)) <= MaximumCoordinates

LEMMA RequestBegins ==
  ASSUME NEW r \in WantedRequests, Encodable(r)
  PROVE  RequestOpens(r)
<1>1. /\ r.boxes \in Seq(Extents) /\ r.planes \in Seq(Extents) /\ r.mesh \in TriangleMeshes
      /\ r.cutters \in Seq(TriangleMeshes) /\ r.nodes \in Seq(NodeRecords)
 BY RequestFields
<1>2. r.mesh.positions \in Seq(Int) /\ r.mesh.indices \in Seq(Nat)
 BY <1>1, MeshFacts
<1>3. /\ "boxes" \in RunNames /\ CellWidth("boxes") = 48 /\ "boxes" \notin {"unions", "children"}
      /\ "planes" \in RunNames /\ CellWidth("planes") = 48 /\ "planes" \notin {"unions", "children"}
      /\ "positions" \in RunNames /\ CellWidth("positions") = 24
      /\ "positions" \notin {"unions", "children"}
      /\ "indices" \in RunNames /\ CellWidth("indices") = 4 /\ "indices" \notin {"unions", "children"}
 BY DEF RunNames, CellWidth
<1>4. PICK N : N = Len(r.nodes)
 OBVIOUS
<1>5. RunPart("boxes", 48, r.boxes) \in Parts(N)
 BY ONLY <1>1, <1>3, RunIsPart
<1>6. RunPart("planes", 48, r.planes) \in Parts(N)
 BY ONLY <1>1, <1>3, RunIsPart
<1>7. RunPart("positions", 24, r.mesh.positions) \in Parts(N)
 BY ONLY <1>2, <1>3, RunIsPart
<1>8. RunPart("indices", 4, r.mesh.indices) \in Parts(N)
 BY ONLY <1>2, <1>3, RunIsPart
<1>9. CuttersPart(r.cutters) \in Parts(N)
 BY ONLY <1>1, CuttersArePart
<1>10. NodesPart(r.nodes) \in Parts(N)
 <2>1. \A k \in 1 .. Len(r.nodes) : EdgesWithin(r.nodes[k], N)
  BY ONLY <1>4, r \in WantedRequests, Encodable(r), EdgesLead
 <2> QED BY ONLY <1>1, <2>1, NodesArePart
<1>11. PICK a \in Parts(N), b \in Parts(N), c \in Parts(N), d \in Parts(N), e \in Parts(N),
            f \in Parts(N) :
          /\ a = RunPart("boxes", 48, r.boxes) /\ b = RunPart("planes", 48, r.planes)
          /\ c = RunPart("positions", 24, r.mesh.positions)
          /\ d = RunPart("indices", 4, r.mesh.indices)
          /\ e = CuttersPart(r.cutters) /\ f = NodesPart(r.nodes)
 BY ONLY <1>5, <1>6, <1>7, <1>8, <1>9, <1>10
<1>12. RequestParts(r) = <<a, b, c, d, e, f>>
 BY ONLY <1>11 DEF RequestParts
<1>13. <<a, b, c, d, e, f>> \in Seq(Parts(N))
 OBVIOUS
<1>14. /\ a \in PartRecords /\ b \in PartRecords /\ c \in PartRecords /\ d \in PartRecords
       /\ e \in PartRecords /\ f \in PartRecords
 BY PartKinds
<1>15. SixDues(a, b, c, d, e, f)
 BY ONLY <1>14, DuesOfSix
<1>16. SixParts(a, b, c, d, e, f)
 BY ONLY <1>14, TodoOfSix
<1>17. /\ Due1(a) = Item("boxes", Len(r.boxes)) /\ Due1(b) = Item("planes", Len(r.planes))
       /\ Due1(c) = Item("positions", Len(r.mesh.positions))
       /\ Due1(d) = Item("indices", Len(r.mesh.indices))
       /\ Due1(e) = Item("cutters", Len(r.cutters)) /\ Due1(f) = Item("nodes", Len(r.nodes))
 BY ONLY <1>11 DEF RunPart, CuttersPart, NodesPart, Due1
<1>18. Dues(RequestParts(r)) = RequestDues(r)
 BY ONLY <1>12, <1>15, <1>17 DEF RequestDues, SixDues
<1>19. /\ a.cells = Run(48, r.boxes) /\ b.cells = Run(48, r.planes)
       /\ c.cells = Run(24, r.mesh.positions) /\ d.cells = Run(4, r.mesh.indices)
       /\ e.cells = FlattenSeq(Image(CutterMap, r.cutters))
       /\ f.cells = FlattenSeq(Image(NodeMap, r.nodes))
 BY ONLY <1>11 DEF RunPart, CuttersPart, NodesPart
<1>20. EncodeRequest(r) = RequestHeader(r) \o TodoCells(RequestParts(r))
 <2>1. EncodeRequest(r) =
                RequestHeader(r) \o
                (Run(48, r.boxes) \o
                 (Run(48, r.planes) \o
                  (Run(24, r.mesh.positions) \o
                   (Run(4, r.mesh.indices) \o
                    (FlattenSeq(Each(CutterCells, r.cutters)) \o
                     FlattenSeq(Each(EncodeNode, r.nodes)))))))
  BY ONLY r \in WantedRequests, RequestFacts
 <2>2. Each(CutterCells, r.cutters) = Image(CutterMap, r.cutters)
  BY <1>1, CuttersFacts
 <2>3. Each(EncodeNode, r.nodes) = Image(NodeMap, r.nodes)
  BY <1>1, NodesFacts
 <2>4. TodoCells(RequestParts(r))
          = a.cells \o (b.cells \o (c.cells \o (d.cells \o (e.cells \o f.cells))))
  BY ONLY <1>12, <1>16 DEF SixParts
 <2> QED BY ONLY <1>19, <2>1, <2>2, <2>3, <2>4
<1>21. /\ f.loops = Sum(Each(LoopsOf, r.nodes)) /\ f.sections = Sum(Each(SectionsOf, r.nodes))
       /\ f.coordinates = Sum(Each(CoordinatesOf, r.nodes))
 <2>1. /\ f.loops = Sum(Image(NodeLoops, r.nodes)) /\ f.sections = Sum(Image(NodeSections, r.nodes))
       /\ f.coordinates = Sum(Image(NodeCoordinates, r.nodes))
  BY ONLY <1>11 DEF NodesPart
 <2>2. /\ Sum(Each(LoopsOf, r.nodes)) = Sum(Image(NodeLoops, r.nodes))
       /\ Sum(Each(SectionsOf, r.nodes)) = Sum(Image(NodeSections, r.nodes))
       /\ Sum(Each(CoordinatesOf, r.nodes)) = Sum(Image(NodeCoordinates, r.nodes))
  BY <1>1, NodesSaid
 <2> QED BY ONLY <2>1, <2>2
<1>22. /\ a.loops = 0 /\ b.loops = 0 /\ c.loops = 0 /\ d.loops = 0 /\ e.loops = 0
       /\ a.sections = 0 /\ b.sections = 0 /\ c.sections = 0 /\ d.sections = 0 /\ e.sections = 0
       /\ a.coordinates = 0 /\ b.coordinates = 0 /\ c.coordinates = 0 /\ d.coordinates = 0
       /\ e.coordinates = 0
 BY ONLY <1>11 DEF RunPart, CuttersPart
<1>23. /\ Sum(Each(LoopsOf, r.nodes)) <= MaximumLoops
       /\ Sum(Each(SectionsOf, r.nodes)) <= MaximumSections
       /\ Sum(Each(CoordinatesOf, r.nodes)) <= MaximumCoordinates
 BY DEF Encodable, RecipesFit
<1>24. f.loops \in Nat /\ f.sections \in Nat /\ f.coordinates \in Nat
 BY ONLY <1>14 DEF PartRecords
<1>25. /\ TodoLoops(RequestParts(r)) = f.loops /\ TodoSections(RequestParts(r)) = f.sections
       /\ TodoCoordinates(RequestParts(r)) = f.coordinates
 <2>1. /\ TodoLoops(RequestParts(r)) = a.loops + (b.loops + (c.loops + (d.loops + (e.loops + f.loops))))
       /\ TodoSections(RequestParts(r))
             = a.sections + (b.sections + (c.sections + (d.sections + (e.sections + f.sections))))
       /\ TodoCoordinates(RequestParts(r))
             = a.coordinates + (b.coordinates + (c.coordinates + (d.coordinates +
                (e.coordinates + f.coordinates))))
  BY ONLY <1>12, <1>16 DEF SixParts
 <2>2. \A x \in Nat : 0 + (0 + (0 + (0 + (0 + x)))) = x
  OBVIOUS
 <2> QED BY ONLY <1>22, <1>24, <2>1, <2>2
<1> QED BY ONLY <1>4, <1>12, <1>13, <1>18, <1>20, <1>21, <1>23, <1>25 DEF RequestOpens
RequestRead(r, msg) ==
  /\ msg[1][2] = "request" /\ msg[2][2] = Version /\ msg[3][2] = r.object /\ msg[4][2] = r.base
  /\ msg[7][2] = Len(r.boxes) /\ msg[8][2] = Len(r.planes)
  /\ msg[9][2] = 3 * Len(r.mesh.positions) /\ msg[10][2] = Len(r.mesh.indices)
  /\ msg[11][2] = Len(r.cutters) /\ msg[12][2] = Len(r.nodes) /\ msg[13][2] = RequestSize(r)

LEMMA RequestHeaderRead ==
  ASSUME NEW r, NEW msg, \A k \in 1 .. 13 : msg[k] = RequestHeader(r)[k]
  PROVE  RequestRead(r, msg)
<1>1. PICK h : h = RequestHeader(r)
 OBVIOUS
<1>2. /\ h[1] = Word("request") /\ h[2] = Word(Version) /\ h[3] = Number(r.object)
      /\ h[4] = Box(r.base) /\ h[7] = Word(Len(r.boxes)) /\ h[8] = Word(Len(r.planes))
      /\ h[9] = Word(3 * Len(r.mesh.positions)) /\ h[10] = Word(Len(r.mesh.indices))
      /\ h[11] = Word(Len(r.cutters)) /\ h[12] = Word(Len(r.nodes)) /\ h[13] = Number(RequestSize(r))
 BY <1>1 DEF RequestHeader
<1>3. /\ msg[1] = h[1] /\ msg[2] = h[2] /\ msg[3] = h[3] /\ msg[4] = h[4] /\ msg[7] = h[7]
      /\ msg[8] = h[8] /\ msg[9] = h[9] /\ msg[10] = h[10] /\ msg[11] = h[11] /\ msg[12] = h[12]
      /\ msg[13] = h[13]
 BY <1>1
<1> QED BY ONLY <1>2, <1>3 DEF RequestRead, Number, Box, Word

LEMMA BeginningIsRead ==
  ASSUME NEW r \in WantedRequests, Encodable(r), message = EncodeRequest(r), offset = 0,
         counted = [loops |-> 0, sections |-> 0, coordinates |-> 0], ReadHeader
  PROVE  Midway(r, message, offset', agenda', got', counted') /\ Kept
<1>1. RequestOpens(r)
 BY ONLY r \in WantedRequests, Encodable(r), RequestBegins
<1>2. PICK A \in Seq(PartRecords) : A = RequestParts(r)
 BY ONLY <1>1, PartsAreRecords DEF RequestOpens
<1>3. PICK h \in Seq(CellSet), b \in Seq(CellSet) :
         h = RequestHeader(r) /\ b = TodoCells(A) /\ Len(h) = 13
 BY RequestHeaderFacts, TodoType
<1>4. message = h \o b
 BY ONLY <1>1, <1>2, <1>3, message = EncodeRequest(r) DEF RequestOpens
<1>5. \A k \in 1 .. 13 : message[k] = RequestHeader(r)[k]
 <2>1. \A k \in 1 .. Len(h) : (h \o b)[k] = h[k]
  BY ONLY h \in Seq(CellSet), b \in Seq(CellSet)
 <2> QED BY ONLY <1>3, <1>4, <2>1
<1>6. RequestRead(r, message)
 BY ONLY <1>5, RequestHeaderRead
<1>7. /\ Read(1) = "request" /\ Read(2) = Version /\ Read(3) = r.object /\ Read(4) = r.base
      /\ Read(7) = Len(r.boxes) /\ Read(8) = Len(r.planes)
      /\ Read(9) = 3 * Len(r.mesh.positions) /\ Read(10) = Len(r.mesh.indices)
      /\ Read(11) = Len(r.cutters) /\ Read(12) = Len(r.nodes) /\ Read(13) = RequestSize(r)
 <2>1. \A k \in Nat : offset + k = k
  BY ONLY offset = 0
 <2>2. /\ offset + 1 = 1 /\ offset + 2 = 2 /\ offset + 3 = 3 /\ offset + 4 = 4 /\ offset + 7 = 7
       /\ offset + 8 = 8 /\ offset + 9 = 9 /\ offset + 10 = 10 /\ offset + 11 = 11
       /\ offset + 12 = 12 /\ offset + 13 = 13
  BY ONLY <2>1
 <2> QED BY ONLY <1>6, <2>2 DEF RequestRead, Read
<1>8. Bytes(message) = RequestSize(r) /\ RequestSize(r) \in Nat
 BY RequestFacts, RequestSizes
<1>9. RequestSize(r) <= MaximumBytes /\ Len(r.nodes) <= MaximumNodes
 BY DEF Encodable
<1>10. Len(r.nodes) \in Nat
 <2>1. r.nodes \in Seq(NodeRecords)
  BY RequestFields
 <2> QED BY ONLY <2>1
<1>11. ~(\/ Read(1) # "request" \/ Read(2) # Version
         \/ Read(13) # Bytes(message) \/ Read(13) > MaximumBytes \/ Read(12) > MaximumNodes)
 <2>1. PICK x \in Nat, y \in Nat, u \in Nat, w \in Nat :
          /\ x = RequestSize(r) /\ y = MaximumBytes /\ u = Len(r.nodes) /\ w = MaximumNodes
  BY ONLY <1>8, <1>10, LimitsAreNumbers
 <2>2. ~(x > y) /\ ~(u > w)
  BY ONLY <1>9, <2>1
 <2>3. Read(13) = x /\ Bytes(message) = x /\ Read(12) = u
  BY ONLY <1>7, <1>8, <2>1
 <2> QED BY ONLY <1>7, <2>1, <2>2, <2>3
<1>12. /\ offset' = HeaderCells
       /\ got' = <<<<"object", Read(3)>>, <<"base", Read(4)>>>>
       /\ agenda' = <<Item("boxes", Read(7)), Item("planes", Read(8)),
                      Item("positions", Read(9) \div 3), Item("indices", Read(10)),
                      Item("cutters", Read(11)), Item("nodes", Read(12))>>
       /\ UNCHANGED <<request, origin, message, counted, reply, exchange>>
 BY ONLY <1>11, ReadHeader DEF ReadHeader
<1>13. agenda' = Dues(A)
 <2>1. Len(r.mesh.positions) = (3 * Len(r.mesh.positions)) \div 3
  <3>1. r.mesh.positions \in Seq(Int)
   BY RequestFields, MeshFacts
  <3>2. PICK e \in Nat : e = Len(r.mesh.positions)
   BY ONLY <3>1
  <3>3. e = (3 * e) \div 3
   OBVIOUS
  <3> QED BY ONLY <3>2, <3>3
 <2>2. Dues(A) = RequestDues(r)
  BY ONLY <1>1, <1>2 DEF RequestOpens
 <2> QED BY ONLY <1>7, <1>12, <2>1, <2>2 DEF RequestDues
<1>14. got' = RequestOpening(r)
 BY ONLY <1>7, <1>12 DEF RequestOpening
<1>15. got' \in Seq(Entries) /\ got' \o TodoSays(A) = Reads(r)
 <2>1. <<"object", r.object>> \in Entries /\ <<"base", r.base>> \in Entries
  <3>1. r.object \in Values /\ r.base \in Values
   BY RequestFields DEF Values
  <3>2. "object" \in Names /\ "base" \in Names
   BY DEF Names
  <3> QED BY ONLY <3>1, <3>2 DEF Entries
 <2>2. RequestOpening(r) \in Seq(Entries)
  BY ONLY <2>1 DEF RequestOpening
 <2> QED BY ONLY <1>2, <1>14, <2>2 DEF Reads
<1>16. offset' = 13 /\ offset' > 0 /\ Len(h) = offset'
 BY ONLY <1>3, <1>12 DEF HeaderCells
<1>17. counted' \in Counts /\ counted'.loops = 0 /\ counted'.sections = 0 /\ counted'.coordinates = 0
 BY ONLY <1>12, counted = [loops |-> 0, sections |-> 0, coordinates |-> 0] DEF Counts
<1>18. /\ counted'.loops + TodoLoops(A) <= MaximumLoops
       /\ counted'.sections + TodoSections(A) <= MaximumSections
       /\ counted'.coordinates + TodoCoordinates(A) <= MaximumCoordinates
 <2>1. /\ TodoLoops(A) <= MaximumLoops /\ TodoSections(A) <= MaximumSections
       /\ TodoCoordinates(A) <= MaximumCoordinates
  BY ONLY <1>1, <1>2 DEF RequestOpens
 <2>2. TodoLoops(A) \in Nat /\ TodoSections(A) \in Nat /\ TodoCoordinates(A) \in Nat
  BY ONLY A \in Seq(PartRecords), TodoType
 <2>3. \A x \in Nat : 0 + x = x
  OBVIOUS
 <2> QED BY ONLY <1>17, <2>1, <2>2, <2>3
<1>19. message[12][2] = Len(r.nodes)
 BY ONLY <1>6 DEF RequestRead
<1>20. A \in Seq(Parts(Len(r.nodes)))
 BY ONLY <1>1, <1>2 DEF RequestOpens
<1>21. OnTheWay(r, A, h, message, offset', agenda', got', counted')
 BY ONLY <1>3, <1>4, <1>13, <1>15, <1>16, <1>17, <1>18, <1>19, <1>20, r \in WantedRequests,
         h \in Seq(CellSet) DEF OnTheWay
<1> QED BY ONLY <1>12, <1>21 DEF Midway, Kept
LEMMA EndIsRead ==
  ASSUME NEW r, Midway(r, message, offset, agenda, got, counted), ReadEnd
  PROVE  /\ got = Reads(r) /\ exchange' = "read"
         /\ UNCHANGED <<request, origin, message, offset, agenda, counted, got, reply>>
<1>1. PICK todo, done : OnTheWay(r, todo, done, message, offset, agenda, got, counted)
 BY ONLY Midway(r, message, offset, agenda, got, counted) DEF Midway
<1>2. todo \in Seq(PartRecords)
 BY <1>1, PartsAreRecords DEF OnTheWay
<1>3. agenda = <<>>
 BY DEF ReadEnd
<1>4. todo = <<>>
 <2>1. agenda = Image(DueOf, todo)
  BY ONLY <1>1 DEF OnTheWay, Dues
 <2>2. Len(Image(DueOf, todo)) = Len(todo)
  BY ONLY <1>2, DueMaps, ImageType
 <2>3. Len(todo) = 0
  BY ONLY <1>3, <2>1, <2>2
 <2> QED BY ONLY <1>2, <2>3
<1>5. TodoCells(todo) = <<>> /\ TodoSays(todo) = <<>>
 BY ONLY <1>4, TodoOfNone
<1>6. done \in Seq(CellSet) /\ message = done \o TodoCells(todo) /\ Len(done) = offset
      /\ got \in Seq(Entries) /\ got \o TodoSays(todo) = Reads(r)
 BY ONLY <1>1 DEF OnTheWay
<1>7. message = done /\ got = Reads(r)
 BY ONLY <1>5, <1>6
<1>8. SubSeq(message, 1, offset) = done
 BY ONLY <1>6, <1>7
<1>9. Bytes(done) \in Nat
 BY ONLY <1>6, CellsJoin
<1>10. Left = 0
 <2>1. PICK x \in Nat : x = Bytes(done)
  BY <1>9
 <2>2. x - x = 0
  OBVIOUS
 <2> QED BY ONLY <1>7, <1>8, <2>1, <2>2 DEF Left
<1> QED BY <1>7, <1>10 DEF ReadEnd

(* A request in another place.                                                     *)

LEMMA ShiftedFacts ==
  ASSUME NEW v \in Seq(Int), NEW o \in Int
  PROVE  /\ Shifted(v, o) \in Seq(Int) /\ Len(Shifted(v, o)) = Len(v)
         /\ \A k \in 1 .. Len(v) : Shifted(v, o)[k] = v[k] - o
<1>1. \A k \in 1 .. Len(v) : v[k] \in Int /\ v[k] - o \in Int
 OBVIOUS
<1>2. Shifted(v, o) = [k \in 1 .. Len(v) |-> v[k] - o]
 BY DEF Shifted
<1> QED BY <1>1, <1>2

LEMMA ShiftedLoopsFacts ==
  ASSUME NEW v \in Seq(Loops), NEW o \in Int
  PROVE  /\ ShiftedLoops(v, o) \in Seq(Loops) /\ Len(ShiftedLoops(v, o)) = Len(v)
         /\ \A k \in 1 .. Len(v) : ShiftedLoops(v, o)[k] = Shifted(v[k], o) /\ v[k] \in Loops
<1>1. \A k \in 1 .. Len(v) : v[k] \in Loops
 OBVIOUS
<1>2. \A l \in Loops : Shifted(l, o) \in Loops
 BY ShiftedFacts DEF Loops
<1>3. ShiftedLoops(v, o) = [k \in 1 .. Len(v) |-> Shifted(v[k], o)]
 BY DEF ShiftedLoops
<1>4. \A k \in 1 .. Len(v) : Shifted(v[k], o) \in Loops
 BY ONLY <1>1, <1>2
<1>5. Len(v) \in Nat
 OBVIOUS
<1> QED BY ONLY <1>1, <1>3, <1>4, <1>5

SweepMoved(v, o) == [k \in DOMAIN v |-> ShiftedLoops(v[k], o)]

LEMMA SweepMovedFacts ==
  ASSUME NEW v \in Seq(Seq(Loops)), NEW o \in Int
  PROVE  /\ SweepMoved(v, o) \in Seq(Seq(Loops)) /\ Len(SweepMoved(v, o)) = Len(v)
         /\ \A k \in 1 .. Len(v) : SweepMoved(v, o)[k] = ShiftedLoops(v[k], o) /\ v[k] \in Seq(Loops)
<1>1. \A k \in 1 .. Len(v) : v[k] \in Seq(Loops)
 OBVIOUS
<1>2. \A l \in Seq(Loops) : ShiftedLoops(l, o) \in Seq(Loops)
 BY ShiftedLoopsFacts
<1>3. SweepMoved(v, o) = [k \in 1 .. Len(v) |-> ShiftedLoops(v[k], o)]
 BY DEF SweepMoved
<1>4. \A k \in 1 .. Len(v) : ShiftedLoops(v[k], o) \in Seq(Loops)
 BY ONLY <1>1, <1>2
<1>5. Len(v) \in Nat
 OBVIOUS
<1> QED BY ONLY <1>1, <1>3, <1>4, <1>5

LEMMA AllPlacedFacts ==
  ASSUME NEW v \in Seq(Extents), NEW o \in Int
  PROVE  /\ AllPlaced(v, o) \in Seq(Extents) /\ Len(AllPlaced(v, o)) = Len(v)
         /\ \A k \in 1 .. Len(v) : AllPlaced(v, o)[k] = Placed(v[k], o) /\ v[k] \in Extents
<1>1. \A k \in 1 .. Len(v) : v[k] \in Extents
 OBVIOUS
<1>2. \A e \in Extents : Placed(e, o) \in Extents
 BY DEF Extents, Placed
<1>3. AllPlaced(v, o) = [k \in 1 .. Len(v) |-> Placed(v[k], o)]
 BY DEF AllPlaced
<1>4. \A k \in 1 .. Len(v) : Placed(v[k], o) \in Extents
 BY ONLY <1>1, <1>2
<1>5. Len(v) \in Nat
 OBVIOUS
<1> QED BY ONLY <1>1, <1>3, <1>4, <1>5

LEMMA ShiftedMeshFacts ==
  ASSUME NEW m \in TriangleMeshes, NEW o \in Int
  PROVE  /\ ShiftedMesh(m, o) \in TriangleMeshes
         /\ ShiftedMesh(m, o).positions = Shifted(m.positions, o)
         /\ ShiftedMesh(m, o).indices = m.indices
<1>1. m.positions \in Seq(Int) /\ m.indices \in Seq(Nat)
 BY MeshFacts
<1>2. Shifted(m.positions, o) \in Seq(Int)
 BY <1>1, ShiftedFacts
<1> QED BY <1>1, <1>2 DEF ShiftedMesh, TriangleMeshes
MeshMoved(m, u, o) == u.positions = Shifted(m.positions, o) /\ u.indices = m.indices

NodeMoved(n, m, o) ==
  /\ n \in NodeRecords /\ m \in NodeRecords /\ o \in Int
  /\ m.object = (IF o = 0 THEN n.object ELSE 0)
  /\ m.base = (IF IsBody(n) THEN Placed(n.base, o) ELSE n.base)
  /\ m.boxes = AllPlaced(n.boxes, o) /\ m.planes = AllPlaced(n.planes, o)
  /\ MeshMoved(n.mesh, m.mesh, o)
  /\ m.extrusion = ShiftedLoops(n.extrusion, o) /\ m.sweep = SweepMoved(n.sweep, o)
  /\ m.vector = n.vector /\ m.circular = n.circular
  /\ m.unions = n.unions /\ m.children = n.children

RequestMoved(r, s, o) ==
  /\ r \in WantedRequests /\ s \in WantedRequests /\ o \in Int
  /\ s.object = (IF o = 0 THEN r.object ELSE 0)
  /\ s.base = (IF r.nodes = <<>> /\ r.mesh = NoMeshGiven THEN Placed(r.base, o) ELSE r.base)
  /\ s.boxes = AllPlaced(r.boxes, o) /\ s.planes = AllPlaced(r.planes, o)
  /\ MeshMoved(r.mesh, s.mesh, o)
  /\ Len(s.cutters) = Len(r.cutters)
  /\ \A k \in 1 .. Len(r.cutters) : MeshMoved(r.cutters[k], s.cutters[k], o)
  /\ Len(s.nodes) = Len(r.nodes)
  /\ \A k \in 1 .. Len(r.nodes) : NodeMoved(r.nodes[k], s.nodes[k], o)

\* What is moved is as large as it was.
LEMMA LoopsKeepSize ==
  ASSUME NEW v \in Seq(Loops), NEW o \in Int
  PROVE  /\ Coordinates(ShiftedLoops(v, o)) = Coordinates(v)
         /\ Each(LoopSize, ShiftedLoops(v, o)) = Each(LoopSize, v)
         /\ SweepSize(ShiftedLoops(v, o)) = SweepSize(v)
         /\ Len(ShiftedLoops(v, o)) = Len(v)
<1>1. PICK u \in Seq(Loops) :
         /\ u = ShiftedLoops(v, o) /\ Len(u) = Len(v)
         /\ \A k \in 1 .. Len(v) : u[k] = Shifted(v[k], o) /\ v[k] \in Loops
 BY ShiftedLoopsFacts
<1>2. \A k \in 1 .. Len(v) : Len(u[k]) = Len(v[k])
 BY <1>1, ShiftedFacts DEF Loops
<1>3. DOMAIN u = 1 .. Len(v) /\ DOMAIN v = 1 .. Len(v)
 BY <1>1
<1>4. [k \in DOMAIN u |-> 3 * Len(u[k])] = [k \in DOMAIN v |-> 3 * Len(v[k])]
 BY ONLY <1>2, <1>3
<1>5. Each(LoopSize, u) = Each(LoopSize, v)
 <2>1. \A k \in 1 .. Len(v) : LoopSize(u[k]) = LoopSize(v[k])
  BY ONLY <1>2 DEF LoopSize
 <2>2. [k \in DOMAIN u |-> LoopSize(u[k])] = [k \in DOMAIN v |-> LoopSize(v[k])]
  BY ONLY <1>3, <2>1
 <2> QED BY ONLY <2>2 DEF Each
<1>6. Coordinates(u) = Coordinates(v)
 BY ONLY <1>4 DEF Coordinates
<1>7. SweepSize(u) = SweepSize(v)
 BY ONLY <1>5 DEF SweepSize
<1> QED BY ONLY <1>1, <1>5, <1>6, <1>7

LEMMA SweepKeepsSize ==
  ASSUME NEW v \in Seq(Seq(Loops)), NEW o \in Int
  PROVE  /\ Each(SweepSize, SweepMoved(v, o)) = Each(SweepSize, v)
         /\ Each(Len, SweepMoved(v, o)) = Each(Len, v)
         /\ Each(Coordinates, SweepMoved(v, o)) = Each(Coordinates, v)
         /\ Len(SweepMoved(v, o)) = Len(v)
<1>1. PICK u \in Seq(Seq(Loops)) :
         /\ u = SweepMoved(v, o) /\ Len(u) = Len(v)
         /\ \A k \in 1 .. Len(v) : u[k] = ShiftedLoops(v[k], o) /\ v[k] \in Seq(Loops)
 BY SweepMovedFacts
<1>2. \A k \in 1 .. Len(v) : /\ Len(u[k]) = Len(v[k]) /\ SweepSize(u[k]) = SweepSize(v[k])
                             /\ Coordinates(u[k]) = Coordinates(v[k])
 BY ONLY <1>1, LoopsKeepSize, o \in Int
<1>3. DOMAIN u = 1 .. Len(v) /\ DOMAIN v = 1 .. Len(v)
 BY <1>1
<1>4. [k \in DOMAIN u |-> SweepSize(u[k])] = [k \in DOMAIN v |-> SweepSize(v[k])]
 BY ONLY <1>2, <1>3
<1>5. [k \in DOMAIN u |-> Len(u[k])] = [k \in DOMAIN v |-> Len(v[k])]
 BY ONLY <1>2, <1>3
<1>6. [k \in DOMAIN u |-> Coordinates(u[k])] = [k \in DOMAIN v |-> Coordinates(v[k])]
 BY ONLY <1>2, <1>3
<1> QED BY ONLY <1>1, <1>4, <1>5, <1>6 DEF Each

LEMMA MeshKeepsSize ==
  ASSUME NEW m \in TriangleMeshes, NEW u, NEW o \in Int, MeshMoved(m, u, o)
  PROVE  MeshSize(u) = MeshSize(m) /\ CutterSize(u) = CutterSize(m)
<1>1. Len(u.positions) = Len(m.positions) /\ u.indices = m.indices
 BY MeshFacts, ShiftedFacts DEF MeshMoved
<1> QED BY ONLY <1>1 DEF MeshSize, CutterSize

LEMMA NodeKeepsSize ==
  ASSUME NEW n, NEW m, NEW o, NodeMoved(n, m, o)
  PROVE  /\ NodeSize(m) = NodeSize(n) /\ LoopsOf(m) = LoopsOf(n) /\ SectionsOf(m) = SectionsOf(n)
         /\ CoordinatesOf(m) = CoordinatesOf(n)
         /\ \A c : NodeFits(n, c) => NodeFits(m, c)
<1>1. n \in NodeRecords /\ o \in Int
 BY DEF NodeMoved
<1>2. /\ n.boxes \in Seq(Extents) /\ n.planes \in Seq(Extents) /\ n.mesh \in TriangleMeshes
      /\ n.extrusion \in Seq(Loops) /\ n.sweep \in Seq(Seq(Loops))
 BY <1>1, NodeFields
<1>3. Len(m.boxes) = Len(n.boxes) /\ Len(m.planes) = Len(n.planes)
 BY <1>1, <1>2, AllPlacedFacts DEF NodeMoved
<1>4. MeshSize(m.mesh) = MeshSize(n.mesh)
 BY <1>1, <1>2, MeshKeepsSize DEF NodeMoved
<1>5. /\ Coordinates(m.extrusion) = Coordinates(n.extrusion)
      /\ Each(LoopSize, m.extrusion) = Each(LoopSize, n.extrusion)
      /\ Len(m.extrusion) = Len(n.extrusion)
 <2>1. m.extrusion = ShiftedLoops(n.extrusion, o)
  BY DEF NodeMoved
 <2> QED BY ONLY <1>1, <1>2, <2>1, LoopsKeepSize
<1>6. /\ Each(SweepSize, m.sweep) = Each(SweepSize, n.sweep) /\ Each(Len, m.sweep) = Each(Len, n.sweep)
      /\ Each(Coordinates, m.sweep) = Each(Coordinates, n.sweep) /\ Len(m.sweep) = Len(n.sweep)
 <2>1. m.sweep = SweepMoved(n.sweep, o)
  BY DEF NodeMoved
 <2> QED BY ONLY <1>1, <1>2, <2>1, SweepKeepsSize
<1>7. m.unions = n.unions /\ m.children = n.children
 BY DEF NodeMoved
<1>8. NodeSize(m) = NodeSize(n)
 BY ONLY <1>3, <1>4, <1>5, <1>6, <1>7 DEF NodeSize
<1>9. LoopsOf(m) = LoopsOf(n)
 BY ONLY <1>5, <1>6 DEF LoopsOf
<1>10. SectionsOf(m) = SectionsOf(n)
 BY ONLY <1>6 DEF SectionsOf
<1>11. SweepCoordinates(m) = SweepCoordinates(n)
 BY ONLY <1>6 DEF SweepCoordinates
<1>12. CoordinatesOf(m) = CoordinatesOf(n)
 BY ONLY <1>5, <1>11 DEF CoordinatesOf
<1>13. \A c : NodeFits(n, c) => NodeFits(m, c)
 BY ONLY <1>5, <1>6, <1>7, <1>10, <1>11 DEF NodeFits
<1> QED BY ONLY <1>8, <1>9, <1>10, <1>12, <1>13

LEMMA MovedIsEncodable ==
  ASSUME NEW r, NEW s, NEW o, RequestMoved(r, s, o), Encodable(r)
  PROVE  Encodable(s)
<1>1. r \in WantedRequests /\ s \in WantedRequests /\ o \in Int
 BY DEF RequestMoved
<1>2. /\ r.boxes \in Seq(Extents) /\ r.planes \in Seq(Extents) /\ r.mesh \in TriangleMeshes
      /\ r.cutters \in Seq(TriangleMeshes) /\ r.nodes \in Seq(NodeRecords)
      /\ s.cutters \in Seq(TriangleMeshes) /\ s.nodes \in Seq(NodeRecords)
 BY <1>1, RequestFields
<1>3. Len(s.boxes) = Len(r.boxes) /\ Len(s.planes) = Len(r.planes)
 BY <1>1, <1>2, AllPlacedFacts DEF RequestMoved
<1>4. MeshSize(s.mesh) = MeshSize(r.mesh)
 BY <1>1, <1>2, MeshKeepsSize DEF RequestMoved
<1>5. Len(s.cutters) = Len(r.cutters) /\ Len(s.nodes) = Len(r.nodes)
 BY DEF RequestMoved
<1>6. /\ DOMAIN s.cutters = 1 .. Len(r.cutters) /\ DOMAIN r.cutters = 1 .. Len(r.cutters)
      /\ DOMAIN s.nodes = 1 .. Len(r.nodes) /\ DOMAIN r.nodes = 1 .. Len(r.nodes)
 BY ONLY <1>2, <1>5
<1>7. \A k \in 1 .. Len(r.cutters) : CutterSize(s.cutters[k]) = CutterSize(r.cutters[k])
 <2>1. TAKE k \in 1 .. Len(r.cutters)
 <2>2. r.cutters[k] \in TriangleMeshes
  BY ONLY <1>2, k \in 1 .. Len(r.cutters)
 <2>3. MeshMoved(r.cutters[k], s.cutters[k], o)
  BY DEF RequestMoved
 <2> QED BY ONLY <1>1, <2>2, <2>3, MeshKeepsSize
<1>8. \A k \in 1 .. Len(r.nodes) : NodeMoved(r.nodes[k], s.nodes[k], o)
 BY DEF RequestMoved
<1>9. \A k \in 1 .. Len(r.nodes) :
         /\ NodeSize(s.nodes[k]) = NodeSize(r.nodes[k]) /\ LoopsOf(s.nodes[k]) = LoopsOf(r.nodes[k])
         /\ SectionsOf(s.nodes[k]) = SectionsOf(r.nodes[k])
         /\ CoordinatesOf(s.nodes[k]) = CoordinatesOf(r.nodes[k])
         /\ \A c : NodeFits(r.nodes[k], c) => NodeFits(s.nodes[k], c)
 BY ONLY <1>8, NodeKeepsSize
<1>10. Each(CutterSize, s.cutters) = Each(CutterSize, r.cutters)
 <2>1. [k \in DOMAIN s.cutters |-> CutterSize(s.cutters[k])]
          = [k \in DOMAIN r.cutters |-> CutterSize(r.cutters[k])]
  BY ONLY <1>6, <1>7
 <2> QED BY ONLY <2>1 DEF Each
<1>11. /\ Each(NodeSize, s.nodes) = Each(NodeSize, r.nodes) /\ Each(LoopsOf, s.nodes) = Each(LoopsOf, r.nodes)
       /\ Each(SectionsOf, s.nodes) = Each(SectionsOf, r.nodes)
       /\ Each(CoordinatesOf, s.nodes) = Each(CoordinatesOf, r.nodes)
 <2>1. [k \in DOMAIN s.nodes |-> NodeSize(s.nodes[k])] = [k \in DOMAIN r.nodes |-> NodeSize(r.nodes[k])]
  BY ONLY <1>6, <1>9
 <2>2. [k \in DOMAIN s.nodes |-> LoopsOf(s.nodes[k])] = [k \in DOMAIN r.nodes |-> LoopsOf(r.nodes[k])]
  BY ONLY <1>6, <1>9
 <2>3. [k \in DOMAIN s.nodes |-> SectionsOf(s.nodes[k])] = [k \in DOMAIN r.nodes |-> SectionsOf(r.nodes[k])]
  BY ONLY <1>6, <1>9
 <2>4. [k \in DOMAIN s.nodes |-> CoordinatesOf(s.nodes[k])]
          = [k \in DOMAIN r.nodes |-> CoordinatesOf(r.nodes[k])]
  BY ONLY <1>6, <1>9
 <2> QED BY ONLY <2>1, <2>2, <2>3, <2>4 DEF Each
<1>12. RequestSize(s) = RequestSize(r)
 BY ONLY <1>3, <1>4, <1>10, <1>11 DEF RequestSize
<1>13. RecipesFit(s.nodes)
 BY ONLY <1>11, Encodable(r) DEF RecipesFit, Encodable
<1>14. \A k \in DOMAIN s.nodes : NodeFits(s.nodes[k], Len(s.nodes))
 BY ONLY <1>5, <1>6, <1>9, Encodable(r) DEF Encodable
<1> QED BY ONLY <1>5, <1>12, <1>13, <1>14, Encodable(r) DEF Encodable
\* Nothing moves by nothing.
LEMMA MovedByNothing ==
  /\ \A v \in Seq(Int) : Shifted(v, 0) = v
  /\ \A v \in Seq(Loops) : ShiftedLoops(v, 0) = v
  /\ \A v \in Seq(Seq(Loops)) : SweepMoved(v, 0) = v
  /\ \A v \in Seq(Extents) : AllPlaced(v, 0) = v
  /\ \A e \in Extents : Placed(e, 0) = e
<1>0. 0 \in Int
 OBVIOUS
<1>1. \A v \in Seq(Int) : Shifted(v, 0) = v
 <2>1. TAKE v \in Seq(Int)
 <2>2. /\ Shifted(v, 0) \in Seq(Int) /\ Len(Shifted(v, 0)) = Len(v)
       /\ \A k \in 1 .. Len(v) : Shifted(v, 0)[k] = v[k] - 0
  BY ONLY <1>0, v \in Seq(Int), ShiftedFacts
 <2>3. \A k \in 1 .. Len(v) : v[k] - 0 = v[k]
  OBVIOUS
 <2>4. \A k \in 1 .. Len(Shifted(v, 0)) : Shifted(v, 0)[k] = v[k]
  BY ONLY <2>2, <2>3
 <2> QED BY ONLY <2>2, <2>4, v \in Seq(Int), SeqEqual
<1>2. \A v \in Seq(Loops) : ShiftedLoops(v, 0) = v
 <2>1. TAKE v \in Seq(Loops)
 <2>2. /\ ShiftedLoops(v, 0) \in Seq(Loops) /\ Len(ShiftedLoops(v, 0)) = Len(v)
       /\ \A k \in 1 .. Len(v) : ShiftedLoops(v, 0)[k] = Shifted(v[k], 0) /\ v[k] \in Loops
  BY ONLY <1>0, v \in Seq(Loops), ShiftedLoopsFacts
 <2>3. \A l \in Loops : Shifted(l, 0) = l
  BY ONLY <1>1 DEF Loops
 <2>4. \A k \in 1 .. Len(ShiftedLoops(v, 0)) : ShiftedLoops(v, 0)[k] = v[k]
  BY ONLY <2>2, <2>3
 <2> QED BY ONLY <2>2, <2>4, v \in Seq(Loops), SeqEqual
<1>3. \A v \in Seq(Seq(Loops)) : SweepMoved(v, 0) = v
 <2>1. TAKE v \in Seq(Seq(Loops))
 <2>2. /\ SweepMoved(v, 0) \in Seq(Seq(Loops)) /\ Len(SweepMoved(v, 0)) = Len(v)
       /\ \A k \in 1 .. Len(v) : SweepMoved(v, 0)[k] = ShiftedLoops(v[k], 0) /\ v[k] \in Seq(Loops)
  BY ONLY <1>0, v \in Seq(Seq(Loops)), SweepMovedFacts
 <2>4. \A k \in 1 .. Len(SweepMoved(v, 0)) : SweepMoved(v, 0)[k] = v[k]
  BY ONLY <1>2, <2>2
 <2> QED BY ONLY <2>2, <2>4, v \in Seq(Seq(Loops)), SeqEqual
<1>4. \A e \in Extents : Placed(e, 0) = e
 BY DEF Placed, Extents
<1>5. \A v \in Seq(Extents) : AllPlaced(v, 0) = v
 <2>1. TAKE v \in Seq(Extents)
 <2>2. /\ AllPlaced(v, 0) \in Seq(Extents) /\ Len(AllPlaced(v, 0)) = Len(v)
       /\ \A k \in 1 .. Len(v) : AllPlaced(v, 0)[k] = Placed(v[k], 0) /\ v[k] \in Extents
  BY ONLY <1>0, v \in Seq(Extents), AllPlacedFacts
 <2>4. \A k \in 1 .. Len(AllPlaced(v, 0)) : AllPlaced(v, 0)[k] = v[k]
  BY ONLY <1>4, <2>2
 <2> QED BY ONLY <2>2, <2>4, v \in Seq(Extents), SeqEqual
<1> QED BY ONLY <1>1, <1>2, <1>3, <1>4, <1>5

LEMMA MeshStays ==
  ASSUME NEW m \in TriangleMeshes
  PROVE  MeshMoved(m, m, 0)
 BY MeshFacts, MovedByNothing DEF MeshMoved

LEMMA NodeStays ==
  ASSUME NEW n \in NodeRecords
  PROVE  NodeMoved(n, n, 0)
<1>1. /\ n.base \in Extents /\ n.boxes \in Seq(Extents) /\ n.planes \in Seq(Extents)
      /\ n.mesh \in TriangleMeshes /\ n.extrusion \in Seq(Loops) /\ n.sweep \in Seq(Seq(Loops))
 BY NodeFields DEF NodeRecords
<1>2. MeshMoved(n.mesh, n.mesh, 0)
 BY <1>1, MeshStays
<1>3. /\ AllPlaced(n.boxes, 0) = n.boxes /\ AllPlaced(n.planes, 0) = n.planes
      /\ ShiftedLoops(n.extrusion, 0) = n.extrusion /\ SweepMoved(n.sweep, 0) = n.sweep
      /\ Placed(n.base, 0) = n.base
 BY ONLY <1>1, MovedByNothing
<1>4. 0 \in Int
 OBVIOUS
<1> QED BY ONLY <1>2, <1>3, <1>4, n \in NodeRecords DEF NodeMoved

LEMMA RequestStays ==
  ASSUME NEW r \in WantedRequests
  PROVE  RequestMoved(r, r, 0)
<1>1. /\ r.base \in Extents /\ r.boxes \in Seq(Extents) /\ r.planes \in Seq(Extents)
      /\ r.mesh \in TriangleMeshes /\ r.cutters \in Seq(TriangleMeshes) /\ r.nodes \in Seq(NodeRecords)
 BY RequestFields
<1>2. MeshMoved(r.mesh, r.mesh, 0)
 BY <1>1, MeshStays
<1>3. /\ AllPlaced(r.boxes, 0) = r.boxes /\ AllPlaced(r.planes, 0) = r.planes
      /\ Placed(r.base, 0) = r.base
 BY ONLY <1>1, MovedByNothing
<1>4. 0 \in Int
 OBVIOUS
<1>5. \A k \in 1 .. Len(r.cutters) : r.cutters[k] \in TriangleMeshes
 BY ONLY <1>1
<1>6. \A k \in 1 .. Len(r.nodes) : r.nodes[k] \in NodeRecords
 BY ONLY <1>1
<1>7. \A k \in 1 .. Len(r.cutters) : MeshMoved(r.cutters[k], r.cutters[k], 0)
 BY ONLY <1>5, MeshStays
<1>8. \A k \in 1 .. Len(r.nodes) : NodeMoved(r.nodes[k], r.nodes[k], 0)
 BY ONLY <1>6, NodeStays
<1> QED BY ONLY <1>2, <1>3, <1>4, <1>7, <1>8, r \in WantedRequests DEF RequestMoved
LEMMA NodeMoves ==
  ASSUME NEW n \in NodeRecords, NEW o \in Int, o # 0
  PROVE  NodeMoved(n, NormalizeNode(n, o), o)
<1>1. /\ n.base \in Extents /\ n.boxes \in Seq(Extents) /\ n.planes \in Seq(Extents)
      /\ n.mesh \in TriangleMeshes /\ n.extrusion \in Seq(Loops) /\ n.sweep \in Seq(Seq(Loops))
 BY NodeFields DEF NodeRecords
<1>2. PICK m : m = NormalizeNode(n, o)
 OBVIOUS
<1>3. PICK ba, me, ex, sw, bo, pl :
         /\ ba = (IF IsBody(n) THEN Placed(n.base, o) ELSE n.base)
         /\ me = ShiftedMesh(n.mesh, o) /\ ex = ShiftedLoops(n.extrusion, o)
         /\ sw = SweepMoved(n.sweep, o) /\ bo = AllPlaced(n.boxes, o) /\ pl = AllPlaced(n.planes, o)
 OBVIOUS
<1>4. m = [n EXCEPT !.object = 0, !.base = ba, !.mesh = me, !.extrusion = ex, !.sweep = sw,
                    !.boxes = bo, !.planes = pl]
 BY ONLY <1>2, <1>3 DEF NormalizeNode, IsBody, SweepMoved
<1>5. /\ ba \in Extents /\ me \in TriangleMeshes /\ ex \in Seq(Loops) /\ sw \in Seq(Seq(Loops))
      /\ bo \in Seq(Extents) /\ pl \in Seq(Extents)
 <2>1. Placed(n.base, o) \in Extents
  BY ONLY <1>1, o \in Int DEF Placed, Extents
 <2>2. me \in TriangleMeshes
  BY ONLY <1>1, <1>3, o \in Int, ShiftedMeshFacts
 <2>3. ex \in Seq(Loops) /\ sw \in Seq(Seq(Loops))
  BY ONLY <1>1, <1>3, o \in Int, ShiftedLoopsFacts, SweepMovedFacts
 <2>4. bo \in Seq(Extents) /\ pl \in Seq(Extents)
  BY ONLY <1>1, <1>3, o \in Int, AllPlacedFacts
 <2> QED BY ONLY <1>1, <1>3, <2>1, <2>2, <2>3, <2>4
<1>6. m \in NodeRecords
 BY ONLY <1>4, <1>5, n \in NodeRecords DEF NodeRecords, Loops
<1>7. /\ m.object = 0 /\ m.base = ba /\ m.mesh = me /\ m.extrusion = ex /\ m.sweep = sw
      /\ m.boxes = bo /\ m.planes = pl /\ m.vector = n.vector /\ m.circular = n.circular
      /\ m.unions = n.unions /\ m.children = n.children
 BY ONLY <1>4, n \in NodeRecords DEF NodeRecords
<1>8. MeshMoved(n.mesh, m.mesh, o)
 <2>1. me = ShiftedMesh(n.mesh, o) /\ n.mesh \in TriangleMeshes
  BY ONLY <1>1, <1>3
 <2>2. MeshMoved(n.mesh, ShiftedMesh(n.mesh, o), o)
  BY ONLY <2>1, o \in Int, ShiftedMeshFacts DEF MeshMoved
 <2> QED BY ONLY <1>7, <2>1, <2>2
<1> QED BY ONLY <1>2, <1>3, <1>6, <1>7, <1>8, o # 0, o \in Int, n \in NodeRecords DEF NodeMoved

\* A list taken over one by one.
LEMMA ListTaken ==
  ASSUME NEW S, NEW T, NEW v \in Seq(S), NEW g \in [S -> T]
  PROVE  /\ [k \in DOMAIN v |-> g[v[k]]] \in Seq(T)
         /\ Len([k \in DOMAIN v |-> g[v[k]]]) = Len(v)
         /\ \A k \in 1 .. Len(v) : [j \in DOMAIN v |-> g[v[j]]][k] = g[v[k]] /\ v[k] \in S
 BY ImageType DEF Maps, Image

LEMMA NodesMove ==
  ASSUME NEW v \in Seq(NodeRecords), NEW o \in Int, o # 0, NEW u,
         u = [k \in DOMAIN v |-> NormalizeNode(v[k], o)]
  PROVE  /\ u \in Seq(NodeRecords) /\ Len(u) = Len(v)
         /\ \A k \in 1 .. Len(v) : NodeMoved(v[k], u[k], o)
<1>1. PICK g : g = [n \in NodeRecords |-> NormalizeNode(n, o)]
 OBVIOUS
<1>2. \A n \in NodeRecords : NodeMoved(n, NormalizeNode(n, o), o)
 BY NodeMoves
<1>3. \A n \in NodeRecords : NormalizeNode(n, o) \in NodeRecords
 BY ONLY <1>2 DEF NodeMoved
<1>4. g \in [NodeRecords -> NodeRecords]
 BY ONLY <1>1, <1>3
<1>5. \A k \in 1 .. Len(v) : v[k] \in NodeRecords
 OBVIOUS
<1>6. u = [k \in DOMAIN v |-> g[v[k]]]
 <2>1. \A k \in DOMAIN v : v[k] \in NodeRecords
  OBVIOUS
 <2> QED BY ONLY <1>1, <2>1, u = [k \in DOMAIN v |-> NormalizeNode(v[k], o)]
<1>7. u \in Seq(NodeRecords) /\ Len(u) = Len(v) /\ \A k \in 1 .. Len(v) : u[k] = g[v[k]]
 BY ONLY <1>4, <1>6, v \in Seq(NodeRecords), ListTaken
<1>8. \A k \in 1 .. Len(v) : u[k] = NormalizeNode(v[k], o)
 BY ONLY <1>1, <1>5, <1>7
<1> QED BY ONLY <1>2, <1>5, <1>7, <1>8

LEMMA CuttersMove ==
  ASSUME NEW v \in Seq(TriangleMeshes), NEW o \in Int, NEW u,
         u = [k \in DOMAIN v |-> ShiftedMesh(v[k], o)]
  PROVE  /\ u \in Seq(TriangleMeshes) /\ Len(u) = Len(v)
         /\ \A k \in 1 .. Len(v) : MeshMoved(v[k], u[k], o)
<1>1. PICK g : g = [m \in TriangleMeshes |-> ShiftedMesh(m, o)]
 OBVIOUS
<1>2. \A m \in TriangleMeshes : MeshMoved(m, ShiftedMesh(m, o), o)
 BY ShiftedMeshFacts DEF MeshMoved
<1>3. \A m \in TriangleMeshes : ShiftedMesh(m, o) \in TriangleMeshes
 BY ShiftedMeshFacts
<1>4. g \in [TriangleMeshes -> TriangleMeshes]
 BY ONLY <1>1, <1>3
<1>5. \A k \in 1 .. Len(v) : v[k] \in TriangleMeshes
 OBVIOUS
<1>6. u = [k \in DOMAIN v |-> g[v[k]]]
 <2>1. \A k \in DOMAIN v : v[k] \in TriangleMeshes
  OBVIOUS
 <2> QED BY ONLY <1>1, <2>1, u = [k \in DOMAIN v |-> ShiftedMesh(v[k], o)]
<1>7. u \in Seq(TriangleMeshes) /\ Len(u) = Len(v) /\ \A k \in 1 .. Len(v) : u[k] = g[v[k]]
 BY ONLY <1>4, <1>6, v \in Seq(TriangleMeshes), ListTaken
<1>8. \A k \in 1 .. Len(v) : u[k] = ShiftedMesh(v[k], o)
 BY ONLY <1>1, <1>5, <1>7
<1> QED BY ONLY <1>2, <1>5, <1>7, <1>8
LEMMA EmptyMoves ==
  /\ \A o : Shifted(<<>>, o) = <<>> /\ AllPlaced(<<>>, o) = <<>>
  /\ <<>> \in Seq(Int) /\ <<>> \in Seq(Nat) /\ Len(<<>>) = 0
<1>1. \A o : Shifted(<<>>, o) = <<>>
 <2> TAKE o
 <2>1. Shifted(<<>>, o) = [k \in {} |-> <<>>[k] - o]
  BY DEF Shifted
 <2>2. PICK f : f = [k \in {} |-> <<>>[k] - o]
  OBVIOUS
 <2>3. f \in Seq(Int) /\ Len(f) = 0
  BY <2>2
 <2>4. f = <<>>
  BY <2>3, EmptySeq
 <2> QED BY <2>1, <2>2, <2>4
<1>2. \A o : AllPlaced(<<>>, o) = <<>>
 <2> TAKE o
 <2>1. AllPlaced(<<>>, o) = [k \in {} |-> Placed(<<>>[k], o)]
  BY DEF AllPlaced
 <2>2. PICK f : f = [k \in {} |-> Placed(<<>>[k], o)]
  OBVIOUS
 <2>3. f \in Seq(Int) /\ Len(f) = 0
  BY <2>2
 <2>4. f = <<>>
  BY <2>3, EmptySeq
 <2> QED BY <2>1, <2>2, <2>4
<1> QED BY <1>1, <1>2

\* Where the host moves a request from is a number.
LEMMA FirstPoints ==
  ASSUME NEW v \in Seq(Loops)
  PROVE  FirstPoint(v) \in Seq(Int)
<1>1. PICK filled : filled = {k \in DOMAIN v : v[k] # <<>>}
 OBVIOUS
<1>2. CASE filled = {}
 <2>1. FirstPoint(v) = <<>>
  BY ONLY <1>1, <1>2 DEF FirstPoint
 <2> QED BY <2>1
<1>3. CASE filled # {}
 <2>1. filled \subseteq Nat
  BY <1>1
 <2>2. PICK m \in filled : \A k \in filled : m <= k
  BY ONLY <1>3, <2>1, LeastOfNumbers
 <2>3. Min(filled) \in filled
  BY ONLY <2>2 DEF Min
 <2>4. PICK m0 : m0 = Min(filled)
  OBVIOUS
 <2>5. m0 \in DOMAIN v /\ v[m0] # <<>>
  BY ONLY <1>1, <2>3, <2>4
 <2>6. v[m0] \in Seq(Int)
  BY <2>5 DEF Loops
 <2>7. v[m0][1] \in Int
  BY <2>5, <2>6, EmptySeq
 <2>8. FirstPoint(v) = <<v[m0][1]>>
  BY ONLY <1>1, <1>3, <2>4 DEF FirstPoint
 <2> QED BY <2>7, <2>8
<1> QED BY <1>2, <1>3

LEMMA OriginIsNumber ==
  ASSUME NEW r \in WantedRequests
  PROVE  RequestOrigin(r) \in Int
<1>1. r.base \in Extents /\ r.mesh.positions \in Seq(Int) /\ r.nodes \in Seq(NodeRecords)
 BY RequestFields DEF TriangleMeshes
<1>2. \A e \in Extents : e[1] \in Int
 BY DEF Extents
<1>3. \A s \in Seq(Int) : s # <<>> => s[1] \in Int
 BY EmptySeq
<1>4. CASE r.nodes = <<>>
 <2>1. RequestOrigin(r) = (IF r.mesh.positions # <<>> THEN r.mesh.positions[1] ELSE r.base[1])
  BY ONLY <1>4 DEF RequestOrigin
 <2> QED BY ONLY <1>1, <1>2, <1>3, <2>1
<1>5. CASE r.nodes # <<>>
 <2>1. PICK n : n = r.nodes[1]
  OBVIOUS
 <2>2. n \in NodeRecords
  BY <1>1, <1>5, <2>1, EmptySeq
 <2>3. /\ n.base \in Extents /\ n.mesh \in TriangleMeshes /\ n.extrusion \in Seq(Loops)
       /\ n.sweep \in Seq(Seq(Loops))
  BY ONLY <2>2, NodeFields
 <2>4. n.mesh.positions \in Seq(Int)
  BY ONLY <2>3 DEF TriangleMeshes
 <2>5. FlattenSeq(n.sweep) \in Seq(Loops)
  BY ONLY <2>3, FlatType
 <2>6. PICK p, q : p = FirstPoint(n.extrusion) /\ q = FirstPoint(FlattenSeq(n.sweep))
  OBVIOUS
 <2>7. p \in Seq(Int) /\ q \in Seq(Int)
  BY ONLY <2>3, <2>5, <2>6, FirstPoints
 <2>8. p \o q \in Seq(Int)
  BY ONLY <2>7
 <2>9. RequestOrigin(r) = (IF n.mesh.positions # <<>> THEN n.mesh.positions[1]
                           ELSE IF p \o q # <<>> THEN (p \o q)[1] ELSE n.base[1])
  BY ONLY <1>5, <2>1, <2>6 DEF RequestOrigin
 <2> QED BY ONLY <1>2, <1>3, <2>3, <2>4, <2>8, <2>9
<1> QED BY <1>4, <1>5

LEMMA RequestMoves ==
  ASSUME NEW r \in WantedRequests, NEW o \in Int, o # 0
  PROVE  RequestMoved(r, Normalize(r, o), o)
<1>1. /\ r.object \in Nat /\ r.base \in Extents /\ r.boxes \in Seq(Extents)
      /\ r.planes \in Seq(Extents) /\ r.mesh \in TriangleMeshes
      /\ r.cutters \in Seq(TriangleMeshes) /\ r.nodes \in Seq(NodeRecords)
 BY ONLY r \in WantedRequests, RequestFields
<1>2. r \in [object : Nat, base : Extents, boxes : Seq(Extents), planes : Seq(Extents),
            mesh : TriangleMeshes, cutters : Seq(TriangleMeshes), nodes : Seq(NodeRecords)]
 BY ONLY r \in WantedRequests DEF WantedRequests
<1>3. PICK s : s = Normalize(r, o)
 OBVIOUS
<1>4. CASE r.nodes # <<>>
 <2>1. PICK u : u = [k \in DOMAIN r.nodes |-> NormalizeNode(r.nodes[k], o)]
  OBVIOUS
 <2>2. u \in Seq(NodeRecords) /\ Len(u) = Len(r.nodes)
       /\ \A k \in 1 .. Len(r.nodes) : NodeMoved(r.nodes[k], u[k], o)
  BY ONLY <1>1, <2>1, o \in Int, o # 0, NodesMove, SMTT(30)
 <2>3. s = [r EXCEPT !.object = 0, !.nodes = u]
  BY ONLY <1>3, <1>4, <2>1 DEF Normalize
 <2>4. /\ s.object = 0 /\ s.nodes = u /\ s.base = r.base /\ s.boxes = r.boxes /\ s.planes = r.planes
       /\ s.mesh = r.mesh /\ s.cutters = r.cutters
  BY ONLY <1>2, <2>3
 <2>5. r.boxes = <<>> /\ r.planes = <<>> /\ r.mesh = NoMeshGiven /\ r.cutters = <<>>
  BY ONLY <1>4, r \in WantedRequests DEF WantedRequests
 <2>6. s \in [object : Nat, base : Extents, boxes : Seq(Extents), planes : Seq(Extents),
           mesh : TriangleMeshes, cutters : Seq(TriangleMeshes), nodes : Seq(NodeRecords)]
  BY ONLY <1>2, <2>2, <2>3
 <2>7. s \in WantedRequests
  BY ONLY <2>4, <2>5, <2>6 DEF WantedRequests
 <2>8. s.boxes = AllPlaced(r.boxes, o) /\ s.planes = AllPlaced(r.planes, o)
  BY ONLY <2>4, <2>5, EmptyMoves
 <2>9. MeshMoved(r.mesh, s.mesh, o)
  <3>1. r.mesh.positions = <<>> /\ s.mesh.positions = <<>> /\ s.mesh.indices = r.mesh.indices
   BY ONLY <2>4, <2>5 DEF NoMeshGiven
  <3> QED BY ONLY <3>1, EmptyMoves DEF MeshMoved
 <2>10. Len(s.cutters) = Len(r.cutters)
        /\ \A k \in 1 .. Len(r.cutters) : MeshMoved(r.cutters[k], s.cutters[k], o)
  BY ONLY <2>4, <2>5, EmptyMoves
 <2>11. s.base = (IF r.nodes = <<>> /\ r.mesh = NoMeshGiven THEN Placed(r.base, o) ELSE r.base)
  BY ONLY <1>4, <2>4
 <2>12. s.object = (IF o = 0 THEN r.object ELSE 0)
  BY ONLY <2>4, o # 0
 <2>13. Len(s.nodes) = Len(r.nodes) /\ \A k \in 1 .. Len(r.nodes) : NodeMoved(r.nodes[k], s.nodes[k], o)
  BY ONLY <2>2, <2>4
 <2>14. RequestMoved(r, s, o)
  BY ONLY <2>7, <2>8, <2>9, <2>10, <2>11, <2>12, <2>13, o \in Int, r \in WantedRequests DEF RequestMoved
 <2> QED BY ONLY <1>3, <2>14
<1>5. CASE r.nodes = <<>>
 <2>1. PICK ba, me, bo, cu, pl :
          /\ ba = (IF r.mesh = NoMeshGiven THEN Placed(r.base, o) ELSE r.base)
          /\ me = ShiftedMesh(r.mesh, o) /\ bo = AllPlaced(r.boxes, o)
          /\ cu = [k \in DOMAIN r.cutters |-> ShiftedMesh(r.cutters[k], o)]
          /\ pl = AllPlaced(r.planes, o)
  OBVIOUS
 <2>2. s = [r EXCEPT !.object = 0, !.base = ba, !.mesh = me, !.boxes = bo, !.cutters = cu, !.planes = pl]
  BY ONLY <1>3, <1>5, <2>1 DEF Normalize
 <2>3. ba \in Extents
  <3>1. Placed(r.base, o) \in Extents
   BY ONLY <1>1, o \in Int DEF Placed, Extents
  <3> QED BY ONLY <1>1, <2>1, <3>1
 <2>4. me \in TriangleMeshes /\ MeshMoved(r.mesh, me, o)
  <3>1. ShiftedMesh(r.mesh, o) \in TriangleMeshes /\ MeshMoved(r.mesh, ShiftedMesh(r.mesh, o), o)
   BY ONLY <1>1, o \in Int, ShiftedMeshFacts DEF MeshMoved
  <3> QED BY ONLY <2>1, <3>1
 <2>5. bo \in Seq(Extents) /\ pl \in Seq(Extents)
  BY ONLY <1>1, <2>1, o \in Int, AllPlacedFacts
 <2>6. cu \in Seq(TriangleMeshes) /\ Len(cu) = Len(r.cutters)
       /\ \A k \in 1 .. Len(r.cutters) : MeshMoved(r.cutters[k], cu[k], o)
  BY ONLY <1>1, <2>1, o \in Int, CuttersMove, ZenonT(40)
 <2>7. s \in [object : Nat, base : Extents, boxes : Seq(Extents), planes : Seq(Extents),
           mesh : TriangleMeshes, cutters : Seq(TriangleMeshes), nodes : Seq(NodeRecords)]
  BY ONLY <1>2, <2>2, <2>3, <2>4, <2>5, <2>6
 <2>8. /\ s.object = 0 /\ s.base = ba /\ s.mesh = me /\ s.boxes = bo /\ s.cutters = cu /\ s.planes = pl
       /\ s.nodes = <<>>
  BY ONLY <1>2, <1>5, <2>2
 <2>9. s \in WantedRequests
  BY ONLY <2>7, <2>8 DEF WantedRequests
 <2>10. Len(s.nodes) = Len(r.nodes) /\ \A k \in 1 .. Len(r.nodes) : NodeMoved(r.nodes[k], s.nodes[k], o)
  BY ONLY <1>5, <2>8, EmptyMoves
 <2>11. s.base = (IF r.nodes = <<>> /\ r.mesh = NoMeshGiven THEN Placed(r.base, o) ELSE r.base)
  BY ONLY <1>5, <2>1, <2>8
 <2>12. s.object = (IF o = 0 THEN r.object ELSE 0)
  BY ONLY <2>8, o # 0
 <2>13. s.boxes = AllPlaced(r.boxes, o) /\ s.planes = AllPlaced(r.planes, o)
  BY ONLY <2>1, <2>8
 <2>14. Len(s.cutters) = Len(r.cutters)
        /\ \A k \in 1 .. Len(r.cutters) : MeshMoved(r.cutters[k], s.cutters[k], o)
  BY ONLY <2>6, <2>8
 <2>15. MeshMoved(r.mesh, s.mesh, o)
  BY ONLY <2>4, <2>8
 <2>16. RequestMoved(r, s, o)
  BY ONLY <2>9, <2>10, <2>11, <2>12, <2>13, <2>14, <2>15, o \in Int, r \in WantedRequests DEF RequestMoved
 <2> QED BY ONLY <1>3, <2>16
<1> QED BY <1>4, <1>5
Elsewheres(o) == [e \in Entries |-> Elsewhere(e, o)]
Heard(o) == {Elsewhere(e, o) : e \in Entries}
\* b says the same as a of a place that lies elsewhere.
SaysMoved(o, a, b) == a \in Seq(Entries) /\ b = Image(Elsewheres(o), a)

LEMMA ElsewhereMaps ==
  ASSUME NEW o
  PROVE  Maps(Elsewheres(o), Entries, Heard(o)) /\ \A e \in Entries : Elsewheres(o)[e] = Elsewhere(e, o)
BY DEF Maps, Elsewheres, Heard

LEMMA ElsewhereIs ==
  ASSUME NEW o, NEW x
  PROVE  /\ \A name \in {"positions", "points"} : Elsewhere(<<name, x>>, o) = <<name, x - o>>
         /\ \A name \in {"boxes", "planes"} : Elsewhere(<<name, x>>, o) = <<name, Placed(x, o)>>
         /\ Elsewhere(<<"body", x>>, o) = <<"base", Placed(x, o)>>
         /\ Elsewhere(<<"object", x>>, o) = <<"object", IF o = 0 THEN x ELSE 0>>
         /\ \A name \in {"indices", "unions", "children", "base", "vector", "circular", "loop",
                         "sweep", "cutter"} : Elsewhere(<<name, x>>, o) = <<name, x>>
BY DEF Elsewhere

LEMMA OneMoves ==
  ASSUME NEW o, NEW e \in Entries
  PROVE  SaysMoved(o, <<e>>, <<Elsewhere(e, o)>>)
<1>1. Maps(Elsewheres(o), Entries, Heard(o)) /\ Elsewheres(o)[e] = Elsewhere(e, o)
 BY ElsewhereMaps
<1>2. Image(Elsewheres(o), <<e>>) = <<Elsewheres(o)[e]>>
 BY DEF Image
<1> QED BY <1>1, <1>2 DEF SaysMoved

LEMMA BothMove ==
  ASSUME NEW o, NEW a, NEW b, NEW c, NEW d, SaysMoved(o, a, b), SaysMoved(o, c, d)
  PROVE  SaysMoved(o, a \o c, b \o d)
<1>1. a \in Seq(Entries) /\ c \in Seq(Entries) /\ b = Image(Elsewheres(o), a) /\ d = Image(Elsewheres(o), c)
 BY DEF SaysMoved
<1>2. a \o c \in Seq(Entries)
 BY <1>1
<1>3. PICK g, T : g = Elsewheres(o) /\ Maps(g, Entries, T)
 BY ElsewhereMaps
<1>4. Image(g, a \o c) = Image(g, a) \o Image(g, c)
 <2>1. a \in Seq(Entries) /\ c \in Seq(Entries)
  BY ONLY <1>1
 <2>2. Maps(g, Entries, T)
  BY ONLY <1>3
 <2> QED BY ONLY <2>1, <2>2, ImageOfBoth
<1> QED BY ONLY <1>1, <1>2, <1>3, <1>4 DEF SaysMoved

LEMMA TaggedMoves ==
  ASSUME NEW o, NEW name \in Names, NEW v \in Seq(Values), NEW u, DOMAIN u = DOMAIN v,
         \A k \in 1 .. Len(v) : Elsewhere(<<name, v[k]>>, o) = <<name, u[k]>>
  PROVE  SaysMoved(o, Tagged(name, v), Tagged(name, u))
<1>1. PICK t : t = Tagged(name, v)
 OBVIOUS
<1>2. t \in Seq(Entries) /\ Len(t) = Len(v) /\ \A k \in 1 .. Len(v) : t[k] = <<name, v[k]>>
 BY <1>1, TaggedFacts
<1>3. DOMAIN t = 1 .. Len(v) /\ DOMAIN v = 1 .. Len(v)
 BY <1>2
<1>4. \A k \in 1 .. Len(v) : t[k] \in Entries
 BY <1>2
<1>5. \A k \in 1 .. Len(v) : Elsewheres(o)[t[k]] = <<name, u[k]>>
 BY <1>2, <1>4, ElsewhereMaps
<1>6. Tagged(name, u) = [k \in 1 .. Len(v) |-> <<name, u[k]>>]
 BY <1>3 DEF Tagged
<1>7. Image(Elsewheres(o), t) = [k \in 1 .. Len(v) |-> Elsewheres(o)[t[k]]]
 BY <1>3 DEF Image
<1>8. Image(Elsewheres(o), t) = [k \in 1 .. Len(v) |-> <<name, u[k]>>]
 BY ONLY <1>5, <1>7
<1> QED BY <1>1, <1>2, <1>6, <1>8 DEF SaysMoved

LEMMA PointsMove ==
  ASSUME NEW o \in Int, NEW name \in {"positions", "points"}, NEW v \in Seq(Int)
  PROVE  SaysMoved(o, Tagged(name, v), Tagged(name, Shifted(v, o)))
<1>1. name \in Names /\ v \in Seq(Values)
 BY Widened DEF Names
<1>2. PICK u : u = Shifted(v, o) /\ u \in Seq(Int) /\ Len(u) = Len(v)
               /\ \A k \in 1 .. Len(v) : u[k] = v[k] - o
 BY ShiftedFacts
<1>3. DOMAIN u = DOMAIN v
 BY <1>2
<1>4. \A k \in 1 .. Len(v) : Elsewhere(<<name, v[k]>>, o) = <<name, u[k]>>
 <2> TAKE k \in 1 .. Len(v)
 <2>1. PICK x : x = v[k]
  OBVIOUS
 <2>2. Elsewhere(<<name, x>>, o) = <<name, x - o>>
  BY ONLY ElsewhereIs, name \in {"positions", "points"}, ZenonT(40)
 <2>3. u[k] = x - o
  BY ONLY <1>2, <2>1
 <2> QED BY ONLY <2>1, <2>2, <2>3
<1>5. SaysMoved(o, Tagged(name, v), Tagged(name, u))
 BY ONLY <1>1, <1>3, <1>4, TaggedMoves
<1> QED BY <1>2, <1>5

LEMMA PlacesMove ==
  ASSUME NEW o \in Int, NEW name \in {"boxes", "planes"}, NEW v \in Seq(Extents)
  PROVE  SaysMoved(o, Tagged(name, v), Tagged(name, AllPlaced(v, o)))
<1>1. name \in Names /\ v \in Seq(Values)
 BY Widened DEF Names
<1>2. PICK u : u = AllPlaced(v, o) /\ u \in Seq(Extents) /\ Len(u) = Len(v)
               /\ \A k \in 1 .. Len(v) : u[k] = Placed(v[k], o)
 BY AllPlacedFacts
<1>3. DOMAIN u = DOMAIN v
 BY <1>2
<1>4. \A k \in 1 .. Len(v) : Elsewhere(<<name, v[k]>>, o) = <<name, u[k]>>
 <2> TAKE k \in 1 .. Len(v)
 <2>1. PICK x : x = v[k]
  OBVIOUS
 <2>2. Elsewhere(<<name, x>>, o) = <<name, Placed(x, o)>>
  BY ONLY ElsewhereIs, name \in {"boxes", "planes"}
 <2>3. u[k] = Placed(x, o)
  BY ONLY <1>2, <2>1
 <2> QED BY ONLY <2>1, <2>2, <2>3
<1>5. SaysMoved(o, Tagged(name, v), Tagged(name, u))
 BY ONLY <1>1, <1>3, <1>4, TaggedMoves
<1> QED BY <1>2, <1>5

LEMMA NumbersStay ==
  ASSUME NEW o \in Int, NEW name \in {"indices", "unions", "children"}, NEW v \in Seq(Nat)
  PROVE  SaysMoved(o, Tagged(name, v), Tagged(name, v))
<1>1. name \in Names /\ v \in Seq(Values)
 BY Widened DEF Names
<1>2. \A k \in 1 .. Len(v) : Elsewhere(<<name, v[k]>>, o) = <<name, v[k]>>
 <2> TAKE k \in 1 .. Len(v)
 <2>1. PICK x : x = v[k]
  OBVIOUS
 <2>2. Elsewhere(<<name, x>>, o) = <<name, x>>
  <3>1. \A n \in {"indices", "unions", "children", "base", "vector", "circular", "loop", "sweep",
                  "cutter"} : Elsewhere(<<n, x>>, o) = <<n, x>>
   BY ONLY ElsewhereIs, ZenonT(40)
  <3>2. CASE name = "indices"
   BY ONLY <3>1, <3>2
  <3>3. CASE name = "unions"
   BY ONLY <3>1, <3>3
  <3>4. CASE name = "children"
   BY ONLY <3>1, <3>4
  <3> QED BY ONLY <3>2, <3>3, <3>4, name \in {"indices", "unions", "children"}
 <2> QED BY ONLY <2>1, <2>2
<1> QED BY ONLY <1>1, <1>2, TaggedMoves

FlatImaged(E, ss, tt) == Image(E, FlattenSeq(ss)) = FlattenSeq(tt)

LEMMA SaidFlat ==
  ASSUME NEW E, NEW T, Maps(E, Entries, T), NEW ss \in Seq(Seq(Entries)), NEW tt \in Seq(Seq(T)),
         Len(tt) = Len(ss), \A k \in 1 .. Len(ss) : tt[k] = Image(E, ss[k])
  PROVE  FlatImaged(E, ss, tt)
BY ImageOfFlat DEF FlatImaged

LEMMA ListSaysMoved ==
  ASSUME NEW o, NEW S, NEW g, NEW h, NEW v \in Seq(S), NEW u \in Seq(S), Len(u) = Len(v),
         Maps(g, S, Seq(Entries)), Maps(h, S, Seq(Entries)),
         \A k \in 1 .. Len(v) : SaysMoved(o, g[v[k]], h[u[k]])
  PROVE  SaysMoved(o, FlattenSeq(Image(g, v)), FlattenSeq(Image(h, u)))
<1>1. PICK ss : ss = Image(g, v) /\ ss \in Seq(Seq(Entries)) /\ Len(ss) = Len(v)
                /\ \A k \in 1 .. Len(v) : ss[k] = g[v[k]]
 BY ImageType, SMTT(30)
<1>2. PICK tt : tt = Image(h, u) /\ tt \in Seq(Seq(Entries)) /\ Len(tt) = Len(v)
                /\ \A k \in 1 .. Len(v) : tt[k] = h[u[k]]
 BY ImageType
<1>3. PICK E, T : E = Elsewheres(o) /\ Maps(E, Entries, T)
 BY ElsewhereMaps
<1>4. \A k \in 1 .. Len(v) : tt[k] = Image(E, ss[k]) /\ ss[k] \in Seq(Entries)
 BY <1>1, <1>2, <1>3 DEF SaysMoved
<1>5. \A k \in 1 .. Len(v) : tt[k] \in Seq(T)
 BY ONLY <1>3, <1>4, ImageType
<1>6. tt \in Seq(Seq(T))
 BY ONLY <1>2, <1>5, SMTT(30)
<1>7. FlatImaged(E, ss, tt)
 <2>1. Len(tt) = Len(ss) /\ \A k \in 1 .. Len(ss) : tt[k] = Image(E, ss[k])
  BY ONLY <1>1, <1>2, <1>4
 <2>2. ss \in Seq(Seq(Entries))
  BY ONLY <1>1
 <2>3. Maps(E, Entries, T)
  BY ONLY <1>3
 <2> QED BY ONLY <1>6, <2>1, <2>2, <2>3, SaidFlat
<1>8. FlattenSeq(ss) \in Seq(Entries)
 BY <1>1, FlatType
<1> QED BY ONLY <1>1, <1>2, <1>3, <1>7, <1>8 DEF SaysMoved, FlatImaged
LEMMA MeshSaysMoved ==
  ASSUME NEW o \in Int, NEW m \in TriangleMeshes, NEW u, MeshMoved(m, u, o)
  PROVE  SaysMoved(o, MeshListing(m), Tagged("positions", u.positions) \o Tagged("indices", u.indices))
<1>1. /\ u.positions = Shifted(m.positions, o) /\ u.indices = m.indices
      /\ m.positions \in Seq(Int) /\ m.indices \in Seq(Nat)
 BY DEF MeshMoved, TriangleMeshes
<1>2. SaysMoved(o, Tagged("positions", m.positions), Tagged("positions", u.positions))
 BY ONLY <1>1, o \in Int, PointsMove
<1>3. SaysMoved(o, Tagged("indices", m.indices), Tagged("indices", u.indices))
 BY ONLY <1>1, o \in Int, NumbersStay
<1> QED BY ONLY <1>2, <1>3, BothMove DEF MeshListing

LEMMA LoopSaysMoved ==
  ASSUME NEW o \in Int, NEW l \in Loops
  PROVE  SaysMoved(o, LoopListing(l), LoopListing(Shifted(l, o)))
<1>1. PICK u : u = Shifted(l, o) /\ u \in Seq(Int) /\ Len(u) = Len(l)
 BY ShiftedFacts DEF Loops
<1>2. SaysMoved(o, Tagged("points", l), Tagged("points", u))
 <2>1. l \in Seq(Int)
  BY DEF Loops
 <2> QED BY ONLY <1>1, <2>1, o \in Int, PointsMove
<1>3. PICK c \in Int : c = 3 * Len(l)
 BY DEF Loops
<1>4. <<"loop", c>> \in Entries
 BY EntryFacts DEF Names
<1>5. Elsewhere(<<"loop", c>>, o) = <<"loop", c>>
 BY ONLY ElsewhereIs, ZenonT(40)
<1>6. SaysMoved(o, <<<<"loop", c>>>>, <<<<"loop", c>>>>)
 BY ONLY <1>4, <1>5, OneMoves
<1>7. SaysMoved(o, <<<<"loop", c>>>> \o Tagged("points", l), <<<<"loop", c>>>> \o Tagged("points", u))
 BY ONLY <1>2, <1>6, BothMove
<1>8. LoopListing(u) = <<<<"loop", c>>>> \o Tagged("points", u)
 BY ONLY <1>1, <1>3 DEF LoopListing
<1>9. LoopListing(l) = <<<<"loop", c>>>> \o Tagged("points", l)
 BY ONLY <1>3 DEF LoopListing
<1> QED BY ONLY <1>1, <1>7, <1>8, <1>9

LEMMA LoopsSayMoved ==
  ASSUME NEW o \in Int, NEW v \in Seq(Loops)
  PROVE  SaysMoved(o, FlattenSeq(Each(LoopListing, v)), FlattenSeq(Each(LoopListing, ShiftedLoops(v, o))))
<1>1. PICK u : u = ShiftedLoops(v, o) /\ u \in Seq(Loops) /\ Len(u) = Len(v)
               /\ \A k \in 1 .. Len(v) : u[k] = Shifted(v[k], o) /\ v[k] \in Loops
 BY ShiftedLoopsFacts
<1>2. /\ Each(LoopListing, v) = Image(LoopSays, v) /\ Each(LoopListing, u) = Image(LoopSays, u)
      /\ Maps(LoopSays, Loops, Seq(Entries))
 BY <1>1, LoopsSaid
<1>3. \A k \in 1 .. Len(v) : SaysMoved(o, LoopSays[v[k]], LoopSays[u[k]])
 <2> TAKE k \in 1 .. Len(v)
 <2>1. PICK l, w : l = v[k] /\ w = u[k] /\ w = Shifted(l, o) /\ l \in Loops
  BY <1>1
 <2>2. w \in Loops
  BY <1>1, <2>1
 <2>3. LoopSays[l] = LoopListing(l) /\ LoopSays[w] = LoopListing(w)
  BY ONLY <2>1, <2>2 DEF LoopSays
 <2>4. SaysMoved(o, LoopListing(l), LoopListing(w))
  BY ONLY <2>1, o \in Int, LoopSaysMoved
 <2> QED BY ONLY <2>1, <2>3, <2>4
<1>4. SaysMoved(o, FlattenSeq(Image(LoopSays, v)), FlattenSeq(Image(LoopSays, u)))
 <2>1. u \in Seq(Loops) /\ Len(u) = Len(v) /\ Maps(LoopSays, Loops, Seq(Entries))
  BY ONLY <1>1, <1>2
 <2> QED BY ONLY <1>3, <2>1, v \in Seq(Loops), ListSaysMoved
<1> QED BY ONLY <1>1, <1>2, <1>4

LEMMA SweepSaysMoved ==
  ASSUME NEW o \in Int, NEW l \in Seq(Loops)
  PROVE  SaysMoved(o, SweepListing(l), SweepListing(ShiftedLoops(l, o)))
<1>1. PICK u : u = ShiftedLoops(l, o) /\ Len(u) = Len(l)
 BY ShiftedLoopsFacts
<1>2. PICK f, g : f = FlattenSeq(Each(LoopListing, l)) /\ g = FlattenSeq(Each(LoopListing, u))
 OBVIOUS
<1>3. SaysMoved(o, f, g)
 BY ONLY <1>1, <1>2, o \in Int, l \in Seq(Loops), LoopsSayMoved
<1>4. PICK c \in Int : c = Len(l)
 OBVIOUS
<1>5. <<"sweep", c>> \in Entries
 BY EntryFacts DEF Names
<1>6. Elsewhere(<<"sweep", c>>, o) = <<"sweep", c>>
 BY ONLY ElsewhereIs, ZenonT(40)
<1>7. SaysMoved(o, <<<<"sweep", c>>>>, <<<<"sweep", c>>>>)
 BY ONLY <1>5, <1>6, OneMoves
<1>8. SaysMoved(o, <<<<"sweep", c>>>> \o f, <<<<"sweep", c>>>> \o g)
 BY ONLY <1>3, <1>7, BothMove
<1>9. SweepListing(u) = <<<<"sweep", c>>>> \o g /\ SweepListing(l) = <<<<"sweep", c>>>> \o f
 BY ONLY <1>1, <1>2, <1>4 DEF SweepListing
<1> QED BY ONLY <1>1, <1>8, <1>9

LEMMA SweepsSayMoved ==
  ASSUME NEW o \in Int, NEW v \in Seq(Seq(Loops))
  PROVE  SaysMoved(o, FlattenSeq(Each(SweepListing, v)), FlattenSeq(Each(SweepListing, SweepMoved(v, o))))
<1>1. PICK u : u = SweepMoved(v, o) /\ u \in Seq(Seq(Loops)) /\ Len(u) = Len(v)
               /\ \A k \in 1 .. Len(v) : u[k] = ShiftedLoops(v[k], o) /\ v[k] \in Seq(Loops)
 BY SweepMovedFacts
<1>2. /\ Each(SweepListing, v) = Image(SweepSays, v) /\ Each(SweepListing, u) = Image(SweepSays, u)
      /\ Maps(SweepSays, Seq(Loops), Seq(Entries))
 BY <1>1, SweepsSaid
<1>3. \A k \in 1 .. Len(v) : SaysMoved(o, SweepSays[v[k]], SweepSays[u[k]])
 <2> TAKE k \in 1 .. Len(v)
 <2>1. PICK l, w : l = v[k] /\ w = u[k] /\ w = ShiftedLoops(l, o) /\ l \in Seq(Loops)
  BY <1>1
 <2>2. w \in Seq(Loops)
  BY ONLY <2>1, o \in Int, ShiftedLoopsFacts
 <2>3. SweepSays[l] = SweepListing(l) /\ SweepSays[w] = SweepListing(w)
  BY ONLY <2>1, <2>2 DEF SweepSays
 <2>4. SaysMoved(o, SweepListing(l), SweepListing(w))
  BY ONLY <2>1, o \in Int, SweepSaysMoved
 <2> QED BY ONLY <2>1, <2>3, <2>4
<1>4. SaysMoved(o, FlattenSeq(Image(SweepSays, v)), FlattenSeq(Image(SweepSays, u)))
 <2>1. u \in Seq(Seq(Loops)) /\ Len(u) = Len(v) /\ Maps(SweepSays, Seq(Loops), Seq(Entries))
  BY ONLY <1>1, <1>2
 <2> QED BY ONLY <1>3, <2>1, v \in Seq(Seq(Loops)), ListSaysMoved
<1> QED BY ONLY <1>1, <1>2, <1>4

LEMMA CutterSaysMoved ==
  ASSUME NEW o \in Int, NEW m \in TriangleMeshes, NEW u \in TriangleMeshes, MeshMoved(m, u, o)
  PROVE  SaysMoved(o, CutterListing(m), CutterListing(u))
<1>1. PICK a, b : a = MeshListing(m) /\ b = MeshListing(u)
 OBVIOUS
<1>2. SaysMoved(o, a, b)
 <2>1. b = Tagged("positions", u.positions) \o Tagged("indices", u.indices)
  BY ONLY <1>1 DEF MeshListing
 <2>2. MeshMoved(m, u, o) /\ m \in TriangleMeshes
  OBVIOUS
 <2>3. SaysMoved(o, MeshListing(m), Tagged("positions", u.positions) \o Tagged("indices", u.indices))
  BY ONLY <2>2, o \in Int, MeshSaysMoved
 <2> QED BY ONLY <1>1, <2>1, <2>3
<1>3. Len(u.positions) = Len(m.positions) /\ 3 * Len(m.positions) \in Int
 <2>1. u.positions = Shifted(m.positions, o) /\ m.positions \in Seq(Int)
  BY DEF MeshMoved, TriangleMeshes
 <2> QED BY <2>1, ShiftedFacts
<1>4. PICK c \in Int : c = 3 * Len(m.positions) /\ c = 3 * Len(u.positions)
 BY ONLY <1>3
<1>5. <<"cutter", c>> \in Entries
 BY EntryFacts DEF Names
<1>6. Elsewhere(<<"cutter", c>>, o) = <<"cutter", c>>
 BY ONLY ElsewhereIs, ZenonT(40)
<1>7. SaysMoved(o, <<<<"cutter", c>>>>, <<<<"cutter", c>>>>)
 BY ONLY <1>5, <1>6, OneMoves
<1>8. SaysMoved(o, <<<<"cutter", c>>>> \o a, <<<<"cutter", c>>>> \o b)
 BY ONLY <1>2, <1>7, BothMove
<1>9. CutterListing(u) = <<<<"cutter", c>>>> \o b /\ CutterListing(m) = <<<<"cutter", c>>>> \o a
 BY ONLY <1>1, <1>4 DEF CutterListing
<1> QED BY ONLY <1>8, <1>9

LEMMA CuttersSayMoved ==
  ASSUME NEW o \in Int, NEW v \in Seq(TriangleMeshes), NEW u \in Seq(TriangleMeshes), Len(u) = Len(v),
         \A k \in 1 .. Len(v) : MeshMoved(v[k], u[k], o)
  PROVE  SaysMoved(o, FlattenSeq(Each(CutterListing, v)), FlattenSeq(Each(CutterListing, u)))
<1>1. v \in Seq(TriangleMeshes) /\ u \in Seq(TriangleMeshes) /\ Len(u) = Len(v)
      /\ \A k \in 1 .. Len(v) : MeshMoved(v[k], u[k], o) /\ v[k] \in TriangleMeshes /\ u[k] \in TriangleMeshes
 OBVIOUS
<1>2. /\ Each(CutterListing, v) = Image(CutterSays, v) /\ Each(CutterListing, u) = Image(CutterSays, u)
      /\ Maps(CutterSays, TriangleMeshes, Seq(Entries))
 BY ONLY <1>1, CuttersSaid
<1>3. \A k \in 1 .. Len(v) : SaysMoved(o, CutterSays[v[k]], CutterSays[u[k]])
 <2> TAKE k \in 1 .. Len(v)
 <2>1. PICK l \in TriangleMeshes, w \in TriangleMeshes : l = v[k] /\ w = u[k] /\ MeshMoved(l, w, o)
  BY <1>1
 <2>3. CutterSays[l] = CutterListing(l) /\ CutterSays[w] = CutterListing(w)
  BY ONLY <2>1, l \in TriangleMeshes, w \in TriangleMeshes DEF CutterSays
 <2>4. SaysMoved(o, CutterListing(l), CutterListing(w))
  <3>1. MeshMoved(l, w, o)
   BY ONLY <2>1
  <3> QED BY ONLY <3>1, l \in TriangleMeshes, w \in TriangleMeshes, o \in Int, CutterSaysMoved
 <2> QED BY ONLY <2>1, <2>3, <2>4
<1>4. SaysMoved(o, FlattenSeq(Image(CutterSays, v)), FlattenSeq(Image(CutterSays, u)))
 <2>1. u \in Seq(TriangleMeshes) /\ Len(u) = Len(v) /\ Maps(CutterSays, TriangleMeshes, Seq(Entries))
       /\ v \in Seq(TriangleMeshes)
  BY ONLY <1>1, <1>2
 <2> QED BY ONLY <1>3, <2>1, ListSaysMoved
<1> QED BY ONLY <1>2, <1>4
\* What is read of a node is its listing, but for the name of the extent of a body.
NodeSaysAll(n) ==
  NodeSays(n) =
     NodeOpening(n) \o Tagged("boxes", n.boxes) \o Tagged("planes", n.planes)
     \o (Tagged("positions", n.mesh.positions) \o Tagged("indices", n.mesh.indices))
     \o FlattenSeq(Each(LoopListing, n.extrusion)) \o FlattenSeq(Each(SweepListing, n.sweep))
     \o Tagged("unions", n.unions) \o Tagged("children", n.children)

LEMMA NodeIsListed ==
  ASSUME NEW n \in NodeRecords
  PROVE  NodeSaysAll(n)
<1>1. /\ n.boxes \in Seq(Extents) /\ n.planes \in Seq(Extents) /\ n.mesh.positions \in Seq(Int)
      /\ n.mesh.indices \in Seq(Nat) /\ n.children \in Seq(Nat) /\ n.unions \in Seq(Nat)
      /\ n.extrusion \in Seq(Loops) /\ n.sweep \in Seq(Seq(Loops))
 BY NodeFields, MeshFacts
<1>3. PICK p1 \in PartRecords, p2 \in PartRecords, p3 \in PartRecords, p4 \in PartRecords,
           p5 \in PartRecords, p6 \in PartRecords, p7 \in PartRecords, p8 \in PartRecords :
         NodeLined(n, p1, p2, p3, p4, p5, p6, p7, p8)
 BY ONLY n \in NodeRecords, NodeLines
<1>6. TodoSays(NodeParts(n))
         = p1.says \o (p2.says \o (p3.says \o (p4.says \o (p5.says \o (p6.says \o
             (p7.says \o p8.says))))))
 BY ONLY <1>3 DEF NodeLined, EightParts
<1>7. PICK a \in Seq(Entries), b \in Seq(Entries), c \in Seq(Entries), d \in Seq(Entries),
           e \in Seq(Entries), f \in Seq(Entries), g \in Seq(Entries), h \in Seq(Entries),
           p \in Seq(Entries), i \in Seq(Entries) :
         /\ a = NodeOpening(n) /\ b = p1.says /\ c = p2.says /\ p = p3.says /\ i = p4.says
         /\ d = p \o i /\ e = p5.says /\ f = p6.says /\ g = p7.says /\ h = p8.says
 <2>1. NodeOpening(n) \in Seq(Entries)
  BY ONLY n \in NodeRecords, NodePartsFacts
 <2>2. /\ p1.says \in Seq(Entries) /\ p2.says \in Seq(Entries) /\ p3.says \in Seq(Entries)
       /\ p4.says \in Seq(Entries) /\ p5.says \in Seq(Entries) /\ p6.says \in Seq(Entries)
       /\ p7.says \in Seq(Entries) /\ p8.says \in Seq(Entries)
  BY ONLY p1 \in PartRecords, p2 \in PartRecords, p3 \in PartRecords, p4 \in PartRecords,
          p5 \in PartRecords, p6 \in PartRecords, p7 \in PartRecords, p8 \in PartRecords
     DEF PartRecords
 <2>3. p3.says \o p4.says \in Seq(Entries)
  BY ONLY <2>2, ConcatProperties
 <2> QED BY ONLY <2>1, <2>2, <2>3
<1>8. EightJoined(a, b, c, d, e, f, g, h, p, i)
 <2>1. d = p \o i
  BY ONLY <1>7
 <2> QED BY ONLY <2>1, a \in Seq(Entries), b \in Seq(Entries), c \in Seq(Entries), d \in Seq(Entries),
         e \in Seq(Entries), f \in Seq(Entries), g \in Seq(Entries), h \in Seq(Entries),
         p \in Seq(Entries), i \in Seq(Entries), EightJoin
<1>9. NodeSays(n) = a \o (b \o (c \o (p \o (i \o (e \o (f \o (g \o h)))))))
 BY ONLY <1>6, <1>7 DEF NodeSays
<1>10. NodeSays(n) = a \o b \o c \o d \o e \o f \o g \o h
 BY ONLY <1>8, <1>9 DEF EightJoined, SixJoined
<1>11. /\ b = Tagged("boxes", n.boxes) /\ c = Tagged("planes", n.planes)
       /\ p = Tagged("positions", n.mesh.positions) /\ i = Tagged("indices", n.mesh.indices)
       /\ e = FlattenSeq(Image(LoopSays, n.extrusion)) /\ f = FlattenSeq(Image(SweepSays, n.sweep))
       /\ g = Tagged("unions", n.unions) /\ h = Tagged("children", n.children)
 BY ONLY <1>3, <1>7 DEF NodeLined, RunPart, LoopsPart, SweepsPart
<1>12. Each(LoopListing, n.extrusion) = Image(LoopSays, n.extrusion)
 BY ONLY <1>1, LoopsSaid
<1>13. Each(SweepListing, n.sweep) = Image(SweepSays, n.sweep)
 BY ONLY <1>1, SweepsSaid
<1>14. a = NodeOpening(n) /\ d = p \o i
 BY ONLY <1>7
<1> QED BY ONLY <1>10, <1>11, <1>12, <1>13, <1>14 DEF NodeSaysAll

LEMMA OpeningSaysMoved ==
  ASSUME NEW n, NEW m, NEW o, NodeMoved(n, m, o)
  PROVE  SaysMoved(o, <<<<"object", n.object>>, <<BaseName(IsBody(n)), n.base>>,
                        <<"vector", n.vector>>, <<"circular", n.circular>>>>, NodeOpening(m))
<1>1. /\ n \in NodeRecords /\ o \in Int /\ m.object = (IF o = 0 THEN n.object ELSE 0)
      /\ m.base = (IF IsBody(n) THEN Placed(n.base, o) ELSE n.base)
      /\ m.vector = n.vector /\ m.circular = n.circular
 BY DEF NodeMoved
<1>2. n.object \in Int /\ n.base \in Extents /\ n.vector \in Int /\ n.circular \in BOOLEAN
 BY ONLY <1>1, NodeFields
<1>3. PICK a, b, c, d : /\ a = <<"object", n.object>> /\ b = <<BaseName(IsBody(n)), n.base>>
                        /\ c = <<"vector", n.vector>> /\ d = <<"circular", n.circular>>
 OBVIOUS
<1>4. BaseName(IsBody(n)) \in Names /\ "object" \in Names /\ "vector" \in Names /\ "circular" \in Names
 BY DEF BaseName, Names
<1>5. a \in Entries /\ b \in Entries /\ c \in Entries /\ d \in Entries
 BY ONLY <1>2, <1>3, <1>4, EntryFacts
<1>6. Elsewhere(a, o) = <<"object", m.object>>
 <2>1. Elsewhere(<<"object", n.object>>, o) = <<"object", IF o = 0 THEN n.object ELSE 0>>
  BY ONLY ElsewhereIs
 <2> QED BY ONLY <1>1, <1>3, <2>1
<1>7. Elsewhere(b, o) = <<"base", m.base>>
 <2>1. CASE IsBody(n)
  <3>1. b = <<"body", n.base>>
   BY ONLY <1>3, <2>1 DEF BaseName
  <3>2. Elsewhere(<<"body", n.base>>, o) = <<"base", Placed(n.base, o)>>
   BY ONLY ElsewhereIs
  <3> QED BY ONLY <1>1, <2>1, <3>1, <3>2
 <2>2. CASE ~IsBody(n)
  <3>1. b = <<"base", n.base>>
   BY ONLY <1>3, <2>2 DEF BaseName
  <3>2. Elsewhere(<<"base", n.base>>, o) = <<"base", n.base>>
   BY ONLY ElsewhereIs, ZenonT(40)
  <3> QED BY ONLY <1>1, <2>2, <3>1, <3>2
 <2> QED BY ONLY <2>1, <2>2
<1>8. Elsewhere(c, o) = <<"vector", m.vector>>
 <2>1. Elsewhere(<<"vector", n.vector>>, o) = <<"vector", n.vector>>
  BY ONLY ElsewhereIs, ZenonT(40)
 <2> QED BY ONLY <1>1, <1>3, <2>1
<1>9. Elsewhere(d, o) = <<"circular", m.circular>>
 <2>1. Elsewhere(<<"circular", n.circular>>, o) = <<"circular", n.circular>>
  BY ONLY ElsewhereIs, ZenonT(40)
 <2> QED BY ONLY <1>1, <1>3, <2>1
<1>10. PICK E : E = Elsewheres(o) /\ \A x \in Entries : E[x] = Elsewhere(x, o)
 BY ElsewhereMaps
<1>11. Image(E, <<a, b, c, d>>) = <<E[a], E[b], E[c], E[d]>>
 BY ONLY TRUE DEF Image
<1>12. Image(E, <<a, b, c, d>>) = NodeOpening(m)
 BY ONLY <1>5, <1>6, <1>7, <1>8, <1>9, <1>10, <1>11 DEF NodeOpening
<1>13. <<a, b, c, d>> \in Seq(Entries)
 BY ONLY <1>5
<1>14. SaysMoved(o, <<a, b, c, d>>, NodeOpening(m))
 BY ONLY <1>10, <1>12, <1>13 DEF SaysMoved
<1> QED BY ONLY <1>3, <1>14

LEMMA NodeSaysMoved ==
  ASSUME NEW n, NEW m, NEW o, NodeMoved(n, m, o)
  PROVE  SaysMoved(o, NodeListing(n), NodeSays(m))
<1>1. /\ n \in NodeRecords /\ m \in NodeRecords /\ o \in Int
      /\ m.boxes = AllPlaced(n.boxes, o) /\ m.planes = AllPlaced(n.planes, o)
      /\ MeshMoved(n.mesh, m.mesh, o)
      /\ m.extrusion = ShiftedLoops(n.extrusion, o) /\ m.sweep = SweepMoved(n.sweep, o)
      /\ m.unions = n.unions /\ m.children = n.children
 BY DEF NodeMoved
<1>2. /\ n.boxes \in Seq(Extents) /\ n.planes \in Seq(Extents) /\ n.mesh \in TriangleMeshes
      /\ n.children \in Seq(Nat) /\ n.unions \in Seq(Nat)
      /\ n.extrusion \in Seq(Loops) /\ n.sweep \in Seq(Seq(Loops))
 BY ONLY <1>1, NodeFields
<1>3. PICK a, b, c, d, e, f, g, h :
         /\ a = <<<<"object", n.object>>, <<BaseName(IsBody(n)), n.base>>,
                          <<"vector", n.vector>>, <<"circular", n.circular>>>>
         /\ b = Tagged("boxes", n.boxes) /\ c = Tagged("planes", n.planes)
         /\ d = MeshListing(n.mesh) /\ e = FlattenSeq(Each(LoopListing, n.extrusion))
         /\ f = FlattenSeq(Each(SweepListing, n.sweep)) /\ g = Tagged("unions", n.unions)
         /\ h = Tagged("children", n.children)
 OBVIOUS
<1>4. PICK aa, bb, cc, dd, ee, ff, gg, hh :
         /\ aa = NodeOpening(m)
         /\ bb = Tagged("boxes", m.boxes) /\ cc = Tagged("planes", m.planes)
         /\ dd = Tagged("positions", m.mesh.positions) \o Tagged("indices", m.mesh.indices)
         /\ ee = FlattenSeq(Each(LoopListing, m.extrusion))
         /\ ff = FlattenSeq(Each(SweepListing, m.sweep)) /\ gg = Tagged("unions", m.unions)
         /\ hh = Tagged("children", m.children)
 OBVIOUS
<1>5. SaysMoved(o, a, aa)
 BY ONLY <1>3, <1>4, NodeMoved(n, m, o), OpeningSaysMoved
<1>6. SaysMoved(o, b, bb)
 <2>1. SaysMoved(o, Tagged("boxes", n.boxes), Tagged("boxes", AllPlaced(n.boxes, o)))
  BY ONLY <1>1, <1>2, PlacesMove
 <2> QED BY ONLY <1>1, <1>3, <1>4, <2>1
<1>7. SaysMoved(o, c, cc)
 <2>1. SaysMoved(o, Tagged("planes", n.planes), Tagged("planes", AllPlaced(n.planes, o)))
  BY ONLY <1>1, <1>2, PlacesMove
 <2> QED BY ONLY <1>1, <1>3, <1>4, <2>1
<1>8. SaysMoved(o, d, dd)
 <2>1. MeshMoved(n.mesh, m.mesh, o) /\ n.mesh \in TriangleMeshes /\ o \in Int
  BY ONLY <1>1, <1>2
 <2> QED BY ONLY <1>3, <1>4, <2>1, MeshSaysMoved
<1>9. SaysMoved(o, e, ee)
 BY ONLY <1>1, <1>2, <1>3, <1>4, LoopsSayMoved
<1>10. SaysMoved(o, f, ff)
 BY ONLY <1>1, <1>2, <1>3, <1>4, SweepsSayMoved
<1>11. SaysMoved(o, g, gg) /\ SaysMoved(o, h, hh)
 <2>1. SaysMoved(o, Tagged("unions", n.unions), Tagged("unions", n.unions))
       /\ SaysMoved(o, Tagged("children", n.children), Tagged("children", n.children))
  BY ONLY <1>1, <1>2, NumbersStay
 <2> QED BY ONLY <1>1, <1>3, <1>4, <2>1
<1>12. SaysMoved(o, a \o b, aa \o bb)
 BY ONLY <1>5, <1>6, BothMove
<1>13. SaysMoved(o, a \o b \o c, aa \o bb \o cc)
 BY ONLY <1>7, <1>12, BothMove
<1>14. SaysMoved(o, a \o b \o c \o d, aa \o bb \o cc \o dd)
 BY ONLY <1>8, <1>13, BothMove
<1>15. SaysMoved(o, a \o b \o c \o d \o e, aa \o bb \o cc \o dd \o ee)
 BY ONLY <1>9, <1>14, BothMove
<1>16. SaysMoved(o, a \o b \o c \o d \o e \o f, aa \o bb \o cc \o dd \o ee \o ff)
 BY ONLY <1>10, <1>15, BothMove
<1>17. SaysMoved(o, a \o b \o c \o d \o e \o f \o g, aa \o bb \o cc \o dd \o ee \o ff \o gg)
 BY ONLY <1>11, <1>16, BothMove
<1>18. SaysMoved(o, a \o b \o c \o d \o e \o f \o g \o h, aa \o bb \o cc \o dd \o ee \o ff \o gg \o hh)
 BY ONLY <1>11, <1>17, BothMove
<1>19. NodeListing(n) = a \o b \o c \o d \o e \o f \o g \o h
 BY ONLY <1>3 DEF NodeListing
<1>20. NodeSays(m) = aa \o bb \o cc \o dd \o ee \o ff \o gg \o hh
 <2>1. NodeSaysAll(m)
  BY ONLY <1>1, NodeIsListed
 <2> QED BY ONLY <1>4, <2>1 DEF NodeSaysAll
<1> QED BY ONLY <1>18, <1>19, <1>20
\* What is read of a request.
ReadsAll(r) ==
  Reads(r) =
     RequestOpening(r) \o Tagged("boxes", r.boxes) \o Tagged("planes", r.planes)
     \o (Tagged("positions", r.mesh.positions) \o Tagged("indices", r.mesh.indices))
     \o FlattenSeq(Each(CutterListing, r.cutters)) \o FlattenSeq(Image(NodeTells, r.nodes))

LEMMA RequestIsListed ==
  ASSUME NEW r \in WantedRequests
  PROVE  ReadsAll(r) /\ Reads(r) \in Seq(Entries)
<1>1. /\ r.boxes \in Seq(Extents) /\ r.planes \in Seq(Extents) /\ r.mesh.positions \in Seq(Int)
      /\ r.mesh.indices \in Seq(Nat) /\ r.cutters \in Seq(TriangleMeshes) /\ r.nodes \in Seq(NodeRecords)
      /\ r.object \in Int /\ r.base \in Extents
 BY RequestFields, MeshFacts
<1>2. /\ "boxes" \in Names /\ "planes" \in Names /\ "positions" \in Names /\ "indices" \in Names
      /\ "object" \in Names /\ "base" \in Names
 BY DEF Names
<1>3. PICK p1 \in PartRecords, p2 \in PartRecords, p3 \in PartRecords, p4 \in PartRecords,
           p5 \in PartRecords, p6 \in PartRecords :
         /\ p1 = RunPart("boxes", 48, r.boxes) /\ p2 = RunPart("planes", 48, r.planes)
         /\ p3 = RunPart("positions", 24, r.mesh.positions)
         /\ p4 = RunPart("indices", 4, r.mesh.indices)
         /\ p5 = CuttersPart(r.cutters) /\ p6 = NodesPart(r.nodes)
 <2>1. /\ RunPart("boxes", 48, r.boxes) \in PartRecords /\ RunPart("planes", 48, r.planes) \in PartRecords
       /\ RunPart("positions", 24, r.mesh.positions) \in PartRecords
       /\ RunPart("indices", 4, r.mesh.indices) \in PartRecords
  BY <1>1, <1>2, RunPartFacts
 <2>2. CuttersPart(r.cutters) \in PartRecords
  BY ONLY <1>1, CuttersPartFacts
 <2>3. NodesPart(r.nodes) \in PartRecords
  BY ONLY <1>1, NodesSaid
 <2> QED BY ONLY <2>1, <2>2, <2>3
<1>4. RequestParts(r) = <<p1, p2, p3, p4, p5, p6>>
 BY ONLY <1>3 DEF RequestParts
<1>5. SixParts(p1, p2, p3, p4, p5, p6)
 <2>1. /\ p1 \in PartRecords /\ p2 \in PartRecords /\ p3 \in PartRecords /\ p4 \in PartRecords
       /\ p5 \in PartRecords /\ p6 \in PartRecords
  OBVIOUS
 <2> QED BY ONLY <2>1, TodoOfSix
<1>6. TodoSays(RequestParts(r))
         = p1.says \o (p2.says \o (p3.says \o (p4.says \o (p5.says \o p6.says))))
 BY ONLY <1>4, <1>5 DEF SixParts
<1>7. PICK a \in Seq(Entries), b \in Seq(Entries), c \in Seq(Entries), d \in Seq(Entries),
           e \in Seq(Entries), f \in Seq(Entries), p \in Seq(Entries), i \in Seq(Entries) :
         /\ a = RequestOpening(r) /\ b = p1.says /\ c = p2.says /\ p = p3.says /\ i = p4.says
         /\ d = p \o i /\ e = p5.says /\ f = p6.says
 <2>1. RequestOpening(r) \in Seq(Entries)
  <3>1. PICK x \in Entries, y \in Entries : x = <<"object", r.object>> /\ y = <<"base", r.base>>
   BY ONLY <1>1, <1>2, EntryFacts
  <3>2. <<x, y>> \in Seq(Entries)
   BY ONLY x \in Entries, y \in Entries
  <3> QED BY ONLY <3>1, <3>2 DEF RequestOpening
 <2>2. /\ p1.says \in Seq(Entries) /\ p2.says \in Seq(Entries) /\ p3.says \in Seq(Entries)
       /\ p4.says \in Seq(Entries) /\ p5.says \in Seq(Entries) /\ p6.says \in Seq(Entries)
  BY ONLY p1 \in PartRecords, p2 \in PartRecords, p3 \in PartRecords, p4 \in PartRecords,
          p5 \in PartRecords, p6 \in PartRecords DEF PartRecords
 <2>3. p3.says \o p4.says \in Seq(Entries)
  BY ONLY <2>2, ConcatProperties
 <2> QED BY ONLY <2>1, <2>2, <2>3
<1>8. SixJoined(a, b, c, d, e, f, p, i)
 <2>1. d = p \o i
  BY ONLY <1>7
 <2> QED BY ONLY <2>1, a \in Seq(Entries), b \in Seq(Entries), c \in Seq(Entries), d \in Seq(Entries),
         e \in Seq(Entries), f \in Seq(Entries), p \in Seq(Entries), i \in Seq(Entries), SixJoin
<1>9. Reads(r) = a \o (b \o (c \o (p \o (i \o (e \o f)))))
 BY ONLY <1>6, <1>7 DEF Reads
<1>10. Reads(r) = a \o b \o c \o d \o e \o f
 BY ONLY <1>8, <1>9 DEF SixJoined
<1>11. /\ b = Tagged("boxes", r.boxes) /\ c = Tagged("planes", r.planes)
       /\ p = Tagged("positions", r.mesh.positions) /\ i = Tagged("indices", r.mesh.indices)
       /\ e = FlattenSeq(Image(CutterSays, r.cutters)) /\ f = FlattenSeq(Image(NodeTells, r.nodes))
 BY ONLY <1>3, <1>7 DEF RunPart, CuttersPart, NodesPart
<1>12. Each(CutterListing, r.cutters) = Image(CutterSays, r.cutters)
 BY ONLY <1>1, CuttersSaid
<1>13. a = RequestOpening(r) /\ d = p \o i
 BY ONLY <1>7
<1>14. ReadsAll(r)
 BY ONLY <1>10, <1>11, <1>12, <1>13 DEF ReadsAll
<1>15. Reads(r) \in Seq(Entries)
 <2>1. TodoSays(RequestParts(r)) \in Seq(Entries)
  <3>1. RequestParts(r) \in Seq(PartRecords)
   BY ONLY <1>4, <1>5 DEF SixParts
  <3> QED BY ONLY <3>1, TodoType
 <2>2. a \in Seq(Entries) /\ a = RequestOpening(r)
  BY ONLY <1>7, a \in Seq(Entries)
 <2> QED BY ONLY <2>1, <2>2, ConcatProperties DEF Reads
<1> QED BY ONLY <1>14, <1>15

NodeLists == [n \in NodeRecords |-> NodeListing(n)]

LEMMA NodesSayMoved ==
  ASSUME NEW o \in Int, NEW v \in Seq(NodeRecords), NEW u \in Seq(NodeRecords), Len(u) = Len(v),
         \A k \in 1 .. Len(v) : NodeMoved(v[k], u[k], o)
  PROVE  SaysMoved(o, FlattenSeq(Each(NodeListing, v)), FlattenSeq(Image(NodeTells, u)))
<1>1. v \in Seq(NodeRecords) /\ u \in Seq(NodeRecords) /\ Len(u) = Len(v)
      /\ \A k \in 1 .. Len(v) : NodeMoved(v[k], u[k], o) /\ v[k] \in NodeRecords /\ u[k] \in NodeRecords
 OBVIOUS
<1>2. Maps(NodeTells, NodeRecords, Seq(Entries))
 BY ONLY <1>1, NodesSaid
<1>3. Maps(NodeLists, NodeRecords, Seq(Entries))
 <2>1. ASSUME NEW n \in NodeRecords
       PROVE  NodeListing(n) \in Seq(Entries)
  <3>1. NodeMoved(n, n, 0)
   BY ONLY <2>1, NodeStays
  <3>2. SaysMoved(0, NodeListing(n), NodeSays(n))
   BY ONLY <3>1, NodeSaysMoved
  <3> QED BY ONLY <3>2 DEF SaysMoved
 <2> QED BY ONLY <2>1 DEF NodeLists, Maps
<1>4. Each(NodeListing, v) = Image(NodeLists, v)
 <2>1. \A k \in DOMAIN v : v[k] \in NodeRecords
  BY ONLY v \in Seq(NodeRecords)
 <2> QED BY ONLY <2>1 DEF Each, Image, NodeLists
<1>5. \A k \in 1 .. Len(v) : SaysMoved(o, NodeLists[v[k]], NodeTells[u[k]])
 <2> TAKE k \in 1 .. Len(v)
 <2>1. PICK l \in NodeRecords, w \in NodeRecords : l = v[k] /\ w = u[k] /\ NodeMoved(l, w, o)
  BY <1>1
 <2>3. NodeLists[l] = NodeListing(l) /\ NodeTells[w] = NodeSays(w)
  BY ONLY l \in NodeRecords, w \in NodeRecords DEF NodeLists, NodeTells
 <2>4. SaysMoved(o, NodeListing(l), NodeSays(w))
  <3>1. NodeMoved(l, w, o)
   BY ONLY <2>1
  <3> QED BY ONLY <3>1, NodeSaysMoved
 <2> QED BY ONLY <2>1, <2>3, <2>4
<1>6. SaysMoved(o, FlattenSeq(Image(NodeLists, v)), FlattenSeq(Image(NodeTells, u)))
 <2>1. u \in Seq(NodeRecords) /\ Len(u) = Len(v) /\ v \in Seq(NodeRecords)
  BY ONLY <1>1
 <2> QED BY ONLY <1>2, <1>3, <1>5, <2>1, ListSaysMoved
<1> QED BY ONLY <1>4, <1>6

\* What a reader meets is what the request says, of a place that lies elsewhere.
LEMMA RequestSaysMoved ==
  ASSUME NEW r, NEW s, NEW o, RequestMoved(r, s, o)
  PROVE  SaysMoved(o, Listing(r), Reads(s))
<1>1. /\ r \in WantedRequests /\ s \in WantedRequests /\ o \in Int
      /\ s.object = (IF o = 0 THEN r.object ELSE 0)
      /\ s.base = (IF r.nodes = <<>> /\ r.mesh = NoMeshGiven THEN Placed(r.base, o) ELSE r.base)
      /\ s.boxes = AllPlaced(r.boxes, o) /\ s.planes = AllPlaced(r.planes, o)
      /\ MeshMoved(r.mesh, s.mesh, o)
      /\ Len(s.cutters) = Len(r.cutters)
      /\ \A k \in 1 .. Len(r.cutters) : MeshMoved(r.cutters[k], s.cutters[k], o)
      /\ Len(s.nodes) = Len(r.nodes)
      /\ \A k \in 1 .. Len(r.nodes) : NodeMoved(r.nodes[k], s.nodes[k], o)
 BY DEF RequestMoved
<1>2. /\ r.object \in Int /\ r.base \in Extents /\ r.boxes \in Seq(Extents)
      /\ r.planes \in Seq(Extents) /\ r.mesh \in TriangleMeshes
      /\ r.cutters \in Seq(TriangleMeshes) /\ r.nodes \in Seq(NodeRecords)
 BY ONLY <1>1, RequestFields
<1>3. s.cutters \in Seq(TriangleMeshes) /\ s.nodes \in Seq(NodeRecords)
 BY ONLY <1>1, RequestFields
<1>4. PICK a, b, c, d, e, f :
         /\ a = <<<<"object", r.object>>, <<BaseName(r.nodes = <<>> /\ r.mesh = NoMeshGiven), r.base>>>>
         /\ b = Tagged("boxes", r.boxes) /\ c = Tagged("planes", r.planes)
         /\ d = MeshListing(r.mesh) /\ e = FlattenSeq(Each(CutterListing, r.cutters))
         /\ f = FlattenSeq(Each(NodeListing, r.nodes))
 OBVIOUS
<1>5. PICK aa, bb, cc, dd, ee, ff :
         /\ aa = RequestOpening(s)
         /\ bb = Tagged("boxes", s.boxes) /\ cc = Tagged("planes", s.planes)
         /\ dd = Tagged("positions", s.mesh.positions) \o Tagged("indices", s.mesh.indices)
         /\ ee = FlattenSeq(Each(CutterListing, s.cutters))
         /\ ff = FlattenSeq(Image(NodeTells, s.nodes))
 OBVIOUS
<1>6. SaysMoved(o, a, aa)
 <2>1. PICK body \in BOOLEAN : body = (r.nodes = <<>> /\ r.mesh = NoMeshGiven)
  OBVIOUS
 <2>2. PICK x, y : x = <<"object", r.object>> /\ y = <<BaseName(body), r.base>>
  OBVIOUS
 <2>3. BaseName(body) \in Names /\ "object" \in Names
  BY DEF BaseName, Names
 <2>4. x \in Entries /\ y \in Entries
  BY ONLY <1>2, <2>2, <2>3, EntryFacts
 <2>5. Elsewhere(x, o) = <<"object", s.object>>
  <3>1. Elsewhere(<<"object", r.object>>, o) = <<"object", IF o = 0 THEN r.object ELSE 0>>
   BY ONLY ElsewhereIs
  <3> QED BY ONLY <1>1, <2>2, <3>1
 <2>6. Elsewhere(y, o) = <<"base", s.base>>
  <3>1. CASE body
   <4>1. y = <<"body", r.base>> /\ s.base = Placed(r.base, o)
    BY ONLY <1>1, <2>1, <2>2, <3>1 DEF BaseName
   <4>2. Elsewhere(<<"body", r.base>>, o) = <<"base", Placed(r.base, o)>>
    BY ONLY ElsewhereIs
   <4> QED BY ONLY <4>1, <4>2
  <3>2. CASE ~body
   <4>1. y = <<"base", r.base>> /\ s.base = r.base
    BY ONLY <1>1, <2>1, <2>2, <3>2 DEF BaseName
   <4>2. Elsewhere(<<"base", r.base>>, o) = <<"base", r.base>>
    BY ONLY ElsewhereIs, ZenonT(40)
   <4> QED BY ONLY <4>1, <4>2
  <3> QED BY ONLY <3>1, <3>2
 <2>7. PICK E : E = Elsewheres(o) /\ \A z \in Entries : E[z] = Elsewhere(z, o)
  BY ElsewhereMaps
 <2>8. Image(E, <<x, y>>) = <<E[x], E[y]>>
  BY ONLY TRUE DEF Image
 <2>9. Image(E, <<x, y>>) = aa
  BY ONLY <1>5, <2>4, <2>5, <2>6, <2>7, <2>8 DEF RequestOpening
 <2>10. <<x, y>> \in Seq(Entries)
  BY ONLY <2>4
 <2>11. a = <<x, y>>
  BY ONLY <1>4, <2>1, <2>2
 <2> QED BY ONLY <2>7, <2>9, <2>10, <2>11 DEF SaysMoved
<1>7. SaysMoved(o, b, bb)
 <2>1. SaysMoved(o, Tagged("boxes", r.boxes), Tagged("boxes", AllPlaced(r.boxes, o)))
  BY ONLY <1>1, <1>2, PlacesMove
 <2> QED BY ONLY <1>1, <1>4, <1>5, <2>1
<1>8. SaysMoved(o, c, cc)
 <2>1. SaysMoved(o, Tagged("planes", r.planes), Tagged("planes", AllPlaced(r.planes, o)))
  BY ONLY <1>1, <1>2, PlacesMove
 <2> QED BY ONLY <1>1, <1>4, <1>5, <2>1
<1>9. SaysMoved(o, d, dd)
 <2>1. MeshMoved(r.mesh, s.mesh, o) /\ r.mesh \in TriangleMeshes /\ o \in Int
  BY ONLY <1>1, <1>2
 <2> QED BY ONLY <1>4, <1>5, <2>1, MeshSaysMoved
<1>10. SaysMoved(o, e, ee)
 <2>1. /\ o \in Int /\ r.cutters \in Seq(TriangleMeshes) /\ s.cutters \in Seq(TriangleMeshes)
       /\ Len(s.cutters) = Len(r.cutters)
       /\ \A k \in 1 .. Len(r.cutters) : MeshMoved(r.cutters[k], s.cutters[k], o)
  BY ONLY <1>1, <1>2, <1>3
 <2>2. SaysMoved(o, FlattenSeq(Each(CutterListing, r.cutters)), FlattenSeq(Each(CutterListing, s.cutters)))
  BY ONLY <2>1, CuttersSayMoved
 <2> QED BY ONLY <1>4, <1>5, <2>2
<1>11. SaysMoved(o, f, ff)
 <2>1. /\ o \in Int /\ r.nodes \in Seq(NodeRecords) /\ s.nodes \in Seq(NodeRecords)
       /\ Len(s.nodes) = Len(r.nodes)
       /\ \A k \in 1 .. Len(r.nodes) : NodeMoved(r.nodes[k], s.nodes[k], o)
  BY ONLY <1>1, <1>2, <1>3
 <2>2. SaysMoved(o, FlattenSeq(Each(NodeListing, r.nodes)), FlattenSeq(Image(NodeTells, s.nodes)))
  BY ONLY <2>1, NodesSayMoved
 <2> QED BY ONLY <1>4, <1>5, <2>2
<1>12. SaysMoved(o, a \o b, aa \o bb)
 BY ONLY <1>6, <1>7, BothMove
<1>13. SaysMoved(o, a \o b \o c, aa \o bb \o cc)
 BY ONLY <1>8, <1>12, BothMove
<1>14. SaysMoved(o, a \o b \o c \o d, aa \o bb \o cc \o dd)
 BY ONLY <1>9, <1>13, BothMove
<1>15. SaysMoved(o, a \o b \o c \o d \o e, aa \o bb \o cc \o dd \o ee)
 BY ONLY <1>10, <1>14, BothMove
<1>16. SaysMoved(o, a \o b \o c \o d \o e \o f, aa \o bb \o cc \o dd \o ee \o ff)
 BY ONLY <1>11, <1>15, BothMove
<1>17. Listing(r) = a \o b \o c \o d \o e \o f
 BY ONLY <1>4 DEF Listing
<1>18. Reads(s) = aa \o bb \o cc \o dd \o ee \o ff
 <2>1. ReadsAll(s)
  BY ONLY <1>1, RequestIsListed
 <2> QED BY ONLY <1>5, <2>1 DEF ReadsAll
<1> QED BY ONLY <1>16, <1>17, <1>18
\* An answer: its header, and a mesh or a text.
AnswerHeader(c, x, b, p, i, t, r, v) ==
  <<Word("response"), Word(Version), Word(c), Word(x), Number(b), Word(p), Word(i), Word(t), Word(0),
    Number(r), Number(v)>>

AnswerBegun(s, c, x, b, p, i, t, r, v) ==
  /\ s \in Seq(CellSet) /\ Len(s) = 11 /\ Bytes(s) = 56
  /\ s[1][2] = "response" /\ s[2][2] = Version /\ s[3][2] = c /\ s[4][2] = x /\ s[5][2] = b
  /\ s[6][2] = p /\ s[7][2] = i /\ s[8][2] = t /\ s[10][2] = r /\ s[11][2] = v

LEMMA AnswerBegins ==
  ASSUME NEW c \in STRING, NEW x \in Int, NEW b \in Int, NEW p \in Int, NEW i \in Int, NEW t \in Int,
         NEW r \in Int, NEW v \in Int
  PROVE  AnswerBegun(AnswerHeader(c, x, b, p, i, t, r, v), c, x, b, p, i, t, r, v)
<1>1. PICK n \in Int : n = Version
 BY DEF Version
<1>2. /\ c \in Values /\ x \in Values /\ b \in Values /\ p \in Values /\ i \in Values /\ t \in Values
      /\ r \in Values /\ v \in Values /\ n \in Values /\ 0 \in Values /\ "response" \in Values
 <2>1. \A y \in Int : y \in Values
  BY DEF Values
 <2>2. c \in Values
  BY Zenon DEF Values
 <2>3. "response" \in Values
  BY DEF Values, Marks
 <2> QED BY ONLY <2>1, <2>2, <2>3, x \in Int, b \in Int, p \in Int, i \in Int, t \in Int, r \in Int,
                 v \in Int, n \in Int, 0 \in Int
<1>3. PICK a1 \in CellSet, a2 \in CellSet, a3 \in CellSet, a4 \in CellSet, a5 \in CellSet,
           a6 \in CellSet, a7 \in CellSet, a8 \in CellSet, a9 \in CellSet, a10 \in CellSet,
           a11 \in CellSet :
         /\ a1 = Word("response") /\ a2 = Word(n) /\ a3 = Word(c) /\ a4 = Word(x) /\ a5 = Number(b)
         /\ a6 = Word(p) /\ a7 = Word(i) /\ a8 = Word(t) /\ a9 = Word(0) /\ a10 = Number(r)
         /\ a11 = Number(v)
 <2>1. /\ Word("response") \in CellSet /\ Word(n) \in CellSet /\ Word(c) \in CellSet
       /\ Word(x) \in CellSet /\ Number(b) \in CellSet /\ Word(p) \in CellSet /\ Word(i) \in CellSet
       /\ Word(t) \in CellSet /\ Word(0) \in CellSet /\ Number(r) \in CellSet /\ Number(v) \in CellSet
  BY ONLY <1>2, WordFacts
 <2> QED BY ONLY <2>1
<1>4. AnswerHeader(c, x, b, p, i, t, r, v) = <<a1, a2, a3, a4, a5, a6, a7, a8, a9, a10, a11>>
 BY ONLY <1>1, <1>3 DEF AnswerHeader
<1>5. <<a1, a2, a3, a4, a5, a6, a7, a8, a9, a10, a11>> \in Seq(CellSet)
 OBVIOUS
<1>6. PICK s \in Seq(CellSet) : s = <<a1, a2, a3, a4, a5, a6, a7, a8, a9, a10, a11>>
 BY <1>5
<1>7. /\ Len(s) = 11 /\ s[1] = a1 /\ s[2] = a2 /\ s[3] = a3 /\ s[4] = a4 /\ s[5] = a5 /\ s[6] = a6
      /\ s[7] = a7 /\ s[8] = a8 /\ s[9] = a9 /\ s[10] = a10 /\ s[11] = a11
 BY ONLY <1>6
<1>8. /\ a1[1] = 4 /\ a2[1] = 4 /\ a3[1] = 4 /\ a4[1] = 4 /\ a5[1] = 8 /\ a6[1] = 4 /\ a7[1] = 4
      /\ a8[1] = 4 /\ a9[1] = 4 /\ a10[1] = 8 /\ a11[1] = 8
      /\ a1[2] = "response" /\ a2[2] = n /\ a3[2] = c /\ a4[2] = x /\ a5[2] = b /\ a6[2] = p
      /\ a7[2] = i /\ a8[2] = t /\ a10[2] = r /\ a11[2] = v
 BY ONLY <1>3 DEF Number, Word
<1>9. Bytes(s) = s[1][1] + s[2][1] + s[3][1] + s[4][1] + s[5][1] + s[6][1] + s[7][1]
                  + s[8][1] + s[9][1] + s[10][1] + s[11][1]
 BY <1>7, BytesOfEleven
<1>10. Bytes(s) = 4 + 4 + 4 + 4 + 8 + 4 + 4 + 4 + 4 + 8 + 8
 BY ONLY <1>7, <1>8, <1>9
<1>11. Bytes(s) = 56
 BY ONLY <1>10
<1> QED BY ONLY <1>1, <1>4, <1>6, <1>7, <1>8, <1>11, s \in Seq(CellSet) DEF AnswerBegun

\* What follows a header.
Follows(w, s, t) ==
  /\ w = s \o t /\ Len(w) = Len(s) + Len(t) /\ Bytes(w) = Bytes(s) + Bytes(t)
  /\ \A k \in 1 .. Len(s) : w[k] = s[k]
  /\ \A k \in 1 .. Len(t) : SubSeq(w, Len(s) + 1, Len(w))[k] = t[k]

LEMMA BodyFollows ==
  ASSUME NEW s \in Seq(CellSet), NEW t \in Seq(CellSet)
  PROVE  Follows(s \o t, s, t)
<1>1. PICK w \in Seq(CellSet) : w = s \o t
 BY ConcatProperties
<1>2. PICK m \in Nat, n \in Nat : m = Len(s) /\ n = Len(t)
 OBVIOUS
<1>3. /\ Len(w) = m + n /\ \A k \in 1 .. m : w[k] = s[k]
      /\ \A k \in 1 .. n : w[m + k] = t[k]
 BY <1>1, <1>2
<1>4. Bytes(w) = Bytes(s) + Bytes(t)
 BY ONLY <1>1, s \in Seq(CellSet), t \in Seq(CellSet), BytesOfBoth
<1>5. SubSeq(w, m + 1, m + n) = [k \in 1 .. (m + n) - (m + 1) + 1 |-> w[(m + 1) + k - 1]]
 OBVIOUS
<1>6. \A k \in 1 .. n : SubSeq(w, m + 1, m + n)[k] = w[m + k]
 <2> TAKE k \in 1 .. n
 <2>1. k \in 1 .. (m + n) - (m + 1) + 1 /\ (m + 1) + k - 1 = m + k
  BY ONLY k \in 1 .. n, m \in Nat, n \in Nat
 <2> QED BY ONLY <1>5, <2>1
<1>7. \A k \in 1 .. n : SubSeq(w, m + 1, m + n)[k] = t[k]
 BY ONLY <1>3, <1>6
<1> QED BY ONLY <1>1, <1>2, <1>3, <1>4, <1>7 DEF Follows

LEMMA AnswerFields ==
  ASSUME NEW a \in FoundAnswers
  PROVE  /\ a.code \in STRING /\ a.exact \in BOOLEAN /\ a.object \in Nat /\ a.area \in Int
         /\ a.volume \in Int /\ a.positions \in Seq(Int) /\ a.indices \in Seq(Nat)
         /\ a.text \in Seq(STRING)
BY DEF FoundAnswers
AnswerDecoded(w, c, x, b, p, i, t, r, v) ==
  DecodeAnswer(w) =
     IF \/ Bytes(w) # 56 + 12 * (p \div 3) + 4 * i + t \/ x > 1 \/ (c = "none" /\ t # 0)
        \/ c # "none" /\ (p \div 3 # 0 \/ i # 0)
     THEN Crash
     ELSE IF c # "none"
     THEN [Crash EXCEPT !.code = c,
                        !.text = [k \in 1 .. t |-> SubSeq(w, 12, Len(w))[1 + k - 1][2]]]
     ELSE IF x = 1 /\ (r <= 0 \/ v <= 0)
     THEN Crash
     ELSE [Crash EXCEPT !.code = "none", !.exact = (x = 1), !.object = b, !.area = r, !.volume = v,
              !.positions = [k \in 1 .. p \div 3 |-> SubSeq(w, 12, Len(w))[1 + k - 1][2]],
              !.indices = [k \in 1 .. i |-> SubSeq(w, 12, Len(w))[(p \div 3 + 1) + k - 1][2]]]

LEMMA AnswerIsDecoded ==
  ASSUME NEW w, NEW c, NEW x, NEW b, NEW p, NEW i, NEW t, NEW r, NEW v, NEW s, NEW u,
         AnswerBegun(s, c, x, b, p, i, t, r, v), Follows(w, s, u)
  PROVE  AnswerDecoded(w, c, x, b, p, i, t, r, v)
<1>1. /\ Len(s) = 11
      /\ s[1][2] = "response" /\ s[2][2] = Version /\ s[3][2] = c /\ s[4][2] = x /\ s[5][2] = b
      /\ s[6][2] = p /\ s[7][2] = i /\ s[8][2] = t /\ s[10][2] = r /\ s[11][2] = v
 BY DEF AnswerBegun
<1>2. \A k \in 1 .. 11 : w[k] = s[k]
 BY <1>1 DEF Follows
<1>3. /\ w[1] = s[1] /\ w[2] = s[2] /\ w[3] = s[3] /\ w[4] = s[4] /\ w[5] = s[5] /\ w[6] = s[6]
      /\ w[7] = s[7] /\ w[8] = s[8] /\ w[10] = s[10] /\ w[11] = s[11]
 BY ONLY <1>2
<1>4. /\ w[1][2] = "response" /\ w[2][2] = Version /\ w[3][2] = c /\ w[4][2] = x /\ w[5][2] = b
      /\ w[6][2] = p /\ w[7][2] = i /\ w[8][2] = t /\ w[10][2] = r /\ w[11][2] = v
 BY ONLY <1>1, <1>3
<1> QED BY ONLY <1>4 DEF DecodeAnswer, AnswerSize, AnswerDecoded

LEMMA ErrorIsHeard ==
  ASSUME NEW a \in FoundAnswers, a.code # "none"
  PROVE  DecodeAnswer(EncodeAnswer(a)) = a
<1>1. a.code \in STRING /\ a.text \in Seq(STRING)
 BY AnswerFields
<1>2. PICK c \in STRING, text \in Seq(STRING) : c = a.code /\ text = a.text
 BY ONLY <1>1
<1>3. a = [Crash EXCEPT !.code = c, !.text = text]
 BY ONLY <1>2, a \in FoundAnswers, a.code # "none" DEF FoundAnswers
<1>4. /\ a.code = c /\ a.exact = FALSE /\ a.object = 0 /\ a.area = 0 /\ a.volume = 0
      /\ a.positions = <<>> /\ a.indices = <<>> /\ a.text = text
 BY ONLY <1>3 DEF Crash
<1>5. Len(<<>>) = 0 /\ 3 * 0 = 0
 BY EmptyMoves
<1>6. PICK t \in Nat : t = Len(text)
 BY ONLY text \in Seq(STRING), LenProperties
<1>7. PICK s, u : /\ s = AnswerHeader(c, 0, 0, 0, 0, t, 0, 0) /\ u = Run(1, text)
 OBVIOUS
<1>8. AnswerBegun(s, c, 0, 0, 0, 0, t, 0, 0)
 BY ONLY <1>7, c \in STRING, t \in Int, 0 \in Int, AnswerBegins, t \in Nat
<1>9. s \in Seq(CellSet) /\ Len(s) = 11 /\ Bytes(s) = 56
 BY ONLY <1>8 DEF AnswerBegun
<1>10. u \in Seq(CellSet) /\ Len(u) = t /\ Bytes(u) = t /\ \A k \in 1 .. t : u[k] = <<1, text[k]>>
 <2>1. text \in Seq(Values)
  BY ONLY text \in Seq(STRING), Widened
 <2>2. \A k \in 1 .. Len(text) : u[k] = <<1, text[k]>>
  BY ONLY <1>7, <2>1, RunFacts, 1 \in Nat
 <2>5. u \in Seq(CellSet) /\ Len(u) = Len(text) /\ Bytes(u) = 1 * Len(text)
  BY ONLY <1>7, <2>1, RunFacts, 1 \in Nat
 <2>3. 1 * Len(text) = t
  BY ONLY <1>6, t \in Nat
 <2>4. u \in Seq(CellSet) /\ Len(u) = t /\ Bytes(u) = t
  BY ONLY <1>6, <2>3, <2>5
 <2> QED BY ONLY <1>6, <2>2, <2>4
<1>11. PICK w : w = s \o u
 OBVIOUS
<1>12. Follows(w, s, u)
 BY ONLY <1>9, <1>10, <1>11, BodyFollows
<1>13. EncodeAnswer(a) = w
 <2>1. (a.code = "none") = FALSE
  BY ONLY a.code # "none"
 <2>2. EncodeAnswer(a) =
          <<Word("response"), Word(Version), Word(c), Word(0), Number(0), Word(3 * Len(<<>>)),
            Word(Len(<<>>)), Word(Len(text)), Word(0), Number(0), Number(0)>>
          \o [k \in DOMAIN text |-> <<1, text[k]>>]
  BY ONLY <1>4, <2>1 DEF EncodeAnswer
 <2> QED BY ONLY <1>5, <1>6, <1>7, <1>11, <2>2 DEF AnswerHeader, Run
<1>14. Bytes(w) = 56 + t
 BY ONLY <1>9, <1>10, <1>12 DEF Follows
<1>15. PICK q : q = SubSeq(w, 12, Len(w)) /\ \A k \in 1 .. t : q[k] = u[k]
 <2>1. PICK e, l : e = SubSeq(w, l, Len(w)) /\ l = Len(s) + 1
  OBVIOUS
 <2>2. \A k \in 1 .. Len(u) : e[k] = u[k]
  BY ONLY <1>12, <2>1 DEF Follows
 <2>3. l = 12
  BY ONLY <1>9, <2>1
 <2> QED BY ONLY <1>10, <2>1, <2>2, <2>3
<1>16. [k \in 1 .. t |-> q[1 + k - 1][2]] = text
 <2>1. \A k \in 1 .. t : q[1 + k - 1][2] = text[k]
  <3> TAKE k \in 1 .. t
  <3>1. PICK j : j = 1 + k - 1
   OBVIOUS
  <3>2. j = k
   BY ONLY <3>1, k \in 1 .. t, t \in Nat
  <3>3. q[j] = <<1, text[k]>>
   BY ONLY <1>10, <1>15, <3>2, k \in 1 .. t
  <3>4. q[j][2] = text[k]
   BY ONLY <3>3
  <3> QED BY ONLY <3>1, <3>4
 <2>2. text = [k \in 1 .. t |-> text[k]]
  BY ONLY text \in Seq(STRING), <1>6
 <2> QED BY ONLY <2>1, <2>2
<1>17. AnswerDecoded(w, c, 0, 0, 0, 0, t, 0, 0)
 BY ONLY <1>8, <1>12, AnswerIsDecoded
<1>18. 0 \div 3 = 0 /\ ~(0 > 1) /\ 56 + 12 * 0 + 4 * 0 + t = 56 + t
 BY ONLY t \in Nat
<1>19. DecodeAnswer(w) = [Crash EXCEPT !.code = c, !.text = text]
 BY ONLY <1>2, <1>14, <1>15, <1>16, <1>17, <1>18, a.code # "none" DEF AnswerDecoded
<1> QED BY ONLY <1>3, <1>13, <1>19

LEMMA SolidIsHeard ==
  ASSUME NEW a \in FoundAnswers, a.code = "none"
  PROVE  DecodeAnswer(EncodeAnswer(a)) = a
<1>1. /\ a.code \in STRING /\ a.exact \in BOOLEAN /\ a.object \in Nat /\ a.area \in Int
      /\ a.volume \in Int /\ a.positions \in Seq(Int) /\ a.indices \in Seq(Nat)
 BY AnswerFields
<1>2. a.text = <<>> /\ (a.exact => a.area > 0 /\ a.volume > 0)
 BY ONLY a \in FoundAnswers, a.code = "none" DEF FoundAnswers
<1>3. PICK pos \in Seq(Int), idx \in Seq(Nat), ex \in BOOLEAN, ob \in Nat, ar \in Int, vo \in Int :
         /\ pos = a.positions /\ idx = a.indices /\ ex = a.exact /\ ob = a.object /\ ar = a.area
         /\ vo = a.volume
 BY ONLY <1>1
<1>4. a = [code |-> "none", exact |-> ex, object |-> ob, area |-> ar, volume |-> vo,
           positions |-> pos, indices |-> idx, text |-> <<>>]
 BY ONLY <1>2, <1>3, a \in FoundAnswers, a.code = "none" DEF FoundAnswers
<1>5. Len(<<>>) = 0
 BY EmptyMoves
<1>6. PICK m \in Nat, i \in Nat : m = Len(pos) /\ i = Len(idx)
 BY ONLY pos \in Seq(Int), idx \in Seq(Nat), LenProperties
<1>7. PICK p \in Nat, x \in Nat : p = 3 * m /\ x = (IF ex THEN 1 ELSE 0)
 OBVIOUS
<1>8. PICK s, y, z : /\ s = AnswerHeader("none", x, ob, p, i, 0, ar, vo) /\ y = Run(12, pos)
                     /\ z = Run(4, idx)
 OBVIOUS
<1>9. AnswerBegun(s, "none", x, ob, p, i, 0, ar, vo)
 <2>1. "none" \in STRING
  BY ONLY <1>1, a.code = "none"
 <2>2. x \in Int /\ ob \in Int /\ p \in Int /\ i \in Int /\ 0 \in Int
  BY ONLY x \in Nat, ob \in Nat, p \in Nat, i \in Nat
 <2> QED BY ONLY <1>8, <2>1, <2>2, ar \in Int, vo \in Int, AnswerBegins
<1>10. s \in Seq(CellSet) /\ Len(s) = 11 /\ Bytes(s) = 56
 BY ONLY <1>9 DEF AnswerBegun
<1>11. y \in Seq(CellSet) /\ Len(y) = m /\ Bytes(y) = 12 * m /\ \A k \in 1 .. m : y[k] = <<12, pos[k]>>
 <2>1. pos \in Seq(Values)
  BY ONLY pos \in Seq(Int), Widened
 <2> QED BY ONLY <1>6, <1>8, <2>1, RunFacts, 12 \in Nat
<1>12. z \in Seq(CellSet) /\ Len(z) = i /\ Bytes(z) = 4 * i /\ \A k \in 1 .. i : z[k] = <<4, idx[k]>>
 <2>1. idx \in Seq(Values)
  BY ONLY idx \in Seq(Nat), Widened
 <2> QED BY ONLY <1>6, <1>8, <2>1, RunFacts, 4 \in Nat
<1>13. PICK u \in Seq(CellSet) : u = y \o z
 BY ONLY <1>11, <1>12, ConcatProperties
<1>14. /\ Len(u) = m + i /\ \A k \in 1 .. m : u[k] = y[k]
       /\ \A k \in 1 .. i : u[m + k] = z[k]
 <2>1. y \in Seq(CellSet) /\ z \in Seq(CellSet) /\ Len(y) = m /\ Len(z) = i
  BY ONLY <1>11, <1>12
 <2>2. Len(u) = Len(y) + Len(z) /\ (\A k \in 1 .. Len(y) : u[k] = y[k])
       /\ \A k \in 1 .. Len(z) : u[Len(y) + k] = z[k]
  <3>1. PICK yy \in Seq(CellSet), zz \in Seq(CellSet) : yy = y /\ zz = z
   BY ONLY <2>1
  <3>2. /\ Len(yy \o zz) = Len(yy) + Len(zz) /\ (\A k \in 1 .. Len(yy) : (yy \o zz)[k] = yy[k])
        /\ \A k \in 1 .. Len(zz) : (yy \o zz)[Len(yy) + k] = zz[k]
   BY ONLY yy \in Seq(CellSet), zz \in Seq(CellSet)
  <3> QED BY ONLY <1>13, <3>1, <3>2
 <2> QED BY ONLY <2>1, <2>2
<1>15. Bytes(u) = 12 * m + 4 * i
 <2>1. Bytes(u) = Bytes(y) + Bytes(z)
  BY ONLY <1>11, <1>12, <1>13, BytesOfBoth
 <2> QED BY ONLY <1>11, <1>12, <2>1
<1>16. PICK w : w = s \o u
 OBVIOUS
<1>17. Follows(w, s, u)
 BY ONLY <1>10, <1>16, u \in Seq(CellSet), BodyFollows
<1>18. EncodeAnswer(a) = w
 <2>1. (a.code = "none") = TRUE
  BY ONLY a.code = "none"
 <2>2. a.code = "none" /\ a.text = <<>> /\ a.positions = pos /\ a.indices = idx /\ a.exact = ex
       /\ a.object = ob /\ a.area = ar /\ a.volume = vo
  BY ONLY <1>2, <1>3, a.code = "none"
 <2>3. EncodeAnswer(a) =
          <<Word("response"), Word(Version), Word("none"), Word(IF ex THEN 1 ELSE 0), Number(ob),
            Word(3 * Len(pos)), Word(Len(idx)), Word(Len(<<>>)), Word(0), Number(ar), Number(vo)>>
          \o ([k \in DOMAIN pos |-> <<12, pos[k]>>] \o Each(Word, idx))
  BY ONLY <2>1, <2>2 DEF EncodeAnswer
 <2>4. Each(Word, idx) = z
  BY ONLY <1>8, EachIsARun
 <2> QED BY ONLY <1>5, <1>6, <1>7, <1>8, <1>13, <1>16, <2>3, <2>4 DEF AnswerHeader, Run
<1>19. Bytes(w) = 56 + (12 * m + 4 * i)
 BY ONLY <1>10, <1>15, <1>17 DEF Follows
<1>20. PICK q : q = SubSeq(w, 12, Len(w)) /\ \A k \in 1 .. m + i : q[k] = u[k]
 <2>1. PICK e, l : e = SubSeq(w, l, Len(w)) /\ l = Len(s) + 1
  OBVIOUS
 <2>2. \A k \in 1 .. Len(u) : e[k] = u[k]
  BY ONLY <1>17, <2>1 DEF Follows
 <2>3. l = 12
  BY ONLY <1>10, <2>1
 <2> QED BY ONLY <1>14, <2>1, <2>2, <2>3, ZenonT(40)
<1>21. [k \in 1 .. m |-> q[1 + k - 1][2]] = pos
 <2>1. \A k \in 1 .. m : q[1 + k - 1][2] = pos[k]
  <3> TAKE k \in 1 .. m
  <3>1. PICK j : j = 1 + k - 1
   OBVIOUS
  <3>2. j = k /\ k \in 1 .. m + i
   BY ONLY <3>1, k \in 1 .. m, m \in Nat, i \in Nat
  <3>3. q[j] = <<12, pos[k]>>
   BY ONLY <1>11, <1>14, <1>20, <3>2, k \in 1 .. m
  <3>4. q[j][2] = pos[k]
   BY ONLY <3>3
  <3> QED BY ONLY <3>1, <3>4
 <2>2. pos = [k \in 1 .. m |-> pos[k]]
  BY ONLY pos \in Seq(Int), <1>6
 <2> QED BY ONLY <2>1, <2>2
<1>22. [k \in 1 .. i |-> q[(m + 1) + k - 1][2]] = idx
 <2>1. \A k \in 1 .. i : q[(m + 1) + k - 1][2] = idx[k]
  <3> TAKE k \in 1 .. i
  <3>1. PICK j : j = (m + 1) + k - 1
   OBVIOUS
  <3>2. j = m + k /\ j \in 1 .. m + i
   BY ONLY <3>1, k \in 1 .. i, m \in Nat, i \in Nat
  <3>3. q[j] = z[k]
   BY ONLY <1>14, <1>20, <3>2, k \in 1 .. i
  <3>4. q[j] = <<4, idx[k]>>
   BY ONLY <1>12, <3>3, k \in 1 .. i
  <3>5. q[j][2] = idx[k]
   BY ONLY <3>4
  <3> QED BY ONLY <3>1, <3>5
 <2>2. idx = [k \in 1 .. i |-> idx[k]]
  BY ONLY idx \in Seq(Nat), <1>6
 <2> QED BY ONLY <2>1, <2>2
<1>23. AnswerDecoded(w, "none", x, ob, p, i, 0, ar, vo)
 BY ONLY <1>9, <1>17, AnswerIsDecoded
<1>24. p \div 3 = m
 BY ONLY <1>7, m \in Nat
<1>25. ~(x > 1) /\ (x = 1) = ex /\ ~(x = 1 /\ (ar <= 0 \/ vo <= 0))
 <2>1. CASE ex
  <3>1. ar > 0 /\ vo > 0
   BY ONLY <1>2, <1>3, <2>1
  <3>2. x = 1
   BY ONLY <1>7, <2>1
  <3>3. ~(ar <= 0) /\ ~(vo <= 0)
   BY ONLY <3>1, ar \in Int, vo \in Int
  <3>4. ~(x > 1) /\ x = 1
   BY ONLY <3>2
  <3>5. (x = 1) = ex
   BY ONLY <2>1, <3>2, ex \in BOOLEAN
  <3> QED BY ONLY <3>3, <3>4, <3>5
 <2>2. CASE ~ex
  <3>1. x = 0
   BY ONLY <1>7, <2>2
  <3> QED BY ONLY <2>2, <3>1
 <2> QED BY ONLY <2>1, <2>2
<1>26. Bytes(w) = 56 + 12 * m + 4 * i + 0
 BY ONLY <1>19, m \in Nat, i \in Nat
<1>27. DecodeAnswer(w)
          = [Crash EXCEPT !.code = "none", !.exact = ex, !.object = ob, !.area = ar, !.volume = vo,
                          !.positions = pos, !.indices = idx]
 BY ONLY <1>20, <1>21, <1>22, <1>23, <1>24, <1>25, <1>26 DEF AnswerDecoded
<1>28. DecodeAnswer(w) = a
 BY ONLY <1>4, <1>27 DEF Crash
<1> QED BY ONLY <1>18, <1>28
(* The exchange.  What is posted is the request, moved to its origin or not; while *)
(* it is read the reader is midway through it.                                     *)
PostedOf(r, o) == IF o = 0 THEN r ELSE Normalize(r, o)
Posted == PostedOf(request, origin)
NoneCounted == counted = [loops |-> 0, sections |-> 0, coordinates |-> 0]

TransferInv ==
  /\ request \in WantedRequests /\ origin \in Int
  /\ exchange \in {"asking", "reading", "refused", "read", "answered", "heard"}
  /\ exchange = "asking" => message = <<>> /\ offset = 0 /\ agenda = <<>> /\ NoneCounted
  /\ exchange = "reading" =>
        /\ Posted \in WantedRequests /\ Encodable(Posted)
        /\ offset = 0 => message = EncodeRequest(Posted) /\ agenda = <<>> /\ NoneCounted
        /\ offset # 0 => Midway(Posted, message, offset, agenda, got, counted)
  /\ exchange = "refused" => message = <<>> /\ ~Encodable(request)
  /\ exchange = "read" => got = Reads(Posted)
  /\ exchange = "answered" => reply \in FoundAnswers /\ message = EncodeAnswer(reply)
  /\ exchange = "heard" => got = <<reply>>

LEMMA PostedMoves ==
  ASSUME NEW r \in WantedRequests, NEW o \in Int
  PROVE  RequestMoved(r, PostedOf(r, o), o) /\ PostedOf(r, o) \in WantedRequests
<1>1. RequestMoved(r, PostedOf(r, o), o)
 <2>1. CASE o = 0
  <3>1. RequestMoved(r, r, 0)
   BY ONLY r \in WantedRequests, RequestStays
  <3> QED BY ONLY <2>1, <3>1 DEF PostedOf
 <2>2. CASE o # 0
  <3>1. RequestMoved(r, Normalize(r, o), o)
   BY ONLY <2>2, r \in WantedRequests, o \in Int, RequestMoves
  <3> QED BY ONLY <2>2, <3>1 DEF PostedOf
 <2> QED BY ONLY <2>1, <2>2
<1>2. PostedOf(r, o) \in WantedRequests
 BY ONLY <1>1 DEF RequestMoved
<1> QED BY ONLY <1>1, <1>2

LEMMA MidwayHasBegun ==
  ASSUME NEW r, NEW msg, NEW off, NEW ag, NEW gt, NEW cn, Midway(r, msg, off, ag, gt, cn)
  PROVE  off # 0
<1>1. PICK todo, done : OnTheWay(r, todo, done, msg, off, ag, gt, cn)
 BY DEF Midway
<1>2. off > 0 /\ off \in Nat
 <2>1. done \in Seq(CellSet) /\ Len(done) = off /\ off > 0
  BY ONLY <1>1 DEF OnTheWay
 <2>2. Len(done) \in Nat
  BY ONLY <2>1, LenProperties
 <2> QED BY ONLY <2>1, <2>2
<1> QED BY ONLY <1>2

\* A step of the reader keeps it midway.
LEMMA ReadingGoesOn ==
  ASSUME TransferInv, exchange = "reading", Kept,
         Midway(Posted, message, offset', agenda', got', counted')
  PROVE  TransferInv'
<1>1. /\ request' = request /\ origin' = origin /\ message' = message /\ reply' = reply
      /\ exchange' = exchange
 BY DEF Kept
<1>2. Posted' = Posted
 BY <1>1 DEF Posted
<1>3. PICK r : r = Posted
 OBVIOUS
<1>4. Midway(r, message, offset', agenda', got', counted')
 BY ONLY <1>3, Midway(Posted, message, offset', agenda', got', counted')
<1>5. offset' # 0
 BY ONLY <1>4, MidwayHasBegun
<1>6. r \in WantedRequests /\ Encodable(r) /\ request \in WantedRequests /\ origin \in Int
 BY <1>3 DEF TransferInv
<1>7. exchange' = "reading"
 BY ONLY <1>1, exchange = "reading"
<1>8. Posted' = r /\ request' \in WantedRequests /\ origin' \in Int
 BY ONLY <1>1, <1>2, <1>3, <1>6
<1>9. Midway(Posted', message', offset', agenda', got', counted')
 BY ONLY <1>1, <1>4, <1>8
<1> QED BY ONLY <1>5, <1>6, <1>7, <1>8, <1>9 DEF TransferInv

LEMMA AskKeeps == TransferInv /\ Ask => TransferInv'
<1> SUFFICES ASSUME TransferInv, Ask
             PROVE  TransferInv'
 OBVIOUS
<1>1. /\ exchange = "asking" /\ request \in WantedRequests /\ origin \in Int
      /\ message = <<>> /\ offset = 0 /\ agenda = <<>> /\ NoneCounted
 BY DEF Ask, TransferInv
<1>2. PICK o \in {0, RequestOrigin(request)} :
         IF Encodable(PostedOf(request, o))
         THEN /\ origin' = o
              /\ message' = EncodeRequest(PostedOf(request, o))
              /\ exchange' = "reading"
              /\ UNCHANGED <<request, offset, agenda, counted, got, reply>>
         ELSE Refuse
 BY DEF Ask, PostedOf
<1>3. o \in Int
 BY ONLY <1>1, o \in {0, RequestOrigin(request)}, OriginIsNumber
<1>4. PICK s : s = PostedOf(request, o)
 OBVIOUS
<1>5. RequestMoved(request, s, o) /\ s \in WantedRequests
 BY ONLY <1>1, <1>3, <1>4, PostedMoves
<1>6. CASE Encodable(s)
 <2>1. /\ origin' = o /\ message' = EncodeRequest(s) /\ exchange' = "reading" /\ request' = request
       /\ offset' = offset /\ agenda' = agenda /\ counted' = counted
  BY ONLY <1>2, <1>4, <1>6
 <2>2. Posted' = s
  BY ONLY <1>4, <2>1 DEF Posted
 <2>3. /\ request' \in WantedRequests /\ origin' \in Int /\ offset' = 0 /\ agenda' = <<>>
       /\ NoneCounted'
  BY ONLY <1>1, <1>3, <2>1 DEF NoneCounted
 <2> QED BY ONLY <1>5, <1>6, <2>1, <2>2, <2>3 DEF TransferInv
<1>7. CASE ~Encodable(s)
 <2>1. exchange' = "refused" /\ UNCHANGED <<request, origin, message, offset, agenda, counted, got, reply>>
  BY ONLY <1>2, <1>4, <1>7 DEF Refuse
 <2>2. ~Encodable(request)
  BY ONLY <1>5, <1>7, MovedIsEncodable
 <2>3. /\ exchange' = "refused" /\ request' = request /\ origin' = origin /\ message' = <<>>
       /\ request' \in WantedRequests /\ origin' \in Int /\ ~Encodable(request')
  BY ONLY <1>1, <2>1, <2>2
 <2> QED BY ONLY <2>3 DEF TransferInv
<1> QED BY ONLY <1>6, <1>7

\* Every step of the reader of a request.
ReadingStep ==
  ReadHeader \/ ReadRun \/ ReadNothing \/ ReadCutter \/ ReadNode \/ ReadLoop \/ ReadSweep

LEMMA ReadingKeeps == TransferInv /\ ReadingStep => TransferInv'
<1> SUFFICES ASSUME TransferInv, ReadingStep
             PROVE  TransferInv'
 OBVIOUS
<1>1. exchange = "reading"
 <2>1. ReadHeader => exchange = "reading"
  BY DEF ReadHeader
 <2>2. ReadRun => exchange = "reading"
  BY DEF ReadRun, Due
 <2>3. ReadNothing => exchange = "reading"
  BY DEF ReadNothing, Due
 <2>4. ReadCutter => exchange = "reading"
  BY DEF ReadCutter, Due
 <2>5. ReadNode => exchange = "reading"
  BY DEF ReadNode, Due
 <2>6. ReadLoop => exchange = "reading"
  BY DEF ReadLoop, Due
 <2>7. ReadSweep => exchange = "reading"
  BY DEF ReadSweep, Due
 <2> QED BY <2>1, <2>2, <2>3, <2>4, <2>5, <2>6, <2>7 DEF ReadingStep
<1>2. PICK r : r = Posted
 OBVIOUS
<1>3. /\ r \in WantedRequests /\ Encodable(r)
      /\ offset = 0 => message = EncodeRequest(r) /\ agenda = <<>> /\ NoneCounted
      /\ offset # 0 => Midway(r, message, offset, agenda, got, counted)
 BY <1>1, <1>2 DEF TransferInv
<1>4. CASE offset = 0
 <2>1. ReadHeader
  <3>1. agenda = <<>>
   BY ONLY <1>3, <1>4
  <3>2. ~ReadRun
   BY <3>1 DEF ReadRun, Due
  <3>3. ~ReadNothing
   BY <3>1 DEF ReadNothing, Due
  <3>4. ~ReadCutter
   BY <3>1 DEF ReadCutter, Due
  <3>5. ~ReadNode
   BY <3>1 DEF ReadNode, Due
  <3>6. ~ReadLoop
   BY <3>1 DEF ReadLoop, Due
  <3>7. ~ReadSweep
   BY <3>1 DEF ReadSweep, Due
  <3> QED BY <3>2, <3>3, <3>4, <3>5, <3>6, <3>7 DEF ReadingStep
 <2>2. /\ r \in WantedRequests /\ Encodable(r) /\ message = EncodeRequest(r)
       /\ counted = [loops |-> 0, sections |-> 0, coordinates |-> 0]
  BY ONLY <1>3, <1>4 DEF NoneCounted
 <2>3. Midway(r, message, offset', agenda', got', counted') /\ Kept
  BY ONLY <1>4, <2>1, <2>2, BeginningIsRead
 <2> QED BY <1>1, <1>2, <2>3, ReadingGoesOn
<1>5. CASE offset # 0
 <2>1. Midway(r, message, offset, agenda, got, counted)
  BY ONLY <1>3, <1>5
 <2>2. ~ReadHeader
  BY <1>5 DEF ReadHeader
 <2>3. ReadRun => Midway(r, message, offset', agenda', got', counted') /\ Kept
  BY ONLY <2>1, RunIsRead
 <2>4. ReadNothing => Midway(r, message, offset', agenda', got', counted') /\ Kept
  BY ONLY <2>1, NothingIsRead
 <2>5. ReadCutter => Midway(r, message, offset', agenda', got', counted') /\ Kept
  BY ONLY <2>1, CutterIsRead
 <2>6. ReadNode => Midway(r, message, offset', agenda', got', counted') /\ Kept
  BY ONLY <2>1, NodeIsRead
 <2>7. ReadLoop => Midway(r, message, offset', agenda', got', counted') /\ Kept
  BY ONLY <2>1, LoopIsRead
 <2>8. ReadSweep => Midway(r, message, offset', agenda', got', counted') /\ Kept
  BY ONLY <2>1, SweepIsRead
 <2>9. Midway(r, message, offset', agenda', got', counted') /\ Kept
  BY <2>2, <2>3, <2>4, <2>5, <2>6, <2>7, <2>8 DEF ReadingStep
 <2> QED BY <1>1, <1>2, <2>9, ReadingGoesOn
<1> QED BY <1>4, <1>5

LEMMA EndKeeps == TransferInv /\ ReadEnd => TransferInv'
<1> SUFFICES ASSUME TransferInv, ReadEnd
             PROVE  TransferInv'
 OBVIOUS
<1>1. exchange = "reading" /\ offset # 0
 BY DEF ReadEnd
<1>2. PICK r : r = Posted
 OBVIOUS
<1>3. /\ Midway(r, message, offset, agenda, got, counted) /\ request \in WantedRequests /\ origin \in Int
 BY <1>1, <1>2 DEF TransferInv
<1>4. /\ got = Reads(r) /\ exchange' = "read"
      /\ UNCHANGED <<request, origin, message, offset, agenda, counted, got, reply>>
 BY <1>3, EndIsRead
<1>5. Posted' = r
 BY ONLY <1>2, <1>4 DEF Posted
<1>6. got' = Reads(Posted')
 BY ONLY <1>4, <1>5
<1>7. exchange' = "read" /\ request' \in WantedRequests /\ origin' \in Int
 BY ONLY <1>3, <1>4
<1> QED BY ONLY <1>6, <1>7 DEF TransferInv

LEMMA AnswerKeeps == TransferInv /\ Answer => TransferInv'
<1> SUFFICES ASSUME TransferInv, Answer
             PROVE  TransferInv'
 OBVIOUS
<1>1. PICK a \in Answers : reply' = a /\ message' = EncodeAnswer(a)
 BY DEF Answer
<1>2. a \in FoundAnswers
 BY MessageAssumption
<1>3. exchange' = "answered" /\ request' = request /\ origin' = origin
 BY DEF Answer
<1>4. reply' \in FoundAnswers /\ message' = EncodeAnswer(reply')
 BY ONLY <1>1, <1>2
<1>5. request' \in WantedRequests /\ origin' \in Int
 BY <1>3 DEF TransferInv
<1> QED BY ONLY <1>3, <1>4, <1>5 DEF TransferInv

LEMMA HearKeeps == TransferInv /\ Hear => TransferInv'
<1> SUFFICES ASSUME TransferInv, Hear
             PROVE  TransferInv'
 OBVIOUS
<1>1. /\ exchange' = "heard" /\ got' = <<DecodeAnswer(message)>> /\ exchange = "answered"
      /\ request' = request /\ origin' = origin /\ reply' = reply
 BY DEF Hear
<1>2. reply \in FoundAnswers /\ message = EncodeAnswer(reply) /\ request \in WantedRequests /\ origin \in Int
 BY <1>1 DEF TransferInv
<1>3. DecodeAnswer(message) = reply
 <2>1. CASE reply.code = "none"
  BY ONLY <1>2, <2>1, SolidIsHeard
 <2>2. CASE reply.code # "none"
  BY ONLY <1>2, <2>2, ErrorIsHeard
 <2> QED BY ONLY <2>1, <2>2
<1>4. got' = <<reply'>> /\ request' \in WantedRequests /\ origin' \in Int
 BY ONLY <1>1, <1>2, <1>3
<1> QED BY ONLY <1>1, <1>4 DEF TransferInv

\* What was read says what was asked, of a place that lies elsewhere.
LEMMA ReadIsMeant ==
  ASSUME TransferInv, exchange = "read"
  PROVE  got = [k \in DOMAIN Listing(request) |-> Elsewhere(Listing(request)[k], origin)]
<1>1. got = Reads(Posted) /\ request \in WantedRequests /\ origin \in Int
 BY DEF TransferInv
<1>2. PICK r, o, s : r = request /\ o = origin /\ s = PostedOf(r, o)
 OBVIOUS
<1>3. RequestMoved(r, s, o)
 BY ONLY <1>1, <1>2, PostedMoves
<1>4. SaysMoved(o, Listing(r), Reads(s))
 BY ONLY <1>3, RequestSaysMoved
<1>5. PICK said : said = Listing(r)
 OBVIOUS
<1>6. said \in Seq(Entries) /\ Reads(s) = Image(Elsewheres(o), said)
 BY ONLY <1>4, <1>5 DEF SaysMoved
<1>7. \A k \in DOMAIN said : said[k] \in Entries
 BY ONLY <1>6
<1>8. \A k \in DOMAIN said : Elsewheres(o)[said[k]] = Elsewhere(said[k], o)
 BY ONLY <1>7, ElsewhereMaps
<1>9. Reads(s) = [k \in DOMAIN said |-> Elsewhere(said[k], o)]
 BY ONLY <1>6, <1>8 DEF Image
<1>10. got = Reads(s)
 BY ONLY <1>1, <1>2 DEF Posted
<1> QED BY ONLY <1>2, <1>5, <1>9, <1>10

\* What the host sends the worker accepts and understands, moved or not, and an answer
\* is heard as it was given (encode_occt_request, decode_occt_request and both halves of
\* the response): for all requests, answers and limits.
THEOREM MessagesSurvive == MessageSpec => []MessageSurvives
<1>1. MessageInit => TransferInv
 <2> SUFFICES ASSUME MessageInit
              PROVE  TransferInv
  OBVIOUS
 <2>1. request \in WantedRequests
  BY MessageAssumption DEF MessageInit
 <2>2. /\ origin = 0 /\ exchange = "asking" /\ message = <<>> /\ offset = 0 /\ agenda = <<>>
       /\ NoneCounted
  BY DEF MessageInit, NoneCounted
 <2> QED BY ONLY <2>1, <2>2 DEF TransferInv
<1>2. TransferInv /\ [MessageNext]_messageVars => TransferInv'
 <2>1. ASSUME TransferInv, UNCHANGED messageVars
       PROVE  TransferInv'
  BY <2>1 DEF messageVars, TransferInv, Posted, NoneCounted
 <2>2. TransferInv /\ MessageNext => TransferInv'
  <3>1. MessageNext => Ask \/ ReadingStep \/ ReadEnd \/ Answer \/ Hear
   BY DEF MessageNext, ReadingStep
  <3> QED BY <3>1, AskKeeps, ReadingKeeps, EndKeeps, AnswerKeeps, HearKeeps
 <2> QED BY <2>1, <2>2
<1>3. TransferInv => MessageSurvives
 <2> SUFFICES ASSUME TransferInv
              PROVE  MessageSurvives
  OBVIOUS
 <2>1. exchange = "refused" => message = <<>> /\ ~Encodable(request)
  BY DEF TransferInv
 <2>2. exchange = "heard" => got = <<reply>>
  BY DEF TransferInv
 <2>3. exchange = "read" =>
          got = [k \in DOMAIN Listing(request) |-> Elsewhere(Listing(request)[k], origin)]
  BY ReadIsMeant
 <2> QED BY ONLY <2>1, <2>2, <2>3 DEF MessageSurvives
<1> QED BY <1>1, <1>2, <1>3, PTL DEF MessageSpec

(* The file.  The invariant adds that the buffer has a multiple of four bytes: only *)
(* therefore do the three bytes kept in hand cover the two alignments of an item.   *)

BufferOK ==
  /\ binary \in Nat /\ binary % 4 = 0 /\ binary <= SizeLimit

PrimitivesOK ==
  /\ primitives \in Seq([item : Nat, positions : Nat \X Nat, indices : Nat \X Nat])
  /\ SlicesInOrder

FileOK ==
  /\ json \in Nat /\ chunks \in 0 .. 3 /\ written \in Nat
  /\ report \in {"reading", "writing", "failed", "written"}
  /\ report = "reading" => chunks = 0 /\ written = 0
  /\ report \in {"writing", "written"} \/ written > 0 => taken = Len(stream) /\ FileSize <= SizeLimit
  /\ report \in {"writing", "written"} =>
        written = CASE chunks = 0 -> 0 [] chunks = 1 -> 12 [] chunks = 2 -> 20 + json
                    [] chunks = 3 -> FileSize
  /\ report = "written" => chunks = 3

GlbInv ==
  /\ stream \in Seq(Items) /\ taken \in 0 .. Len(stream)
  /\ BufferOK /\ PrimitivesOK /\ EveryDrawingListed /\ FileOK

USE GlbAssumption

LEMMA AlignedFacts ==
  ASSUME NEW n \in Nat
  PROVE  Aligned(n) \in Nat /\ Aligned(n) >= n /\ Aligned(n) % 4 = 0 /\ (n % 4 = 0 => Aligned(n) = n)
BY DEF Aligned

LEMMA FourTimes ==
  ASSUME NEW v \in Nat, NEW b \in Nat, b % 4 = 0
  PROVE  /\ (b + 12 * v) % 4 = 0
         /\ (b + 4 * v) % 4 = 0
OBVIOUS

LEMMA CopyFacts ==
  ASSUME GlbInv, Copy
  PROVE  LET item == stream[taken + 1]
             v == Vertices(item)
             i == Indices(item)
         IN  /\ taken + 1 \in DOMAIN stream
             /\ v \in Nat /\ i \in Nat
             /\ Packed(taken + 1, binary) =
                    [item |-> taken + 1, positions |-> <<binary, 12 * v>>,
                     indices |-> <<binary + 12 * v, 4 * i>>]
             /\ binary' = binary + 12 * v + 4 * i
             /\ binary' % 4 = 0
             /\ (binary + 12 * v) % 4 = 0
             /\ binary' <= SizeLimit
<1> DEFINE item == stream[taken + 1]
           v == Vertices(item)
           i == Indices(item)
<1>1. taken + 1 \in DOMAIN stream
 BY DEF GlbInv, Copy, Reading
<1>2. item \in Items
 BY <1>1 DEF GlbInv
<1>3. v \in Nat
 BY <1>2 DEF Vertices, Items, Facets
<1>4. i \in Nat
 <2>1. CASE item.kind = "mesh"
  BY <1>2, <2>1 DEF Indices, Items
 <2>2. CASE item.kind = "curve"
  <3>1. item.points >= 2
   BY <1>2, <2>2 DEF Copy, CannotBeCopied, Items
  <3> QED
   BY <1>2, <2>2, <3>1 DEF Indices, Items, Facets
 <2> QED
  BY <2>1, <2>2 DEF Copy, Drawn
<1> HIDE DEF v, i, item
<1>5. binary \in Nat /\ binary % 4 = 0
 BY DEF GlbInv, BufferOK
<1>6. Aligned(binary) = binary
 BY <1>5, AlignedFacts
<1>7. binary + 12 * v \in Nat /\ (binary + 12 * v) % 4 = 0
 BY <1>3, <1>5, FourTimes
<1>8. IndicesAt(item, binary) = binary + 12 * v
 <2>1. IndicesAt(item, binary) = Aligned(Aligned(binary) + 12 * v)
  BY DEF IndicesAt, v
 <2> QED
  BY <2>1, <1>6, <1>7, AlignedFacts
<1>9. Packed(taken + 1, binary) =
          [item |-> taken + 1, positions |-> <<binary, 12 * v>>,
           indices |-> <<binary + 12 * v, 4 * i>>]
 BY <1>6, <1>8 DEF Packed, item, v, i
<1>10. binary' = binary + 12 * v + 4 * i
 BY <1>8 DEF Copy, item, i
<1>11. binary' % 4 = 0
 BY <1>4, <1>7, <1>10, FourTimes
<1>12. binary' <= SizeLimit
 <2>1. 4 * i + 3 <= SizeLimit - binary - 12 * v
  BY DEF Copy, HasRoom, item, v, i
 <2> QED
  BY <2>1, <1>3, <1>4, <1>5, <1>10
<1> QED
 BY <1>1, <1>3, <1>4, <1>7, <1>9, <1>10, <1>11, <1>12 DEF item, v, i

LEMMA CopyKeeps ==
  ASSUME GlbInv, Copy
  PROVE  GlbInv'
<1> DEFINE new == Packed(taken + 1, binary)
           n == Len(primitives)
<1> DEFINE v == Vertices(stream[taken + 1])
           i == Indices(stream[taken + 1])
<1>1. /\ taken + 1 \in DOMAIN stream
      /\ v \in Nat /\ i \in Nat
      /\ new = [item |-> taken + 1, positions |-> <<binary, 12 * v>>,
                indices |-> <<binary + 12 * v, 4 * i>>]
      /\ binary' = binary + 12 * v + 4 * i
      /\ binary' % 4 = 0 /\ (binary + 12 * v) % 4 = 0 /\ binary' <= SizeLimit
 BY CopyFacts
<1>2. Drawn(stream[taken + 1])
 BY DEF Copy
<1>3. /\ primitives' = Append(primitives, new)
      /\ taken' = taken + 1
      /\ UNCHANGED <<stream, json, chunks, written, report>>
 BY DEF Copy
<1> DEFINE Slot == [item : Nat, positions : Nat \X Nat, indices : Nat \X Nat]
<1>4. /\ stream \in Seq(Items) /\ taken \in 0 .. Len(stream)
      /\ binary \in Nat /\ binary % 4 = 0 /\ primitives \in Seq(Slot)
 BY DEF GlbInv, BufferOK, PrimitivesOK
<1> HIDE DEF new, v, i
<1>5. new \in Slot
 <2>1. <<binary, 12 * v>> \in Nat \X Nat /\ <<binary + 12 * v, 4 * i>> \in Nat \X Nat
  BY <1>1, <1>4
 <2>2. taken + 1 \in Nat
  BY <1>4
 <2> QED
  BY <1>1, <2>1, <2>2
<1> HIDE DEF Slot
<1>6. /\ primitives' \in Seq(Slot) /\ n \in Nat
      /\ DOMAIN primitives = 1 .. n /\ DOMAIN primitives' = 1 .. n + 1
      /\ \A k \in 1 .. n : primitives'[k] = primitives[k]
      /\ primitives'[n + 1] = new
 BY <1>3, <1>4, <1>5
<1>7. BufferOK'
 BY <1>1, <1>4 DEF BufferOK
<1>8. SlicesInOrder'
 <2>1. \A k \in 1 .. n : /\ primitives[k].positions[1] % 4 = 0 /\ primitives[k].indices[1] % 4 = 0
                         /\ EndOf(primitives[k].positions) <= primitives[k].indices[1]
                         /\ EndOf(primitives[k].indices) <= binary
  BY <1>6 DEF GlbInv, PrimitivesOK, SlicesInOrder
 <2>2. /\ new.positions[1] = binary /\ new.indices[1] = binary + 12 * v
       /\ EndOf(new.positions) = binary + 12 * v
       /\ EndOf(new.indices) = binary'
  BY <1>1, <1>4 DEF EndOf
 <2>3. \A k \in 1 .. n : EndOf(primitives[k].indices) \in Nat
  <3>1. \A k \in 1 .. n : primitives[k] \in Slot
   BY <1>4, <1>6
  <3>2. \A k \in 1 .. n : primitives[k].indices \in Nat \X Nat
   BY <3>1 DEF Slot
  <3>3. \A pair \in Nat \X Nat : pair[1] + pair[2] \in Nat
   OBVIOUS
  <3> QED
   BY <3>2, <3>3 DEF EndOf
 <2>4. ASSUME NEW k \in 1 .. n + 1
       PROVE  /\ primitives'[k].positions[1] % 4 = 0 /\ primitives'[k].indices[1] % 4 = 0
              /\ EndOf(primitives'[k].positions) <= primitives'[k].indices[1]
              /\ EndOf(primitives'[k].indices) <= binary'
  <3>1. CASE k = n + 1
   BY <3>1, <1>1, <1>4, <1>6, <2>2
  <3>2. CASE k \in 1 .. n
   <4>1. binary <= binary' /\ binary' \in Nat /\ binary \in Nat
    BY <1>1, <1>4
   <4>2. EndOf(primitives[k].indices) <= binary'
    <5>1. \A a, b, c \in Nat : a <= b /\ b <= c => a <= c
     OBVIOUS
    <5>2. EndOf(primitives[k].indices) \in Nat /\ EndOf(primitives[k].indices) <= binary
     BY <3>2, <2>1, <2>3
    <5> QED
     BY <4>1, <5>1, <5>2, Zenon
   <4>3. primitives'[k] = primitives[k]
    BY <3>2, <1>6
   <4> QED
    BY <3>2, <4>2, <4>3, <2>1
  <3> QED
   BY <3>1, <3>2, <1>6
 <2>5. ASSUME NEW j \in 1 .. n + 1, NEW k \in 1 .. n + 1, j < k
       PROVE  EndOf(primitives'[j].indices) <= primitives'[k].positions[1]
  <3>1. j \in 1 .. n
   BY <2>5, <1>6
  <3>2. CASE k = n + 1
   BY <3>1, <3>2, <1>6, <2>1, <2>2
  <3>3. CASE k \in 1 .. n
   BY <2>5, <3>1, <3>3, <1>6 DEF GlbInv, PrimitivesOK, SlicesInOrder
  <3> QED
   BY <3>2, <3>3, <1>6
 <2> QED
  BY <1>6, <2>4, <2>5 DEF SlicesInOrder, EndOf
<1>9. EveryDrawingListed'
 <2>1. /\ new.item = taken + 1 /\ new.positions[2] = 12 * v /\ new.indices[2] = 4 * i
  BY <1>1
 <2>2. ASSUME NEW k \in 1 .. n + 1
       PROVE  /\ primitives'[k].item \in 1 .. taken'
              /\ Drawn(stream'[primitives'[k].item])
              /\ primitives'[k].positions[2] = 12 * Vertices(stream'[primitives'[k].item])
              /\ primitives'[k].indices[2] = 4 * Indices(stream'[primitives'[k].item])
  <3>1. CASE k = n + 1
   BY <3>1, <1>2, <1>3, <1>4, <1>6, <2>1 DEF v, i
  <3>2. CASE k \in 1 .. n
   BY <3>2, <1>3, <1>4, <1>6 DEF GlbInv, EveryDrawingListed
  <3> QED
   BY <3>1, <3>2, <1>6
 <2>3. ASSUME NEW j \in 1 .. n + 1, NEW k \in 1 .. n + 1, j < k
       PROVE  primitives'[j].item < primitives'[k].item
  <3>1. j \in 1 .. n /\ primitives[j].item \in 1 .. taken
   BY <2>3, <1>6 DEF GlbInv, EveryDrawingListed
  <3>2. CASE k = n + 1
   BY <3>1, <3>2, <1>4, <1>6, <2>1
  <3>3. CASE k \in 1 .. n
   BY <2>3, <3>1, <3>3, <1>6 DEF GlbInv, EveryDrawingListed
  <3> QED
   BY <3>2, <3>3, <1>6
 <2>4. ASSUME NEW t \in 1 .. taken', Drawn(stream'[t])
       PROVE  \E k \in 1 .. n + 1 : primitives'[k].item = t
  <3>1. CASE t = taken + 1
   <4>1. n + 1 \in 1 .. n + 1
    BY <1>6
   <4> QED
    BY <3>1, <4>1, <1>6, <2>1
  <3>2. CASE t \in 1 .. taken
   <4>1. PICK k \in 1 .. n : primitives[k].item = t
    BY <2>4, <3>2, <1>3, <1>6 DEF GlbInv, EveryDrawingListed
   <4>2. k \in 1 .. n + 1
    BY <4>1, <1>6
   <4> QED
    BY <4>1, <4>2, <1>6
  <3> QED
   BY <3>1, <3>2, <1>3, <1>4
 <2> QED
  BY <1>6, <2>2, <2>3, <2>4 DEF EveryDrawingListed
<1>10. FileOK'
 BY <1>3 DEF GlbInv, FileOK, Copy, Reading, FileSize
<1> QED
 <2>1. stream' \in Seq(Items) /\ taken' \in 0 .. Len(stream')
  BY <1>1, <1>3, <1>4
 <2>2. PrimitivesOK'
  BY <1>6, <1>8 DEF PrimitivesOK, Slot
 <2> QED
  BY <2>1, <2>2, <1>7, <1>9, <1>10 DEF GlbInv

\* What no other step touches.
LEMMA ListKept ==
  ASSUME GlbInv, UNCHANGED <<stream, taken, primitives, binary>>
  PROVE  /\ stream' \in Seq(Items) /\ taken' \in 0 .. Len(stream')
         /\ BufferOK' /\ PrimitivesOK' /\ EveryDrawingListed'
BY DEF GlbInv, BufferOK, PrimitivesOK, EveryDrawingListed, SlicesInOrder, EndOf, Drawn, Vertices,
       Indices

LEMMA InitHolds == GlbInit => GlbInv
<1> SUFFICES ASSUME GlbInit PROVE GlbInv
 OBVIOUS
<1>1. stream \in Seq(Items) /\ taken \in 0 .. Len(stream)
 BY DEF GlbInit
<1>2. BufferOK
 BY DEF GlbInit, BufferOK
<1>3. PrimitivesOK
 BY DEF GlbInit, PrimitivesOK, SlicesInOrder
<1>4. EveryDrawingListed
 BY DEF GlbInit, EveryDrawingListed
<1>5. FileOK
 BY DEF GlbInit, FileOK
<1> QED
 BY <1>1, <1>2, <1>3, <1>4, <1>5 DEF GlbInv

LEMMA NextKeeps == GlbInv /\ [GlbNext]_glbVars => GlbInv'
<1> SUFFICES ASSUME GlbInv, [GlbNext]_glbVars PROVE GlbInv'
 OBVIOUS
<1>1. CASE Copy
 BY <1>1, CopyKeeps
<1>2. CASE Stop
 <2>1. FileOK'
  BY <1>2 DEF Stop, GiveUp, GlbInv, FileOK, FileSize
 <2> QED
  BY <1>2, <2>1, ListKept DEF Stop, GiveUp, GlbInv
<1>3. CASE PassOver
 <2>1. taken' \in 0 .. Len(stream') /\ stream' \in Seq(Items)
  BY <1>3 DEF PassOver, Reading, GlbInv
 <2>2. BufferOK' /\ PrimitivesOK'
  BY <1>3 DEF PassOver, GlbInv, BufferOK, PrimitivesOK, SlicesInOrder, EndOf
 <2>3. EveryDrawingListed'
  <3>1. ~Drawn(stream[taken + 1])
   BY <1>3 DEF PassOver, Drawn
  <3>2. taken \in Nat
   BY DEF GlbInv
  <3> QED
   BY <1>3, <3>1, <3>2 DEF PassOver, GlbInv, EveryDrawingListed
 <2>4. FileOK'
  BY <1>3 DEF PassOver, Reading, GlbInv, FileOK, FileSize
 <2> QED
  BY <2>1, <2>2, <2>3, <2>4 DEF GlbInv
<1>4. CASE StartFile
 <2>1. binary' = binary
  BY <1>4, AlignedFacts DEF StartFile, GlbInv, BufferOK
 <2>2. json' \in Nat
  BY <1>4, AlignedFacts DEF StartFile
 <2>3. FileOK'
  <3>1. /\ chunks = 0 /\ written = 0 /\ chunks' = 0 /\ written' = 0
        /\ taken' = Len(stream')
   BY <1>4 DEF StartFile, GlbInv, FileOK
  <3>2. CASE FileSize' > SizeLimit
   BY <1>4, <2>2, <3>1, <3>2 DEF StartFile, FileOK, FileSize
  <3>3. CASE ~(FileSize' > SizeLimit)
   <4>1. report' = "writing"
    BY <1>4, <3>3 DEF StartFile, FileSize
   <4>2. FileSize' <= SizeLimit
    <5>1. binary' \in Nat /\ SizeLimit \in Nat
     BY <2>1, GlbAssumption DEF GlbInv, BufferOK
    <5>2. FileSize' = 12 + 8 + json' + 8 + binary'
     BY DEF FileSize
    <5>3. FileSize' \in Nat
     <6>1. \A a, b \in Nat : 12 + 8 + a + 8 + b \in Nat
      OBVIOUS
     <6> QED
      BY <2>2, <5>1, <5>2, <6>1, Zenon
    <5> QED
     BY <3>3, <5>1, <5>3
   <4> QED
    BY <2>2, <3>1, <4>1, <4>2 DEF FileOK
  <3> QED
   BY <3>2, <3>3
 <2> QED
  BY <1>4, <2>1, <2>3, ListKept DEF StartFile, GlbInv
<1>5. CASE WriteChunk
 <2>1. /\ chunks \in 0 .. 2 /\ chunks' = chunks + 1 /\ written \in Nat
       /\ report = "writing" /\ report' = "writing"
       /\ taken' = Len(stream') /\ FileSize' = FileSize /\ FileSize <= SizeLimit
       /\ json' = json /\ binary' = binary /\ json \in Nat /\ binary \in Nat
  BY <1>5 DEF WriteChunk, GlbInv, BufferOK, FileOK, FileSize
 <2>2. written' = CASE chunks' = 0 -> 0 [] chunks' = 1 -> 12 [] chunks' = 2 -> 20 + json
                    [] chunks' = 3 -> FileSize
  <3>1. CASE chunks = 0
   BY <1>5, <2>1, <3>1 DEF WriteChunk, ChunkSize, GlbInv, FileOK
  <3>2. CASE chunks = 1
   BY <1>5, <2>1, <3>2 DEF WriteChunk, ChunkSize, GlbInv, FileOK
  <3>3. CASE chunks = 2
   BY <1>5, <2>1, <3>3 DEF WriteChunk, ChunkSize, GlbInv, FileOK, FileSize
  <3> QED
   BY <2>1, <3>1, <3>2, <3>3
 <2>3. FileSize \in Nat
  BY <2>1 DEF FileSize
 <2>4. written' \in Nat
  BY <2>1, <2>2, <2>3
 <2>5. FileOK'
  BY <2>1, <2>2, <2>4 DEF FileOK
 <2> QED
  BY <1>5, <2>5, ListKept DEF WriteChunk, GlbInv
<1>6. CASE WriteFails
 <2>1. FileOK'
  BY <1>6 DEF WriteFails, GiveUp, GlbInv, FileOK, FileSize
 <2> QED
  BY <1>6, <2>1, ListKept DEF WriteFails, GiveUp, GlbInv
<1>7. CASE FileDone
 <2>1. FileOK'
  BY <1>7 DEF FileDone, GlbInv, FileOK, FileSize
 <2> QED
  BY <1>7, <2>1, ListKept DEF FileDone, GlbInv
<1>8. CASE UNCHANGED glbVars
 <2>1. FileOK'
  BY <1>8 DEF glbVars, GlbInv, FileOK, FileSize
 <2> QED
  BY <1>8, <2>1, ListKept DEF glbVars, GlbInv
<1> QED
 BY <1>1, <1>2, <1>3, <1>4, <1>5, <1>6, <1>7, <1>8 DEF GlbNext

\* A file holds every mesh and curve of its stream, each in slices of its own that
\* lie in the buffer, and has the size it announces, for every stream, every limit
\* of the format and every length of the text (write_glb and pack_mesh).
THEOREM FilesHoldStreams == GlbSpec => []FileHoldsStream
<1>1. GlbInv => FileHoldsStream
 BY DEF GlbInv, BufferOK, PrimitivesOK, FileOK, FileHoldsStream
<1> QED
 BY <1>1, InitHolds, NextKeeps, PTL DEF GlbSpec
=============================================================================
