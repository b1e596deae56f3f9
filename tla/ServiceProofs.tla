----------------------------- MODULE ServiceProofs -----------------------------
(***************************************************************************)
(* Two machines of the service that share no state: the session with its   *)
(* log, metrics and shutdown (Session), for every number of dates, events  *)
(* and faults, and the warnings about dynamic patterns on their way from   *)
(* the detectors to its user (DynamicWarnings), for every project, every   *)
(* graph of imports, every set of patterns and every number of edits.      *)
(***************************************************************************)
EXTENDS Session, DynamicWarnings, FiniteSetTheorems, WellFoundedInduction, TLAPS

-----------------------------------------------------------------------------
\* Induction over the numbers from 1 to n, for a set of them.
LEMMA IntervalInduction ==
  ASSUME NEW n \in Nat, NEW S, 1 \in S, \A i \in 1 .. n - 1 : i \in S => i + 1 \in S
  PROVE  1 .. n \subseteq S
<1> DEFINE less == OpToRel(<, Nat)
<1> SUFFICES ASSUME (1 .. n) \ S # {} PROVE FALSE
  OBVIOUS
<1>1. PICK x \in (1 .. n) \ S : \A y \in (1 .. n) \ S : ~ (<<y, x>> \in less)
  <2>1. (1 .. n) \ S \subseteq Nat
    OBVIOUS
  <2> QED
    BY <2>1, NatLessThanWellFounded, WFMin
<1>2. ASSUME NEW y \in (1 .. n) \ S PROVE ~ (y < x)
  <2>1. x \in Nat /\ y \in Nat
    OBVIOUS
  <2>2. ~ (<<y, x>> \in less)
    BY <1>1
  <2> QED
    BY <2>1, <2>2 DEF OpToRel
<1>3. x # 1 /\ x - 1 \in 1 .. n - 1 /\ (x - 1) + 1 = x
  OBVIOUS
<1> QED
  BY <1>2, <1>3

LEMMA Concatenates ==
  ASSUME NEW T, NEW a \in Seq(T), NEW b \in Seq(T)
  PROVE  /\ Len(a) \in Nat /\ Len(b) \in Nat /\ a \o b \in Seq(T)
         /\ Len(a \o b) = Len(a) + Len(b)
         /\ \A i \in 1 .. Len(a) : (a \o b)[i] = a[i]
         /\ \A i \in 1 .. Len(b) : (a \o b)[Len(a) + i] = b[i]
         /\ ToSet(a) \subseteq ToSet(a \o b) /\ ToSet(b) \subseteq ToSet(a \o b)
<1>1. /\ Len(a) \in Nat /\ Len(b) \in Nat /\ a \o b \in Seq(T)
      /\ Len(a \o b) = Len(a) + Len(b)
      /\ \A i \in 1 .. Len(a) : (a \o b)[i] = a[i]
      /\ \A i \in 1 .. Len(b) : (a \o b)[Len(a) + i] = b[i]
  OBVIOUS
<1>2. \A i \in DOMAIN a : i \in DOMAIN (a \o b) /\ (a \o b)[i] = a[i]
  BY <1>1
<1>3. \A i \in DOMAIN b : Len(a) + i \in DOMAIN (a \o b) /\ (a \o b)[Len(a) + i] = b[i]
  BY <1>1
<1> QED
  BY <1>1, <1>2, <1>3 DEF ToSet

\* Sequences one after the other: flat[i] is the first i of them joined.
Joins(seqs, flat, n) ==
  /\ flat[1] = seqs[1]
  /\ \A i \in 1 .. n - 1 : flat[i + 1] = flat[i] \o seqs[i + 1]

LEMMA FlattenJoins ==
  ASSUME NEW T, NEW n \in Nat \ {0}, NEW seqs \in [1 .. n -> Seq(T)]
  PROVE  \E flat \in [1 .. n -> Seq(T)] : Joins(seqs, flat, n) /\ FlattenSeq(seqs) = flat[n]
<1> DEFINE Upto(k, g) == g \in [1 .. k -> Seq(T)] /\ Joins(seqs, g, k)
           S == {k \in 1 .. n : \E g : Upto(k, g)}
<1>1. 1 \in S
  <2>1. Upto(1, [i \in 1 .. 1 |-> seqs[1]])
    BY DEF Joins
  <2> HIDE DEF Upto
  <2> QED
    BY <2>1
<1>2. ASSUME NEW k \in 1 .. n - 1, k \in S PROVE k + 1 \in S
  <2>1. PICK g : Upto(k, g)
    BY <1>2
  <2> DEFINE h == [i \in 1 .. k + 1 |-> IF i = k + 1 THEN g[k] \o seqs[k + 1] ELSE g[i]]
  <2>2. g[k] \o seqs[k + 1] \in Seq(T)
    <3>1. g[k] \in Seq(T) /\ seqs[k + 1] \in Seq(T)
      BY <2>1
    <3> QED
      BY <3>1, Concatenates
  <2>3. h \in [1 .. k + 1 -> Seq(T)]
    BY <2>1, <2>2
  <2>4. h[1] = seqs[1]
    BY <2>1 DEF Joins
  <2>5. ASSUME NEW i \in 1 .. k PROVE h[i + 1] = h[i] \o seqs[i + 1]
    <3>1. CASE i = k
      <4>1. k \in 1 .. k + 1 /\ k + 1 \in 1 .. k + 1 /\ k # k + 1
        OBVIOUS
      <4>2. h[k + 1] = g[k] \o seqs[k + 1] /\ h[k] = g[k]
        BY <4>1
      <4> HIDE DEF h
      <4> QED
        BY <3>1, <4>2
    <3>2. CASE i # k
      <4>1. i \in 1 .. k - 1 /\ h[i + 1] = g[i + 1] /\ h[i] = g[i]
        BY <3>2
      <4> QED
        BY <2>1, <4>1 DEF Joins
    <3> QED
      BY <3>1, <3>2
  <2> HIDE DEF h
  <2>6. Upto(k + 1, h)
    <3>1. (k + 1) - 1 = k
      OBVIOUS
    <3> QED
      BY <2>3, <2>4, <2>5, <3>1 DEF Joins
  <2>7. k + 1 \in 1 .. n
    OBVIOUS
  <2> HIDE DEF Upto
  <2> QED
    BY <2>6, <2>7
<1> HIDE DEF S
<1>3. n \in S
  <2>1. 1 .. n \subseteq S
    BY <1>1, <1>2, IntervalInduction
  <2> QED
    BY <2>1
<1>4. PICK g : Upto(n, g)
  BY <1>3 DEF S
<1> DEFINE Def(f) == f = [i \in 1 .. Len(seqs) |-> IF i = 1 THEN seqs[i] ELSE f[i - 1] \o seqs[i]]
           flat == CHOOSE f : Def(f)
<1>5. Len(seqs) = n
  OBVIOUS
<1>6. Def(g)
  <2>1. ASSUME NEW i \in 1 .. n PROVE g[i] = IF i = 1 THEN seqs[i] ELSE g[i - 1] \o seqs[i]
    <3>1. CASE i = 1
      BY <1>4, <3>1 DEF Joins
    <3>2. CASE i # 1
      <4>1. i - 1 \in 1 .. n - 1 /\ (i - 1) + 1 = i
        BY <3>2
      <4> QED
        BY <1>4, <3>2, <4>1 DEF Joins
    <3> QED
      BY <3>1, <3>2
  <2> QED
    BY <1>4, <1>5, <2>1
<1>7. Def(flat)
  BY <1>6
<1>8. FlattenSeq(seqs) = flat[n]
  BY <1>5 DEF FlattenSeq
<1> HIDE DEF flat
<1>9. \A i \in 1 .. n : flat[i] = IF i = 1 THEN seqs[i] ELSE flat[i - 1] \o seqs[i]
  BY <1>7, <1>5
<1> DEFINE E == {k \in 1 .. n : flat[k] = g[k]}
<1>10. 1 \in E
  BY <1>4, <1>9 DEF Joins
<1>11. ASSUME NEW k \in 1 .. n - 1, k \in E PROVE k + 1 \in E
  <2>1. k + 1 \in 1 .. n /\ k + 1 # 1 /\ (k + 1) - 1 = k
    OBVIOUS
  <2>2. flat[k + 1] = flat[k] \o seqs[k + 1]
    BY <1>9, <2>1
  <2>3. g[k + 1] = g[k] \o seqs[k + 1]
    BY <1>4 DEF Joins
  <2> QED
    BY <1>11, <2>1, <2>2, <2>3
<1> HIDE DEF E
<1>12. n \in E
  <2>1. 1 .. n \subseteq E
    BY <1>10, <1>11, IntervalInduction
  <2> QED
    BY <2>1
<1>13. flat[n] = g[n]
  BY <1>12 DEF E
<1> QED
  BY <1>4, <1>8, <1>13

(***************************************************************************)
(* The joined sequence has the elements of all; it ends with one of them   *)
(* when those behind it are empty, and is empty when all are.              *)
(***************************************************************************)
LEMMA FlattenFacts ==
  ASSUME NEW T, NEW n \in Nat \ {0}, NEW seqs \in [1 .. n -> Seq(T)]
  PROVE  /\ FlattenSeq(seqs) \in Seq(T)
         /\ \A k \in 1 .. n : ToSet(seqs[k]) \subseteq ToSet(FlattenSeq(seqs))
         /\ \A k \in 1 .. n : (\A j \in k + 1 .. n : seqs[j] = <<>>) =>
              \E p \in Seq(T) : FlattenSeq(seqs) = p \o seqs[k]
         /\ (\A j \in 1 .. n : seqs[j] = <<>>) => FlattenSeq(seqs) = <<>>
<1>1. PICK flat \in [1 .. n -> Seq(T)] : Joins(seqs, flat, n) /\ FlattenSeq(seqs) = flat[n]
  BY FlattenJoins
<1>2. \A i \in 1 .. n - 1 : flat[i + 1] = flat[i] \o seqs[i + 1]
  BY <1>1 DEF Joins
<1>3. ASSUME NEW k \in 1 .. n PROVE \E p \in Seq(T) : flat[k] = p \o seqs[k]
  <2>1. CASE k = 1
    <3>1. <<>> \in Seq(T) /\ seqs[1] = <<>> \o seqs[1]
      OBVIOUS
    <3>2. flat[k] = <<>> \o seqs[k]
      BY <1>1, <2>1, <3>1 DEF Joins
    <3> QED
      BY <3>1, <3>2
  <2>2. CASE k # 1
    <3>1. k - 1 \in 1 .. n - 1 /\ (k - 1) + 1 = k /\ k - 1 \in 1 .. n
      BY <2>2
    <3>2. flat[k] = flat[k - 1] \o seqs[k]
      BY <1>2, <3>1
    <3>3. flat[k - 1] \in Seq(T)
      BY <3>1
    <3> QED
      BY <3>2, <3>3
  <2> QED
    BY <2>1, <2>2
<1>4. ASSUME NEW k \in 1 .. n PROVE ToSet(seqs[k]) \subseteq ToSet(flat[n])
  <2> DEFINE S == {i \in 1 .. n : k <= i => ToSet(seqs[k]) \subseteq ToSet(flat[i])}
  <2>1. ToSet(seqs[k]) \subseteq ToSet(flat[k])
    <3>1. PICK p \in Seq(T) : flat[k] = p \o seqs[k]
      BY <1>3
    <3>2. seqs[k] \in Seq(T)
      OBVIOUS
    <3>3. ToSet(seqs[k]) \subseteq ToSet(p \o seqs[k])
      BY <3>2, Concatenates
    <3> QED
      BY <3>1, <3>3
  <2>2. 1 \in S
    <3>1. k <= 1 => k = 1
      OBVIOUS
    <3> QED
      BY <2>1, <3>1
  <2>3. ASSUME NEW i \in 1 .. n - 1, i \in S PROVE i + 1 \in S
    <3>1. i + 1 \in 1 .. n
      OBVIOUS
    <3> SUFFICES ASSUME k <= i + 1 PROVE ToSet(seqs[k]) \subseteq ToSet(flat[i + 1])
      BY <3>1
    <3>2. CASE k = i + 1
      BY <2>1, <3>2
    <3>3. CASE k # i + 1
      <4>1. ToSet(seqs[k]) \subseteq ToSet(flat[i])
        BY <2>3, <3>3
      <4>2. flat[i] \in Seq(T) /\ seqs[i + 1] \in Seq(T)
        OBVIOUS
      <4>3. ToSet(flat[i]) \subseteq ToSet(flat[i] \o seqs[i + 1])
        BY <4>2, Concatenates
      <4>4. flat[i + 1] = flat[i] \o seqs[i + 1]
        BY <1>2
      <4> QED
        BY <4>1, <4>3, <4>4
    <3> QED
      BY <3>2, <3>3
  <2> HIDE DEF S
  <2>4. 1 .. n \subseteq S
    BY <2>2, <2>3, IntervalInduction
  <2>5. n \in S /\ k <= n
    BY <2>4
  <2> QED
    BY <2>5 DEF S
<1>5. ASSUME NEW k \in 1 .. n, \A j \in k + 1 .. n : seqs[j] = <<>>
      PROVE  flat[n] = flat[k]
  <2> DEFINE S == {i \in 1 .. n : k <= i => flat[i] = flat[k]}
  <2>1. 1 \in S
    OBVIOUS
  <2>2. ASSUME NEW i \in 1 .. n - 1, i \in S PROVE i + 1 \in S
    <3>1. i + 1 \in 1 .. n
      OBVIOUS
    <3> SUFFICES ASSUME k <= i + 1 PROVE flat[i + 1] = flat[k]
      BY <3>1
    <3>2. CASE k = i + 1
      BY <3>2
    <3>3. CASE k # i + 1
      <4>1. i + 1 \in k + 1 .. n /\ k <= i
        BY <3>3
      <4>2. seqs[i + 1] = <<>> /\ flat[i] = flat[k]
        BY <1>5, <2>2, <4>1
      <4>3. flat[i + 1] = flat[k] \o <<>>
        BY <1>2, <4>2
      <4>4. flat[k] \in Seq(T)
        OBVIOUS
      <4> QED
        BY <4>3, <4>4
    <3> QED
      BY <3>2, <3>3
  <2> HIDE DEF S
  <2>3. 1 .. n \subseteq S
    BY <2>1, <2>2, IntervalInduction
  <2>4. n \in S /\ k <= n
    BY <2>3
  <2> QED
    BY <2>4 DEF S
<1>6. ASSUME \A j \in 1 .. n : seqs[j] = <<>> PROVE flat[n] = <<>>
  <2>1. 1 \in 1 .. n /\ (\A j \in 1 + 1 .. n : seqs[j] = <<>>)
    BY <1>6
  <2>2. flat[n] = flat[1]
    BY <1>5, <2>1
  <2> QED
    BY <1>1, <1>6, <2>1, <2>2 DEF Joins
<1>7. ASSUME NEW k \in 1 .. n, \A j \in k + 1 .. n : seqs[j] = <<>>
      PROVE  \E p \in Seq(T) : FlattenSeq(seqs) = p \o seqs[k]
  BY <1>1, <1>3, <1>5, <1>7
<1>8. FlattenSeq(seqs) \in Seq(T)
  BY <1>1
<1> QED
  BY <1>1, <1>4, <1>6, <1>7, <1>8

\* One element more at the end of one of the sequences is one more of the whole.
AddsTo(seqs, more, n, k, e) ==
  more[k] = Append(seqs[k], e) /\ \A i \in 1 .. n : i # k => more[i] = seqs[i]

OneMore(more, seqs) == Len(more) = Len(seqs) + 1

LEMMA FlattenAppend ==
  ASSUME NEW T, NEW n \in Nat \ {0}, NEW seqs \in [1 .. n -> Seq(T)],
         NEW k \in 1 .. n, NEW e \in T,
         NEW more \in [1 .. n -> Seq(T)], AddsTo(seqs, more, n, k, e)
  PROVE  OneMore(FlattenSeq(more), FlattenSeq(seqs))
<1>1. more \in [1 .. n -> Seq(T)]
  OBVIOUS
<1>2. ASSUME NEW i \in 1 .. n
      PROVE  Len(more[i]) = Len(seqs[i]) + IF i = k THEN 1 ELSE 0
  BY DEF AddsTo
<1>3. PICK a \in [1 .. n -> Seq(T)] : Joins(seqs, a, n) /\ FlattenSeq(seqs) = a[n]
  BY FlattenJoins
<1>4. PICK b \in [1 .. n -> Seq(T)] : Joins(more, b, n) /\ FlattenSeq(more) = b[n]
  BY <1>1, FlattenJoins
<1> DEFINE Ends(i) == /\ k <= i => Len(b[i]) = Len(a[i]) + 1
                      /\ i < k => Len(b[i]) = Len(a[i])
           S == {i \in 1 .. n : Ends(i)}
<1>5. 1 \in S
  <2>1. b[1] = more[1] /\ a[1] = seqs[1] /\ 1 \in 1 .. n /\ (k <= 1 <=> 1 = k)
    BY <1>3, <1>4 DEF Joins
  <2>2. Len(more[1]) = Len(seqs[1]) + IF 1 = k THEN 1 ELSE 0
    BY <1>2, <2>1
  <2> QED
    BY <2>1, <2>2
<1>6. ASSUME NEW i \in 1 .. n - 1, i \in S PROVE i + 1 \in S
  <2>1. i + 1 \in 1 .. n /\ i \in 1 .. n
    OBVIOUS
  <2>2. b[i + 1] = b[i] \o more[i + 1] /\ a[i + 1] = a[i] \o seqs[i + 1]
    BY <1>3, <1>4 DEF Joins
  <2>3. /\ b[i] \in Seq(T) /\ more[i + 1] \in Seq(T)
        /\ a[i] \in Seq(T) /\ seqs[i + 1] \in Seq(T)
    BY <1>1, <2>1
  <2>4. Len(b[i + 1]) = Len(b[i]) + Len(more[i + 1]) /\ Len(a[i + 1]) = Len(a[i]) + Len(seqs[i + 1])
    BY <2>2, <2>3, Concatenates
  <2>5. Len(more[i + 1]) = Len(seqs[i + 1]) + IF i + 1 = k THEN 1 ELSE 0
    BY <1>2, <2>1
  <2>6. Len(a[i]) \in Nat /\ Len(b[i]) \in Nat /\ Len(seqs[i + 1]) \in Nat
    BY <2>3, Concatenates
  <2>7. Ends(i)
    BY <1>6
  <2> DEFINE bi == Len(b[i])
             ai == Len(a[i])
             si == Len(seqs[i + 1])
             mi == Len(more[i + 1])
  <2> HIDE DEF bi, ai, si, mi
  <2>8. /\ ai \in Nat /\ bi \in Nat /\ si \in Nat
        /\ mi = si + IF i + 1 = k THEN 1 ELSE 0
        /\ (k <= i => bi = ai + 1) /\ (i < k => bi = ai)
    BY <2>5, <2>6, <2>7 DEF ai, bi, si, mi
  <2>9. (k <= i + 1 => bi + mi = ai + si + 1) /\ (i + 1 < k => bi + mi = ai + si)
    BY <2>8
  <2>10. Ends(i + 1)
    BY <2>4, <2>9 DEF ai, bi, si, mi
  <2> QED
    BY <2>1, <2>10
<1> HIDE DEF S
<1>7. 1 .. n \subseteq S
  BY <1>5, <1>6, IntervalInduction
<1>8. n \in S /\ k <= n
  BY <1>7
<1>9. Len(b[n]) = Len(a[n]) + 1
  BY <1>8 DEF S
<1> QED
  BY <1>3, <1>4, <1>9 DEF OneMore

(***************************************************************************)
(* What the files hold, in the order of their dates: all they hold, at the *)
(* end the last file that is not empty, and one line more when one gets a  *)
(* line.                                                                   *)
(***************************************************************************)
GetsLine(files, more, d, e) ==
  more[d] = Append(files[d], e) /\ \A x \in Date : x # d => more[x] = files[x]

LEMMA OrderFacts ==
  ASSUME NEW T, NEW files \in [Date -> Seq(T)]
  PROVE  /\ InOrderOfDates(files) \in Seq(T)
         /\ \A d \in Date : ToSet(files[d]) \subseteq ToSet(InOrderOfDates(files))
         /\ \A d \in Date : (\A x \in Date : d < x => files[x] = <<>>) =>
              \E p \in Seq(T) : InOrderOfDates(files) = p \o files[d]
         /\ (\A d \in Date : files[d] = <<>>) => InOrderOfDates(files) = <<>>
         /\ \A more \in [Date -> Seq(T)], d \in Date, e \in T :
              GetsLine(files, more, d, e) => OneMore(InOrderOfDates(more), InOrderOfDates(files))
<1> DEFINE n == LastDate - FirstDate + 1
           seqs == [i \in 1 .. n |-> files[FirstDate + i - 1]]
<1>1. n \in Nat \ {0}
  BY DatesAssumption
<1>2. ASSUME NEW i \in 1 .. n PROVE FirstDate + i - 1 \in Date
  BY <1>1, DatesAssumption DEF Date
<1>3. seqs \in [1 .. n -> Seq(T)]
  BY <1>2
<1>4. ASSUME NEW d \in Date
      PROVE  /\ d - FirstDate + 1 \in 1 .. n
             /\ FirstDate + (d - FirstDate + 1) - 1 = d
             /\ seqs[d - FirstDate + 1] = files[d]
  BY DatesAssumption DEF Date
<1>5. InOrderOfDates(files) = FlattenSeq(seqs)
  BY DEF InOrderOfDates
<1>6. \A i \in 1 .. n : seqs[i] = files[FirstDate + i - 1]
  OBVIOUS
<1>7. ASSUME NEW more \in [Date -> Seq(T)], NEW d \in Date, NEW e \in T, GetsLine(files, more, d, e)
      PROVE  /\ InOrderOfDates(more) = FlattenSeq([i \in 1 .. n |-> more[FirstDate + i - 1]])
             /\ [i \in 1 .. n |-> more[FirstDate + i - 1]] \in [1 .. n -> Seq(T)]
             /\ AddsTo(seqs, [i \in 1 .. n |-> more[FirstDate + i - 1]], n, d - FirstDate + 1, e)
  <2> DEFINE k == d - FirstDate + 1
             new == [i \in 1 .. n |-> more[FirstDate + i - 1]]
  <2>1. new \in [1 .. n -> Seq(T)]
    BY <1>2
  <2>2. new[k] = Append(seqs[k], e)
    BY <1>4, <1>7 DEF GetsLine
  <2>3. ASSUME NEW i \in 1 .. n, i # k PROVE new[i] = seqs[i]
    <3>1. FirstDate + i - 1 # d /\ FirstDate + i - 1 \in Date
      BY <1>2, <2>3, DatesAssumption DEF Date
    <3> QED
      BY <1>7, <3>1 DEF GetsLine
  <2> QED
    BY <2>1, <2>2, <2>3 DEF AddsTo, InOrderOfDates
<1> HIDE DEF n, seqs
<1>8. /\ FlattenSeq(seqs) \in Seq(T)
      /\ \A k \in 1 .. n : (\A j \in k + 1 .. n : seqs[j] = <<>>) =>
           \E p \in Seq(T) : FlattenSeq(seqs) = p \o seqs[k]
  BY <1>1, <1>3, FlattenFacts
<1>9. ASSUME NEW d \in Date PROVE ToSet(files[d]) \subseteq ToSet(FlattenSeq(seqs))
  BY <1>1, <1>3, <1>4, FlattenFacts
<1>10. ASSUME NEW d \in Date, \A x \in Date : d < x => files[x] = <<>>
       PROVE  \E p \in Seq(T) : FlattenSeq(seqs) = p \o files[d]
  <2> DEFINE k == d - FirstDate + 1
  <2>1. ASSUME NEW j \in k + 1 .. n PROVE seqs[j] = <<>>
    <3>1. j \in 1 .. n /\ FirstDate + j - 1 \in Date /\ d < FirstDate + j - 1
      BY <1>2, <1>4, <1>1, DatesAssumption DEF Date
    <3> QED
      BY <1>6, <1>10, <3>1
  <2>2. k \in 1 .. n /\ seqs[k] = files[d]
    BY <1>4
  <2> HIDE DEF k
  <2>3. \E p \in Seq(T) : FlattenSeq(seqs) = p \o seqs[k]
    BY <1>8, <2>1, <2>2
  <2> QED
    BY <2>2, <2>3
<1>11. ASSUME \A d \in Date : files[d] = <<>> PROVE FlattenSeq(seqs) = <<>>
  <2>1. \A j \in 1 .. n : seqs[j] = <<>>
    BY <1>2, <1>6, <1>11
  <2> QED
    BY <1>1, <1>3, <2>1, FlattenFacts
<1>12. ASSUME NEW more \in [Date -> Seq(T)], NEW d \in Date, NEW e \in T, GetsLine(files, more, d, e)
       PROVE  OneMore(InOrderOfDates(more), FlattenSeq(seqs))
  <2> DEFINE k == d - FirstDate + 1
             new == [i \in 1 .. n |-> more[FirstDate + i - 1]]
  <2>1. k \in 1 .. n
    BY <1>4
  <2>2. InOrderOfDates(more) = FlattenSeq(new) /\ new \in [1 .. n -> Seq(T)] /\ AddsTo(seqs, new, n, k, e)
    BY <1>7, <1>12
  <2> HIDE DEF k, new
  <2>3. OneMore(FlattenSeq(new), FlattenSeq(seqs))
    BY <1>1, <1>3, <2>1, <2>2, FlattenAppend, Zenon
  <2> QED
    BY <2>2, <2>3
<1> QED
  BY <1>5, <1>8, <1>9, <1>10, <1>11, <1>12

-----------------------------------------------------------------------------
(***************************************************************************)
(* The invariant.  Of the log: the file that is open is the one that is    *)
(* named, no later one has a line, and its date is at most a day before    *)
(* the one the logger takes today for.                                     *)
(***************************************************************************)
LogTypeOK ==
  /\ today \in Date /\ reading \in Source /\ tried \in Nat /\ faults \in Nat
  /\ injections \in Logger
  /\ lines \in [Date -> Seq(Events)]
  /\ counted \in Seq(Events)

DatesInv ==
  /\ injections.file <= today /\ injections.current <= today
  /\ injections.file >= injections.current - 1
  /\ injections.handle \in Date => injections.handle = injections.file
  /\ \A d \in Date : injections.file < d => lines[d] = <<>>

\* what is counted is on disk, and without faults nothing else is
CountInv ==
  /\ injections.count = Len(counted)
  /\ \A i \in DOMAIN counted : \E d \in Date : counted[i] \in ToSet(lines[d])
  /\ faults = 0 => injections.buffer = <<>> /\ injections.count = Len(AllLines)

\* a file that is not tracked has no event, unless there was no room
Occurrences(events, s) == Cardinality({i \in DOMAIN events : events[i].src = s})
TrackInv ==
  LET tracked == injections.tracked
  IN /\ IsFiniteSet(DOMAIN tracked) /\ Cardinality(DOMAIN tracked) <= MaxTracked
     /\ \A s \in DOMAIN tracked : tracked[s] = Occurrences(counted, s)
     /\ Cardinality(DOMAIN tracked) < MaxTracked =>
          \A i \in DOMAIN counted : counted[i].src \in DOMAIN tracked

LogInv == LogTypeOK /\ DatesInv /\ CountInv /\ TrackInv

\* of the record: it is not written yet, or what it would tell of is still there
RecordInv ==
  /\ metrics \in [file : Date, current : Date, written : BOOLEAN, tokens : Nat]
  /\ holds \in BOOLEAN /\ analyzed \in BOOLEAN /\ dropped \in BOOLEAN
  /\ ~metrics.written => records = NoFiles /\ (holds = analyzed \/ dropped)

\* of a shutdown: what it has done so far
ShutdownInv ==
  /\ pc \in {"finalize", "clear", "close"} => ~watching
  /\ pc = "close" => ~holds

-----------------------------------------------------------------------------
LEMMA NoMarkerIsADate == NoHandle \notin Date /\ Unusable \notin Date
BY DatesAssumption

LEMMA DatesAreIntegers == \A d \in Date : d \in Int
BY DatesAssumption DEF Date

\* flush adds to the file that is open.
LEMMA FlushFacts ==
  ASSUME NEW files \in [Date -> Seq(Events)], NEW l, l.buffer \in Seq(Events)
  PROVE  /\ Flushed(files, l) \in [Date -> Seq(Events)]
         /\ \A d \in Date : ToSet(files[d]) \subseteq ToSet(Flushed(files, l)[d])
         /\ \A d \in Date : d # l.handle => Flushed(files, l)[d] = files[d]
         /\ l.buffer = <<>> => Flushed(files, l) = files
<1>1. CASE l.handle \in Date
  <2>1. Flushed(files, l) = [files EXCEPT ![l.handle] = files[l.handle] \o l.buffer]
    BY <1>1 DEF Flushed
  <2>2. files[l.handle] \in Seq(Events)
    BY <1>1
  <2> DEFINE q == files[l.handle]
  <2> HIDE DEF q
  <2>3. q \o l.buffer \in Seq(Events) /\ ToSet(q) \subseteq ToSet(q \o l.buffer)
    BY <2>2, Concatenates DEF q
  <2>4. l.buffer = <<>> => q \o l.buffer = q
    BY <2>2 DEF q
  <2> QED
    BY <1>1, <2>1, <2>3, <2>4 DEF q
<1>2. CASE l.handle \notin Date
  BY <1>2 DEF Flushed
<1> QED
  BY <1>1, <1>2

(***************************************************************************)
(* After _check_date_rotation (named is the date when the file gets its    *)
(* name), the logger's dates are in order again and what was buffered is   *)
(* in the file left behind.                                                *)
(***************************************************************************)
Rotates(l, files, named) ==
  /\ l \in Logger
  /\ l.current = today /\ l.file <= named /\ l.file >= today - 1
  /\ l.handle \in Date => l.handle = l.file
  /\ l.count = injections.count /\ l.tracked = injections.tracked
  /\ ~StuckToday => l.handle # Unusable
  /\ files \in [Date -> Seq(Events)]
  /\ \A d \in Date : ToSet(lines[d]) \subseteq ToSet(files[d])
  /\ \A d \in Date : l.file < d => files[d] = <<>>
  /\ injections.buffer = <<>> => files = lines /\ l.buffer = <<>>

LEMMA RotationFacts ==
  ASSUME LogTypeOK, DatesInv, NEW named \in {today, today + 1} \cap Date,
         MidnightOnlyIn(injections, named)
  PROVE  Rotates(Rotated(injections, today, named), FilesAfterRotation(lines, injections, today), named)
<1> DEFINE l     == Rotated(injections, today, named)
           files == FilesAfterRotation(lines, injections, today)
<1>1. named \in Int /\ today \in Int /\ named >= today
  BY DatesAreIntegers DEF LogTypeOK
<1>2. injections \in Logger /\ injections.buffer \in Seq(Events) /\ injections.file \in Int
  BY DatesAreIntegers DEF LogTypeOK, Logger
<1>3. CASE today = injections.current
  <2>1. l = injections /\ files = lines
    BY <1>3 DEF Rotated, FilesAfterRotation
  <2> HIDE DEF l, files
  <2>2. Rotates(l, files, named)
    <3>1. injections.file <= named /\ injections.file >= today - 1
      BY <1>1, <1>2, <1>3 DEF DatesInv
    <3>2. ~StuckToday => injections.handle # Unusable
      BY <1>3 DEF StuckToday
    <3> QED
      BY <1>2, <1>3, <2>1, <3>1, <3>2 DEF Rotates, LogTypeOK, DatesInv
  <2> QED
    BY <2>2 DEF l, files
<1>4. CASE today # injections.current
  <2>1. /\ l = [injections EXCEPT !.handle = NoHandle, !.buffer = <<>>, !.current = today, !.file = named]
        /\ files = Flushed(lines, injections)
    BY <1>4 DEF Rotated, FilesAfterRotation, Closed
  <2>2. <<>> \in Seq(Events)
    OBVIOUS
  <2>3. /\ l \in Logger /\ l.current = today /\ l.file = named /\ l.handle = NoHandle /\ l.buffer = <<>>
        /\ l.count = injections.count /\ l.tracked = injections.tracked
    BY <1>2, <2>1, <2>2 DEF Logger, LogTypeOK
  <2>4. /\ files \in [Date -> Seq(Events)]
        /\ \A d \in Date : ToSet(lines[d]) \subseteq ToSet(files[d])
        /\ \A d \in Date : d # injections.handle => files[d] = lines[d]
        /\ injections.buffer = <<>> => files = lines
    <3>1. lines \in [Date -> Seq(Events)]
      BY DEF LogTypeOK
    <3> HIDE DEF files
    <3> QED
      BY <1>2, <2>1, <3>1, FlushFacts
  <2>5. ASSUME NEW d \in Date, named < d PROVE files[d] = <<>>
    <3>1. d \in Int
      BY DatesAreIntegers
    <3>2. injections.file < d
      BY <1>1, <1>2, <2>5, <3>1 DEF DatesInv
    <3>3. d # injections.handle
      BY <1>2, <3>1, <3>2 DEF DatesInv
    <3> HIDE DEF files
    <3> QED
      BY <2>4, <3>2, <3>3 DEF DatesInv
  <2> HIDE DEF l, files
  <2>6. l.handle # Unusable /\ l.handle \notin Date
    BY <2>3, DatesAssumption
  <2>7. Rotates(l, files, named)
    BY <1>1, <2>3, <2>4, <2>5, <2>6 DEF Rotates
  <2> QED
    BY <2>7 DEF l, files
<1> QED
  BY <1>3, <1>4

-----------------------------------------------------------------------------
\* One event more, of one file.
LEMMA OccurrencesFacts ==
  ASSUME NEW c \in Seq(Events), NEW e \in Events, NEW s
  PROVE  /\ Occurrences(c, s) \in Nat
         /\ Occurrences(Append(c, e), s) = Occurrences(c, s) + IF e.src = s THEN 1 ELSE 0
         /\ (\A i \in DOMAIN c : c[i].src # s) => Occurrences(c, s) = 0
<1> DEFINE S == {i \in DOMAIN c : c[i].src = s}
           n == Len(c) + 1
           T == {i \in DOMAIN Append(c, e) : Append(c, e)[i].src = s}
<1>1. IsFiniteSet(S) /\ Cardinality(S) \in Nat
  <2>1. Len(c) \in Nat /\ S \subseteq 1 .. Len(c)
    OBVIOUS
  <2>2. IsFiniteSet(1 .. Len(c))
    <3> DEFINE k == Len(c)
    <3>1. k \in Nat
      OBVIOUS
    <3> HIDE DEF k
    <3>2. 1 \in Int /\ k \in Int
      BY <3>1
    <3>3. IsFiniteSet(1 .. k)
      BY <3>2, FS_Interval
    <3> QED
      BY <3>3 DEF k
  <2> QED
    BY <2>1, <2>2, FS_Subset, FS_CardinalityType
<1>2. T = S \cup (IF e.src = s THEN {n} ELSE {})
  <2>1. DOMAIN Append(c, e) = DOMAIN c \cup {n} /\ Append(c, e)[n] = e
    OBVIOUS
  <2>2. \A i \in DOMAIN c : Append(c, e)[i] = c[i]
    OBVIOUS
  <2> HIDE DEF n
  <2> QED
    BY <2>1, <2>2
<1>3. n \notin S
  OBVIOUS
<1> HIDE DEF S, T, n
<1>4. Cardinality(T) = Cardinality(S) + IF e.src = s THEN 1 ELSE 0
  <2>1. CASE e.src = s
    <3>1. T = S \cup {n}
      BY <1>2, <2>1
    <3> QED
      BY <1>1, <1>3, <2>1, <3>1, FS_AddElement
  <2>2. CASE e.src # s
    BY <1>1, <1>2, <2>2
  <2> QED
    BY <2>1, <2>2
<1>5. ASSUME \A i \in DOMAIN c : c[i].src # s PROVE Cardinality(S) = 0
  <2>1. S = {}
    BY <1>5 DEF S
  <2> QED
    BY <2>1, FS_EmptySet
<1> QED
  BY <1>1, <1>4, <1>5 DEF Occurrences, S, T

\* What the statistics become.
Tracks(tracked, more, e) ==
  IF Cardinality(DOMAIN tracked) < MaxTracked \/ e.src \in DOMAIN tracked
  THEN /\ DOMAIN more = DOMAIN tracked \cup {e.src}
       /\ \A s \in DOMAIN more :
            more[s] = (IF s \in DOMAIN tracked THEN tracked[s] ELSE 0) + (IF s = e.src THEN 1 ELSE 0)
  ELSE more = tracked

LEMMA CountedFacts ==
  ASSUME NEW l \in Logger, NEW e \in Events
  PROVE  /\ Counted(l, e) \in Logger
         /\ Counted(l, e).count = l.count + 1
         /\ Counted(l, e).file = l.file /\ Counted(l, e).current = l.current
         /\ Counted(l, e).handle = l.handle /\ Counted(l, e).buffer = l.buffer
         /\ Tracks(l.tracked, Counted(l, e).tracked, e)
<1> DEFINE m == [s \in DOMAIN l.tracked \cup {e.src} |->
                   (IF s \in DOMAIN l.tracked THEN l.tracked[s] ELSE 0) + (IF s = e.src THEN 1 ELSE 0)]
           more == IF Cardinality(DOMAIN l.tracked) < MaxTracked \/ e.src \in DOMAIN l.tracked
                   THEN m ELSE l.tracked
<1>1. PICK S \in SUBSET Source : l.tracked \in [S -> Nat]
  BY DEF Logger
<1>2. e.src \in Source
  BY DEF Events
<1>3. m \in [S \cup {e.src} -> Nat] /\ S \cup {e.src} \in SUBSET Source
  <2>1. \A s \in S \cup {e.src} : (IF s \in DOMAIN l.tracked THEN l.tracked[s] ELSE 0) + (IF s = e.src THEN 1 ELSE 0) \in Nat
    BY <1>1
  <2> QED
    BY <1>1, <1>2, <2>1
<1>4. more \in UNION {[Q -> Nat] : Q \in SUBSET Source}
  <2> HIDE DEF m
  <2> QED
    BY <1>1, <1>3
<1>5. Counted(l, e) = [l EXCEPT !.count = l.count + 1, !.tracked = more]
  BY DEF Counted
<1>6. Tracks(l.tracked, more, e)
  BY DEF Tracks
<1> HIDE DEF more
<1>7. l.count \in Nat
  BY DEF Logger
<1>8. /\ Counted(l, e).tracked = more /\ Counted(l, e).count = l.count + 1
      /\ Counted(l, e).file = l.file /\ Counted(l, e).current = l.current
      /\ Counted(l, e).handle = l.handle /\ Counted(l, e).buffer = l.buffer
  BY <1>5 DEF Logger
<1>9. Counted(l, e) \in Logger
  <2> DEFINE U == UNION {[Q -> Nat] : Q \in SUBSET Source}
             L == [current : Date, file : Date, handle : Date \cup {NoHandle, Unusable},
                   buffer : Seq(Events), count : Nat, tracked : U]
  <2>1. L = Logger
    BY DEF Logger
  <2>2. more \in U
    BY <1>4
  <2>3. l \in L
    BY <2>1
  <2> HIDE DEF U
  <2> DEFINE c == l.count + 1
  <2>4. c \in Nat
    BY <1>7
  <2> HIDE DEF c
  <2>5. [l EXCEPT !.count = c, !.tracked = more] \in L
    BY <2>2, <2>3, <2>4
  <2>6. Counted(l, e) \in L
    BY <1>5, <2>5 DEF c
  <2> QED
    BY <2>1, <2>6
<1>10. Tracks(l.tracked, Counted(l, e).tracked, e)
  BY <1>6, <1>8
<1> QED
  BY <1>8, <1>9, <1>10

LEMMA TracksKeeps ==
  ASSUME LogTypeOK, TrackInv, NEW e \in Events, NEW more, Tracks(injections.tracked, more, e)
  PROVE  /\ IsFiniteSet(DOMAIN more) /\ Cardinality(DOMAIN more) <= MaxTracked
         /\ \A s \in DOMAIN more : more[s] = Occurrences(Append(counted, e), s)
         /\ Cardinality(DOMAIN more) < MaxTracked =>
              \A i \in DOMAIN Append(counted, e) : Append(counted, e)[i].src \in DOMAIN more
<1> DEFINE tracked == injections.tracked
           n == Cardinality(DOMAIN tracked)
<1>1. counted \in Seq(Events)
  BY DEF LogTypeOK
<1>2. /\ IsFiniteSet(DOMAIN tracked) /\ n <= MaxTracked /\ n \in Nat
      /\ \A s \in DOMAIN tracked : tracked[s] = Occurrences(counted, s)
      /\ n < MaxTracked => \A i \in DOMAIN counted : counted[i].src \in DOMAIN tracked
  BY FS_CardinalityType DEF TrackInv
<1>3. \A s : /\ Occurrences(counted, s) \in Nat
             /\ Occurrences(Append(counted, e), s) = Occurrences(counted, s) + IF e.src = s THEN 1 ELSE 0
             /\ (\A i \in DOMAIN counted : counted[i].src # s) => Occurrences(counted, s) = 0
  BY <1>1, OccurrencesFacts
<1>4. DOMAIN Append(counted, e) = DOMAIN counted \cup {Len(counted) + 1}
  BY <1>1
<1>5. Append(counted, e)[Len(counted) + 1] = e /\ \A i \in DOMAIN counted : Append(counted, e)[i] = counted[i]
  BY <1>1
<1>6. Tracks(tracked, more, e)
  OBVIOUS
<1> HIDE DEF tracked
<1>7. CASE e.src \in DOMAIN tracked
  <2>1. /\ DOMAIN more = DOMAIN tracked
        /\ \A s \in DOMAIN more : more[s] = tracked[s] + (IF s = e.src THEN 1 ELSE 0)
    BY <1>6, <1>7 DEF Tracks
  <2> QED
    BY <1>2, <1>3, <1>4, <1>5, <1>7, <2>1
<1>8. CASE e.src \notin DOMAIN tracked /\ n < MaxTracked
  <2>1. /\ DOMAIN more = DOMAIN tracked \cup {e.src}
        /\ \A s \in DOMAIN tracked : more[s] = tracked[s] + 0
        /\ more[e.src] = 0 + 1
    BY <1>6, <1>8 DEF Tracks
  <2>2. IsFiniteSet(DOMAIN more) /\ Cardinality(DOMAIN more) = n + 1
    BY <1>2, <1>8, <2>1, FS_AddElement
  <2>3. Occurrences(counted, e.src) = 0
    BY <1>2, <1>3, <1>8
  <2>4. \A s \in DOMAIN more : more[s] = Occurrences(Append(counted, e), s)
    BY <1>2, <1>3, <1>8, <2>1, <2>3
  <2>5. \A i \in DOMAIN Append(counted, e) : Append(counted, e)[i].src \in DOMAIN more
    BY <1>2, <1>4, <1>5, <1>8, <2>1
  <2> HIDE DEF n
  <2> QED
    BY <1>2, <1>8, <2>2, <2>4, <2>5, TrackedAssumption
<1>9. CASE e.src \notin DOMAIN tracked /\ ~ (n < MaxTracked)
  <2>1. more = tracked
    BY <1>6, <1>9 DEF Tracks
  <2>2. \A s \in DOMAIN more : more[s] = Occurrences(Append(counted, e), s)
    BY <1>2, <1>3, <1>9, <2>1
  <2> QED
    BY <1>2, <1>9, <2>1, <2>2
<1> QED
  BY <1>7, <1>8, <1>9

-----------------------------------------------------------------------------
\* What an attempt to log leaves: the line in the buffer of the file that is open.
LEMMA BufferFacts ==
  ASSUME NEW l \in Logger, NEW e \in Events, l.handle # Unusable,
         l.handle \in Date => l.handle = l.file
  PROVE  LET b == Buffered(Opened(l), e)
         IN /\ b \in Logger /\ b.handle = l.file /\ b.file = l.file /\ b.current = l.current
            /\ b.buffer = Append(l.buffer, e) /\ b.count = l.count /\ b.tracked = l.tracked
<1>1. Opened(l) \in Logger
  BY DEF Opened, Logger
<1>2. /\ Opened(l).handle = l.file /\ Opened(l).file = l.file /\ Opened(l).current = l.current
      /\ Opened(l).buffer = l.buffer /\ Opened(l).count = l.count /\ Opened(l).tracked = l.tracked
  BY DEF Opened, Logger
<1>3. Buffered(Opened(l), e) = [Opened(l) EXCEPT !.buffer = Append(l.buffer, e)]
  BY <1>2 DEF Buffered
<1>4. Append(l.buffer, e) \in Seq(Events)
  BY DEF Logger
<1> QED
  BY <1>1, <1>2, <1>3, <1>4 DEF Logger

LEMMA LogInjectionKeeps ==
  ASSUME LogInv, NEW named \in {today, today + 1} \cap Date,
         MidnightOnlyIn(injections, named), LogInjection(named)
  PROVE  LogInv'
<1> DEFINE l     == Rotated(injections, today, named)
           files == FilesAfterRotation(lines, injections, today)
           e     == Event
           b     == Buffered(Opened(l), e)
           d0    == l.file
<1> USE DEF LogInv
<1>1. Rotates(l, files, named)
  BY RotationFacts
<1>2. ~StuckToday
  BY DEF LogInjection
<1>3. e \in Events
  BY DEF LogTypeOK, Event, Events
<1>4. /\ lines' = Flushed(files, b)
      /\ injections' = Written(b, e)
      /\ tried' = tried + 1 /\ counted' = Append(counted, e) /\ today' = named
      /\ reading' = reading /\ faults' = faults
  BY DEF LogInjection
<1> HIDE DEF l, files, e
<1>5. l \in Logger /\ l.handle # Unusable /\ (l.handle \in Date => l.handle = l.file)
  BY <1>1, <1>2 DEF Rotates
<1>6. /\ b \in Logger /\ b.handle = l.file /\ b.file = l.file /\ b.current = l.current
      /\ b.buffer = Append(l.buffer, e) /\ b.count = l.count /\ b.tracked = l.tracked
  BY <1>3, <1>5, BufferFacts
<1> HIDE DEF b
<1>7. /\ Counted(b, e) \in Logger
      /\ Counted(b, e).count = b.count + 1
      /\ Counted(b, e).file = b.file /\ Counted(b, e).current = b.current
      /\ Counted(b, e).handle = b.handle
      /\ Tracks(b.tracked, Counted(b, e).tracked, e)
  BY <1>3, <1>6, CountedFacts
<1>8. <<>> \in Seq(Events)
  OBVIOUS
<1>9. /\ injections' \in Logger
      /\ injections'.count = injections.count + 1
      /\ injections'.file = d0 /\ injections'.current = today
      /\ injections'.handle = d0 /\ injections'.buffer = <<>>
      /\ injections'.tracked = Counted(b, e).tracked
  <2>1. injections' = [Counted(b, e) EXCEPT !.buffer = <<>>]
    BY <1>4 DEF Written
  <2>2. l.count = injections.count /\ l.current = today
    BY <1>1 DEF Rotates
  <2> QED
    BY <1>6, <1>7, <1>8, <2>1, <2>2 DEF Logger
<1>10. Tracks(injections.tracked, injections'.tracked, e)
  <2>1. l.tracked = injections.tracked
    BY <1>1 DEF Rotates
  <2> QED
    BY <1>6, <1>7, <1>9, <2>1
<1>11. d0 \in Date /\ l.buffer \in Seq(Events)
  BY <1>5 DEF Logger
<1>12. files \in [Date -> Seq(Events)]
  BY <1>1 DEF Rotates
<1> DEFINE q == files[d0]
           p == l.buffer
<1>13. q \in Seq(Events) /\ p \in Seq(Events) /\ Append(p, e) \in Seq(Events)
  BY <1>3, <1>11, <1>12
<1>14. lines' = [files EXCEPT ![d0] = q \o Append(p, e)]
  BY <1>4, <1>6, <1>11 DEF Flushed
<1> HIDE DEF p, q, d0
<1>15. q \o Append(p, e) \in Seq(Events) /\ ToSet(q) \subseteq ToSet(q \o Append(p, e))
  BY <1>13, Concatenates
<1>16. e \in ToSet(q \o Append(p, e))
  <2>1. e \in ToSet(Append(p, e))
    <3>1. Len(p) + 1 \in DOMAIN Append(p, e) /\ Append(p, e)[Len(p) + 1] = e
      BY <1>3, <1>13
    <3> QED
      BY <3>1 DEF ToSet
  <2> QED
    BY <1>13, <2>1, Concatenates
<1>17. LogTypeOK'
  <2>1. Append(counted, e) \in Seq(Events)
    BY <1>3 DEF LogTypeOK
  <2>2. lines' \in [Date -> Seq(Events)]
    BY <1>12, <1>14, <1>15
  <2> QED
    BY <1>4, <1>9, <2>1, <2>2 DEF LogTypeOK
<1>18. DatesInv'
  <2>1. today \in Int /\ named \in Int /\ named >= today /\ d0 \in Int
    BY <1>11, DatesAreIntegers DEF LogTypeOK
  <2>2. d0 <= named /\ d0 >= today - 1
    BY <1>1 DEF Rotates, d0
  <2>3. ASSUME NEW d \in Date, d0 < d PROVE lines'[d] = <<>>
    <3>1. d # d0
      BY <2>1, <2>3
    <3>2. files[d] = <<>>
      BY <1>1, <2>3 DEF Rotates, d0
    <3> QED
      BY <1>12, <1>14, <3>1, <3>2
  <2> QED
    BY <1>4, <1>9, <2>1, <2>2, <2>3 DEF DatesInv
<1>19. ASSUME NEW d \in Date PROVE ToSet(lines[d]) \subseteq ToSet(lines'[d])
  <2>1. ToSet(lines[d]) \subseteq ToSet(files[d])
    BY <1>1 DEF Rotates
  <2>2. CASE d = d0
    BY <1>12, <1>14, <1>15, <2>1, <2>2 DEF q
  <2>3. CASE d # d0
    BY <1>12, <1>14, <2>1, <2>3
  <2> QED
    BY <2>2, <2>3
<1>20. CountInv'
  <2>1. counted \in Seq(Events) /\ injections.count = Len(counted)
    BY DEF LogTypeOK, CountInv
  <2>2. injections'.count = Len(counted')
    BY <1>3, <1>4, <1>9, <2>1
  <2>3. ASSUME NEW i \in DOMAIN counted' PROVE \E d \in Date : counted'[i] \in ToSet(lines'[d])
    <3>1. CASE i \in DOMAIN counted
      <4>1. counted'[i] = counted[i]
        BY <1>3, <1>4, <2>1, <3>1
      <4>2. PICK d \in Date : counted[i] \in ToSet(lines[d])
        BY <3>1 DEF CountInv
      <4> QED
        BY <1>19, <4>1, <4>2
    <3>2. CASE i \notin DOMAIN counted
      <4>1. i = Len(counted) + 1 /\ counted'[i] = e
        BY <1>3, <1>4, <2>1, <2>3, <3>2
      <4>2. lines'[d0] = q \o Append(p, e)
        BY <1>11, <1>12, <1>14 DEF d0
      <4>3. d0 \in Date
        BY <1>11 DEF d0
      <4> QED
        BY <1>16, <4>1, <4>2, <4>3
    <3> QED
      BY <3>1, <3>2
  <2>4. ASSUME faults' = 0 PROVE injections'.buffer = <<>> /\ injections'.count = Len(AllLines')
    <3>1. injections.buffer = <<>> /\ injections.count = Len(AllLines)
      BY <1>4, <2>4 DEF CountInv
    <3>2. files = lines /\ p = <<>>
      BY <1>1, <3>1 DEF Rotates, p
    <3>3. q \o Append(p, e) = Append(q, e)
      BY <1>3, <1>13, <3>2
    <3>4. lines' = [lines EXCEPT ![d0] = Append(@, e)]
      BY <1>14, <3>2, <3>3 DEF q
    <3>5. lines \in [Date -> Seq(Events)] /\ d0 \in Date
      BY <1>11 DEF LogTypeOK, d0
    <3>6. lines' \in [Date -> Seq(Events)] /\ GetsLine(lines, lines', d0, e)
      BY <1>17, <3>4, <3>5 DEF LogTypeOK, GetsLine
    <3>7. InOrderOfDates(lines') = AllLines'
      BY DEF AllLines
    <3>8. OneMore(InOrderOfDates(lines'), InOrderOfDates(lines))
      BY <1>3, <3>5, <3>6, OrderFacts, Zenon
    <3>9. Len(AllLines') = Len(AllLines) + 1
      BY <3>7, <3>8 DEF AllLines, OneMore
    <3> QED
      BY <1>9, <3>1, <3>9
  <2> QED
    BY <2>2, <2>3, <2>4 DEF CountInv
<1>21. TrackInv'
  <2>1. /\ IsFiniteSet(DOMAIN injections'.tracked) /\ Cardinality(DOMAIN injections'.tracked) <= MaxTracked
        /\ \A s \in DOMAIN injections'.tracked : injections'.tracked[s] = Occurrences(Append(counted, e), s)
        /\ Cardinality(DOMAIN injections'.tracked) < MaxTracked =>
             \A i \in DOMAIN Append(counted, e) : Append(counted, e)[i].src \in DOMAIN injections'.tracked
    BY <1>3, <1>10, TracksKeeps
  <2> QED
    BY <1>4, <2>1 DEF TrackInv
<1> QED
  BY <1>17, <1>18, <1>20, <1>21

\* A step that counts nothing: lines may come to the files, and without faults none does.
LEMMA CountsKept ==
  ASSUME LogInv, counted' = counted, injections'.count = injections.count,
         injections'.tracked = injections.tracked,
         \A d \in Date : ToSet(lines[d]) \subseteq ToSet(lines'[d]),
         faults' = 0 => faults = 0 /\ injections'.buffer = <<>> /\ lines' = lines
  PROVE  CountInv' /\ TrackInv'
<1>1. CountInv'
  <2>1. \A i \in DOMAIN counted : \E d \in Date : counted[i] \in ToSet(lines'[d])
    BY DEF LogInv, CountInv
  <2>2. ASSUME faults' = 0 PROVE injections'.buffer = <<>> /\ injections'.count = Len(AllLines')
    <3>1. AllLines' = AllLines
      BY <2>2 DEF AllLines, InOrderOfDates
    <3> QED
      BY <2>2, <3>1 DEF LogInv, CountInv
  <2> QED
    BY <2>1, <2>2 DEF LogInv, CountInv
<1>2. TrackInv'
  BY DEF LogInv, TrackInv
<1> QED
  BY <1>1, <1>2

\* A step that leaves the log alone; time goes on.
LEMMA LogUntouched ==
  ASSUME LogInv, UNCHANGED logging, reading' \in Source, today' \in Date, today' >= today,
         faults' \in Nat, faults' = 0 => faults = 0
  PROVE  LogInv'
<1>1. injections' = injections /\ lines' = lines /\ tried' = tried /\ counted' = counted
  BY DEF logging
<1>2. LogTypeOK'
  BY <1>1 DEF LogInv, LogTypeOK
<1>3. DatesInv'
  <2>1. today \in Int /\ today' \in Int /\ injections.file \in Int /\ injections.current \in Int
    BY DatesAreIntegers DEF LogInv, LogTypeOK, Logger
  <2>2. DatesInv
    BY DEF LogInv
  <2>3. injections.file <= today /\ injections.current <= today
    BY <2>2 DEF DatesInv
  <2>4. injections.file <= today' /\ injections.current <= today'
    BY <2>1, <2>3
  <2> QED
    BY <1>1, <2>2, <2>4 DEF DatesInv
<1>4. CountInv' /\ TrackInv'
  <2>1. faults' = 0 => faults = 0 /\ injections'.buffer = <<>> /\ lines' = lines
    BY <1>1 DEF LogInv, CountInv
  <2> QED
    BY <1>1, <2>1, CountsKept
<1> QED
  BY <1>2, <1>3, <1>4 DEF LogInv

LEMMA LogFailureKeeps ==
  ASSUME LogInv, NEW named \in {today, today + 1} \cap Date,
         MidnightOnlyIn(injections, named), LogInjectionFails(named)
  PROVE  LogInv'
<1> DEFINE l     == Rotated(injections, today, named)
           files == FilesAfterRotation(lines, injections, today)
           e     == Event
           b     == Buffered(Opened(l), e)
<1> USE DEF LogInv
<1>1. Rotates(l, files, named)
  BY RotationFacts
<1>2. ~StuckToday
  BY DEF LogInjectionFails
<1>3. e \in Events
  BY DEF LogTypeOK, Event, Events
<1>4. /\ lines' = files
      /\ injections' \in {b} \cup (IF l.handle = NoHandle THEN {l} ELSE {})
      /\ tried' = tried + 1 /\ today' = named
      /\ counted' = counted /\ reading' = reading /\ faults' = faults + 1
  BY DEF LogInjectionFails, ReadRaises
<1> HIDE DEF l, files, e
<1>5. l \in Logger /\ l.handle # Unusable /\ (l.handle \in Date => l.handle = l.file)
  BY <1>1, <1>2 DEF Rotates
<1>6. /\ b \in Logger /\ b.handle = l.file /\ b.file = l.file /\ b.current = l.current
      /\ b.count = l.count /\ b.tracked = l.tracked
  BY <1>3, <1>5, BufferFacts
<1> HIDE DEF b
<1>7. /\ l.count = injections.count /\ l.tracked = injections.tracked
      /\ l.current = today /\ l.file <= named /\ l.file >= today - 1
      /\ files \in [Date -> Seq(Events)]
      /\ \A d \in Date : ToSet(lines[d]) \subseteq ToSet(files[d])
      /\ \A d \in Date : l.file < d => files[d] = <<>>
  BY <1>1 DEF Rotates
<1>8. /\ injections' \in Logger /\ injections'.file = l.file /\ injections'.current = today
      /\ injections'.count = injections.count /\ injections'.tracked = injections.tracked
      /\ injections'.handle \in Date => injections'.handle = l.file
  BY <1>4, <1>5, <1>6, <1>7
<1>9. LogTypeOK'
  BY <1>4, <1>7, <1>8 DEF LogTypeOK
<1>10. DatesInv'
  <2>1. today \in Int /\ named \in Int /\ named >= today
    BY DatesAreIntegers DEF LogTypeOK
  <2> QED
    BY <1>4, <1>7, <1>8, <2>1 DEF DatesInv
<1>11. CountInv' /\ TrackInv'
  <2>1. faults' # 0
    BY <1>4 DEF LogTypeOK
  <2> QED
    BY <1>4, <1>7, <1>8, <2>1, CountsKept
<1> QED
  BY <1>9, <1>10, <1>11

\* A close that fails, of a rotation or of a shutdown.
LEMMA CloseFailureKeeps ==
  ASSUME LogInv, RotationFails \/ CloseFails
  PROVE  LogInv'
<1> USE DEF LogInv
<1>1. /\ injections' = CloseFailed(injections) /\ lines' = lines /\ counted' = counted
      /\ today' = today /\ reading' = reading /\ faults' = faults + 1 /\ tried' \in Nat
  BY DEF RotationFails, CloseFails, ReadRaises, LogTypeOK
<1>2. <<>> \in Seq(Events)
  OBVIOUS
<1>3. injections \in Logger
  BY DEF LogTypeOK
<1>4. /\ injections' \in Logger /\ injections'.file = injections.file
      /\ injections'.current = injections.current /\ injections'.handle = Unusable
      /\ injections'.count = injections.count /\ injections'.tracked = injections.tracked
  BY <1>1, <1>2, <1>3 DEF CloseFailed, Logger
<1>5. LogTypeOK'
  BY <1>1, <1>4 DEF LogTypeOK
<1>6. DatesInv'
  BY <1>1, <1>4, NoMarkerIsADate DEF DatesInv
<1>7. CountInv' /\ TrackInv'
  <2>1. faults' # 0
    BY <1>1 DEF LogTypeOK
  <2> QED
    BY <1>1, <1>4, <2>1, CountsKept
<1> QED
  BY <1>5, <1>6, <1>7

LEMMA CloseKeeps ==
  ASSUME LogInv, Close
  PROVE  LogInv'
<1> USE DEF LogInv
<1>1. /\ lines' = Flushed(lines, injections) /\ injections' = Closed(injections)
      /\ counted' = counted /\ tried' = tried
      /\ today' = today /\ reading' = reading /\ faults' = faults
  BY DEF Close, history
<1>2. <<>> \in Seq(Events)
  OBVIOUS
<1>3. injections \in Logger /\ injections.buffer \in Seq(Events) /\ lines \in [Date -> Seq(Events)]
  BY DEF LogTypeOK, Logger
<1>4. /\ injections' \in Logger /\ injections'.file = injections.file
      /\ injections'.current = injections.current
      /\ injections'.handle = NoHandle /\ injections'.buffer = <<>>
      /\ injections'.count = injections.count /\ injections'.tracked = injections.tracked
  BY <1>1, <1>2, <1>3 DEF Closed, Logger
<1>5. /\ lines' \in [Date -> Seq(Events)]
      /\ \A d \in Date : ToSet(lines[d]) \subseteq ToSet(lines'[d])
      /\ \A d \in Date : d # injections.handle => lines'[d] = lines[d]
      /\ injections.buffer = <<>> => lines' = lines
  BY <1>1, <1>3, FlushFacts
<1>6. LogTypeOK'
  BY <1>1, <1>4, <1>5 DEF LogTypeOK
<1>7. DatesInv'
  <2>1. ASSUME NEW d \in Date, injections.file < d PROVE lines'[d] = <<>>
    <3>1. d \in Int /\ injections.file \in Int
      BY <1>3, DatesAreIntegers DEF Logger
    <3>2. d # injections.handle
      BY <2>1, <3>1 DEF DatesInv
    <3> QED
      BY <1>5, <2>1, <3>2 DEF DatesInv
  <2> QED
    BY <1>1, <1>4, <2>1, NoMarkerIsADate DEF DatesInv
<1>8. CountInv' /\ TrackInv'
  <2>1. faults' = 0 => faults = 0 /\ injections'.buffer = <<>> /\ lines' = lines
    BY <1>1, <1>4, <1>5 DEF CountInv
  <2> QED
    BY <1>1, <1>4, <1>5, <2>1, CountsKept
<1> QED
  BY <1>6, <1>7, <1>8

LEMMA LogInit ==
  ASSUME SessionInit
  PROVE  LogInv
<1>1. /\ today \in Date /\ reading \in Source /\ tried = 0 /\ faults = 0 /\ counted = <<>>
      /\ injections = NewLogger(FirstDate, today) /\ lines = NoFiles
      /\ today \in {FirstDate, FirstDate + 1}
  BY DEF SessionInit
<1>2. FirstDate \in Date /\ today \in Int /\ FirstDate \in Int
  BY <1>1, DatesAssumption DEF Date
<1>3. <<>> \in Seq(Events)
  OBVIOUS
<1>4. \A d \in Date : lines[d] = <<>>
  BY <1>1 DEF NoFiles
<1>5. lines \in [Date -> Seq(Events)]
  BY <1>1, <1>3 DEF NoFiles
<1> DEFINE none == [s \in {} |-> 0]
           U == UNION {[S -> Nat] : S \in SUBSET Source}
<1>6. none \in U /\ DOMAIN none = {}
  <2>1. none \in [{} -> Nat] /\ {} \in SUBSET Source
    OBVIOUS
  <2> QED
    BY <2>1
<1>7. /\ injections.file = FirstDate /\ injections.current = today /\ injections.handle = NoHandle
      /\ injections.buffer = <<>> /\ injections.count = 0 /\ injections.tracked = none
  BY <1>1 DEF NewLogger
<1>8. injections \in Logger
  <2> DEFINE L == [current : Date, file : Date, handle : Date \cup {NoHandle, Unusable},
                   buffer : Seq(Events), count : Nat, tracked : U]
  <2>1. L = Logger
    BY DEF Logger
  <2>2. injections = [file |-> FirstDate, current |-> today, handle |-> NoHandle, buffer |-> <<>>,
                      count |-> 0, tracked |-> none]
    BY <1>1 DEF NewLogger
  <2> HIDE DEF U, none
  <2>3. injections \in L
    BY <1>1, <1>2, <1>3, <1>6, <2>2
  <2> QED
    BY <2>1, <2>3
<1> HIDE DEF none, U
<1>9. LogTypeOK
  BY <1>1, <1>3, <1>5, <1>8 DEF LogTypeOK
<1>10. DatesInv
  <2>1. injections.file <= today /\ injections.current <= today /\ injections.file >= injections.current - 1
    BY <1>1, <1>2, <1>7
  <2>2. injections.handle \notin Date
    BY <1>7, NoMarkerIsADate
  <2> QED
    BY <1>4, <2>1, <2>2 DEF DatesInv
<1>11. CountInv
  <2>1. AllLines = <<>>
    BY <1>4, <1>5, OrderFacts DEF AllLines
  <2> QED
    BY <1>1, <1>7, <2>1 DEF CountInv
<1>12. TrackInv
  <2>1. IsFiniteSet(DOMAIN none) /\ Cardinality(DOMAIN none) = 0
    BY <1>6, FS_EmptySet
  <2> QED
    BY <1>1, <1>6, <1>7, <2>1, TrackedAssumption DEF TrackInv
<1> QED
  BY <1>9, <1>10, <1>11, <1>12 DEF LogInv

-----------------------------------------------------------------------------
SessionInv == LogInv /\ RecordInv /\ ShutdownInv

LEMMA RecordUntouched ==
  ASSUME RecordInv, UNCHANGED <<metrics, records, holds, analyzed, dropped>>
  PROVE  RecordInv'
BY DEF RecordInv

LEMMA SessionInvInit == SessionInit => SessionInv
<1> SUFFICES ASSUME SessionInit PROVE SessionInv
  OBVIOUS
<1>1. LogInv
  BY LogInit
<1>2. RecordInv
  BY DEF SessionInit, RecordInv
<1>3. ShutdownInv
  BY DEF SessionInit, ShutdownInv
<1> QED
  BY <1>1, <1>2, <1>3 DEF SessionInv

LEMMA SessionInvStep == SessionInv /\ [SessionNext]_sessionVars => SessionInv'
<1> SUFFICES ASSUME SessionInv, [SessionNext]_sessionVars PROVE SessionInv'
  OBVIOUS
<1> USE DEF SessionInv
<1>1. today \in Date /\ reading \in Source /\ faults \in Nat /\ today \in Int
  BY DatesAreIntegers DEF LogInv, LogTypeOK
<1>2. CASE UNCHANGED sessionVars
  <2>1. LogInv'
    BY <1>1, <1>2, LogUntouched DEF sessionVars
  <2> QED
    BY <1>2, <2>1, RecordUntouched DEF sessionVars, history, ShutdownInv
<1>3. CASE NextDay
  <2>1. LogInv'
    <3>1. today' \in Date /\ today' >= today
      BY <1>1, <1>3 DEF NextDay
    <3> QED
      BY <1>1, <1>3, <3>1, LogUntouched DEF NextDay
  <2> QED
    BY <1>3, <2>1, RecordUntouched DEF NextDay, history, ShutdownInv
<1>4. CASE StartFileWatcher
  <2>1. LogInv'
    BY <1>1, <1>4, LogUntouched DEF StartFileWatcher
  <2> QED
    BY <1>4, <2>1, RecordUntouched DEF StartFileWatcher, history, ShutdownInv
<1>5. ASSUME NEW f \in Source, NEW n \in 0 .. MaxEvents, ReadFile(f, n) PROVE SessionInv'
  <2>1. LogInv'
    BY <1>1, <1>5, LogUntouched DEF ReadFile
  <2>2. RecordInv'
    BY <1>5 DEF ReadFile, RecordInv
  <2> QED
    BY <1>5, <2>1, <2>2 DEF ReadFile, ShutdownInv
<1>6. ASSUME NEW d \in {today, today + 1} \cap Date, MidnightOnlyIn(injections, d),
             LogInjection(d) \/ LogInjectionFails(d)
      PROVE  SessionInv'
  <2>1. LogInv'
    BY <1>6, LogInjectionKeeps, LogFailureKeeps
  <2>2. /\ UNCHANGED <<metrics, records, holds, analyzed, dropped, watching>>
        /\ pc' = pc \/ pc' = "idle"
    BY <1>6 DEF LogInjection, LogInjectionFails, ReadRaises, history
  <2> QED
    BY <2>1, <2>2, RecordUntouched DEF ShutdownInv
<1>7. ASSUME NEW d \in {today, today + 1} \cap Date, Finalize(d) \/ FinalizeFails(d)
      PROVE  SessionInv'
  <2>1. /\ UNCHANGED <<logging, reading, holds, watching, analyzed, dropped>>
        /\ today' = d /\ pc' = "clear" /\ pc = "finalize"
        /\ faults' = faults \/ faults' = faults + 1
    BY <1>7 DEF Finalize, FinalizeFails, history
  <2>2. LogInv'
    <3>1. today' \in Date /\ today' >= today
      BY <1>1, <2>1
    <3>2. faults' \in Nat /\ (faults' = 0 => faults = 0) /\ reading' \in Source
      BY <1>1, <2>1
    <3> QED
      BY <2>1, <3>1, <3>2, LogUntouched
  <2>3. RecordInv'
    <3>1. /\ NextFile(d) \in [file : Date, current : Date, written : BOOLEAN, tokens : Nat]
          /\ NextFile(d).written = metrics.written
      BY <1>1 DEF NextFile, RecordInv
    <3>2. CASE metrics' = NextFile(d) /\ records' = records
      BY <2>1, <3>1, <3>2 DEF RecordInv
    <3>3. CASE metrics' = [NextFile(d) EXCEPT !.written = TRUE]
      <4> DEFINE next == NextFile(d)
      <4> HIDE DEF next
      <4>1. /\ metrics' \in [file : Date, current : Date, written : BOOLEAN, tokens : Nat]
            /\ metrics'.written
        BY <3>1, <3>3 DEF next
      <4> QED
        BY <2>1, <4>1 DEF RecordInv
    <3>4. CASE UNCHANGED <<metrics, records>>
      BY <2>1, <3>4, RecordUntouched
    <3> QED
      BY <1>7, <3>2, <3>3, <3>4 DEF Finalize, FinalizeFails, FinalizeAndWrite
  <2> QED
    BY <2>1, <2>2, <2>3 DEF ShutdownInv
<1>8. CASE RotationFails
  <2>1. LogInv'
    BY <1>8, CloseFailureKeeps
  <2> QED
    BY <1>8, <2>1, RecordUntouched DEF RotationFails, ReadRaises, history, ShutdownInv
<1>9. CASE WriteToClosed
  <2>1. LogInv'
    BY <1>1, <1>9, LogUntouched DEF WriteToClosed
  <2> QED
    BY <1>9, <2>1, RecordUntouched DEF WriteToClosed, history, ShutdownInv
<1>10. CASE EndRead
  <2>1. LogInv'
    BY <1>1, <1>10, LogUntouched DEF EndRead
  <2>2. RecordInv'
    <3>1. /\ metrics' = [metrics EXCEPT !.tokens = metrics.tokens + 1]
          /\ UNCHANGED <<records, holds, analyzed, dropped>>
      BY <1>10 DEF EndRead, history
    <3> QED
      BY <3>1 DEF RecordInv
  <2> QED
    BY <1>10, <2>1, <2>2 DEF EndRead, ShutdownInv
<1>11. CASE ServiceShutdown \/ ServerShutdown
  <2>1. Shutdown
    BY <1>11 DEF ServiceShutdown, ServerShutdown
  <2>2. LogInv'
    BY <1>1, <2>1, LogUntouched DEF Shutdown
  <2> QED
    BY <2>1, <2>2, RecordUntouched DEF Shutdown, history, ShutdownInv
<1>12. CASE Clear
  <2>1. LogInv'
    BY <1>1, <1>12, LogUntouched DEF Clear
  <2>2. RecordInv'
    BY <1>12 DEF Clear, RecordInv
  <2> QED
    BY <1>12, <2>1, <2>2 DEF Clear, ShutdownInv
<1>13. CASE Close
  <2>1. LogInv'
    BY <1>13, CloseKeeps
  <2> QED
    BY <1>13, <2>1, RecordUntouched DEF Close, history, ShutdownInv
<1>14. CASE CloseFails
  <2>1. LogInv'
    BY <1>14, CloseFailureKeeps
  <2> QED
    BY <1>14, <2>1, RecordUntouched DEF CloseFails, history, ShutdownInv
<1>15. CASE Die
  <2>1. LogInv'
    BY <1>1, <1>15, LogUntouched DEF Die
  <2> QED
    BY <1>15, <2>1, RecordUntouched DEF Die, history, ShutdownInv
<1> QED
  BY <1>2, <1>3, <1>4, <1>5, <1>6, <1>7, <1>8, <1>9, <1>10, <1>11, <1>12, <1>13, <1>14, <1>15
     DEF SessionNext

LEMMA SessionInvHolds == SessionSpec => []SessionInv
<1>1. SessionInit => SessionInv
  BY SessionInvInit
<1>2. SessionInv /\ [SessionNext]_sessionVars => SessionInv'
  BY SessionInvStep
<1> QED
  BY <1>1, <1>2, PTL DEF SessionSpec

-----------------------------------------------------------------------------
\* The last lines of a sequence, the latest first, are those of any that ends with it.
LEMMA RecentFacts ==
  ASSUME NEW T, NEW p \in Seq(T), NEW q \in Seq(T), NEW limit \in Nat \ {0}
  PROVE  LET answer == Recent(q, limit)
         IN Len(answer) <= limit /\ answer = SubSeq(Reverse(p \o q), 1, Len(answer))
<1> DEFINE n == Len(q)
           k == Len(p)
           m == IF n > limit THEN limit ELSE n
           back == [i \in 1 .. m |-> q[n - i + 1]]
           whole == p \o q
<1>1. n \in Nat /\ k \in Nat /\ m \in Nat /\ m <= n /\ m <= limit
  OBVIOUS
<1>2. Recent(q, limit) = back
  <2>1. CASE n > limit
    <3> DEFINE part == SubSeq(q, n - limit + 1, n)
    <3>1. /\ part \in Seq(T) /\ Len(part) = limit
          /\ \A i \in 1 .. limit : part[i] = q[n - limit + i]
      BY <1>1, <2>1
    <3>2. Recent(q, limit) = Reverse(part)
      BY <2>1 DEF Recent
    <3> HIDE DEF part
    <3>3. Reverse(part) = [i \in 1 .. limit |-> part[(limit - i) + 1]]
      BY <3>1 DEF Reverse
    <3>4. ASSUME NEW i \in 1 .. limit PROVE part[(limit - i) + 1] = q[n - i + 1]
      <4>1. (limit - i) + 1 \in 1 .. limit /\ n - limit + ((limit - i) + 1) = n - i + 1
        BY <1>1
      <4>2. part[(limit - i) + 1] = q[n - limit + ((limit - i) + 1)]
        BY <3>1, <4>1
      <4> QED
        BY <4>1, <4>2
    <3> HIDE DEF n
    <3> QED
      BY <2>1, <3>2, <3>3, <3>4
  <2>2. CASE ~ (n > limit)
    <3>1. Recent(q, limit) = Reverse(q)
      BY <2>2 DEF Recent
    <3> QED
      BY <2>2, <3>1 DEF Reverse
  <2> QED
    BY <2>1, <2>2
<1>3. whole \in Seq(T) /\ Len(whole) = k + n /\ \A i \in 1 .. n : whole[k + i] = q[i]
  BY Concatenates
<1> HIDE DEF n, k, whole
<1> DEFINE w == Len(whole)
<1>4. Reverse(whole) = [i \in 1 .. w |-> whole[(w - i) + 1]]
  BY DEF Reverse
<1>5. w = k + n
  BY <1>3
<1> HIDE DEF w
<1>6. SubSeq(Reverse(whole), 1, m) = [i \in 1 .. (m - 1 + 1) |-> Reverse(whole)[1 + i - 1]]
  <2>1. Reverse(whole) \in Seq(T)
    <3>1. \A i \in 1 .. w : whole[(w - i) + 1] \in T
      <4>1. \A i \in 1 .. w : (w - i) + 1 \in 1 .. w
        BY <1>1, <1>5
      <4> QED
        BY <1>1, <1>5, <1>3, <4>1
    <3> QED
      BY <1>1, <1>5, <1>4, <3>1
  <2>2. Len(Reverse(whole)) = w
    BY <1>1, <1>5, <1>4
  <2>3. m <= w
    BY <1>1, <1>5
  <2> QED
    BY <1>1, <2>1, <2>2, <2>3
<1>7. ASSUME NEW i \in 1 .. m PROVE Reverse(whole)[1 + i - 1] = q[n - i + 1]
  <2>1. i \in 1 .. w /\ 1 + i - 1 = i /\ n - i + 1 \in 1 .. n /\ (w - i) + 1 = k + (n - i + 1)
    BY <1>1, <1>5
  <2>2. Reverse(whole)[i] = whole[(w - i) + 1]
    BY <1>4, <2>1
  <2> QED
    BY <1>3, <2>1, <2>2
<1>8. SubSeq(Reverse(whole), 1, m) = back
  <2>1. m - 1 + 1 = m
    BY <1>1
  <2> HIDE DEF m
  <2> QED
    BY <1>6, <1>7, <2>1
<1>9. Len(back) = m
  BY <1>1
<1> HIDE DEF m, back
<1> QED
  BY <1>1, <1>2, <1>8, <1>9 DEF whole

(***************************************************************************)
(* The log can be read back at any moment, whatever failed before: what is *)
(* counted is on disk, the statistics per file are exact, and what         *)
(* get_recent_injections answers are the latest lines of the session.      *)
(***************************************************************************)
THEOREM LogCanBeReadBack == SessionSpec => []LogReadsBack
<1>1. SessionInv => LogReadsBack
  <2> SUFFICES ASSUME SessionInv PROVE LogReadsBack
    OBVIOUS
  <2> USE DEF SessionInv, LogInv
  <2>1. lines \in [Date -> Seq(Events)] /\ counted \in Seq(Events) /\ injections.file \in Date
    BY DEF LogTypeOK, Logger
  <2>2. CountedAreOnDisk
    <3>1. \A d \in Date : ToSet(lines[d]) \subseteq ToSet(AllLines)
      BY <2>1, OrderFacts DEF AllLines
    <3>2. \A i \in DOMAIN counted : counted[i] \in ToSet(AllLines)
      BY <3>1 DEF CountInv
    <3>3. ToSet(counted) \subseteq ToSet(AllLines)
      BY <3>2 DEF ToSet
    <3> QED
      BY <3>3 DEF CountedAreOnDisk, CountInv
  <2>3. TrackedExactly
    BY DEF TrackedExactly, TrackInv, Occurrences
  <2>4. RecentAreLatest
    <3> DEFINE d == injections.file
               q == lines[d]
    <3>1. \A x \in Date : d < x => lines[x] = <<>>
      BY DEF DatesInv
    <3>2. PICK p \in Seq(Events) : AllLines = p \o q
      BY <2>1, <3>1, OrderFacts DEF AllLines
    <3>3. q \in Seq(Events)
      BY <2>1
    <3> HIDE DEF q
    <3>4. ASSUME NEW limit \in 1 .. MaxEvents
          PROVE  /\ Len(Recent(q, limit)) <= limit
                 /\ Recent(q, limit) = SubSeq(Reverse(AllLines), 1, Len(Recent(q, limit)))
      <4>1. limit \in Nat \ {0}
        BY SessionAssumption
      <4> QED
        BY <3>2, <3>3, <4>1, RecentFacts
    <3> QED
      BY <3>4 DEF RecentAreLatest, q
  <2> QED
    BY <2>2, <2>3, <2>4 DEF LogReadsBack
<1> QED
  BY <1>1, SessionInvHolds, PTL

(***************************************************************************)
(* Files of dates before yesterday never change, unless a failed write     *)
(* left a line in the buffer.                                              *)
(***************************************************************************)
THEOREM LogRests == SessionSpec => OldFilesImmutable
<1>1. ASSUME SessionInv, [SessionNext]_sessionVars, injections.buffer = <<>>,
             NEW d \in Date, lines'[d] # lines[d]
      PROVE  d >= today - 1
  <2> USE DEF SessionInv, LogInv
  <2>1. lines \in [Date -> Seq(Events)] /\ injections.buffer \in Seq(Events)
    BY <1>1 DEF LogTypeOK, Logger
  <2>2. CASE Close
    BY <1>1, <2>1, <2>2, FlushFacts DEF Close
  <2>3. ASSUME NEW named \in {today, today + 1} \cap Date, MidnightOnlyIn(injections, named),
               LogInjection(named) \/ LogInjectionFails(named)
        PROVE  d >= today - 1
    <3> DEFINE l     == Rotated(injections, today, named)
               files == FilesAfterRotation(lines, injections, today)
               b     == Buffered(Opened(l), Event)
    <3>1. Rotates(l, files, named)
      BY <1>1, <2>3, RotationFacts
    <3>2. files = lines /\ l.file >= today - 1
      BY <1>1, <3>1 DEF Rotates
    <3>3. CASE LogInjectionFails(named)
      BY <1>1, <3>2, <3>3 DEF LogInjectionFails
    <3>4. CASE LogInjection(named)
      <4>1. lines' = Flushed(files, b) /\ ~StuckToday
        BY <3>4 DEF LogInjection
      <4>2. Event \in Events
        BY <1>1 DEF Event, Events, LogTypeOK
      <4>3. l \in Logger /\ l.handle # Unusable /\ (l.handle \in Date => l.handle = l.file)
        BY <3>1, <4>1 DEF Rotates
      <4> HIDE DEF l
      <4>4. b \in Logger /\ b.handle = l.file
        BY <4>2, <4>3, BufferFacts
      <4> HIDE DEF b
      <4>5. \A x \in Date : x # b.handle => Flushed(files, b)[x] = files[x]
        <5>1. b.buffer \in Seq(Events) /\ files \in [Date -> Seq(Events)]
          BY <2>1, <3>2, <4>4 DEF Logger
        <5> HIDE DEF files
        <5> QED
          BY <5>1, FlushFacts
      <4> QED
        BY <1>1, <3>2, <4>1, <4>4, <4>5
    <3> QED
      BY <2>3, <3>3, <3>4
  <2>4. CASE UNCHANGED lines
    BY <1>1, <2>4
  <2> QED
    BY <1>1, <2>2, <2>3, <2>4
       DEF SessionNext, sessionVars, logging, NextDay, StartFileWatcher, ReadFile, Finalize,
           FinalizeFails, RotationFails, WriteToClosed, EndRead, ServiceShutdown,
           ServerShutdown, Shutdown, Clear, CloseFails, Die
<1>2. SessionInv /\ [SessionNext]_sessionVars =>
        [injections.buffer = <<>> => \A d \in Date : lines'[d] # lines[d] => d >= today - 1]_sessionVars
  BY <1>1
<1> QED
  BY <1>2, SessionInvHolds, PTL DEF SessionSpec, OldFilesImmutable

(***************************************************************************)
(* The record of a session is written once, of what the service held, and  *)
(* counts the lines of the files where no write failed.                    *)
(***************************************************************************)
THEOREM RecordTellsAll == SessionSpec => RecordComplete
<1>1. ASSUME SessionInv, [SessionNext]_sessionVars, records' # records
      PROVE  /\ TotalRecords = <<>>
             /\ holds = analyzed \/ dropped
             /\ faults = 0 => FinalRecord.injections = Len(AllLines)
  <2>1. ~metrics.written
    BY <1>1 DEF SessionNext, sessionVars, history, NextDay, StartFileWatcher, ReadFile, LogInjection,
       LogInjectionFails, ReadRaises, Finalize, FinalizeAndWrite, FinalizeFails, RotationFails,
       WriteToClosed, EndRead, ServiceShutdown, ServerShutdown, Shutdown, Clear, Close, CloseFails, Die
  <2>2. records = NoFiles /\ (holds = analyzed \/ dropped)
    BY <1>1, <2>1 DEF SessionInv, RecordInv
  <2>3. TotalRecords = <<>>
    <3>1. records \in [Date -> Seq({})] /\ \A d \in Date : records[d] = <<>>
      <4>1. <<>> \in Seq({})
        OBVIOUS
      <4> QED
        BY <2>2, <4>1 DEF NoFiles
    <3> QED
      BY <3>1, OrderFacts DEF TotalRecords
  <2>4. faults = 0 => FinalRecord.injections = Len(AllLines)
    BY <1>1 DEF SessionInv, LogInv, CountInv, FinalRecord
  <2> QED
    BY <2>2, <2>3, <2>4
<1>2. SessionInv /\ [SessionNext]_sessionVars =>
        [records' # records =>
           /\ TotalRecords = <<>>
           /\ holds = analyzed \/ dropped
           /\ faults = 0 => FinalRecord.injections = Len(AllLines)]_sessionVars
  BY <1>1
<1> QED
  BY <1>2, SessionInvHolds, PTL DEF SessionSpec, RecordComplete

(***************************************************************************)
(* However a shutdown ends, the watcher is stopped, nothing is held, and   *)
(* the log has no handle to write to and nothing to write.                 *)
(***************************************************************************)
THEOREM ShutdownEnds == SessionSpec => ShutdownReleases
<1>1. ASSUME SessionInv, [SessionNext]_sessionVars, pc' = "idle", pc \in {"finalize", "clear", "close"}
      PROVE  Released'
  <2>1. Close \/ CloseFails
    BY <1>1 DEF SessionNext, sessionVars, NextDay, StartFileWatcher, ReadFile, LogInjection,
       LogInjectionFails, ReadRaises, Finalize, FinalizeAndWrite, FinalizeFails, RotationFails,
       WriteToClosed, EndRead, ServiceShutdown, ServerShutdown, Shutdown, Clear, Close, CloseFails, Die
  <2>2. /\ injections' = Closed(injections) \/ injections' = CloseFailed(injections)
        /\ watching' = watching /\ holds' = holds /\ pc = "close"
    BY <2>1 DEF Close, CloseFails
  <2>3. ~watching /\ ~holds
    BY <1>1, <2>2 DEF SessionInv, ShutdownInv
  <2>4. injections \in Logger
    BY <1>1 DEF SessionInv, LogInv, LogTypeOK
  <2>5. injections'.handle \in {NoHandle, Unusable} /\ injections'.buffer = <<>>
    BY <2>2, <2>4 DEF Closed, CloseFailed, Logger
  <2> QED
    BY <2>2, <2>3, <2>5, NoMarkerIsADate DEF Released
<1>2. SessionInv /\ [SessionNext]_sessionVars =>
        [pc' = "idle" /\ pc \in {"finalize", "clear", "close"} => Released']_sessionVars
  BY <1>1
<1> QED
  BY <1>2, SessionInvHolds, PTL DEF SessionSpec, ShutdownReleases

-----------------------------------------------------------------------------
(***************************************************************************)
(* The warnings: neither lost nor doubled on their way, the metadata of a  *)
(* file misses none of its patterns, and an analysis of the project shows  *)
(* them.                                                                   *)
(***************************************************************************)
Counts == [File \X Pattern -> Nat]

TypeOK ==
  /\ disk \in [File -> Contents \cup {Absent}]
  /\ DOMAIN metadata \subseteq File /\ DOMAIN parsed = DOMAIN metadata
  /\ builder \subseteq File /\ cached \subseteq File /\ unread \subseteq File /\ todo \subseteq File
  /\ detectors \in Counts /\ emitter \in Counts /\ made \in Counts
  /\ edits \in 0..MaxEdits

\* what f is stored with never misses a pattern of f
IInv == TypeOK /\ WarningsConserved /\ PatternsNotMissed

-----------------------------------------------------------------------------
\* Warnings are counted one by one.
LEMMA PlusCounts ==
  ASSUME NEW b \in Counts, NEW c \in Counts
  PROVE  /\ Plus(b, c) \in Counts
         /\ \A w \in File \X Pattern : Plus(b, c)[w] = b[w] + c[w]
BY DEF Counts, Plus

LEMMA NoWarningsCounts == NoWarnings \in Counts /\ \A w \in File \X Pattern : NoWarnings[w] = 0
BY DEF Counts, NoWarnings

LEMMA FoundCounts ==
  ASSUME NEW S
  PROVE  Found(S) \in Counts
BY DEF Counts, Found

LEMMA CountsEqual ==
  ASSUME NEW b \in Counts, NEW c \in Counts, \A w \in File \X Pattern : b[w] = c[w]
  PROVE  b = c
BY DEF Counts

\* Handing warnings on, or adding new ones to what is held, keeps their number.
LEMMA PlusAssociates ==
  ASSUME NEW b \in Counts, NEW c \in Counts, NEW d \in Counts
  PROVE  /\ Plus(Plus(b, c), d) = Plus(Plus(b, d), c)
         /\ Plus(Plus(b, c), d) = Plus(NoWarnings, Plus(c, Plus(b, d)))
<1>1. \A w \in File \X Pattern :
        b[w] \in Nat /\ c[w] \in Nat /\ d[w] \in Nat /\ NoWarnings[w] = 0
  BY NoWarningsCounts DEF Counts
<1>2. Plus(Plus(b, c), d) \in Counts /\ Plus(Plus(b, d), c) \in Counts
  BY PlusCounts
<1>3. Plus(NoWarnings, Plus(c, Plus(b, d))) \in Counts
  BY PlusCounts, NoWarningsCounts
<1>4. \A w \in File \X Pattern : /\ Plus(Plus(b, c), d)[w] = b[w] + c[w] + d[w]
                              /\ Plus(Plus(b, d), c)[w] = b[w] + d[w] + c[w]
  BY PlusCounts
<1>5. \A w \in File \X Pattern : Plus(NoWarnings, Plus(c, Plus(b, d)))[w] = 0 + (c[w] + (b[w] + d[w]))
  BY <1>1, PlusCounts, NoWarningsCounts
<1>6. Plus(Plus(b, c), d) = Plus(Plus(b, d), c)
  BY <1>1, <1>2, <1>4, CountsEqual
<1>7. \A w \in File \X Pattern :
        Plus(Plus(b, c), d)[w] = Plus(NoWarnings, Plus(c, Plus(b, d)))[w]
  BY <1>1, <1>4, <1>5
<1>8. Plus(Plus(b, c), d) = Plus(NoWarnings, Plus(c, Plus(b, d)))
  BY <1>2, <1>3, <1>7, CountsEqual
<1> QED
  BY <1>6, <1>8

LEMMA PlusNothing ==
  ASSUME NEW b \in Counts
  PROVE  Plus(b, NoWarnings) = b
<1>1. \A w \in File \X Pattern : b[w] \in Nat /\ NoWarnings[w] = 0
  BY NoWarningsCounts DEF Counts
<1> QED
  BY <1>1 DEF Plus, Counts

\* A file that is extracted and parses leaves a warning of each of its patterns.
LEMMA FoundIsHeld ==
  ASSUME TypeOK, NEW f \in File, Parses(f), NEW S, f \in S, NEW b \in Counts
  PROVE  /\ disk[f] \subseteq Pattern
         /\ \A p \in disk[f] : Plus(b, Found(S))[<<f, p>>] > 0
         /\ disk[f] \subseteq PatternsHeld(Plus(b, Found(S)))
<1>1. disk[f] \in SUBSET Pattern
  BY DEF TypeOK, Parses, Contents
<1>2. ASSUME NEW p \in disk[f] PROVE Plus(b, Found(S))[<<f, p>>] > 0
  <2>1. <<f, p>> \in File \X Pattern
    BY <1>1
  <2>2. Found(S)[<<f, p>>] = 1
    BY <2>1 DEF Found
  <2>3. b[<<f, p>>] \in Nat
    BY <2>1 DEF Counts
  <2>4. Plus(b, Found(S))[<<f, p>>] = b[<<f, p>>] + 1
    BY <2>1, <2>2, FoundCounts, PlusCounts
  <2> QED
    BY <2>3, <2>4
<1>3. disk[f] \subseteq PatternsHeld(Plus(b, Found(S)))
  <2> SUFFICES ASSUME NEW p \in disk[f] PROVE p \in PatternsHeld(Plus(b, Found(S)))
    OBVIOUS
  <2>1. <<f, p>> \in {v \in File \X Pattern : Plus(b, Found(S))[v] > 0}
    BY <1>1, <1>2
  <2>2. p = <<f, p>>[2]
    OBVIOUS
  <2> QED
    BY <2>1, <2>2 DEF PatternsHeld
<1> QED
  BY <1>1, <1>2, <1>3

-----------------------------------------------------------------------------
LEMMA InitIInv == Init => IInv
<1> SUFFICES ASSUME Init PROVE IInv
  OBVIOUS
<1>1. TypeOK
  BY WarningsAssumption, NoWarningsCounts DEF Init, TypeOK
<1>2. WarningsConserved
  BY NoWarningsCounts, PlusNothing DEF Init, WarningsConserved
<1>3. PatternsNotMissed
  BY DEF Init, PatternsNotMissed
<1> QED
  BY <1>1, <1>2, <1>3 DEF IInv

\* The two-phase analysis of one file, whoever collects its warnings.
LEMMA TwoPhaseStep ==
  ASSUME IInv, NEW f \in File, AnalyzeTwoPhase(f, HeldAfter(f))
  PROVE  /\ DOMAIN metadata' \subseteq File /\ DOMAIN parsed' = DOMAIN metadata'
         /\ builder' \subseteq File /\ unread' \subseteq File
         /\ HeldAfter(f) \in Counts /\ made' \in Counts
         /\ made' = Plus(HeldAfter(f), emitter)
         /\ made' = Plus(NoWarnings, Plus(emitter, HeldAfter(f)))
         /\ PatternsNotMissed'
<1> DEFINE S == {f} \cup (IF Parses(f) THEN ToLoad(f) ELSE {})
<1>1. Found(S) \in Counts /\ detectors \in Counts /\ emitter \in Counts /\ made \in Counts
  BY FoundCounts DEF IInv, TypeOK
<1>2. HeldAfter(f) = Plus(detectors, Found(S)) /\ made' = Plus(made, Found(S))
  BY DEF HeldAfter, AnalyzeTwoPhase
<1>0. f \in S
  OBVIOUS
<1> HIDE DEF S
<1>3. HeldAfter(f) \in Counts /\ made' \in Counts
  BY <1>1, <1>2, PlusCounts
<1>4. made = Plus(detectors, emitter)
  BY DEF IInv, WarningsConserved
<1>5. made' = Plus(HeldAfter(f), emitter) /\ made' = Plus(NoWarnings, Plus(emitter, HeldAfter(f)))
  BY <1>1, <1>2, <1>4, PlusAssociates
<1>6. CASE Parses(f)
  <2>1. /\ metadata' = Put(metadata, {f}, [g \in {f} |-> PatternsHeld(HeldAfter(f))])
        /\ parsed' = Put(parsed, {f}, [g \in {f} |-> disk[g]])
        /\ unread' = unread \ {f}
    BY <1>6 DEF AnalyzeTwoPhase, Parses, Exists
  <2>2. builder' \subseteq File
    BY <1>6, WarningsAssumption DEF AnalyzeTwoPhase, ToLoad, IInv, TypeOK
  <2>3. disk[f] \subseteq PatternsHeld(HeldAfter(f))
    BY <1>0, <1>1, <1>2, <1>6, FoundIsHeld DEF IInv
  <2>4. DOMAIN metadata' = DOMAIN metadata \cup {f} /\ DOMAIN parsed' = DOMAIN metadata \cup {f}
    BY <2>1 DEF Put, IInv, TypeOK
  <2>5. parsed'[f] = disk[f] /\ metadata'[f] = PatternsHeld(HeldAfter(f))
    BY <2>1 DEF Put
  <2>6. \A g \in DOMAIN metadata \ {f} : parsed'[g] = parsed[g] /\ metadata'[g] = metadata[g]
    BY <2>1 DEF Put, IInv, TypeOK
  <2>7. PatternsNotMissed'
    BY <2>1, <2>3, <2>4, <2>5, <2>6 DEF PatternsNotMissed, IInv
  <2> QED
    BY <1>3, <1>5, <2>1, <2>2, <2>4, <2>7 DEF IInv, TypeOK
<1>7. CASE ~ Parses(f) /\ Exists(f)
  <2>1. /\ metadata' = Put(metadata, {f}, [g \in {f} |-> {}])
        /\ parsed' = Put(parsed, {f}, [g \in {f} |-> {}])
        /\ unread' = unread \ {f} /\ builder' = builder
    BY <1>7 DEF AnalyzeTwoPhase
  <2>2. DOMAIN metadata' = DOMAIN metadata \cup {f} /\ DOMAIN parsed' = DOMAIN metadata \cup {f}
    BY <2>1 DEF Put, IInv, TypeOK
  <2>3. parsed'[f] = {} /\ metadata'[f] = {}
    BY <2>1 DEF Put
  <2>4. \A g \in DOMAIN metadata \ {f} : parsed'[g] = parsed[g] /\ metadata'[g] = metadata[g]
    BY <2>1 DEF Put, IInv, TypeOK
  <2>5. PatternsNotMissed'
    BY <2>1, <2>2, <2>3, <2>4 DEF PatternsNotMissed, IInv
  <2> QED
    BY <1>3, <1>5, <2>1, <2>2, <2>5 DEF IInv, TypeOK
<1>8. CASE ~ Exists(f)
  <2>1. UNCHANGED <<metadata, parsed, builder, unread>>
    BY <1>8 DEF AnalyzeTwoPhase, Exists, Parses
  <2> QED
    BY <1>3, <1>5, <2>1 DEF IInv, TypeOK, PatternsNotMissed
<1> QED
  BY <1>6, <1>7, <1>8

\* The analysis of the project: what it extracts it collects.
LEMMA DirectoryStep ==
  ASSUME IInv, AnalyzeDirectory
  PROVE  IInv'
<1> DEFINE extracted == {f \in File \ cached : Exists(f)}
           stored    == {f \in File : Parses(f)}
           broken    == {f \in File : Exists(f) /\ ~ Parses(f)}
           held      == Plus(detectors, Found(extracted))
           patterns  == [f \in stored \cup broken |-> IF f \in stored THEN PatternsStored(held) ELSE {}]
           found     == [f \in stored \cup broken |-> IF f \in stored THEN disk[f] ELSE {}]
<1>1. /\ metadata' = Put(metadata, stored \cup broken, patterns)
      /\ parsed' = Put(parsed, stored \cup broken, found)
      /\ builder' = builder \cup stored /\ cached' = cached \cup stored
      /\ unread' = (unread \ extracted) \cup (stored \cap cached)
      /\ made' = Plus(made, Found(extracted))
      /\ emitter' = Plus(emitter, held) /\ detectors' = NoWarnings
      /\ UNCHANGED <<disk, todo, edits>>
  BY Zenon DEF AnalyzeDirectory, Collect
<1>2. \A f \in stored : patterns[f] = PatternsHeld(held) /\ found[f] = disk[f]
  BY DEF PatternsStored
<1>3. \A f \in broken : patterns[f] = {} /\ found[f] = {}
  OBVIOUS
<1>4. \A f \in extracted : f \in stored \cup broken
  OBVIOUS
<1>5. Found(extracted) \in Counts /\ detectors \in Counts /\ emitter \in Counts /\ made \in Counts
  BY FoundCounts DEF IInv, TypeOK
<1>6. held \in Counts /\ made' \in Counts /\ emitter' \in Counts /\ detectors' \in Counts
  <2>1. held \in Counts
    BY <1>5, PlusCounts
  <2> HIDE DEF held
  <2> QED
    BY <1>1, <1>5, <2>1, PlusCounts, NoWarningsCounts
<1>7. made' = Plus(detectors', emitter')
  BY <1>1, <1>5, PlusAssociates DEF IInv, WarningsConserved
<1>8. \A f \in stored \cap extracted : disk[f] \subseteq PatternsHeld(held)
  BY <1>5, FoundIsHeld DEF IInv
<1> HIDE DEF held, patterns, found
<1>9. DOMAIN metadata' = DOMAIN metadata \cup stored \cup broken /\ DOMAIN parsed' = DOMAIN metadata'
  BY <1>1 DEF Put, IInv, TypeOK
<1>10. TypeOK'
  BY <1>1, <1>6, <1>9 DEF IInv, TypeOK
<1>11. PatternsNotMissed'
  <2> SUFFICES ASSUME NEW f \in DOMAIN metadata', f \notin unread' PROVE parsed'[f] \subseteq metadata'[f]
    BY DEF PatternsNotMissed
  <2>1. CASE f \in stored
    <3>1. f \in extracted
      BY <1>1, <2>1 DEF Parses, Exists
    <3>2. parsed'[f] = disk[f] /\ metadata'[f] = PatternsHeld(held)
      BY <1>1, <1>2, <2>1 DEF Put
    <3> QED
      BY <1>8, <2>1, <3>1, <3>2
  <2>2. CASE f \in broken
    BY <1>1, <1>3, <2>2 DEF Put
  <2>3. CASE f \notin stored \cup broken
    <3>1. f \in DOMAIN metadata /\ f \notin unread
      BY <1>1, <1>4, <1>9, <2>3
    <3>2. parsed'[f] = parsed[f] /\ metadata'[f] = metadata[f]
      BY <1>1, <2>3, <3>1 DEF Put, IInv, TypeOK
    <3> QED
      BY <3>1, <3>2 DEF IInv, PatternsNotMissed
  <2> QED
    BY <2>1, <2>2, <2>3
<1> QED
  BY <1>7, <1>10, <1>11 DEF IInv, WarningsConserved

LEMMA NextIInv == IInv /\ [Next]_vars => IInv'
<1> SUFFICES ASSUME IInv, [Next]_vars PROVE IInv'
  OBVIOUS
<1>1. ASSUME NEW f \in File, NEW c \in Contents \cup {Absent}, Edit(f, c) PROVE IInv'
  BY <1>1, WarningsAssumption
     DEF Edit, IInv, TypeOK, WarningsConserved, PatternsNotMissed, warnings
<1>2. ASSUME NEW f \in File, AnalyzeFile(f) PROVE IInv'
  <2>1. AnalyzeTwoPhase(f, HeldAfter(f))
    BY <1>2 DEF AnalyzeFile
  <2>2. emitter' = Plus(emitter, HeldAfter(f)) /\ detectors' = NoWarnings
        /\ UNCHANGED <<disk, cached, edits, todo>>
    BY <1>2, <2>1 DEF AnalyzeFile, Collect, AnalyzeTwoPhase
  <2>3. emitter' \in Counts /\ detectors' \in Counts
    BY <2>1, <2>2, TwoPhaseStep, PlusCounts, NoWarningsCounts DEF IInv, TypeOK
  <2>4. TypeOK'
    BY <2>1, <2>2, <2>3, TwoPhaseStep DEF IInv, TypeOK
  <2>5. WarningsConserved'
    BY <2>1, <2>2, TwoPhaseStep DEF WarningsConserved
  <2> QED
    BY <2>1, <2>4, <2>5, TwoPhaseStep DEF IInv
<1>3. ASSUME NEW f \in File, ReadAnalyzes(f) PROVE IInv'
  <2>1. AnalyzeTwoPhase(f, HeldAfter(f))
    BY <1>3 DEF ReadAnalyzes
  <2>2. detectors' = HeldAfter(f) /\ todo' \subseteq todo /\ UNCHANGED <<emitter, disk, cached, edits>>
    BY <1>3, <2>1 DEF ReadAnalyzes, AnalyzeTwoPhase
  <2>3. TypeOK'
    BY <2>1, <2>2, TwoPhaseStep DEF IInv, TypeOK
  <2>4. WarningsConserved'
    BY <2>1, <2>2, TwoPhaseStep DEF WarningsConserved
  <2> QED
    BY <2>1, <2>3, <2>4, TwoPhaseStep DEF IInv
<1>4. CASE AnalyzeDirectory
  BY <1>4, DirectoryStep
<1>5. ASSUME NEW S \in SUBSET File, StartRead(S) PROVE IInv'
  BY <1>5 DEF StartRead, IInv, TypeOK, WarningsConserved, PatternsNotMissed, warnings
<1>6. CASE ClearWarnings
  <2>1. detectors' = detectors /\ emitter' = NoWarnings /\ made' = detectors /\ detectors \in Counts
    BY <1>6 DEF ClearWarnings, IInv, TypeOK
  <2>2. WarningsConserved'
    BY <2>1, PlusNothing DEF WarningsConserved
  <2>3. TypeOK'
    BY <1>6, <2>1, NoWarningsCounts DEF ClearWarnings, IInv, TypeOK
  <2> QED
    BY <1>6, <2>2, <2>3 DEF ClearWarnings, IInv, PatternsNotMissed
<1>7. CASE UNCHANGED vars
  BY <1>7 DEF vars, warnings, IInv, TypeOK, WarningsConserved, PatternsNotMissed
<1> QED
  BY <1>1, <1>2, <1>3, <1>4, <1>5, <1>6, <1>7 DEF Next

-----------------------------------------------------------------------------
(***************************************************************************)
(* A warning is held by a detector or by the emitter until clear_warnings, *)
(* once, whichever reads leave theirs behind and whichever analysis        *)
(* collects them.                                                          *)
(***************************************************************************)
THEOREM NoWarningLost == Spec => []WarningsConserved
<1>1. IInv => WarningsConserved
  BY DEF IInv
<1> QED
  BY InitIInv, NextIInv, <1>1, PTL DEF Spec

(***************************************************************************)
(* The metadata of a file has each dynamic pattern of it, whatever the     *)
(* detectors held when it was stored, but for files stored from the cache. *)
(***************************************************************************)
THEOREM NoPatternMissed == Spec => []PatternsNotMissed
<1>1. IInv => PatternsNotMissed
  BY DEF IInv
<1> QED
  BY InitIInv, NextIInv, <1>1, PTL DEF Spec

(***************************************************************************)
(* An analysis of the project shows a warning of every pattern in the      *)
(* files it extracts, test modules apart.                                  *)
(***************************************************************************)
THEOREM AnalysisShowsWarnings == Spec => ShownAfterAnalysis
<1> DEFINE Shows ==
      AnalyzeDirectory =>
        \A f \in File \ cached :
          Parses(f) => \A p \in disk[f] : <<f, p>> \in GetWarnings(FALSE)' <=> f \notin TestModule
<1>1. IInv /\ [Next]_vars => Shows
  <2> SUFFICES ASSUME IInv, AnalyzeDirectory, NEW f \in File \ cached, Parses(f), NEW p \in disk[f]
               PROVE  <<f, p>> \in GetWarnings(FALSE)' <=> f \notin TestModule
    OBVIOUS
  <2> DEFINE extracted == {g \in File \ cached : Exists(g)}
             held      == Plus(detectors, Found(extracted))
  <2>1. emitter' = Plus(emitter, held)
    BY Zenon DEF AnalyzeDirectory, Collect
  <2>2. f \in extracted
    BY DEF Parses, Exists
  <2>3. emitter \in Counts /\ detectors \in Counts /\ Found(extracted) \in Counts
    BY FoundCounts DEF IInv, TypeOK
  <2> HIDE DEF extracted
  <2>4. held \in Counts /\ held[<<f, p>>] > 0 /\ <<f, p>> \in File \X Pattern
    BY <2>2, <2>3, FoundIsHeld, PlusCounts DEF IInv
  <2> HIDE DEF held
  <2>5. emitter'[<<f, p>>] = emitter[<<f, p>>] + held[<<f, p>>]
    BY <2>1, <2>3, <2>4, PlusCounts
  <2>6. emitter'[<<f, p>>] > 0
    BY <2>3, <2>4, <2>5 DEF Counts
  <2> QED
    BY <2>4, <2>6 DEF GetWarnings
<1>2. IInv /\ [Next]_vars => [Shows]_vars
  BY <1>1
<1> QED
  BY InitIInv, NextIInv, <1>2, PTL DEF Spec, ShownAfterAnalysis
=============================================================================
