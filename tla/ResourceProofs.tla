--------------------------- MODULE ResourceProofs ---------------------------
(***************************************************************************)
(* The resource diagrams for any resources, bookings and times.  Sums and  *)
(* positions are cardinalities, so that what is known of a diagram is      *)
(* said by the one number Upto(d, t), the element in effect at a time.     *)
(***************************************************************************)
EXTENDS ResourceDiagram, SequenceTheorems, FiniteSetTheorems, WellFoundedInduction, TLAPS

-----------------------------------------------------------------------------
(* Least and greatest numbers                                                *)

LEMMA LeastNumber ==
  ASSUME NEW S \in SUBSET Nat, S # {}
  PROVE  \E x \in S : \A y \in S : x <= y
<1>1. PICK x \in S : \A y \in S : ~(<<y, x>> \in OpToRel(<, Nat))
  BY NatLessThanWellFounded, WFMin
<1>2. \A y \in S : ~(y < x)
  BY <1>1 DEF OpToRel
<1> QED BY <1>2

LEMMA GreatestNumber ==
  ASSUME NEW S \in SUBSET Nat, S # {}, NEW n \in Nat, \A y \in S : y <= n
  PROVE  Max(S) \in S /\ \A y \in S : y <= Max(S)
<1> DEFINE T == {x \in Nat : \A y \in S : y <= x}
<1>1. PICK u \in T : \A x \in T : u <= x
  <2>1. T \in SUBSET Nat /\ n \in T
    OBVIOUS
  <2> HIDE DEF T
  <2> QED BY <2>1, LeastNumber
<1>2. u \in S
  <2> SUFFICES ASSUME u \notin S PROVE FALSE
    OBVIOUS
  <2>1. u \in Nat /\ \A y \in S : y \in Nat /\ y < u
    BY <1>1
  <2>2. u - 1 \in Nat /\ \A y \in S : y <= u - 1
    <3>1. PICK y \in S : y \in Nat /\ y < u
      BY <2>1
    <3>2. u - 1 \in Nat
      BY <2>1, <3>1
    <3>3. ASSUME NEW x \in S PROVE x <= u - 1
      BY <2>1, <3>3
    <3> QED BY <3>2, <3>3
  <2>3. u - 1 \in T
    BY <2>2
  <2>4. u <= u - 1
    <3> HIDE DEF T
    <3> QED BY <1>1, <2>3
  <2> QED BY <2>1, <2>4
<1>3. u \in S /\ \A y \in S : u >= y
  BY <1>1, <1>2
<1> QED BY <1>3 DEF Max

LEMMA CountUpTo ==
  ASSUME NEW k \in Nat
  PROVE  Cardinality(1..k) = k
BY FS_Interval

LEMMA CountFrom ==
  ASSUME NEW a \in Int, NEW b \in Int, a <= b
  PROVE  Cardinality((a + 1)..b) = b - a
<1>1. a + 1 \in Int
  OBVIOUS
<1>2. Cardinality((a + 1)..b) = IF a + 1 > b THEN 0 ELSE b - (a + 1) + 1
  BY <1>1, FS_Interval
<1>3. CASE a + 1 > b
  BY <1>2, <1>3
<1>4. CASE ~(a + 1 > b)
  <2>1. b - (a + 1) + 1 = b - a
    OBVIOUS
  <2> QED BY <1>2, <1>4, <2>1
<1> QED BY <1>3, <1>4

-----------------------------------------------------------------------------
(* Diagrams whose times increase                                             *)

Sorted(d) ==
  /\ d \in Seq(Element)
  /\ \A i, j \in 1..Len(d) : i < j => d[i].time < d[j].time

\* The element that is in effect at a time, 0 if none is.
Upto(d, t) == Cardinality({i \in DOMAIN d : d[i].time <= t})

AmountAt(d, t) == Level(d, Upto(d, t))

\* Position k is the last one up to time t.
IsUpto(d, t, k) ==
  /\ k \in 0..Len(d)
  /\ \A i \in 1..Len(d) : i <= k <=> d[i].time <= t

LEMMA SortedTypes ==
  ASSUME NEW d, Sorted(d)
  PROVE  /\ Len(d) \in Nat /\ DOMAIN d = 1..Len(d)
         /\ \A i \in 1..Len(d) : /\ d[i] \in Element /\ d[i].time \in Nat /\ d[i].amount \in Int
                                 /\ 1 <= d[i].time /\ d[i].time <= Infinity
<1>1. Len(d) \in Nat /\ DOMAIN d = 1..Len(d) /\ \A i \in 1..Len(d) : d[i] \in Element
  BY ElementOfSeq, LenProperties DEF Sorted
<1> QED BY <1>1 DEF Element

LEMMA UptoIs ==
  ASSUME NEW d, Sorted(d), NEW t \in Int
  PROVE  IsUpto(d, t, Upto(d, t))
<1> DEFINE P == {i \in DOMAIN d : d[i].time <= t}
<1>1. Len(d) \in Nat /\ DOMAIN d = 1..Len(d) /\ \A i \in 1..Len(d) : d[i].time \in Nat
  BY SortedTypes
<1>2. \A i, j \in 1..Len(d) : i < j => d[i].time < d[j].time
  BY DEF Sorted
<1>3. PICK k \in 0..Len(d) : \A i \in 1..Len(d) : i <= k <=> d[i].time <= t
  <2>1. CASE P = {}
    <3>1. \A i \in 1..Len(d) : i <= 0 <=> d[i].time <= t
      BY <1>1, <2>1
    <3> QED BY <1>1, <3>1
  <2>2. CASE P # {}
    <3>1. PICK m \in P : \A y \in P : y <= m
      <4>1. P \in SUBSET Nat /\ \A y \in P : y <= Len(d)
        BY <1>1
      <4> HIDE DEF P
      <4> QED BY <1>1, <2>2, <4>1, GreatestNumber
    <3>2. m \in 1..Len(d) /\ d[m].time <= t
      BY <1>1, <3>1
    <3>3. ASSUME NEW i \in 1..Len(d) PROVE i <= m <=> d[i].time <= t
      <4>1. i < m => d[i].time < d[m].time
        BY <1>2, <3>2
      <4>2. i <= m => d[i].time <= t
        BY <1>1, <3>2, <4>1
      <4>3. d[i].time <= t => i <= m
        BY <1>1, <3>1
      <4> QED BY <4>2, <4>3
    <3> HIDE DEF P
    <3>4. m \in 0..Len(d)
      BY <3>2, <1>1
    <3> QED BY <3>3, <3>4
  <2> QED BY <2>1, <2>2
<1>4. P = 1..k
  BY <1>1, <1>3
<1>5. Upto(d, t) = k
  <2>1. Cardinality(1..k) = k
    BY <1>1, CountUpTo
  <2> QED BY <1>4, <2>1 DEF Upto
<1> QED BY <1>3, <1>5 DEF IsUpto

LEMMA UptoIsOne ==
  ASSUME NEW d, Sorted(d), NEW t \in Int, NEW k, IsUpto(d, t, k)
  PROVE  Upto(d, t) = k
<1>1. IsUpto(d, t, Upto(d, t))
  BY UptoIs
<1>2. PICK u \in 0..Len(d) : u = Upto(d, t)
  BY <1>1 DEF IsUpto
<1>3. Len(d) \in Nat /\ k \in 0..Len(d) /\ \A i \in 1..Len(d) : i <= k <=> i <= u
  BY <1>1, <1>2, SortedTypes DEF IsUpto
<1>4. ~(k < u)
  BY <1>3
<1>5. ~(u < k)
  BY <1>3
<1> QED BY <1>2, <1>3, <1>4, <1>5

\* It is enough to look at the element and the next one.
LEMMA UptoBetween ==
  ASSUME NEW d, Sorted(d), NEW t \in Int, NEW k \in 0..Len(d),
         k > 0 => d[k].time <= t, k < Len(d) => t < d[k + 1].time
  PROVE  Upto(d, t) = k
<1>1. Len(d) \in Nat /\ \A i \in 1..Len(d) : d[i].time \in Nat
  BY SortedTypes
<1>2. ASSUME NEW i \in 1..Len(d) PROVE i <= k <=> d[i].time <= t
  <2>1. i < k => d[i].time < d[k].time
    BY <1>1 DEF Sorted
  <2>2. k + 1 < i => d[k + 1].time < d[i].time
    BY <1>1 DEF Sorted
  <2>3. CASE i <= k
    <3>1. k \in 1..Len(d) /\ d[k].time <= t
      BY <1>1, <2>3
    <3> QED BY <1>1, <2>1, <2>3, <3>1
  <2>4. CASE i > k
    <3>1. k + 1 \in 1..Len(d) /\ t < d[k + 1].time
      BY <1>1, <2>4
    <3> QED BY <1>1, <2>2, <2>4, <3>1
  <2> QED BY <2>3, <2>4
<1> QED BY <1>2, UptoIsOne DEF IsUpto

\* An element is in effect at its own time.
LEMMA UptoElement ==
  ASSUME NEW d, Sorted(d), NEW k \in 1..Len(d)
  PROVE  Upto(d, d[k].time) = k /\ AmountAt(d, d[k].time) = d[k].amount
<1>1. Len(d) \in Nat /\ d[k].time \in Nat /\ (k < Len(d) => d[k + 1].time \in Nat)
  BY SortedTypes
<1>2. k < Len(d) => d[k].time < d[k + 1].time
  BY <1>1 DEF Sorted
<1>3. Upto(d, d[k].time) = k
  BY <1>1, <1>2, UptoBetween
<1> QED BY <1>3 DEF AmountAt, Level

LEMMA BeforeIs ==
  ASSUME NEW d, Sorted(d), NEW t \in Int
  PROVE  /\ Before(d, t) = Upto(d, t - 1)
         /\ Before(d, t) \in 0..Len(d)
         /\ \A i \in 1..Len(d) : i <= Before(d, t) <=> d[i].time < t
<1>1. \A i \in DOMAIN d : d[i].time \in Nat
  BY SortedTypes
<1>2. {i \in DOMAIN d : d[i].time < t} = {i \in DOMAIN d : d[i].time <= t - 1}
  BY <1>1
<1>3. Before(d, t) = Upto(d, t - 1)
  BY <1>2 DEF Before, Upto
<1>4. IsUpto(d, t - 1, Before(d, t))
  BY <1>3, UptoIs
<1> QED BY <1>1, <1>3, <1>4, SortedTypes DEF IsUpto

LEMMA AmountIsInt ==
  ASSUME NEW d, Sorted(d), NEW t \in Int
  PROVE  AmountAt(d, t) \in Int
<1>1. Upto(d, t) \in 0..Len(d)
  BY UptoIs DEF IsUpto
<1> QED BY <1>1, SortedTypes DEF AmountAt, Level

-----------------------------------------------------------------------------
(* A booking                                                                 *)

Has(d, t) == \E i \in 1..Len(d) : d[i].time = t

LEMMA InsertIs ==
  ASSUME NEW d \in Seq(Element), NEW k \in 0..Len(d), NEW t, NEW a,
         NEW e \in Element, e = [time |-> t, amount |-> a]
  PROVE  /\ Insert(d, k, t, a) \in Seq(Element)
         /\ Len(Insert(d, k, t, a)) = Len(d) + 1
         /\ Insert(d, k, t, a)[k + 1] = e
         /\ \A i \in 1..k : Insert(d, k, t, a)[i] = d[i]
         /\ \A i \in (k + 1)..Len(d) : Insert(d, k, t, a)[i + 1] = d[i]
<1> DEFINE x == SubSeq(d, 1, k)
           y == SubSeq(d, k + 1, Len(d))
<1>1. Len(d) \in Nat /\ k \in Nat /\ k <= Len(d) /\ \A i \in 1..Len(d) : d[i] \in Element
  BY ElementOfSeq, LenProperties
<1>2. x \in Seq(Element) /\ Len(x) = k /\ \A i \in 1..k : x[i] = d[i]
  <2>1. \A i \in 1..k : d[i] \in Element
    BY <1>1
  <2>2. /\ x \in Seq(Element)
        /\ Len(x) = IF 1 <= k THEN k - 1 + 1 ELSE 0
        /\ \A i \in 1 .. k - 1 + 1 : x[i] = d[1 + i - 1]
    BY <1>1, <2>1, SubSeqProperties
  <2>3. \A i \in 1..k : 1 + i - 1 = i
    BY <1>1
  <2>4. k - 1 + 1 = k
    BY <1>1
  <2> HIDE DEF x
  <2> QED BY <1>1, <2>2, <2>3, <2>4
<1>3. y \in Seq(Element) /\ Len(y) = Len(d) - k /\ \A i \in 1..Len(d) - k : y[i] = d[k + i]
  <2>1. \A i \in k + 1..Len(d) : d[i] \in Element
    BY <1>1
  <2>2. /\ y \in Seq(Element)
        /\ Len(y) = IF k + 1 <= Len(d) THEN Len(d) - (k + 1) + 1 ELSE 0
        /\ \A i \in 1 .. Len(d) - (k + 1) + 1 : y[i] = d[(k + 1) + i - 1]
    BY <1>1, <2>1, SubSeqProperties
  <2>3. \A i \in 1..Len(d) - k : (k + 1) + i - 1 = k + i
    BY <1>1
  <2>4. Len(d) - (k + 1) + 1 = Len(d) - k
    BY <1>1
  <2>5. Len(y) = Len(d) - k
    BY <1>1, <2>2, <2>4
  <2>6. \A i \in 1..Len(d) - k : y[i] = d[k + i]
    BY <2>2, <2>3, <2>4
  <2> QED BY <2>2, <2>5, <2>6
<1>4. <<e>> \in Seq(Element) /\ Len(<<e>>) = 1 /\ <<e>>[1] = e
  OBVIOUS
<1>5. Insert(d, k, t, a) = (x \o <<e>>) \o y
  <2>1. (k + 1) - 1 = k
    BY <1>1
  <2> QED BY <2>1 DEF Insert, InsertAt
<1> HIDE DEF x, y
<1>6. PICK z : z = x \o <<e>>
  OBVIOUS
<1>7. z \in Seq(Element) /\ Len(z) = k + 1 /\ z[k + 1] = e /\ \A i \in 1..k : z[i] = d[i]
  <2>1. /\ z \in Seq(Element) /\ Len(z) = Len(x) + Len(<<e>>)
        /\ \A i \in 1 .. Len(x) + Len(<<e>>) :
             z[i] = IF i <= Len(x) THEN x[i] ELSE <<e>>[i - Len(x)]
    BY <1>2, <1>4, <1>6, ConcatProperties
  <2>2. (k + 1) - k = 1
    BY <1>1
  <2> QED BY <1>1, <1>2, <1>4, <2>1, <2>2
<1>8. PICK w : w = z \o y
  OBVIOUS
<1>9. /\ w \in Seq(Element) /\ Len(w) = Len(d) + 1
      /\ \A i \in 1 .. Len(d) + 1 : w[i] = IF i <= k + 1 THEN z[i] ELSE y[i - (k + 1)]
  <2>1. /\ w \in Seq(Element) /\ Len(w) = Len(z) + Len(y)
        /\ \A i \in 1 .. Len(z) + Len(y) : w[i] = IF i <= Len(z) THEN z[i] ELSE y[i - Len(z)]
    BY <1>3, <1>7, <1>8, ConcatProperties
  <2>2. Len(z) + Len(y) = Len(d) + 1
    BY <1>1, <1>3, <1>7
  <2> QED BY <1>7, <2>1, <2>2
<1>10. w[k + 1] = e
  <2>1. k + 1 \in 1 .. Len(d) + 1
    BY <1>1
  <2> QED BY <1>7, <1>9, <2>1
<1>11. \A i \in 1..k : w[i] = d[i]
  <2>1. \A i \in 1..k : i \in 1 .. Len(d) + 1 /\ i <= k + 1
    BY <1>1
  <2> QED BY <1>7, <1>9, <2>1
<1>12. ASSUME NEW i \in (k + 1)..Len(d) PROVE w[i + 1] = d[i]
  <2>1. /\ i + 1 \in 1 .. Len(d) + 1 /\ ~(i + 1 <= k + 1)
        /\ (i + 1) - (k + 1) \in 1..Len(d) - k /\ k + ((i + 1) - (k + 1)) = i
    BY <1>1
  <2> QED BY <1>3, <1>9, <2>1
<1>13. Insert(d, k, t, a) = w
  BY <1>5, <1>6, <1>8
<1> QED BY <1>9, <1>10, <1>11, <1>12, <1>13

\* A new element at its place.
LEMMA InsertSorted ==
  ASSUME NEW d, Sorted(d), NEW t \in 1..Infinity, NEW a \in Int, NEW k \in 0..Len(d)
  PROVE  (k > 0 => d[k].time < t) /\ (k < Len(d) => t < d[k + 1].time)
           => Sorted(Insert(d, k, t, a))
<1>1. /\ Len(d) \in Nat /\ k \in Nat /\ t \in Int
      /\ \A i \in 1..Len(d) : d[i].time \in Int
  BY SortedTypes
<1>2. d \in Seq(Element) /\ \A i, j \in 1..Len(d) : i < j => d[i].time < d[j].time
  BY DEF Sorted
<1>3. PICK e \in Element : e = [time |-> t, amount |-> a]
  <2>1. [time |-> t, amount |-> a] \in Element
    BY DEF Element
  <2> QED BY <2>1
<1>4. PICK n : n = Insert(d, k, t, a)
  OBVIOUS
<1>5. /\ n \in Seq(Element) /\ Len(n) = Len(d) + 1
      /\ n[k + 1] = e
      /\ \A i \in 1..k : n[i] = d[i]
      /\ \A i \in (k + 1)..Len(d) : n[i + 1] = d[i]
  <2>1. d \in Seq(Element)
    BY <1>2
  <2>2. /\ Insert(d, k, t, a) \in Seq(Element)
        /\ Len(Insert(d, k, t, a)) = Len(d) + 1
        /\ Insert(d, k, t, a)[k + 1] = e
        /\ \A i \in 1..k : Insert(d, k, t, a)[i] = d[i]
        /\ \A i \in (k + 1)..Len(d) : Insert(d, k, t, a)[i + 1] = d[i]
    BY <1>3, <2>1, InsertIs
  <2> QED BY <1>4, <2>2
<1> HAVE (k > 0 => d[k].time < t) /\ (k < Len(d) => t < d[k + 1].time)
<1>6. n[k + 1].time = t
  BY <1>3, <1>5
<1>7. \A i \in 1..k : n[i].time = d[i].time /\ n[i].time < t
  <2> TAKE i \in 1..k
  <2>1. i \in 1..Len(d) /\ k \in 1..Len(d) /\ n[i].time = d[i].time
    BY <1>1, <1>5
  <2>2. d[i].time <= d[k].time
    BY <1>1, <1>2, <2>1
  <2> QED BY <1>1, <2>1, <2>2
<1>8. \A i \in k + 2..Len(d) + 1 : n[i].time = d[i - 1].time /\ t < n[i].time
  <2> TAKE i \in k + 2..Len(d) + 1
  <2>1. PICK l \in (k + 1)..Len(d) : i = l + 1
    <3>1. Len(d) \in Int /\ k \in Int
      BY <1>1
    <3>2. i - 1 \in (k + 1)..Len(d) /\ i = (i - 1) + 1
      BY <3>1
    <3> QED BY <3>2
  <2>2. l \in 1..Len(d) /\ k + 1 \in 1..Len(d) /\ k < Len(d) /\ k + 1 <= l /\ i - 1 = l
    BY <1>1, <2>1
  <2>3. d[k + 1].time <= d[l].time
    <3>1. k + 1 < l => d[k + 1].time < d[l].time
      BY <1>2, <2>2
    <3> QED BY <1>1, <2>2, <3>1
  <2>4. n[i].time = d[l].time
    BY <1>5, <2>1
  <2> QED BY <1>1, <2>2, <2>3, <2>4
<1>9. ASSUME NEW i \in 1..Len(d) + 1, NEW j \in 1..Len(d) + 1, i < j
      PROVE  n[i].time < n[j].time
  <2>1. CASE j <= k
    <3>1. i \in 1..k /\ j \in 1..k /\ i \in 1..Len(d) /\ j \in 1..Len(d)
      BY <1>1, <1>9, <2>1
    <3>2. n[i].time = d[i].time /\ n[j].time = d[j].time
      BY <1>7, <3>1
    <3> QED BY <1>2, <1>9, <3>1, <3>2
  <2>2. CASE j = k + 1
    <3>1. i \in 1..k
      BY <1>1, <1>9, <2>2
    <3> QED BY <1>6, <1>7, <2>2, <3>1
  <2>3. CASE j > k + 1
    <3>1. j \in k + 2..Len(d) + 1
      BY <1>1, <2>3
    <3>2. CASE i <= k
      <4>1. i \in 1..k /\ n[i].time \in Int /\ n[j].time \in Int
        <5>1. i \in 1..k /\ i \in 1..Len(d) /\ j - 1 \in 1..Len(d)
          BY <1>1, <3>1, <3>2
        <5>2. n[i].time = d[i].time /\ n[j].time = d[j - 1].time
          BY <1>7, <1>8, <3>1, <5>1
        <5> QED BY <1>1, <5>1, <5>2
      <4>2. n[i].time < t /\ t < n[j].time
        BY <1>7, <1>8, <3>1, <4>1
      <4> QED BY <1>1, <4>1, <4>2
    <3>3. CASE i = k + 1
      BY <1>6, <1>8, <3>1, <3>3
    <3>4. CASE i > k + 1
      <4>1. i \in k + 2..Len(d) + 1 /\ i - 1 \in 1..Len(d) /\ j - 1 \in 1..Len(d) /\ i - 1 < j - 1
        BY <1>1, <1>9, <3>1, <3>4
      <4> QED BY <1>2, <1>8, <3>1, <4>1
    <3> QED BY <1>1, <3>2, <3>3, <3>4
  <2> QED BY <1>1, <2>1, <2>2, <2>3
<1> QED BY <1>4, <1>5, <1>9 DEF Sorted

LEMMA InsertHas ==
  ASSUME NEW d \in Seq(Element), NEW k \in 0..Len(d), NEW t, NEW a,
         NEW e \in Element, e = [time |-> t, amount |-> a]
  PROVE  \A x : Has(Insert(d, k, t, a), x) <=> Has(d, x) \/ x = t
<1>1. PICK n : n = Insert(d, k, t, a)
  OBVIOUS
<1>2. /\ Len(n) = Len(d) + 1
      /\ n[k + 1] = e
      /\ \A i \in 1..k : n[i] = d[i]
      /\ \A i \in (k + 1)..Len(d) : n[i + 1] = d[i]
  BY <1>1, InsertIs
<1>3. Len(d) \in Nat
  BY LenProperties
<1> TAKE x
<1>4. ASSUME Has(n, x) PROVE Has(d, x) \/ x = t
  <2>1. PICK i \in 1..Len(d) + 1 : n[i].time = x
    BY <1>2, <1>4 DEF Has
  <2>2. CASE i <= k
    <3>1. i \in 1..k /\ i \in 1..Len(d)
      BY <1>3, <2>2
    <3> QED BY <1>2, <2>1, <3>1 DEF Has
  <2>3. CASE i = k + 1
    BY <1>2, <2>1, <2>3
  <2>4. CASE i > k + 1
    <3>1. i - 1 \in (k + 1)..Len(d) /\ (i - 1) + 1 = i /\ i - 1 \in 1..Len(d)
      BY <1>3, <2>4
    <3>2. d[i - 1].time = x
      BY <1>2, <2>1, <3>1
    <3> QED BY <3>1, <3>2 DEF Has
  <2> QED BY <1>3, <2>2, <2>3, <2>4
<1>5. ASSUME x = t PROVE Has(n, x)
  <2>1. k + 1 \in 1..Len(n) /\ n[k + 1].time = t
    BY <1>2, <1>3
  <2> QED BY <1>5, <2>1 DEF Has
<1>6. ASSUME Has(d, x) PROVE Has(n, x)
  <2>1. PICK i \in 1..Len(d) : d[i].time = x
    BY <1>6 DEF Has
  <2>2. CASE i <= k
    <3>1. i \in 1..k /\ i \in 1..Len(n)
      BY <1>2, <1>3, <2>2
    <3> QED BY <1>2, <2>1, <3>1 DEF Has
  <2>3. CASE i > k
    <3>1. i \in (k + 1)..Len(d) /\ i + 1 \in 1..Len(n)
      BY <1>2, <1>3, <2>3
    <3>2. n[i + 1].time = x
      BY <1>2, <2>1, <3>1
    <3> QED BY <3>1, <3>2 DEF Has
  <2> QED BY <1>3, <2>2, <2>3
<1> QED BY <1>1, <1>4, <1>5, <1>6

\* The element at the start of a booking: the others are as before.
LEMMA StartIs ==
  ASSUME NEW d, Sorted(d), NEW start \in 1..Infinity, NEW u \in Int,
         NEW s, s = WithStart(d, start, u), NEW f, f = Before(d, start) + 1
  PROVE  /\ Sorted(s) /\ f \in 1..Len(s) /\ s[f].time = start
         /\ \A x : Has(s, x) <=> Has(d, x) \/ x = start
         /\ \A k \in 1..Len(s) : s[k].amount = AmountAt(d, s[k].time) + (IF k = f THEN u ELSE 0)
<1>1. /\ Len(d) \in Nat /\ DOMAIN d = 1..Len(d) /\ start \in Int
      /\ \A i \in 1..Len(d) : /\ d[i] \in Element /\ d[i].time \in Int /\ d[i].amount \in Int
                              /\ AmountAt(d, d[i].time) = d[i].amount
  BY SortedTypes, UptoElement
<1>2. d \in Seq(Element) /\ \A i, j \in 1..Len(d) : i < j => d[i].time < d[j].time
  BY DEF Sorted
<1>3. PICK p \in 0..Len(d) : /\ p = Before(d, start)
                            /\ \A i \in 1..Len(d) : i <= p <=> d[i].time < start
  BY <1>1, BeforeIs
<1>4. f = p + 1
  BY <1>3
<1>5. CASE Hit(d, start)
  <2>1. f \in 1..Len(d) /\ d[f].time = start
    BY <1>1, <1>3, <1>4, <1>5 DEF Hit
  <2>2. s = [d EXCEPT ![f].amount = @ + u]
    BY <1>3, <1>4, <1>5 DEF WithStart
  <2> DEFINE e == [d[f] EXCEPT !.amount = @ + u]
  <2>3. e \in Element /\ e.time = start /\ e.amount = d[f].amount + u
    BY <1>1, <2>1 DEF Element
  <2>4. s = [d EXCEPT ![f] = e]
    BY <2>2
  <2> HIDE DEF e
  <2>5. /\ s \in Seq(Element) /\ Len(s) = Len(d)
        /\ \A j \in 1..Len(d) : s[j] = IF j = f THEN e ELSE d[j]
    BY <1>2, <2>1, <2>3, <2>4, ExceptSeq
  <2>6. \A j \in 1..Len(d) : s[j].time = d[j].time
    BY <2>1, <2>3, <2>5
  <2>7. Sorted(s)
    BY <1>2, <2>5, <2>6 DEF Sorted
  <2>8. \A x : Has(s, x) <=> Has(d, x) \/ x = start
    BY <2>1, <2>5, <2>6 DEF Has
  <2>9. ASSUME NEW k \in 1..Len(s)
        PROVE  s[k].amount = AmountAt(d, s[k].time) + (IF k = f THEN u ELSE 0)
    <3>1. k \in 1..Len(d) /\ AmountAt(d, s[k].time) = d[k].amount /\ d[k].amount \in Int
      BY <1>1, <2>5, <2>6
    <3> QED BY <2>3, <2>5, <3>1
  <2> QED BY <2>1, <2>5, <2>6, <2>7, <2>8, <2>9
<1>6. CASE ~Hit(d, start)
  <2>1. p > 0 => p \in 1..Len(d) /\ d[p].time < start
    BY <1>1, <1>3
  <2>2. p < Len(d) => p + 1 \in 1..Len(d) /\ start < d[p + 1].time
    <3> SUFFICES ASSUME p < Len(d) PROVE p + 1 \in 1..Len(d) /\ start < d[p + 1].time
      OBVIOUS
    <3>1. p + 1 \in 1..Len(d) /\ ~(d[p + 1].time < start)
      BY <1>1, <1>3
    <3>2. d[p + 1].time # start
      BY <1>3, <1>6 DEF Hit
    <3> QED BY <1>1, <3>1, <3>2
  <2> DEFINE a == Level(d, p) + u
             e == [time |-> start, amount |-> a]
  <2>3. Level(d, p) = AmountAt(d, start)
    <3>1. p > 0 => d[p].time <= start
      BY <1>1, <2>1
    <3>2. Upto(d, start) = p
      BY <1>1, <2>2, <3>1, UptoBetween
    <3> QED BY <3>2 DEF AmountAt
  <2>4. a \in Int
    BY <1>1, <2>3, AmountIsInt
  <2>5. s = Insert(d, p, start, a)
    BY <1>3, <1>6 DEF WithStart
  <2> HIDE DEF a
  <2>6. e \in Element /\ e.time = start /\ e.amount = a
    BY <2>4 DEF Element
  <2>7. Sorted(s)
    BY <2>1, <2>2, <2>4, <2>5, InsertSorted
  <2>8. \A x : Has(s, x) <=> Has(d, x) \/ x = start
    <3>1. d \in Seq(Element)
      BY <1>2
    <3> QED BY <2>5, <2>6, <3>1, InsertHas
  <2>9. /\ Len(s) = Len(d) + 1 /\ s[p + 1] = e
        /\ \A i \in 1..p : s[i] = d[i]
        /\ \A i \in (p + 1)..Len(d) : s[i + 1] = d[i]
    <3>1. d \in Seq(Element)
      BY <1>2
    <3> QED BY <2>5, <2>6, <3>1, InsertIs
  <2> HIDE DEF e
  <2>10. ASSUME NEW k \in 1..Len(s)
         PROVE  s[k].amount = AmountAt(d, s[k].time) + (IF k = f THEN u ELSE 0)
    <3>1. CASE k <= p
      <4>1. k \in 1..p /\ k \in 1..Len(d) /\ k # f
        BY <1>1, <1>4, <3>1
      <4> QED BY <1>1, <2>9, <4>1
    <3>2. CASE k = p + 1
      <4>1. s[k].time = start /\ s[k].amount = a /\ k = f
        BY <1>4, <2>6, <2>9, <3>2
      <4> QED BY <2>3, <4>1 DEF a
    <3>3. CASE k > p + 1
      <4>1. k - 1 \in (p + 1)..Len(d) /\ (k - 1) + 1 = k /\ k - 1 \in 1..Len(d) /\ k # f
        BY <1>1, <1>4, <2>9, <3>3
      <4>2. s[k] = d[k - 1]
        BY <2>9, <4>1
      <4> QED BY <1>1, <4>1, <4>2
    <3> QED BY <1>1, <2>9, <3>1, <3>2, <3>3
  <2>11. f \in 1..Len(s) /\ s[f].time = start
    BY <1>1, <1>4, <2>6, <2>9
  <2> QED BY <2>7, <2>8, <2>10, <2>11
<1> QED BY <1>5, <1>6

\* The elements within a booking, and the last one of them.
LastBefore(s, f, end) == f + Cardinality({i \in (f + 1)..Len(s) : s[i].time < end})

Raised(s, f, p, u) ==
  [i \in DOMAIN s |-> IF i \in (f + 1)..p THEN [s[i] EXCEPT !.amount = @ + u] ELSE s[i]]

LEMMA RaisedIs ==
  ASSUME NEW s, Sorted(s), NEW f \in 1..Len(s), NEW end \in 1..Infinity, NEW u \in Int,
         s[f].time < end,
         NEW p, p = LastBefore(s, f, end), NEW q, q = Raised(s, f, p, u)
  PROVE  /\ p \in f..Len(s) /\ \A i \in 1..Len(s) : i <= p <=> s[i].time < end
         /\ Sorted(q) /\ Len(q) = Len(s)
         /\ \A k \in 1..Len(s) :
              /\ q[k].time = s[k].time
              /\ q[k].amount = s[k].amount + (IF f < k /\ k <= p THEN u ELSE 0)
<1>1. /\ Len(s) \in Nat /\ DOMAIN s = 1..Len(s) /\ end \in Int
      /\ \A i \in 1..Len(s) : s[i] \in Element /\ s[i].time \in Int /\ s[i].amount \in Int
  BY SortedTypes
<1>2. PICK b \in 0..Len(s) : \A i \in 1..Len(s) : i <= b <=> s[i].time < end
  BY <1>1, BeforeIs
<1>3. f <= b
  BY <1>2
<1>4. {i \in (f + 1)..Len(s) : s[i].time < end} = (f + 1)..b
  <2>1. \A i \in (f + 1)..Len(s) : i \in 1..Len(s)
    BY <1>1
  <2>2. \A i \in (f + 1)..b : i \in (f + 1)..Len(s)
    BY <1>1
  <2> QED BY <1>1, <1>2, <2>1, <2>2
<1>5. p = b
  <2>0. f \in Int /\ b \in Int
    BY <1>1
  <2>1. Cardinality((f + 1)..b) = b - f
    BY <1>3, <2>0, CountFrom
  <2>2. f + (b - f) = b
    BY <2>0
  <2> QED BY <1>4, <2>1, <2>2 DEF LastBefore
<1>6. ASSUME NEW k \in 1..Len(s)
      PROVE  /\ q[k] \in Element /\ q[k].time = s[k].time
             /\ q[k].amount = s[k].amount + (IF f < k /\ k <= p THEN u ELSE 0)
  <2>1. s[k] \in Element /\ s[k].amount \in Int
    BY <1>1
  <2>2. PICK e : e = s[k]
    OBVIOUS
  <2>3. q[k] = IF k \in (f + 1)..p THEN [e EXCEPT !.amount = @ + u] ELSE e
    BY <1>1, <2>2 DEF Raised
  <2>4. k \in (f + 1)..p <=> f < k /\ k <= p
    BY <1>1, <1>5
  <2>5. [e EXCEPT !.amount = @ + u] \in Element /\ [e EXCEPT !.amount = @ + u].time = e.time
        /\ [e EXCEPT !.amount = @ + u].amount = e.amount + u
    BY <2>1, <2>2 DEF Element
  <2>6. CASE f < k /\ k <= p
    BY <2>2, <2>3, <2>4, <2>5, <2>6
  <2>7. CASE ~(f < k /\ k <= p)
    BY <2>1, <2>2, <2>3, <2>4, <2>7
  <2> QED BY <2>6, <2>7
<1>7. q \in Seq(Element) /\ Len(q) = Len(s)
  <2>1. q \in [1..Len(s) -> Element]
    <3>1. DOMAIN q = 1..Len(s) /\ q = [k \in 1..Len(s) |-> q[k]]
      BY <1>1 DEF Raised
    <3> QED BY <1>6, <3>1
  <2>2. q \in Seq(Element)
    BY <1>1, <2>1
  <2>3. DOMAIN q = 1..Len(s) /\ DOMAIN q = 1..Len(q) /\ Len(q) \in Nat
    BY <2>1, <2>2, LenProperties
  <2> QED BY <1>1, <2>2, <2>3
<1>8. Sorted(q)
  BY <1>6, <1>7 DEF Sorted
<1>9. p \in f..Len(s) /\ \A i \in 1..Len(s) : i <= p <=> s[i].time < end
  <2>1. b \in f..Len(s)
    BY <1>1, <1>3
  <2> QED BY <1>2, <1>5, <2>1, Zenon
<1> QED BY <1>6, <1>7, <1>8, <1>9

-----------------------------------------------------------------------------
(* What a booking does to the amounts                                        *)

Within(start, end, t) == start <= t /\ t < end

Taken(start, end, u, t) == IF Within(start, end, t) THEN u ELSE 0

\* It is enough to look at the times of a diagram, if they are those of the
\* other one and of the booking.
LEMMA AmountsAgree ==
  ASSUME NEW d, Sorted(d), NEW e, Sorted(e),
         NEW start \in 1..Infinity, NEW end \in 1..Infinity, start < end, NEW u \in Int,
         \A x : Has(d, x) => Has(e, x), Has(e, start), Has(e, end),
         \A k \in 1..Len(e) : e[k].amount = AmountAt(d, e[k].time) + Taken(start, end, u, e[k].time)
  PROVE  \A t \in Int : AmountAt(e, t) = AmountAt(d, t) + Taken(start, end, u, t)
<1> TAKE t \in Int
<1>1. PICK k \in 0..Len(e) : k = Upto(e, t) /\ \A i \in 1..Len(e) : i <= k <=> e[i].time <= t
  BY UptoIs DEF IsUpto
<1>2. PICK m \in 0..Len(d) : m = Upto(d, t) /\ \A i \in 1..Len(d) : i <= m <=> d[i].time <= t
  BY UptoIs DEF IsUpto
<1>3. /\ Len(e) \in Nat /\ Len(d) \in Nat
      /\ \A i \in 1..Len(e) : e[i].time \in Int
      /\ \A i \in 1..Len(d) : d[i].time \in Int /\ d[i].amount \in Int
  BY SortedTypes
<1>4. start \in Int /\ end \in Int
  OBVIOUS
\* A time of e up to t is not behind the one of k.
<1>5. ASSUME NEW x, Has(e, x), x <= t PROVE k \in 1..Len(e) /\ x <= e[k].time
  <2>1. PICK i \in 1..Len(e) : e[i].time = x
    BY <1>5 DEF Has
  <2>2. i <= k /\ k \in 1..Len(e)
    BY <1>1, <1>3, <1>5, <2>1
  <2>3. i < k => e[i].time < e[k].time
    BY <2>2 DEF Sorted
  <2> QED BY <1>3, <2>1, <2>2, <2>3
<1>6. CASE k = 0
  <2>1. ~(start <= t)
    BY <1>4, <1>5, <1>6
  <2>2. m = 0
    <3> SUFFICES ASSUME m # 0 PROVE FALSE
      OBVIOUS
    <3>1. m \in 1..Len(d) /\ d[m].time <= t /\ Has(d, d[m].time)
      BY <1>2, <1>3 DEF Has
    <3> QED BY <1>5, <1>6, <3>1
  <2>3. AmountAt(e, t) = 0 /\ AmountAt(d, t) = 0
    BY <1>1, <1>2, <1>6, <2>2 DEF AmountAt, Level
  <2>4. Taken(start, end, u, t) = 0
    BY <2>1 DEF Taken, Within
  <2> QED BY <2>3, <2>4
<1>7. CASE k # 0
  <2>1. k \in 1..Len(e) /\ e[k].time <= t /\ e[k].time \in Int
    BY <1>1, <1>3, <1>7
  <2>2. AmountAt(e, t) = e[k].amount
    BY <1>1, <1>7 DEF AmountAt, Level
  <2>3. start <= t <=> start <= e[k].time
    BY <1>4, <1>5, <2>1
  <2>4. end <= t <=> end <= e[k].time
    BY <1>4, <1>5, <2>1
  <2>5. Taken(start, end, u, t) = Taken(start, end, u, e[k].time)
    BY <1>4, <2>1, <2>3, <2>4 DEF Taken, Within
  <2>6. Upto(d, e[k].time) = m
    <3>1. m > 0 => d[m].time <= e[k].time
      <4> SUFFICES ASSUME m > 0 PROVE d[m].time <= e[k].time
        OBVIOUS
      <4>1. m \in 1..Len(d) /\ d[m].time <= t /\ Has(d, d[m].time)
        BY <1>2, <1>3 DEF Has
      <4> QED BY <1>5, <4>1
    <3>2. m < Len(d) => e[k].time < d[m + 1].time
      <4> SUFFICES ASSUME m < Len(d) PROVE e[k].time < d[m + 1].time
        OBVIOUS
      <4>1. m + 1 \in 1..Len(d) /\ ~(d[m + 1].time <= t)
        BY <1>2, <1>3
      <4> QED BY <1>3, <2>1, <4>1
    <3> QED BY <2>1, <3>1, <3>2, UptoBetween
  <2>7. AmountAt(d, e[k].time) = AmountAt(d, t)
    BY <1>2, <2>6 DEF AmountAt
  <2> QED BY <2>1, <2>2, <2>5, <2>7
<1> QED BY <1>6, <1>7

\* The amount is zero at the end of time.
EndsWithZero(d) == d # <<>> => d[Len(d)].amount = 0

LEMMA NoTimeBetween ==
  ASSUME NEW d, Sorted(d), NEW x \in Int, NEW t \in Int, x <= t,
         \A y \in Int : Has(d, y) => ~(x < y /\ y <= t)
  PROVE  AmountAt(d, x) = AmountAt(d, t)
<1>1. PICK m \in 0..Len(d) : m = Upto(d, t) /\ \A i \in 1..Len(d) : i <= m <=> d[i].time <= t
  BY UptoIs DEF IsUpto
<1>2. Len(d) \in Nat /\ \A i \in 1..Len(d) : d[i].time \in Int /\ Has(d, d[i].time)
  BY SortedTypes DEF Has
<1>3. m > 0 => d[m].time <= x
  <2> SUFFICES ASSUME m > 0 PROVE d[m].time <= x
    OBVIOUS
  <2>1. m \in 1..Len(d) /\ d[m].time <= t
    BY <1>1, <1>2
  <2> QED BY <1>2, <2>1
<1>4. m < Len(d) => x < d[m + 1].time
  <2> SUFFICES ASSUME m < Len(d) PROVE x < d[m + 1].time
    OBVIOUS
  <2>1. m + 1 \in 1..Len(d) /\ ~(d[m + 1].time <= t)
    BY <1>1, <1>2
  <2> QED BY <1>2, <2>1
<1>5. Upto(d, x) = m
  BY <1>3, <1>4, UptoBetween
<1> QED BY <1>1, <1>5 DEF AmountAt

LEMMA LastTime ==
  ASSUME NEW d, Sorted(d), NEW x \in Int, Has(d, x)
  PROVE  Len(d) \in 1..Len(d) /\ x <= d[Len(d)].time
<1>1. PICK i \in 1..Len(d) : d[i].time = x
  BY DEF Has
<1>2. Len(d) \in Nat /\ Len(d) \in 1..Len(d) /\ i <= Len(d) /\ d[Len(d)].time \in Int
  BY SortedTypes
<1>3. i < Len(d) => d[i].time < d[Len(d)].time
  BY <1>2 DEF Sorted
<1> QED BY <1>1, <1>2, <1>3

LEMMA AmountBehind ==
  ASSUME NEW d, Sorted(d), EndsWithZero(d), NEW t \in Int,
         \A y \in Int : Has(d, y) => y <= t
  PROVE  AmountAt(d, t) = 0
<1>1. Len(d) \in Nat /\ \A i \in 1..Len(d) : d[i].time \in Int /\ Has(d, d[i].time)
  BY SortedTypes DEF Has
<1>2. Upto(d, t) = Len(d)
  <2>1. Len(d) \in 0..Len(d) /\ ~(Len(d) < Len(d))
    BY <1>1
  <2>2. Len(d) > 0 => d[Len(d)].time <= t
    BY <1>1
  <2> QED BY <2>1, <2>2, UptoBetween
<1>3. CASE Len(d) = 0
  BY <1>2, <1>3 DEF AmountAt, Level
<1>4. CASE Len(d) # 0
  <2>1. d # <<>>
    BY <1>4
  <2> QED BY <1>2, <1>4, <2>1 DEF AmountAt, Level, EndsWithZero
<1> QED BY <1>3, <1>4

LEMMA AddedIs ==
  ASSUME NEW d, Sorted(d), NEW start \in 1..Infinity, NEW duration \in Nat,
         NEW end \in 1..Infinity, end = EndTime(start, duration), start < end, NEW u \in Int
  PROVE  \E e : /\ UtilizationAdd(d, start, duration, u) = Normalized(e)
                /\ Sorted(e)
                /\ \A t \in Int : AmountAt(e, t) = AmountAt(d, t) + Taken(start, end, u, t)
                /\ EndsWithZero(d) => EndsWithZero(e)
<1>1. PICK s, f : s = WithStart(d, start, u) /\ f = Before(d, start) + 1
  OBVIOUS
<1>2. /\ Sorted(s) /\ f \in 1..Len(s) /\ s[f].time = start
      /\ \A x : Has(s, x) <=> Has(d, x) \/ x = start
      /\ \A k \in 1..Len(s) : s[k].amount = AmountAt(d, s[k].time) + (IF k = f THEN u ELSE 0)
  BY <1>1, StartIs
<1>3. PICK p : p = LastBefore(s, f, end)
  OBVIOUS
<1>4. PICK q : q = Raised(s, f, p, u)
  OBVIOUS
<1>5. /\ p \in f..Len(s) /\ \A i \in 1..Len(s) : i <= p <=> s[i].time < end
      /\ Sorted(q) /\ Len(q) = Len(s)
      /\ \A k \in 1..Len(s) :
           /\ q[k].time = s[k].time
           /\ q[k].amount = s[k].amount + (IF f < k /\ k <= p THEN u ELSE 0)
  <2>1. Sorted(s) /\ f \in 1..Len(s) /\ s[f].time < end
    BY <1>2
  <2> QED BY <1>3, <1>4, <2>1, RaisedIs
<1>6. PICK e : e = IF p < Len(q) /\ q[p + 1].time = end
                     THEN q ELSE Insert(q, p, end, Level(q, p) - u)
  OBVIOUS
<1>7. UtilizationAdd(d, start, duration, u) = Normalized(e)
  <2> DEFINE first == Before(d, start) + 1
             started == WithStart(d, start, u)
             prev == first + Cardinality({i \in (first + 1)..Len(started) :
                                            started[i].time < EndTime(start, duration)})
             raised == [i \in DOMAIN started |-> IF i \in (first + 1)..prev
                                                   THEN [started[i] EXCEPT !.amount = @ + u]
                                                   ELSE started[i]]
             added == IF prev < Len(raised) /\ raised[prev + 1].time = EndTime(start, duration)
                        THEN raised
                        ELSE Insert(raised, prev, EndTime(start, duration), Level(raised, prev) - u)
  <2>1. UtilizationAdd(d, start, duration, u) = Normalized(added)
    BY DEF UtilizationAdd
  <2>2. first = f /\ started = s
    BY <1>1
  <2>3. prev = p
    <3> HIDE DEF first, started
    <3> QED BY <1>3, <2>2 DEF LastBefore
  <2>4. raised = q
    <3> HIDE DEF first, started, prev
    <3> QED BY <1>4, <2>2, <2>3 DEF Raised
  <2>5. added = e
    <3> HIDE DEF prev, raised
    <3> QED BY <1>6, <2>3, <2>4
  <2> HIDE DEF added
  <2> QED BY <2>1, <2>5
<1>8. /\ Len(q) \in Nat /\ f \in Int /\ p \in 1..Len(q) /\ start \in Int /\ end \in Int
      /\ \A k \in 1..Len(q) : q[k].time \in Int /\ q[k].amount \in Int
      /\ \A k \in 1..Len(q) : k <= p <=> q[k].time < end
  BY <1>2, <1>5, SortedTypes
<1>9. \A k \in 1..Len(q) : f <= k <=> start <= q[k].time
  <2> TAKE k \in 1..Len(q)
  <2>1. q[f].time = start /\ f \in 1..Len(q)
    BY <1>2, <1>5
  <2>2. (f < k => q[f].time < q[k].time) /\ (k < f => q[k].time < q[f].time)
    BY <1>5, <2>1 DEF Sorted
  <2> QED BY <1>8, <2>1, <2>2
<1>10. ASSUME NEW k \in 1..Len(q)
       PROVE  q[k].amount = AmountAt(d, q[k].time) + Taken(start, end, u, q[k].time)
  <2>1. /\ k \in 1..Len(s) /\ AmountAt(d, q[k].time) \in Int /\ q[k].time = s[k].time
        /\ s[k].amount = AmountAt(d, q[k].time) + (IF k = f THEN u ELSE 0)
        /\ q[k].amount = s[k].amount + (IF f < k /\ k <= p THEN u ELSE 0)
    BY <1>2, <1>5, <1>8, AmountIsInt
  <2>2. Within(start, end, q[k].time) <=> f <= k /\ k <= p
    BY <1>8, <1>9 DEF Within
  <2>3. PICK a \in Int : a = AmountAt(d, q[k].time)
    BY <2>1
  <2>4. f <= p
    BY <1>5, <1>8
  <2>5. q[k].amount = a + (IF f <= k /\ k <= p THEN u ELSE 0)
    BY <1>8, <2>1, <2>3, <2>4
  <2> QED BY <2>2, <2>3, <2>5 DEF Taken
<1>11. \A x : Has(q, x) <=> Has(d, x) \/ x = start
  <2>1. \A x : Has(q, x) <=> Has(s, x)
    BY <1>5 DEF Has
  <2> QED BY <1>2, <2>1
<1>12. /\ Sorted(e)
       /\ \A x : Has(e, x) <=> Has(d, x) \/ x = start \/ x = end
       /\ \A k \in 1..Len(e) : e[k].amount = AmountAt(d, e[k].time) + Taken(start, end, u, e[k].time)
  <2>1. CASE p < Len(q) /\ q[p + 1].time = end
    <3>1. e = q
      BY <1>6, <2>1
    <3>2. Has(q, end)
      BY <1>8, <2>1 DEF Has
    <3> QED BY <1>5, <1>10, <1>11, <3>1, <3>2
  <2>2. CASE ~(p < Len(q) /\ q[p + 1].time = end)
    <3>1. p < Len(q) => end < q[p + 1].time
      <4> SUFFICES ASSUME p < Len(q) PROVE end < q[p + 1].time
        OBVIOUS
      <4>1. p + 1 \in 1..Len(q) /\ ~(q[p + 1].time < end)
        BY <1>8
      <4> QED BY <1>8, <2>2, <4>1
    <3>2. q[p].time < end /\ start <= q[p].time /\ f <= p
      BY <1>5, <1>8, <1>9
    <3>3. PICK a : a = Level(q, p) - u
      OBVIOUS
    <3>4. Level(q, p) = q[p].amount
      BY <1>8 DEF Level
    <3>5. a \in Int
      BY <1>8, <3>3, <3>4
    <3>6. e = Insert(q, p, end, a)
      BY <1>6, <2>2, <3>3
    <3>7. PICK new \in Element : new = [time |-> end, amount |-> a]
      <4>1. [time |-> end, amount |-> a] \in Element
        BY <3>5 DEF Element
      <4> QED BY <4>1
    <3>8. new.time = end /\ new.amount = a
      BY <3>7
    <3>9. q \in Seq(Element) /\ p \in 0..Len(q)
      BY <1>5, <1>8 DEF Sorted
    <3>10. Sorted(e)
      <4>1. p > 0 => q[p].time < end
        BY <3>2
      <4> QED BY <1>5, <3>1, <3>5, <3>6, <3>9, <4>1, InsertSorted
    <3>11. \A x : Has(e, x) <=> Has(d, x) \/ x = start \/ x = end
      <4>1. \A x : Has(e, x) <=> Has(q, x) \/ x = end
        BY <3>6, <3>7, <3>9, InsertHas
      <4> QED BY <1>11, <4>1
    <3>12. /\ Len(e) = Len(q) + 1 /\ e[p + 1] = new
           /\ \A i \in 1..p : e[i] = q[i]
           /\ \A i \in (p + 1)..Len(q) : e[i + 1] = q[i]
      BY <3>6, <3>7, <3>9, InsertIs
    <3>13. a = AmountAt(d, end)
      <4>1. AmountAt(d, q[p].time) \in Int /\ Taken(start, end, u, q[p].time) = u
        BY <1>8, <3>2, AmountIsInt DEF Taken, Within
      <4>2. q[p].amount = AmountAt(d, q[p].time) + u
        BY <1>8, <1>10, <4>1
      <4>3. a = AmountAt(d, q[p].time)
        BY <3>3, <3>4, <4>1, <4>2
      <4>4. ASSUME NEW y \in Int, Has(d, y) PROVE ~(q[p].time < y /\ y <= end)
        <5>1. PICK i \in 1..Len(q) : q[i].time = y
          BY <1>11, <4>4 DEF Has
        <5>2. i <= p => q[i].time <= q[p].time
          <6>1. i < p => q[i].time < q[p].time
            BY <1>5, <1>8 DEF Sorted
          <6> QED BY <1>8, <6>1
        <5>3. p < i => end < q[i].time
          <6> SUFFICES ASSUME p < i PROVE end < q[i].time
            OBVIOUS
          <6>1. p + 1 \in 1..Len(q) /\ p < Len(q) /\ p + 1 <= i
            BY <1>8
          <6>2. p + 1 < i => q[p + 1].time < q[i].time
            BY <1>5, <6>1 DEF Sorted
          <6> QED BY <1>8, <3>1, <6>1, <6>2
        <5> QED BY <1>8, <5>1, <5>2, <5>3
      <4>5. AmountAt(d, q[p].time) = AmountAt(d, end)
        <5>1. q[p].time \in Int /\ q[p].time <= end
          BY <1>8, <3>2
        <5> QED BY <1>8, <4>4, <5>1, NoTimeBetween
      <4> QED BY <4>3, <4>5
    <3>14. ASSUME NEW k \in 1..Len(e)
           PROVE  e[k].amount = AmountAt(d, e[k].time) + Taken(start, end, u, e[k].time)
      <4>1. CASE k <= p
        <5>1. k \in 1..p /\ k \in 1..Len(q)
          BY <1>8, <4>1
        <5> QED BY <1>10, <3>12, <5>1
      <4>2. CASE k = p + 1
        <5>1. e[k].time = end /\ e[k].amount = a
          BY <3>8, <3>12, <4>2
        <5>2. Taken(start, end, u, end) = 0
          BY <1>8 DEF Taken, Within
        <5> QED BY <3>5, <3>13, <5>1, <5>2
      <4>3. CASE k > p + 1
        <5>1. k - 1 \in (p + 1)..Len(q) /\ (k - 1) + 1 = k /\ k - 1 \in 1..Len(q)
          BY <1>8, <3>12, <4>3
        <5>2. e[k] = q[k - 1]
          BY <3>12, <5>1
        <5> QED BY <1>10, <5>1, <5>2
      <4> QED BY <1>8, <3>12, <4>1, <4>2, <4>3
    <3> QED BY <3>10, <3>11, <3>14
  <2> QED BY <2>1, <2>2
<1>13. \A t \in Int : AmountAt(e, t) = AmountAt(d, t) + Taken(start, end, u, t)
  BY <1>12, AmountsAgree
<1>14. ASSUME EndsWithZero(d) PROVE EndsWithZero(e)
  <2>1. Len(e) \in 1..Len(e) /\ end <= e[Len(e)].time /\ e[Len(e)].time \in Int
    BY <1>8, <1>12, LastTime, SortedTypes
  <2>2. AmountAt(d, e[Len(e)].time) = 0
    <3>1. \A y \in Int : Has(d, y) => y <= e[Len(e)].time
      BY <1>12, LastTime
    <3> QED BY <1>14, <2>1, <3>1, AmountBehind
  <2>3. Taken(start, end, u, e[Len(e)].time) = 0
    BY <1>8, <2>1 DEF Taken, Within
  <2> QED BY <1>12, <2>1, <2>2, <2>3 DEF EndsWithZero
<1> QED BY <1>7, <1>12, <1>13, <1>14

-----------------------------------------------------------------------------
(* Normalization                                                             *)

\* How many members of K are not above i.
CountIn(K, i) == Cardinality({j \in K : j <= i})

LEMMA CountIs ==
  ASSUME NEW n \in Nat, NEW K \in SUBSET (1..n)
  PROVE  /\ Cardinality(K) \in Nat
         /\ CountIn(K, 0) = 0 /\ CountIn(K, n) = Cardinality(K)
         /\ \A i \in Int : CountIn(K, i) \in Nat /\ CountIn(K, i) <= Cardinality(K)
         /\ \A i \in 1..n :
              CountIn(K, i) = IF i \in K THEN CountIn(K, i - 1) + 1 ELSE CountIn(K, i - 1)
         /\ \A i, k \in K : i < k => CountIn(K, i) < CountIn(K, k)
<1> DEFINE Upper(i) == {j \in K : j <= i}
<1>0. \A j \in K : j \in Int /\ 1 <= j /\ j <= n
  OBVIOUS
<1>1. IsFiniteSet(K) /\ Cardinality(K) \in Nat
  <2>1. K \in SUBSET Nat /\ \A k \in K : k <= n
    OBVIOUS
  <2> QED BY <2>1, FS_BoundedSetOfNaturals, FS_CardinalityType
<1>2. ASSUME NEW i \in Int
      PROVE  /\ IsFiniteSet(Upper(i)) /\ CountIn(K, i) = Cardinality(Upper(i))
             /\ CountIn(K, i) \in Nat /\ CountIn(K, i) <= Cardinality(K)
  <2>1. Upper(i) \in SUBSET K
    OBVIOUS
  <2>2. CountIn(K, i) = Cardinality(Upper(i))
    BY DEF CountIn
  <2> HIDE DEF Upper
  <2>3. IsFiniteSet(Upper(i)) /\ Cardinality(Upper(i)) <= Cardinality(K)
    BY <1>1, <2>1, FS_Subset
  <2> QED BY <2>2, <2>3, FS_CardinalityType
<1>3. CountIn(K, 0) = 0
  <2>1. Upper(0) = {}
    <3>1. \A j \in K : ~(j <= 0)
      BY <1>0
    <3> QED BY <3>1
  <2> HIDE DEF Upper
  <2> QED BY <1>2, <2>1, FS_EmptySet
<1>4. CountIn(K, n) = Cardinality(K)
  <2>1. Upper(n) = K
    BY <1>0
  <2> HIDE DEF Upper
  <2> QED BY <1>2, <2>1
<1>5. ASSUME NEW i \in 1..n
      PROVE  CountIn(K, i) = IF i \in K THEN CountIn(K, i - 1) + 1 ELSE CountIn(K, i - 1)
  <2>1. i \in Int /\ i - 1 \in Int
    OBVIOUS
  <2>2. \A j \in K : j <= i - 1 <=> j <= i /\ j # i
    BY <1>0, <2>1
  <2>3. CASE i \in K
    <3>1. Upper(i) = Upper(i - 1) \cup {i} /\ i \notin Upper(i - 1)
      <4>1. i <= i /\ ~(i <= i - 1)
        BY <2>1
      <4>2. \A x : x \in Upper(i) <=> x \in Upper(i - 1) \/ x = i
        BY <2>2, <2>3, <4>1, Zenon
      <4> QED BY <4>1, <4>2
    <3> HIDE DEF Upper
    <3>2. Cardinality(Upper(i)) = Cardinality(Upper(i - 1)) + 1
      BY <1>2, <2>1, <3>1, FS_AddElement
    <3> QED BY <1>2, <2>1, <2>3, <3>2
  <2>4. CASE i \notin K
    <3>1. Upper(i) = Upper(i - 1)
      BY <2>2, <2>4
    <3> HIDE DEF Upper
    <3> QED BY <1>2, <2>1, <2>4, <3>1
  <2> QED BY <2>3, <2>4
<1>6. ASSUME NEW i \in K, NEW k \in K, i < k PROVE CountIn(K, i) < CountIn(K, k)
  <2>1. i \in Int /\ k \in Int
    BY <1>0
  <2>2. Upper(i) \in SUBSET Upper(k) /\ k \in Upper(k) /\ k \notin Upper(i)
    <3>1. k <= k /\ ~(k <= i) /\ \A j \in K : j <= i => j <= k
      BY <1>0, <1>6, <2>1
    <3> QED BY <3>1
  <2> HIDE DEF Upper
  <2>3. IsFiniteSet(Upper(k)) /\ CountIn(K, i) \in Nat /\ CountIn(K, k) \in Nat
    BY <1>2, <2>1
  <2>4. Upper(i) # Upper(k)
    BY <2>2
  <2>5. Cardinality(Upper(i)) <= Cardinality(Upper(k)) /\ Cardinality(Upper(i)) # Cardinality(Upper(k))
    BY <2>2, <2>3, <2>4, FS_Subset
  <2> QED BY <1>2, <2>1, <2>3, <2>5
<1> QED BY <1>1, <1>2, <1>3, <1>4, <1>5, <1>6

\* Each number up to that of the members is that of one member.
LEMMA NthExists ==
  ASSUME NEW n \in Nat, NEW K \in SUBSET (1..n)
  PROVE  /\ \A m \in 1..Cardinality(K) : \E i \in K : CountIn(K, i) = m
         /\ \A i \in K : CountIn(K, i) \in 1..Cardinality(K)
<1>1. /\ Cardinality(K) \in Nat
      /\ CountIn(K, 0) = 0 /\ CountIn(K, n) = Cardinality(K)
      /\ \A i \in Int : CountIn(K, i) \in Nat /\ CountIn(K, i) <= Cardinality(K)
      /\ \A i \in 1..n :
           CountIn(K, i) = IF i \in K THEN CountIn(K, i - 1) + 1 ELSE CountIn(K, i - 1)
  BY CountIs
<1>2. ASSUME NEW i \in K PROVE CountIn(K, i) \in 1..Cardinality(K)
  <2>1. i \in 1..n /\ i \in Int /\ i - 1 \in Int
    OBVIOUS
  <2>2. CountIn(K, i) = CountIn(K, i - 1) + 1 /\ CountIn(K, i - 1) \in Nat
    BY <1>1, <2>1
  <2> QED BY <1>1, <2>1, <2>2
<1>3. ASSUME NEW m \in 1..Cardinality(K) PROVE \E i \in K : CountIn(K, i) = m
  <2> DEFINE S == {i \in 0..n : m <= CountIn(K, i)}
  <2>1. S \in SUBSET Nat /\ n \in S
    BY <1>1
  <2>2. PICK x \in S : \A y \in S : x <= y
    <3> HIDE DEF S
    <3> QED BY <2>1, LeastNumber
  <2>3. x \in 0..n /\ m <= CountIn(K, x) /\ m \in Int /\ 1 <= m
    BY <1>1, <2>2
  <2>4. x # 0
    BY <1>1, <2>3
  <2>5. x \in 1..n /\ x - 1 \in 0..n /\ x - 1 \in Int /\ x \in Int
    BY <2>3, <2>4
  <2>6. x - 1 \notin S
    <3> HIDE DEF S
    <3> QED BY <2>2, <2>5
  <2>7. ~(m <= CountIn(K, x - 1))
    BY <2>5, <2>6
  <2>8. CountIn(K, x) \in Nat /\ CountIn(K, x - 1) \in Nat
    BY <1>1, <2>5
  <2>9. x \in K /\ CountIn(K, x) = CountIn(K, x - 1) + 1
    BY <1>1, <2>3, <2>5, <2>7
  <2>10. CountIn(K, x) = m
    BY <2>3, <2>7, <2>8, <2>9
  <2> QED BY <2>9, <2>10
<1> QED BY <1>2, <1>3

\* The members of a set of numbers in their order.
LEMMA NthIs ==
  ASSUME NEW n \in Nat, NEW K \in SUBSET (1..n), NEW g,
         \A m \in 1..Cardinality(K) : g[m] = CHOOSE i \in K : CountIn(K, i) = m
  PROVE  /\ Cardinality(K) \in Nat
         /\ \A m \in 1..Cardinality(K) : g[m] \in K
         /\ \A m, l \in 1..Cardinality(K) : m < l => g[m] < g[l]
         /\ \A i \in K : \E m \in 1..Cardinality(K) : g[m] = i
<1>1. Cardinality(K) \in Nat /\ \A j \in K : j \in Int
  BY CountIs
<1>2. \A i, k \in K : i < k => CountIn(K, i) < CountIn(K, k)
  BY CountIs
<1>3. ASSUME NEW m \in 1..Cardinality(K) PROVE g[m] \in K /\ CountIn(K, g[m]) = m
  <2>1. \E i \in K : CountIn(K, i) = m
    BY NthExists
  <2> QED BY <2>1
<1>4. ASSUME NEW m \in 1..Cardinality(K), NEW l \in 1..Cardinality(K), m < l
      PROVE  g[m] < g[l]
  <2>1. PICK i \in K, k \in K : i = g[m] /\ k = g[l] /\ CountIn(K, i) = m /\ CountIn(K, k) = l
    BY <1>3
  <2>2. i \in Int /\ k \in Int /\ m \in Int /\ l \in Int
    BY <1>1
  <2>3. i # k
    BY <1>4, <2>1, <2>2
  <2>4. ~(k < i)
    BY <1>2, <1>4, <2>1, <2>2
  <2>5. i < k
    BY <2>2, <2>3, <2>4
  <2> QED BY <2>1, <2>5
<1>5. ASSUME NEW i \in K PROVE \E m \in 1..Cardinality(K) : g[m] = i
  <2>1. PICK m \in 1..Cardinality(K) : m = CountIn(K, i)
    BY NthExists
  <2>2. PICK k \in K : k = g[m] /\ CountIn(K, k) = m
    BY <1>3
  <2>3. i \in Int /\ k \in Int /\ m \in Int
    BY <1>1
  <2>4. ~(i < k) /\ ~(k < i)
    BY <1>2, <2>1, <2>2, <2>3
  <2>5. i = k
    BY <2>3, <2>4
  <2> QED BY <2>2, <2>5
<1> QED BY <1>1, <1>3, <1>4, <1>5

\* Neighbours differ, and the first amount is not zero.
Normal(d) == \A i \in 1..Len(d) : d[i].amount # Level(d, i - 1)

LEMMA NormalizedIs ==
  ASSUME NEW e, Sorted(e), NEW n, n = Normalized(e)
  PROVE  /\ Sorted(n) /\ Normal(n)
         /\ \A t \in Int : AmountAt(n, t) = AmountAt(e, t)
         /\ EndsWithZero(e) => EndsWithZero(n)
<1> DEFINE L == Len(e)
           K == {i \in DOMAIN e : e[i].amount # Level(e, i - 1)}
           M == Cardinality(K)
           g == [m \in 1..M |-> CHOOSE i \in K : Cardinality({j \in K : j <= i}) = m]
<1>1. /\ L \in Nat /\ DOMAIN e = 1..L
      /\ \A i \in 1..L : e[i] \in Element /\ e[i].time \in Int /\ e[i].amount \in Int
  BY SortedTypes
<1>2. K \in SUBSET (1..L)
  BY <1>1
<1>3. n = [m \in 1..M |-> e[g[m]]]
  BY DEF Normalized
<1>4. \A i \in 1..L : i \in K <=> e[i].amount # Level(e, i - 1)
  BY <1>1
<1> HIDE DEF K
<1>5. /\ M \in Nat
      /\ \A m \in 1..M : g[m] \in K
      /\ \A m, l \in 1..M : m < l => g[m] < g[l]
      /\ \A i \in K : \E m \in 1..M : g[m] = i
  <2>1. \A m \in 1..Cardinality(K) : g[m] = CHOOSE i \in K : CountIn(K, i) = m
    BY DEF CountIn
  <2> HIDE DEF g, L
  <2>2. /\ Cardinality(K) \in Nat
        /\ \A m \in 1..Cardinality(K) : g[m] \in K
        /\ \A m, l \in 1..Cardinality(K) : m < l => g[m] < g[l]
        /\ \A i \in K : \E m \in 1..Cardinality(K) : g[m] = i
    <3>1. L \in Nat /\ K \in SUBSET (1..L)
      BY <1>1, <1>2
    <3> QED BY <2>1, <3>1, NthIs
  <2> QED BY <2>2
<1> HIDE DEF M, g, L
<1>6. \A m \in 1..M : g[m] \in 1..L /\ g[m] \in Int /\ n[m] = e[g[m]] /\ n[m] \in Element
  <2> SUFFICES ASSUME NEW m \in 1..M
      PROVE  g[m] \in 1..L /\ g[m] \in Int /\ n[m] = e[g[m]] /\ n[m] \in Element
    OBVIOUS
  <2>1. g[m] \in 1..L
    BY <1>2, <1>5
  <2>2. g[m] \in Int
    BY <1>1, <2>1
  <2>3. n[m] = e[g[m]]
    BY <1>3
  <2> QED BY <1>1, <2>1, <2>2, <2>3
<1>7. n \in Seq(Element) /\ Len(n) = M /\ DOMAIN n = 1..M
  <2>1. n \in [1..M -> Element]
    BY <1>3, <1>6
  <2>2. n \in Seq(Element)
    BY <1>5, <2>1
  <2>3. DOMAIN n = 1..M /\ DOMAIN n = 1..Len(n) /\ Len(n) \in Nat
    BY <2>1, <2>2, LenProperties
  <2> QED BY <1>5, <2>2, <2>3
<1>8. Sorted(n)
  <2>1. ASSUME NEW i \in 1..M, NEW j \in 1..M, i < j PROVE n[i].time < n[j].time
    <3>1. g[i] < g[j] /\ g[i] \in 1..L /\ g[j] \in 1..L
      BY <1>5, <1>6, <2>1
    <3> QED BY <1>6, <3>1 DEF Sorted, L
  <2> QED BY <1>7, <2>1 DEF Sorted
\* Between two elements that are kept the amount is that of the first one.
<1>9. ASSUME NEW j \in 0..M, NEW k \in 0..L, j > 0 => g[j] <= k, j < M => k < g[j + 1]
      PROVE  Level(e, k) = Level(n, j)
  <2> DEFINE In(i) == (j > 0 => g[j] <= i) /\ (j < M => i < g[j + 1])
             Bad == {i \in 0..L : In(i) /\ Level(e, i) # Level(n, j)}
  <2>1. SUFFICES ASSUME Bad # {} PROVE FALSE
    BY <1>9
  <2>2. PICK x \in Bad : \A y \in Bad : x <= y
    <3>1. Bad \in SUBSET Nat
      OBVIOUS
    <3> HIDE DEF Bad
    <3> QED BY <2>1, <3>1, LeastNumber
  <2>3. x \in 0..L /\ In(x) /\ Level(e, x) # Level(n, j)
    BY <2>2
  <2>4. j > 0 => j \in 1..M
    BY <1>5
  <2>5. j < M => j + 1 \in 1..M
    BY <1>5
  <2>6. x # 0
    <3> SUFFICES ASSUME x = 0 PROVE FALSE
      OBVIOUS
    <3>1. j = 0
      BY <1>5, <1>6, <2>3, <2>4
    <3> QED BY <2>3, <3>1 DEF Level
  <2>7. x \in 1..L /\ x \in Int /\ x - 1 \in 0..L /\ x - 1 < x /\ Level(e, x) = e[x].amount
    BY <1>1, <2>3, <2>6 DEF Level
  <2>8. CASE x \in K
    <3>1. PICK m \in 1..M : g[m] = x
      BY <1>5, <2>8
    <3>2. ~(m < j)
      <4> SUFFICES ASSUME m < j PROVE FALSE
        OBVIOUS
      <4>1. j \in 1..M /\ g[m] < g[j] /\ g[j] <= x
        BY <1>5, <2>3, <2>4
      <4> QED BY <1>6, <2>7, <3>1, <4>1
    <3>3. ~(j < m)
      <4> SUFFICES ASSUME j < m PROVE FALSE
        OBVIOUS
      <4>1. j + 1 \in 1..M /\ x < g[j + 1] /\ j + 1 <= m
        BY <1>5, <2>3, <2>5
      <4>2. j + 1 < m => g[j + 1] < g[m]
        BY <1>5, <4>1
      <4> QED BY <1>5, <1>6, <2>7, <3>1, <4>1, <4>2
    <3>4. j = m
      BY <1>5, <3>2, <3>3
    <3>5. Level(n, j) = n[m].amount
      BY <1>5, <3>4 DEF Level
    <3> QED BY <1>6, <2>3, <2>7, <3>1, <3>5
  <2>9. CASE x \notin K
    <3>1. Level(e, x - 1) = Level(e, x)
      BY <1>4, <2>7, <2>9
    <3>2. In(x - 1)
      <4>1. j > 0 => g[j] # x
        BY <1>5, <2>4, <2>9
      <4>2. j > 0 => g[j] <= x - 1
        BY <1>6, <2>3, <2>4, <2>7, <4>1
      <4>3. j < M => x - 1 < g[j + 1]
        BY <1>6, <2>3, <2>5, <2>7
      <4> QED BY <4>2, <4>3
    <3>3. x - 1 \in Bad
      BY <2>3, <2>7, <3>1, <3>2
    <3> HIDE DEF Bad
    <3>4. x <= x - 1
      BY <2>2, <3>3
    <3> QED BY <2>7, <3>4
  <2> QED BY <2>8, <2>9
<1>10. ASSUME NEW t \in Int PROVE AmountAt(n, t) = AmountAt(e, t)
  <2>1. PICK k \in 0..L : k = Upto(e, t) /\ \A i \in 1..L : i <= k <=> e[i].time <= t
    BY UptoIs DEF IsUpto, L
  <2>2. PICK j \in 0..M : j = Upto(n, t) /\ \A i \in 1..M : i <= j <=> n[i].time <= t
    BY <1>7, <1>8, UptoIs DEF IsUpto
  <2>3. j > 0 => g[j] <= k
    <3> SUFFICES ASSUME j > 0 PROVE g[j] <= k
      OBVIOUS
    <3>1. j \in 1..M /\ n[j].time <= t
      BY <1>5, <2>2
    <3> QED BY <1>6, <2>1, <3>1
  <2>4. j < M => k < g[j + 1]
    <3> SUFFICES ASSUME j < M PROVE k < g[j + 1]
      OBVIOUS
    <3>1. j + 1 \in 1..M /\ ~(n[j + 1].time <= t)
      BY <1>5, <2>2
    <3>2. g[j + 1] \in 1..L /\ ~(e[g[j + 1]].time <= t) /\ g[j + 1] \in Int
      BY <1>6, <3>1
    <3>3. ~(g[j + 1] <= k)
      BY <2>1, <3>2
    <3> QED BY <1>1, <3>2, <3>3
  <2>5. Level(e, k) = Level(n, j)
    BY <1>9, <2>3, <2>4
  <2> QED BY <2>1, <2>2, <2>5 DEF AmountAt
<1>11. ASSUME NEW m \in 1..M PROVE n[m].amount # Level(n, m - 1)
  <2>1. m - 1 \in 0..M /\ g[m] - 1 \in 0..L /\ (m - 1) + 1 = m /\ m \in Int
    BY <1>1, <1>5, <1>6
  <2>2. m - 1 > 0 => g[m - 1] <= g[m] - 1
    <3> SUFFICES ASSUME m - 1 > 0 PROVE g[m - 1] <= g[m] - 1
      OBVIOUS
    <3>1. m - 1 \in 1..M /\ m - 1 < m
      BY <1>5, <2>1
    <3>2. g[m - 1] < g[m]
      BY <1>5, <3>1
    <3> QED BY <1>6, <3>1, <3>2
  <2>3. m - 1 < M => g[m] - 1 < g[(m - 1) + 1]
    BY <1>6, <2>1
  <2>4. Level(e, g[m] - 1) = Level(n, m - 1)
    <3> HIDE DEF L
    <3> QED BY <1>9, <2>1, <2>2, <2>3
  <2>5. e[g[m]].amount # Level(e, g[m] - 1)
    BY <1>4, <1>5, <1>6
  <2> QED BY <1>6, <2>4, <2>5
<1>12. Normal(n)
  BY <1>7, <1>11 DEF Normal
<1>13. ASSUME EndsWithZero(e), n # <<>> PROVE n[Len(n)].amount = 0
  <2>1. M # 0
    BY <1>7, <1>13
  <2>2. M \in 1..M /\ M \in 0..M /\ L \in 0..L /\ L \in Int /\ ~(M < M)
    BY <1>1, <1>5, <2>1
  <2>3. g[M] <= L /\ L # 0
    BY <1>1, <1>6, <2>2
  <2>4. Level(e, L) = Level(n, M)
    BY <1>9, <2>2, <2>3
  <2>5. e # <<>>
    BY <2>3 DEF L
  <2>6. Level(e, L) = 0
    BY <1>13, <2>3, <2>5 DEF Level, EndsWithZero, L
  <2> QED BY <1>7, <2>1, <2>4, <2>6 DEF Level
<1> QED BY <1>8, <1>10, <1>12, <1>13 DEF EndsWithZero

IsDiagram(d) == Sorted(d) /\ Normal(d) /\ EndsWithZero(d)

LEMMA UtilizationAddIs ==
  ASSUME NEW d, IsDiagram(d), NEW start \in 1..Infinity, NEW duration \in Nat,
         NEW end \in 1..Infinity, end = EndTime(start, duration), start < end, NEW u \in Int,
         NEW n, n = UtilizationAdd(d, start, duration, u)
  PROVE  /\ IsDiagram(n)
         /\ \A t \in Int : AmountAt(n, t) = AmountAt(d, t) + Taken(start, end, u, t)
<1>1. Sorted(d) /\ EndsWithZero(d)
  BY DEF IsDiagram
<1>2. PICK e : /\ n = Normalized(e) /\ Sorted(e) /\ EndsWithZero(e)
               /\ \A t \in Int : AmountAt(e, t) = AmountAt(d, t) + Taken(start, end, u, t)
  BY <1>1, AddedIs
<1>3. /\ Sorted(n) /\ Normal(n) /\ EndsWithZero(n)
      /\ \A t \in Int : AmountAt(n, t) = AmountAt(e, t)
  BY <1>2, NormalizedIs
<1> QED BY <1>2, <1>3 DEF IsDiagram

LEMMA EmptyDiagram == IsDiagram(<<>>) /\ \A t \in Int : AmountAt(<<>>, t) = 0
<1>1. <<>> \in Seq(Element) /\ Len(<<>>) = 0
  OBVIOUS
<1>2. Sorted(<<>>) /\ Normal(<<>>) /\ EndsWithZero(<<>>)
  BY <1>1 DEF Sorted, Normal, EndsWithZero
<1>3. ASSUME NEW t \in Int PROVE AmountAt(<<>>, t) = 0
  <2>1. 0 \in 0..Len(<<>>) /\ ~(0 > 0) /\ ~(0 < Len(<<>>))
    BY <1>1
  <2>2. Upto(<<>>, t) = 0
    BY <1>2, <2>1, UptoBetween
  <2> QED BY <2>2 DEF AmountAt, Level
<1> QED BY <1>2, <1>3 DEF IsDiagram

-----------------------------------------------------------------------------
(* The diagrams of the resources                                             *)

DiagramInv == \A r \in Resource : diagram[r] = NoDiagram \/ IsDiagram(diagram[r])

LEMMA ElementsAre ==
  ASSUME NEW d
  PROVE  /\ IsDiagram(d) => d # NoDiagram /\ Elements(d) = d
         /\ d = NoDiagram => Elements(d) = <<>>
         /\ d = NoDiagram \/ IsDiagram(d) => IsDiagram(Elements(d))
<1>1. IsDiagram(d) => d # NoDiagram
  BY DiagramAssumption DEF IsDiagram, Sorted
<1> QED BY <1>1, EmptyDiagram DEF Elements

LEMMA ValueIs ==
  ASSUME NEW r, NEW t PROVE ValueAt(r, t) = AmountAt(Elements(diagram[r]), t)
BY DEF ValueAt, AmountAt, Upto

LEMMA BookingTypes ==
  ASSUME NEW b \in Booking
  PROVE  /\ b.start \in 1..(Infinity - 1) /\ b.duration \in Nat /\ b.duration # 0
         /\ \A r \in Resource : b.amount[r] \in Nat
BY BookingAssumption

LEMMA EndTimeIs ==
  ASSUME NEW start \in 1..(Infinity - 1), NEW duration \in Nat, duration # 0
  PROVE  /\ EndTime(start, duration) \in 1..Infinity /\ start < EndTime(start, duration)
         /\ start \in 1..Infinity
BY ResourceAssumption DEF EndTime

\* A booking is entered where it does not take nothing and is not left out.
Entered(b, r, duration, forJob) == ~(b.amount[r] = 0 \/ (forJob /\ LeftOut(r, duration)))

LEMMA DebitIs ==
  ASSUME DiagramInv, NEW b \in Booking, NEW start \in 1..(Infinity - 1),
         NEW duration \in Nat, duration # 0, NEW sign \in {1, -1}, NEW forJob,
         Debit(b, start, duration, sign, forJob)
  PROVE  /\ DiagramInv'
         /\ \A r \in Resource : \A t \in Int :
              AmountAt(Elements(diagram'[r]), t) =
                AmountAt(Elements(diagram[r]), t)
                  + (IF Entered(b, r, duration, forJob)
                       THEN Taken(start, EndTime(start, duration), sign * b.amount[r], t) ELSE 0)
<1>1. PICK end : end = EndTime(start, duration)
  OBVIOUS
<1>2. end \in 1..Infinity /\ start < end /\ start \in 1..Infinity
  BY <1>1, EndTimeIs
<1>3. ASSUME NEW r \in Resource
      PROVE  /\ diagram'[r] = NoDiagram \/ IsDiagram(diagram'[r])
             /\ \A t \in Int :
                  AmountAt(Elements(diagram'[r]), t) =
                    AmountAt(Elements(diagram[r]), t)
                      + (IF Entered(b, r, duration, forJob)
                           THEN Taken(start, end, sign * b.amount[r], t) ELSE 0)
  <2>1. IsDiagram(Elements(diagram[r])) /\ (diagram[r] = NoDiagram \/ IsDiagram(diagram[r]))
    BY ElementsAre DEF DiagramInv
  <2>2. PICK u : u = sign * b.amount[r]
    OBVIOUS
  <2>3. u \in Int
    <3>1. b.amount[r] \in Nat
      BY BookingTypes
    <3>2. PICK a \in Nat : a = b.amount[r]
      BY <3>1
    <3>3. 1 * a \in Int /\ (-1) * a \in Int
      BY <3>2
    <3> QED BY <2>2, <3>2, <3>3
  <2>4. CASE Entered(b, r, duration, forJob)
    <3>1. diagram'[r] = UtilizationAdd(Elements(diagram[r]), start, duration, u)
      BY <2>2, <2>4 DEF Debit, Entered
    <3>2. /\ IsDiagram(diagram'[r])
          /\ \A t \in Int : AmountAt(diagram'[r], t) =
                              AmountAt(Elements(diagram[r]), t) + Taken(start, end, u, t)
      BY <1>1, <1>2, <2>1, <2>3, <3>1, UtilizationAddIs
    <3>3. Elements(diagram'[r]) = diagram'[r]
      BY <3>2, ElementsAre
    <3> QED BY <2>2, <2>4, <3>2, <3>3
  <2>5. CASE ~Entered(b, r, duration, forJob)
    <3>1. diagram'[r] = diagram[r]
      BY <2>5 DEF Debit, Entered
    <3>2. \A t \in Int : AmountAt(Elements(diagram[r]), t) \in Int
      BY <2>1, AmountIsInt DEF IsDiagram
    <3>3. \A t \in Int : AmountAt(Elements(diagram[r]), t) = AmountAt(Elements(diagram[r]), t) + 0
      BY <3>2
    <3> QED BY <2>1, <2>5, <3>1, <3>3
  <2> QED BY <2>4, <2>5
<1> QED BY <1>1, <1>3 DEF DiagramInv

\* Every step leaves the diagrams alone or makes one booking.
Books(b, duration, sign, forJob) ==
  duration \in Nat /\ duration # 0 /\ Debit(b, b.start, duration, sign, forJob)

LEMMA RunningTime ==
  ASSUME NEW b \in Booking, NEW duration,
         duration = IF EndTime(b.start, b.duration) <= Now THEN (Now - b.start) + Interval
                                                           ELSE b.duration
  PROVE  /\ duration \in Nat /\ duration # 0
         /\ IF EndTime(b.start, b.duration) <= Now THEN EndTime(b.start, duration) > Now
                                                   ELSE duration = b.duration
<1>1. b.start \in 1..(Infinity - 1) /\ b.duration \in Nat /\ b.duration # 0
  BY BookingTypes
<1>2. PICK s, e : s = b.start /\ e = EndTime(s, b.duration)
  OBVIOUS
<1>3. e \in 1..Infinity /\ s < e
  BY <1>1, <1>2, EndTimeIs
<1>4. Now \in Nat /\ Interval \in Nat /\ Interval # 0 /\ Infinity \in Nat /\ Now < Infinity
  BY ResourceAssumption
<1>5. CASE e <= Now
  <2>1. duration = (Now - s) + Interval /\ s \in Nat
    BY <1>1, <1>2, <1>4, <1>5
  <2>2. duration \in Nat /\ duration # 0 /\ s + duration = Now + Interval
    BY <1>3, <1>4, <1>5, <2>1
  <2>3. EndTime(s, duration) = IF Now + Interval < Infinity THEN Now + Interval ELSE Infinity
    BY <2>2 DEF EndTime
  <2>4. EndTime(s, duration) > Now
    BY <1>4, <2>3
  <2> QED BY <1>2, <1>5, <2>2, <2>4
<1> QED BY <1>1, <1>2, <1>5

LEMMA EachStepBooks ==
  ASSUME ResourceNext
  PROVE  \/ UNCHANGED diagram
         \/ \E b \in Booking, duration \in Nat, sign \in {1, -1}, forJob \in BOOLEAN :
              Books(b, duration, sign, forJob)
<1>1. ASSUME NEW b \in Booking, AddReservation(b) PROVE Books(b, b.duration, 1, FALSE)
  BY <1>1, BookingTypes DEF AddReservation, Books
<1>2. ASSUME NEW b \in Booking, RemoveReservation(b) PROVE Books(b, b.duration, -1, FALSE)
  BY <1>2, BookingTypes DEF RemoveReservation, Books
<1>3. ASSUME NEW b \in Booking, AddRunning(b) PROVE \E duration \in Nat : Books(b, duration, 1, TRUE)
  <2>1. PICK duration :
          duration = IF EndTime(b.start, b.duration) <= Now THEN (Now - b.start) + Interval
                                                            ELSE b.duration
    OBVIOUS
  <2>2. duration \in Nat /\ duration # 0
    BY <2>1, RunningTime
  <2>3. Debit(b, b.start, duration, 1, TRUE)
    BY <1>3, <2>1 DEF AddRunning
  <2> QED BY <2>2, <2>3 DEF Books
<1>4. ASSUME NEW b \in Booking, AddPending(b) PROVE Books(b, b.duration, 1, TRUE)
  BY <1>4, BookingTypes DEF AddPending, Books
<1>5. QetiFirst \/ QetiNext => UNCHANGED diagram
  BY DEF QetiFirst, QetiNext, Give
<1>6. ASSUME NEW b \in Booking, NEW duration, NEW sign \in {1, -1}, NEW forJob \in BOOLEAN,
             Books(b, duration, sign, forJob)
      PROVE  \E c \in Booking, n \in Nat, s \in {1, -1}, j \in BOOLEAN : Books(c, n, s, j)
  <2>1. duration \in Nat
    BY <1>6 DEF Books
  <2> QED BY <1>6, <2>1
<1>7. CASE QetiFirst \/ QetiNext
  BY <1>5, <1>7
<1>8. ASSUME NEW b \in Booking,
             AddReservation(b) \/ RemoveReservation(b) \/ AddRunning(b) \/ AddPending(b)
      PROVE  \E c \in Booking, n \in Nat, s \in {1, -1}, j \in BOOLEAN : Books(c, n, s, j)
  <2>1. CASE AddReservation(b)
    BY <1>1, <1>6, <2>1
  <2>2. CASE RemoveReservation(b)
    BY <1>2, <1>6, <2>2
  <2>3. CASE AddRunning(b)
    BY <1>3, <1>6, <2>3
  <2>4. CASE AddPending(b)
    BY <1>4, <1>6, <2>4
  <2> QED BY <1>8, <2>1, <2>2, <2>3, <2>4
<1> QED BY <1>7, <1>8 DEF ResourceNext

LEMMA DiagramInvHolds == ResourceSpec => []DiagramInv
<1>1. ResourceInit => DiagramInv
  BY DEF ResourceInit, DiagramInv
<1>2. DiagramInv /\ [ResourceNext]_resourceVars => DiagramInv'
  <2> SUFFICES ASSUME DiagramInv, [ResourceNext]_resourceVars PROVE DiagramInv'
    OBVIOUS
  <2>1. CASE UNCHANGED diagram
    BY <2>1 DEF DiagramInv
  <2>2. ASSUME NEW b \in Booking, NEW duration \in Nat, NEW sign \in {1, -1}, NEW forJob \in BOOLEAN,
               Books(b, duration, sign, forJob)
        PROVE  DiagramInv'
    <3>1. /\ duration \in Nat /\ duration # 0 /\ b.start \in 1..(Infinity - 1)
          /\ Debit(b, b.start, duration, sign, forJob)
      BY <2>2, BookingTypes DEF Books
    <3> QED BY <3>1, DebitIs
  <2>3. ResourceNext \/ UNCHANGED diagram
    BY DEF resourceVars
  <2> QED BY <2>1, <2>2, <2>3, EachStepBooks
<1> QED BY <1>1, <1>2, PTL DEF ResourceSpec

LEMMA InvIsNormal == DiagramInv => DiagramIsNormal
<1> SUFFICES ASSUME DiagramInv, NEW r \in Resource, NEW d, d = Elements(diagram[r])
    PROVE  /\ \A i \in DOMAIN d : d[i].amount # Level(d, i - 1)
           /\ \A i \in DOMAIN d \ {1} : d[i - 1].time < d[i].time
           /\ d # <<>> => d[Len(d)].amount = 0
  BY DEF DiagramIsNormal
<1>1. IsDiagram(d)
  BY ElementsAre DEF DiagramInv
<1>2. Sorted(d) /\ Len(d) \in Nat /\ DOMAIN d = 1..Len(d)
  BY <1>1, SortedTypes DEF IsDiagram
<1>3. ASSUME NEW i \in DOMAIN d \ {1} PROVE d[i - 1].time < d[i].time
  <2>1. i - 1 \in 1..Len(d) /\ i \in 1..Len(d) /\ i - 1 < i
    BY <1>2
  <2> QED BY <1>2, <2>1 DEF Sorted
<1> QED BY <1>1, <1>2, <1>3 DEF IsDiagram, Normal, EndsWithZero

\* The diagrams stay in order, without an element that changes nothing and with
\* nothing left at their end, whatever is booked and removed, in any order and
\* for any times, amounts and number of resources.
THEOREM DiagramsAreNormal == ResourceSpec => []DiagramIsNormal
BY DiagramInvHolds, InvIsNormal, PTL

-----------------------------------------------------------------------------
(* The bookings change the use of the resources as ResourceProfile says      *)

LEMMA ProfileChanges ==
  ASSUME DiagramInv, NEW b \in Booking, NEW duration \in Nat, NEW sign \in {1, -1},
         NEW forJob \in BOOLEAN, Books(b, duration, sign, forJob),
         NEW end, end = EndTime(b.start, duration),
         NEW R, R = {r \in Resource : ~(forJob /\ LeftOut(r, duration))}
  PROVE  Profile!Change(R, b.start, end, sign, b.amount)
<1>1. /\ duration # 0 /\ b.start \in 1..(Infinity - 1)
      /\ Debit(b, b.start, duration, sign, forJob)
  BY BookingTypes DEF Books
<1>2. \A r \in Resource : \A t \in Int :
        AmountAt(Elements(diagram'[r]), t) =
          AmountAt(Elements(diagram[r]), t)
            + (IF Entered(b, r, duration, forJob) THEN Taken(b.start, end, sign * b.amount[r], t)
                                                  ELSE 0)
  BY <1>1, DebitIs
<1>3. ASSUME NEW r \in Resource, NEW t \in Time
      PROVE  ValueAt(r, t)' = IF r \in R /\ b.start <= t /\ t < end
                                THEN ValueAt(r, t) + sign * b.amount[r]
                                ELSE ValueAt(r, t)
  <2>1. t \in Int /\ b.amount[r] \in Nat
    BY ResourceAssumption, BookingTypes DEF Time
  <2>2. PICK v \in Int : v = AmountAt(Elements(diagram[r]), t)
    BY <2>1, ElementsAre, AmountIsInt DEF DiagramInv, IsDiagram
  <2>3. ValueAt(r, t) = v
    BY <2>2, ValueIs
  <2>4. ValueAt(r, t)' = AmountAt(Elements(diagram'[r]), t)
    BY DEF ValueAt, AmountAt, Upto
  <2>5. PICK a \in Nat : a = b.amount[r]
    BY <2>1
  <2>6. PICK u : u = sign * b.amount[r]
    OBVIOUS
  <2>7. u \in Int /\ (a = 0 => u = 0)
    BY <2>5, <2>6
  <2>8. ValueAt(r, t)' = v + (IF Entered(b, r, duration, forJob) THEN Taken(b.start, end, u, t)
                                                                  ELSE 0)
    BY <1>2, <2>1, <2>2, <2>4, <2>6
  <2>9. r \in R <=> ~(forJob /\ LeftOut(r, duration))
    OBVIOUS
  <2>10. Entered(b, r, duration, forJob) <=> r \in R /\ a # 0
    BY <2>5, <2>9 DEF Entered
  <2>11. CASE r \in R /\ b.start <= t /\ t < end
    <3>1. a # 0 => ValueAt(r, t)' = v + u
      BY <2>8, <2>10, <2>11 DEF Taken, Within
    <3>2. a = 0 => ValueAt(r, t)' = v + 0
      BY <2>8, <2>10
    <3> QED BY <2>3, <2>6, <2>7, <2>11, <3>1, <3>2
  <2>12. CASE ~(r \in R /\ b.start <= t /\ t < end)
    <3>1. ValueAt(r, t)' = v + 0
      BY <2>8, <2>10, <2>12 DEF Taken, Within
    <3> QED BY <2>3, <2>12, <3>1
  <2> QED BY <2>11, <2>12
<1> QED BY <1>3 DEF Profile!Change, Profile!Time, Time

LEMMA TillIs ==
  ASSUME NEW b PROVE Profile!Till(b) = EndTime(b.start, b.duration)
BY DEF Profile!Till, EndTime

LEMMA StepFollowsProfile ==
  ASSUME DiagramInv, ResourceNext
  PROVE  Profile!Reserve \/ Profile!Run \/ Profile!Decide \/ UNCHANGED diagram
<1>1. ASSUME NEW b \in Booking, AddReservation(b) PROVE Profile!Reserve
  <2>1. Books(b, b.duration, 1, FALSE) /\ b \in Reservation /\ b.duration \in Nat
    BY <1>1, BookingTypes DEF AddReservation, Books
  <2>2. Resource = {r \in Resource : ~(FALSE /\ LeftOut(r, b.duration))}
    OBVIOUS
  <2>3. Profile!Change(Resource, b.start, EndTime(b.start, b.duration), 1, b.amount)
    BY <2>1, <2>2, ProfileChanges
  <2> QED BY <2>1, <2>3, TillIs DEF Profile!Reserve
<1>2. ASSUME NEW b \in Booking, RemoveReservation(b) PROVE Profile!Reserve
  <2>1. Books(b, b.duration, -1, FALSE) /\ b \in Reservation /\ b.duration \in Nat
    BY <1>2, BookingTypes DEF RemoveReservation, Books
  <2>2. Resource = {r \in Resource : ~(FALSE /\ LeftOut(r, b.duration))}
    OBVIOUS
  <2>3. Profile!Change(Resource, b.start, EndTime(b.start, b.duration), -1, b.amount)
    BY <2>1, <2>2, ProfileChanges
  <2> QED BY <2>1, <2>3, TillIs DEF Profile!Reserve
<1>3. ASSUME NEW b \in Booking, AddRunning(b) PROVE Profile!Run
  <2>1. PICK duration :
          duration = IF EndTime(b.start, b.duration) <= Now THEN (Now - b.start) + Interval
                                                            ELSE b.duration
    OBVIOUS
  <2>2. PICK end, R : /\ end = EndTime(b.start, duration)
                      /\ R = {r \in Resource : ~(TRUE /\ LeftOut(r, duration))}
    OBVIOUS
  <2>3. /\ duration \in Nat /\ duration # 0 /\ b.start \in 1..(Infinity - 1)
        /\ IF EndTime(b.start, b.duration) <= Now THEN end > Now ELSE duration = b.duration
    BY <2>1, <2>2, RunningTime, BookingTypes
  <2>4. Books(b, duration, 1, TRUE) /\ b \in RunningJob
    BY <1>3, <2>1, <2>3 DEF AddRunning, Books
  <2>5. Profile!Change(R, b.start, end, 1, b.amount)
    BY <2>2, <2>3, <2>4, ProfileChanges
  <2>6. end \in 1..Infinity
    BY <2>2, <2>3, EndTimeIs
  <2>7. end \in Profile!Time \cup {Infinity} /\ R \in SUBSET Resource
    BY <2>2, <2>6, ResourceAssumption DEF Profile!Time
  <2>8. EndTime(b.start, b.duration) \in Int
    <3>1. EndTime(b.start, b.duration) \in 1..Infinity
      BY BookingTypes, EndTimeIs
    <3> QED BY <3>1
  <2>9. IF Profile!Till(b) > Now THEN end = Profile!Till(b) ELSE end > Now
    BY <2>2, <2>3, <2>8, TillIs, ResourceAssumption
  <2> QED BY <2>4, <2>5, <2>7, <2>9 DEF Profile!Run
<1>4. ASSUME NEW b \in Booking, AddPending(b) PROVE Profile!Decide
  <2>1. Books(b, b.duration, 1, TRUE) /\ b \in PendingJob /\ b.duration \in Nat
    BY <1>4, BookingTypes DEF AddPending, Books
  <2>2. PICK R \in SUBSET Resource : R = {r \in Resource : ~(TRUE /\ LeftOut(r, b.duration))}
    OBVIOUS
  <2>3. Profile!Change(R, b.start, EndTime(b.start, b.duration), 1, b.amount)
    BY <2>1, <2>2, ProfileChanges
  <2> QED BY <2>1, <2>2, <2>3, TillIs DEF Profile!Decide
<1>5. QetiFirst \/ QetiNext => UNCHANGED diagram
  BY DEF QetiFirst, QetiNext, Give
<1> QED BY <1>1, <1>2, <1>3, <1>4, <1>5 DEF ResourceNext

\* At each time as much of a resource is in use as the bookings that were made
\* for this time take: utilization_add() loses nothing of what it overlaps and
\* adds nothing elsewhere.
THEOREM DiagramsKeepProfile == ResourceSpec => KeepsProfile
<1>1. ResourceInit => Profile!Init
  <2> SUFFICES ASSUME ResourceInit PROVE Profile!Init
    OBVIOUS
  <2>1. ASSUME NEW r \in Resource, NEW t \in Time PROVE ValueAt(r, t) = 0
    <3>1. Elements(diagram[r]) = <<>> /\ t \in Int
      BY ElementsAre, ResourceAssumption DEF ResourceInit, Time
    <3> QED BY <3>1, ValueIs, EmptyDiagram
  <2> QED BY <2>1 DEF Profile!Init, Profile!Time, Time
<1>2. UNCHANGED diagram => UNCHANGED [r \in Resource |-> [t \in Time |-> ValueAt(r, t)]]
  BY DEF ValueAt
<1>3. DiagramInv /\ [ResourceNext]_resourceVars
        => [Profile!Reserve \/ Profile!Run \/ Profile!Decide]_
             [r \in Resource |-> [t \in Time |-> ValueAt(r, t)]]
  BY <1>2, StepFollowsProfile DEF resourceVars
<1> QED BY <1>1, <1>3, DiagramInvHolds, PTL DEF ResourceSpec, Profile!Spec, KeepsProfile

-----------------------------------------------------------------------------
(* The iterator                                                              *)

\* The times up to x at which a diagram changes
Changes(x) == {t \in 1..x : \E r \in Resource : Has(Elements(diagram[r]), t)}

\* The references of an iterator that has come down to x
Reach(refs, x) == \A r \in Resource : refs[r] = Upto(Elements(diagram[r]), x)

IteratorInv ==
  /\ last \in 0..Infinity
  /\ last # 0 => Reach(endNext, last - 1)

EndTimes(refs) == {diagram[r][refs[r]].time : r \in {q \in Resource : refs[q] # 0}}

LEMMA ReachedElement ==
  ASSUME DiagramInv, NEW refs, NEW x \in Int, Reach(refs, x), NEW r \in Resource
  PROVE  /\ refs[r] \in 0..Len(Elements(diagram[r])) /\ Len(Elements(diagram[r])) \in Nat
         /\ \A i \in 1..Len(Elements(diagram[r])) :
              i <= refs[r] <=> Elements(diagram[r])[i].time <= x
         /\ refs[r] # 0 => diagram[r] = Elements(diagram[r])
<1>1. Sorted(Elements(diagram[r]))
  BY ElementsAre DEF DiagramInv, IsDiagram
<1>2. IsUpto(Elements(diagram[r]), x, refs[r]) /\ Len(Elements(diagram[r])) \in Nat
  BY <1>1, UptoIs, SortedTypes DEF Reach
<1>3. ASSUME refs[r] # 0 PROVE diagram[r] = Elements(diagram[r])
  <2>1. Len(Elements(diagram[r])) # 0
    BY <1>2, <1>3 DEF IsUpto
  <2> QED BY <2>1 DEF Elements
<1> QED BY <1>2, <1>3 DEF IsUpto

LEMMA MaxEndTimeIs ==
  ASSUME DiagramInv, NEW refs, NEW x \in 0..Infinity, Reach(refs, x)
  PROVE  /\ MaxEndTime(refs) = Max({0} \cup Changes(x))
         /\ MaxEndTime(refs) \in 0..x
<1>0. Infinity \in Nat /\ x \in Nat /\ x <= Infinity
  BY ResourceAssumption
<1>1. PICK S, T : S = {0} \cup EndTimes(refs) /\ T = {0} \cup Changes(x)
  OBVIOUS
<1>2. ASSUME NEW r \in Resource, refs[r] # 0 PROVE diagram[r][refs[r]].time \in Changes(x)
  <2>1. PICK d : d = Elements(diagram[r])
    OBVIOUS
  <2>2. PICK k \in 0..Len(d) : k = refs[r] /\ \A i \in 1..Len(d) : i <= k <=> d[i].time <= x
    BY <1>0, <2>1, ReachedElement
  <2>3. Sorted(d) /\ diagram[r] = d /\ Len(d) \in Nat
    BY <1>0, <1>2, <2>1, ElementsAre, ReachedElement DEF DiagramInv, IsDiagram
  <2>4. k \in 1..Len(d) /\ k <= k
    BY <1>2, <2>2, <2>3
  <2>5. d[k].time \in Nat /\ 1 <= d[k].time /\ d[k].time <= x
    BY <2>2, <2>3, <2>4, SortedTypes
  <2>6. d[k].time \in 1..x /\ Has(d, d[k].time)
    BY <1>0, <2>4, <2>5 DEF Has
  <2> QED BY <2>1, <2>2, <2>3, <2>6 DEF Changes
<1>3. EndTimes(refs) \in SUBSET Changes(x)
  BY <1>2 DEF EndTimes
<1>4. T \in SUBSET Nat /\ T # {} /\ \A y \in T : y <= x
  BY <1>0, <1>1 DEF Changes
<1>5. S \in SUBSET T /\ 0 \in S
  BY <1>1, <1>3
<1>6. Max(T) \in T /\ \A y \in T : y <= Max(T)
  BY <1>0, <1>4, GreatestNumber
<1>7. S \in SUBSET Nat /\ S # {} /\ \A y \in S : y <= x
  BY <1>4, <1>5
<1>8. Max(S) \in S /\ \A y \in S : y <= Max(S)
  BY <1>0, <1>7, GreatestNumber
<1>9. PICK s, t : s = Max(S) /\ t = Max(T)
  OBVIOUS
<1>10. s \in Nat /\ t \in Nat /\ s <= t /\ s <= x
  BY <1>4, <1>5, <1>6, <1>7, <1>8, <1>9
<1>11. t <= s
  <2>1. CASE t = 0
    BY <1>10, <2>1
  <2>2. CASE t # 0
    <3>1. t \in Changes(x)
      BY <1>1, <1>6, <1>9, <2>2
    <3>2. PICK r \in Resource : Has(Elements(diagram[r]), t)
      BY <3>1 DEF Changes
    <3>3. PICK d : d = Elements(diagram[r])
      OBVIOUS
    <3>4. PICK k \in 0..Len(d) : k = refs[r] /\ \A i \in 1..Len(d) : i <= k <=> d[i].time <= x
      BY <1>0, <3>3, ReachedElement
    <3>5. PICK i \in 1..Len(d) : d[i].time = t
      BY <3>2, <3>3 DEF Has
    <3>6. Sorted(d) /\ Len(d) \in Nat /\ t <= x
      BY <1>0, <3>1, <3>3, ElementsAre, SortedTypes DEF DiagramInv, IsDiagram, Changes
    <3>7. i <= k
      BY <3>4, <3>5, <3>6
    <3>8. k \in 1..Len(d) /\ refs[r] # 0 /\ diagram[r] = d
      BY <1>0, <3>3, <3>4, <3>6, <3>7, ReachedElement
    <3>9. d[k].time \in S
      BY <1>1, <3>4, <3>8 DEF EndTimes
    <3>10. i < k => d[i].time < d[k].time
      BY <3>6, <3>8 DEF Sorted
    <3>11. d[k].time \in Nat /\ t <= d[k].time
      BY <1>10, <3>5, <3>6, <3>7, <3>8, <3>10, SortedTypes
    <3>12. d[k].time <= s
      BY <1>8, <1>9, <3>9
    <3> QED BY <1>10, <3>11, <3>12
  <2> QED BY <2>1, <2>2
<1>12. MaxEndTime(refs) = Max(S)
  BY <1>1 DEF MaxEndTime, EndTimes
<1> QED BY <1>0, <1>1, <1>9, <1>10, <1>11, <1>12

LEMMA SwitchToNextReaches ==
  ASSUME DiagramInv, NEW refs, NEW x \in 0..Infinity, Reach(refs, x),
         NEW time \in 1..x
  PROVE  Reach(SwitchToNext(time, refs), time - 1)
<1>0. Infinity \in Nat /\ x \in Nat /\ x <= Infinity /\ time \in Nat /\ 1 <= time /\ time <= x
  BY ResourceAssumption
<1>1. (time - 1) % (Infinity + 1) = time - 1
  BY <1>0
<1> SUFFICES ASSUME NEW r \in Resource
    PROVE  SwitchToNext(time, refs)[r] = Upto(Elements(diagram[r]), time - 1)
  BY DEF Reach
<1>2. PICK d : d = Elements(diagram[r])
  OBVIOUS
<1>3. Sorted(d) /\ Len(d) \in Nat /\ \A i \in 1..Len(d) : d[i].time \in Nat
  BY <1>2, ElementsAre, SortedTypes DEF DiagramInv, IsDiagram
<1>4. PICK k \in 0..Len(d) : k = refs[r] /\ \A i \in 1..Len(d) : i <= k <=> d[i].time <= x
  BY <1>0, <1>2, ReachedElement
<1>5. PICK j \in 0..Len(d) : /\ j = Upto(d, time - 1)
                            /\ \A i \in 1..Len(d) : i <= j <=> d[i].time <= time - 1
  <2>1. PICK y \in Int : y = time - 1
    BY <1>0
  <2>2. IsUpto(d, y, Upto(d, y))
    BY <1>3, UptoIs
  <2> QED BY <2>1, <2>2 DEF IsUpto
<1>6. k # 0 => diagram[r] = d
  BY <1>0, <1>2, <1>4, ReachedElement
<1>7. j <= k
  <2> SUFFICES ASSUME j \in 1..Len(d) PROVE j <= k
    BY <1>3, <1>4, <1>5
  <2>1. d[j].time <= time - 1
    BY <1>3, <1>5
  <2>2. d[j].time <= x
    BY <1>0, <1>3, <2>1
  <2> QED BY <1>4, <2>2
<1>8. PICK S : S = {0} \cup {i \in 1..k : diagram[r][i].time <= time - 1}
  OBVIOUS
<1>9. SwitchToNext(time, refs)[r] = Max(S)
  BY <1>1, <1>4, <1>8 DEF SwitchToNext
<1>10. S = {0} \cup 1..j
  <2>1. ASSUME NEW i \in 1..k PROVE diagram[r][i].time <= time - 1 <=> i <= j
    <3>1. k # 0 /\ i \in 1..Len(d)
      BY <1>3, <1>4
    <3> QED BY <1>5, <1>6, <3>1
  <2>2. {i \in 1..k : diagram[r][i].time <= time - 1} = {i \in 1..k : i <= j}
    BY <2>1
  <2>3. {i \in 1..k : i <= j} = 1..j
    BY <1>3, <1>4, <1>5, <1>7
  <2> QED BY <1>8, <2>2, <2>3
<1>11. S \in SUBSET Nat /\ S # {} /\ j \in Nat /\ j \in S /\ \A y \in S : y <= j
  BY <1>3, <1>5, <1>10
<1>12. Max(S) \in S /\ \A y \in S : y <= Max(S)
  BY <1>11, GreatestNumber
<1>13. PICK m \in Nat : m = Max(S)
  BY <1>11, <1>12
<1>14. m <= j /\ j <= m
  BY <1>11, <1>12, <1>13
<1> QED BY <1>2, <1>5, <1>9, <1>11, <1>13, <1>14

LEMMA GiveReaches ==
  ASSUME DiagramInv, NEW refs, NEW x \in 0..Infinity, Reach(refs, x),
         Give(MaxEndTime(refs), refs)
  PROVE  IteratorInv'
<1>1. PICK time : time = MaxEndTime(refs)
  OBVIOUS
<1>2. time \in 0..x /\ x \in Nat /\ x <= Infinity /\ Infinity \in Nat
  <2>1. time \in 0..x
    BY <1>1, MaxEndTimeIs
  <2>2. Infinity \in Nat
    BY ResourceAssumption
  <2> QED BY <2>1, <2>2
<1>3. last' = time /\ endNext' = SwitchToNext(time, refs) /\ UNCHANGED diagram
  BY <1>1 DEF Give
<1>4. last' \in 0..Infinity
  BY <1>2, <1>3
<1>5. ASSUME time # 0 PROVE Reach(endNext, last - 1)'
  <2>1. time \in 1..x
    BY <1>2, <1>5
  <2>2. Reach(SwitchToNext(time, refs), time - 1)
    BY <2>1, SwitchToNextReaches
  <2> QED BY <1>3, <2>2 DEF Reach
<1> QED BY <1>3, <1>4, <1>5 DEF IteratorInv

LEMMA IteratorInvHolds == ResourceSpec => [](DiagramInv /\ IteratorInv)
<1>1. ResourceInit => IteratorInv
  BY ResourceAssumption DEF ResourceInit, IteratorInv
<1>2. DiagramInv /\ IteratorInv /\ [ResourceNext]_resourceVars => IteratorInv'
  <2> SUFFICES ASSUME DiagramInv, IteratorInv, [ResourceNext]_resourceVars PROVE IteratorInv'
    OBVIOUS
  <2>1. CASE UNCHANGED resourceVars
    BY <2>1 DEF IteratorInv, Reach, resourceVars
  <2>2. ASSUME Released PROVE IteratorInv'
    BY <2>2, ResourceAssumption DEF Released, IteratorInv
  <2>3. ASSUME NEW b \in Booking,
               AddReservation(b) \/ RemoveReservation(b) \/ AddRunning(b) \/ AddPending(b)
        PROVE  Released
    BY <2>3 DEF AddReservation, RemoveReservation, AddRunning, AddPending
  <2>4. CASE QetiFirst
    <3>1. PICK ends : ends = [r \in Resource |-> Len(Elements(diagram[r]))]
      OBVIOUS
    <3>2. Give(MaxEndTime(ends), ends)
      BY <2>4, <3>1 DEF QetiFirst
    <3>3. Infinity \in Nat /\ Infinity \in 0..Infinity
      BY ResourceAssumption
    <3>4. ASSUME NEW r \in Resource PROVE ends[r] = Upto(Elements(diagram[r]), Infinity)
      <4>1. PICK d : d = Elements(diagram[r])
        OBVIOUS
      <4>2. Sorted(d)
        BY <4>1, ElementsAre DEF DiagramInv, IsDiagram
      <4>3. /\ Len(d) \in Nat /\ Len(d) \in 0..Len(d) /\ ~(Len(d) < Len(d))
            /\ Len(d) > 0 => d[Len(d)].time <= Infinity
        BY <4>2, SortedTypes
      <4>4. Upto(d, Infinity) = Len(d)
        BY <3>3, <4>2, <4>3, UptoBetween
      <4> QED BY <3>1, <4>1, <4>4
    <3> QED BY <3>2, <3>3, <3>4, GiveReaches DEF Reach
  <2>5. CASE QetiNext
    <3>1. PICK x \in 0..Infinity : x = last - 1
      BY <2>5, ResourceAssumption DEF QetiNext, IteratorInv
    <3>2. Reach(endNext, x) /\ Give(MaxEndTime(endNext), endNext)
      BY <2>5, <3>1 DEF QetiNext, IteratorInv
    <3> QED BY <3>2, GiveReaches
  <2> QED BY <2>1, <2>2, <2>3, <2>4, <2>5 DEF ResourceNext
<1> QED BY <1>1, <1>2, DiagramInvHolds, PTL DEF ResourceSpec

LEMMA ChangesAre ==
  ASSUME DiagramInv, NEW x
  PROVE  {t \in 1..x : \E r \in Resource : t \in {e.time : e \in ToSet(Elements(diagram[r]))}}
           = Changes(x)
<1>1. ASSUME NEW r \in Resource, NEW t
      PROVE  t \in {e.time : e \in ToSet(Elements(diagram[r]))} <=> Has(Elements(diagram[r]), t)
  <2>1. PICK d : d = Elements(diagram[r])
    OBVIOUS
  <2>2. DOMAIN d = 1..Len(d)
    BY <2>1, ElementsAre, SortedTypes DEF DiagramInv, IsDiagram
  <2> QED BY <2>1, <2>2 DEF ToSet, Has
<1> QED BY <1>1 DEF Changes

\* The iterator passes over no time at which a diagram changes, and comes back
\* to none: sge_qeti_switch_to_next() leaves each reference at the last element
\* before the time that was given.
THEOREM IteratorGivesEachTime == ResourceSpec => []NoTimePassedOver
<1>1. DiagramInv /\ IteratorInv => NoTimePassedOver
  <2> SUFFICES ASSUME DiagramInv, IteratorInv, last # 0
      PROVE  MaxEndTime(endNext) = Max({0} \cup Changes(last - 1))
    BY ChangesAre DEF NoTimePassedOver
  <2>1. PICK x \in 0..Infinity : x = last - 1
    BY ResourceAssumption DEF IteratorInv
  <2>2. Reach(endNext, x)
    BY <2>1 DEF IteratorInv
  <2>3. MaxEndTime(endNext) = Max({0} \cup Changes(x))
    BY <2>2, MaxEndTimeIs
  <2> QED BY <2>1, <2>3
<1> QED BY <1>1, IteratorInvHolds, PTL

-----------------------------------------------------------------------------
(* What the scheduler asks of a diagram                                      *)

LEMMA GreatestValue ==
  ASSUME NEW n \in Nat, NEW f, \A i \in 0..n : f[i] \in Int
  PROVE  \E i \in 0..n : \A j \in 0..n : f[j] <= f[i]
<1> DEFINE Reaches(k) == \E i \in 0..k : \A j \in 0..k : f[j] <= f[i]
           T == {k \in Nat : k <= n /\ ~Reaches(k)}
<1>1. CASE T = {}
  <2>1. n \notin T
    <3> HIDE DEF T
    <3> QED BY <1>1
  <2>2. n <= n
    OBVIOUS
  <2>3. Reaches(n)
    <3> HIDE DEF Reaches
    <3> QED BY <2>1, <2>2
  <2> QED BY <2>3
<1>2. CASE T # {}
  <2>1. T \in SUBSET Nat
    OBVIOUS
  <2>2. PICK k \in T : \A y \in T : k <= y
    BY <1>2, <2>1, LeastNumber
  <2>3. k \in Nat /\ k <= n /\ ~Reaches(k)
    OBVIOUS
  <2>4. CASE k = 0
    <3>1. 0 \in 0..n /\ f[0] \in Int /\ 0..0 = {0}
      OBVIOUS
    <3>2. Reaches(0)
      BY <3>1
    <3> QED BY <2>3, <2>4, <3>2
  <2>5. CASE k # 0
    <3>1. PICK l \in Nat : k = l + 1
      <4>1. k - 1 \in Nat /\ k = (k - 1) + 1
        BY <2>3, <2>5
      <4> QED BY <4>1
    <3>2. l <= n /\ l \notin T
      <4>1. ~(k <= l)
        BY <3>1
      <4> HIDE DEF T
      <4> QED BY <2>2, <2>3, <3>1, <4>1
    <3>3. PICK i \in 0..l : \A j \in 0..l : f[j] <= f[i]
      BY <3>2
    <3>4. /\ i \in 0..k /\ k \in 0..k /\ f[i] \in Int /\ f[k] \in Int
          /\ \A j \in 0..k : (j \in 0..l \/ j = k) /\ f[j] \in Int
      BY <2>3, <3>1
    <3>5. CASE f[k] <= f[i]
      BY <2>3, <3>3, <3>4, <3>5
    <3>6. CASE ~(f[k] <= f[i])
      <4>1. \A j \in 0..k : f[j] <= f[k]
        BY <3>3, <3>4, <3>6
      <4> QED BY <2>3, <3>4, <4>1
    <3> QED BY <3>5, <3>6
  <2> QED BY <2>4, <2>5
<1> QED BY <1>1, <1>2

LEMMA QueueEndIs ==
  ASSUME NEW d, IsDiagram(d)
  PROVE  UtilizationQueueEnd(d) = AmountAt(d, Infinity - 1)
<1>1. Sorted(d) /\ EndsWithZero(d) /\ Infinity \in Nat
  BY ResourceAssumption DEF IsDiagram
<1>2. PICK x \in Int : x = Infinity - 1
  BY <1>1
<1>3. Len(d) \in Nat /\ \A i \in 1..Len(d) : d[i].time \in Nat /\ d[i].time <= Infinity
  BY <1>1, SortedTypes
<1>4. CASE d = <<>>
  <2>1. Upto(d, x) = 0
    <3>1. 0 \in 0..Len(d) /\ ~(0 > 0) /\ ~(0 < Len(d))
      BY <1>4
    <3> QED BY <1>1, <3>1, UptoBetween
  <2> QED BY <1>2, <1>4, <2>1 DEF UtilizationQueueEnd, AmountAt, Level
<1>5. CASE d # <<>>
  <2>1. Len(d) # 0
    BY <1>1, <1>5, EmptySeq DEF Sorted
  <2>2. Len(d) \in 1..Len(d)
    BY <1>3, <2>1
  <2>3. CASE d[Len(d)].time # Infinity
    <3>1. /\ Len(d) \in 0..Len(d) /\ ~(Len(d) < Len(d))
          /\ d[Len(d)].time <= x
      BY <1>1, <1>2, <1>3, <2>2, <2>3
    <3>2. Upto(d, x) = Len(d)
      BY <1>1, <3>1, UptoBetween
    <3> QED BY <1>2, <1>5, <2>1, <2>3, <3>2 DEF UtilizationQueueEnd, AmountAt, Level
  <2>4. CASE d[Len(d)].time = Infinity
    <3>1. PICK k \in 0..Len(d) : k = Len(d) - 1
      <4>1. Len(d) - 1 \in 0..Len(d)
        BY <1>3, <2>1
      <4> QED BY <4>1
    <3>2. k > 0 => d[k].time <= x
      <4> SUFFICES ASSUME k > 0 PROVE d[k].time <= x
        OBVIOUS
      <4>1. k \in 1..Len(d) /\ k < Len(d)
        BY <1>3, <3>1
      <4>2. d[k].time < d[Len(d)].time
        BY <1>1, <2>2, <4>1 DEF Sorted
      <4> QED BY <1>1, <1>2, <1>3, <2>4, <4>1, <4>2
    <3>3. k + 1 = Len(d) /\ x < d[k + 1].time
      BY <1>1, <1>2, <1>3, <2>4, <3>1
    <3>4. Upto(d, x) = k
      BY <1>1, <3>2, <3>3, UptoBetween
    <3> QED BY <1>2, <1>5, <2>4, <3>1, <3>4 DEF UtilizationQueueEnd, AmountAt
  <2> QED BY <2>3, <2>4
<1> QED BY <1>4, <1>5

LEMMA StartElementIs ==
  ASSUME NEW d, Sorted(d), NEW t \in Int
  PROVE  (IF Hit(d, t) THEN Before(d, t) + 1 ELSE Before(d, t)) = Upto(d, t)
<1>1. Len(d) \in Nat /\ \A i \in 1..Len(d) : d[i].time \in Nat
  BY SortedTypes
<1>2. PICK p \in 0..Len(d) : p = Before(d, t) /\ \A i \in 1..Len(d) : i <= p <=> d[i].time < t
  BY BeforeIs
<1>3. CASE Hit(d, t)
  <2>1. p + 1 \in 1..Len(d) /\ d[p + 1].time = t
    BY <1>1, <1>2, <1>3 DEF Hit
  <2>2. Upto(d, t) = p + 1
    BY <2>1, UptoElement
  <2> QED BY <1>2, <1>3, <2>2
<1>4. CASE ~Hit(d, t)
  <2>1. p > 0 => d[p].time <= t
    <3> SUFFICES ASSUME p > 0 PROVE d[p].time <= t
      OBVIOUS
    <3>1. p \in 1..Len(d) /\ p <= p
      BY <1>1
    <3> QED BY <1>1, <1>2, <3>1
  <2>2. p < Len(d) => t < d[p + 1].time
    <3> SUFFICES ASSUME p < Len(d) PROVE t < d[p + 1].time
      OBVIOUS
    <3>1. p + 1 \in 1..Len(d) /\ ~(p + 1 <= p)
      BY <1>1
    <3>2. d[p + 1].time # t
      BY <1>2, <1>4 DEF Hit
    <3> QED BY <1>1, <1>2, <3>1, <3>2
  <2>3. Upto(d, t) = p
    BY <2>1, <2>2, UptoBetween
  <2> QED BY <1>2, <1>4, <2>3
<1> QED BY <1>3, <1>4

\* The levels that count for the use from start till end
LevelsIn(d, start, end) ==
  {Level(d, Upto(d, start))}
    \cup {d[i].amount : i \in {i \in (Upto(d, start) + 1)..Len(d) : d[i].time < end}}

LEMMA LevelsAre ==
  ASSUME NEW d, Sorted(d), NEW start \in Int, NEW end \in Int, start < end
  PROVE  /\ LevelsIn(d, start, end) \in SUBSET Int
         /\ \A t \in Int : start <= t /\ t < end => AmountAt(d, t) \in LevelsIn(d, start, end)
         /\ \A v \in LevelsIn(d, start, end) :
              \E t \in Int : start <= t /\ t < end /\ v = AmountAt(d, t)
<1>1. /\ Len(d) \in Nat
      /\ \A i \in 1..Len(d) : d[i].time \in Nat /\ d[i].amount \in Int /\ AmountAt(d, d[i].time) = d[i].amount
  BY SortedTypes, UptoElement
<1>2. PICK p \in 0..Len(d) : p = Upto(d, start) /\ \A i \in 1..Len(d) : i <= p <=> d[i].time <= start
  BY UptoIs DEF IsUpto
<1>3. PICK I : I = {i \in (p + 1)..Len(d) : d[i].time < end}
  OBVIOUS
<1>4. \A i : i \in I <=> i \in 1..Len(d) /\ p < i /\ d[i].time < end
  BY <1>1, <1>2, <1>3
<1>5. PICK S : S = LevelsIn(d, start, end)
  OBVIOUS
<1>6. \A v : v \in S <=> v = Level(d, p) \/ \E i \in I : v = d[i].amount
  BY <1>2, <1>3, <1>5 DEF LevelsIn
<1>7. AmountAt(d, start) = Level(d, p) /\ AmountAt(d, start) \in Int
  BY <1>2, AmountIsInt DEF AmountAt
<1>8. ASSUME NEW v \in S
      PROVE  v \in Int /\ \E t \in Int : start <= t /\ t < end /\ v = AmountAt(d, t)
  <2>1. CASE v = Level(d, p)
    BY <1>7, <2>1
  <2>2. ASSUME NEW i \in I, v = d[i].amount
        PROVE  v \in Int /\ \E t \in Int : start <= t /\ t < end /\ v = AmountAt(d, t)
    <3>1. i \in 1..Len(d) /\ ~(i <= p) /\ d[i].time < end
      BY <1>1, <1>2, <1>4
    <3>2. d[i].time \in Int /\ start <= d[i].time /\ d[i].amount \in Int
      BY <1>1, <1>2, <3>1
    <3> QED BY <1>1, <2>2, <3>1, <3>2
  <2> QED BY <1>6, <2>1, <2>2
<1>9. ASSUME NEW t \in Int, start <= t, t < end PROVE AmountAt(d, t) \in S
  <2>1. PICK k \in 0..Len(d) : k = Upto(d, t) /\ \A i \in 1..Len(d) : i <= k <=> d[i].time <= t
    BY UptoIs DEF IsUpto
  <2>2. CASE k <= p
    <3>1. ~(k < p)
      <4> SUFFICES ASSUME k < p PROVE FALSE
        OBVIOUS
      <4>1. p \in 1..Len(d) /\ p <= p /\ ~(p <= k)
        BY <1>1
      <4> QED BY <1>1, <1>2, <1>9, <2>1, <4>1
    <3>2. k = p
      BY <1>1, <2>2, <3>1
    <3> QED BY <1>6, <2>1, <3>2 DEF AmountAt
  <2>3. CASE ~(k <= p)
    <3>1. k \in 1..Len(d) /\ k <= k /\ p < k
      BY <1>1, <2>3
    <3>2. d[k].time < end
      BY <1>1, <1>9, <2>1, <3>1
    <3>3. d[k].amount \in S /\ k # 0
      BY <1>4, <1>6, <3>1, <3>2
    <3> QED BY <2>1, <3>3 DEF AmountAt, Level
  <2> QED BY <2>2, <2>3
<1> QED BY <1>5, <1>8, <1>9

LEMMA LevelsHaveMax ==
  ASSUME NEW d, Sorted(d), NEW start \in Int, NEW end \in Int, start < end,
         NEW S, S = LevelsIn(d, start, end)
  PROVE  Max(S) \in S /\ \A y \in S : y <= Max(S)
<1>1. Len(d) \in Nat
  BY SortedTypes
<1>2. PICK p \in 0..Len(d) : p = Upto(d, start)
  BY UptoIs DEF IsUpto
<1>3. PICK I : I = {i \in (p + 1)..Len(d) : d[i].time < end}
  OBVIOUS
<1>4. PICK f : f = [i \in 0..Len(d) |-> IF i \in I THEN d[i].amount ELSE Level(d, p)]
  OBVIOUS
<1>5. \A v : v \in S <=> v = Level(d, p) \/ \E i \in I : v = d[i].amount
  BY <1>2, <1>3 DEF LevelsIn
<1>6. ASSUME NEW i \in 0..Len(d) PROVE f[i] \in S
  BY <1>4, <1>5
<1>7. ASSUME NEW v \in S PROVE \E i \in 0..Len(d) : v = f[i]
  <2>1. p \notin I /\ \A i \in I : i \in 0..Len(d)
    BY <1>1, <1>3
  <2> QED BY <1>4, <1>5, <2>1
<1>8. S \in SUBSET Int
  BY LevelsAre
<1>9. PICK i \in 0..Len(d) : \A j \in 0..Len(d) : f[j] <= f[i]
  BY <1>1, <1>6, <1>8, GreatestValue
<1>10. f[i] \in S /\ \A y \in S : y <= f[i]
  BY <1>6, <1>7, <1>9
<1> QED BY <1>10 DEF Max

LEMMA UtilizationMaxIs ==
  ASSUME NEW d, Sorted(d), NEW start \in 1..(Infinity - 1), NEW duration \in Nat, duration # 0,
         NEW end, end = EndTime(start, duration)
  PROVE  /\ UtilizationMax(d, start, duration) \in Int
         /\ \A t \in Int : start <= t /\ t < end => AmountAt(d, t) <= UtilizationMax(d, start, duration)
         /\ \E t \in Int : start <= t /\ t < end /\ UtilizationMax(d, start, duration) = AmountAt(d, t)
<1>1. start \in Int /\ end \in Int /\ start < end
  <2>1. end \in 1..Infinity /\ start < end
    BY EndTimeIs
  <2> QED BY <2>1
<1>2. PICK S : S = LevelsIn(d, start, end)
  OBVIOUS
<1>3. UtilizationMax(d, start, duration) = Max(S)
  BY <1>1, <1>2, StartElementIs DEF UtilizationMax, LevelsIn
<1>4. Max(S) \in S /\ \A y \in S : y <= Max(S)
  BY <1>1, <1>2, LevelsHaveMax
<1>5. /\ S \in SUBSET Int
      /\ \A t \in Int : start <= t /\ t < end => AmountAt(d, t) \in S
      /\ \A v \in S : \E t \in Int : start <= t /\ t < end /\ v = AmountAt(d, t)
  BY <1>1, <1>2, LevelsAre
<1> QED BY <1>3, <1>4, <1>5

Falls(d, limit) == {i \in 2..Len(d) : d[i].amount <= limit /\ d[i - 1].amount > limit}

\* Behind an element above the limit the amount falls to it.
LEMMA FallBehind ==
  ASSUME NEW d, IsDiagram(d), NEW limit \in Nat, NEW i \in 1..Len(d), d[i].amount > limit
  PROVE  \E m \in Falls(d, limit) : i < m
<1>1. Sorted(d) /\ EndsWithZero(d)
  BY DEF IsDiagram
<1>2. Len(d) \in Nat /\ \A j \in 1..Len(d) : d[j].amount \in Int
  BY <1>1, SortedTypes
<1>3. d # <<>> /\ Len(d) \in 1..Len(d)
  <2>1. Len(d) # 0
    BY <1>2
  <2> QED BY <1>2, <2>1
<1>4. d[Len(d)].amount = 0
  BY <1>1, <1>3 DEF EndsWithZero
<1>5. PICK S : S = {j \in 1..Len(d) : d[j].amount > limit}
  OBVIOUS
<1>6. S \in SUBSET Nat /\ i \in S /\ S # {} /\ \A j \in S : j <= Len(d)
  BY <1>2, <1>5
<1>7. Max(S) \in S /\ \A j \in S : j <= Max(S)
  BY <1>2, <1>6, GreatestNumber
<1>8. PICK h \in S : h = Max(S)
  BY <1>7
<1>9. h \in 1..Len(d) /\ d[h].amount > limit /\ i <= h
  BY <1>5, <1>6, <1>7, <1>8
<1>10. h # Len(d)
  BY <1>4, <1>9
<1>11. PICK m \in 2..Len(d) : m = h + 1
  BY <1>2, <1>9, <1>10
<1>12. m - 1 = h /\ m \in 1..Len(d) /\ ~(m <= h) /\ i < m
  BY <1>2, <1>9, <1>11
<1>13. m \notin S
  BY <1>7, <1>8, <1>12
<1>14. d[m].amount <= limit
  BY <1>2, <1>5, <1>12, <1>13
<1> QED BY <1>9, <1>12, <1>14 DEF Falls

LEMMA UtilizationBelowIs ==
  ASSUME NEW d, IsDiagram(d), NEW limit \in Nat,
         NEW w, w = UtilizationBelow(d, limit)
  PROVE  /\ w \in Nat /\ w <= Infinity
         /\ \A t \in Nat : w <= t => AmountAt(d, t) <= limit
         /\ w # 0 => 1 < w /\ AmountAt(d, w - 1) > limit
<1>1. Sorted(d) /\ Infinity \in Nat
  BY ResourceAssumption DEF IsDiagram
<1>2. Len(d) \in Nat /\ \A j \in 1..Len(d) : /\ d[j].amount \in Int /\ d[j].time \in Nat
                                            /\ 1 <= d[j].time /\ d[j].time <= Infinity
  BY <1>1, SortedTypes
<1>3. PICK F : F = Falls(d, limit)
  OBVIOUS
<1>4. w = IF F = {} THEN 0 ELSE d[Max(F)].time
  BY <1>3 DEF UtilizationBelow, Falls
<1>5. ASSUME NEW t \in Nat, AmountAt(d, t) > limit
      PROVE  \E m \in F : m > Upto(d, t)
  <2>1. PICK k \in 0..Len(d) : k = Upto(d, t)
    BY <1>1, UptoIs DEF IsUpto
  <2>2. k # 0
    BY <1>5, <2>1 DEF AmountAt, Level
  <2>3. k \in 1..Len(d) /\ d[k].amount > limit
    BY <1>2, <1>5, <2>1, <2>2 DEF AmountAt, Level
  <2>4. PICK m \in F : k < m
    BY <1>3, <2>3, FallBehind
  <2>5. m \in Nat
    BY <1>3 DEF Falls
  <2> QED BY <2>1, <2>4, <2>5
<1>6. CASE F = {}
  <2>1. ASSUME NEW t \in Nat PROVE AmountAt(d, t) <= limit
    <3>1. AmountAt(d, t) \in Int
      BY <1>1, AmountIsInt
    <3> QED BY <1>5, <1>6, <3>1
  <2> QED BY <1>1, <1>4, <1>6, <2>1
<1>7. CASE F # {}
  <2>1. F \in SUBSET Nat /\ \A m \in F : m <= Len(d)
    BY <1>2, <1>3 DEF Falls
  <2>2. Max(F) \in F /\ \A m \in F : m <= Max(F)
    BY <1>2, <1>7, <2>1, GreatestNumber
  <2>3. PICK m \in F : m = Max(F)
    BY <2>2
  <2>4. m \in 2..Len(d) /\ d[m - 1].amount > limit
    BY <1>3, <2>3 DEF Falls
  <2>5. PICK n \in 1..Len(d) : n = m - 1
    BY <1>2, <2>4
  <2>6. /\ m \in 1..Len(d) /\ n + 1 = m /\ n < m /\ m \in Int /\ w = d[m].time
        /\ d[n].amount > limit
    BY <1>2, <1>4, <1>7, <2>3, <2>4, <2>5
  <2>7. d[n].time < d[m].time
    BY <1>1, <2>6 DEF Sorted
  <2>8. w \in Nat /\ 1 < w /\ w <= Infinity
    BY <1>2, <2>6, <2>7
  <2>9. ASSUME NEW t \in Nat, w <= t PROVE AmountAt(d, t) <= limit
    <3>1. AmountAt(d, t) \in Int
      BY <1>1, AmountIsInt
    <3>2. PICK k \in 0..Len(d) : k = Upto(d, t) /\ \A i \in 1..Len(d) : i <= k <=> d[i].time <= t
      <4>1. t \in Int
        OBVIOUS
      <4> QED BY <1>1, <4>1, UptoIs DEF IsUpto
    <3>3. m <= k
      <4>1. m \in 1..Len(d) /\ d[m].time <= t
        BY <2>6, <2>9
      <4> QED BY <3>2, <4>1
    <3>4. ASSUME NEW j \in F PROVE ~(j > k)
      <4>1. j \in Nat /\ j <= m
        BY <2>1, <2>2, <2>3
      <4> QED BY <1>2, <2>6, <3>3, <4>1
    <3> QED BY <1>5, <3>1, <3>2, <3>4
  <2>10. AmountAt(d, w - 1) > limit
    <3>1. PICK y \in Int : y = w - 1
      BY <2>8
    <3>2. n \in 0..Len(d) /\ n > 0 /\ d[n].time <= y /\ y < d[n + 1].time
      BY <1>2, <2>5, <2>6, <2>7, <2>8, <3>1
    <3>3. Upto(d, y) = n
      BY <1>1, <3>2, UptoBetween
    <3> QED BY <2>6, <3>1, <3>2, <3>3 DEF AmountAt, Level
  <2> QED BY <2>8, <2>9, <2>10
<1> QED BY <1>6, <1>7

-----------------------------------------------------------------------------
(* No diagram goes below zero                                                *)

\* What a reservation takes at a time
Share(b, r, t) == Taken(b.start, EndTime(b.start, b.duration), b.amount[r], t)

\* F tells for each part of B how much it takes at a time.
PartsAddUp(F, B, r, t) ==
  \A T \in SUBSET B : \A b \in T : F[T] = F[T \ {b}] + Share(b, r, t)

AddsUp(F, r, t) ==
  F[booked] = AmountAt(Elements(diagram[r]), t) /\ PartsAddUp(F, booked, r, t)

\* Only what was booked is removed, and nothing is once jobs are entered.
SumInv ==
  /\ \A r \in Resource, t \in Int : AmountAt(Elements(diagram[r]), t) \in Nat
  /\ whose = "qmaster" =>
       /\ booked \in SUBSET Reservation
       /\ \A r \in Resource, t \in Int : \E F \in [SUBSET booked -> Nat] : AddsUp(F, r, t)

LEMMA ShareIs ==
  ASSUME NEW b \in Booking, NEW r \in Resource, NEW t PROVE Share(b, r, t) \in Nat
<1>1. b.amount[r] \in Nat
  BY BookingTypes
<1> QED BY <1>1 DEF Share, Taken

\* The amounts after a booking of the qmaster
LEMMA ReservationTakes ==
  ASSUME DiagramInv, NEW b \in Reservation, NEW sign \in {1, -1},
         Debit(b, b.start, b.duration, sign, FALSE),
         NEW r \in Resource, NEW t \in Int, NEW v \in Int, v = AmountAt(Elements(diagram[r]), t)
  PROVE  AmountAt(Elements(diagram'[r]), t) = v + sign * Share(b, r, t)
<1>1. /\ b \in Booking /\ b.start \in 1..(Infinity - 1) /\ b.duration \in Nat /\ b.duration # 0
      /\ b.amount[r] \in Nat
  <2>1. b \in Booking
    BY DEF Booking
  <2> QED BY <2>1, BookingTypes
<1>2. PICK end, a : end = EndTime(b.start, b.duration) /\ a = b.amount[r]
  OBVIOUS
<1>3. PICK u : u = sign * a
  OBVIOUS
<1>4. AmountAt(Elements(diagram'[r]), t)
        = v + (IF Entered(b, r, b.duration, FALSE) THEN Taken(b.start, end, u, t) ELSE 0)
  <2>1. PICK forJob \in BOOLEAN : forJob = FALSE
    OBVIOUS
  <2>2. Debit(b, b.start, b.duration, sign, forJob)
    BY <2>1
  <2>3. \A q \in Resource : \A x \in Int :
          AmountAt(Elements(diagram'[q]), x) =
            AmountAt(Elements(diagram[q]), x)
              + (IF Entered(b, q, b.duration, forJob)
                   THEN Taken(b.start, EndTime(b.start, b.duration), sign * b.amount[q], x) ELSE 0)
    BY <1>1, <2>2, DebitIs
  <2> QED BY <1>2, <1>3, <2>1, <2>3
<1>5. Entered(b, r, b.duration, FALSE) <=> a # 0
  BY <1>2 DEF Entered
<1>6. a \in Nat /\ u \in Int /\ (a = 0 => u = 0) /\ sign * 0 = 0
  BY <1>1, <1>2, <1>3
<1>7. Share(b, r, t) = IF Within(b.start, end, t) THEN a ELSE 0
  BY <1>2 DEF Share, Taken
<1>8. CASE Within(b.start, end, t)
  <2>1. AmountAt(Elements(diagram'[r]), t) = v + u
    BY <1>4, <1>5, <1>6, <1>8 DEF Taken
  <2> QED BY <1>3, <1>7, <1>8, <2>1
<1>9. CASE ~Within(b.start, end, t)
  <2>1. AmountAt(Elements(diagram'[r]), t) = v + 0
    BY <1>4, <1>9 DEF Taken
  <2> QED BY <1>6, <1>7, <1>9, <2>1
<1> QED BY <1>8, <1>9

LEMMA OneMoreAddsUp ==
  ASSUME NEW B \in SUBSET Booking, NEW b \in Booking \ B, NEW r \in Resource, NEW t,
         NEW F \in [SUBSET B -> Nat], PartsAddUp(F, B, r, t)
  PROVE  \E G \in [SUBSET (B \cup {b}) -> Nat] :
           G[B \cup {b}] = F[B] + Share(b, r, t) /\ PartsAddUp(G, B \cup {b}, r, t)
<1> DEFINE C == B \cup {b}
           G == [T \in SUBSET C |-> IF b \in T THEN F[T \ {b}] + Share(b, r, t) ELSE F[T]]
<1>1. PICK s \in Nat : s = Share(b, r, t)
  BY ShareIs
<1>2. \A c \in C : c \in Booking /\ Share(c, r, t) \in Nat
  BY ShareIs
<1>3. ASSUME NEW T \in SUBSET C, b \in T
      PROVE  T \ {b} \in SUBSET B /\ F[T \ {b}] \in Nat /\ G[T] = F[T \ {b}] + s
  <2>1. T \ {b} \in SUBSET B
    OBVIOUS
  <2>2. F[T \ {b}] \in Nat
    BY <2>1
  <2> QED BY <1>1, <1>3, <2>1, <2>2
<1>4. ASSUME NEW T \in SUBSET C, b \notin T
      PROVE  T \in SUBSET B /\ F[T] \in Nat /\ G[T] = F[T]
  <2>1. T \in SUBSET B
    BY <1>4
  <2>2. F[T] \in Nat
    BY <2>1
  <2> QED BY <1>4, <2>1, <2>2
<1>5. G \in [SUBSET C -> Nat]
  <2>1. ASSUME NEW T \in SUBSET C PROVE G[T] \in Nat
    <3>1. CASE b \in T
      <4>1. PICK n \in Nat : n = F[T \ {b}]
        BY <1>3, <3>1
      <4>2. G[T] = n + s
        BY <1>3, <3>1, <4>1
      <4> HIDE DEF G
      <4> QED BY <4>2
    <3>2. CASE b \notin T
      BY <1>4, <3>2
    <3> QED BY <3>1, <3>2
  <2> QED BY <2>1
<1>6. G[C] = F[B] + s
  <2>1. C \in SUBSET C /\ b \in C /\ C \ {b} = B
    OBVIOUS
  <2> HIDE DEF C, G
  <2> QED BY <1>3, <2>1
<1>7. ASSUME NEW T \in SUBSET C, NEW c \in T PROVE G[T] = G[T \ {c}] + Share(c, r, t)
  <2>0. T \ {c} \in SUBSET C /\ c \in C
    OBVIOUS
  <2>1. PICK x \in Nat : x = Share(c, r, t)
    BY <1>2, <2>0
  <2>2. CASE b \notin T
    <3>1. G[T] = F[T] /\ T \in SUBSET B
      BY <1>4, <2>2
    <3>2. b \notin T \ {c}
      BY <2>2
    <3>3. G[T \ {c}] = F[T \ {c}]
      BY <1>4, <2>0, <3>2
    <3> QED BY <3>1, <3>3 DEF PartsAddUp
  <2>3. CASE b \in T /\ c = b
    <3>1. G[T] = F[T \ {b}] + s
      BY <1>3, <2>3
    <3>2. G[T \ {b}] = F[T \ {b}]
      BY <1>4, <2>0, <2>3
    <3> QED BY <1>1, <2>3, <3>1, <3>2
  <2>4. CASE b \in T /\ c # b
    <3>1. G[T] = F[T \ {b}] + s /\ T \ {b} \in SUBSET B
      BY <1>3, <2>4
    <3>2. b \in T \ {c}
      BY <2>4
    <3>3. G[T \ {c}] = F[(T \ {c}) \ {b}] + s /\ F[(T \ {c}) \ {b}] \in Nat
      BY <1>3, <2>0, <3>2
    <3>4. (T \ {c}) \ {b} = (T \ {b}) \ {c} /\ c \in T \ {b}
      BY <2>4
    <3>5. F[T \ {b}] = F[(T \ {b}) \ {c}] + x
      BY <2>1, <3>1, <3>4 DEF PartsAddUp
    <3>6. PICK y \in Nat : y = F[(T \ {c}) \ {b}]
      BY <3>3
    <3>7. G[T] = (y + x) + s /\ G[T \ {c}] = y + s
      BY <3>1, <3>3, <3>4, <3>5, <3>6
    <3> QED BY <2>1, <3>7
  <2> QED BY <2>2, <2>3, <2>4
<1>8. PartsAddUp(G, C, r, t)
  <2> HIDE DEF C, G
  <2> QED BY <1>7 DEF PartsAddUp
<1> HIDE DEF G
<1> QED BY <1>1, <1>5, <1>6, <1>8

LEMMA ReserveKeepsSum ==
  ASSUME DiagramInv, SumInv, NEW b \in Reservation,
         AddReservation(b) \/ RemoveReservation(b)
  PROVE  SumInv'
<1>0. b \in Booking /\ booked \in SUBSET Reservation /\ booked \in SUBSET Booking
  BY DEF Booking, SumInv, AddReservation, RemoveReservation
<1>1. ASSUME NEW r \in Resource, NEW t \in Int
      PROVE  /\ AmountAt(Elements(diagram'[r]), t) \in Nat
             /\ \E F \in [SUBSET booked' -> Nat] : AddsUp(F, r, t)'
  <2>1. PICK v \in Nat : v = AmountAt(Elements(diagram[r]), t)
    BY DEF SumInv
  <2>2. PICK F \in [SUBSET booked -> Nat] :
          F[booked] = v /\ PartsAddUp(F, booked, r, t)
    BY <2>1 DEF SumInv, AddReservation, RemoveReservation, AddsUp
  <2>3. PICK s \in Nat : s = Share(b, r, t)
    BY <1>0, ShareIs
  <2>4. CASE AddReservation(b)
    <3>1. /\ Debit(b, b.start, b.duration, 1, FALSE) /\ b \in Booking \ booked
          /\ booked' = booked \cup {b}
      BY <1>0, <2>4 DEF AddReservation
    <3>2. AmountAt(Elements(diagram'[r]), t) = v + 1 * Share(b, r, t)
      <4>1. 1 \in {1, -1} /\ v \in Int
        OBVIOUS
      <4>2. Debit(b, b.start, b.duration, 1, FALSE)
        BY <3>1
      <4> QED BY <2>1, <4>1, <4>2, ReservationTakes
    <3>3. AmountAt(Elements(diagram'[r]), t) = v + s
      BY <2>3, <3>2
    <3>4. PICK B : B = booked
      OBVIOUS
    <3>5. PICK G \in [SUBSET (B \cup {b}) -> Nat] :
            G[B \cup {b}] = F[B] + Share(b, r, t) /\ PartsAddUp(G, B \cup {b}, r, t)
      <4>1. B \in SUBSET Booking /\ b \in Booking \ B /\ F \in [SUBSET B -> Nat]
        BY <1>0, <3>1, <3>4
      <4>2. PartsAddUp(F, B, r, t)
        BY <2>2, <3>4
      <4> QED BY <4>1, <4>2, OneMoreAddsUp
    <3>6. G \in [SUBSET booked' -> Nat] /\ AddsUp(G, r, t)'
      BY <2>2, <2>3, <3>1, <3>3, <3>4, <3>5 DEF AddsUp, PartsAddUp, Share
    <3> QED BY <3>3, <3>6
  <2>5. CASE RemoveReservation(b)
    <3>1. /\ Debit(b, b.start, b.duration, -1, FALSE) /\ b \in booked
          /\ booked' = booked \ {b}
      BY <2>5 DEF RemoveReservation
    <3>2. AmountAt(Elements(diagram'[r]), t) = v + (-1) * Share(b, r, t)
      <4>1. -1 \in {1, -1} /\ v \in Int
        OBVIOUS
      <4>2. Debit(b, b.start, b.duration, -1, FALSE)
        BY <3>1
      <4> QED BY <2>1, <4>1, <4>2, ReservationTakes
    <3>3. booked \ {b} \in SUBSET booked /\ booked \in SUBSET booked
      OBVIOUS
    <3>4. PICK n \in Nat : n = F[booked \ {b}]
      BY <3>3
    <3>5. v = n + s
      BY <2>2, <2>3, <3>1, <3>3, <3>4 DEF PartsAddUp
    <3>6. AmountAt(Elements(diagram'[r]), t) = n
      BY <2>3, <3>2, <3>5
    <3>7. PICK G : G = [T \in SUBSET (booked \ {b}) |-> F[T]]
      OBVIOUS
    <3>8. \A T \in SUBSET (booked \ {b}) : T \in SUBSET booked /\ F[T] \in Nat /\ G[T] = F[T]
      BY <3>7
    <3>9. G \in [SUBSET (booked \ {b}) -> Nat]
      BY <3>7, <3>8
    <3>10. ASSUME NEW T \in SUBSET (booked \ {b}), NEW c \in T
           PROVE  G[T] = G[T \ {c}] + Share(c, r, t)
      <4>1. T \ {c} \in SUBSET (booked \ {b}) /\ T \in SUBSET booked
        OBVIOUS
      <4>2. F[T] = F[T \ {c}] + Share(c, r, t)
        BY <2>2, <4>1 DEF PartsAddUp
      <4> QED BY <3>8, <4>1, <4>2
    <3>11. G[booked \ {b}] = n
      BY <3>4, <3>7
    <3>12. G \in [SUBSET booked' -> Nat] /\ AddsUp(G, r, t)'
      BY <3>1, <3>6, <3>9, <3>10, <3>11 DEF AddsUp, PartsAddUp, Share
    <3> QED BY <3>6, <3>12
  <2> QED BY <2>4, <2>5
<1>2. booked' \in SUBSET Reservation
  BY <1>0 DEF AddReservation, RemoveReservation
<1> QED BY <1>1, <1>2 DEF SumInv

LEMMA JobKeepsSum ==
  ASSUME DiagramInv, SumInv, NEW b \in Booking, NEW duration \in Nat,
         Books(b, duration, 1, TRUE), whose' # "qmaster"
  PROVE  SumInv'
<1>1. duration # 0 /\ b.start \in 1..(Infinity - 1) /\ Debit(b, b.start, duration, 1, TRUE)
  BY BookingTypes DEF Books
<1>2. PICK forJob \in BOOLEAN : forJob = TRUE
  OBVIOUS
<1>3. Debit(b, b.start, duration, 1, forJob)
  BY <1>1, <1>2
<1>4. \A r \in Resource : \A t \in Int :
        AmountAt(Elements(diagram'[r]), t) =
          AmountAt(Elements(diagram[r]), t)
            + (IF Entered(b, r, duration, forJob)
                 THEN Taken(b.start, EndTime(b.start, duration), 1 * b.amount[r], t) ELSE 0)
  BY <1>1, <1>3, DebitIs
<1>5. ASSUME NEW r \in Resource, NEW t \in Int
      PROVE  AmountAt(Elements(diagram'[r]), t) \in Nat
  <2>1. PICK v \in Nat : v = AmountAt(Elements(diagram[r]), t)
    BY DEF SumInv
  <2>2. PICK a \in Nat : a = 1 * b.amount[r]
    BY BookingTypes
  <2>3. AmountAt(Elements(diagram'[r]), t) =
          v + (IF Entered(b, r, duration, forJob)
                 THEN Taken(b.start, EndTime(b.start, duration), a, t) ELSE 0)
    BY <1>4, <2>1, <2>2
  <2> QED BY <2>3 DEF Taken
<1> QED BY <1>5 DEF SumInv

LEMMA SumInvHolds == ResourceSpec => [](DiagramInv /\ SumInv)
<1>1. ResourceInit => SumInv
  <2> SUFFICES ASSUME ResourceInit PROVE SumInv
    OBVIOUS
  <2>1. booked = {} /\ \A r \in Resource : diagram[r] = NoDiagram
    BY DEF ResourceInit
  <2>2. ASSUME NEW r \in Resource, NEW t \in Int
        PROVE  /\ AmountAt(Elements(diagram[r]), t) = 0
               /\ \E F \in [SUBSET booked -> Nat] : AddsUp(F, r, t)
    <3>1. AmountAt(Elements(diagram[r]), t) = 0
      BY <2>1, ElementsAre, EmptyDiagram
    <3>2. PICK F : F = [T \in SUBSET booked |-> 0]
      OBVIOUS
    <3>3. F \in [SUBSET booked -> Nat] /\ booked \in SUBSET booked /\ F[booked] = 0
      BY <3>2
    <3>4. \A T \in SUBSET booked : \A b \in T : FALSE
      BY <2>1
    <3>5. AddsUp(F, r, t)
      BY <3>1, <3>3, <3>4 DEF AddsUp, PartsAddUp
    <3> QED BY <3>1, <3>3, <3>5
  <2>3. booked \in SUBSET Reservation
    BY <2>1
  <2>4. \A r \in Resource, t \in Int : AmountAt(Elements(diagram[r]), t) \in Nat
    BY <2>2
  <2>5. \A r \in Resource, t \in Int : \E F \in [SUBSET booked -> Nat] : AddsUp(F, r, t)
    BY <2>2
  <2> QED BY <2>3, <2>4, <2>5 DEF SumInv
<1>2. DiagramInv /\ SumInv /\ [ResourceNext]_resourceVars => SumInv'
  <2> SUFFICES ASSUME DiagramInv, SumInv, [ResourceNext]_resourceVars PROVE SumInv'
    OBVIOUS
  <2>1. CASE UNCHANGED resourceVars
    BY <2>1 DEF SumInv, AddsUp, PartsAddUp, Share, resourceVars
  <2>2. ASSUME NEW b \in Booking, AddReservation(b) \/ RemoveReservation(b) PROVE SumInv'
    <3>1. b \in Reservation
      BY <2>2 DEF AddReservation, RemoveReservation
    <3> QED BY <2>2, <3>1, ReserveKeepsSum
  <2>3. ASSUME NEW b \in Booking, AddRunning(b) PROVE SumInv'
    <3>1. PICK duration :
            duration = IF EndTime(b.start, b.duration) <= Now THEN (Now - b.start) + Interval
                                                              ELSE b.duration
      OBVIOUS
    <3>2. duration \in Nat /\ duration # 0
      BY <3>1, RunningTime
    <3>3. Debit(b, b.start, duration, 1, TRUE) /\ whose' # "qmaster"
      BY <2>3, <3>1 DEF AddRunning
    <3>4. Books(b, duration, 1, TRUE)
      BY <3>2, <3>3 DEF Books
    <3> QED BY <3>2, <3>3, <3>4, JobKeepsSum
  <2>4. ASSUME NEW b \in Booking, AddPending(b) PROVE SumInv'
    <3>1. Books(b, b.duration, 1, TRUE) /\ b.duration \in Nat /\ whose' # "qmaster"
      BY <2>4, BookingTypes DEF AddPending, Books
    <3> QED BY <3>1, JobKeepsSum
  <2>5. CASE QetiFirst \/ QetiNext
    <3>1. UNCHANGED diagram /\ whose' = "scheduling"
      BY <2>5 DEF QetiFirst, QetiNext, Give
    <3> QED BY <3>1 DEF SumInv
  <2> QED BY <2>1, <2>2, <2>3, <2>4, <2>5 DEF ResourceNext
<1> QED BY <1>1, <1>2, DiagramInvHolds, PTL DEF ResourceSpec

-----------------------------------------------------------------------------
(* The answers to the scheduler                                              *)

LEMMA TimeBySlotsIs ==
  ASSUME NEW r, NEW request, NEW start, NEW duration,
         NEW d, d = Elements(diagram[r]), NEW w, w = UtilizationBelow(d, Total[r] - request),
         NEW a, a = TimeBySlots(r, request, start, duration)
  PROVE  /\ start = QueueEnd =>
              a = IF request > Total[r]
                    THEN [result |-> "never", start |-> start]
                    ELSE [result |-> "ok", start |-> IF w = 0 THEN Now ELSE w]
         /\ start # QueueEnd =>
              a = IF request <= Total[r] - UtilizationMax(d, start, duration)
                    THEN [result |-> "ok", start |-> start]
                  ELSE IF request > Total[r] - UtilizationQueueEnd(d)
                    THEN [result |-> "never", start |-> start]
                    ELSE [result |-> "later", start |-> start]
BY DEF TimeBySlots

LEMMA FitsIs ==
  ASSUME DiagramInv, NEW r \in Resource, NEW d, d = Elements(diagram[r]),
         NEW request, NEW start, NEW duration
  PROVE  Fits(r, request, start, duration) <=>
           \A t \in Time : start <= t /\ t < EndTime(start, duration)
                             => AmountAt(d, t) + request <= Total[r]
BY ValueIs DEF Fits

\* From the end of the queue's use on
LEMMA QueueEndAnswer ==
  ASSUME DiagramInv, SumInv, NEW r \in Resource, NEW duration, NEW request \in Nat,
         NEW a, a = TimeBySlots(r, request, QueueEnd, duration)
  PROVE  \/ a.result = "never" /\ ValueAt(r, Infinity - 1) + request > Total[r]
         \/ /\ a.result = "ok" /\ Fits(r, request, a.start, Infinity)
            /\ a.start > Now => ~Fits(r, request, a.start - 1, 1)
<1>1. PICK d : d = Elements(diagram[r])
  OBVIOUS
<1>2. IsDiagram(d) /\ Sorted(d)
  BY <1>1, ElementsAre DEF DiagramInv, IsDiagram
<1>3. PICK total \in Nat : total = Total[r]
  BY ResourceAssumption
<1>4. PICK w : w = UtilizationBelow(d, total - request)
  OBVIOUS
<1>5. a = IF request > total
            THEN [result |-> "never", start |-> QueueEnd]
            ELSE [result |-> "ok", start |-> IF w = 0 THEN Now ELSE w]
  BY <1>1, <1>3, <1>4, TimeBySlotsIs
<1>6. Infinity \in Nat /\ Now \in Nat /\ 1 <= Now /\ Now < Infinity
  BY ResourceAssumption
<1>7. CASE request > total
  <2>1. PICK x \in Int : x = Infinity - 1
    BY <1>6
  <2>2. ValueAt(r, Infinity - 1) \in Nat
    BY <2>1, ValueIs DEF SumInv
  <2> QED BY <1>3, <1>5, <1>7, <2>2
<1>8. CASE ~(request > total)
  <2>1. PICK limit \in Nat : limit = total - request
    BY <1>8
  <2>2. /\ w \in Nat /\ w <= Infinity
        /\ \A t \in Nat : w <= t => AmountAt(d, t) <= limit
        /\ w # 0 => 1 < w /\ AmountAt(d, w - 1) > limit
    BY <1>2, <1>4, <2>1, UtilizationBelowIs
  <2>3. PICK s \in Nat : s = IF w = 0 THEN Now ELSE w
    BY <1>6, <2>2
  <2>4. a = [result |-> "ok", start |-> s]
    BY <1>5, <1>8, <2>3
  <2>5. Fits(r, request, s, Infinity)
    <3> SUFFICES ASSUME NEW t \in Time, s <= t PROVE AmountAt(d, t) + request <= total
      BY <1>1, <1>3, FitsIs
    <3>1. t \in Nat /\ w <= t
      BY <1>6, <2>2, <2>3 DEF Time
    <3>2. AmountAt(d, t) <= limit /\ AmountAt(d, t) \in Int
      BY <1>2, <2>2, <3>1, AmountIsInt
    <3> QED BY <2>1, <3>2
  <2>6. ASSUME s > Now PROVE ~Fits(r, request, s - 1, 1)
    <3>1. w # 0 /\ s = w
      BY <1>6, <2>3, <2>6
    <3>2. PICK t \in Nat : t = w - 1
      BY <2>2, <3>1
    <3>3. t \in Time /\ t = s - 1 /\ t <= t
      BY <1>6, <2>2, <3>1, <3>2 DEF Time
    <3>4. t < EndTime(t, 1)
      BY <1>6, <2>2, <3>2 DEF EndTime
    <3>5. AmountAt(d, t) \in Int /\ AmountAt(d, t) > limit
      BY <1>2, <2>2, <3>1, <3>2, AmountIsInt
    <3>6. ~(AmountAt(d, t) + request <= total)
      BY <2>1, <3>5
    <3> QED BY <1>1, <1>3, <3>3, <3>4, <3>6, FitsIs
  <2>7. a.result = "ok" /\ a.start = s
    BY <2>4
  <2> QED BY <2>5, <2>6, <2>7
<1> QED BY <1>7, <1>8

\* At another time
LEMMA TimeAnswer ==
  ASSUME DiagramInv, NEW r \in Resource, NEW start \in Now..(QueueEnd - 1),
         NEW duration \in Nat, duration # 0, NEW request \in Nat,
         NEW a, a = TimeBySlots(r, request, start, duration)
  PROVE  \/ a.result = "never" /\ ValueAt(r, Infinity - 1) + request > Total[r]
         \/ a.result = "ok" /\ Fits(r, request, start, duration)
         \/ /\ a.result = "later" /\ ~Fits(r, request, start, duration)
            /\ \E t \in Time : t > start /\ Fits(r, request, t, duration)
<1>1. PICK d : d = Elements(diagram[r])
  OBVIOUS
<1>2. IsDiagram(d) /\ Sorted(d)
  BY <1>1, ElementsAre DEF DiagramInv, IsDiagram
<1>3. PICK total \in Nat : total = Total[r]
  BY ResourceAssumption
<1>4. /\ Infinity \in Nat /\ Now \in Nat /\ 1 <= Now /\ QueueEnd \in Nat /\ QueueEnd < Infinity
      /\ start \in Nat /\ start < QueueEnd /\ start # QueueEnd
  BY ResourceAssumption
<1>5. PICK latest \in Int : latest = Infinity - 1
  BY <1>4
<1>6. start \in 1..(Infinity - 1) /\ start < latest /\ latest \in Time
  BY <1>4, <1>5 DEF Time
<1>7. PICK m, e : m = UtilizationMax(d, start, duration) /\ e = UtilizationQueueEnd(d)
  OBVIOUS
<1>8. a = IF request <= total - m THEN [result |-> "ok", start |-> start]
          ELSE IF request > total - e THEN [result |-> "never", start |-> start]
          ELSE [result |-> "later", start |-> start]
  BY <1>1, <1>3, <1>4, <1>7, TimeBySlotsIs
<1>9. e = AmountAt(d, latest) /\ e \in Int /\ ValueAt(r, Infinity - 1) = e
  BY <1>1, <1>2, <1>5, <1>7, QueueEndIs, AmountIsInt, ValueIs
<1>10. PICK end : end = EndTime(start, duration)
  OBVIOUS
<1>11. end \in Int /\ end <= Infinity /\ start < end
  <2>1. end \in 1..Infinity /\ start < end
    BY <1>6, <1>10, EndTimeIs
  <2> QED BY <1>4, <2>1
<1>12. /\ m \in Int
       /\ \A t \in Int : start <= t /\ t < end => AmountAt(d, t) <= m
       /\ \E t \in Int : start <= t /\ t < end /\ m = AmountAt(d, t)
  BY <1>2, <1>6, <1>7, <1>10, UtilizationMaxIs
<1>13. CASE request <= total - m
  <2>1. a.result = "ok"
    BY <1>8, <1>13
  <2>2. Fits(r, request, start, duration)
    <3> SUFFICES ASSUME NEW t \in Time, start <= t, t < end
        PROVE  AmountAt(d, t) + request <= total
      BY <1>1, <1>3, <1>10, FitsIs
    <3>1. t \in Int
      BY <1>4 DEF Time
    <3>2. AmountAt(d, t) <= m /\ AmountAt(d, t) \in Int
      BY <1>2, <1>12, <3>1, AmountIsInt
    <3> QED BY <1>12, <1>13, <3>2
  <2> QED BY <2>1, <2>2
<1>14. CASE ~(request <= total - m) /\ request > total - e
  <2>1. a.result = "never"
    BY <1>8, <1>14
  <2> QED BY <1>3, <1>9, <1>14, <2>1
<1>15. CASE ~(request <= total - m) /\ ~(request > total - e)
  <2>1. a.result = "later"
    BY <1>8, <1>15
  <2>2. ~Fits(r, request, start, duration)
    <3>1. PICK t \in Int : start <= t /\ t < end /\ m = AmountAt(d, t)
      BY <1>12
    <3>2. t \in Time
      BY <1>4, <1>11, <3>1 DEF Time
    <3>3. ~(AmountAt(d, t) + request <= total)
      BY <1>12, <1>15, <3>1
    <3> QED BY <1>1, <1>3, <1>10, <3>1, <3>2, <3>3, FitsIs
  <2>3. Fits(r, request, latest, duration)
    <3> SUFFICES ASSUME NEW t \in Time, latest <= t PROVE AmountAt(d, t) + request <= total
      BY <1>1, <1>3, FitsIs
    <3>1. t = latest
      BY <1>4, <1>5 DEF Time
    <3>2. AmountAt(d, t) = e
      BY <1>9, <3>1
    <3> QED BY <1>9, <1>15, <3>2
  <2> QED BY <1>6, <2>1, <2>2, <2>3
<1> QED BY <1>13, <1>14, <1>15

IsTrue(r, start, duration, request, a) ==
  CASE a.result = "never" -> ValueAt(r, Infinity - 1) + request > Total[r]
    [] a.result = "later" ->
         /\ ~Fits(r, request, start, duration)
         /\ \E t \in Time : t > start /\ Fits(r, request, t, duration)
    [] a.result = "ok" ->
         IF start = QueueEnd
           THEN /\ Fits(r, request, a.start, Infinity)
                /\ a.start > Now => ~Fits(r, request, a.start - 1, 1)
           ELSE Fits(r, request, start, duration)

\* What ri_time_by_slots() tells the scheduler is true of the diagram it asks,
\* whatever has been booked and removed, for every request, start and duration.
THEOREM AnswersTrue == ResourceSpec => []AnswersAreTrue
<1>1. DiagramInv /\ SumInv => AnswersAreTrue
  <2> SUFFICES ASSUME DiagramInv, SumInv PROVE AnswersAreTrue
    OBVIOUS
  <2> SUFFICES ASSUME NEW r \in {q \in Resource : Elements(diagram[q]) # <<>>},
                      NEW start \in Now..QueueEnd, NEW duration \in Durations,
                      NEW request \in 1..(Total[r] + 1)
      PROVE  IsTrue(r, start, duration, request, TimeBySlots(r, request, start, duration))
    BY ZenonT(30) DEF AnswersAreTrue, IsTrue
  <2>0. PICK a : a = TimeBySlots(r, request, start, duration)
    OBVIOUS
  <2>1. duration \in Nat /\ duration # 0
    BY BookingTypes DEF Durations
  <2>2. request \in Nat
    <3>1. Total[r] \in Nat
      BY ResourceAssumption
    <3> QED BY <3>1
  <2>3. CASE start = QueueEnd
    <3>1. \/ a.result = "never" /\ ValueAt(r, Infinity - 1) + request > Total[r]
          \/ /\ a.result = "ok" /\ Fits(r, request, a.start, Infinity)
             /\ a.start > Now => ~Fits(r, request, a.start - 1, 1)
      BY <2>0, <2>2, <2>3, QueueEndAnswer
    <3> QED BY <2>0, <2>3, <3>1 DEF IsTrue
  <2>4. CASE start # QueueEnd
    <3>1. start \in Now..(QueueEnd - 1)
      BY <2>4, ResourceAssumption
    <3>2. \/ a.result = "never" /\ ValueAt(r, Infinity - 1) + request > Total[r]
          \/ a.result = "ok" /\ Fits(r, request, start, duration)
          \/ /\ a.result = "later" /\ ~Fits(r, request, start, duration)
             /\ \E t \in Time : t > start /\ Fits(r, request, t, duration)
      BY <2>0, <2>1, <2>2, <3>1, TimeAnswer
    <3> QED BY <2>0, <2>4, <3>2 DEF IsTrue
  <2> QED BY <2>3, <2>4
<1> QED BY <1>1, SumInvHolds, PTL
=============================================================================
