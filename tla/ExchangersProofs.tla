------------------------- MODULE ExchangersProofs --------------------------
(* The choice of the best three exchangers, proved for answers of any length. *)
EXTENDS Exchangers, WellFoundedInduction, FiniteSetTheorems, TLAPS

LEMMA MaxPrefFact == MaxPref \in Nat
BY DEF MaxPref

\* A set of numbers has a smallest one.
LEMMA Smallest ==
  ASSUME NEW T \in SUBSET Nat, T # {}
  PROVE  \E m \in T : \A k \in T : m <= k
<1>1. IsWellFoundedOn(OpToRel(<, Nat), Nat)
  BY NatLessThanWellFounded, Zenon
<1>2. PICK m \in T : \A k \in T : <<k, m>> \notin OpToRel(<, Nat)
  BY <1>1, WFMin, Zenon
<1>3. \A k \in T : ~(k < m)
  BY <1>2, Zenon DEF OpToRel
<1> QED BY <1>3

\* The places after each number of exchangers.
Fills(s, a, n) == s = [k \in 0..n |-> IF k = 0 THEN Unset ELSE Place(s[k - 1], a[k])]

LEMMA FillsFact ==
  ASSUME NEW a, NEW n \in Nat
  PROVE  \E s : Fills(s, a, n)
<1> DEFINE T == {k \in Nat : ~\E s : Fills(s, a, k)}
<1>1. SUFFICES ASSUME T # {} PROVE FALSE
  OBVIOUS
<1>2. PICK m \in T : \A k \in T : m <= k
  BY <1>1, Smallest
<1>3. m # 0
  <2>1. Fills([k \in 0..0 |-> Unset], a, 0)
    BY DEF Fills
  <2> QED BY <2>1
<1>4. PICK t : Fills(t, a, m - 1)
  <2>1. m - 1 \in Nat /\ ~(m <= m - 1)
    BY <1>3
  <2> QED BY <1>2, <2>1
<1> DEFINE s == [k \in 0..m |-> IF k < m THEN t[k] ELSE Place(t[m - 1], a[m])]
<1>5. Fills(s, a, m)
  <2>1. \A k \in 0..(m - 1) : t[k] = IF k = 0 THEN Unset ELSE Place(t[k - 1], a[k])
    BY <1>3, <1>4, Zenon DEF Fills
  <2>2. \A k \in 0..m : s[k] = IF k = 0 THEN Unset ELSE Place(s[k - 1], a[k])
    <3> TAKE k \in 0..m
    <3>1. CASE k = m
      <4>1. s[k] = Place(t[m - 1], a[m]) /\ s[k - 1] = t[k - 1]
        BY <1>3, <3>1
      <4> QED BY <1>3, <3>1, <4>1
    <3>2. CASE k # m /\ k # 0
      <4>1. k \in 0..(m - 1) /\ k - 1 \in 0..(m - 1)
        BY <3>2
      <4>2. s[k] = t[k] /\ s[k - 1] = t[k - 1]
        BY <4>1
      <4> QED BY <2>1, <3>2, <4>1, <4>2
    <3>3. CASE k # m /\ k = 0
      <4>1. s[k] = t[k] /\ k \in 0..(m - 1)
        BY <1>3, <3>3
      <4> QED BY <2>1, <3>3, <4>1
    <3> QED BY <3>1, <3>2, <3>3
  <2>3. s = [k \in 0..m |-> s[k]]
    OBVIOUS
  <2> HIDE DEF s
  <2> QED BY <2>2, <2>3 DEF Fills
<1> QED BY <1>5

LEMMA SortedFact ==
  ASSUME NEW a, Len(a) \in Nat
  PROVE  \E s : Fills(s, a, Len(a)) /\ Sorted(a) = s[Len(a)]
<1> DEFINE slots == CHOOSE s : Fills(s, a, Len(a))
<1>1. Fills(slots, a, Len(a))
  BY FillsFact
<1>2. Sorted(a) = slots[Len(a)]
  BY DEF Sorted, Fills
<1> QED BY <1>1, <1>2

\* An exchanger that is chosen from.
Real(a, k) == a[k].pref < MaxPref

\* After n exchangers, place i has the exchanger f[i], or none if that is 0: those
\* there are stand in their order, and all others come behind the third.
Ranked(a, n, slots, f) ==
  /\ f \in [1..3 -> 0..n]
  /\ \A i \in 1..3 : f[i] # 0 => Real(a, f[i])
  /\ \A i \in 1..3 : slots[i] = IF f[i] = 0 THEN [pref |-> MaxPref, ip |-> NoIp] ELSE a[f[i]]
  /\ \A i, j \in 1..3 : i < j /\ f[j] # 0 => f[i] # 0 /\ Before(a, f[i], f[j])
  /\ \A k \in 1..n : Real(a, k) =>
       (\E i \in 1..3 : f[i] = k) \/ (f[3] # 0 /\ Before(a, f[3], k))

\* An exchanger takes the first place whose preference is higher, or none.
LEMMA PlaceFact ==
  ASSUME NEW slots, NEW mx, \A i \in 1..3 : slots[i].pref \in Nat, mx.pref \in Nat
  PROVE  \/ Place(slots, mx) = slots /\ \A i \in 1..3 : slots[i].pref <= mx.pref
         \/ \E y \in 1..3 :
              /\ mx.pref < slots[y].pref /\ \A i \in 1..3 : i < y => slots[i].pref <= mx.pref
              /\ Place(slots, mx) =
                   [i \in 1..3 |-> IF i < y THEN slots[i] ELSE IF i = y THEN mx ELSE slots[i - 1]]
<1> DEFINE T == {y \in 1..3 : mx.pref < slots[y].pref}
<1>1. CASE T = {}
  BY <1>1 DEF Place, Insert
<1>2. CASE T # {}
  <2> DEFINE y == CHOOSE w \in T : \A v \in T : w <= v
  <2>1. \E w \in T : \A v \in T : w <= v
    <3>1. T \subseteq 1..3
      OBVIOUS
    <3> QED BY <1>2, <3>1, Smallest
  <2>2. y \in T /\ \A v \in T : y <= v
    BY <2>1
  <2>3. Place(slots, mx) =
          [i \in 1..3 |-> IF i < y THEN slots[i] ELSE IF i = y THEN mx ELSE slots[i - 1]]
    BY <1>2 DEF Place, Insert
  <2> HIDE DEF y
  <2>4. \A i \in 1..3 : i < y => slots[i].pref <= mx.pref
    <3> TAKE i \in 1..3
    <3> HAVE i < y
    <3>1. y \in 1..3 /\ i \notin T
      BY <2>2
    <3> QED BY <3>1
  <2> QED BY <2>2, <2>3, <2>4
<1> QED BY <1>1, <1>2

\* One exchanger more.
LEMMA RankedNext ==
  ASSUME NEW a \in Seq(Exchanger), NEW n \in Nat, n + 1 <= Len(a),
         NEW slots, NEW f, Ranked(a, n, slots, f)
  PROVE  \E g : Ranked(a, n + 1, Place(slots, a[n + 1]), g)
<1>0. \A k \in 1..(n + 1) : a[k] \in Exchanger
  <2>1. 1..(n + 1) \subseteq 1..Len(a)
    OBVIOUS
  <2> QED BY <2>1
<1>1. /\ MaxPref \in Nat
      /\ \A k \in 1..(n + 1) : a[k].pref \in Nat /\ a[k].pref <= MaxPref
  BY <1>0, MaxPrefFact DEF Exchanger
<1>2. /\ \A i \in 1..3 : f[i] \in 0..n
      /\ \A i \in 1..3 : f[i] # 0 => a[f[i]].pref < MaxPref /\ f[i] \in 1..(n + 1)
      /\ \A i \in 1..3 : slots[i].pref = IF f[i] = 0 THEN MaxPref ELSE a[f[i]].pref
      /\ \A i, j \in 1..3 : i < j /\ f[j] # 0 => f[i] # 0 /\ Before(a, f[i], f[j])
      /\ \A k \in 1..n : Real(a, k) =>
           (\E i \in 1..3 : f[i] = k) \/ (f[3] # 0 /\ Before(a, f[3], k))
  BY DEF Ranked, Real
<1>3. PICK m \in 1..(n + 1) : m = n + 1
  OBVIOUS
<1>4. \A i \in 1..3 : slots[i].pref \in Nat
  BY <1>1, <1>2
<1>5. CASE Place(slots, a[m]) = slots /\ \A i \in 1..3 : slots[i].pref <= a[m].pref
  <2>1. Real(a, m) => f[3] # 0 /\ Before(a, f[3], m)
    BY <1>1, <1>2, <1>3, <1>5 DEF Real, Before
  <2>2. \A k \in 1..m : Real(a, k) =>
          (\E i \in 1..3 : f[i] = k) \/ (f[3] # 0 /\ Before(a, f[3], k))
    BY <1>2, <1>3, <2>1
  <2>3. f \in [1..3 -> 0..m]
    BY <1>3 DEF Ranked
  <2> QED BY <1>3, <1>5, <2>2, <2>3 DEF Ranked
<1>6. ASSUME NEW y \in 1..3, a[m].pref < slots[y].pref,
             \A i \in 1..3 : i < y => slots[i].pref <= a[m].pref,
             Place(slots, a[m]) =
               [i \in 1..3 |-> IF i < y THEN slots[i] ELSE IF i = y THEN a[m] ELSE slots[i - 1]]
      PROVE  \E g : Ranked(a, m, Place(slots, a[m]), g)
  <2> DEFINE g == [i \in 1..3 |-> IF i < y THEN f[i] ELSE IF i = y THEN m ELSE f[i - 1]]
  <2>1. Real(a, m) /\ m # 0
    <3>1. slots[y].pref <= MaxPref
      <4>1. CASE f[y] = 0
        BY <1>1, <1>2, <4>1
      <4>2. CASE f[y] # 0
        BY <1>1, <1>2, <4>2
      <4> QED BY <4>1, <4>2
    <3>2. a[m].pref \in Nat /\ slots[y].pref \in Nat
      BY <1>1, <1>3, <1>4
    <3> QED BY <1>1, <1>3, <1>6, <3>1, <3>2 DEF Real
  <2>2. \A i \in 1..3 : i < y => f[i] # 0 /\ Before(a, f[i], m)
    <3> TAKE i \in 1..3
    <3> HAVE i < y
    <3>1. slots[i].pref <= a[m].pref /\ a[m].pref < MaxPref
      BY <1>6, <2>1 DEF Real
    <3>2. f[i] # 0
      <4>1. CASE f[i] = 0
        <5>1. slots[i].pref = MaxPref
          BY <1>2, <4>1
        <5> QED BY <1>1, <1>3, <3>1, <5>1
      <4> QED BY <4>1
    <3>3. slots[i].pref = a[f[i]].pref /\ f[i] \in 0..n /\ f[i] \in 1..(n + 1)
      BY <1>2, <3>2
    <3>4. a[f[i]].pref <= a[m].pref /\ a[f[i]].pref \in Nat /\ a[m].pref \in Nat
      BY <1>1, <3>1, <3>3
    <3>5. f[i] < m
      BY <1>3, <3>3
    <3>6. a[f[i]].pref < a[m].pref \/ a[f[i]].pref = a[m].pref
      BY <3>4
    <3> QED BY <3>2, <3>5, <3>6 DEF Before
  <2>3. \A i \in 1..3 : y <= i /\ f[i] # 0 => Before(a, m, f[i])
    <3> TAKE i \in 1..3
    <3> HAVE y <= i /\ f[i] # 0
    <3>1. f[y] # 0 /\ (y < i => Before(a, f[y], f[i]))
      <4>1. CASE y = i
        BY <4>1
      <4>2. CASE y # i
        <5>1. y < i
          BY <4>2
        <5> QED BY <1>2, <5>1
      <4> QED BY <4>1, <4>2
    <3>2. a[m].pref < a[f[y]].pref
      BY <1>2, <1>6, <3>1
    <3>3. a[f[y]].pref <= a[f[i]].pref
      <4>1. a[f[y]].pref \in Nat /\ a[f[i]].pref \in Nat
        BY <1>1, <1>2, <3>1
      <4>2. CASE y = i
        BY <4>1, <4>2
      <4>3. CASE y # i
        <5>1. y < i
          BY <4>3
        <5>2. a[f[y]].pref < a[f[i]].pref \/ a[f[y]].pref = a[f[i]].pref
          BY <3>1, <5>1, Zenon DEF Before
        <5> QED BY <4>1, <5>2
      <4> QED BY <4>2, <4>3
    <3>4. a[m].pref \in Nat /\ a[f[y]].pref \in Nat /\ a[f[i]].pref \in Nat
      BY <1>1, <1>2, <3>1
    <3>5. a[m].pref < a[f[i]].pref
      BY <3>2, <3>3, <3>4
    <3> QED BY <3>5 DEF Before
  <2>4. /\ \A i \in 1..3 : i < y => g[i] = f[i]
        /\ g[y] = m
        /\ \A i \in 1..3 : y < i => g[i] = f[i - 1] /\ i - 1 \in 1..3 /\ y <= i - 1
    OBVIOUS
  <2>5. g \in [1..3 -> 0..m]
    BY <1>2, <1>3
  <2>6. \A i \in 1..3 : Place(slots, a[m])[i] =
          IF g[i] = 0 THEN [pref |-> MaxPref, ip |-> NoIp] ELSE a[g[i]]
    BY <1>6, <2>1 DEF Ranked
  <2> HIDE DEF g
  <2>7. \A i \in 1..3 : i < y \/ i = y \/ y < i
    OBVIOUS
  <2>8. \A i \in 1..3 : g[i] # 0 => Real(a, g[i])
    BY <1>2, <2>1, <2>4, <2>7 DEF Real
  <2>9. \A i, j \in 1..3 : i < j /\ g[j] # 0 => g[i] # 0 /\ Before(a, g[i], g[j])
    <3> TAKE i, j \in 1..3
    <3> HAVE i < j /\ g[j] # 0
    <3>1. CASE j < y
      BY <1>2, <2>4, <3>1
    <3>2. CASE j = y
      BY <2>2, <2>4, <3>2
    <3>3. CASE y < j /\ i < y
      <4>1. i < j - 1
        BY <3>3
      <4> QED BY <1>2, <2>4, <3>3, <4>1
    <3>4. CASE y < j /\ i = y
      BY <2>1, <2>3, <2>4, <3>4
    <3>5. CASE y < j /\ y < i
      <4>1. i - 1 < j - 1
        OBVIOUS
      <4> QED BY <1>2, <2>4, <3>5, <4>1
    <3> QED BY <3>1, <3>2, <3>3, <3>4, <3>5
  <2>10. f[3] # 0 => g[3] # 0 /\ Before(a, g[3], f[3])
    <3>1. CASE y = 3
      BY <2>1, <2>3, <2>4, <3>1
    <3>2. CASE y < 3
      BY <1>2, <2>4, <3>2
    <3> QED BY <3>1, <3>2
  <2>11. ASSUME NEW k \in 1..m, Real(a, k)
         PROVE  (\E i \in 1..3 : g[i] = k) \/ (g[3] # 0 /\ Before(a, g[3], k))
    <3>1. CASE k = m
      BY <2>4, <3>1
    <3>2. CASE k # m /\ \E i \in 1..3 : f[i] = k
      <4>1. PICK i \in 1..3 : f[i] = k
        BY <3>2
      <4>2. CASE i < y
        BY <2>4, <4>1, <4>2
      <4>3. CASE y <= i /\ i < 3
        <5>1. i + 1 \in 1..3 /\ g[i + 1] = f[i]
          BY <2>4, <4>3
        <5> QED BY <4>1, <5>1
      <4>4. CASE i = 3
        <5>1. k # 0
          OBVIOUS
        <5> QED BY <2>10, <4>1, <4>4, <5>1
      <4> QED BY <4>2, <4>3, <4>4
    <3>3. CASE k # m /\ f[3] # 0 /\ Before(a, f[3], k)
      <4>1. g[3] # 0 /\ Before(a, g[3], f[3]) /\ g[3] \in 1..(n + 1) /\ f[3] \in 1..(n + 1)
        BY <1>2, <1>3, <2>5, <2>10, <3>3
      <4>2. Before(a, g[3], k)
        BY <1>1, <1>3, <3>3, <4>1 DEF Before
      <4> QED BY <4>1, <4>2
    <3>4. k # m => k \in 1..n
      BY <1>3
    <3> QED BY <1>2, <2>11, <3>1, <3>2, <3>3, <3>4
  <2> QED BY <2>5, <2>6, <2>8, <2>9, <2>11 DEF Ranked
<1>7. a[m].pref \in Nat
  BY <1>1
<1> QED BY <1>3, <1>4, <1>5, <1>6, <1>7, PlaceFact

\* The places after all exchangers of an answer, by the smallest number for which
\* it could be otherwise.
LEMMA RankedFact ==
  ASSUME NEW a \in Seq(Exchanger)
  PROVE  \E f : Ranked(a, Len(a), Sorted(a), f)
<1>1. PICK s : Fills(s, a, Len(a)) /\ Sorted(a) = s[Len(a)]
  BY SortedFact
<1> DEFINE T == {n \in 0..Len(a) : ~\E f : Ranked(a, n, s[n], f)}
<1>2. CASE T = {}
  <2>1. Len(a) \in 0..Len(a) /\ Len(a) \notin T
    BY <1>2
  <2>2. \E f : Ranked(a, Len(a), s[Len(a)], f)
    BY <2>1
  <2> QED BY <1>1, <2>2
<1>3. CASE T # {}
  <2>1. T \subseteq Nat
    OBVIOUS
  <2>2. PICK n \in T : \A k \in T : n <= k
    BY <1>3, <2>1, Smallest
  <2> HIDE DEF T
  <2>3. n \in 0..Len(a) /\ ~\E f : Ranked(a, n, s[n], f)
    BY <2>2 DEF T
  <2>4. CASE n = 0
    <3> DEFINE f == [i \in 1..3 |-> 0]
    <3>1. s[0] = Unset
      BY <1>1 DEF Fills
    <3>2. f \in [1..3 -> 0..0] /\ \A i \in 1..3 : f[i] = 0
      OBVIOUS
    <3> HIDE DEF f
    <3>3. Ranked(a, 0, Unset, f)
      BY <3>2 DEF Ranked, Unset
    <3> QED BY <2>3, <2>4, <3>1, <3>3
  <2>5. CASE n # 0
    <3>1. PICK k \in Nat : n = k + 1
      <4>1. n - 1 \in Nat /\ n = (n - 1) + 1
        BY <2>3, <2>5
      <4> QED BY <4>1
    <3>2. k \in 0..Len(a) /\ k \notin T
      BY <2>2, <2>3, <3>1
    <3>3. PICK f : Ranked(a, k, s[k], f)
      BY <3>2 DEF T
    <3>4. s[n] = Place(s[k], a[k + 1])
      <4>1. s[n] = Place(s[n - 1], a[n])
        BY <1>1, <2>3, <2>5 DEF Fills
      <4>2. n - 1 = k
        BY <3>1
      <4> QED BY <3>1, <4>1, <4>2
    <3>5. k + 1 <= Len(a)
      BY <2>3, <3>1
    <3>6. \E g : Ranked(a, k + 1, Place(s[k], a[k + 1]), g)
      BY <3>3, <3>5, RankedNext
    <3> QED BY <2>3, <3>1, <3>4, <3>6
  <2> QED BY <2>4, <2>5
<1> QED BY <1>2, <1>3

\* The order is strict.
LEMMA BeforeOrder ==
  ASSUME NEW a \in Seq(Exchanger), NEW j \in DOMAIN a, NEW k \in DOMAIN a, NEW l \in DOMAIN a,
         Before(a, j, k)
  PROVE  /\ j # k /\ ~Before(a, k, j)
         /\ Before(a, k, l) => Before(a, j, l)
<1>1. a[j].pref \in Nat /\ a[k].pref \in Nat /\ a[l].pref \in Nat
  <2>1. a[j] \in Exchanger /\ a[k] \in Exchanger /\ a[l] \in Exchanger
    OBVIOUS
  <2> QED BY <2>1, MaxPrefFact DEF Exchanger
<1>2. j \in Nat /\ k \in Nat /\ l \in Nat
  OBVIOUS
<1> QED BY <1>1, <1>2 DEF Before

\* As many stand before the exchanger of a place as there are places before it, and
\* three at least before one that has no place.
LEMMA AheadFact ==
  ASSUME NEW a \in Seq(Exchanger), NEW slots, NEW f, Ranked(a, Len(a), slots, f)
  PROVE  /\ \A i \in 1..3 : f[i] # 0 => f[i] \in RealOnes(a) /\ Cardinality(Ahead(a, f[i])) = i - 1
         /\ \A k \in RealOnes(a) :
              (\E i \in 1..3 : f[i] = k /\ k # 0) \/ Cardinality(Ahead(a, k)) \notin 0..2
<1>1. /\ \A i \in 1..3 : f[i] # 0 => f[i] \in RealOnes(a)
      /\ \A i, j \in 1..3 : i < j /\ f[j] # 0 => f[i] # 0 /\ Before(a, f[i], f[j])
      /\ \A k \in RealOnes(a) : k \in DOMAIN a /\ k # 0 /\
           ((\E i \in 1..3 : f[i] = k) \/ (f[3] # 0 /\ Before(a, f[3], k)))
  <2>1. DOMAIN a = 1..Len(a) /\ Len(a) \in Nat
    OBVIOUS
  <2>2. \A i \in 1..3 : f[i] # 0 => f[i] \in DOMAIN a
    BY <2>1 DEF Ranked
  <2>3. \A k \in RealOnes(a) : k \in 1..Len(a) /\ k # 0 /\ Real(a, k)
    BY <2>1 DEF RealOnes, Real
  <2> QED BY <2>1, <2>2, <2>3 DEF Ranked, RealOnes, Real
<1>2. RealOnes(a) \subseteq DOMAIN a
  BY DEF RealOnes
<1>3. ASSUME NEW i \in 1..3, f[i] # 0
      PROVE  Ahead(a, f[i]) = {f[j] : j \in {h \in 1..3 : h < i}}
  <2>1. ASSUME NEW k \in Ahead(a, f[i]) PROVE k \in {f[j] : j \in {h \in 1..3 : h < i}}
    <3>1. k \in RealOnes(a) /\ Before(a, k, f[i]) /\ f[i] \in RealOnes(a)
      BY <1>1, <1>3, <2>1 DEF Ahead
    <3>2. CASE f[3] # 0 /\ Before(a, f[3], k)
      <4>1. f[3] \in RealOnes(a)
        BY <1>1, <3>2
      <4>2. Before(a, f[3], f[i])
        BY <1>2, <3>1, <3>2, <4>1, BeforeOrder
      <4>3. CASE i = 3
        BY <1>2, <4>1, <4>2, <4>3, BeforeOrder
      <4>4. CASE i # 3
        <5>1. Before(a, f[i], f[3])
          BY <1>1, <3>2, <4>4
        <5> QED BY <1>2, <3>1, <4>1, <4>2, <5>1, BeforeOrder
      <4> QED BY <4>3, <4>4
    <3>3. CASE \E h \in 1..3 : f[h] = k
      <4>1. PICK h \in 1..3 : f[h] = k
        BY <3>3
      <4>2. h # i
        BY <1>2, <3>1, <4>1, BeforeOrder
      <4>3. CASE i < h
        <5>1. k # 0
          BY <1>1, <3>1
        <5>2. Before(a, f[i], k)
          BY <1>1, <4>1, <4>3, <5>1
        <5> QED BY <1>2, <3>1, <5>2, BeforeOrder
      <4>4. h < i \/ i < h
        BY <4>2
      <4> QED BY <4>1, <4>3, <4>4
    <3> QED BY <1>1, <3>1, <3>2, <3>3
  <2>2. ASSUME NEW h \in 1..3, h < i PROVE f[h] \in Ahead(a, f[i])
    BY <1>1, <1>3, <2>2 DEF Ahead
  <2> QED BY <2>1, <2>2
<1>4. ASSUME NEW i \in 1..3, f[i] # 0 PROVE Cardinality(Ahead(a, f[i])) = i - 1
  <2>1. CASE i = 1
    <3>1. Ahead(a, f[i]) = {}
      <4>1. {h \in 1..3 : h < 1} = {}
        OBVIOUS
      <4> QED BY <1>3, <1>4, <2>1, <4>1
    <3> QED BY <2>1, <3>1, FS_EmptySet
  <2>2. CASE i = 2
    <3>1. Ahead(a, f[i]) = {f[1]}
      <4>1. {h \in 1..3 : h < 2} = {1}
        OBVIOUS
      <4> QED BY <1>3, <1>4, <2>2, <4>1
    <3>2. Cardinality({f[1]}) = 1
      BY FS_Singleton, Zenon
    <3> QED BY <2>2, <3>1, <3>2
  <2>3. CASE i = 3
    <3>1. Ahead(a, f[i]) = {f[1]} \cup {f[2]}
      <4>1. {h \in 1..3 : h < 3} = {1, 2}
        OBVIOUS
      <4> QED BY <1>3, <1>4, <2>3, <4>1
    <3>2. f[2] # 0 /\ f[1] # 0 /\ Before(a, f[1], f[2])
      BY <1>1, <1>4, <2>3
    <3>3. f[2] \notin {f[1]}
      BY <1>1, <1>2, <3>2, BeforeOrder
    <3>4. IsFiniteSet({f[1]}) /\ Cardinality({f[1]}) = 1
      BY FS_Singleton, Zenon
    <3>5. Cardinality({f[1]} \cup {f[2]}) =
            IF f[2] \in {f[1]} THEN Cardinality({f[1]}) ELSE Cardinality({f[1]}) + 1
      BY <3>4, FS_AddElement, Zenon
    <3> QED BY <2>3, <3>1, <3>3, <3>4, <3>5
  <2> QED BY <2>1, <2>2, <2>3
<1>5. ASSUME NEW k \in RealOnes(a), f[3] # 0, Before(a, f[3], k)
      PROVE  Cardinality(Ahead(a, k)) \notin 0..2
  <2>1. Ahead(a, f[3]) \cup {f[3]} \subseteq Ahead(a, k)
    <3>1. f[3] \in RealOnes(a)
      BY <1>1, <1>5
    <3>2. \A j \in Ahead(a, f[3]) : Before(a, j, k)
      BY <1>2, <1>5, <3>1, BeforeOrder DEF Ahead
    <3> QED BY <1>5, <3>1, <3>2 DEF Ahead
  <2>2. IsFiniteSet(Ahead(a, k)) /\ IsFiniteSet(Ahead(a, f[3]))
    <3>1. IsFiniteSet(1..Len(a))
      BY FS_Interval
    <3>2. Ahead(a, k) \subseteq 1..Len(a) /\ Ahead(a, f[3]) \subseteq 1..Len(a)
      BY <1>2 DEF Ahead
    <3> QED BY <3>1, <3>2, FS_Subset
  <2>3. f[3] \notin Ahead(a, f[3])
    BY <1>1, <1>2, <1>5, BeforeOrder DEF Ahead
  <2>4. Cardinality(Ahead(a, f[3])) = 2
    BY <1>4, <1>5
  <2>5. Cardinality(Ahead(a, f[3]) \cup {f[3]}) = 3
    <3>1. Cardinality(Ahead(a, f[3]) \cup {f[3]}) =
            IF f[3] \in Ahead(a, f[3]) THEN Cardinality(Ahead(a, f[3]))
                                       ELSE Cardinality(Ahead(a, f[3])) + 1
      BY <2>2, FS_AddElement, Zenon
    <3> QED BY <2>3, <2>4, <3>1
  <2>6. 3 <= Cardinality(Ahead(a, k))
    BY <2>1, <2>2, <2>5, FS_Subset
  <2>7. Cardinality(Ahead(a, k)) \in Nat
    BY <2>2, FS_CardinalityType
  <2> QED BY <2>6, <2>7
<1> QED BY <1>1, <1>4, <1>5

\* The three addresses of an answer.
LEMMA BestFact ==
  ASSUME NEW a \in Seq(Exchanger), NEW i \in 1..3
  PROVE  Best(a)[i] = IF Ith(a, i) = {} THEN NoIp ELSE a[CHOOSE k \in Ith(a, i) : TRUE].ip
<1>1. PICK f : Ranked(a, Len(a), Sorted(a), f)
  BY RankedFact
<1>2. Best(a)[i] = Sorted(a)[i].ip
  BY DEF Best
<1>3. Sorted(a)[i] = IF f[i] = 0 THEN [pref |-> MaxPref, ip |-> NoIp] ELSE a[f[i]]
  BY <1>1 DEF Ranked
<1>4. ASSUME NEW k \in Ith(a, i) PROVE f[i] # 0 /\ k = f[i]
  <2>1. k \in RealOnes(a) /\ Cardinality(Ahead(a, k)) = i - 1
    BY <1>4 DEF Ith
  <2>2. PICK h \in 1..3 : f[h] = k /\ k # 0
    BY <1>1, <2>1, AheadFact
  <2>3. Cardinality(Ahead(a, f[h])) = h - 1
    BY <1>1, <2>2, AheadFact
  <2>4. h = i
    BY <2>1, <2>2, <2>3
  <2> QED BY <2>2, <2>4
<1>5. f[i] # 0 => f[i] \in Ith(a, i)
  BY <1>1, AheadFact DEF Ith
<1>6. CASE f[i] = 0
  <2>1. Ith(a, i) = {}
    BY <1>4, <1>6
  <2> QED BY <1>2, <1>3, <1>6, <2>1
<1>7. CASE f[i] # 0
  <2>1. Ith(a, i) = {f[i]}
    BY <1>4, <1>5, <1>7
  <2>2. (CHOOSE k \in Ith(a, i) : TRUE) = f[i]
    BY <2>1
  <2> QED BY <1>2, <1>3, <1>7, <2>1, <2>2
<1> QED BY <1>6, <1>7

\* The choice of getExchanger is right for answers of any length, with any preferences:
\* the three that stand first, and no address where there are fewer.
THEOREM BestThreeHolds ==
  ASSUME NEW a \in Seq(Exchanger)
  PROVE  BestThree(a)
BY BestFact DEF BestThree

=============================================================================
