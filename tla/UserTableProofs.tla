--------------------------- MODULE UserTableProofs ---------------------------
(***************************************************************************)
(* Proofs about the users of a list in a database, for any number of users *)
(* and processes, rows and pages, and statements that fail: whoever comes  *)
(* or goes meanwhile, a broadcast goes to the users of one moment.         *)
(***************************************************************************)
EXTENDS UserTable, WellFoundedInduction, SequenceTheorems, TLAPS

-----------------------------------------------------------------------------
(* The rows that are left when users are taken out                         *)

\* A set of numbers has a smallest one.
LEMMA Smallest ==
  ASSUME NEW T \in SUBSET Nat, T # {}
  PROVE  \E m \in T : \A k \in T : m <= k
<1>1. IsWellFoundedOn(OpToRel(<, Nat), Nat)
  BY NatLessThanWellFounded, Zenon
<1>2. PICK m \in T : \A k \in T : <<k, m>> \notin OpToRel(<, Nat)
  BY <1>1, WFMin, Zenon
<1>3. \A k \in T : ~(k < m)
  BY <1>2, Zenon DEF OpToRel
<1> QED BY <1>3

\* What is left of the first rows, for each number of them.
Keeps(f, rows, gone, n) ==
  f = [k \in 0..n |-> IF k = 0 THEN <<>>
                      ELSE IF rows[k] \in gone THEN f[k - 1] ELSE Append(f[k - 1], rows[k])]

\* It is a function, and there is but one.
LEMMA KeepsFact ==
  ASSUME NEW rows, NEW gone, NEW n \in Nat
  PROVE  \E f : Keeps(f, rows, gone, n)
<1> DEFINE T == {k \in Nat : ~\E f : Keeps(f, rows, gone, k)}
<1>1. SUFFICES ASSUME T # {} PROVE FALSE
  OBVIOUS
<1>2. PICK m \in T : \A k \in T : m <= k
  BY <1>1, Smallest
<1>3. m # 0
  <2>1. Keeps([k \in 0..0 |-> <<>>], rows, gone, 0)
    BY DEF Keeps
  <2> QED BY <2>1
<1>4. PICK g : Keeps(g, rows, gone, m - 1)
  <2>1. m - 1 \in Nat /\ ~(m <= m - 1)
    BY <1>3
  <2> QED BY <1>2, <2>1
<1> DEFINE f == [k \in 0..m |-> IF k < m THEN g[k]
                                ELSE IF rows[m] \in gone THEN g[m - 1] ELSE Append(g[m - 1], rows[m])]
<1>5. Keeps(f, rows, gone, m)
  <2>1. \A k \in 0..(m - 1) : g[k] = IF k = 0 THEN <<>>
          ELSE IF rows[k] \in gone THEN g[k - 1] ELSE Append(g[k - 1], rows[k])
    BY <1>3, <1>4, Zenon DEF Keeps
  <2>2. \A k \in 0..m : f[k] = IF k = 0 THEN <<>>
          ELSE IF rows[k] \in gone THEN f[k - 1] ELSE Append(f[k - 1], rows[k])
    <3> TAKE k \in 0..m
    <3>1. CASE k = m
      <4>1. f[k] = (IF rows[m] \in gone THEN g[m - 1] ELSE Append(g[m - 1], rows[m]))
            /\ f[k - 1] = g[k - 1]
        BY <1>3, <3>1
      <4> QED BY <1>3, <3>1, <4>1
    <3>2. CASE k # m /\ k # 0
      <4>1. k \in 0..(m - 1) /\ k - 1 \in 0..(m - 1)
        BY <3>2
      <4>2. f[k] = g[k] /\ f[k - 1] = g[k - 1]
        BY <4>1
      <4> QED BY <2>1, <3>2, <4>1, <4>2
    <3>3. CASE k # m /\ k = 0
      <4>1. f[k] = g[k] /\ k \in 0..(m - 1)
        BY <1>3, <3>3
      <4> QED BY <2>1, <3>3, <4>1
    <3> QED BY <3>1, <3>2, <3>3
  <2>3. f = [k \in 0..m |-> f[k]]
    OBVIOUS
  <2> HIDE DEF f
  <2> QED BY <2>2, <2>3 DEF Keeps
<1> QED BY <1>5

LEMMA WithoutFact ==
  ASSUME NEW rows, Len(rows) \in Nat, NEW gone
  PROVE  \E f : Keeps(f, rows, gone, Len(rows)) /\ Without(rows, gone) = f[Len(rows)]
<1> DEFINE kept == CHOOSE f : Keeps(f, rows, gone, Len(rows))
<1>1. Keeps(kept, rows, gone, Len(rows))
  BY KeepsFact
<1>2. Without(rows, gone) = kept[Len(rows)]
  BY DEF Without, Keeps
<1> QED BY <1>1, <1>2

\* What is left of some rows does not depend on those behind them.
LEMMA KeepsSame ==
  ASSUME NEW a, NEW b, NEW gone, NEW n \in Nat, NEW k \in Nat, n <= k,
         \A i \in 1..n : a[i] = b[i],
         NEW f, NEW g, Keeps(f, a, gone, n), Keeps(g, b, gone, k)
  PROVE  f[n] = g[n]
<1> DEFINE T == {i \in Nat : i <= n /\ f[i] # g[i]}
<1>1. SUFFICES ASSUME T # {} PROVE FALSE
  OBVIOUS
<1>2. PICK m \in T : \A i \in T : m <= i
  BY <1>1, Smallest
<1>3. m \in 0..n /\ m \in 0..k /\ f[m] # g[m]
  BY <1>2
<1>4. /\ f[m] = IF m = 0 THEN <<>> ELSE IF a[m] \in gone THEN f[m - 1] ELSE Append(f[m - 1], a[m])
      /\ g[m] = IF m = 0 THEN <<>> ELSE IF b[m] \in gone THEN g[m - 1] ELSE Append(g[m - 1], b[m])
  BY <1>3, Zenon DEF Keeps
<1>5. m # 0
  BY <1>3, <1>4
<1>6. f[m - 1] = g[m - 1]
  <2>1. m - 1 \in Nat /\ m - 1 <= n /\ ~(m <= m - 1)
    BY <1>3, <1>5
  <2> QED BY <1>2, <2>1
<1>7. a[m] = b[m]
  BY <1>3, <1>5
<1> QED BY <1>3, <1>4, <1>5, <1>6, <1>7

LEMMA WithoutEmpty ==
  ASSUME NEW gone
  PROVE  Without(<<>>, gone) = <<>>
<1>1. PICK f : Keeps(f, <<>>, gone, 0) /\ Without(<<>>, gone) = f[0]
  <2>1. Len(<<>>) = 0
    OBVIOUS
  <2> QED BY <2>1, WithoutFact
<1>2. f[0] = <<>>
  BY <1>1 DEF Keeps
<1> QED BY <1>1, <1>2

LEMMA WithoutAppend ==
  ASSUME NEW S, NEW s \in Seq(S), NEW x \in S, NEW gone
  PROVE  Without(Append(s, x), gone) = IF x \in gone THEN Without(s, gone) ELSE Append(Without(s, gone), x)
<1> DEFINE t == Append(s, x)
           n == Len(s)
<1>1. /\ n \in Nat /\ Len(t) = n + 1 /\ t[n + 1] = x
      /\ \A i \in 1..n : t[i] = s[i]
  BY AppendProperties, LenProperties
<1> HIDE DEF t, n
<1>2. PICK f : Keeps(f, t, gone, n + 1) /\ Without(t, gone) = f[n + 1]
  <2>1. Len(t) \in Nat
    BY <1>1
  <2> QED BY <1>1, <2>1, WithoutFact
<1>3. PICK g : Keeps(g, s, gone, n) /\ Without(s, gone) = g[n]
  BY <1>1, WithoutFact DEF n
<1>4. g[n] = f[n]
  <2>1. \A i \in 1..n : s[i] = t[i]
    BY <1>1
  <2>2. n \in Nat /\ n + 1 \in Nat /\ n <= n + 1
    BY <1>1
  <2> QED BY <1>2, <1>3, <2>1, <2>2, KeepsSame
<1>5. f[n + 1] = IF t[n + 1] \in gone THEN f[n] ELSE Append(f[n], t[n + 1])
  <2>1. n + 1 \in 0..(n + 1) /\ n + 1 # 0 /\ (n + 1) - 1 = n
    BY <1>1
  <2>2. f[n + 1] = IF n + 1 = 0 THEN <<>>
                   ELSE IF t[n + 1] \in gone THEN f[(n + 1) - 1] ELSE Append(f[(n + 1) - 1], t[n + 1])
    BY <1>2, <2>1, Zenon DEF Keeps
  <2> QED BY <2>1, <2>2
<1> QED BY <1>1, <1>2, <1>3, <1>4, <1>5 DEF t

\* A row at the end.
LEMMA AppendFact ==
  ASSUME NEW S, NEW s \in Seq(S), NEW x \in S
  PROVE  /\ ToSet(Append(s, x)) = ToSet(s) \cup {x}
         /\ IsInjective(Append(s, x)) <=> IsInjective(s) /\ x \notin ToSet(s)
<1> DEFINE t == Append(s, x)
           n == Len(s)
<1>1. /\ n \in Nat /\ DOMAIN t = 1..(n + 1) /\ DOMAIN s = 1..n
      /\ t[n + 1] = x /\ \A i \in 1..n : t[i] = s[i]
  BY AppendProperties, LenProperties
<1> HIDE DEF t, n
<1>2. \A i \in DOMAIN t : i \in DOMAIN s \/ i = n + 1
  BY <1>1
<1>3. n + 1 \in DOMAIN t /\ n + 1 \notin DOMAIN s /\ DOMAIN s \subseteq DOMAIN t
  BY <1>1
<1>4. t[n + 1] = x /\ \A i \in DOMAIN s : t[i] = s[i]
  BY <1>1
<1>5. ToSet(t) = ToSet(s) \cup {x}
  BY <1>2, <1>3, <1>4 DEF ToSet
<1>6. IsInjective(t) <=> IsInjective(s) /\ x \notin ToSet(s)
  BY <1>2, <1>3, <1>4 DEF ToSet, IsInjective
<1> QED BY <1>5, <1>6 DEF t

LEMMA ConcatAppend ==
  ASSUME NEW S, NEW s \in Seq(S), NEW t \in Seq(S), NEW x \in S
  PROVE  s \o Append(t, x) = Append(s \o t, x)
<1>1. <<x>> \in Seq(S) /\ s \o t \in Seq(S)
  BY ConcatProperties
<1>2. Append(t, x) = t \o <<x>> /\ Append(s \o t, x) = (s \o t) \o <<x>>
  BY <1>1, AppendIsConcat
<1>3. (s \o t) \o <<x>> = s \o (t \o <<x>>)
  BY <1>1, ConcatAssociative
<1> QED BY <1>2, <1>3

\* They are rows of the table, all but those of users who are gone.
LEMMA WithoutSet ==
  ASSUME NEW S, NEW s \in Seq(S), NEW gone
  PROVE  /\ Without(s, gone) \in Seq(S)
         /\ ToSet(Without(s, gone)) = ToSet(s) \ gone
         /\ IsInjective(s) => IsInjective(Without(s, gone))
<1> DEFINE Good(t) == /\ Without(t, gone) \in Seq(S)
                      /\ ToSet(Without(t, gone)) = ToSet(t) \ gone
                      /\ IsInjective(t) => IsInjective(Without(t, gone))
           T == {n \in Nat : \E t \in Seq(S) : Len(t) = n /\ ~Good(t)}
<1>1. SUFFICES ASSUME T # {} PROVE FALSE
  <2>1. Len(s) \in Nat
    BY LenProperties
  <2> QED BY <2>1
<1>2. PICK m \in T : \A k \in T : m <= k
  BY <1>1, Smallest
<1>3. PICK t \in Seq(S) : Len(t) = m /\ ~Good(t)
  BY <1>2
<1>4. t # <<>>
  <2>1. <<>> \in Seq(S) /\ ToSet(<<>>) = {} /\ IsInjective(<<>>)
    BY DEF ToSet, IsInjective
  <2>2. Good(<<>>)
    BY <2>1, WithoutEmpty
  <2> QED BY <1>3, <2>2
<1>5. PICK r \in Seq(S), x \in S : t = Append(r, x)
  BY <1>4, SequenceEmptyOrAppend
<1>6. Len(r) = m - 1 /\ m - 1 \in Nat
  BY <1>3, <1>5, AppendProperties, LenProperties
<1>7. Good(r)
  <2>1. ~(m <= m - 1)
    BY <1>6
  <2> QED BY <1>2, <1>6, <2>1
<1>8. /\ ToSet(t) = ToSet(r) \cup {x}
      /\ IsInjective(t) => IsInjective(r) /\ x \notin ToSet(r)
  BY <1>5, AppendFact
<1>9. CASE x \in gone
  BY <1>5, <1>3, <1>7, <1>8, <1>9, WithoutAppend
<1>10. CASE x \notin gone
  <2>1. Without(t, gone) = Append(Without(r, gone), x)
    BY <1>5, <1>10, WithoutAppend
  <2>2. /\ Without(t, gone) \in Seq(S)
        /\ ToSet(Without(t, gone)) = ToSet(Without(r, gone)) \cup {x}
        /\ IsInjective(Without(r, gone)) /\ x \notin ToSet(Without(r, gone)) => IsInjective(Without(t, gone))
    BY <1>7, <2>1, AppendProperties, AppendFact
  <2> QED BY <1>3, <1>7, <1>8, <1>10, <2>2
<1> QED BY <1>9, <1>10

\* Parts of a table can be taken one after the other.
LEMMA WithoutConcat ==
  ASSUME NEW S, NEW s \in Seq(S), NEW gone, NEW w \in Seq(S)
  PROVE  Without(s \o w, gone) = Without(s, gone) \o Without(w, gone)
<1> DEFINE Good(t) == Without(s \o t, gone) = Without(s, gone) \o Without(t, gone)
           T == {n \in Nat : \E t \in Seq(S) : Len(t) = n /\ ~Good(t)}
<1>0. Without(s, gone) \in Seq(S)
  BY WithoutSet
<1>1. SUFFICES ASSUME T # {} PROVE FALSE
  <2>1. Len(w) \in Nat
    BY LenProperties
  <2> QED BY <2>1
<1>2. PICK m \in T : \A k \in T : m <= k
  BY <1>1, Smallest
<1>3. PICK t \in Seq(S) : Len(t) = m /\ ~Good(t)
  BY <1>2
<1>4. t # <<>>
  <2>1. s \o <<>> = s /\ Without(s, gone) \o <<>> = Without(s, gone)
    BY <1>0, ConcatEmptySeq
  <2> QED BY <1>3, <2>1, WithoutEmpty
<1>5. PICK r \in Seq(S), x \in S : t = Append(r, x)
  BY <1>4, SequenceEmptyOrAppend
<1>6. Len(r) = m - 1 /\ m - 1 \in Nat
  BY <1>3, <1>5, AppendProperties, LenProperties
<1>7. Good(r)
  <2>1. ~(m <= m - 1)
    BY <1>6
  <2> QED BY <1>2, <1>6, <2>1
<1>8. s \o t = Append(s \o r, x) /\ s \o r \in Seq(S)
  BY <1>5, ConcatAppend, ConcatProperties
<1>9. Without(r, gone) \in Seq(S)
  BY WithoutSet
<1>10. CASE x \in gone
  <2>1. Without(Append(s \o r, x), gone) = Without(s \o r, gone)
    BY <1>8, <1>10, WithoutAppend
  <2>2. Without(Append(r, x), gone) = Without(r, gone)
    BY <1>10, WithoutAppend
  <2> QED BY <1>3, <1>5, <1>7, <1>8, <2>1, <2>2
<1>11. CASE x \notin gone
  <2>1. \A q \in Seq(S) : Without(Append(q, x), gone) = Append(Without(q, gone), x)
    BY <1>11, WithoutAppend
  <2>2. Without(s \o t, gone) = Append(Without(s \o r, gone), x)
    BY <1>8, <2>1, Zenon
  <2>3. Without(t, gone) = Append(Without(r, gone), x)
    BY <1>5, <2>1, Zenon
  <2>4. Without(s, gone) \o Append(Without(r, gone), x) = Append(Without(s, gone) \o Without(r, gone), x)
    BY <1>0, <1>9, ConcatAppend
  <2> QED BY <1>3, <1>7, <2>2, <2>3, <2>4
<1> QED BY <1>10, <1>11

-----------------------------------------------------------------------------
(* Pages                                                                   *)

\* The rows of the first k pages.
Upto(rows, k) == SubSeq(rows, 1, IF k * PageSize < Len(rows) THEN k * PageSize ELSE Len(rows))

\* What comes after them.
After(rows, k) ==
  SubSeq(rows, (IF k * PageSize < Len(rows) THEN k * PageSize ELSE Len(rows)) + 1, Len(rows))

\* A page is behind those before it; when it is empty these are all there is, and else
\* its number is not larger than that of the rows.
LEMMA PageFact ==
  ASSUME NEW S, NEW rows \in Seq(S), NEW k \in Nat \ {0}
  PROVE  /\ PageOf(rows, k) \in Seq(S) /\ Upto(rows, k - 1) \in Seq(S) /\ Upto(rows, k) \in Seq(S)
         /\ Upto(rows, k - 1) \o PageOf(rows, k) = Upto(rows, k)
         /\ PageOf(rows, k) = <<>> => Upto(rows, k - 1) = rows
         /\ PageOf(rows, k) # <<>> => k \in 1..Len(rows)
         /\ After(rows, k - 1) \in Seq(S) /\ Upto(rows, k - 1) \o After(rows, k - 1) = rows
<1>0. PageSize \in Nat /\ PageSize > 0
  BY UserTableAssumption
<1>1. PICK at \in Nat : at = (k - 1) * PageSize /\ k * PageSize = at + PageSize
  <2>1. PICK j \in Nat : k = j + 1
    <3>1. k - 1 \in Nat /\ k = (k - 1) + 1
      OBVIOUS
    <3> QED BY <3>1
  <2>2. j * PageSize \in Nat /\ (j + 1) * PageSize = j * PageSize + PageSize /\ k - 1 = j
    BY <1>0, <2>1
  <2> QED BY <2>1, <2>2
<1>2. at >= k - 1
  <2>1. PICK j \in Nat, q \in Nat : k = j + 1 /\ PageSize = q + 1
    <3>1. k - 1 \in Nat /\ k = (k - 1) + 1 /\ PageSize - 1 \in Nat /\ PageSize = (PageSize - 1) + 1
      BY <1>0
    <3> QED BY <3>1
  <2>2. j * (q + 1) = j * q + j /\ j * q \in Nat
    BY <2>1
  <2>3. at = j * (q + 1) /\ k - 1 = j
    BY <1>1, <2>1
  <2> QED BY <2>2, <2>3
<1>3. PICK len \in Nat : len = Len(rows) /\ DOMAIN rows = 1..len
  BY LenProperties
<1>4. PICK end \in Nat : end = IF at + PageSize < len THEN at + PageSize ELSE len
  BY <1>0
<1>5. PICK mid \in Nat : mid = IF at < len THEN at ELSE len
  OBVIOUS
<1>6. /\ PageOf(rows, k) = SubSeq(rows, at + 1, end)
      /\ Upto(rows, k - 1) = SubSeq(rows, 1, mid)
      /\ Upto(rows, k) = SubSeq(rows, 1, end)
      /\ After(rows, k - 1) = SubSeq(rows, mid + 1, len)
  BY <1>1, <1>3, <1>4, <1>5, Zenon DEF PageOf, Upto, After
<1>7. end <= len /\ mid <= len /\ mid <= end
  BY <1>0, <1>4, <1>5
<1>8. \A m \in Nat, n \in Nat : m >= 1 /\ n <= len => SubSeq(rows, m, n) \in Seq(S)
  <2> TAKE m \in Nat, n \in Nat
  <2> HAVE m >= 1 /\ n <= len
  <2>1. \A i \in m..n : rows[i] \in S
    BY <1>3, ElementOfSeq
  <2> QED BY <2>1, SubSeqProperties
<1>9. /\ SubSeq(rows, at + 1, end) \in Seq(S) /\ SubSeq(rows, 1, mid) \in Seq(S)
      /\ SubSeq(rows, 1, end) \in Seq(S) /\ SubSeq(rows, mid + 1, len) \in Seq(S)
  <2>1. PICK a \in Nat, b \in Nat, o \in Nat : a = at + 1 /\ b = mid + 1 /\ o = 1
    OBVIOUS
  <2>2. a >= 1 /\ b >= 1 /\ o >= 1 /\ len <= len
    BY <2>1
  <2>3. /\ SubSeq(rows, a, end) \in Seq(S) /\ SubSeq(rows, o, mid) \in Seq(S)
        /\ SubSeq(rows, o, end) \in Seq(S) /\ SubSeq(rows, b, len) \in Seq(S)
    BY <1>7, <1>8, <2>2, Zenon
  <2> QED BY <2>1, <2>3
<1>10. SubSeq(rows, 1, len) = rows
  BY <1>3, SubSeqFull
<1>11. SubSeq(rows, 1, mid) \o SubSeq(rows, mid + 1, len) = rows
  <2>1. 1 \in 1..(len + 1) /\ mid \in (1 - 1)..len /\ len \in mid..len
    BY <1>7
  <2> QED BY <1>3, <1>10, <2>1, ConcatAdjacentSubSeq
<1>12. CASE at < len
  <2>1. mid = at /\ 1 \in 1..(len + 1) /\ at \in (1 - 1)..len /\ end \in at..len /\ at + 1 <= end
    BY <1>0, <1>4, <1>5, <1>12
  <2>2. SubSeq(rows, 1, mid) \o SubSeq(rows, at + 1, end) = SubSeq(rows, 1, end)
    BY <1>3, <2>1, ConcatAdjacentSubSeq
  <2>3. SubSeq(rows, at + 1, end) # <<>>
    <3>1. Len(SubSeq(rows, at + 1, end)) = end - (at + 1) + 1
      <4>1. \A i \in (at + 1)..end : rows[i] \in S
        BY <1>3, <1>7, ElementOfSeq
      <4> QED BY <2>1, <4>1, SubSeqProperties
    <3>2. Len(<<>>) = 0
      OBVIOUS
    <3>3. end - (at + 1) + 1 # 0
      BY <2>1
    <3> QED BY <3>1, <3>2, <3>3, Zenon
  <2>4. k \in 1..Len(rows)
    BY <1>2, <1>3, <1>12
  <2> QED BY <1>3, <1>6, <1>9, <1>11, <2>2, <2>3, <2>4
<1>13. CASE ~(at < len)
  <2>1. mid = len /\ end = len /\ len < at + 1
    BY <1>0, <1>4, <1>5, <1>13
  <2>2. SubSeq(rows, at + 1, end) = <<>>
    BY <2>1, SubSeqEmpty
  <2> QED BY <1>6, <1>9, <1>10, <1>11, <2>1, <2>2, ConcatEmptySeq
<1> QED BY <1>12, <1>13

\* No page has been read.
LEMMA UptoNone ==
  ASSUME NEW S, NEW rows \in Seq(S)
  PROVE  Upto(rows, 0) = <<>>
<1>1. 0 * PageSize = 0
  BY UserTableAssumption
<1>2. (IF 0 * PageSize < Len(rows) THEN 0 * PageSize ELSE Len(rows)) = 0
  BY <1>1, LenProperties
<1>3. SubSeq(rows, 1, 0) = <<>>
  BY SubSeqEmpty
<1> QED BY <1>2, <1>3, Zenon DEF Upto

LEMMA PrefixFact ==
  ASSUME NEW S, NEW a \in Seq(S), NEW w \in Seq(S)
  PROVE  IsPrefix(a, a \o w)
<1>1. Len(a) \in Nat /\ Len(w) \in Nat /\ Len(a \o w) = Len(a) + Len(w)
  BY LenProperties, ConcatProperties
<1>2. SubSeq(a, 1, Len(a)) = a
  BY SubSeqFull
<1>3. SubSeq(a \o w, 1, Len(a)) = SubSeq(a, 1, Len(a))
  BY <1>1, SubSeqOfConcat1
<1> QED BY <1>1, <1>3 DEF IsPrefix

-----------------------------------------------------------------------------
(* The invariant                                                           *)

\* A process of a broadcast that has made its copy.
Copying(r) == r.pc = "fill" \/ r.call = "page"

\* What a process is at, and for whom.
Shape(r) ==
  /\ r.pc \in Calls => r.call = r.pc
  /\ r.pc = "fill" => r.call = "clone"
  /\ r.pc = "destroy" => r.call = "page"
  /\ r.op = "cast" <=> r.call \in {"number", "clone", "page"}
  /\ r.pc = "off" => r.op = "none"
  /\ r.pc # "off" /\ r.op # "cast" => r.user \in Users
  /\ r.page >= 1

TableOk(t) ==
  /\ t.rows # <<>> \/ t.index => t.there
  /\ t.index => IsInjective(t.rows)

\* The copy of a process is there as long as it works on it, or after a fault; it is
\* never opened as a table that has to be made.
CopyOk(r, copy, hurt) ==
  /\ ~copy.index /\ (copy.rows # <<>> => copy.there)
  /\ copy.there => hurt \/ Copying(r)
  /\ Copying(r) => copy.there /\ r.pc # "index"
  /\ r.pc = "create" /\ r.call = "page" => hurt

\* A broadcast has what is valid on the pages of its copy that it has read.
CastOk(r, copy) ==
  /\ r.call # "page" => r.got = <<>> /\ r.snap = <<>> /\ r.page = 1
  /\ r.call = "page" => copy.rows = r.snap /\ r.got = Valid(Upto(r.snap, r.page - 1))
  /\ r.pc = "destroy" /\ ~r.spoilt => Valid(PageOf(r.snap, r.page)) = <<>>

\* The table is there for who has opened it.
OpenOk(r, there) ==
  r.pc = "index" \/ (r.pc \in Calls /\ r.call # "page") \/ r.pc = "fill" => there

ProcOk(r, copy, hurt, there) ==
  Shape(r) /\ CopyOk(r, copy, hurt) /\ CastOk(r, copy) /\ OpenOk(r, there)

IInv ==
  /\ live \in TableType /\ temp \in [Procs -> TableType] /\ proc \in [Procs -> ProcType]
  /\ faults \in 0..MaxFaults /\ cut \subseteq Procs
  /\ TableOk(live)
  /\ \A p \in Procs : ProcOk(proc[p], temp[p], p \in cut, live.there)

LEMMA NewFact ==
  /\ Idle \in ProcType /\ Absent \in TableType /\ Created \in TableType
  /\ Absent = [there |-> FALSE, rows |-> <<>>, index |-> FALSE]
  /\ Created = [there |-> TRUE, rows |-> <<>>, index |-> FALSE]
<1>1. <<>> \in Seq(Users)
  OBVIOUS
<1>2. Created = [there |-> TRUE, rows |-> <<>>, index |-> FALSE]
  <2> DEFINE c == [Absent EXCEPT !.there = TRUE]
  <2>1. Absent \in [there : BOOLEAN, rows : Seq(Users), index : BOOLEAN]
    BY <1>1 DEF Absent
  <2>2. c \in [there : BOOLEAN, rows : Seq(Users), index : BOOLEAN]
    BY <2>1
  <2>3. c.there = TRUE /\ c.rows = <<>> /\ c.index = FALSE
    BY <2>1 DEF Absent
  <2> HIDE DEF c
  <2>4. c = [there |-> TRUE, rows |-> <<>>, index |-> FALSE]
    BY <2>2, <2>3
  <2> QED BY <2>4 DEF Created, c
<1>3. Absent \in TableType /\ Created \in TableType
  BY <1>1, <1>2 DEF Absent, TableType
<1>4. Idle \in ProcType
  BY <1>1 DEF Idle, ProcType, Calls
<1> QED BY <1>2, <1>3, <1>4 DEF Absent

\* What a fault leaves in the books.
LEMMA FaultFact ==
  ASSUME IInv, NEW p \in Procs, NoFault \/ Fault(p)
  PROVE  /\ faults' \in 0..MaxFaults /\ cut' \subseteq Procs /\ cut \subseteq cut'
         /\ Fault(p) /\ proc[p].op = "cast" => p \in cut'
<1>1. faults \in 0..MaxFaults /\ MaxFaults \in Nat /\ cut \subseteq Procs
  BY UserTableAssumption DEF IInv
<1> QED BY <1>1 DEF NoFault, Fault

-----------------------------------------------------------------------------
(* One process moves                                                       *)

\* The others are as they were: the table may only have come to be, and their faults
\* are not forgotten.
LEMMA Move ==
  ASSUME IInv, NEW p \in Procs, NEW r \in ProcType, NEW c \in TableType,
         proc' = [proc EXCEPT ![p] = r], temp' = [temp EXCEPT ![p] = c],
         live' \in TableType, TableOk(live'), live.there => live'.there,
         NoFault \/ Fault(p), ProcOk(r, c, p \in cut', live'.there)
  PROVE  IInv'
<1>1. proc' \in [Procs -> ProcType] /\ temp' \in [Procs -> TableType]
  BY DEF IInv
<1>2. faults' \in 0..MaxFaults /\ cut' \subseteq Procs /\ cut \subseteq cut'
  BY FaultFact
<1>3. ASSUME NEW q \in Procs PROVE ProcOk(proc'[q], temp'[q], q \in cut', live'.there)
  <2>1. CASE q = p
    <3>1. proc'[q] = r /\ temp'[q] = c
      BY <2>1 DEF IInv
    <3> QED BY <2>1, <3>1
  <2>2. CASE q # p
    <3>1. proc'[q] = proc[q] /\ temp'[q] = temp[q]
      BY <2>2 DEF IInv
    <3>2. ProcOk(proc[q], temp[q], q \in cut, live.there)
      BY DEF IInv
    <3>3. CopyOk(proc[q], temp[q], q \in cut')
      BY <1>2, <3>2 DEF ProcOk, CopyOk
    <3>4. OpenOk(proc[q], live'.there)
      BY <3>2 DEF ProcOk, OpenOk
    <3> QED BY <3>1, <3>2, <3>3, <3>4 DEF ProcOk
  <2> QED BY <2>1, <2>2
<1>4. TableOk(live)'
  BY DEF TableOk
<1> QED BY <1>1, <1>2, <1>3, <1>4 DEF IInv

\* What the invariant says of one process.
LEMMA Mine ==
  ASSUME IInv, NEW p \in Procs
  PROVE  /\ proc[p] \in ProcType /\ temp[p] \in TableType /\ live \in TableType
         /\ temp = [temp EXCEPT ![p] = temp[p]]
         /\ Shape(proc[p]) /\ CopyOk(proc[p], temp[p], p \in cut) /\ CastOk(proc[p], temp[p])
         /\ OpenOk(proc[p], live.there) /\ TableOk(live)
<1>1. ProcOk(proc[p], temp[p], p \in cut, live.there)
  BY DEF IInv
<1> QED BY <1>1 DEF IInv, ProcOk

\* A process ends.
LEMMA EndStep ==
  ASSUME IInv, NEW p \in Procs, End(p), NEW c \in TableType, temp' = [temp EXCEPT ![p] = c],
         ~c.index, c.rows # <<>> => c.there, c.there => p \in cut',
         live' \in TableType, TableOk(live'), live.there => live'.there, NoFault \/ Fault(p)
  PROVE  IInv'
<1>1. ProcOk(Idle, c, p \in cut', live'.there)
  BY DEF ProcOk, Shape, CopyOk, CastOk, OpenOk, Copying, Idle, Calls
<1> QED BY <1>1, NewFact, Move DEF End

\* A process goes on without touching a table.
LEMMA QuietStep ==
  ASSUME IInv, NEW p \in Procs, NEW r \in ProcType, proc' = [proc EXCEPT ![p] = r],
         UNCHANGED <<live, temp>>, NoFault \/ Fault(p), ProcOk(r, temp[p], p \in cut', live.there)
  PROVE  IInv'
  BY Mine, Move

\* A process of which the call at hand fails; it may have made the table all the same.
LEMMA CallFailsStep ==
  ASSUME IInv, NEW p \in Procs, CallFails(p), proc[p].pc \in {"count", "create", "index"},
         temp' = temp, live' \in TableType, TableOk(live'), live.there => live'.there,
         NoFault \/ Fault(p), proc[p].call = "page" => p \in cut'
  PROVE  IInv'
<1> DEFINE o == proc[p]
<1>1. /\ o \in ProcType /\ temp[p] \in TableType
      /\ temp' = [temp EXCEPT ![p] = temp[p]]
      /\ Shape(o) /\ CopyOk(o, temp[p], p \in cut) /\ CastOk(o, temp[p])
  BY Mine
<1>2. cut \subseteq cut'
  BY FaultFact
<1>3. CASE o.call = "number"
  <2> DEFINE r == [o EXCEPT !.pc = "count", !.call = "clone"]
  <2>1. proc' = [proc EXCEPT ![p] = r]
    BY <1>1, <1>3 DEF CallFails, Opening, IInv
  <2>2. r \in ProcType
    BY <1>1 DEF ProcType, Calls
  <2>3. /\ r.pc = "count" /\ r.call = "clone" /\ r.op = o.op /\ r.user = o.user /\ r.page = o.page
        /\ r.got = o.got /\ r.snap = o.snap
    BY <1>1 DEF ProcType
  <2> HIDE DEF r
  <2>4. Shape(r)
    BY <1>1, <1>3, <2>3 DEF Shape, Calls
  <2>5. CopyOk(r, temp[p], p \in cut')
    BY <1>1, <1>2, <1>3, <2>3 DEF CopyOk, Copying, Shape
  <2>6. CastOk(r, temp[p])
    BY <1>1, <1>3, <2>3 DEF CastOk
  <2>7. OpenOk(r, live'.there)
    BY <2>3 DEF OpenOk, Calls
  <2> QED BY <1>1, <2>1, <2>2, <2>4, <2>5, <2>6, <2>7, Move DEF ProcOk
<1>4. CASE o.call = "find" /\ o.op = "add"
  <2> DEFINE r == [o EXCEPT !.pc = "count", !.call = "insert"]
  <2>1. proc' = [proc EXCEPT ![p] = r]
    BY <1>1, <1>4 DEF CallFails, Opening, IInv
  <2>2. r \in ProcType
    BY <1>1 DEF ProcType, Calls
  <2>3. /\ r.pc = "count" /\ r.call = "insert" /\ r.op = o.op /\ r.user = o.user /\ r.page = o.page
        /\ r.got = o.got /\ r.snap = o.snap
    BY <1>1 DEF ProcType
  <2> HIDE DEF r
  <2>4. Shape(r)
    BY <1>1, <1>4, <2>3 DEF Shape, Calls
  <2>5. CopyOk(r, temp[p], p \in cut')
    BY <1>1, <1>2, <1>4, <2>3 DEF CopyOk, Copying, Shape
  <2>6. CastOk(r, temp[p])
    BY <1>1, <1>4, <2>3 DEF CastOk
  <2>7. OpenOk(r, live'.there)
    BY <2>3 DEF OpenOk, Calls
  <2> QED BY <1>1, <2>1, <2>2, <2>4, <2>5, <2>6, <2>7, Move DEF ProcOk
<1>5. CASE o.call # "number" /\ ~(o.call = "find" /\ o.op = "add")
  <2>1. End(p)
    BY <1>5 DEF CallFails
  <2>2. temp[p].there => p \in cut'
    BY <1>1, <1>2 DEF CopyOk, Copying
  <2> QED BY <1>1, <2>1, <2>2, EndStep DEF CopyOk
<1> QED BY <1>3, <1>4, <1>5

-----------------------------------------------------------------------------
(* The steps                                                               *)

LEMMA BeginStep ==
  ASSUME IInv, NEW p \in Procs, Begin(p)
  PROVE  IInv'
<1> DEFINE o == proc[p]
<1>1. /\ o \in ProcType /\ o.pc = "off" /\ NoFault /\ UNCHANGED <<live, temp>> /\ cut' = cut
      /\ Shape(o) /\ CopyOk(o, temp[p], p \in cut) /\ CastOk(o, temp[p])
  BY Mine DEF Begin, At, NoFault
<1>2. PICK op \in {"add", "del", "drop", "cast"}, u \in Users \cup {NoUser},
           call \in {"find", "delete", "number"} :
        /\ proc' = [proc EXCEPT ![p] = [o EXCEPT !.op = op, !.user = u, !.pc = "count", !.call = call]]
        /\ op = "cast" <=> call = "number"
        /\ op # "cast" => u \in Users
  <2>1. CASE \E op \in {"add", "del", "drop"}, u \in Users \ Bad :
               proc' = [proc EXCEPT ![p].op = op, ![p].user = u, ![p].pc = "count",
                                  ![p].call = IF op = "drop" THEN "delete" ELSE "find"]
    <3>1. PICK op \in {"add", "del", "drop"}, u \in Users \ Bad :
               proc' = [proc EXCEPT ![p].op = op, ![p].user = u, ![p].pc = "count",
                                  ![p].call = IF op = "drop" THEN "delete" ELSE "find"]
      BY <2>1
    <3>2. PICK call \in {"find", "delete"} : call = IF op = "drop" THEN "delete" ELSE "find"
      OBVIOUS
    <3>3. proc' = [proc EXCEPT ![p] = [o EXCEPT !.op = op, !.user = u, !.pc = "count", !.call = call]]
      BY <3>1, <3>2 DEF IInv
    <3>4. op # "cast" /\ call # "number"
      OBVIOUS
    <3> QED BY <3>3, <3>4
  <2>2. CASE proc' = [proc EXCEPT ![p].op = "cast", ![p].pc = "count", ![p].call = "number"]
    <3>1. PICK u \in Users \cup {NoUser} : u = o.user
      BY <1>1 DEF ProcType
    <3>2. [o EXCEPT !.op = "cast", !.pc = "count", !.call = "number"]
            = [o EXCEPT !.op = "cast", !.user = u, !.pc = "count", !.call = "number"]
      BY <1>1, <3>1 DEF ProcType
    <3>3. proc' = [proc EXCEPT ![p] = [o EXCEPT !.op = "cast", !.pc = "count", !.call = "number"]]
      BY <2>2 DEF IInv
    <3>4. proc' = [proc EXCEPT ![p] = [o EXCEPT !.op = "cast", !.user = u, !.pc = "count", !.call = "number"]]
      BY <3>2, <3>3
    <3> QED BY <3>4
  <2> QED BY <2>1, <2>2 DEF Begin
<1> DEFINE r == [o EXCEPT !.op = op, !.user = u, !.pc = "count", !.call = call]
<1>3. r \in ProcType
  BY <1>1, <1>2 DEF ProcType, Calls
<1>4. /\ r.pc = "count" /\ r.call = call /\ r.op = op /\ r.user = u /\ r.page = o.page
      /\ r.got = o.got /\ r.snap = o.snap
  BY <1>1 DEF ProcType
<1> HIDE DEF r
<1>5. o.call # "page"
  BY <1>1 DEF CopyOk, Copying, Shape
<1>6. Shape(r)
  BY <1>1, <1>2, <1>4 DEF Shape, Calls
<1>7. CopyOk(r, temp[p], p \in cut')
  BY <1>1, <1>4, <1>5 DEF CopyOk, Copying
<1>8. CastOk(r, temp[p])
  BY <1>1, <1>4, <1>5 DEF CastOk
<1>9. OpenOk(r, live.there)
  BY <1>4 DEF OpenOk, Calls
<1> QED BY <1>1, <1>2, <1>3, <1>6, <1>7, <1>8, <1>9, QuietStep DEF ProcOk, r

LEMMA ConnectFailsStep ==
  ASSUME IInv, NEW p \in Procs, ConnectFails(p)
  PROVE  IInv'
<1>1. /\ proc[p].pc = "count" /\ Fault(p) /\ CallFails(p) /\ UNCHANGED <<live, temp>>
      /\ Shape(proc[p]) /\ live \in TableType /\ TableOk(live)
  BY Mine DEF ConnectFails, At
<1>2. proc[p].call = "page" => p \in cut'
  BY <1>1, FaultFact DEF Shape
<1> QED BY <1>1, <1>2, CallFailsStep DEF TableOk

\* A process goes to its next statement, for the same call.
LEMMA GoFact ==
  ASSUME IInv, NEW p \in Procs, NEW pc \in {"off", "count", "create", "index", "fill", "destroy"} \cup Calls,
         Go(p, pc)
  PROVE  \E r \in ProcType :
           /\ proc' = [proc EXCEPT ![p] = r] /\ r.pc = pc /\ r.call = proc[p].call
           /\ r.op = proc[p].op /\ r.user = proc[p].user /\ r.page = proc[p].page
           /\ r.got = proc[p].got /\ r.snap = proc[p].snap /\ r.spoilt = proc[p].spoilt
<1> DEFINE o == proc[p]
           r == [o EXCEPT !.pc = pc]
<1>1. o \in ProcType
  BY Mine
<1>2. r \in ProcType
  BY <1>1 DEF ProcType
<1>3. /\ r.pc = pc /\ r.call = o.call /\ r.op = o.op /\ r.user = o.user /\ r.page = o.page
      /\ r.got = o.got /\ r.snap = o.snap /\ r.spoilt = o.spoilt
  BY <1>1 DEF ProcType
<1>4. proc' = [proc EXCEPT ![p] = r]
  BY DEF Go, IInv
<1> QED BY <1>2, <1>3, <1>4

LEMMA CountStep ==
  ASSUME IInv, NEW p \in Procs, Count(p)
  PROVE  IInv'
<1> DEFINE o == proc[p]
<1>1. /\ o \in ProcType /\ o.pc = "count" /\ (NoFault \/ Fault(p)) /\ UNCHANGED <<live, temp>>
      /\ Shape(o) /\ CopyOk(o, temp[p], p \in cut) /\ CastOk(o, temp[p])
  BY Mine DEF Count, At
<1>2. cut \subseteq cut'
  BY <1>1, FaultFact
<1>3. PICK pc \in Calls \cup {"create"} :
        /\ Go(p, pc)
        /\ pc = "create" /\ o.call = "page" => p \in cut'
        /\ pc # "create" => pc = o.call /\ Table(p).there
  <2>1. CASE Table(p).there /\ Go(p, o.call) /\ NoFault
    <3>1. o.call \in Calls /\ o.call # "create"
      BY <1>1 DEF ProcType, Calls
    <3> QED BY <2>1, <3>1
  <2>2. CASE ~Table(p).there /\ Go(p, "create") /\ NoFault
    <3>1. o.call # "page"
      BY <1>1, <2>2 DEF Table, OnCopy, CopyOk, Copying
    <3> QED BY <2>2, <3>1
  <2>3. CASE Table(p).there /\ Go(p, "create") /\ Fault(p)
    <3>1. o.call = "page" => p \in cut'
      BY <1>1, <2>3, FaultFact DEF Shape
    <3> QED BY <2>3, <3>1
  <2> QED BY <2>1, <2>2, <2>3 DEF Count
<1>4. PICK r \in ProcType :
        /\ proc' = [proc EXCEPT ![p] = r] /\ r.pc = pc /\ r.call = o.call
        /\ r.op = o.op /\ r.user = o.user /\ r.page = o.page
        /\ r.got = o.got /\ r.snap = o.snap /\ r.spoilt = o.spoilt
  <2>1. pc \in {"off", "count", "create", "index", "fill", "destroy"} \cup Calls
    OBVIOUS
  <2> QED BY <1>3, <2>1, GoFact
<1>5. Shape(r)
  BY <1>1, <1>3, <1>4 DEF Shape, Calls
<1>6. CopyOk(r, temp[p], p \in cut')
  BY <1>1, <1>2, <1>3, <1>4 DEF CopyOk, Copying, Calls
<1>7. CastOk(r, temp[p])
  BY <1>1, <1>3, <1>4 DEF CastOk, Calls
<1>8. OpenOk(r, live.there)
  BY <1>3, <1>4 DEF OpenOk, Calls, Table, OnCopy
<1> QED BY <1>1, <1>4, <1>5, <1>6, <1>7, <1>8, QuietStep DEF ProcOk

LEMMA CreateStep ==
  ASSUME IInv, NEW p \in Procs, Create(p)
  PROVE  IInv'
<1> DEFINE o == proc[p]
<1>1. /\ o \in ProcType /\ o.pc = "create" /\ temp[p] \in TableType /\ live \in TableType
      /\ temp = [temp EXCEPT ![p] = temp[p]]
      /\ Shape(o) /\ CopyOk(o, temp[p], p \in cut) /\ CastOk(o, temp[p]) /\ TableOk(live)
  BY Mine DEF Create, At
<1>2. CASE Table(p).there
  <2>1. CallFails(p) /\ NoFault /\ UNCHANGED <<live, temp>>
    BY <1>2 DEF Create
  <2>2. o.call = "page" => p \in cut'
    BY <1>1, <2>1 DEF CopyOk, NoFault
  <2> QED BY <1>1, <2>1, <2>2, CallFailsStep DEF TableOk
<1>3. CASE ~Table(p).there
  <2>1. o.call # "page" /\ ~live.there
    BY <1>1, <1>3 DEF Table, OnCopy, CopyOk, Copying
  <2>2. TableOk(Created) /\ Created.there /\ Created \in TableType
    BY NewFact DEF TableOk
  <2>3. CASE Go(p, "index") /\ Becomes(p, Created) /\ NoFault
    <3>1. live' = Created /\ temp' = temp /\ cut' = cut
      BY <2>1, <2>3 DEF Becomes, OnCopy, NoFault
    <3>2. PICK r \in ProcType :
            /\ proc' = [proc EXCEPT ![p] = r] /\ r.pc = "index" /\ r.call = o.call
            /\ r.op = o.op /\ r.user = o.user /\ r.page = o.page
            /\ r.got = o.got /\ r.snap = o.snap /\ r.spoilt = o.spoilt
      BY <2>3, GoFact
    <3>3. Shape(r)
      BY <1>1, <3>2 DEF Shape, Calls
    <3>4. CopyOk(r, temp[p], p \in cut')
      BY <1>1, <2>1, <3>1, <3>2 DEF CopyOk, Copying
    <3>5. CastOk(r, temp[p])
      BY <1>1, <2>1, <3>2 DEF CastOk
    <3>6. OpenOk(r, live'.there)
      BY <2>2, <3>1 DEF OpenOk
    <3> QED BY <1>1, <2>2, <2>3, <3>1, <3>2, <3>3, <3>4, <3>5, <3>6, Move DEF ProcOk
  <2>4. CASE CallFails(p) /\ Fault(p) /\ (Becomes(p, Created) \/ UNCHANGED <<live, temp>>)
    <3>1. live' \in {live, Created} /\ temp' = temp
      BY <2>1, <2>4 DEF Becomes, OnCopy
    <3>2. live' \in TableType /\ TableOk(live') /\ (live.there => live'.there)
      BY <1>1, <2>2, <3>1
    <3> QED BY <1>1, <2>1, <2>4, <3>1, <3>2, CallFailsStep
  <2> QED BY <1>3, <2>3, <2>4 DEF Create
<1> QED BY <1>2, <1>3

LEMMA IndexStep ==
  ASSUME IInv, NEW p \in Procs, Index(p)
  PROVE  IInv'
<1> DEFINE o == proc[p]
           indexed == [live EXCEPT !.index = TRUE]
<1>1. /\ o \in ProcType /\ o.pc = "index" /\ temp[p] \in TableType /\ live \in TableType
      /\ temp = [temp EXCEPT ![p] = temp[p]]
      /\ Shape(o) /\ CopyOk(o, temp[p], p \in cut) /\ CastOk(o, temp[p]) /\ TableOk(live)
      /\ OpenOk(o, live.there)
  BY Mine DEF Index, At
<1>2. o.call # "page" /\ live.there /\ Table(p) = live
  BY <1>1 DEF Table, OnCopy, CopyOk, Copying, OpenOk
<1>3. indexed \in TableType /\ indexed.there = live.there /\ indexed.rows = live.rows /\ indexed.index
  BY <1>1 DEF TableType
<1> HIDE DEF indexed
<1>4. CASE IsInjective(live.rows) /\ Go(p, o.call) /\ Becomes(p, indexed) /\ NoFault
  <2>1. live' = indexed /\ temp' = temp /\ cut' = cut
    BY <1>2, <1>4 DEF Becomes, OnCopy, NoFault
  <2>2. o.call \in Calls
    BY <1>1 DEF ProcType
  <2>3. PICK r \in ProcType :
          /\ proc' = [proc EXCEPT ![p] = r] /\ r.pc = o.call /\ r.call = o.call
          /\ r.op = o.op /\ r.user = o.user /\ r.page = o.page
          /\ r.got = o.got /\ r.snap = o.snap /\ r.spoilt = o.spoilt
    <3>1. o.call \in {"off", "count", "create", "index", "fill", "destroy"} \cup Calls
      BY <2>2
    <3> QED BY <1>4, <3>1, GoFact, Zenon
  <2>4. Shape(r)
    BY <1>1, <2>2, <2>3 DEF Shape, Calls
  <2>5. CopyOk(r, temp[p], p \in cut')
    BY <1>1, <1>2, <2>1, <2>2, <2>3 DEF CopyOk, Copying, Calls
  <2>6. CastOk(r, temp[p])
    BY <1>1, <1>2, <2>2, <2>3 DEF CastOk, Calls
  <2>7. OpenOk(r, live'.there)
    BY <1>2, <1>3, <2>1 DEF OpenOk
  <2>8. TableOk(live')
    BY <1>2, <1>3, <1>4, <2>1 DEF TableOk
  <2> QED BY <1>1, <1>3, <1>4, <2>1, <2>3, <2>4, <2>5, <2>6, <2>7, <2>8, Move DEF ProcOk
<1>5. CASE IsInjective(live.rows) /\ CallFails(p) /\ Fault(p)
           /\ (Becomes(p, indexed) \/ UNCHANGED <<live, temp>>)
  <2>1. live' \in {live, indexed} /\ temp' = temp
    BY <1>2, <1>5 DEF Becomes, OnCopy
  <2>2. TableOk(indexed)
    BY <1>2, <1>3, <1>5 DEF TableOk
  <2>3. live' \in TableType /\ TableOk(live') /\ (live.there => live'.there)
    BY <1>1, <1>3, <2>1, <2>2
  <2> QED BY <1>1, <1>2, <1>5, <2>1, <2>3, CallFailsStep
<1>6. CASE CallFails(p) /\ NoFault /\ UNCHANGED <<live, temp>>
  BY <1>1, <1>2, <1>6, CallFailsStep DEF TableOk
<1> QED BY <1>2, <1>4, <1>5, <1>6 DEF Index, indexed

LEMMA FindStep ==
  ASSUME IInv, NEW p \in Procs, Find(p)
  PROVE  IInv'
<1> DEFINE o == proc[p]
<1>1. /\ o \in ProcType /\ o.pc = "find" /\ temp[p] \in TableType /\ live \in TableType
      /\ temp = [temp EXCEPT ![p] = temp[p]] /\ UNCHANGED <<live, temp>>
      /\ Shape(o) /\ CopyOk(o, temp[p], p \in cut) /\ CastOk(o, temp[p]) /\ TableOk(live)
  BY Mine DEF Find, At
<1>2. NoFault \/ Fault(p)
  BY DEF Find
<1>3. o.call = "find" /\ o.op # "cast" /\ cut \subseteq cut' /\ (temp[p].there => p \in cut')
  BY <1>1, <1>2, FaultFact DEF Shape, Calls, CopyOk, Copying
<1>4. CASE End(p)
  BY <1>1, <1>2, <1>3, <1>4, EndStep DEF CopyOk, TableOk
<1>5. ASSUME NEW call \in {"insert", "delete"}, Opening(p, call) PROVE IInv'
  <2> DEFINE r == [o EXCEPT !.pc = "count", !.call = call]
  <2>1. proc' = [proc EXCEPT ![p] = r]
    BY <1>5 DEF Opening, IInv
  <2>2. r \in ProcType
    BY <1>1 DEF ProcType, Calls
  <2>3. /\ r.pc = "count" /\ r.call = call /\ r.op = o.op /\ r.user = o.user /\ r.page = o.page
        /\ r.got = o.got /\ r.snap = o.snap
    BY <1>1 DEF ProcType
  <2> HIDE DEF r
  <2>4. Shape(r)
    BY <1>1, <1>3, <2>3 DEF Shape, Calls
  <2>5. CopyOk(r, temp[p], p \in cut')
    BY <1>1, <1>3, <2>3 DEF CopyOk, Copying
  <2>6. CastOk(r, temp[p])
    BY <1>1, <1>3, <2>3 DEF CastOk
  <2>7. OpenOk(r, live.there)
    BY <2>3 DEF OpenOk, Calls
  <2> QED BY <1>1, <1>2, <2>1, <2>2, <2>4, <2>5, <2>6, <2>7, QuietStep DEF ProcOk
<1>6. End(p) \/ Opening(p, "insert") \/ Opening(p, "delete")
  BY DEF Find
<1> QED BY <1>4, <1>5, <1>6

LEMMA InsertStep ==
  ASSUME IInv, NEW p \in Procs, Insert(p)
  PROVE  IInv'
<1> DEFINE o == proc[p]
           u == proc[p].user
           t == [live EXCEPT !.rows = Append(@, u)]
           known == \E i \in DOMAIN live.rows : live.rows[i] = u
<1>1. /\ o \in ProcType /\ o.pc = "insert" /\ temp[p] \in TableType /\ live \in TableType
      /\ temp = [temp EXCEPT ![p] = temp[p]] /\ temp' = temp /\ End(p)
      /\ Shape(o) /\ CopyOk(o, temp[p], p \in cut) /\ TableOk(live) /\ OpenOk(o, live.there)
  BY Mine DEF Insert, At
<1>2. NoFault \/ Fault(p)
  BY DEF Insert
<1>3. o.call = "insert" /\ u \in Users /\ live.there
  BY <1>1 DEF Shape, Calls, OpenOk
<1>4. temp[p].there => p \in cut'
  BY <1>1, <1>2, <1>3, FaultFact DEF CopyOk, Copying
<1>5. live' = live \/ (live' = t /\ ~(live.index /\ known))
  BY DEF Insert
<1>6. (t \in TableType /\ TableOk(t) /\ t.there) \/ (live.index /\ known)
  <2> SUFFICES ASSUME ~(live.index /\ known) PROVE t \in TableType /\ TableOk(t) /\ t.there
    OBVIOUS
  <2>1. live.rows \in Seq(Users) /\ live.there \in BOOLEAN /\ live.index \in BOOLEAN
    BY <1>1 DEF TableType
  <2>2. Append(live.rows, u) \in Seq(Users)
    BY <1>3, <2>1, AppendProperties
  <2>3. /\ t.there = live.there /\ t.index = live.index /\ t.rows = Append(live.rows, u)
        /\ t \in TableType
    BY <1>1, <2>2 DEF TableType
  <2>4. live.index => IsInjective(Append(live.rows, u))
    <3> SUFFICES ASSUME live.index PROVE IsInjective(Append(live.rows, u))
      OBVIOUS
    <3>1. u \notin ToSet(live.rows)
      BY Zenon DEF ToSet
    <3>2. IsInjective(live.rows)
      BY <1>1 DEF TableOk
    <3> QED BY <1>3, <2>1, <3>1, <3>2, AppendFact
  <2> HIDE DEF t
  <2> QED BY <1>3, <2>3, <2>4 DEF TableOk
<1> HIDE DEF t, known
<1>7. live' \in TableType /\ TableOk(live') /\ (live.there => live'.there)
  BY <1>1, <1>5, <1>6
<1> QED BY <1>1, <1>2, <1>4, <1>7, EndStep DEF CopyOk

LEMMA DeleteStep ==
  ASSUME IInv, NEW p \in Procs, Delete(p)
  PROVE  IInv'
<1> DEFINE o == proc[p]
           t == [live EXCEPT !.rows = Without(@, {proc[p].user})]
<1>1. /\ o \in ProcType /\ o.pc = "delete" /\ temp[p] \in TableType /\ live \in TableType
      /\ temp = [temp EXCEPT ![p] = temp[p]] /\ temp' = temp /\ End(p)
      /\ Shape(o) /\ CopyOk(o, temp[p], p \in cut) /\ TableOk(live) /\ OpenOk(o, live.there)
  BY Mine DEF Delete, At
<1>2. NoFault \/ Fault(p)
  BY DEF Delete
<1>3. o.call = "delete" /\ live.there
  BY <1>1 DEF Shape, Calls, OpenOk
<1>4. temp[p].there => p \in cut'
  BY <1>1, <1>2, <1>3, FaultFact DEF CopyOk, Copying
<1>5. live' \in {live, t}
  BY DEF Delete
<1>6. t \in TableType /\ TableOk(t) /\ t.there
  <2>1. live.rows \in Seq(Users) /\ live.there \in BOOLEAN /\ live.index \in BOOLEAN
    BY <1>1 DEF TableType
  <2>2. /\ Without(live.rows, {o.user}) \in Seq(Users)
        /\ IsInjective(live.rows) => IsInjective(Without(live.rows, {o.user}))
    BY <2>1, WithoutSet
  <2>3. /\ t.there = live.there /\ t.index = live.index /\ t.rows = Without(live.rows, {o.user})
        /\ t \in TableType
    BY <1>1, <2>2 DEF TableType
  <2> HIDE DEF t
  <2> QED BY <1>1, <1>3, <2>2, <2>3 DEF TableOk
<1> HIDE DEF t
<1>7. live' \in TableType /\ TableOk(live') /\ (live.there => live'.there)
  BY <1>1, <1>5, <1>6
<1> QED BY <1>1, <1>2, <1>4, <1>7, EndStep DEF CopyOk

LEMMA NumberStep ==
  ASSUME IInv, NEW p \in Procs, Number(p)
  PROVE  IInv'
<1> DEFINE o == proc[p]
           r == [o EXCEPT !.pc = "count", !.call = "clone"]
<1>1. /\ o \in ProcType /\ o.pc = "number" /\ UNCHANGED <<live, temp>> /\ (NoFault \/ Fault(p))
      /\ Shape(o) /\ CopyOk(o, temp[p], p \in cut) /\ CastOk(o, temp[p])
  BY Mine DEF Number, At
<1>2. o.call = "number" /\ cut \subseteq cut'
  BY <1>1, FaultFact DEF Shape, Calls
<1>3. proc' = [proc EXCEPT ![p] = r]
  BY DEF Number, Opening, IInv
<1>4. r \in ProcType
  BY <1>1 DEF ProcType, Calls
<1>5. /\ r.pc = "count" /\ r.call = "clone" /\ r.op = o.op /\ r.user = o.user /\ r.page = o.page
      /\ r.got = o.got /\ r.snap = o.snap
  BY <1>1 DEF ProcType
<1> HIDE DEF r
<1>6. Shape(r)
  BY <1>1, <1>2, <1>5 DEF Shape, Calls
<1>7. CopyOk(r, temp[p], p \in cut')
  BY <1>1, <1>2, <1>5 DEF CopyOk, Copying
<1>8. CastOk(r, temp[p])
  BY <1>1, <1>2, <1>5 DEF CastOk
<1>9. OpenOk(r, live.there)
  BY <1>5 DEF OpenOk, Calls
<1> QED BY <1>1, <1>3, <1>4, <1>6, <1>7, <1>8, <1>9, QuietStep DEF ProcOk

LEMMA CloneStep ==
  ASSUME IInv, NEW p \in Procs, Clone(p)
  PROVE  IInv'
<1> DEFINE o == proc[p]
<1>1. /\ o \in ProcType /\ o.pc = "clone" /\ live' = live /\ temp[p] \in TableType /\ live \in TableType
      /\ temp = [temp EXCEPT ![p] = temp[p]]
      /\ Shape(o) /\ CopyOk(o, temp[p], p \in cut) /\ CastOk(o, temp[p])
      /\ OpenOk(o, live.there) /\ TableOk(live)
  BY Mine DEF Clone, At
<1>2. o.call = "clone" /\ o.op = "cast" /\ live.there
  BY <1>1 DEF Shape, Calls, OpenOk
<1>3. Created \in TableType /\ Created.there /\ Created.rows = <<>> /\ ~Created.index
  BY NewFact
<1>4. CASE temp[p].there /\ End(p) /\ NoFault /\ temp' = temp
  <2>1. p \in cut'
    BY <1>1, <1>2, <1>4 DEF CopyOk, Copying, NoFault
  <2> QED BY <1>1, <1>4, <2>1, EndStep DEF CopyOk, TableOk
<1>5. CASE ~temp[p].there /\ Go(p, "fill") /\ temp' = [temp EXCEPT ![p] = Created] /\ NoFault
  <2>1. PICK r \in ProcType :
          /\ proc' = [proc EXCEPT ![p] = r] /\ r.pc = "fill" /\ r.call = o.call
          /\ r.op = o.op /\ r.user = o.user /\ r.page = o.page
          /\ r.got = o.got /\ r.snap = o.snap /\ r.spoilt = o.spoilt
    BY <1>5, GoFact
  <2>2. Shape(r)
    BY <1>1, <1>2, <2>1 DEF Shape, Calls
  <2>3. CopyOk(r, Created, p \in cut')
    BY <1>3, <2>1 DEF CopyOk, Copying
  <2>4. CastOk(r, Created)
    BY <1>1, <1>2, <2>1 DEF CastOk
  <2>5. OpenOk(r, live'.there)
    BY <1>1, <1>2 DEF OpenOk
  <2> QED BY <1>1, <1>3, <1>5, <2>1, <2>2, <2>3, <2>4, <2>5, Move DEF ProcOk, TableOk
<1>6. CASE End(p) /\ Fault(p) /\ temp' \in {temp, [temp EXCEPT ![p] = Created]}
  <2>1. p \in cut'
    BY <1>2, <1>6, FaultFact
  <2>2. CASE temp' = temp
    BY <1>1, <1>6, <2>1, <2>2, EndStep DEF CopyOk, TableOk
  <2>3. CASE temp' = [temp EXCEPT ![p] = Created]
    BY <1>1, <1>3, <1>6, <2>1, <2>3, EndStep DEF TableOk
  <2> QED BY <1>6, <2>2, <2>3
<1> QED BY <1>4, <1>5, <1>6 DEF Clone

LEMMA FillStep ==
  ASSUME IInv, NEW p \in Procs, Fill(p)
  PROVE  IInv'
<1> DEFINE o == proc[p]
           c == [temp[p] EXCEPT !.rows = live.rows]
<1>1. /\ o \in ProcType /\ o.pc = "fill" /\ live' = live /\ temp[p] \in TableType /\ live \in TableType
      /\ temp = [temp EXCEPT ![p] = temp[p]]
      /\ Shape(o) /\ CopyOk(o, temp[p], p \in cut) /\ CastOk(o, temp[p])
      /\ OpenOk(o, live.there) /\ TableOk(live)
  BY Mine DEF Fill, At
<1>2. o.call = "clone" /\ o.op = "cast" /\ live.there /\ temp[p].there
  BY <1>1 DEF Shape, Calls, OpenOk, CopyOk, Copying
<1>3. c \in TableType /\ c.there /\ c.rows = live.rows /\ ~c.index
  BY <1>1, <1>2 DEF TableType, CopyOk
<1>4. [temp EXCEPT ![p].rows = live.rows] = [temp EXCEPT ![p] = c]
  BY DEF IInv
<1> HIDE DEF c
<1>5. ASSUME temp' = [temp EXCEPT ![p] = c], NoFault,
             proc' = [proc EXCEPT ![p].pc = "count", ![p].call = "page", ![p].snap = live.rows]
      PROVE  IInv'
  <2> DEFINE r == [o EXCEPT !.pc = "count", !.call = "page", !.snap = live.rows]
  <2>1. proc' = [proc EXCEPT ![p] = r]
    BY <1>5 DEF IInv
  <2>2. live.rows \in Seq(Users)
    BY <1>1 DEF TableType
  <2>3. r \in ProcType
    BY <1>1, <2>2 DEF ProcType, Calls
  <2>4. /\ r.pc = "count" /\ r.call = "page" /\ r.op = o.op /\ r.user = o.user /\ r.page = o.page
        /\ r.got = o.got /\ r.snap = live.rows
    BY <1>1 DEF ProcType
  <2> HIDE DEF r
  <2>5. Shape(r)
    BY <1>1, <1>2, <2>4 DEF Shape, Calls
  <2>6. CopyOk(r, c, p \in cut')
    BY <1>3, <2>4 DEF CopyOk, Copying
  <2>7. CastOk(r, c)
    <3>1. o.got = <<>> /\ o.page = 1
      BY <1>1, <1>2 DEF CastOk
    <3>2. Valid(Upto(r.snap, r.page - 1)) = <<>>
      <4>1. Upto(live.rows, 0) = <<>>
        BY <2>2, UptoNone
      <4>2. r.page - 1 = 0
        BY <2>4, <3>1
      <4> QED BY <2>4, <4>1, <4>2, WithoutEmpty DEF Valid
    <3> QED BY <1>3, <2>4, <3>1, <3>2 DEF CastOk
  <2>8. OpenOk(r, live'.there)
    BY <1>1, <1>2 DEF OpenOk
  <2> QED BY <1>1, <1>3, <1>5, <2>1, <2>3, <2>5, <2>6, <2>7, <2>8, Move DEF ProcOk, TableOk
<1>6. ASSUME End(p), Fault(p), temp' \in {temp, [temp EXCEPT ![p] = c]}
      PROVE  IInv'
  <2>1. p \in cut'
    BY <1>2, <1>6, FaultFact
  <2>2. CASE temp' = temp
    BY <1>1, <1>6, <2>1, <2>2, EndStep DEF CopyOk, TableOk
  <2>3. CASE temp' = [temp EXCEPT ![p] = c]
    BY <1>1, <1>3, <1>6, <2>1, <2>3, EndStep DEF TableOk
  <2> QED BY <1>6, <2>2, <2>3
<1> QED BY <1>4, <1>5, <1>6 DEF Fill

LEMMA PageStep ==
  ASSUME IInv, NEW p \in Procs, Page(p)
  PROVE  IInv'
<1> DEFINE o == proc[p]
           users == Valid(PageOf(Source(p), proc[p].page))
<1>1. /\ o \in ProcType /\ o.pc = "page" /\ UNCHANGED <<live, temp>> /\ temp[p] \in TableType
      /\ Shape(o) /\ CopyOk(o, temp[p], p \in cut) /\ CastOk(o, temp[p])
  BY Mine DEF Page, At
<1>2. NoFault \/ Fault(p)
  BY DEF Page
<1>3. /\ o.call = "page" /\ cut \subseteq cut' /\ o.page \in Nat \ {0}
      /\ o.snap \in Seq(Users) /\ Source(p) = o.snap /\ o.got \in Seq(Users)
      /\ o.got = Valid(Upto(o.snap, o.page - 1))
  BY <1>1, <1>2, FaultFact DEF Shape, Calls, CastOk, Source, ProcType
<1>4. /\ PageOf(o.snap, o.page) \in Seq(Users) /\ Upto(o.snap, o.page - 1) \in Seq(Users)
      /\ Upto(o.snap, o.page - 1) \o PageOf(o.snap, o.page) = Upto(o.snap, o.page)
  BY <1>3, PageFact
<1>5. users \in Seq(Users) /\ o.got \o users = Valid(Upto(o.snap, o.page))
  <2>1. PICK a \in Seq(Users) : a = Upto(o.snap, o.page - 1)
    BY <1>4
  <2>2. PICK b \in Seq(Users) : b = PageOf(o.snap, o.page)
    BY <1>4
  <2>3. Without(a \o b, Bad) = Without(a, Bad) \o Without(b, Bad)
    BY WithoutConcat
  <2>4. Without(b, Bad) \in Seq(Users)
    BY WithoutSet
  <2>5. users = Without(b, Bad)
    BY <1>3, <2>2 DEF Valid
  <2>6. o.got = Without(a, Bad)
    BY <1>3, <2>1 DEF Valid
  <2>7. Valid(Upto(o.snap, o.page)) = Without(a \o b, Bad)
    BY <1>4, <2>1, <2>2 DEF Valid
  <2> HIDE DEF users, o
  <2> QED BY <2>3, <2>4, <2>5, <2>6, <2>7, Zenon
<1> HIDE DEF users
<1>6. CASE NoFault /\ users = <<>> /\ Go(p, "destroy")
  <2>1. PICK r \in ProcType :
          /\ proc' = [proc EXCEPT ![p] = r] /\ r.pc = "destroy" /\ r.call = o.call
          /\ r.op = o.op /\ r.user = o.user /\ r.page = o.page
          /\ r.got = o.got /\ r.snap = o.snap /\ r.spoilt = o.spoilt
    BY <1>6, GoFact
  <2>2. Shape(r)
    BY <1>1, <1>3, <2>1 DEF Shape, Calls
  <2>3. CopyOk(r, temp[p], p \in cut')
    BY <1>1, <1>3, <2>1 DEF CopyOk, Copying
  <2>4. CastOk(r, temp[p])
    BY <1>1, <1>3, <1>6, <2>1 DEF CastOk, users
  <2>5. OpenOk(r, live.there)
    BY <2>1 DEF OpenOk, Calls
  <2> QED BY <1>1, <1>6, <2>1, <2>2, <2>3, <2>4, <2>5, QuietStep DEF ProcOk
<1>7. ASSUME NoFault, proc' = [proc EXCEPT ![p].pc = "count", ![p].page = @ + 1,
                                           ![p].got = @ \o users]
      PROVE  IInv'
  <2> DEFINE r == [o EXCEPT !.pc = "count", !.page = o.page + 1, !.got = o.got \o users]
  <2>1. proc' = [proc EXCEPT ![p] = r]
    BY <1>7 DEF IInv
  <2>2. o.got \o users \in Seq(Users) /\ o.page + 1 \in Nat
    BY <1>3, <1>5, ConcatProperties
  <2>3. r \in ProcType
    BY <1>1, <2>2 DEF ProcType
  <2>4. /\ r.pc = "count" /\ r.call = o.call /\ r.op = o.op /\ r.user = o.user /\ r.page = o.page + 1
        /\ r.got = o.got \o users /\ r.snap = o.snap
    BY <1>1 DEF ProcType
  <2> HIDE DEF r
  <2>5. Shape(r)
    BY <1>1, <1>3, <2>4 DEF Shape, Calls
  <2>6. CopyOk(r, temp[p], p \in cut')
    BY <1>1, <1>3, <2>4 DEF CopyOk, Copying
  <2>7. CastOk(r, temp[p])
    <3>1. r.page - 1 = o.page
      BY <1>3, <2>4
    <3> QED BY <1>1, <1>3, <1>5, <2>4, <3>1 DEF CastOk
  <2>8. OpenOk(r, live.there)
    BY <2>4 DEF OpenOk, Calls
  <2> QED BY <1>1, <1>7, <2>1, <2>3, <2>5, <2>6, <2>7, <2>8, QuietStep DEF ProcOk
<1>8. ASSUME Fault(p), proc' = [proc EXCEPT ![p].pc = "destroy", ![p].spoilt = TRUE]
      PROVE  IInv'
  <2> DEFINE r == [o EXCEPT !.pc = "destroy", !.spoilt = TRUE]
  <2>1. proc' = [proc EXCEPT ![p] = r]
    BY <1>8 DEF IInv
  <2>2. r \in ProcType
    BY <1>1 DEF ProcType
  <2>3. /\ r.pc = "destroy" /\ r.call = o.call /\ r.op = o.op /\ r.user = o.user /\ r.page = o.page
        /\ r.got = o.got /\ r.snap = o.snap /\ r.spoilt
    BY <1>1 DEF ProcType
  <2> HIDE DEF r
  <2>4. Shape(r)
    BY <1>1, <1>3, <2>3 DEF Shape, Calls
  <2>5. CopyOk(r, temp[p], p \in cut')
    BY <1>1, <1>3, <2>3 DEF CopyOk, Copying
  <2>6. CastOk(r, temp[p])
    BY <1>1, <1>3, <2>3 DEF CastOk
  <2>7. OpenOk(r, live.there)
    BY <2>3 DEF OpenOk, Calls
  <2> QED BY <1>1, <1>8, <2>1, <2>2, <2>4, <2>5, <2>6, <2>7, QuietStep DEF ProcOk
<1> QED BY <1>6, <1>7, <1>8 DEF Page, users

LEMMA DestroyStep ==
  ASSUME IInv, NEW p \in Procs, Destroy(p)
  PROVE  IInv'
<1> DEFINE o == proc[p]
<1>1. /\ o.pc = "destroy" /\ live' = live /\ End(p) /\ temp[p] \in TableType /\ live \in TableType
      /\ temp = [temp EXCEPT ![p] = temp[p]]
      /\ Shape(o) /\ CopyOk(o, temp[p], p \in cut) /\ TableOk(live)
  BY Mine DEF Destroy, At
<1>2. o.op = "cast"
  BY <1>1 DEF Shape
<1>3. CASE temp' = [temp EXCEPT ![p] = Absent] /\ (NoFault \/ Fault(p))
  <2>1. Absent \in TableType /\ ~Absent.there /\ Absent.rows = <<>> /\ ~Absent.index
    BY NewFact
  <2> QED BY <1>1, <1>3, <2>1, EndStep DEF TableOk
<1>4. CASE temp' = temp /\ Fault(p)
  <2>1. p \in cut'
    BY <1>2, <1>4, FaultFact
  <2> QED BY <1>1, <1>4, <2>1, EndStep DEF CopyOk, TableOk
<1> QED BY <1>3, <1>4 DEF Destroy

LEMMA DieStep ==
  ASSUME IInv, NEW p \in Procs, Die(p)
  PROVE  IInv'
<1> DEFINE o == proc[p]
<1>1. /\ Fault(p) /\ UNCHANGED <<live, temp>> /\ End(p) /\ temp[p] \in TableType /\ live \in TableType
      /\ temp = [temp EXCEPT ![p] = temp[p]]
      /\ Shape(o) /\ CopyOk(o, temp[p], p \in cut) /\ TableOk(live)
  BY Mine DEF Die
<1>2. temp[p].there => p \in cut'
  <2>1. Copying(o) => o.op = "cast"
    BY <1>1 DEF Copying, Shape
  <2> QED BY <1>1, <2>1, FaultFact DEF CopyOk
<1> QED BY <1>1, <1>2, EndStep DEF CopyOk, TableOk

-----------------------------------------------------------------------------
(* The theorems                                                            *)

LEMMA InitIInv == Init => IInv
<1> SUFFICES ASSUME Init PROVE IInv
  OBVIOUS
<1>1. PICK rows \in BoundedSeq(Users, MaxRows), index \in BOOLEAN :
        /\ index => IsInjective(rows)
        /\ live \in {Absent, [there |-> TRUE, rows |-> rows, index |-> index]}
  BY DEF Init
<1>2. rows \in Seq(Users)
  <2>1. PICK m \in 0..MaxRows : rows \in [1..m -> Users]
    BY DEF BoundedSeq, SeqOf
  <2>2. m \in Nat
    BY <2>1, UserTableAssumption
  <2> QED BY <2>1, <2>2
<1>3. live \in TableType /\ TableOk(live)
  <2>1. CASE live = Absent
    BY <2>1, NewFact DEF TableOk
  <2>2. CASE live = [there |-> TRUE, rows |-> rows, index |-> index]
    BY <1>1, <1>2, <2>2 DEF TableType, TableOk
  <2> QED BY <1>1, <2>1, <2>2
<1>4. /\ temp = [p \in Procs |-> Absent] /\ proc = [p \in Procs |-> Idle]
      /\ faults \in 0..MaxFaults /\ cut = {}
  BY UserTableAssumption DEF Init
<1>5. \A there \in BOOLEAN : ProcOk(Idle, Absent, FALSE, there)
  BY NewFact DEF ProcOk, Shape, CopyOk, CastOk, OpenOk, Copying, Idle, Calls
<1>6. live.there \in BOOLEAN
  BY <1>3 DEF TableType
<1>7. \A p \in Procs : ProcOk(proc[p], temp[p], p \in cut, live.there)
  <2> TAKE p \in Procs
  <2>1. proc[p] = Idle /\ temp[p] = Absent /\ p \notin cut
    BY <1>4
  <2>2. ProcOk(Idle, Absent, p \in cut, live.there)
    BY NewFact, <2>1 DEF ProcOk, Shape, CopyOk, CastOk, OpenOk, Copying, Idle, Calls
  <2> QED BY <2>1, <2>2
<1> QED BY <1>3, <1>4, <1>7, NewFact DEF IInv

LEMMA NextIInv == IInv /\ [Next]_vars => IInv'
<1>1. ASSUME IInv, NEW p \in Procs, Begin(p) \/ Step(p) \/ ConnectFails(p) \/ Die(p)
      PROVE  IInv'
  <2>1. CASE Begin(p) \/ ConnectFails(p) \/ Die(p)
    BY <1>1, <2>1, BeginStep, ConnectFailsStep, DieStep
  <2>2. CASE Open(p)
    BY <1>1, <2>2, CountStep, CreateStep, IndexStep DEF Open
  <2>3. CASE Change(p)
    BY <1>1, <2>3, FindStep, InsertStep, DeleteStep DEF Change
  <2>4. CASE Cast(p)
    BY <1>1, <2>4, NumberStep, CloneStep, FillStep, PageStep, DestroyStep DEF Cast
  <2> QED BY <1>1, <2>1, <2>2, <2>3, <2>4 DEF Step
<1>2. ASSUME IInv, UNCHANGED vars PROVE IInv'
  BY <1>2 DEF vars, IInv, TableOk
<1> QED BY <1>1, <1>2 DEF Next

\* Of every process: what it is at, that its copy is there while it works on it, and that
\* a broadcast has what is valid on the pages it has read (DBStorage, MailingList::getAllUsers).
THEOREM Invariant == Spec => []IInv
  BY InitIInv, NextIInv, PTL DEF Spec

\* The types, the unique index, and that no copy is left behind but by a fault.
THEOREM Typing == Spec => []TypeOK
<1>1. IInv => TypeOK
  <2> SUFFICES ASSUME IInv PROVE TypeOK
    OBVIOUS
  <2>1. \A p \in Procs : CopyOk(proc[p], temp[p], p \in cut) /\ Shape(proc[p])
    BY Mine
  <2>2. \A t \in {live} \cup {temp[p] : p \in Procs} :
          /\ t.rows # <<>> \/ t.index => t.there
          /\ t.index => IsInjective(t.rows)
    BY <2>1 DEF IInv, CopyOk, TableOk
  <2>3. \A p \in Procs : temp[p].there => p \in cut \/ proc[p].op = "cast"
    BY <2>1 DEF CopyOk, Copying, Shape
  <2> QED BY <2>2, <2>3 DEF IInv, TypeOK, TablesOK
<1> QED BY <1>1, Invariant, PTL

\* A broadcast goes to the users of one moment, in one order, with pages of any size and
\* whatever other processes do to the table meanwhile.
THEOREM CastIsSnapshotHolds == Spec => []CastIsSnapshot
<1>1. IInv => CastIsSnapshot
  <2> SUFFICES ASSUME IInv, NEW p \in Procs
               PROVE  LET r == proc[p] IN
                      /\ IsPrefix(r.got, Valid(r.snap))
                      /\ r.pc = "destroy" /\ ~r.spoilt => r.got = Valid(r.snap) \/ BlankPage(r.snap)
    BY DEF CastIsSnapshot
  <2> DEFINE o == proc[p]
  <2>1. o \in ProcType /\ Shape(o) /\ CastOk(o, temp[p])
    BY Mine
  <2>2. o.snap \in Seq(Users) /\ o.page \in Nat \ {0}
    BY <2>1 DEF ProcType, Shape
  <2>3. CASE o.call # "page"
    <3>1. o.got = <<>> /\ Valid(o.snap) = <<>> /\ o.pc # "destroy"
      BY <2>1, <2>3, WithoutEmpty DEF CastOk, Shape, Valid
    <3>2. <<>> \in Seq(Users) /\ <<>> \o <<>> = <<>>
      OBVIOUS
    <3>3. IsPrefix(<<>>, <<>>)
      BY <3>2, PrefixFact
    <3> QED BY <3>1, <3>3
  <2>4. CASE o.call = "page"
    <3> DEFINE upto == Upto(o.snap, o.page - 1)
               page == PageOf(o.snap, o.page)
    <3>1. /\ upto \in Seq(Users) /\ o.got = Valid(upto)
          /\ page = <<>> => upto = o.snap
          /\ page # <<>> => o.page \in 1..Len(o.snap)
          /\ \E w \in Seq(Users) : upto \o w = o.snap
      <4>1. o.got = Valid(upto)
        BY <2>1, <2>4 DEF CastOk
      <4>2. /\ upto \in Seq(Users)
            /\ page = <<>> => upto = o.snap
            /\ page # <<>> => o.page \in 1..Len(o.snap)
            /\ \E w \in Seq(Users) : upto \o w = o.snap
        <5>1. PICK rows \in Seq(Users), k \in Nat \ {0} : rows = o.snap /\ k = o.page
          BY <2>2
        <5>2. /\ Upto(rows, k - 1) \in Seq(Users)
              /\ PageOf(rows, k) = <<>> => Upto(rows, k - 1) = rows
              /\ PageOf(rows, k) # <<>> => k \in 1..Len(rows)
          BY PageFact
        <5>3. After(rows, k - 1) \in Seq(Users) /\ Upto(rows, k - 1) \o After(rows, k - 1) = rows
          BY PageFact
        <5> QED BY <5>1, <5>2, <5>3
      <4> QED BY <4>1, <4>2
    <3>2. IsPrefix(o.got, Valid(o.snap))
      <4>1. PICK a \in Seq(Users) : a = upto
        BY <3>1
      <4>2. PICK w \in Seq(Users) : a \o w = o.snap
        BY <3>1, <4>1
      <4>3. Valid(o.snap) = Valid(a) \o Valid(w)
        <5>1. Valid(a \o w) = Valid(a) \o Valid(w)
          BY WithoutConcat DEF Valid
        <5> QED BY <4>2, <5>1
      <4>4. Valid(a) \in Seq(Users) /\ Valid(w) \in Seq(Users)
        BY WithoutSet DEF Valid
      <4>5. IsPrefix(Valid(a), Valid(a) \o Valid(w))
        BY <4>4, PrefixFact
      <4>6. o.got = Valid(a)
        BY <3>1, <4>1
      <4> QED BY <4>3, <4>5, <4>6
    <3>3. ASSUME o.pc = "destroy", ~o.spoilt
          PROVE  o.got = Valid(o.snap) \/ BlankPage(o.snap)
      <4>1. Valid(page) = <<>>
        BY <2>1, <3>3 DEF CastOk
      <4>2. CASE page = <<>>
        BY <3>1, <4>2
      <4>3. CASE page # <<>>
        BY <3>1, <4>1, <4>3 DEF BlankPage
      <4> QED BY <4>2, <4>3
    <3> QED BY <3>2, <3>3
  <2> QED BY <2>3, <2>4
<1> QED BY <1>1, Invariant, PTL

=============================================================================
