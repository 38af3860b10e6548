--------------------------- MODULE UserFileProofs ----------------------------
(***************************************************************************)
(* Proofs about the user file of a list, for any number of users and of    *)
(* processes, pages of any size, processes that die and disks that are     *)
(* full: changes that do not overlap are exact, and a copy that is made    *)
(* page by page of a file that changes meanwhile misses nobody who was     *)
(* there before.                                                           *)
(***************************************************************************)
EXTENDS UserFile, WellFoundedInduction, SequenceTheorems, TLAPS

-----------------------------------------------------------------------------
(* The invariant                                                           *)

\* Where each kind of process may be, and what it has then.
Shape(p, r) ==
  /\ p \in Adders => r.pc \in {"start", "opensrc", "append", "done"}
  /\ p \in Removers =>
       r.pc \in {"start", "opensrc", "opentmp", "read", "rename", "close", "done"}
  /\ p \in Copiers => r.pc \in {"start", "read", "done", "cut"}
  /\ p \in Changers /\ r.pc \notin {"start", "done"} => r.user \in Users
  /\ r.pc \in {"opentmp", "read"} => r.src \in Files
  /\ r.pc \in {"append", "rename", "close"} => r.dst \in Files
  /\ p \in Removers /\ r.pc = "read" => r.dst \in Files
  /\ p \in Copiers /\ r.pc = "start" => r.buffer = <<>> /\ r.page = 0

\* The file a remover is going to make is not there yet.
Early == {"start", "opensrc", "opentmp"}

NewFile(p) ==
  p \in Removers /\ proc[p].pc \in Early =>
    /\ name # p /\ temp # p
    /\ \A q \in Procs : proc[q].src # p /\ proc[q].dst # p

\* What bore the name of the user file once is never the temporary file again.
NotTemp(c) == c \in Copiers /\ proc[c].src # NoFile => proc[c].src # temp

TInv ==
  /\ TypeOK /\ lists \in [Copiers -> SUBSET SUBSET Users]
  /\ \A p \in Procs : Shape(p, proc[p]) /\ NewFile(p) /\ NotTemp(p)

\* The lines of the first k pages.
Upto(lines, k) ==
  SubSeq(lines, 1, IF k * PageSize < Len(lines) THEN k * PageSize ELSE Len(lines))

Alone == \A p, q \in Changers : Changing(p) /\ Changing(q) => p = q

\* A user who is added is not there.
AddOk(p) ==
  p \in Adders /\ Changing(p) =>
    /\ proc[p].user \notin ToSet(content[name])
    /\ proc[p].pc = "append" => proc[p].dst = name

\* A remover has copied what it has read, but for its user; it may have renamed the
\* new file, and not written all of it.
RemoveOk(p) ==
  LET r == proc[p]
      old == content[r.src]
      new == content[r.dst] \o r.buffer IN
  p \in Removers =>
    /\ r.pc \in Early => r.buffer = <<>> /\ r.page = 0 /\ r.offset = 0
    /\ r.pc \in {"opentmp", "read", "rename"} => r.src = name
    /\ r.pc \in {"read", "rename"} => r.dst = temp
    /\ r.pc \in {"read", "rename", "close"} => r.offset = Len(content[r.dst])
    /\ r.pc = "read" => new = Without(Upto(old, r.page), r.user)
    /\ r.pc = "rename" => new = Without(old, r.user)
    /\ r.pc = "close" =>
         r.dst = name /\ ToSet(new) = book \ {r.user} /\ IsInjective(new)

\* A copier has all lines of the pages it has read that were there when it began,
\* some of those that were added since, and none twice.
Reading(r, lines, seen) ==
  /\ IsInjective(lines) /\ ToSet(lines) \in seen
  /\ IsInjective(r.buffer)
  /\ \A x \in ToSet(r.buffer) : \E i \in DOMAIN lines : i <= r.page * PageSize /\ lines[i] = x
  /\ \E n \in 0..Len(lines) :
       /\ {lines[i] : i \in 1..n} \in seen
       /\ \A i \in 1..n : i <= r.page * PageSize => lines[i] \in ToSet(r.buffer)

ReadOk(c) ==
  c \in Copiers /\ At(c, "read") /\ c \notin torn =>
    /\ proc[c].src = name => \A p \in Removers : ~At(p, "close")
    /\ book \in lists[c]
    /\ Reading(proc[c], content[proc[c].src], lists[c])

\* A copier that is done has what it promises.
CopiedOk(c) ==
  c \in Copiers /\ proc[c].pc \in {"done", "cut"} /\ c \notin torn =>
    LET copied == ToSet(proc[c].buffer) IN
    /\ IsInjective(proc[c].buffer)
    /\ \E after \in lists[c] : copied \subseteq after
    /\ At(c, "done") => \E before \in lists[c] : before \subseteq copied

\* As long as no two changes have overlapped and none has failed half-way.
Calm ==
  /\ Alone
  /\ (\A p \in Removers : ~At(p, "close")) =>
       ToSet(content[name]) = book /\ IsInjective(content[name])
  /\ \A p \in Procs : AddOk(p) /\ RemoveOk(p) /\ ReadOk(p) /\ CopiedOk(p)

IInv == TInv /\ (~harm => Calm)

-----------------------------------------------------------------------------
(* The lines that are left when a user is taken out                        *)

\* A set of numbers has a smallest one.
LEMMA Smallest ==
  ASSUME NEW T \in SUBSET Nat, T # {}
  PROVE  \E m \in T : \A k \in T : m <= k
<1>1. IsWellFoundedOn(OpToRel(<, Nat), Nat)
  BY NatLessThanWellFounded, Zenon
<1>2. PICK m \in T : \A k \in T : <<k, m>> \notin OpToRel(<, Nat)
  BY <1>1, WFMin, Zenon
<1>3. \A k \in T : ~(k < m)
  BY <1>2, Zenon DEF OpToRel
<1> QED BY <1>3

\* What is kept of the first lines, for each number of them.
Keeps(f, lines, u, n) ==
  f = [k \in 0..n |-> IF k = 0 THEN <<>>
                      ELSE IF lines[k] = u THEN f[k - 1] ELSE Append(f[k - 1], lines[k])]

\* It is a function, and there is but one.
LEMMA KeepsFact ==
  ASSUME NEW lines, NEW u, NEW n \in Nat
  PROVE  \E f : Keeps(f, lines, u, n)
<1> DEFINE T == {k \in Nat : ~\E f : Keeps(f, lines, u, k)}
<1>1. SUFFICES ASSUME T # {} PROVE FALSE
  OBVIOUS
<1>2. PICK m \in T : \A k \in T : m <= k
  BY <1>1, Smallest
<1>3. m # 0
  <2>1. Keeps([k \in 0..0 |-> <<>>], lines, u, 0)
    BY DEF Keeps
  <2> QED BY <2>1
<1>4. PICK g : Keeps(g, lines, u, m - 1)
  <2>1. m - 1 \in Nat /\ ~(m <= m - 1)
    BY <1>3
  <2> QED BY <1>2, <2>1
<1> DEFINE f == [k \in 0..m |-> IF k < m THEN g[k]
                                ELSE IF lines[m] = u THEN g[m - 1] ELSE Append(g[m - 1], lines[m])]
<1>5. Keeps(f, lines, u, m)
  <2>1. \A k \in 0..(m - 1) : g[k] = IF k = 0 THEN <<>>
          ELSE IF lines[k] = u THEN g[k - 1] ELSE Append(g[k - 1], lines[k])
    BY <1>3, <1>4, Zenon DEF Keeps
  <2>2. \A k \in 0..m : f[k] = IF k = 0 THEN <<>>
          ELSE IF lines[k] = u THEN f[k - 1] ELSE Append(f[k - 1], lines[k])
    <3> TAKE k \in 0..m
    <3>1. CASE k = m
      <4>1. f[k] = (IF lines[m] = u THEN g[m - 1] ELSE Append(g[m - 1], lines[m]))
            /\ f[k - 1] = g[k - 1]
        BY <1>3, <3>1
      <4> QED BY <1>3, <3>1, <4>1
    <3>2. CASE k # m /\ k # 0
      <4>1. k \in 0..(m - 1) /\ k - 1 \in 0..(m - 1)
        BY <3>2
      <4>2. f[k] = g[k] /\ f[k - 1] = g[k - 1]
        BY <4>1
      <4> QED BY <2>1, <3>2, <4>1, <4>2
    <3>3. CASE k # m /\ k = 0
      <4>1. f[k] = g[k] /\ k \in 0..(m - 1)
        BY <1>3, <3>3
      <4> QED BY <2>1, <3>3, <4>1
    <3> QED BY <3>1, <3>2, <3>3
  <2>3. f = [k \in 0..m |-> f[k]]
    OBVIOUS
  <2> HIDE DEF f
  <2> QED BY <2>2, <2>3 DEF Keeps
<1> QED BY <1>5

LEMMA WithoutFact ==
  ASSUME NEW lines, Len(lines) \in Nat, NEW u
  PROVE  \E f : Keeps(f, lines, u, Len(lines)) /\ Without(lines, u) = f[Len(lines)]
<1> DEFINE kept == CHOOSE f : Keeps(f, lines, u, Len(lines))
<1>1. Keeps(kept, lines, u, Len(lines))
  BY KeepsFact
<1>2. Without(lines, u) = kept[Len(lines)]
  BY DEF Without, Keeps
<1> QED BY <1>1, <1>2

\* What is kept of some lines does not depend on those behind them.
LEMMA KeepsSame ==
  ASSUME NEW a, NEW b, NEW u, NEW n \in Nat, NEW k \in Nat, n <= k,
         \A i \in 1..n : a[i] = b[i],
         NEW f, NEW g, Keeps(f, a, u, n), Keeps(g, b, u, k)
  PROVE  f[n] = g[n]
<1> DEFINE T == {i \in Nat : i <= n /\ f[i] # g[i]}
<1>1. SUFFICES ASSUME T # {} PROVE FALSE
  OBVIOUS
<1>2. PICK m \in T : \A i \in T : m <= i
  BY <1>1, Smallest
<1>3. m \in 0..n /\ m \in 0..k /\ f[m] # g[m]
  BY <1>2
<1>4. /\ f[m] = IF m = 0 THEN <<>> ELSE IF a[m] = u THEN f[m - 1] ELSE Append(f[m - 1], a[m])
      /\ g[m] = IF m = 0 THEN <<>> ELSE IF b[m] = u THEN g[m - 1] ELSE Append(g[m - 1], b[m])
  BY <1>3, Zenon DEF Keeps
<1>5. m # 0
  BY <1>3, <1>4
<1>6. f[m - 1] = g[m - 1]
  <2>1. m - 1 \in Nat /\ m - 1 <= n /\ ~(m <= m - 1)
    BY <1>3, <1>5
  <2> QED BY <1>2, <2>1
<1>7. a[m] = b[m]
  BY <1>3, <1>5
<1> QED BY <1>3, <1>4, <1>5, <1>6, <1>7

LEMMA WithoutEmpty ==
  ASSUME NEW u
  PROVE  Without(<<>>, u) = <<>>
<1>1. PICK f : Keeps(f, <<>>, u, 0) /\ Without(<<>>, u) = f[0]
  <2>1. Len(<<>>) = 0
    OBVIOUS
  <2> QED BY <2>1, WithoutFact
<1>2. f[0] = <<>>
  BY <1>1 DEF Keeps
<1> QED BY <1>1, <1>2

LEMMA WithoutAppend ==
  ASSUME NEW S, NEW s \in Seq(S), NEW x \in S, NEW u
  PROVE  Without(Append(s, x), u) = IF x = u THEN Without(s, u) ELSE Append(Without(s, u), x)
<1> DEFINE t == Append(s, x)
           n == Len(s)
<1>1. /\ n \in Nat /\ Len(t) = n + 1 /\ t[n + 1] = x
      /\ \A i \in 1..n : t[i] = s[i]
  BY AppendProperties, LenProperties
<1> HIDE DEF t, n
<1>2. PICK f : Keeps(f, t, u, n + 1) /\ Without(t, u) = f[n + 1]
  <2>1. Len(t) \in Nat
    BY <1>1
  <2> QED BY <1>1, <2>1, WithoutFact
<1>3. PICK g : Keeps(g, s, u, n) /\ Without(s, u) = g[n]
  BY <1>1, WithoutFact DEF n
<1>4. g[n] = f[n]
  <2>1. \A i \in 1..n : s[i] = t[i]
    BY <1>1
  <2>2. n \in Nat /\ n + 1 \in Nat /\ n <= n + 1
    BY <1>1
  <2> QED BY <1>2, <1>3, <2>1, <2>2, KeepsSame
<1>5. f[n + 1] = IF t[n + 1] = u THEN f[n] ELSE Append(f[n], t[n + 1])
  <2>1. n + 1 \in 0..(n + 1) /\ n + 1 # 0 /\ (n + 1) - 1 = n
    BY <1>1
  <2>2. f[n + 1] = IF n + 1 = 0 THEN <<>>
                   ELSE IF t[n + 1] = u THEN f[(n + 1) - 1] ELSE Append(f[(n + 1) - 1], t[n + 1])
    BY <1>2, <2>1, Zenon DEF Keeps
  <2> QED BY <2>1, <2>2
<1> QED BY <1>1, <1>2, <1>3, <1>4, <1>5 DEF t

\* A line at the end.
LEMMA AppendFact ==
  ASSUME NEW S, NEW s \in Seq(S), NEW x \in S
  PROVE  /\ ToSet(Append(s, x)) = ToSet(s) \cup {x}
         /\ IsInjective(Append(s, x)) <=> IsInjective(s) /\ x \notin ToSet(s)
<1> DEFINE t == Append(s, x)
           n == Len(s)
<1>1. /\ n \in Nat /\ DOMAIN t = 1..(n + 1) /\ DOMAIN s = 1..n
      /\ t[n + 1] = x /\ \A i \in 1..n : t[i] = s[i]
  BY AppendProperties, LenProperties
<1> HIDE DEF t, n
<1>2. \A i \in DOMAIN t : i \in DOMAIN s \/ i = n + 1
  BY <1>1
<1>3. n + 1 \in DOMAIN t /\ n + 1 \notin DOMAIN s /\ DOMAIN s \subseteq DOMAIN t
  BY <1>1
<1>4. t[n + 1] = x /\ \A i \in DOMAIN s : t[i] = s[i]
  BY <1>1
<1>5. ToSet(t) = ToSet(s) \cup {x}
  BY <1>2, <1>3, <1>4 DEF ToSet
<1>6. IsInjective(t) <=> IsInjective(s) /\ x \notin ToSet(s)
  BY <1>2, <1>3, <1>4 DEF ToSet, IsInjective
<1> QED BY <1>5, <1>6 DEF t

LEMMA ConcatAppend ==
  ASSUME NEW S, NEW s \in Seq(S), NEW t \in Seq(S), NEW x \in S
  PROVE  s \o Append(t, x) = Append(s \o t, x)
<1>1. <<x>> \in Seq(S) /\ s \o t \in Seq(S)
  BY ConcatProperties
<1>2. Append(t, x) = t \o <<x>> /\ Append(s \o t, x) = (s \o t) \o <<x>>
  BY <1>1, AppendIsConcat
<1>3. (s \o t) \o <<x>> = s \o (t \o <<x>>)
  BY <1>1, ConcatAssociative
<1> QED BY <1>2, <1>3

\* The lines are lines of the file, in their order, all but those of the user.
LEMMA WithoutSet ==
  ASSUME NEW S, NEW s \in Seq(S), NEW u
  PROVE  /\ Without(s, u) \in Seq(S)
         /\ ToSet(Without(s, u)) = ToSet(s) \ {u}
         /\ IsInjective(s) => IsInjective(Without(s, u))
<1> DEFINE Good(t) == /\ Without(t, u) \in Seq(S)
                      /\ ToSet(Without(t, u)) = ToSet(t) \ {u}
                      /\ IsInjective(t) => IsInjective(Without(t, u))
           T == {n \in Nat : \E t \in Seq(S) : Len(t) = n /\ ~Good(t)}
<1>1. SUFFICES ASSUME T # {} PROVE FALSE
  <2>1. Len(s) \in Nat
    BY LenProperties
  <2> QED BY <2>1
<1>2. PICK m \in T : \A k \in T : m <= k
  BY <1>1, Smallest
<1>3. PICK t \in Seq(S) : Len(t) = m /\ ~Good(t)
  BY <1>2
<1>4. t # <<>>
  <2>1. <<>> \in Seq(S) /\ ToSet(<<>>) = {} /\ IsInjective(<<>>)
    BY DEF ToSet, IsInjective
  <2>2. Good(<<>>)
    BY <2>1, WithoutEmpty
  <2> QED BY <1>3, <2>2
<1>5. PICK r \in Seq(S), x \in S : t = Append(r, x)
  BY <1>4, SequenceEmptyOrAppend
<1>6. Len(r) = m - 1 /\ m - 1 \in Nat
  BY <1>3, <1>5, AppendProperties, LenProperties
<1>7. Good(r)
  <2>1. ~(m <= m - 1)
    BY <1>6
  <2> QED BY <1>2, <1>6, <2>1
<1>8. /\ ToSet(t) = ToSet(r) \cup {x}
      /\ IsInjective(t) => IsInjective(r) /\ x \notin ToSet(r)
  BY <1>5, AppendFact
<1>9. CASE x = u
  BY <1>5, <1>3, <1>7, <1>8, <1>9, WithoutAppend
<1>10. CASE x # u
  <2>1. Without(t, u) = Append(Without(r, u), x)
    BY <1>5, <1>10, WithoutAppend
  <2>2. /\ Without(t, u) \in Seq(S)
        /\ ToSet(Without(t, u)) = ToSet(Without(r, u)) \cup {x}
        /\ IsInjective(Without(r, u)) /\ x \notin ToSet(Without(r, u)) => IsInjective(Without(t, u))
    BY <1>7, <2>1, AppendProperties, AppendFact
  <2> QED BY <1>3, <1>7, <1>8, <1>10, <2>2
<1> QED BY <1>9, <1>10

\* Parts of a file can be copied one after the other.
LEMMA WithoutConcat ==
  ASSUME NEW S, NEW s \in Seq(S), NEW u, NEW w \in Seq(S)
  PROVE  Without(s \o w, u) = Without(s, u) \o Without(w, u)
<1> DEFINE Good(t) == Without(s \o t, u) = Without(s, u) \o Without(t, u)
           T == {n \in Nat : \E t \in Seq(S) : Len(t) = n /\ ~Good(t)}
<1>0. Without(s, u) \in Seq(S)
  BY WithoutSet
<1>1. SUFFICES ASSUME T # {} PROVE FALSE
  <2>1. Len(w) \in Nat
    BY LenProperties
  <2> QED BY <2>1
<1>2. PICK m \in T : \A k \in T : m <= k
  BY <1>1, Smallest
<1>3. PICK t \in Seq(S) : Len(t) = m /\ ~Good(t)
  BY <1>2
<1>4. t # <<>>
  <2>1. s \o <<>> = s /\ Without(s, u) \o <<>> = Without(s, u)
    BY <1>0, ConcatEmptySeq
  <2> QED BY <1>3, <2>1, WithoutEmpty
<1>5. PICK r \in Seq(S), x \in S : t = Append(r, x)
  BY <1>4, SequenceEmptyOrAppend
<1>6. Len(r) = m - 1 /\ m - 1 \in Nat
  BY <1>3, <1>5, AppendProperties, LenProperties
<1>7. Good(r)
  <2>1. ~(m <= m - 1)
    BY <1>6
  <2> QED BY <1>2, <1>6, <2>1
<1>8. s \o t = Append(s \o r, x) /\ s \o r \in Seq(S)
  BY <1>5, ConcatAppend, ConcatProperties
<1>9. Without(r, u) \in Seq(S)
  BY WithoutSet
<1>10. CASE x = u
  <2>1. Without(Append(s \o r, x), u) = Without(s \o r, u)
    BY <1>8, <1>10, WithoutAppend
  <2>2. Without(Append(r, x), u) = Without(r, u)
    BY <1>10, WithoutAppend
  <2> QED BY <1>3, <1>5, <1>7, <1>8, <2>1, <2>2
<1>11. CASE x # u
  <2>1. \A q \in Seq(S) : Without(Append(q, x), u) = Append(Without(q, u), x)
    BY <1>11, WithoutAppend
  <2>2. Without(s \o t, u) = Append(Without(s \o r, u), x)
    BY <1>8, <2>1, Zenon
  <2>3. Without(t, u) = Append(Without(r, u), x)
    BY <1>5, <2>1, Zenon
  <2>4. Without(s, u) \o Append(Without(r, u), x) = Append(Without(s, u) \o Without(r, u), x)
    BY <1>0, <1>9, ConcatAppend
  <2> QED BY <1>3, <1>7, <2>2, <2>3, <2>4
<1> QED BY <1>10, <1>11

-----------------------------------------------------------------------------
(* Pages                                                                   *)

Lines == Seq(Users \cup {NoUser})

PageOf(lines, k) ==
  SubSeq(lines, k * PageSize + 1,
         IF k * PageSize + PageSize < Len(lines) THEN k * PageSize + PageSize ELSE Len(lines))

PageSet(lines, k) ==
  {lines[i] : i \in {j \in DOMAIN lines : k * PageSize < j /\ j <= (k + 1) * PageSize}}

\* What a part of a file holds.
LEMMA SliceFact ==
  ASSUME NEW S, NEW s \in Seq(S), NEW m \in Nat, NEW n \in Nat, n <= Len(s)
  PROVE  /\ SubSeq(s, m + 1, n) \in Seq(S)
         /\ ToSet(SubSeq(s, m + 1, n)) = {s[i] : i \in (m + 1)..n}
         /\ SubSeq(s, m + 1, n) = <<>> => n <= m
         /\ IsInjective(s) => IsInjective(SubSeq(s, m + 1, n))
<1> DEFINE t == SubSeq(s, m + 1, n)
           l == n - (m + 1) + 1
<1>1. \A i \in (m + 1)..n : s[i] \in S /\ i \in DOMAIN s
  BY LenProperties, ElementOfSeq
<1>2. /\ t \in Seq(S)
      /\ Len(t) = IF m + 1 <= n THEN l ELSE 0
      /\ \A i \in 1..l : t[i] = s[(m + 1) + i - 1]
  BY <1>1, SubSeqProperties
<1>3. DOMAIN t = 1..Len(t)
  BY <1>2, LenProperties
<1> HIDE DEF t
<1>4. \A i \in DOMAIN t : m + i \in (m + 1)..n /\ t[i] = s[m + i] /\ m + i \in DOMAIN s
  <2> TAKE i \in DOMAIN t
  <2>1. i \in 1..l /\ m + 1 <= n
    BY <1>2, <1>3
  <2>2. t[i] = s[(m + 1) + i - 1] /\ (m + 1) + i - 1 = m + i /\ m + i \in (m + 1)..n
    BY <1>2, <2>1
  <2> QED BY <1>1, <2>2
<1>5. \A i \in (m + 1)..n : i - m \in DOMAIN t /\ t[i - m] = s[i]
  <2> TAKE i \in (m + 1)..n
  <2>1. i - m \in 1..l /\ m + 1 <= n /\ (m + 1) + (i - m) - 1 = i
    OBVIOUS
  <2> QED BY <1>2, <1>3, <2>1
<1>6. ToSet(t) = {s[i] : i \in (m + 1)..n}
  BY <1>4, <1>5 DEF ToSet
<1>7. t = <<>> => n <= m
  <2>1. Len(<<>>) = 0
    OBVIOUS
  <2> QED BY <1>2, <2>1
<1>8. IsInjective(s) => IsInjective(t)
  <2> SUFFICES ASSUME IsInjective(s), NEW i \in DOMAIN t, NEW j \in DOMAIN t, t[i] = t[j]
               PROVE  i = j
    BY Zenon DEF IsInjective
  <2>1. m + i = m + j
    BY <1>4 DEF IsInjective
  <2>2. i \in Nat /\ j \in Nat
    BY <1>2, <1>3
  <2> QED BY <2>1, <2>2
<1> QED BY <1>2, <1>6, <1>7, <1>8 DEF t

\* The pages of a file are its lines, in their order.
LEMMA PageFact ==
  ASSUME NEW S, NEW lines \in Seq(S), NEW k \in Nat
  PROVE  /\ PageOf(lines, k) \in Seq(S) /\ Upto(lines, k) \in Seq(S)
         /\ Upto(lines, k) \o PageOf(lines, k) = Upto(lines, k + 1)
         /\ PageOf(lines, k) = <<>> => Len(lines) <= k * PageSize /\ Upto(lines, k) = lines
         /\ ToSet(PageOf(lines, k)) = PageSet(lines, k)
         /\ IsInjective(lines) => IsInjective(PageOf(lines, k))
<1>1. PICK at \in Nat : at = k * PageSize
  BY UserFileAssumption
<1>2. PageSize \in Nat /\ PageSize > 0 /\ (k + 1) * PageSize = at + PageSize
  BY <1>1, UserFileAssumption
<1>3. PICK len \in Nat : len = Len(lines) /\ DOMAIN lines = 1..len
  BY LenProperties
<1>4. PICK end \in Nat : end = IF at + PageSize < len THEN at + PageSize ELSE len
  BY <1>2
<1>5. PICK mid \in Nat : mid = IF at < len THEN at ELSE len
  OBVIOUS
<1>6. /\ PageOf(lines, k) = SubSeq(lines, at + 1, end)
      /\ Upto(lines, k) = SubSeq(lines, 1, mid)
      /\ Upto(lines, k + 1) = SubSeq(lines, 1, end)
  BY <1>1, <1>2, <1>3, <1>4, <1>5, Zenon DEF PageOf, Upto
<1>7. end <= len /\ mid <= len /\ mid <= end
  BY <1>2, <1>4, <1>5
<1>8. /\ SubSeq(lines, at + 1, end) \in Seq(S)
      /\ ToSet(SubSeq(lines, at + 1, end)) = {lines[i] : i \in (at + 1)..end}
      /\ SubSeq(lines, at + 1, end) = <<>> => end <= at
      /\ IsInjective(lines) => IsInjective(SubSeq(lines, at + 1, end))
  BY <1>3, <1>7, SliceFact
<1>9. SubSeq(lines, 1, mid) \in Seq(S)
  <2>1. SubSeq(lines, 0 + 1, mid) \in Seq(S)
    BY <1>3, <1>7, SliceFact
  <2> QED BY <2>1
<1>10. (at + 1)..end = {j \in DOMAIN lines : at < j /\ j <= at + PageSize}
  BY <1>2, <1>3, <1>4
<1>11. end <= at => len <= at /\ mid = len
  BY <1>2, <1>4, <1>5
<1>12. SubSeq(lines, 1, len) = lines
  BY <1>3, SubSeqFull
<1>13. SubSeq(lines, 1, mid) \o SubSeq(lines, at + 1, end) = SubSeq(lines, 1, end)
  <2>1. CASE at < len
    <3>1. mid = at /\ 1 \in 1..(len + 1) /\ at \in (1 - 1)..len /\ end \in at..len
      BY <2>1, <1>2, <1>4, <1>5
    <3> QED BY <3>1, <1>3, ConcatAdjacentSubSeq
  <2>2. CASE ~(at < len)
    <3>1. mid = len /\ end = len /\ len < at + 1
      BY <2>2, <1>2, <1>4, <1>5
    <3>2. SubSeq(lines, at + 1, end) = <<>>
      BY <3>1, SubSeqEmpty
    <3> QED BY <3>1, <3>2, <1>12, ConcatEmptySeq
  <2> QED BY <2>1, <2>2
<1>14. ToSet(PageOf(lines, k)) = PageSet(lines, k)
  BY <1>1, <1>2, <1>6, <1>8, <1>10 DEF PageSet
<1> QED BY <1>1, <1>3, <1>6, <1>8, <1>9, <1>11, <1>12, <1>13, <1>14

LEMMA UptoNone ==
  ASSUME NEW S, NEW lines \in Seq(S)
  PROVE  Upto(lines, 0) = <<>>
<1>1. 0 * PageSize = 0
  BY UserFileAssumption
<1>2. (IF 0 * PageSize < Len(lines) THEN 0 * PageSize ELSE Len(lines)) = 0
  BY <1>1, LenProperties
<1>3. SubSeq(lines, 1, 0) = <<>>
  BY SubSeqEmpty
<1> QED BY <1>2, <1>3, Zenon DEF Upto

\* What is written at the end of a file is appended to it.
LEMMA OverwrittenFact ==
  ASSUME NEW lines \in Lines, NEW n \in Nat, NEW new \in Lines
  PROVE  /\ Overwritten(lines, n, new) \in Lines
         /\ n = Len(lines) => Overwritten(lines, n, new) = lines \o new
<1>1. PICK a \in Nat : a = Len(lines)
  BY LenProperties DEF Lines
<1>2. PICK b \in Nat : b = Len(new)
  BY LenProperties DEF Lines
<1>3. PICK len \in Nat : len = (IF n + b > a THEN n + b ELSE a)
  OBVIOUS
<1> DEFINE w == [i \in 1..len |->
                   IF i > n /\ i <= n + b THEN new[i - n]
                   ELSE IF i <= a THEN lines[i] ELSE NoUser]
<1>4. Overwritten(lines, n, new) = w
  BY <1>1, <1>2, <1>3, Zenon DEF Overwritten
<1>5. w \in [1..len -> Users \cup {NoUser}]
  <2>1. ASSUME NEW i \in 1..len, i > n /\ i <= n + b
        PROVE  new[i - n] \in Users \cup {NoUser}
    <3>1. i - n \in 1..Len(new)
      BY <1>2, <2>1
    <3> QED BY <3>1, ElementOfSeq DEF Lines
  <2>2. ASSUME NEW i \in 1..len, i <= a
        PROVE  lines[i] \in Users \cup {NoUser}
    <3>1. i \in 1..Len(lines)
      BY <1>1, <2>2
    <3> QED BY <3>1, ElementOfSeq DEF Lines
  <2> QED BY <2>1, <2>2
<1>6. w \in Lines /\ Len(w) = len
  <2>1. w \in Seq(Users \cup {NoUser})
    BY <1>5, SeqDef
  <2>2. DOMAIN w = 1..Len(w) /\ Len(w) \in Nat /\ DOMAIN w = 1..len
    BY <2>1, LenProperties
  <2>3. \A i, j \in Nat : 1..i = 1..j => i = j
    <3> TAKE i, j \in Nat
    <3> HAVE 1..i = 1..j
    <3>1. i # 0 => i \in 1..j
      OBVIOUS
    <3>2. j # 0 => j \in 1..i
      OBVIOUS
    <3> QED BY <3>1, <3>2
  <2> HIDE DEF w
  <2> QED BY <2>1, <2>2, <2>3 DEF Lines
<1>7. n = a => w = lines \o new
  <2> SUFFICES ASSUME n = a PROVE w = lines \o new
    OBVIOUS
  <2>1. /\ lines \o new \in Lines /\ Len(lines \o new) = a + b
        /\ \A i \in 1..(a + b) : (lines \o new)[i] = IF i <= a THEN lines[i] ELSE new[i - a]
    BY <1>1, <1>2, ConcatProperties DEF Lines
  <2>2. len = a + b
    BY <1>3
  <2>3. \A i \in 1..len : w[i] = IF i <= a THEN lines[i] ELSE new[i - a]
    BY <2>2
  <2> HIDE DEF w
  <2> QED BY <1>6, <2>1, <2>2, <2>3, SeqEqual DEF Lines
<1> QED BY <1>1, <1>4, <1>6, <1>7

\* The same facts for the lines of a file.
LEMMA LinesConcat ==
  ASSUME NEW a \in Lines, NEW b \in Lines
  PROVE  a \o b \in Lines
  BY ConcatProperties DEF Lines

LEMMA LinesAssoc ==
  ASSUME NEW a \in Lines, NEW b \in Lines, NEW c \in Lines
  PROVE  (a \o b) \o c = a \o (b \o c)
  BY ConcatAssociative DEF Lines

LEMMA LinesWithout ==
  ASSUME NEW a \in Lines, NEW b \in Lines, NEW v
  PROVE  Without(a \o b, v) = Without(a, v) \o Without(b, v)
  BY WithoutConcat DEF Lines

-----------------------------------------------------------------------------
(* One process moves                                                       *)

\* What every step leaves true of the processes and the files, whatever went wrong.
LEMMA MoveTInv ==
  ASSUME TInv, NEW p \in Procs, NEW r \in ProcType, proc' = [proc EXCEPT ![p] = r],
         Shape(p, r),
         p \in Removers /\ r.pc \in Early => proc[p].pc \in Early,
         r.src \in {proc[p].src, name}, r.dst \in {proc[p].dst, name, temp'},
         \/ temp' \in {temp, NoFile}
         \/ p \in Removers /\ proc[p].pc = "opentmp" /\ r.pc = "read" /\ temp' = p,
         name' = name \/ (temp # NoFile /\ name' = temp /\ temp' = NoFile),
         content' \in [Files -> Lines], faults' \in 0..MaxFaults, book' \subseteq Users,
         harm' \in BOOLEAN, torn' \subseteq Copiers, lists' \in [Copiers -> SUBSET SUBSET Users]
  PROVE  TInv'
<1>1. /\ name \in Files /\ temp \in Removers \cup {NoFile} /\ name # temp
      /\ proc \in [Procs -> ProcType]
      /\ \A q \in Procs : Shape(q, proc[q])
      /\ \A q \in Procs : NewFile(q)
      /\ \A q \in Procs : NotTemp(q)
  BY DEF TInv, TypeOK
<1>2. /\ proc' \in [Procs -> ProcType] /\ proc'[p] = r
      /\ \A q \in Procs : q # p => proc'[q] = proc[q]
  BY <1>1
<1>3. NoFile \notin Files /\ Removers \subseteq Files /\ Removers \subseteq Procs
  BY UserFileAssumption DEF Files, Procs, Changers
<1>4. p \in Removers /\ proc[p].pc \in Early => name # p /\ temp # p
  BY <1>1 DEF NewFile
<1>5. name' \in Files /\ temp' \in Removers \cup {NoFile} /\ name' # temp'
  BY <1>1, <1>3, <1>4 DEF Early
<1>6. \A q \in Procs : Shape(q, proc'[q])
  BY <1>1, <1>2
<1>7. ASSUME NEW q \in Removers, proc'[q].pc \in Early
      PROVE  /\ name' # q /\ temp' # q
             /\ \A o \in Procs : proc'[o].src # q /\ proc'[o].dst # q
  <2>1. q \in Procs /\ proc[q].pc \in Early /\ q # NoFile
    BY <1>2, <1>3, <1>7
  <2>2. name # q /\ temp # q /\ \A o \in Procs : proc[o].src # q /\ proc[o].dst # q
    BY <1>1, <2>1 DEF NewFile
  <2>3. temp' = p /\ r.pc = "read" => q # p
    BY <1>2, <1>7 DEF Early
  <2>4. name' # q /\ temp' # q
    BY <2>1, <2>2, <2>3
  <2>5. r.src # q /\ r.dst # q
    BY <2>2, <2>4
  <2> QED BY <1>2, <2>2, <2>4, <2>5
<1>8. ASSUME NEW c \in Copiers, proc'[c].src # NoFile
      PROVE  proc'[c].src # temp'
  <2>1. c \in Procs /\ c \notin Removers
    BY UserFileAssumption DEF Procs, Changers
  <2>2. proc'[c].src = proc[c].src \/ proc'[c].src = name
    BY <1>2, <2>1
  <2>3. proc[c].src # NoFile => proc[c].src # temp
    BY <1>1, <2>1 DEF NotTemp
  <2>4. p \in Removers /\ proc[p].pc = "opentmp" => proc[c].src # p /\ name # p
    BY <1>1, <2>1 DEF NewFile, Early
  <2> QED BY <1>1, <1>8, <2>2, <2>3, <2>4
<1>9. TypeOK'
  BY <1>2, <1>5 DEF TypeOK, Lines
<1>10. \A q \in Procs : NewFile(q)' /\ NotTemp(q)'
  BY <1>7, <1>8 DEF NewFile, NotTemp
<1> QED BY <1>6, <1>9, <1>10 DEF TInv

\* A change alone leaves the other changes as they are.
LEMMA OthersKept ==
  ASSUME TInv, Calm, NEW p \in Changers, NEW r \in ProcType, proc' = [proc EXCEPT ![p] = r],
         Changing(p) \/ \A q \in Changers : ~Changing(q)
  PROVE  /\ Alone'
         /\ \A q \in Changers : q # p => AddOk(q)' /\ RemoveOk(q)' /\ ~Changing(q)
<1>1. /\ proc \in [Procs -> ProcType]
      /\ p \in Procs /\ Changers \subseteq Procs
  BY DEF TInv, TypeOK, Procs
<1>2. proc'[p] = r /\ \A q \in Procs : q # p => proc'[q] = proc[q]
  BY <1>1
<1>3. \A q \in Changers : q # p => ~Changing(q)
  BY DEF Calm, Alone
<1>4. \A q \in Changers : q # p => proc[q].pc \in {"start", "done"} /\ proc'[q] = proc[q]
  BY <1>1, <1>2, <1>3 DEF Changing
<1>5. Alone'
  BY <1>4 DEF Alone, Changing
<1>6. ASSUME NEW q \in Changers, q # p
      PROVE  AddOk(q)' /\ RemoveOk(q)'
  <2>1. RemoveOk(q)
    BY <1>1, <1>6 DEF Calm
  <2>2. proc'[q] = proc[q] /\ proc[q].pc \in {"start", "done"}
    BY <1>4, <1>6
  <2>3. AddOk(q)'
    BY <2>2 DEF AddOk, Changing
  <2>4. RemoveOk(q)'
    BY <2>1, <2>2 DEF RemoveOk, Early
  <2> QED BY <2>3, <2>4
<1> QED BY <1>3, <1>5, <1>6

\* A copy goes on when a process changes a file other than the one that is copied.
LEMMA CopierKept ==
  ASSUME TInv, Calm, NEW p \in Changers, NEW r \in ProcType, proc' = [proc EXCEPT ![p] = r],
         torn' = torn, NEW c \in Copiers, lists[c] \subseteq lists'[c],
         At(c, "read") => book' \in lists'[c],
         At(c, "read") /\ c \notin torn => content'[proc[c].src] = content[proc[c].src],
         At(c, "read") /\ c \notin torn /\ proc[c].src = name' =>
           proc[c].src = name /\ r.pc # "close"
  PROVE  ReadOk(c)' /\ CopiedOk(c)'
<1>1. /\ proc \in [Procs -> ProcType]
      /\ p \in Procs /\ c \in Procs /\ c # p /\ Removers \subseteq Procs
      /\ c \notin Adders /\ c \notin Removers
  BY UserFileAssumption DEF TInv, TypeOK, Procs, Changers
<1>2. proc'[p] = r /\ proc'[c] = proc[c] /\ \A q \in Procs : q # p => proc'[q] = proc[q]
  BY <1>1
<1>3. ReadOk(c) /\ CopiedOk(c)
  BY <1>1 DEF Calm
<1>4. CopiedOk(c)'
  BY <1>2, <1>3 DEF CopiedOk, At
<1>5. ASSUME At(c, "read"), c \notin torn
      PROVE  ReadOk(c)'
  <2>1. content'[proc[c].src] = content[proc[c].src] /\ book' \in lists'[c]
    BY <1>5
  <2>2. proc[c].src = name' => \A q \in Removers : ~At(q, "close")'
    <3> SUFFICES ASSUME proc[c].src = name', NEW q \in Removers
                 PROVE  proc'[q].pc # "close"
      BY Zenon DEF At
    <3>1. proc[c].src = name /\ r.pc # "close"
      BY <1>5
    <3>2. proc[q].pc # "close"
      BY <1>3, <1>5, <3>1 DEF ReadOk, At
    <3> QED BY <1>1, <1>2, <3>1, <3>2
  <2>3. Reading(proc[c], content[proc[c].src], lists[c])
    BY <1>3, <1>5 DEF ReadOk
  <2>4. Reading(proc[c], content[proc[c].src], lists'[c])
    BY <2>3, Zenon DEF Reading
  <2> QED BY <1>2, <2>1, <2>2, <2>4 DEF ReadOk
<1>6. ~(At(c, "read") /\ c \notin torn) => ReadOk(c)'
  BY <1>2 DEF ReadOk, At
<1> QED BY <1>4, <1>5, <1>6

\* The three facts of a step that make it a calm one.
LEMMA MoveCalm ==
  ASSUME TInv, Calm, NEW p \in Changers, NEW r \in ProcType, proc' = [proc EXCEPT ![p] = r],
         Changing(p) \/ \A q \in Changers : ~Changing(q),
         AddOk(p)' /\ RemoveOk(p)',
         \A c \in Copiers : ReadOk(c)' /\ CopiedOk(c)',
         r.pc # "close" => ToSet(content'[name']) = book' /\ IsInjective(content'[name']),
         r.pc = "close" => p \in Removers
  PROVE  Calm'
<1>1. /\ Alone'
      /\ \A q \in Changers : q # p => AddOk(q)' /\ RemoveOk(q)'
  BY OthersKept
<1>2. \A q \in Procs : (q \notin Copiers => q \in Changers) /\ (q \notin Changers => q \in Copiers)
      /\ (q \in Copiers => q \notin Adders /\ q \notin Removers)
  BY UserFileAssumption DEF Procs, Changers
<1>3. \A q \in Procs : AddOk(q)' /\ RemoveOk(q)'
  <2> TAKE q \in Procs
  <2>1. q \in Changers => AddOk(q)' /\ RemoveOk(q)'
    BY <1>1
  <2>2. q \in Copiers => AddOk(q)' /\ RemoveOk(q)'
    BY <1>2 DEF AddOk, RemoveOk
  <2> QED BY <1>2, <2>1, <2>2
<1>4. \A q \in Procs : ReadOk(q)' /\ CopiedOk(q)'
  BY <1>2 DEF ReadOk, CopiedOk
<1>5. (\A q \in Removers : ~At(q, "close"))' =>
        ToSet(content'[name']) = book' /\ IsInjective(content'[name'])
  <2>1. proc'[p] = r
    BY DEF TInv, TypeOK, Procs
  <2> QED BY <2>1 DEF At
<1> QED BY <1>1, <1>3, <1>4, <1>5 DEF Calm

\* A step that changes no file but the temporary one, and ends no change.
LEMMA QuietCalm ==
  ASSUME TInv, TInv', Calm, NEW p \in Changers, NEW r \in ProcType,
         proc' = [proc EXCEPT ![p] = r],
         name' = name, torn' = torn, book' = book, lists' = lists,
         \A f \in Files : f # temp' => content'[f] = content[f],
         Changing(p) \/ \A q \in Changers : ~Changing(q),
         proc[p].pc # "close", r.pc # "close",
         AddOk(p)' /\ RemoveOk(p)'
  PROVE  Calm'
<1>1. /\ proc \in [Procs -> ProcType] /\ name \in Files /\ name # temp'
      /\ p \in Procs /\ Removers \subseteq Changers /\ Changers \subseteq Procs
      /\ Copiers \subseteq Procs /\ NoFile \notin Files
  BY UserFileAssumption DEF TInv, TypeOK, Procs, Changers
<1>2. \A q \in Changers : q # p => ~Changing(q)
  BY OthersKept
<1>3. \A q \in Removers : ~At(q, "close")
  BY <1>1, <1>2 DEF Changing, At
<1>4. ToSet(content'[name']) = book' /\ IsInjective(content'[name'])
  <2>1. ToSet(content[name]) = book /\ IsInjective(content[name])
    BY <1>3 DEF Calm
  <2>2. content'[name] = content[name]
    BY <1>1
  <2> QED BY <2>1, <2>2
<1>5. ASSUME NEW c \in Copiers
      PROVE  ReadOk(c)' /\ CopiedOk(c)'
  <2>1. c \in Procs /\ c # p /\ proc'[c] = proc[c]
    BY <1>1, <1>5, UserFileAssumption
  <2>2. ReadOk(c)
    BY <2>1 DEF Calm
  <2>3. At(c, "read") => content'[proc[c].src] = content[proc[c].src]
    <3> SUFFICES ASSUME At(c, "read") PROVE content'[proc[c].src] = content[proc[c].src]
      OBVIOUS
    <3>1. proc[c].src \in Files
      BY <2>1 DEF TInv, Shape, At
    <3>2. NotTemp(c)'
      BY <2>1 DEF TInv
    <3>3. proc[c].src # temp'
      BY <1>1, <2>1, <3>1, <3>2 DEF NotTemp
    <3> QED BY <3>1, <3>3
  <2>4. At(c, "read") /\ c \notin torn => book' \in lists'[c]
    BY <2>2 DEF ReadOk
  <2>5. ReadOk(c)' /\ CopiedOk(c)'
    <3>1. CASE At(c, "read") => c \notin torn
      BY <2>3, <2>4, <3>1, CopierKept
    <3>2. CASE At(c, "read") /\ c \in torn
      BY <2>1, <3>2 DEF ReadOk, CopiedOk, At
    <3> QED BY <3>1, <3>2
  <2> QED BY <2>5
<1> QED BY <1>4, <1>5, MoveCalm

-----------------------------------------------------------------------------
(* The steps of a change                                                   *)

LEMMA StartAddStep ==
  ASSUME IInv, NEW p \in Adders, StartAdd(p)
  PROVE  IInv'
<1>1. /\ TInv /\ TypeOK /\ p \in Changers /\ p \in Procs /\ p \notin Removers /\ p \notin Copiers
      /\ proc \in [Procs -> ProcType] /\ proc[p] \in ProcType
  BY UserFileAssumption DEF IInv, TInv, TypeOK, Changers, Procs
<1>2. /\ proc[p].pc = "start"
      /\ UNCHANGED <<name, temp, content, faults, book, lists, torn>>
      /\ harm' = (harm \/ \E q \in Changers : Changing(q))
  BY Zenon DEF StartAdd, At, disk
<1>3. PICK u \in Users :
        proc' = [proc EXCEPT ![p].user = u, ![p].pc =
                   IF u \in ToSet(content[name]) THEN "done" ELSE "opensrc"]
  BY DEF StartAdd
<1> DEFINE r == [proc[p] EXCEPT !.user = u, !.pc =
                   IF u \in ToSet(content[name]) THEN "done" ELSE "opensrc"]
<1>4. r \in ProcType /\ proc' = [proc EXCEPT ![p] = r]
  BY <1>1, <1>3 DEF ProcType
<1>5. /\ r.pc = IF u \in ToSet(content[name]) THEN "done" ELSE "opensrc"
      /\ r.user = u /\ r.src = proc[p].src /\ r.dst = proc[p].dst
  BY <1>1 DEF ProcType
<1> HIDE DEF r
<1>6. TInv'
  <2>1. Shape(p, r)
    BY <1>1, <1>5 DEF Shape
  <2>2. /\ content' \in [Files -> Lines] /\ faults' \in 0..MaxFaults /\ book' \subseteq Users
        /\ torn' \subseteq Copiers /\ lists' \in [Copiers -> SUBSET SUBSET Users]
    BY <1>1, <1>2 DEF TInv, TypeOK, Lines
  <2>3. harm' \in BOOLEAN
    BY <1>1, <1>2, Zenon DEF TypeOK
  <2> QED BY <1>1, <1>2, <1>4, <1>5, <2>1, <2>2, <2>3, MoveTInv
<1>7. ASSUME ~harm'
      PROVE  Calm'
  <2>1. Calm /\ \A q \in Changers : ~Changing(q)
    BY <1>2, <1>7, Zenon DEF IInv
  <2>2. proc'[p] = r
    BY <1>1, <1>4
  <2>3. AddOk(p)' /\ RemoveOk(p)'
    BY <1>1, <1>2, <1>5, <2>2 DEF AddOk, RemoveOk, Changing
  <2>4. r.pc # "close" /\ proc[p].pc # "close"
    BY <1>2, <1>5
  <2> QED BY <1>1, <1>2, <1>4, <1>6, <2>1, <2>3, <2>4, QuietCalm
<1> QED BY <1>6, <1>7 DEF IInv

LEMMA StartRemoveStep ==
  ASSUME IInv, NEW p \in Removers, StartRemove(p)
  PROVE  IInv'
<1>1. /\ TInv /\ TypeOK /\ p \in Changers /\ p \in Procs /\ p \notin Adders /\ p \notin Copiers
      /\ proc \in [Procs -> ProcType] /\ proc[p] \in ProcType
  BY UserFileAssumption DEF IInv, TInv, TypeOK, Changers, Procs
<1>2. /\ proc[p].pc = "start"
      /\ UNCHANGED <<name, temp, content, faults, book, lists, torn>>
      /\ harm' = (harm \/ \E q \in Changers : Changing(q))
  BY Zenon DEF StartRemove, At, disk
<1>3. PICK r \in ProcType :
        /\ proc' = [proc EXCEPT ![p] = r]
        /\ \/ r.pc = "done"
           \/ r.pc = "opensrc" /\ r.user \in Users
        /\ r.src = proc[p].src /\ r.dst = proc[p].dst
        /\ r.buffer = proc[p].buffer /\ r.page = proc[p].page /\ r.offset = proc[p].offset
  <2>1. CASE Goes(p, "done")
    <3> DEFINE r == [proc[p] EXCEPT !.pc = "done"]
    <3>1. r \in ProcType /\ proc' = [proc EXCEPT ![p] = r]
      BY <1>1, <2>1 DEF ProcType, Goes
    <3> QED BY <3>1, <1>1 DEF ProcType
  <2>2. ASSUME NEW u \in Users, proc' = [proc EXCEPT ![p].user = u, ![p].pc = "opensrc"]
        PROVE  \E r \in ProcType :
                 /\ proc' = [proc EXCEPT ![p] = r]
                 /\ r.pc = "opensrc" /\ r.user \in Users
                 /\ r.src = proc[p].src /\ r.dst = proc[p].dst
                 /\ r.buffer = proc[p].buffer /\ r.page = proc[p].page /\ r.offset = proc[p].offset
    <3> DEFINE r == [proc[p] EXCEPT !.user = u, !.pc = "opensrc"]
    <3>1. r \in ProcType /\ proc' = [proc EXCEPT ![p] = r]
      BY <1>1, <2>2 DEF ProcType
    <3> QED BY <3>1, <1>1 DEF ProcType
  <2> QED BY <2>1, <2>2 DEF StartRemove
<1>4. TInv'
  <2>1. Shape(p, r) /\ (r.pc \in Early => proc[p].pc \in Early)
    BY <1>1, <1>2, <1>3 DEF Shape, Early
  <2>2. /\ content' \in [Files -> Lines] /\ faults' \in 0..MaxFaults /\ book' \subseteq Users
        /\ torn' \subseteq Copiers /\ lists' \in [Copiers -> SUBSET SUBSET Users]
    BY <1>1, <1>2 DEF TInv, TypeOK, Lines
  <2>3. harm' \in BOOLEAN
    BY <1>1, <1>2, Zenon DEF TypeOK
  <2> QED BY <1>1, <1>2, <1>3, <2>1, <2>2, <2>3, MoveTInv
<1>5. ASSUME ~harm'
      PROVE  Calm'
  <2>1. Calm /\ \A q \in Changers : ~Changing(q)
    BY <1>2, <1>5, Zenon DEF IInv
  <2>2. proc'[p] = r
    BY <1>1, <1>3
  <2>3. RemoveOk(p)
    BY <1>1, <2>1 DEF Calm
  <2>4. AddOk(p)' /\ RemoveOk(p)'
    BY <1>1, <1>2, <1>3, <2>2, <2>3 DEF AddOk, RemoveOk, Early
  <2>5. r.pc # "close" /\ proc[p].pc # "close"
    BY <1>2, <1>3
  <2> QED BY <1>1, <1>2, <1>3, <1>4, <2>1, <2>4, <2>5, QuietCalm
<1> QED BY <1>4, <1>5 DEF IInv

LEMMA OpenChangeStep ==
  ASSUME IInv, NEW p \in Changers, OpenChange(p)
  PROVE  IInv'
<1>1. /\ TInv /\ TypeOK /\ p \in Procs /\ p \notin Copiers
      /\ p \in Adders <=> p \notin Removers
      /\ proc \in [Procs -> ProcType] /\ proc[p] \in ProcType /\ name \in Files
  <2>1. p \in Procs /\ p \notin Copiers /\ (p \in Adders <=> p \notin Removers)
    BY UserFileAssumption DEF Changers, Procs
  <2> QED BY <2>1 DEF IInv, TInv, TypeOK
<1>2. /\ proc[p].pc = "opensrc"
      /\ UNCHANGED <<name, temp, content, faults, book, harm, lists, torn>>
  BY Zenon DEF OpenChange, At, disk, notes
<1>3. PICK r \in ProcType :
        /\ proc' = [proc EXCEPT ![p] = r]
        /\ p \in Adders => r.pc = "append" /\ r.dst = name /\ r.src = proc[p].src
        /\ p \in Removers => r.pc = "opentmp" /\ r.src = name /\ r.dst = proc[p].dst
        /\ r.user = proc[p].user
        /\ r.buffer = proc[p].buffer /\ r.page = proc[p].page /\ r.offset = proc[p].offset
  <2>1. CASE p \in Adders
    <3> DEFINE r == [proc[p] EXCEPT !.dst = name, !.pc = "append"]
    <3>1. r \in ProcType /\ proc' = [proc EXCEPT ![p] = r]
      BY <1>1, <2>1 DEF ProcType, OpenChange
    <3> QED BY <3>1, <1>1, <2>1 DEF ProcType
  <2>2. CASE p \in Removers
    <3> DEFINE r == [proc[p] EXCEPT !.src = name, !.pc = "opentmp"]
    <3>1. r \in ProcType /\ proc' = [proc EXCEPT ![p] = r]
      BY <1>1, <2>2 DEF ProcType, OpenChange
    <3> QED BY <3>1, <1>1, <2>2 DEF ProcType
  <2> QED BY <1>1, <2>1, <2>2
<1>4. Shape(p, proc[p]) /\ Changing(p)
  BY <1>1, <1>2 DEF TInv, Changing
<1>5. TInv'
  <2>1. Shape(p, r) /\ (p \in Removers => proc[p].pc \in Early)
    BY <1>1, <1>2, <1>3, <1>4 DEF Shape, Early
  <2>2. /\ content' \in [Files -> Lines] /\ faults' \in 0..MaxFaults /\ book' \subseteq Users
        /\ torn' \subseteq Copiers /\ lists' \in [Copiers -> SUBSET SUBSET Users]
        /\ harm' \in BOOLEAN
    BY <1>1, <1>2 DEF TInv, TypeOK, Lines
  <2> QED BY <1>1, <1>2, <1>3, <2>1, <2>2, MoveTInv
<1>6. ASSUME ~harm'
      PROVE  Calm'
  <2>1. Calm
    BY <1>2, <1>6, Zenon DEF IInv
  <2>2. proc'[p] = r
    BY <1>1, <1>3
  <2>3. AddOk(p) /\ RemoveOk(p)
    BY <1>1, <2>1 DEF Calm
  <2>4. AddOk(p)'
    BY <1>2, <1>3, <1>4, <2>2, <2>3 DEF AddOk, Changing
  <2>5. RemoveOk(p)'
    BY <1>2, <1>3, <2>2, <2>3 DEF RemoveOk, Early
  <2>6. r.pc # "close" /\ proc[p].pc # "close"
    BY <1>1, <1>2, <1>3
  <2> QED BY <1>1, <1>2, <1>3, <1>4, <1>5, <2>1, <2>4, <2>5, <2>6, QuietCalm
<1> QED BY <1>5, <1>6 DEF IInv

\* A process that dies.
LEMMA DieStep ==
  ASSUME IInv, NEW p \in Changers, Die(p)
  PROVE  IInv'
<1>1. /\ TInv /\ TypeOK /\ p \in Procs /\ p \notin Copiers
      /\ proc \in [Procs -> ProcType] /\ proc[p] \in ProcType
  BY UserFileAssumption DEF IInv, TInv, TypeOK, Changers, Procs
<1>2. /\ Changing(p) /\ faults < MaxFaults /\ faults' = faults + 1
      /\ UNCHANGED <<name, temp, content, book, lists, torn>>
      /\ harm' = (harm \/ proc[p].pc = "close")
  BY Zenon DEF Die, At, disk
<1> DEFINE r == [proc[p] EXCEPT !.pc = "done", !.buffer = <<>>]
<1>3. r \in ProcType /\ proc' = [proc EXCEPT ![p] = r]
  <2>1. r \in ProcType
    BY <1>1, EmptySeq DEF ProcType
  <2>2. proc' = [proc EXCEPT ![p] = r]
    BY <1>1 DEF Die
  <2> QED BY <2>1, <2>2
<1>4. r.pc = "done" /\ r.src = proc[p].src /\ r.dst = proc[p].dst
  BY <1>1 DEF ProcType
<1> HIDE DEF r
<1>5. TInv'
  <2>1. Shape(p, r) /\ ~(r.pc \in Early)
    BY <1>1, <1>4 DEF Shape, Early
  <2>2. /\ content' \in [Files -> Lines] /\ book' \subseteq Users
        /\ torn' \subseteq Copiers /\ lists' \in [Copiers -> SUBSET SUBSET Users]
    BY <1>1, <1>2 DEF TInv, TypeOK, Lines
  <2>3. faults' \in 0..MaxFaults
    BY <1>1, <1>2, UserFileAssumption DEF TypeOK
  <2>4. harm' \in BOOLEAN
    BY <1>1, <1>2, Zenon DEF TypeOK
  <2> QED BY <1>1, <1>2, <1>3, <1>4, <2>1, <2>2, <2>3, <2>4, MoveTInv
<1>6. ASSUME ~harm'
      PROVE  Calm'
  <2>1. Calm /\ proc[p].pc # "close"
    BY <1>2, <1>6, Zenon DEF IInv
  <2>2. proc'[p] = r
    BY <1>1, <1>3
  <2>3. AddOk(p)' /\ RemoveOk(p)'
    BY <1>4, <2>2 DEF AddOk, RemoveOk, Changing, Early
  <2>4. r.pc # "close"
    BY <1>4
  <2> QED BY <1>1, <1>2, <1>3, <1>5, <2>1, <2>3, <2>4, QuietCalm
<1> QED BY <1>5, <1>6 DEF IInv

\* A full disk is a failure half-way.
LEMMA DiskFullStep ==
  ASSUME IInv, NEW p \in Removers, DiskFull(p)
  PROVE  IInv'
<1>1. /\ TInv /\ TypeOK /\ p \in Procs /\ p \notin Copiers /\ p \notin Adders /\ p \in Changers
      /\ proc \in [Procs -> ProcType] /\ proc[p] \in ProcType
  BY UserFileAssumption DEF IInv, TInv, TypeOK, Changers, Procs
<1>2. /\ proc[p].pc = "read" /\ faults < MaxFaults /\ faults' = faults + 1 /\ harm' = TRUE
      /\ UNCHANGED <<name, temp, content, book, lists, torn>>
  BY Zenon DEF DiskFull, At, disk
<1> DEFINE r == [proc[p] EXCEPT !.pc = "rename", !.buffer = <<>>]
<1>3. r \in ProcType /\ proc' = [proc EXCEPT ![p] = r]
  <2>1. r \in ProcType
    BY <1>1, EmptySeq DEF ProcType
  <2>2. proc' = [proc EXCEPT ![p] = r]
    BY <1>1 DEF DiskFull
  <2> QED BY <2>1, <2>2
<1>4. r.pc = "rename" /\ r.src = proc[p].src /\ r.dst = proc[p].dst /\ r.user = proc[p].user
  BY <1>1 DEF ProcType
<1> HIDE DEF r
<1>5. TInv'
  <2>1. Shape(p, proc[p])
    BY <1>1 DEF TInv
  <2>2. Shape(p, r) /\ ~(r.pc \in Early)
    BY <1>1, <1>2, <1>4, <2>1 DEF Shape, Early
  <2>3. /\ content' \in [Files -> Lines] /\ book' \subseteq Users /\ harm' \in BOOLEAN
        /\ torn' \subseteq Copiers /\ lists' \in [Copiers -> SUBSET SUBSET Users]
    BY <1>1, <1>2 DEF TInv, TypeOK, Lines
  <2>4. faults' \in 0..MaxFaults
    BY <1>1, <1>2, UserFileAssumption DEF TypeOK
  <2> QED BY <1>1, <1>2, <1>3, <1>4, <2>2, <2>3, <2>4, MoveTInv
<1> QED BY <1>2, <1>5 DEF IInv

LEMMA OpenTempStep ==
  ASSUME IInv, NEW p \in Removers, OpenTemp(p)
  PROVE  IInv'
<1>1. /\ TInv /\ TypeOK /\ p \in Procs /\ p \notin Copiers /\ p \notin Adders /\ p \in Changers
      /\ proc \in [Procs -> ProcType] /\ proc[p] \in ProcType
      /\ content \in [Files -> Lines] /\ p \in Files
  BY UserFileAssumption DEF IInv, TInv, TypeOK, Changers, Procs, Files, Lines
<1>2. /\ proc[p].pc = "opentmp"
      /\ UNCHANGED <<name, faults, book, harm, lists, torn>>
  BY Zenon DEF OpenTemp, At, notes
<1>3. PICK file \in Files :
        /\ file = IF temp = NoFile THEN p ELSE temp
        /\ temp' = file
        /\ content' = [content EXCEPT ![file] = <<>>]
        /\ proc' = [proc EXCEPT ![p].dst = file, ![p].pc = "read"]
  <2>1. temp \in Removers \cup {NoFile} /\ (temp \in Removers => temp \in Files)
    BY <1>1 DEF TypeOK, Files
  <2>2. (IF temp = NoFile THEN p ELSE temp) \in Files
    BY <1>1, <2>1
  <2> QED BY <2>2, Zenon DEF OpenTemp
<1> DEFINE r == [proc[p] EXCEPT !.dst = file, !.pc = "read"]
<1>4. r \in ProcType /\ proc' = [proc EXCEPT ![p] = r]
  <2>1. r \in ProcType
    BY <1>1, <1>3 DEF ProcType
  <2>2. proc' = [proc EXCEPT ![p] = r]
    BY <1>1, <1>3
  <2> QED BY <2>1, <2>2
<1>5. /\ r.pc = "read" /\ r.dst = file /\ r.src = proc[p].src /\ r.user = proc[p].user
      /\ r.page = proc[p].page /\ r.offset = proc[p].offset /\ r.buffer = proc[p].buffer
  BY <1>1 DEF ProcType
<1> HIDE DEF r
<1>6. /\ Shape(p, proc[p]) /\ Changing(p) /\ NewFile(p)
      /\ <<>> \in Lines
  BY <1>1, <1>2, EmptySeq DEF TInv, Changing, Lines
<1>7. TInv'
  <2>1. Shape(p, r) /\ ~(r.pc \in Early)
    BY <1>1, <1>2, <1>3, <1>5, <1>6 DEF Shape, Early
  <2>2. content' \in [Files -> Lines]
    BY <1>1, <1>3, <1>6
  <2>3. /\ faults' \in 0..MaxFaults /\ book' \subseteq Users /\ harm' \in BOOLEAN
        /\ torn' \subseteq Copiers /\ lists' \in [Copiers -> SUBSET SUBSET Users]
    BY <1>1, <1>2 DEF TInv, TypeOK
  <2>4. temp' \in {temp, NoFile} \/ temp' = p
    BY <1>3
  <2> QED BY <1>1, <1>2, <1>3, <1>4, <1>5, <2>1, <2>2, <2>3, <2>4, MoveTInv
<1>8. ASSUME ~harm'
      PROVE  Calm'
  <2>1. Calm
    BY <1>2, <1>8, Zenon DEF IInv
  <2>2. proc'[p] = r
    BY <1>1, <1>4
  <2>3. RemoveOk(p)
    BY <1>1, <2>1 DEF Calm
  <2>4. /\ r.src = name /\ r.buffer = <<>> /\ r.page = 0 /\ r.offset = 0
    BY <1>2, <1>5, <2>3 DEF RemoveOk, Early
  <2>5. content'[file] = <<>>
    BY <1>1, <1>3
  <2>6. content'[name] \in Lines
    <3>1. name \in Files
      BY <1>1 DEF TypeOK
    <3> QED BY <1>1, <1>3, <1>6, <3>1
  <2>7. /\ r.offset = Len(content'[file])
        /\ content'[file] \o r.buffer = Without(Upto(content'[r.src], r.page), r.user)
    <3>1. Upto(content'[name], 0) = <<>>
      BY <2>6, UptoNone DEF Lines
    <3>2. <<>> \o <<>> = <<>> /\ Len(<<>>) = 0
      OBVIOUS
    <3> QED BY <2>4, <2>5, <3>1, <3>2, WithoutEmpty
  <2>8. RemoveOk(p)'
    BY <1>2, <1>3, <1>5, <2>2, <2>4, <2>7 DEF RemoveOk, Early
  <2>9. AddOk(p)'
    BY <1>1 DEF AddOk
  <2>10. \A f \in Files : f # temp' => content'[f] = content[f]
    BY <1>1, <1>3
  <2>11. r.pc # "close" /\ proc[p].pc # "close"
    BY <1>2, <1>5
  <2> QED BY <1>1, <1>2, <1>4, <1>6, <1>7, <2>1, <2>8, <2>9, <2>10, <2>11, QuietCalm
<1> QED BY <1>7, <1>8 DEF IInv

LEMMA CopyPageStep ==
  ASSUME IInv, NEW p \in Removers, CopyPage(p)
  PROVE  IInv'
<1>1. /\ TInv /\ TypeOK /\ p \in Procs /\ p \notin Copiers /\ p \notin Adders /\ p \in Changers
      /\ proc \in [Procs -> ProcType] /\ proc[p] \in ProcType
      /\ content \in [Files -> Lines]
  BY UserFileAssumption DEF IInv, TInv, TypeOK, Changers, Procs, Lines
<1>2. /\ proc[p].pc = "read"
      /\ UNCHANGED <<name, temp, content, faults, book, harm, lists, torn>>
  BY Zenon DEF CopyPage, At, disk, notes
<1>3. Shape(p, proc[p]) /\ Changing(p)
  BY <1>1, <1>2 DEF TInv, Changing
<1>4. PICK old \in Lines : old = content[proc[p].src]
  BY <1>1, <1>2, <1>3 DEF Shape
<1>5. PICK k \in Nat : k = proc[p].page
  BY <1>1 DEF ProcType
<1>6. Page(p) = PageOf(old, k)
  BY <1>4, <1>5, Zenon DEF Page, PageOf
<1>7. /\ PageOf(old, k) \in Lines /\ Upto(old, k) \in Lines
      /\ Upto(old, k) \o PageOf(old, k) = Upto(old, k + 1)
      /\ PageOf(old, k) = <<>> => Upto(old, k) = old
  BY PageFact DEF Lines
<1>8. PICK kept \in Lines : kept = Without(PageOf(old, k), proc[p].user)
  BY <1>7, WithoutSet DEF Lines
<1>9. proc[p].buffer \in Lines
  BY <1>1 DEF ProcType, Lines
<1>10. PICK r \in ProcType :
         /\ proc' = [proc EXCEPT ![p] = r]
         /\ r.src = proc[p].src /\ r.dst = proc[p].dst /\ r.user = proc[p].user
         /\ r.offset = proc[p].offset
         /\ IF PageOf(old, k) = <<>>
            THEN r.pc = "rename" /\ r.page = k /\ r.buffer = proc[p].buffer
            ELSE r.pc = "read" /\ r.page = k + 1 /\ r.buffer = proc[p].buffer \o kept
  <2>1. CASE PageOf(old, k) = <<>>
    <3> DEFINE r == [proc[p] EXCEPT !.pc = "rename"]
    <3>1. r \in ProcType
      BY <1>1 DEF ProcType
    <3>2. proc' = [proc EXCEPT ![p] = r]
      BY <1>1, <1>6, <2>1 DEF CopyPage, Goes
    <3> QED BY <3>1, <3>2, <1>1, <1>5, <2>1 DEF ProcType
  <2>2. CASE PageOf(old, k) # <<>>
    <3> DEFINE r == [proc[p] EXCEPT !.page = k + 1, !.buffer = proc[p].buffer \o kept]
    <3>1. proc[p].buffer \o kept \in Seq(Users \cup {NoUser}) /\ k + 1 \in Nat
      BY <1>9, ConcatProperties DEF Lines
    <3>2. r \in ProcType
      BY <1>1, <3>1 DEF ProcType
    <3>3. proc' = [proc EXCEPT ![p] = r]
      BY <1>1, <1>5, <1>6, <1>8, <2>2 DEF CopyPage
    <3> QED BY <3>2, <3>3, <1>1, <1>2, <2>2 DEF ProcType
  <2> QED BY <2>1, <2>2
<1>11. TInv'
  <2>1. Shape(p, r) /\ ~(r.pc \in Early)
    BY <1>1, <1>2, <1>3, <1>10 DEF Shape, Early
  <2>2. /\ content' \in [Files -> Lines] /\ faults' \in 0..MaxFaults /\ book' \subseteq Users
        /\ torn' \subseteq Copiers /\ lists' \in [Copiers -> SUBSET SUBSET Users]
        /\ harm' \in BOOLEAN
    BY <1>1, <1>2 DEF TInv, TypeOK, Lines
  <2> QED BY <1>1, <1>2, <1>10, <2>1, <2>2, MoveTInv
<1>12. ASSUME ~harm'
       PROVE  Calm'
  <2>1. Calm
    BY <1>2, <1>12, Zenon DEF IInv
  <2>2. proc'[p] = r
    BY <1>1, <1>10
  <2>3. RemoveOk(p)
    BY <1>1, <2>1 DEF Calm
  <2>4. PICK new \in Lines : new = content[proc[p].dst]
    BY <1>1, <1>2, <1>3 DEF Shape
  <2>5. /\ r.src = name /\ r.dst = temp /\ r.offset = Len(new)
        /\ new \o proc[p].buffer = Without(Upto(old, k), r.user)
    BY <1>2, <1>4, <1>5, <1>10, <2>3, <2>4 DEF RemoveOk
  <2>10. /\ old = content'[r.src] /\ new = content'[r.dst]
         /\ name' = name /\ temp' = temp /\ book' = book
    BY <1>2, <1>4, <1>10, <2>4
  <2>6. RemoveOk(p)'
    <3>1. CASE PageOf(old, k) = <<>>
      <4>1. r.pc = "rename" /\ new \o r.buffer = Without(old, r.user)
        BY <1>7, <1>10, <2>5, <3>1
      <4>2. r.pc \notin Early /\ r.pc # "read" /\ r.pc # "close"
        BY <4>1 DEF Early
      <4> QED BY <2>2, <2>5, <2>10, <4>1, <4>2 DEF RemoveOk
    <3>2. CASE PageOf(old, k) # <<>>
      <4>1. r.pc = "read" /\ r.page = k + 1 /\ r.buffer = proc[p].buffer \o kept
        BY <1>10, <3>2
      <4>2. new \o (proc[p].buffer \o kept) = (new \o proc[p].buffer) \o kept
        BY <1>9, LinesAssoc
      <4>3. Without(Upto(old, k) \o PageOf(old, k), r.user) = Without(Upto(old, k), r.user) \o kept
        <5>1. PICK a \in Lines, b \in Lines : a = Upto(old, k) /\ b = PageOf(old, k)
          BY <1>7
        <5>2. Without(a \o b, r.user) = Without(a, r.user) \o Without(b, r.user)
          BY LinesWithout
        <5>3. kept = Without(b, r.user)
          BY <1>8, <1>10, <5>1
        <5> QED BY <5>1, <5>2, <5>3
      <4>4. new \o r.buffer = Without(Upto(old, r.page), r.user)
        BY <1>7, <2>5, <4>1, <4>2, <4>3
      <4>5. r.pc \notin Early /\ r.pc # "rename" /\ r.pc # "close"
        BY <4>1 DEF Early
      <4> QED BY <2>2, <2>5, <2>10, <4>1, <4>4, <4>5 DEF RemoveOk
    <3> QED BY <3>1, <3>2
  <2>8. AddOk(p)'
    BY <1>1 DEF AddOk
  <2>9. r.pc # "close" /\ proc[p].pc # "close"
    BY <1>2, <1>10
  <2> QED BY <1>1, <1>2, <1>3, <1>10, <1>11, <2>1, <2>6, <2>8, <2>9, QuietCalm
<1> QED BY <1>11, <1>12 DEF IInv

\* What is in the file and what is still in the buffer stay the same lines.
LEMMA FlushStep ==
  ASSUME IInv, NEW p \in Removers, Flush(p)
  PROVE  IInv'
<1>1. /\ TInv /\ TypeOK /\ p \in Procs /\ p \notin Copiers /\ p \notin Adders /\ p \in Changers
      /\ proc \in [Procs -> ProcType] /\ proc[p] \in ProcType
      /\ content \in [Files -> Lines]
  BY UserFileAssumption DEF IInv, TInv, TypeOK, Changers, Procs, Lines
<1>2. /\ proc[p].pc = "read"
      /\ UNCHANGED <<name, temp, faults, book, harm, lists, torn>>
  BY Zenon DEF Flush, At, notes
<1>3. Shape(p, proc[p]) /\ Changing(p)
  BY <1>1, <1>2 DEF TInv, Changing
<1>4. PICK dst \in Files, had \in Lines : dst = proc[p].dst /\ had = content[dst]
  BY <1>1, <1>2, <1>3 DEF Shape
<1>5. PICK at \in Nat, buffer \in Lines : at = proc[p].offset /\ buffer = proc[p].buffer
  BY <1>1 DEF ProcType, Lines
<1>6. PICK new \in Lines :
        /\ content' = [content EXCEPT ![dst] = new]
        /\ at = Len(had) => new = had \o buffer
  <2>1. Overwritten(had, at, buffer) \in Lines
        /\ (at = Len(had) => Overwritten(had, at, buffer) = had \o buffer)
    BY OverwrittenFact
  <2>2. content' = [content EXCEPT ![dst] = Overwritten(had, at, buffer)]
    BY <1>4, <1>5, Zenon DEF Flush, Flushed
  <2> QED BY <2>1, <2>2
<1>7. PICK len \in Nat : len = Len(buffer)
  BY LenProperties DEF Lines
<1> DEFINE r == [proc[p] EXCEPT !.offset = at + len, !.buffer = <<>>]
<1>8. r \in ProcType /\ proc' = [proc EXCEPT ![p] = r]
  <2>1. at + len \in Nat /\ <<>> \in Seq(Users \cup {NoUser})
    BY EmptySeq
  <2>2. r \in ProcType
    BY <1>1, <2>1 DEF ProcType
  <2>3. proc' = [proc EXCEPT ![p] = r]
    BY <1>1, <1>5, <1>7 DEF Flush
  <2> QED BY <2>2, <2>3
<1>9. /\ r.pc = "read" /\ r.dst = dst /\ r.src = proc[p].src /\ r.user = proc[p].user
      /\ r.page = proc[p].page /\ r.offset = at + len /\ r.buffer = <<>>
  BY <1>1, <1>2, <1>4 DEF ProcType
<1> HIDE DEF r
<1>10. TInv'
  <2>1. Shape(p, r) /\ ~(r.pc \in Early)
    BY <1>1, <1>2, <1>3, <1>4, <1>9 DEF Shape, Early
  <2>2. content' \in [Files -> Lines]
    BY <1>1, <1>6
  <2>3. /\ faults' \in 0..MaxFaults /\ book' \subseteq Users /\ harm' \in BOOLEAN
        /\ torn' \subseteq Copiers /\ lists' \in [Copiers -> SUBSET SUBSET Users]
    BY <1>1, <1>2 DEF TInv, TypeOK
  <2> QED BY <1>1, <1>2, <1>4, <1>8, <1>9, <2>1, <2>2, <2>3, MoveTInv
<1>11. ASSUME ~harm'
       PROVE  Calm'
  <2>1. Calm
    BY <1>2, <1>11, Zenon DEF IInv
  <2>2. proc'[p] = r
    BY <1>1, <1>8
  <2>3. RemoveOk(p)
    BY <1>1, <2>1 DEF Calm
  <2>4. PICK old : old = content[proc[p].src]
    OBVIOUS
  <2>5. /\ r.src = name /\ dst = temp /\ at = Len(had)
        /\ had \o buffer = Without(Upto(old, r.page), r.user)
    BY <1>2, <1>4, <1>5, <1>9, <2>3, <2>4 DEF RemoveOk
  <2>6. new = had \o buffer /\ r.offset = Len(new) /\ new \o r.buffer = new
    <3>1. Len(had \o buffer) = at + len
      BY <1>7, <2>5, ConcatProperties DEF Lines
    <3>2. new \o <<>> = new
      BY ConcatEmptySeq DEF Lines
    <3> QED BY <1>6, <1>9, <2>5, <3>1, <3>2
  <2>7. /\ old = content'[r.src] /\ new = content'[r.dst]
        /\ name' = name /\ temp' = temp /\ book' = book
    <3>1. name \in Files /\ name # dst
      BY <1>1, <2>5 DEF TypeOK
    <3> QED BY <1>1, <1>2, <1>6, <1>9, <2>4, <2>5, <3>1
  <2>8. r.pc \notin Early /\ r.pc # "rename" /\ r.pc # "close"
    BY <1>9 DEF Early
  <2>9. RemoveOk(p)'
    BY <1>9, <2>2, <2>5, <2>6, <2>7, <2>8 DEF RemoveOk
  <2>10. AddOk(p)'
    BY <1>1 DEF AddOk
  <2>11. \A f \in Files : f # temp' => content'[f] = content[f]
    BY <1>1, <1>2, <1>6, <2>5
  <2> QED BY <1>1, <1>2, <1>3, <1>8, <1>10, <2>1, <2>8, <2>9, <2>10, <2>11, QuietCalm
<1> QED BY <1>10, <1>11 DEF IInv

\* The new file bears the name before all of it is written.
LEMMA RenameStep ==
  ASSUME IInv, NEW p \in Removers, Rename(p)
  PROVE  IInv'
<1>1. /\ TInv /\ TypeOK /\ p \in Procs /\ p \notin Copiers /\ p \notin Adders /\ p \in Changers
      /\ proc \in [Procs -> ProcType] /\ proc[p] \in ProcType
      /\ content \in [Files -> Lines] /\ name \in Files
  BY UserFileAssumption DEF IInv, TInv, TypeOK, Changers, Procs, Lines
<1>2. /\ proc[p].pc = "rename"
      /\ UNCHANGED <<content, faults, book, harm, lists, torn>>
      /\ temp' = NoFile
      /\ name' = IF temp = NoFile THEN name ELSE temp
  BY Zenon DEF Rename, At, notes
<1>3. Shape(p, proc[p]) /\ Changing(p)
  BY <1>1, <1>2 DEF TInv, Changing
<1> DEFINE r == [proc[p] EXCEPT !.pc = "close"]
<1>4. r \in ProcType /\ proc' = [proc EXCEPT ![p] = r]
  <2>1. r \in ProcType
    BY <1>1 DEF ProcType
  <2>2. proc' = [proc EXCEPT ![p] = r]
    BY <1>1 DEF Rename, Goes
  <2> QED BY <2>1, <2>2
<1>5. /\ r.pc = "close" /\ r.dst = proc[p].dst /\ r.src = proc[p].src /\ r.user = proc[p].user
      /\ r.page = proc[p].page /\ r.offset = proc[p].offset /\ r.buffer = proc[p].buffer
  BY <1>1 DEF ProcType
<1> HIDE DEF r
<1>6. TInv'
  <2>1. Shape(p, r) /\ ~(r.pc \in Early)
    BY <1>1, <1>2, <1>3, <1>5 DEF Shape, Early
  <2>2. /\ content' \in [Files -> Lines] /\ faults' \in 0..MaxFaults /\ book' \subseteq Users
        /\ torn' \subseteq Copiers /\ lists' \in [Copiers -> SUBSET SUBSET Users]
        /\ harm' \in BOOLEAN
    BY <1>1, <1>2 DEF TInv, TypeOK, Lines
  <2> QED BY <1>1, <1>2, <1>4, <1>5, <2>1, <2>2, MoveTInv
<1>7. ASSUME ~harm'
      PROVE  Calm'
  <2>1. Calm
    BY <1>2, <1>7, Zenon DEF IInv
  <2>2. proc'[p] = r
    BY <1>1, <1>4
  <2>3. RemoveOk(p)
    BY <1>1, <2>1 DEF Calm
  <2>4. PICK old \in Lines : old = content[name]
    BY <1>1
  <2>5. PICK new \in Lines, buffer \in Lines : new = content[proc[p].dst] /\ buffer = proc[p].buffer
    BY <1>1, <1>2, <1>3 DEF Shape, ProcType, Lines
  <2>6. /\ r.dst = temp /\ r.offset = Len(new)
        /\ new \o buffer = Without(old, r.user)
    BY <1>2, <1>5, <2>3, <2>4, <2>5 DEF RemoveOk
  <2>7. r.dst \in Files /\ name' = r.dst
    <3>1. r.dst \in Files /\ NoFile \notin Files
      BY <1>2, <1>3, <1>5, UserFileAssumption DEF Shape
    <3> QED BY <1>2, <2>6, <3>1
  <2>8. \A q \in Removers : ~At(q, "close")
    BY <1>2, <1>3, <2>1 DEF Calm, Alone, Changing, At, Changers
  <2>9. ToSet(old) = book /\ IsInjective(old)
    BY <2>1, <2>4, <2>8 DEF Calm
  <2>10. ToSet(new \o buffer) = book \ {r.user} /\ IsInjective(new \o buffer)
    <3>1. ToSet(Without(old, r.user)) = ToSet(old) \ {r.user}
          /\ (IsInjective(old) => IsInjective(Without(old, r.user)))
      BY WithoutSet DEF Lines
    <3> QED BY <2>6, <2>9, <3>1
  <2>11. r.pc \notin Early /\ r.pc # "rename" /\ r.pc # "read"
    BY <1>5 DEF Early
  <2>12. new = content'[r.dst] /\ buffer = r.buffer /\ book' = book
    BY <1>2, <1>5, <2>5
  <2>13. RemoveOk(p)'
    BY <1>5, <2>2, <2>6, <2>7, <2>10, <2>11, <2>12 DEF RemoveOk
  <2>14. AddOk(p)'
    BY <1>1 DEF AddOk
  <2>15. ASSUME NEW c \in Copiers
         PROVE  ReadOk(c)' /\ CopiedOk(c)'
    <3>1. c \in Procs /\ c # p
      BY <1>1, <2>15 DEF Procs
    <3>2. At(c, "read") => proc[c].src # name'
      <4>1. At(c, "read") => proc[c].src \in Files
        BY <3>1, <1>1 DEF TInv, Shape, At
      <4>2. NotTemp(c) /\ NoFile \notin Files
        BY <3>1, <1>1, UserFileAssumption DEF TInv
      <4> QED BY <2>6, <2>7, <4>1, <4>2 DEF NotTemp
    <3>3. At(c, "read") /\ c \notin torn => book' \in lists'[c]
      BY <1>2, <2>1, <3>1 DEF Calm, ReadOk
    <3>4. CASE At(c, "read") => c \notin torn
      BY <1>1, <1>2, <1>4, <2>1, <3>2, <3>3, <3>4, CopierKept
    <3>5. CASE At(c, "read") /\ c \in torn
      BY <1>1, <1>2, <1>4, <3>1, <3>5 DEF ReadOk, CopiedOk, At
    <3> QED BY <3>4, <3>5
  <2> QED BY <1>1, <1>3, <1>4, <1>5, <2>1, <2>13, <2>14, <2>15, MoveCalm
<1> QED BY <1>6, <1>7 DEF IInv

LEMMA CloseStep ==
  ASSUME IInv, NEW p \in Removers, Close(p)
  PROVE  IInv'
<1>1. /\ TInv /\ TypeOK /\ p \in Procs /\ p \notin Copiers /\ p \notin Adders /\ p \in Changers
      /\ proc \in [Procs -> ProcType] /\ proc[p] \in ProcType
      /\ content \in [Files -> Lines] /\ book \subseteq Users
      /\ lists \in [Copiers -> SUBSET SUBSET Users]
  BY UserFileAssumption DEF IInv, TInv, TypeOK, Changers, Procs, Lines
<1>2. /\ proc[p].pc = "close"
      /\ UNCHANGED <<name, temp, faults, harm, torn>>
      /\ book' = book \ {proc[p].user}
      /\ lists' = [c \in Copiers |-> IF At(c, "read") THEN lists[c] \cup {book'} ELSE lists[c]]
  BY Zenon DEF Close, At, Booked
<1>3. Shape(p, proc[p]) /\ Changing(p)
  BY <1>1, <1>2 DEF TInv, Changing
<1>4. PICK dst \in Files, had \in Lines : dst = proc[p].dst /\ had = content[dst]
  BY <1>1, <1>2, <1>3 DEF Shape
<1>5. PICK at \in Nat, buffer \in Lines : at = proc[p].offset /\ buffer = proc[p].buffer
  BY <1>1 DEF ProcType, Lines
<1>6. PICK new \in Lines :
        /\ content' = [content EXCEPT ![dst] = new]
        /\ at = Len(had) => new = had \o buffer
  <2>1. Overwritten(had, at, buffer) \in Lines
        /\ (at = Len(had) => Overwritten(had, at, buffer) = had \o buffer)
    BY OverwrittenFact
  <2>2. content' = [content EXCEPT ![dst] = Overwritten(had, at, buffer)]
    BY <1>4, <1>5, Zenon DEF Close, Flushed
  <2> QED BY <2>1, <2>2
<1> DEFINE r == [proc[p] EXCEPT !.pc = "done", !.buffer = <<>>]
<1>7. r \in ProcType /\ proc' = [proc EXCEPT ![p] = r]
  <2>1. r \in ProcType
    BY <1>1, EmptySeq DEF ProcType
  <2>2. proc' = [proc EXCEPT ![p] = r]
    BY <1>1 DEF Close
  <2> QED BY <2>1, <2>2
<1>8. r.pc = "done" /\ r.dst = dst /\ r.src = proc[p].src
  BY <1>1, <1>4 DEF ProcType
<1> HIDE DEF r
<1>9. TInv'
  <2>1. Shape(p, r) /\ ~(r.pc \in Early)
    BY <1>1, <1>8 DEF Shape, Early
  <2>2. content' \in [Files -> Lines]
    BY <1>1, <1>6
  <2>3. /\ faults' \in 0..MaxFaults /\ book' \subseteq Users /\ harm' \in BOOLEAN
        /\ torn' \subseteq Copiers
    BY <1>1, <1>2 DEF TypeOK
  <2>4. lists' \in [Copiers -> SUBSET SUBSET Users]
    BY <1>1, <1>2, <2>3
  <2> QED BY <1>1, <1>2, <1>4, <1>7, <1>8, <2>1, <2>2, <2>3, <2>4, MoveTInv
<1>10. ASSUME ~harm'
       PROVE  Calm'
  <2>1. Calm
    BY <1>2, <1>10, Zenon DEF IInv
  <2>2. proc'[p] = r
    BY <1>1, <1>7
  <2>3. RemoveOk(p)
    BY <1>1, <2>1 DEF Calm
  <2>4. /\ dst = name /\ at = Len(had)
        /\ ToSet(had \o buffer) = book \ {proc[p].user} /\ IsInjective(had \o buffer)
    BY <1>2, <1>4, <1>5, <2>3 DEF RemoveOk
  <2>5. ToSet(content'[name']) = book' /\ IsInjective(content'[name'])
    <3>1. content'[name'] = had \o buffer
      BY <1>1, <1>2, <1>6, <2>4
    <3> QED BY <1>2, <2>4, <3>1
  <2>6. AddOk(p)' /\ RemoveOk(p)'
    BY <1>1, <1>8, <2>2 DEF AddOk, RemoveOk, Early
  <2>7. ASSUME NEW c \in Copiers
        PROVE  ReadOk(c)' /\ CopiedOk(c)'
    <3>1. c \in Procs /\ c # p /\ ReadOk(c)
      BY <1>1, <2>1, <2>7 DEF Procs, Calm
    <3>2. At(c, "read") => book' \in lists'[c]
      BY <1>2
    <3>3. lists[c] \subseteq lists'[c]
      BY <1>2
    <3>4. At(c, "read") /\ c \notin torn => proc[c].src # name
      BY <1>2, <3>1 DEF ReadOk, At
    <3>5. At(c, "read") => proc[c].src \in Files
      BY <3>1, <1>1 DEF TInv, Shape, At
    <3>6. At(c, "read") /\ c \notin torn => content'[proc[c].src] = content[proc[c].src]
      BY <1>1, <1>6, <2>4, <3>4, <3>5
    <3> QED BY <1>1, <1>2, <1>7, <2>1, <3>2, <3>3, <3>4, <3>6, CopierKept
  <2> QED BY <1>1, <1>3, <1>7, <1>8, <2>1, <2>5, <2>6, <2>7, MoveCalm
<1> QED BY <1>9, <1>10 DEF IInv

\* A copier reads on in a file that has got a line more.
LEMMA ReadingGrows ==
  ASSUME NEW r, NEW lines \in Lines, NEW u \in Users, NEW seen, NEW more,
         Reading(r, lines, seen), u \notin ToSet(lines), r.page \in Nat,
         seen \subseteq more, ToSet(lines) \cup {u} \in more
  PROVE  Reading(r, Append(lines, u), more)
<1> DEFINE new == Append(lines, u)
           upto == r.page * PageSize
<1>1. PICK len \in Nat : len = Len(lines) /\ DOMAIN lines = 1..len
  BY LenProperties DEF Lines
<1>2. /\ new \in Lines /\ Len(new) = len + 1
      /\ \A i \in 1..len : new[i] = lines[i]
  BY <1>1, AppendProperties DEF Lines
<1>3. ToSet(new) = ToSet(lines) \cup {u} /\ (IsInjective(lines) => IsInjective(new))
  BY AppendFact DEF Lines
<1>4. DOMAIN new = 1..(len + 1)
  BY <1>2, LenProperties DEF Lines
<1> HIDE DEF new
<1>5. \A x \in ToSet(r.buffer) : \E i \in DOMAIN new : i <= upto /\ new[i] = x
  <2> TAKE x \in ToSet(r.buffer)
  <2>1. PICK i \in 1..len : i <= upto /\ lines[i] = x
    BY <1>1 DEF Reading
  <2>2. i \in DOMAIN new /\ new[i] = x
    BY <1>2, <1>4, <2>1
  <2> QED BY <2>1, <2>2
<1>6. \E n \in 0..Len(new) :
        /\ {new[i] : i \in 1..n} \in more
        /\ \A i \in 1..n : i <= upto => new[i] \in ToSet(r.buffer)
  <2>1. PICK n \in 0..len :
          /\ {lines[i] : i \in 1..n} \in seen
          /\ \A i \in 1..n : i <= upto => lines[i] \in ToSet(r.buffer)
    BY <1>1, Zenon DEF Reading
  <2>2. \A i \in 1..n : new[i] = lines[i]
    BY <1>2
  <2>3. {new[i] : i \in 1..n} = {lines[i] : i \in 1..n}
    BY <2>2
  <2>4. n \in 0..Len(new)
    BY <1>2
  <2> QED BY <2>1, <2>2, <2>3, <2>4
<1>7. IsInjective(new) /\ ToSet(new) \in more /\ IsInjective(r.buffer)
  BY <1>3 DEF Reading
<1> QED BY <1>5, <1>6, <1>7 DEF Reading, new

LEMMA AppendUserStep ==
  ASSUME IInv, NEW p \in Adders, AppendUser(p)
  PROVE  IInv'
<1>1. /\ TInv /\ TypeOK /\ p \in Procs /\ p \notin Copiers /\ p \notin Removers /\ p \in Changers
      /\ proc \in [Procs -> ProcType] /\ proc[p] \in ProcType
      /\ content \in [Files -> Lines] /\ book \subseteq Users
      /\ lists \in [Copiers -> SUBSET SUBSET Users]
  BY UserFileAssumption DEF IInv, TInv, TypeOK, Changers, Procs, Lines
<1>2. /\ proc[p].pc = "append"
      /\ UNCHANGED <<name, temp, faults, harm, torn>>
      /\ book' = book \cup {proc[p].user}
      /\ lists' = [c \in Copiers |-> IF At(c, "read") THEN lists[c] \cup {book'} ELSE lists[c]]
  BY Zenon DEF AppendUser, At, Booked
<1>3. Shape(p, proc[p]) /\ Changing(p)
  BY <1>1, <1>2 DEF TInv, Changing
<1>4. PICK u \in Users : u = proc[p].user
  BY <1>1, <1>2, <1>3 DEF Shape
<1>5. PICK dst \in Files, had \in Lines : dst = proc[p].dst /\ had = content[dst]
  BY <1>1, <1>2, <1>3 DEF Shape
<1>6. content' = [content EXCEPT ![dst] = Append(had, u)] /\ Append(had, u) \in Lines
  <2>1. Append(had, u) \in Lines
    BY AppendProperties DEF Lines
  <2>2. content' = [content EXCEPT ![dst] = Append(had, u)]
    BY <1>4, <1>5, Zenon DEF AppendUser
  <2> QED BY <2>1, <2>2
<1> DEFINE r == [proc[p] EXCEPT !.pc = "done"]
<1>7. r \in ProcType /\ proc' = [proc EXCEPT ![p] = r]
  <2>1. r \in ProcType
    BY <1>1 DEF ProcType
  <2>2. proc' = [proc EXCEPT ![p] = r]
    BY <1>1 DEF AppendUser, Goes
  <2> QED BY <2>1, <2>2
<1>8. r.pc = "done" /\ r.dst = dst /\ r.src = proc[p].src
  BY <1>1, <1>5 DEF ProcType
<1> HIDE DEF r
<1>9. TInv'
  <2>1. Shape(p, r) /\ ~(r.pc \in Early)
    BY <1>1, <1>8 DEF Shape, Early
  <2>2. content' \in [Files -> Lines]
    BY <1>1, <1>6
  <2>3. /\ faults' \in 0..MaxFaults /\ book' \subseteq Users /\ harm' \in BOOLEAN
        /\ torn' \subseteq Copiers
    BY <1>1, <1>2, <1>4 DEF TypeOK
  <2>4. lists' \in [Copiers -> SUBSET SUBSET Users]
    BY <1>1, <1>2, <2>3
  <2> QED BY <1>1, <1>2, <1>5, <1>7, <1>8, <2>1, <2>2, <2>3, <2>4, MoveTInv
<1>10. ASSUME ~harm'
       PROVE  Calm'
  <2>1. Calm
    BY <1>2, <1>10, Zenon DEF IInv
  <2>2. proc'[p] = r
    BY <1>1, <1>7
  <2>3. dst = name /\ u \notin ToSet(had)
    <3>1. AddOk(p)
      BY <1>1, <2>1 DEF Calm
    <3> QED BY <1>2, <1>3, <1>4, <1>5, <3>1 DEF AddOk
  <2>4. \A q \in Removers : ~At(q, "close")
    BY <1>1, <1>2, <1>3, <2>1 DEF Calm, Alone, Changing, At, Changers
  <2>5. ToSet(had) = book /\ IsInjective(had)
    BY <1>5, <2>1, <2>3, <2>4 DEF Calm
  <2>6. ToSet(content'[name']) = book' /\ IsInjective(content'[name'])
    <3>1. content'[name'] = Append(had, u)
      BY <1>1, <1>2, <1>6, <2>3
    <3>2. /\ ToSet(Append(had, u)) = ToSet(had) \cup {u}
          /\ IsInjective(had) /\ u \notin ToSet(had) => IsInjective(Append(had, u))
      BY AppendFact DEF Lines
    <3> QED BY <1>2, <1>4, <2>3, <2>5, <3>1, <3>2
  <2>7. AddOk(p)' /\ RemoveOk(p)'
    BY <1>1, <1>8, <2>2 DEF AddOk, RemoveOk, Changing
  <2>8. ASSUME NEW c \in Copiers
        PROVE  ReadOk(c)' /\ CopiedOk(c)'
    <3>1. c \in Procs /\ c # p /\ ReadOk(c) /\ CopiedOk(c)
      BY <1>1, <2>1, <2>8 DEF Procs, Calm
    <3>2. At(c, "read") => book' \in lists'[c]
      BY <1>2
    <3>3. lists[c] \subseteq lists'[c]
      BY <1>2
    <3>4. At(c, "read") => proc[c].src \in Files
      BY <3>1, <1>1 DEF TInv, Shape, At
    <3>5. CASE ~(At(c, "read") /\ c \notin torn /\ proc[c].src = name)
      <4>1. At(c, "read") /\ c \notin torn => content'[proc[c].src] = content[proc[c].src]
        BY <1>1, <1>6, <2>3, <3>4, <3>5
      <4> QED BY <1>1, <1>2, <1>7, <2>1, <3>2, <3>3, <3>5, <4>1, CopierKept
    <3>6. CASE At(c, "read") /\ c \notin torn /\ proc[c].src = name
      <4>1. proc'[c] = proc[c] /\ proc[c].page \in Nat /\ proc[c].pc = "read"
        BY <1>1, <1>7, <3>1, <3>6 DEF ProcType, At
      <4>2. content'[proc[c].src] = Append(had, u)
        BY <1>1, <1>6, <2>3, <3>6
      <4>3. Reading(proc[c], had, lists[c])
        BY <1>5, <2>3, <3>1, <3>6 DEF ReadOk
      <4>4. ToSet(had) \cup {u} \in lists'[c]
        BY <1>2, <1>4, <2>5, <3>2, <3>6
      <4>5. Reading(proc[c], Append(had, u), lists'[c])
        BY <2>3, <3>3, <4>1, <4>3, <4>4, ReadingGrows
      <4>6. \A q \in Removers : proc'[q].pc # "close"
        BY <1>1, <1>7, <1>8, <2>2, <2>4 DEF At, Procs, Changers
      <4>7. ReadOk(c)'
        BY <3>2, <3>6, <4>1, <4>2, <4>5, <4>6 DEF ReadOk, At
      <4>8. CopiedOk(c)'
        BY <4>1 DEF CopiedOk, At
      <4> QED BY <4>7, <4>8
    <3> QED BY <3>5, <3>6
  <2> QED BY <1>1, <1>3, <1>7, <1>8, <2>1, <2>6, <2>7, <2>8, MoveCalm
<1> QED BY <1>9, <1>10 DEF IInv

-----------------------------------------------------------------------------
(* The steps of a copy                                                     *)

LEMMA ConcatFact ==
  ASSUME NEW a \in Lines, NEW b \in Lines
  PROVE  /\ a \o b \in Lines /\ ToSet(a \o b) = ToSet(a) \cup ToSet(b)
         /\ IsInjective(a) /\ IsInjective(b) /\ ToSet(a) \cap ToSet(b) = {} => IsInjective(a \o b)
<1> DEFINE t == a \o b
<1>1. PICK m \in Nat, n \in Nat : /\ m = Len(a) /\ DOMAIN a = 1..m
                                  /\ n = Len(b) /\ DOMAIN b = 1..n
  BY LenProperties DEF Lines
<1>2. /\ t \in Lines /\ Len(t) = m + n
      /\ \A i \in 1..(m + n) : t[i] = IF i <= m THEN a[i] ELSE b[i - m]
  BY <1>1, ConcatProperties DEF Lines
<1>3. DOMAIN t = 1..(m + n)
  BY <1>2, LenProperties DEF Lines
<1> HIDE DEF t
<1>4. \A i \in DOMAIN t : \/ i \in DOMAIN a /\ t[i] = a[i]
                          \/ i \notin DOMAIN a /\ i - m \in DOMAIN b /\ t[i] = b[i - m]
  BY <1>1, <1>2, <1>3
<1>5. /\ \A i \in DOMAIN a : i \in DOMAIN t /\ t[i] = a[i]
      /\ \A i \in DOMAIN b : i + m \in DOMAIN t /\ t[i + m] = b[i]
  <2>1. \A i \in DOMAIN a : i \in DOMAIN t /\ t[i] = a[i]
    BY <1>1, <1>2, <1>3
  <2>2. \A i \in DOMAIN b : i + m \in DOMAIN t /\ ~(i + m <= m) /\ (i + m) - m = i
    BY <1>1, <1>3
  <2>3. \A i \in DOMAIN b : t[i + m] = b[i]
    BY <1>2, <1>3, <2>2
  <2> QED BY <2>1, <2>2, <2>3
<1>6. ToSet(t) = ToSet(a) \cup ToSet(b)
  BY <1>4, <1>5 DEF ToSet
<1>7. ASSUME IsInjective(a), IsInjective(b), ToSet(a) \cap ToSet(b) = {}
      PROVE  IsInjective(t)
  <2> SUFFICES ASSUME NEW i \in DOMAIN t, NEW j \in DOMAIN t, t[i] = t[j]
               PROVE  i = j
    BY Zenon DEF IsInjective
  <2>1. i \in Nat /\ j \in Nat
    BY <1>3
  <2>2. CASE i \in DOMAIN a /\ j \in DOMAIN a
    BY <1>4, <1>7, <2>2 DEF IsInjective
  <2>3. CASE i \notin DOMAIN a /\ j \notin DOMAIN a
    <3>1. i - m = j - m
      BY <1>4, <1>7, <2>3 DEF IsInjective
    <3> QED BY <2>1, <3>1
  <2>4. CASE (i \in DOMAIN a) # (j \in DOMAIN a)
    BY <1>4, <1>7, <2>4 DEF ToSet
  <2> QED BY <2>2, <2>3, <2>4
<1> QED BY <1>2, <1>6, <1>7 DEF t

\* A page more.
LEMMA ReadingPage ==
  ASSUME NEW r, NEW lines \in Lines, NEW seen, NEW k \in Nat, NEW buffer \in Lines,
         r.page = k, r.buffer = buffer, Reading(r, lines, seen),
         NEW e, e.page = k + 1, e.buffer = buffer \o PageOf(lines, k)
  PROVE  Reading(e, lines, seen)
<1>1. PICK upto \in Nat, next \in Nat :
        upto = k * PageSize /\ next = (k + 1) * PageSize /\ upto <= next
  <2>1. /\ k * PageSize \in Nat /\ (k + 1) * PageSize \in Nat
        /\ (k + 1) * PageSize = k * PageSize + PageSize /\ PageSize \in Nat
    BY UserFileAssumption
  <2> QED BY <2>1
<1>2. PICK len \in Nat : len = Len(lines) /\ DOMAIN lines = 1..len
  BY LenProperties DEF Lines
<1>3. PICK page \in Lines : page = PageOf(lines, k)
  BY PageFact DEF Lines
<1>4. /\ IsInjective(lines) => IsInjective(page)
      /\ ToSet(page) = {lines[i] : i \in {j \in DOMAIN lines : upto < j /\ j <= next}}
  <2>1. /\ IsInjective(lines) => IsInjective(PageOf(lines, k))
        /\ ToSet(PageOf(lines, k)) = PageSet(lines, k)
    BY PageFact DEF Lines
  <2>2. PageSet(lines, k) = {lines[i] : i \in {j \in DOMAIN lines : upto < j /\ j <= next}}
    BY <1>1 DEF PageSet
  <2> QED BY <1>3, <2>1, <2>2
<1>5. /\ IsInjective(lines) /\ ToSet(lines) \in seen /\ IsInjective(buffer)
      /\ \A x \in ToSet(buffer) : \E i \in DOMAIN lines : i <= upto /\ lines[i] = x
      /\ \E n \in 0..len :
           /\ {lines[i] : i \in 1..n} \in seen
           /\ \A i \in 1..n : i <= upto => lines[i] \in ToSet(buffer)
  BY <1>1, <1>2, Zenon DEF Reading
<1>6. ToSet(buffer) \cap ToSet(page) = {}
  <2> SUFFICES ASSUME NEW x \in ToSet(buffer), x \in ToSet(page) PROVE FALSE
    OBVIOUS
  <2>1. PICK i \in DOMAIN lines : i <= upto /\ lines[i] = x
    BY <1>5
  <2>2. PICK j \in DOMAIN lines : upto < j /\ lines[j] = x
    BY <1>4
  <2>3. i = j
    BY <1>5, <2>1, <2>2 DEF IsInjective
  <2> QED BY <1>2, <2>1, <2>2, <2>3
<1>7. PICK both \in Lines :
        /\ both = buffer \o page /\ ToSet(both) = ToSet(buffer) \cup ToSet(page)
        /\ IsInjective(both)
  BY <1>4, <1>5, <1>6, ConcatFact
<1>8. \A x \in ToSet(both) : \E i \in DOMAIN lines : i <= next /\ lines[i] = x
  <2> TAKE x \in ToSet(both)
  <2>1. CASE x \in ToSet(buffer)
    <3>1. PICK i \in DOMAIN lines : i <= upto /\ lines[i] = x
      BY <1>5, <2>1
    <3>2. i <= next
      BY <1>1, <1>2, <3>1
    <3> QED BY <3>1, <3>2
  <2>2. CASE x \in ToSet(page)
    BY <1>4, <2>2
  <2> QED BY <1>7, <2>1, <2>2
<1>9. \E n \in 0..len :
        /\ {lines[i] : i \in 1..n} \in seen
        /\ \A i \in 1..n : i <= next => lines[i] \in ToSet(both)
  <2>1. PICK n \in 0..len :
          /\ {lines[i] : i \in 1..n} \in seen
          /\ \A i \in 1..n : i <= upto => lines[i] \in ToSet(buffer)
    BY <1>5
  <2>2. ASSUME NEW i \in 1..n, i <= next
        PROVE  lines[i] \in ToSet(both)
    <3>1. i \in DOMAIN lines
      BY <1>2
    <3>2. ~(i <= upto) => upto < i
      BY <1>1
    <3> QED BY <1>4, <1>7, <2>1, <2>2, <3>1, <3>2
  <2> QED BY <2>1, <2>2
<1>10. e.buffer = both /\ e.page * PageSize = next
  BY <1>1, <1>3, <1>7
<1> QED BY <1>2, <1>5, <1>7, <1>8, <1>9, <1>10, Zenon DEF Reading

\* A step of a copier matters to nobody else.
LEMMA CopierCalm ==
  ASSUME TInv, Calm, NEW c \in Copiers, NEW r \in ProcType, proc' = [proc EXCEPT ![c] = r],
         name' = name, temp' = temp, content' = content, book' = book,
         \A d \in Copiers : d # c => lists'[d] = lists[d] /\ (d \in torn' <=> d \in torn),
         ReadOk(c)' /\ CopiedOk(c)'
  PROVE  Calm'
<1>1. /\ proc \in [Procs -> ProcType] /\ c \in Procs /\ c \notin Changers
      /\ Adders \subseteq Changers /\ Removers \subseteq Changers /\ Changers \subseteq Procs
  BY UserFileAssumption DEF TInv, TypeOK, Procs, Changers
<1>2. \A q \in Procs : q # c => proc'[q] = proc[q]
  BY <1>1
<1>3. \A q \in Changers : proc'[q] = proc[q]
  BY <1>1, <1>2
<1>4. Alone'
  BY <1>3 DEF Calm, Alone, Changing
<1>5. \A q \in Removers : At(q, "close")' <=> At(q, "close")
  BY <1>1, <1>3 DEF At
<1>6. (\A q \in Removers : ~At(q, "close"))' =>
        ToSet(content'[name']) = book' /\ IsInjective(content'[name'])
  BY <1>5 DEF Calm
<1>7. ASSUME NEW q \in Procs
      PROVE  AddOk(q)' /\ RemoveOk(q)' /\ ReadOk(q)' /\ CopiedOk(q)'
  <2>1. AddOk(q) /\ RemoveOk(q) /\ ReadOk(q) /\ CopiedOk(q)
    BY DEF Calm
  <2>2. AddOk(q)'
    BY <1>1, <1>2, <2>1 DEF AddOk, Changing
  <2>3. RemoveOk(q)'
    BY <1>1, <1>2, <2>1 DEF RemoveOk
  <2>4. ReadOk(q)'
    BY <1>2, <1>5, <2>1 DEF ReadOk, At
  <2>5. CopiedOk(q)'
    BY <1>2, <2>1 DEF CopiedOk, At
  <2> QED BY <2>2, <2>3, <2>4, <2>5
<1> QED BY <1>4, <1>6, <1>7 DEF Calm

LEMMA OpenCopyStep ==
  ASSUME IInv, NEW c \in Copiers, OpenCopy(c)
  PROVE  IInv'
<1>1. /\ TInv /\ TypeOK /\ c \in Procs /\ c \notin Changers /\ c \notin Removers /\ c \notin Adders
      /\ proc \in [Procs -> ProcType] /\ proc[c] \in ProcType /\ name \in Files
      /\ content \in [Files -> Lines] /\ lists \in [Copiers -> SUBSET SUBSET Users]
      /\ book \subseteq Users
  BY UserFileAssumption DEF IInv, TInv, TypeOK, Changers, Procs, Lines
<1>2. /\ proc[c].pc = "start"
      /\ UNCHANGED <<name, temp, content, faults, book, harm>>
      /\ lists' = [lists EXCEPT ![c] = {book}]
      /\ torn' = IF \E p \in Removers : At(p, "close") THEN torn \cup {c} ELSE torn
  BY Zenon DEF OpenCopy, At, disk
<1>3. proc[c].buffer = <<>> /\ proc[c].page = 0
  BY <1>1, <1>2 DEF TInv, Shape
<1> DEFINE r == [proc[c] EXCEPT !.src = name, !.pc = "read"]
<1>4. r \in ProcType /\ proc' = [proc EXCEPT ![c] = r]
  <2>1. r \in ProcType
    BY <1>1 DEF ProcType
  <2>2. proc' = [proc EXCEPT ![c] = r]
    BY <1>1 DEF OpenCopy
  <2> QED BY <2>1, <2>2
<1>5. /\ r.pc = "read" /\ r.src = name /\ r.dst = proc[c].dst
      /\ r.buffer = <<>> /\ r.page = 0
  BY <1>1, <1>3 DEF ProcType
<1> HIDE DEF r
<1>6. TInv'
  <2>1. Shape(c, r)
    BY <1>1, <1>5 DEF Shape, Changers
  <2>2. /\ content' \in [Files -> Lines] /\ faults' \in 0..MaxFaults /\ book' \subseteq Users
        /\ harm' \in BOOLEAN
    BY <1>1, <1>2 DEF TypeOK
  <2>3. torn' \subseteq Copiers /\ lists' \in [Copiers -> SUBSET SUBSET Users]
    BY <1>1, <1>2 DEF TypeOK
  <2> QED BY <1>1, <1>2, <1>4, <1>5, <2>1, <2>2, <2>3, MoveTInv
<1>7. ASSUME ~harm'
      PROVE  Calm'
  <2>1. Calm
    BY <1>2, <1>7, Zenon DEF IInv
  <2>2. proc'[c] = r /\ \A q \in Procs : q # c => proc'[q] = proc[q]
    BY <1>1, <1>4
  <2>3. book' \in lists'[c] /\ lists'[c] = {book}
    BY <1>1, <1>2
  <2>4. PICK lines \in Lines : lines = content[name]
    BY <1>1
  <2>5. ASSUME c \notin torn'
        PROVE  /\ \A p \in Removers : ~At(p, "close")'
               /\ Reading(r, lines, {book})
    <3>1. \A p \in Removers : ~At(p, "close")
      BY <1>2, <2>5
    <3>2. ToSet(lines) = book /\ IsInjective(lines)
      BY <2>1, <2>4, <3>1 DEF Calm
    <3>3. \A p \in Removers : ~At(p, "close")'
      BY <1>1, <2>2, <3>1 DEF At, Procs, Changers
    <3>4. IsInjective(r.buffer) /\ ToSet(r.buffer) = {}
      BY <1>5 DEF IsInjective, ToSet
    <3>5. \E n \in 0..Len(lines) :
            /\ {lines[i] : i \in 1..n} \in {book}
            /\ \A i \in 1..n : i <= r.page * PageSize => lines[i] \in ToSet(r.buffer)
      <4>1. PICK n \in Nat : n = Len(lines) /\ DOMAIN lines = 1..n
        BY LenProperties DEF Lines
      <4>2. {lines[i] : i \in 1..n} = book
        BY <3>2, <4>1 DEF ToSet
      <4>3. r.page * PageSize = 0
        BY <1>5, UserFileAssumption
      <4>4. \A i \in 1..n : ~(i <= r.page * PageSize)
        BY <4>3
      <4> QED BY <4>1, <4>2, <4>4
    <3> QED BY <3>2, <3>3, <3>4, <3>5 DEF Reading
  <2>6. ReadOk(c)'
    BY <1>2, <1>5, <2>2, <2>3, <2>4, <2>5 DEF ReadOk
  <2>7. CopiedOk(c)'
    BY <1>5, <2>2 DEF CopiedOk, At
  <2>8. \A d \in Copiers : d # c => lists'[d] = lists[d] /\ (d \in torn' <=> d \in torn)
    BY <1>1, <1>2
  <2> QED BY <1>1, <1>2, <1>4, <2>1, <2>6, <2>7, <2>8, CopierCalm
<1> QED BY <1>6, <1>7 DEF IInv

LEMMA ReadPageStep ==
  ASSUME IInv, NEW c \in Copiers, ReadPage(c)
  PROVE  IInv'
<1>1. /\ TInv /\ TypeOK /\ c \in Procs /\ c \notin Changers /\ c \notin Removers /\ c \notin Adders
      /\ proc \in [Procs -> ProcType] /\ proc[c] \in ProcType
      /\ content \in [Files -> Lines]
  BY UserFileAssumption DEF IInv, TInv, TypeOK, Changers, Procs, Lines
<1>2. /\ proc[c].pc = "read"
      /\ UNCHANGED <<name, temp, content, faults, book, harm, lists, torn>>
  BY Zenon DEF ReadPage, At, disk, notes
<1>3. PICK lines \in Lines : lines = content[proc[c].src]
  <2>1. proc[c].src \in Files
    BY <1>1, <1>2 DEF TInv, Shape
  <2> QED BY <1>1, <2>1
<1>4. PICK k \in Nat, buffer \in Lines : k = proc[c].page /\ buffer = proc[c].buffer
  BY <1>1 DEF ProcType, Lines
<1>5. Page(c) = PageOf(lines, k)
  BY <1>3, <1>4, Zenon DEF Page, PageOf
<1>6. /\ PageOf(lines, k) \in Lines
      /\ PageOf(lines, k) = <<>> => Len(lines) <= k * PageSize
  BY PageFact DEF Lines
<1>7. PICK r \in ProcType :
        /\ proc' = [proc EXCEPT ![c] = r]
        /\ r.src = proc[c].src /\ r.dst = proc[c].dst
        /\ IF PageOf(lines, k) = <<>>
           THEN r.pc = "done" /\ r.page = k /\ r.buffer = buffer
           ELSE r.pc = "read" /\ r.page = k + 1 /\ r.buffer = buffer \o PageOf(lines, k)
  <2>1. CASE PageOf(lines, k) = <<>>
    <3> DEFINE r == [proc[c] EXCEPT !.pc = "done"]
    <3>1. r \in ProcType
      BY <1>1 DEF ProcType
    <3>2. proc' = [proc EXCEPT ![c] = r]
      BY <1>1, <1>5, <2>1 DEF ReadPage
    <3> QED BY <3>1, <3>2, <1>1, <1>4, <2>1 DEF ProcType
  <2>2. CASE PageOf(lines, k) # <<>>
    <3>1. PICK page \in Lines : page = PageOf(lines, k)
      BY <1>6
    <3> DEFINE r == [proc[c] EXCEPT !.page = k + 1, !.buffer = buffer \o page]
    <3>2. buffer \o page \in Seq(Users \cup {NoUser}) /\ k + 1 \in Nat
      BY ConcatProperties DEF Lines
    <3>3. r \in ProcType
      BY <1>1, <3>2 DEF ProcType
    <3>4. proc' = [proc EXCEPT ![c] = r]
      BY <1>1, <1>4, <1>5, <2>2, <3>1 DEF ReadPage
    <3>5. r.src = proc[c].src /\ r.dst = proc[c].dst /\ r.pc = "read"
          /\ r.page = k + 1 /\ r.buffer = buffer \o page
      BY <1>1, <1>2 DEF ProcType
    <3> HIDE DEF r
    <3> QED BY <2>2, <3>1, <3>3, <3>4, <3>5
  <2> QED BY <2>1, <2>2
<1>8. TInv'
  <2>1. Shape(c, proc[c])
    BY <1>1 DEF TInv
  <2>2. Shape(c, r)
    BY <1>1, <1>2, <1>7, <2>1 DEF Shape, Changers
  <2>3. /\ content' \in [Files -> Lines] /\ faults' \in 0..MaxFaults /\ book' \subseteq Users
        /\ torn' \subseteq Copiers /\ lists' \in [Copiers -> SUBSET SUBSET Users]
        /\ harm' \in BOOLEAN
    BY <1>1, <1>2 DEF TInv, TypeOK
  <2> QED BY <1>1, <1>2, <1>7, <2>2, <2>3, MoveTInv
<1>9. ASSUME ~harm'
      PROVE  Calm'
  <2>1. Calm
    BY <1>2, <1>9, Zenon DEF IInv
  <2>2. proc'[c] = r
    BY <1>1, <1>7
  <2>3. ReadOk(c)
    BY <1>1, <2>1 DEF Calm
  <2>5. c \notin torn => Reading(proc[c], lines, lists[c])
    BY <1>2, <1>3, <2>3 DEF ReadOk, At
  <2>6. ReadOk(c)' /\ CopiedOk(c)'
    <3>1. CASE c \in torn
      BY <1>2, <3>1 DEF ReadOk, CopiedOk
    <3>2. CASE c \notin torn /\ PageOf(lines, k) = <<>>
      <4>1. r.pc = "done" /\ r.buffer = buffer
        BY <1>7, <3>2
      <4>2. ReadOk(c)'
        BY <2>2, <4>1 DEF ReadOk, At
      <4>3. PICK len \in Nat : len = Len(lines) /\ DOMAIN lines = 1..len /\ len <= k * PageSize
        BY <1>6, <3>2, LenProperties DEF Lines
      <4>4. /\ ToSet(lines) \in lists[c] /\ IsInjective(buffer)
            /\ \A x \in ToSet(buffer) : \E i \in DOMAIN lines : lines[i] = x
        BY <1>4, <2>5, <3>2 DEF Reading
      <4>5. PICK n \in 0..len :
              /\ {lines[i] : i \in 1..n} \in lists[c]
              /\ \A i \in 1..n : i <= k * PageSize => lines[i] \in ToSet(buffer)
        BY <1>4, <2>5, <3>2, <4>3, Zenon DEF Reading
      <4>6. {lines[i] : i \in 1..n} \subseteq ToSet(buffer)
        <5>1. \A i \in 1..n : i <= k * PageSize
          <6>1. k * PageSize \in Nat
            BY UserFileAssumption
          <6> QED BY <4>3, <6>1
        <5> QED BY <4>5, <5>1
      <4>7. ToSet(buffer) \subseteq ToSet(lines)
        BY <4>4 DEF ToSet
      <4>8. CopiedOk(c)'
        BY <1>2, <2>2, <4>1, <4>4, <4>5, <4>6, <4>7 DEF CopiedOk
      <4> QED BY <4>2, <4>8
    <3>3. CASE c \notin torn /\ PageOf(lines, k) # <<>>
      <4>1. r.pc = "read" /\ r.page = k + 1 /\ r.buffer = buffer \o PageOf(lines, k)
        BY <1>7, <3>3
      <4>2. Reading(r, lines, lists[c])
        BY <1>4, <2>5, <3>3, <4>1, ReadingPage
      <4>3. \A p \in Removers : proc'[p] = proc[p]
        BY <1>1, <1>7 DEF Procs, Changers
      <4>4. ReadOk(c)'
        BY <1>2, <1>3, <1>7, <2>2, <2>3, <3>3, <4>2, <4>3 DEF ReadOk, At
      <4>5. CopiedOk(c)'
        BY <2>2, <4>1 DEF CopiedOk, At
      <4> QED BY <4>4, <4>5
    <3> QED BY <3>1, <3>2, <3>3
  <2> QED BY <1>1, <1>2, <1>7, <2>1, <2>6, CopierCalm
<1> QED BY <1>8, <1>9 DEF IInv

\* What is written of a copy has nobody who is not in it.
LEMMA CutFact ==
  ASSUME NEW S, NEW s \in Seq(S), NEW n \in 0..Len(s)
  PROVE  /\ SubSeq(s, 1, n) \in Seq(S) /\ ToSet(SubSeq(s, 1, n)) \subseteq ToSet(s)
         /\ IsInjective(s) => IsInjective(SubSeq(s, 1, n))
<1>1. DOMAIN s = 1..Len(s) /\ Len(s) \in Nat
  BY LenProperties
<1>2. PICK t : t = SubSeq(s, 1, n)
  OBVIOUS
<1>3. t \in Seq(S) /\ Len(t) = n /\ \A i \in 1..n : t[i] = s[i]
  BY <1>1, <1>2, SubSeqProperties
<1>4. DOMAIN t = 1..n
  BY <1>3, LenProperties
<1>5. ToSet(t) \subseteq ToSet(s)
  BY <1>1, <1>3, <1>4 DEF ToSet
<1>6. IsInjective(s) => IsInjective(t)
  BY <1>1, <1>3, <1>4 DEF IsInjective
<1> QED BY <1>2, <1>3, <1>5, <1>6

LEMMA CopyFullStep ==
  ASSUME IInv, NEW c \in Copiers, CopyFull(c)
  PROVE  IInv'
<1>1. /\ TInv /\ TypeOK /\ c \in Procs /\ c \notin Changers /\ c \notin Removers /\ c \notin Adders
      /\ proc \in [Procs -> ProcType] /\ proc[c] \in ProcType
      /\ content \in [Files -> Lines] /\ faults \in 0..MaxFaults /\ MaxFaults \in Nat
  BY UserFileAssumption DEF IInv, TInv, TypeOK, Changers, Procs, Lines
<1>2. /\ proc[c].pc = "read" /\ faults < MaxFaults /\ faults' = faults + 1
      /\ UNCHANGED <<name, temp, content, book, harm, lists, torn>>
  BY Zenon DEF CopyFull, At, disk, notes
<1>3. PICK lines \in Lines : lines = content[proc[c].src]
  <2>1. proc[c].src \in Files
    BY <1>1, <1>2 DEF TInv, Shape
  <2> QED BY <1>1, <2>1
<1>4. PICK buffer \in Lines : buffer = proc[c].buffer
  BY <1>1 DEF ProcType, Lines
<1>5. PICK n \in 0..Len(buffer) :
        proc' = [proc EXCEPT ![c].pc = "cut", ![c].buffer = SubSeq(@, 1, n)]
  BY <1>4 DEF CopyFull
<1>6. PICK part \in Lines :
        /\ part = SubSeq(buffer, 1, n) /\ ToSet(part) \subseteq ToSet(buffer)
        /\ IsInjective(buffer) => IsInjective(part)
  BY CutFact DEF Lines
<1> DEFINE r == [proc[c] EXCEPT !.pc = "cut", !.buffer = part]
<1>7. r \in ProcType
  BY <1>1 DEF ProcType, Lines
<1>8. proc' = [proc EXCEPT ![c] = r]
  BY <1>1, <1>4, <1>5, <1>6
<1>9. r.src = proc[c].src /\ r.dst = proc[c].dst /\ r.pc = "cut" /\ r.buffer = part
      /\ r.page = proc[c].page /\ r.user = proc[c].user
  BY <1>1 DEF ProcType
<1> HIDE DEF r
<1>10. TInv'
  <2>1. Shape(c, proc[c])
    BY <1>1 DEF TInv
  <2>2. Shape(c, r)
    BY <1>1, <1>2, <1>9, <2>1 DEF Shape, Changers
  <2>3. /\ content' \in [Files -> Lines] /\ faults' \in 0..MaxFaults /\ book' \subseteq Users
        /\ torn' \subseteq Copiers /\ lists' \in [Copiers -> SUBSET SUBSET Users]
        /\ harm' \in BOOLEAN
    BY <1>1, <1>2 DEF TInv, TypeOK
  <2> QED BY <1>1, <1>2, <1>7, <1>8, <1>9, <2>2, <2>3, MoveTInv
<1>11. ASSUME ~harm'
       PROVE  Calm'
  <2>1. Calm
    BY <1>2, <1>11, Zenon DEF IInv
  <2>2. proc'[c] = r
    BY <1>1, <1>8
  <2>3. ReadOk(c)
    BY <1>1, <2>1 DEF Calm
  <2>4. ReadOk(c)'
    BY <1>9, <2>2 DEF ReadOk, At
  <2>5. CopiedOk(c)'
    <3>1. CASE c \in torn
      BY <1>2, <3>1 DEF CopiedOk
    <3>2. CASE c \notin torn
      <4>1. Reading(proc[c], lines, lists[c])
        BY <1>2, <1>3, <2>3, <3>2 DEF ReadOk, At
      <4>2. /\ ToSet(lines) \in lists[c] /\ IsInjective(buffer)
            /\ \A x \in ToSet(buffer) : \E i \in DOMAIN lines : lines[i] = x
        BY <1>4, <4>1 DEF Reading
      <4>3. ToSet(part) \subseteq ToSet(lines) /\ IsInjective(part)
        BY <1>6, <4>2 DEF ToSet
      <4> QED BY <1>2, <1>9, <2>2, <4>2, <4>3 DEF CopiedOk, At
    <3> QED BY <3>1, <3>2
  <2> QED BY <1>1, <1>2, <1>7, <1>8, <2>1, <2>4, <2>5, CopierCalm
<1> QED BY <1>10, <1>11 DEF IInv

-----------------------------------------------------------------------------
(* The theorems                                                            *)

LEMMA InitIInv == Init => IInv
<1> SUFFICES ASSUME Init PROVE IInv
  OBVIOUS
<1>1. /\ FirstFile \in Files /\ FirstFile \notin Removers /\ Removers \subseteq Files
      /\ NoFile \notin Files /\ NoUser \notin Users
      /\ \A c \in Copiers : c \notin Changers /\ c \notin Removers /\ c \notin Adders
  BY UserFileAssumption DEF Files, Procs, Changers
<1>2. First \in Lines /\ <<>> \in Lines /\ IsInjective(First)
  <2>1. First \in Seq(Users) /\ IsInjective(First)
    BY UserFileAssumption
  <2>2. First \in Seq(Users \cup {NoUser}) /\ <<>> \in Seq(Users \cup {NoUser})
    BY <2>1, SeqMonotonic, EmptySeq
  <2> QED BY <2>1, <2>2 DEF Lines
<1>3. NewProc \in ProcType
  BY <1>2 DEF NewProc, ProcType, Lines
<1>4. /\ name = FirstFile /\ temp = NoFile /\ content[name] = First
      /\ content \in [Files -> Lines]
      /\ proc \in [Procs -> ProcType] /\ \A p \in Procs : proc[p] = NewProc
  BY <1>1, <1>2, <1>3 DEF Init
<1>5. TypeOK
  <2>1. faults \in 0..MaxFaults
    BY UserFileAssumption DEF Init
  <2>2. book \subseteq Users
    BY UserFileAssumption, ElementOfSeq, LenProperties DEF Init, ToSet
  <2>3. harm \in BOOLEAN /\ torn \subseteq Copiers
    BY DEF Init
  <2> QED BY <1>1, <1>4, <2>1, <2>2, <2>3 DEF TypeOK, Lines
<1>6. lists \in [Copiers -> SUBSET SUBSET Users]
  BY DEF Init
<1>7. ASSUME NEW p \in Procs
      PROVE  Shape(p, proc[p]) /\ NewFile(p) /\ NotTemp(p)
  <2>1. /\ proc[p].pc = "start" /\ proc[p].src = NoFile /\ proc[p].buffer = <<>>
        /\ proc[p].page = 0
    BY <1>4 DEF NewProc
  <2>2. \A q \in Procs : proc[q].src = NoFile /\ proc[q].dst = NoFile
    BY <1>4 DEF NewProc
  <2>3. Shape(p, proc[p])
    BY <2>1 DEF Shape
  <2>4. NewFile(p) /\ NotTemp(p)
    BY <1>1, <1>4, <2>1, <2>2 DEF NewFile, NotTemp
  <2> QED BY <2>3, <2>4
<1>8. Calm
  <2>1. \A p \in Procs : proc[p].pc = "start"
    BY <1>4 DEF NewProc
  <2>2. Alone
    BY <2>1 DEF Alone, Changing, Procs
  <2>3. ToSet(content[name]) = book /\ IsInjective(content[name])
    BY <1>2, <1>4 DEF Init
  <2>4. ASSUME NEW p \in Procs
        PROVE  AddOk(p) /\ RemoveOk(p) /\ ReadOk(p) /\ CopiedOk(p)
    <3>1. /\ proc[p].pc = "start" /\ proc[p].buffer = <<>>
          /\ proc[p].page = 0 /\ proc[p].offset = 0
      BY <1>4 DEF NewProc
    <3> QED BY <3>1 DEF AddOk, RemoveOk, ReadOk, CopiedOk, Changing, At
  <2> QED BY <2>2, <2>3, <2>4 DEF Calm
<1> QED BY <1>5, <1>6, <1>7, <1>8 DEF IInv, TInv

LEMMA NextIInv == IInv /\ [Next]_vars => IInv'
<1> SUFFICES ASSUME IInv, [Next]_vars PROVE IInv'
  OBVIOUS
<1>1. ASSUME NEW p \in Changers, OpenChange(p) \/ Die(p)
      PROVE  IInv'
  BY <1>1, OpenChangeStep, DieStep
<1>2. ASSUME NEW p \in Adders, StartAdd(p) \/ AppendUser(p)
      PROVE  IInv'
  BY <1>2, StartAddStep, AppendUserStep
<1>3. ASSUME NEW p \in Removers, Removal(p)
      PROVE  IInv'
  BY <1>3, StartRemoveStep, OpenTempStep, CopyPageStep, FlushStep, DiskFullStep, RenameStep,
     CloseStep DEF Removal
<1>4. ASSUME NEW c \in Copiers, OpenCopy(c) \/ ReadPage(c) \/ CopyFull(c)
      PROVE  IInv'
  BY <1>4, OpenCopyStep, ReadPageStep, CopyFullStep
<1>5. CASE UNCHANGED vars
  <2>1. UNCHANGED <<name, temp, content, proc, faults, book, harm, lists, torn>>
    BY <1>5 DEF vars, disk, notes
  <2>2. TInv'
    <3>1. TypeOK' /\ lists' \in [Copiers -> SUBSET SUBSET Users]
      BY <2>1 DEF IInv, TInv, TypeOK
    <3>2. \A p \in Procs : Shape(p, proc[p])' /\ NewFile(p)' /\ NotTemp(p)'
      BY <2>1 DEF IInv, TInv, NewFile, NotTemp
    <3> QED BY <3>1, <3>2 DEF TInv
  <2>3. ASSUME Calm
        PROVE  Calm'
    <3>1. Alone'
      BY <2>1, <2>3 DEF Calm, Alone, Changing
    <3>2. (\A p \in Removers : ~At(p, "close"))' =>
            ToSet(content'[name']) = book' /\ IsInjective(content'[name'])
      BY <2>1, <2>3 DEF Calm, At
    <3>3. ASSUME NEW p \in Procs
          PROVE  AddOk(p)' /\ RemoveOk(p)' /\ ReadOk(p)' /\ CopiedOk(p)'
      <4>1. AddOk(p) /\ RemoveOk(p) /\ ReadOk(p) /\ CopiedOk(p)
        BY <2>3 DEF Calm
      <4>2. AddOk(p)'
        BY <2>1, <4>1 DEF AddOk, Changing
      <4>3. RemoveOk(p)'
        BY <2>1, <4>1 DEF RemoveOk
      <4>4. ReadOk(p)'
        BY <2>1, <4>1 DEF ReadOk, At
      <4>5. CopiedOk(p)'
        BY <2>1, <4>1 DEF CopiedOk, At
      <4> QED BY <4>2, <4>3, <4>4, <4>5
    <3> QED BY <3>1, <3>2, <3>3 DEF Calm
  <2> QED BY <2>1, <2>2, <2>3, Zenon DEF IInv
<1> QED BY <1>1, <1>2, <1>3, <1>4, <1>5 DEF Next

\* The invariant of the user file: what every step leaves true of the files and the
\* processes, and, while nothing did harm, how far each change and each copy is.
THEOREM Invariant == Spec => []IInv
<1>1. Init => IInv
  BY InitIInv
<1>2. IInv /\ [Next]_vars => IInv'
  BY NextIInv
<1> QED BY <1>1, <1>2, PTL DEF Spec

\* The variables have their types.
THEOREM Typing == Spec => []TypeOK
<1>1. IInv => TypeOK
  BY DEF IInv, TInv
<1> QED BY <1>1, Invariant, PTL

\* Changes that do not overlap and do not fail half-way leave exactly the users who
\* were added and not removed in the file, whatever processes died before they renamed
\* theirs (FileStorage::add, FileStorage::remove).
THEOREM FileIsBookHolds == Spec => []FileIsBook
<1>1. IInv => FileIsBook
  BY DEF IInv, Calm, FileIsBook
<1> QED BY <1>1, Invariant, PTL

\* A copy that is read page by page, while users are added and removed, has everybody
\* who was subscribed at one time while it was made, nobody who was not at another,
\* and nobody twice (FileStorage::clone).  One that could not be written to its end may
\* lack users, and has nobody it should not have.
THEOREM CopyIsWholeHolds == Spec => []CopyIsWhole
<1>1. IInv => CopyIsWhole
  <2> SUFFICES ASSUME IInv, NEW c \in Copiers, proc[c].pc \in {"done", "cut"},
                      ~harm, c \notin torn
               PROVE  CopiedOk(c)
    BY Zenon DEF CopyIsWhole, CopiedOk
  <2> QED BY Zenon DEF IInv, Calm, Procs
<1> QED BY <1>1, Invariant, PTL

=============================================================================
