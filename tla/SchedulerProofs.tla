--------------------------- MODULE SchedulerProofs ---------------------------
(***************************************************************************)
(* Proofs about the scheduler and its list of tasks, for any number of      *)
(* tasks, processes and failures.                                          *)
(*                                                                         *)
(* The first half is about the list itself (module TaskList): however the   *)
(* handlers of SIGCHLD and SIGALRM interrupt one another, it is a queue, and *)
(* holds the tasks of the children.  The second half is about the loop that  *)
(* adds to it (module Scheduler), where the list is a set: it is right       *)
(* whenever the scheduler waits for a connection, unless the loop has used   *)
(* a task that a handler had deleted.                                       *)
(***************************************************************************)
EXTENDS TaskList, WellFoundedInduction, FiniteSetTheorems, SequenceTheorems, TLAPS

-----------------------------------------------------------------------------
(* Lists and the sequences they stand for                                  *)

\* A walk over s that has got to x meets t: it is x or comes after it.
Meets(s, x, t) == \E n \in DOMAIN s : t = s[n] /\ \E m \in 1..n : x = s[m]

\* The links of l are those of the tasks of c, in the order in which they joined.
Linked(l, c) ==
  /\ l \in ListType /\ c \in Seq(Tasks) /\ IsInjective(c)
  /\ l.count = Len(c)
  /\ \A t \in Tasks : l.in[t] <=> t \in ToSet(c)
  /\ l.first = IF c = <<>> THEN Null ELSE c[Len(c)]
  /\ l.last  = IF c = <<>> THEN Null ELSE c[1]
  /\ \A n \in 1..Len(c) : l.prev[c[n]] = IF n = Len(c) THEN Null ELSE c[n + 1]
  /\ \A n \in 1..Len(c) : l.next[c[n]] = IF n = 1 THEN Null ELSE c[n - 1]

\* What is left of c is in its order.
Keeps(d, c) ==
  /\ ToSet(d) \subseteq ToSet(c)
  /\ \A x, t \in ToSet(d) : Meets(d, x, t) <=> Meets(c, x, t)

-----------------------------------------------------------------------------
(* The invariant                                                           *)

\* A handler has a place in the list only while it looks for a child.
FrameOk(f) ==
  /\ f.pc = "off" => f = Off
  /\ f.pc = "wait" => f = [Off EXCEPT !.pc = "wait"]
  /\ f.pc \in {"walk", "match"} => f.pid \in Pids /\ proc[f.pid] = "none"
  /\ f.pc = "walk" => f.after = Null

\* What it is going to look at is there.
Safe(f) ==
  /\ f.pc \in {"walk", "match"} => f.curr \in alive \cup {Null}
  /\ f.pc = "match" => f.curr \in alive /\ f.after \in alive \cup {Null} /\ f.after # f.curr

\* It will come to t, which stands for the child it looks for.
Seeks(f, t) ==
  /\ f.pid = pid[t]
  /\ \/ f.pc = "walk"  /\ Meets(Chain, f.curr, t)
     \/ f.pc = "match" /\ (t = f.curr \/ Meets(Chain, f.after, t))

\* Each task is that of one process, each child that was not waited for and not
\* terminated has one, and no task has one that was terminated.
Owned ==
  /\ \A t \in Tasks : pid[t] \in Pids <=> t \in alive
  /\ \A t, u \in alive : pid[t] = pid[u] => t = u
  /\ \A p \in killed : proc[p] # "none" /\ \A t \in alive : pid[t] # p
  /\ \A p \in Pids : proc[p] # "none" /\ p \notin killed => \E t \in alive : pid[t] = p

\* Each task is that of a child, or of one whose end a handler has learnt, and who
\* will come to it.
Found ==
  \A t \in alive : proc[pid[t]] # "none" \/ \E i \in 1..2 : Seeks(frame[i], t)

Typed ==
  /\ alive \subseteq Tasks /\ pid \in [Tasks -> Pids \cup {NoPid}]
  /\ proc \in [Pids -> {"none", "runs", "ended"}]
  /\ old \subseteq alive /\ killed \subseteq Pids /\ frame \in [1..2 -> FrameType]
  /\ alarm \in BOOLEAN /\ broken \in BOOLEAN /\ hurt \in BOOLEAN

IInv ==
  /\ Typed
  /\ Linked(list, Chain) /\ ToSet(Chain) = alive
  /\ Owned
  /\ \A i \in 1..2 : FrameOk(frame[i])
  /\ ~alarm => frame[2] = Off
  /\ broken => hurt
  /\ ~hurt => Found /\ \A i \in 1..2 : Safe(frame[i])

-----------------------------------------------------------------------------
(* A list is walked over in its order                                      *)

\* A set of numbers has a smallest one.
LEMMA Smallest ==
  ASSUME NEW T \in SUBSET Nat, T # {}
  PROVE  \E m \in T : \A k \in T : m <= k
<1>1. IsWellFoundedOn(OpToRel(<, Nat), Nat)
  BY NatLessThanWellFounded, Zenon
<1>2. PICK m \in T : \A k \in T : <<k, m>> \notin OpToRel(<, Nat)
  BY <1>1, WFMin, Zenon
<1>3. \A k \in T : ~(k < m)
  BY <1>2, Zenon DEF OpToRel
<1> QED BY <1>3

\* The links stand for a sequence of tasks, which is no longer than there are tasks.
LEMMA LinkedFact ==
  ASSUME NEW l, NEW c, Linked(l, c)
  PROVE  /\ Len(c) \in Nat /\ DOMAIN c = 1..Len(c) /\ Len(c) <= Cardinality(Tasks)
         /\ \A n \in 1..Len(c) : c[n] \in Tasks /\ c[n] # Null
         /\ c = <<>> <=> Len(c) = 0
         /\ \A t : t \in ToSet(c) <=> \E n \in 1..Len(c) : t = c[n]
         /\ Cardinality(Tasks) \in Nat
<1>1. c \in Seq(Tasks) /\ IsInjective(c)
  BY DEF Linked
<1>2. Len(c) \in Nat /\ DOMAIN c = 1..Len(c) /\ c \in [1..Len(c) -> Tasks]
  BY <1>1, LenProperties
<1>3. IsFiniteSet(Tasks) /\ Null \notin Tasks
  BY TaskListAssumption
<1>4. Cardinality(1..Len(c)) = Len(c)
  <2>1. 1 \in Int /\ Len(c) \in Int
    BY <1>2
  <2>2. Cardinality(1..Len(c)) = IF 1 > Len(c) THEN 0 ELSE Len(c) - 1 + 1
    BY <2>1, FS_Interval, Zenon
  <2> QED BY <1>2, <2>2
<1>5. c \in Injection(1..Len(c), Tasks)
  BY <1>1, <1>2 DEF Injection
<1>6. Cardinality(1..Len(c)) <= Cardinality(Tasks)
  BY <1>3, <1>5, FS_Injection, Zenon
<1>7. Cardinality(Tasks) \in Nat
  BY <1>3, FS_CardinalityType
<1>8. c = <<>> <=> Len(c) = 0
  BY <1>1, EmptySeq
<1> QED BY <1>2, <1>3, <1>4, <1>6, <1>7, <1>8 DEF ToSet

\* Where a walk over l is after so many tasks.
Steps(f, l, n) ==
  f = [k \in 1..n |-> IF k = 1 THEN l.last
                      ELSE IF f[k - 1] = Null THEN Null ELSE l.prev[f[k - 1]]]

\* It is a function.
LEMMA StepsExist ==
  ASSUME NEW l, NEW n \in Nat
  PROVE  \E f : Steps(f, l, n)
<1> DEFINE T == {k \in Nat : ~\E f : Steps(f, l, k)}
<1>1. SUFFICES ASSUME T # {} PROVE FALSE
  OBVIOUS
<1>2. PICK m \in T : \A k \in T : m <= k
  BY <1>1, Smallest
<1>3. m # 0
  <2>1. Steps([k \in 1..0 |-> Null], l, 0)
    BY DEF Steps
  <2> QED BY <2>1
<1>4. PICK g : Steps(g, l, m - 1)
  <2>1. m - 1 \in Nat /\ ~(m <= m - 1)
    BY <1>3
  <2> QED BY <1>2, <2>1
<1> DEFINE f == [k \in 1..m |-> IF k < m THEN g[k]
                                ELSE IF m = 1 THEN l.last
                                ELSE IF g[m - 1] = Null THEN Null ELSE l.prev[g[m - 1]]]
<1>5. Steps(f, l, m)
  <2>1. \A k \in 1..(m - 1) : g[k] = IF k = 1 THEN l.last
          ELSE IF g[k - 1] = Null THEN Null ELSE l.prev[g[k - 1]]
    BY <1>3, <1>4, Zenon DEF Steps
  <2>2. \A k \in 1..m : f[k] = IF k = 1 THEN l.last
          ELSE IF f[k - 1] = Null THEN Null ELSE l.prev[f[k - 1]]
    <3> TAKE k \in 1..m
    <3>1. CASE k = m
      <4>1. k # 1 => f[k - 1] = g[m - 1]
        BY <1>3, <3>1
      <4>2. f[k] = IF m = 1 THEN l.last
                   ELSE IF g[m - 1] = Null THEN Null ELSE l.prev[g[m - 1]]
        BY <1>3, <3>1
      <4> QED BY <3>1, <4>1, <4>2
    <3>2. CASE k # m
      <4>1. f[k] = g[k] /\ k \in 1..(m - 1)
        BY <3>2
      <4>2. k # 1 => f[k - 1] = g[k - 1]
        BY <3>2
      <4> QED BY <2>1, <4>1, <4>2
    <3> QED BY <3>1, <3>2
  <2>3. f = [k \in 1..m |-> f[k]]
    OBVIOUS
  <2> HIDE DEF f
  <2> QED BY <2>2, <2>3 DEF Steps
<1> QED BY <1>5

\* Each step of a walk is at the next task of the sequence, until there is none.
LEMMA StepsFact ==
  ASSUME NEW l, NEW c, Linked(l, c), NEW n \in Nat, NEW f, Steps(f, l, n), NEW k \in 1..n
  PROVE  f[k] = IF k <= Len(c) THEN c[k] ELSE Null
<1> DEFINE T == {i \in Nat : i \in 1..n /\ f[i] # (IF i <= Len(c) THEN c[i] ELSE Null)}
<1>1. SUFFICES ASSUME T # {} PROVE FALSE
  OBVIOUS
<1>2. PICK m \in T : \A i \in T : m <= i
  BY <1>1, Smallest
<1>3. m \in 1..n /\ f[m] # (IF m <= Len(c) THEN c[m] ELSE Null)
  BY <1>2
<1>4. f[m] = IF m = 1 THEN l.last ELSE IF f[m - 1] = Null THEN Null ELSE l.prev[f[m - 1]]
  BY <1>3, Zenon DEF Steps
<1>5. /\ Len(c) \in Nat /\ (c = <<>> <=> Len(c) = 0)
      /\ \A i \in 1..Len(c) : c[i] \in Tasks /\ c[i] # Null
  BY LinkedFact
<1>6. m # 1
  <2>1. l.last = IF c = <<>> THEN Null ELSE c[1]
    BY DEF Linked
  <2> QED BY <1>3, <1>4, <1>5, <2>1
<1>7. f[m - 1] = IF m - 1 <= Len(c) THEN c[m - 1] ELSE Null
  <2>1. m - 1 \in Nat /\ m - 1 \in 1..n /\ ~(m <= m - 1)
    BY <1>3, <1>6
  <2> QED BY <1>2, <2>1
<1>8. CASE m - 1 <= Len(c)
  <2>1. m - 1 \in 1..Len(c)
    BY <1>3, <1>6, <1>5, <1>8
  <2>2. l.prev[c[m - 1]] = IF m - 1 = Len(c) THEN Null ELSE c[(m - 1) + 1]
    BY <2>1 DEF Linked
  <2>3. f[m] = IF m - 1 = Len(c) THEN Null ELSE c[m]
    BY <1>3, <1>4, <1>5, <1>6, <1>7, <1>8, <2>1, <2>2
  <2> QED BY <1>3, <1>5, <1>8, <2>3
<1>9. CASE ~(m - 1 <= Len(c))
  BY <1>3, <1>4, <1>5, <1>6, <1>7, <1>9
<1> QED BY <1>8, <1>9

\* So a walk meets the tasks the links stand for, in their order.
LEMMA ChainFact ==
  ASSUME NEW l, NEW c, Linked(l, c)
  PROVE  ChainOf(l) = c
<1> DEFINE size == Cardinality(Tasks)
           at   == CHOOSE f : Steps(f, l, size)
           met  == {n \in 1..size : at[n] # Null}
<1>1. /\ Len(c) \in Nat /\ DOMAIN c = 1..Len(c) /\ Len(c) <= size /\ size \in Nat
      /\ \A n \in 1..Len(c) : c[n] # Null
  BY LinkedFact
<1>2. ChainOf(l) = [n \in 1..Cardinality(met) |-> at[n]]
  BY DEF ChainOf, Steps
<1>3. Steps(at, l, size)
  BY <1>1, StepsExist
<1> HIDE DEF at, size
<1>4. \A n \in 1..size : at[n] = IF n <= Len(c) THEN c[n] ELSE Null
  BY <1>1, <1>3, StepsFact
<1>5. met = 1..Len(c)
  BY <1>1, <1>4
<1> HIDE DEF met
<1>6. Cardinality(met) = Len(c)
  <2>1. 1 \in Int /\ Len(c) \in Int
    BY <1>1
  <2>2. Cardinality(1..Len(c)) = IF 1 > Len(c) THEN 0 ELSE Len(c) - 1 + 1
    BY <2>1, FS_Interval, Zenon
  <2> QED BY <1>1, <1>5, <2>2
<1>7. ChainOf(l) = [n \in 1..Len(c) |-> c[n]]
  BY <1>1, <1>2, <1>4, <1>6
<1>8. c \in Seq(Tasks)
  BY DEF Linked
<1> QED BY <1>1, <1>7, <1>8

-----------------------------------------------------------------------------
(* Adding a task and taking one out                                        *)

\* A task that joins comes last.
LEMMA AppendFact ==
  ASSUME NEW c \in Seq(Tasks), NEW t \in Tasks
  PROVE  /\ Len(Append(c, t)) = Len(c) + 1 /\ Append(c, t) # <<>>
         /\ \A n \in 1..Len(c) : Append(c, t)[n] = c[n]
         /\ Append(c, t)[Len(c) + 1] = t
         /\ Append(c, t) \in Seq(Tasks) /\ DOMAIN Append(c, t) = 1..(Len(c) + 1)
         /\ ToSet(Append(c, t)) = ToSet(c) \cup {t}
         /\ t \notin ToSet(c) /\ IsInjective(c) => IsInjective(Append(c, t)) /\ Keeps(c, Append(c, t))
<1> DEFINE d == Append(c, t)
           len == Len(c)
<1>1. /\ len \in Nat /\ Len(d) = len + 1 /\ d[len + 1] = t
      /\ \A n \in 1..len : d[n] = c[n]
      /\ d \in Seq(Tasks) /\ DOMAIN d = 1..(len + 1) /\ DOMAIN c = 1..len
  BY AppendProperties, LenProperties
<1>2. d # <<>>
  BY AppendProperties
<1> HIDE DEF d, len
<1>3. ToSet(d) = ToSet(c) \cup {t}
  <2>1. \A x : (\E n \in 1..(len + 1) : x = d[n]) <=> (\E n \in 1..len : x = c[n]) \/ x = t
    <3> TAKE x
    <3>1. ASSUME NEW n \in 1..(len + 1), x = d[n] PROVE (\E m \in 1..len : x = c[m]) \/ x = t
      <4>1. n \in 1..len \/ n = len + 1
        BY <1>1
      <4> QED BY <1>1, <3>1, <4>1
    <3>2. ASSUME NEW n \in 1..len, x = c[n] PROVE \E m \in 1..(len + 1) : x = d[m]
      BY <1>1, <3>2
    <3>3. len + 1 \in 1..(len + 1)
      BY <1>1
    <3> QED BY <1>1, <3>1, <3>2, <3>3
  <2> QED BY <1>1, <2>1 DEF ToSet
<1>4. ASSUME t \notin ToSet(c), IsInjective(c)
      PROVE  IsInjective(d) /\ Keeps(c, d)
  <2>1. \A n \in 1..len : c[n] # t
    BY <1>1, <1>4 DEF ToSet
  <2>2. IsInjective(d)
    <3> SUFFICES ASSUME NEW a \in 1..(len + 1), NEW b \in 1..(len + 1), d[a] = d[b] PROVE a = b
      BY <1>1 DEF IsInjective
    <3>1. (a \in 1..len \/ a = len + 1) /\ (b \in 1..len \/ b = len + 1)
      BY <1>1
    <3> QED BY <1>1, <1>4, <2>1, <3>1 DEF IsInjective
  <2>3. ASSUME NEW x \in ToSet(c), NEW y \in ToSet(c) PROVE Meets(c, x, y) <=> Meets(d, x, y)
    <3>1. ASSUME NEW n \in 1..len, NEW m \in 1..n, y = c[n], x = c[m] PROVE Meets(d, x, y)
      <4>1. n \in 1..(len + 1) /\ m \in 1..len
        BY <1>1
      <4> QED BY <1>1, <3>1, <4>1 DEF Meets
    <3>2. ASSUME NEW n \in 1..(len + 1), NEW m \in 1..n, y = d[n], x = d[m] PROVE Meets(c, x, y)
      <4>1. y # t
        BY <1>4
      <4>2. n \in 1..len /\ m \in 1..len
        BY <1>1, <3>2, <4>1
      <4> QED BY <1>1, <3>2, <4>2 DEF Meets
    <3> QED BY <1>1, <3>1, <3>2 DEF Meets
  <2> QED BY <1>3, <2>2, <2>3 DEF Keeps
<1> QED BY <1>1, <1>2, <1>3, <1>4 DEF d, len

\* A list that was changed has the fields of a list.
LEMMA RecordFact ==
  ASSUME NEW l \in ListType, NEW r, r = [x \in DOMAIN l |-> r[x]]
  PROVE  r = [first |-> r.first, last |-> r.last, count |-> r.count,
              next |-> r.next, prev |-> r.prev, in |-> r.in]
<1>1. DOMAIN l = {"first", "last", "count", "next", "prev", "in"}
  BY DEF ListType
<1>2. r = [x \in {"first", "last", "count", "next", "prev", "in"} |-> r[x]]
  BY <1>1
<1> QED BY <1>2

\* List::add puts a task behind those that are there.
LEMMA AddLinked ==
  ASSUME NEW l, NEW c, Linked(l, c), NEW t \in Tasks, t \notin ToSet(c)
  PROVE  Linked(Add(l, t), Append(c, t))
<1> DEFINE d == Append(c, t)
           len == Len(c)
           r == Add(l, t)
<1>1. /\ len \in Nat /\ DOMAIN c = 1..len /\ (c = <<>> <=> len = 0)
      /\ \A n \in 1..len : c[n] \in Tasks /\ c[n] # Null /\ c[n] # t
      /\ Null \notin Tasks /\ c \in Seq(Tasks) /\ IsInjective(c) /\ l \in ListType
  BY LinkedFact, TaskListAssumption DEF Linked
<1>2. /\ Len(d) = len + 1 /\ d # <<>>
      /\ \A n \in 1..len : d[n] = c[n]
      /\ d[len + 1] = t /\ d \in Seq(Tasks)
      /\ ToSet(d) = ToSet(c) \cup {t} /\ IsInjective(d)
  BY <1>1, AppendFact
<1>3. /\ l.first = IF c = <<>> THEN Null ELSE c[len]
      /\ l.last  = IF c = <<>> THEN Null ELSE c[1]
      /\ l.count = len
      /\ \A u \in Tasks : l.in[u] <=> u \in ToSet(c)
      /\ \A n \in 1..len : l.prev[c[n]] = IF n = len THEN Null ELSE c[n + 1]
      /\ \A n \in 1..len : l.next[c[n]] = IF n = 1 THEN Null ELSE c[n - 1]
  BY DEF Linked
<1>4. /\ r.first = t /\ r.count = l.count + 1
      /\ r.last = (IF l.first = Null THEN t ELSE l.last)
      /\ r.in = [l.in EXCEPT ![t] = TRUE] /\ r.next = [l.next EXCEPT ![t] = l.first]
      /\ r.prev = [u \in Tasks |-> IF u = t THEN Null ELSE IF u = l.first THEN t ELSE l.prev[u]]
      /\ r = [first |-> r.first, last |-> r.last, count |-> r.count,
              next |-> r.next, prev |-> r.prev, in |-> r.in]
  <2>1. l \in [ first : Link, last : Link, count : Int,
                next : [Tasks -> Link], prev : [Tasks -> Link], in : [Tasks -> BOOLEAN] ]
    BY <1>1 DEF ListType
  <2>2. r.first = t /\ r.count = l.count + 1
    BY <2>1 DEF Add
  <2>3. r.last = IF l.first = Null THEN t ELSE l.last
    BY <2>1 DEF Add
  <2>4. r.in = [l.in EXCEPT ![t] = TRUE]
    BY <2>1 DEF Add
  <2>5. r.next = [l.next EXCEPT ![t] = l.first]
    BY <2>1 DEF Add
  <2>6. r.prev = [u \in Tasks |-> IF u = t THEN Null ELSE IF u = l.first THEN t ELSE l.prev[u]]
    BY <2>1 DEF Add
  <2>7. r = [first |-> r.first, last |-> r.last, count |-> r.count,
             next |-> r.next, prev |-> r.prev, in |-> r.in]
    <3>1. r = [x \in DOMAIN l |-> r[x]]
      BY DEF Add
    <3> HIDE DEF r
    <3> QED BY <1>1, <3>1, RecordFact
  <2> QED BY <2>2, <2>3, <2>4, <2>5, <2>6, <2>7
<1>5. /\ l.first \in Link /\ l.last \in Link /\ l.count \in Int /\ l.next \in [Tasks -> Link]
      /\ l.prev \in [Tasks -> Link] /\ l.in \in [Tasks -> BOOLEAN] /\ t \in Link /\ Null \in Link
  BY <1>1 DEF ListType, Link
<1> HIDE DEF d, len, r
<1>6. r \in ListType
  <2>1. /\ r.first \in Link /\ r.last \in Link /\ r.count \in Int /\ r.next \in [Tasks -> Link]
        /\ r.in \in [Tasks -> BOOLEAN]
    BY <1>4, <1>5
  <2>2. r.prev \in [Tasks -> Link]
    BY <1>4, <1>5
  <2> QED BY <1>4, <2>1, <2>2 DEF ListType
<1>7. r.last = d[1]
  BY <1>1, <1>2, <1>3, <1>4
<1>8. \A u \in Tasks : r.in[u] <=> u \in ToSet(d)
  BY <1>2, <1>3, <1>4, <1>5
<1>9. ASSUME NEW n \in 1..(len + 1)
      PROVE  r.prev[d[n]] = IF n = len + 1 THEN Null ELSE d[n + 1]
  <2>1. CASE n = len + 1
    BY <1>2, <1>4, <2>1
  <2>2. CASE n = len
    <3>1. n \in 1..len /\ c[n] = l.first /\ d[n + 1] = t
      BY <1>1, <1>2, <1>3, <1>9, <2>2
    <3> QED BY <1>1, <1>2, <1>4, <2>2, <3>1
  <2>3. CASE n # len /\ n # len + 1
    <3>1. n \in 1..len /\ n + 1 \in 1..len /\ len \in 1..len
      BY <1>1, <2>3
    <3>2. c[n] # l.first
      <4>1. len # 0 /\ n # len /\ n \in DOMAIN c /\ len \in DOMAIN c
        BY <1>1, <2>3, <3>1
      <4>2. l.first = c[len]
        BY <1>1, <1>3, <4>1
      <4> QED BY <1>1, <4>1, <4>2, Zenon DEF IsInjective
    <3>3. r.prev[c[n]] = l.prev[c[n]]
      BY <1>1, <1>4, <3>1, <3>2
    <3>4. d[n] = c[n] /\ d[n + 1] = c[n + 1]
      BY <1>2, <3>1
    <3>5. l.prev[c[n]] = c[n + 1]
      BY <1>3, <2>3, <3>1
    <3> QED BY <2>3, <3>3, <3>4, <3>5
  <2> QED BY <2>1, <2>2, <2>3
<1>10. ASSUME NEW n \in 1..(len + 1)
       PROVE  r.next[d[n]] = IF n = 1 THEN Null ELSE d[n - 1]
  <2>1. CASE n = len + 1
    <3>1. r.next[d[n]] = l.first
      BY <1>2, <1>4, <1>5, <2>1
    <3>2. len # 0 => l.first = d[len]
      BY <1>1, <1>2, <1>3
    <3>3. n - 1 = len /\ (n = 1 <=> len = 0)
      BY <1>1, <2>1
    <3> QED BY <1>1, <1>3, <3>1, <3>2, <3>3
  <2>2. CASE n # len + 1
    <3>1. n \in 1..len /\ (n # 1 => n - 1 \in 1..len)
      BY <1>1, <2>2
    <3>2. r.next[c[n]] = l.next[c[n]]
      BY <1>1, <1>4, <1>5, <3>1
    <3> QED BY <1>2, <1>3, <3>1, <3>2
  <2> QED BY <2>1, <2>2
<1>11. /\ r.count = Len(d) /\ r.first = d[Len(d)]
  BY <1>2, <1>3, <1>4
<1>12. Linked(r, d)
  BY <1>2, <1>6, <1>7, <1>8, <1>9, <1>10, <1>11 DEF Linked
<1> QED BY <1>12 DEF d, r

\* The sequence without its task at k.
Cut(c, k) == [n \in 1..(Len(c) - 1) |-> IF n < k THEN c[n] ELSE c[n + 1]]

LEMMA CutFact ==
  ASSUME NEW c \in Seq(Tasks), IsInjective(c), NEW k \in 1..Len(c)
  PROVE  /\ Len(Cut(c, k)) = Len(c) - 1
         /\ \A n \in 1..(Len(c) - 1) : Cut(c, k)[n] = IF n < k THEN c[n] ELSE c[n + 1]
         /\ Cut(c, k) \in Seq(Tasks) /\ IsInjective(Cut(c, k))
         /\ ToSet(Cut(c, k)) = ToSet(c) \ {c[k]} /\ Keeps(Cut(c, k), c)
<1> DEFINE d == Cut(c, k)
           len == Len(c)
<1>1. /\ len \in Nat /\ DOMAIN c = 1..len /\ len - 1 \in Nat
      /\ \A n \in 1..len : c[n] \in Tasks
      /\ \A a, b \in 1..len : c[a] = c[b] => a = b
  BY LenProperties DEF IsInjective
<1>2. \A n \in 1..(len - 1) : (n < k => n \in 1..len) /\ n + 1 \in 1..len
  BY <1>1
<1>3. d = [n \in 1..(len - 1) |-> IF n < k THEN c[n] ELSE c[n + 1]]
  BY DEF Cut
<1> HIDE DEF d, len
<1>4. \A n \in 1..(len - 1) : d[n] = IF n < k THEN c[n] ELSE c[n + 1]
  BY <1>3
<1>5. d \in [1..(len - 1) -> Tasks]
  BY <1>1, <1>2, <1>3
<1>6. d \in Seq(Tasks) /\ Len(d) = len - 1 /\ DOMAIN d = 1..(len - 1)
  BY <1>1, <1>5, IsASeq, LenProperties
<1>7. IsInjective(d)
  <2> SUFFICES ASSUME NEW a \in 1..(len - 1), NEW b \in 1..(len - 1), d[a] = d[b] PROVE a = b
    BY <1>6 DEF IsInjective
  <2>1. PICK i \in 1..len : i = (IF a < k THEN a ELSE a + 1) /\ d[a] = c[i]
    BY <1>2, <1>4
  <2>2. PICK j \in 1..len : j = (IF b < k THEN b ELSE b + 1) /\ d[b] = c[j]
    BY <1>2, <1>4
  <2>3. i = j
    BY <1>1, <2>1, <2>2
  <2> QED BY <1>1, <2>1, <2>2, <2>3
\* Where a task of the rest was.
<1>8. ASSUME NEW i \in 1..len, i # k
      PROVE  LET n == IF i < k THEN i ELSE i - 1 IN n \in 1..(len - 1) /\ d[n] = c[i]
  <2>1. CASE i < k
    <3>1. i \in 1..(len - 1)
      BY <1>1, <2>1
    <3> QED BY <1>4, <2>1, <3>1
  <2>2. CASE ~(i < k)
    <3>1. i - 1 \in 1..(len - 1) /\ ~(i - 1 < k) /\ (i - 1) + 1 = i
      BY <1>1, <1>8, <2>2
    <3> QED BY <1>4, <2>2, <3>1
  <2> QED BY <2>1, <2>2
<1>9. \A x : x \in ToSet(d) <=> \E i \in 1..len : i # k /\ x = c[i]
  <2> TAKE x
  <2>1. ASSUME NEW n \in 1..(len - 1), x = d[n] PROVE \E i \in 1..len : i # k /\ x = c[i]
    <3>1. (IF n < k THEN n ELSE n + 1) \in 1..len /\ (IF n < k THEN n ELSE n + 1) # k
      BY <1>1
    <3> QED BY <1>4, <2>1, <3>1
  <2>2. ASSUME NEW i \in 1..len, i # k, x = c[i] PROVE \E n \in 1..(len - 1) : x = d[n]
    BY <1>8, <2>2
  <2> QED BY <1>6, <2>1, <2>2 DEF ToSet
<1>10. ToSet(d) = ToSet(c) \ {c[k]}
  <2>1. \A x : x \in ToSet(c) <=> \E i \in 1..len : x = c[i]
    BY <1>1 DEF ToSet
  <2>2. k \in 1..len
    BY DEF len
  <2> QED BY <1>1, <1>9, <2>1, <2>2
<1>11. ASSUME NEW x \in ToSet(d), NEW t \in ToSet(d) PROVE Meets(d, x, t) <=> Meets(c, x, t)
  <2>1. ASSUME NEW n \in 1..(len - 1), NEW m \in 1..n, t = d[n], x = d[m] PROVE Meets(c, x, t)
    <3>1. PICK i \in 1..len : i = (IF n < k THEN n ELSE n + 1) /\ d[n] = c[i]
      BY <1>2, <1>4
    <3>2. m \in 1..(len - 1)
      BY <1>1
    <3>3. PICK j \in 1..len : j = (IF m < k THEN m ELSE m + 1) /\ d[m] = c[j]
      BY <1>2, <1>4, <3>2
    <3>4. j \in 1..i
      BY <1>1, <3>1, <3>3
    <3> QED BY <1>1, <2>1, <3>1, <3>3, <3>4 DEF Meets
  <2>2. ASSUME NEW i \in 1..len, NEW j \in 1..i, t = c[i], x = c[j] PROVE Meets(d, x, t)
    <3>1. j \in 1..len
      BY <1>1
    <3>2. i # k /\ j # k
      BY <1>1, <1>10, <2>2, <3>1
    <3>3. PICK n \in 1..(len - 1) : n = (IF i < k THEN i ELSE i - 1) /\ d[n] = c[i]
      BY <1>8, <3>2
    <3>4. PICK m \in 1..(len - 1) : m = (IF j < k THEN j ELSE j - 1) /\ d[m] = c[j]
      BY <1>8, <3>1, <3>2
    <3>5. m \in 1..n
      BY <1>1, <3>1, <3>2, <3>3, <3>4
    <3> QED BY <1>6, <2>2, <3>3, <3>4, <3>5 DEF Meets
  <2> QED BY <1>1, <1>6, <2>1, <2>2 DEF Meets
<1>12. Keeps(d, c)
  BY <1>10, <1>11 DEF Keeps
<1> QED BY <1>4, <1>6, <1>7, <1>10, <1>12 DEF d, len

\* List::del takes a task out wherever it is, and leaves the others in their order.
LEMMA DelLinked ==
  ASSUME NEW l, NEW c, Linked(l, c), NEW k \in 1..Len(c)
  PROVE  Linked(Del(l, c[k]), Cut(c, k))
<1> DEFINE d == Cut(c, k)
           len == Len(c)
           t == c[k]
           r == Del(l, t)
           before == IF k = len THEN Null ELSE c[k + 1]
           after  == IF k = 1 THEN Null ELSE c[k - 1]
<1>1. /\ len \in Nat /\ DOMAIN c = 1..len /\ k \in 1..len /\ c # <<>>
      /\ \A n \in 1..len : c[n] \in Tasks /\ c[n] # Null
      /\ Null \notin Tasks /\ c \in Seq(Tasks) /\ IsInjective(c) /\ l \in ListType
  BY LinkedFact, TaskListAssumption DEF Linked
<1>2. \A a, b \in 1..len : c[a] = c[b] => a = b
  BY <1>1 DEF IsInjective
<1>3. /\ Len(d) = len - 1 /\ d \in Seq(Tasks) /\ IsInjective(d)
      /\ \A n \in 1..(len - 1) : d[n] = IF n < k THEN c[n] ELSE c[n + 1]
      /\ ToSet(d) = ToSet(c) \ {t} /\ (d = <<>> <=> len = 1)
  <2>1. /\ Len(d) = len - 1 /\ d \in Seq(Tasks) /\ IsInjective(d)
        /\ \A n \in 1..(len - 1) : d[n] = IF n < k THEN c[n] ELSE c[n + 1]
        /\ ToSet(d) = ToSet(c) \ {t}
    BY <1>1, CutFact
  <2>2. d = <<>> <=> Len(d) = 0
    BY <2>1, EmptySeq
  <2> QED BY <1>1, <2>1, <2>2
<1>4. /\ l.first = c[len] /\ l.last = c[1] /\ l.count = len
      /\ \A u \in Tasks : l.in[u] <=> u \in ToSet(c)
      /\ \A n \in 1..len : l.prev[c[n]] = IF n = len THEN Null ELSE c[n + 1]
      /\ \A n \in 1..len : l.next[c[n]] = IF n = 1 THEN Null ELSE c[n - 1]
  BY <1>1 DEF Linked
<1>5. t \in Tasks /\ l.in[t] /\ l.prev[t] = before /\ l.next[t] = after
  <2>1. t \in ToSet(c)
    BY <1>1 DEF ToSet
  <2> QED BY <1>1, <1>4, <2>1
<1> HIDE DEF d, len, t, before, after
<1>6. /\ r.first = (IF l.first = t THEN after ELSE l.first) /\ r.count = l.count - 1
      /\ r.last = (IF l.last = t THEN before ELSE l.last)
      /\ r.in = [l.in EXCEPT ![t] = FALSE]
      /\ r.next = [u \in Tasks |-> IF u = t THEN Null ELSE IF u = before THEN after ELSE l.next[u]]
      /\ r.prev = [u \in Tasks |-> IF u = t THEN Null ELSE IF u = after THEN before ELSE l.prev[u]]
      /\ r = [first |-> r.first, last |-> r.last, count |-> r.count,
              next |-> r.next, prev |-> r.prev, in |-> r.in]
  <2> DEFINE m == [l EXCEPT !.last = IF @ = t THEN l.prev[t] ELSE @]
  <2>1. l \in [ first : Link, last : Link, count : Int,
                next : [Tasks -> Link], prev : [Tasks -> Link], in : [Tasks -> BOOLEAN] ]
    BY <1>1 DEF ListType
  <2>2. /\ m.first = l.first /\ m.count = l.count /\ m.next = l.next /\ m.prev = l.prev
        /\ m.in = l.in /\ m.last = (IF l.last = t THEN before ELSE l.last)
        /\ DOMAIN m = DOMAIN l
        /\ DOMAIN l = {"first", "last", "count", "next", "prev", "in"}
    BY <1>5, <2>1
  <2>3. r = Unhook(m, t)
    BY DEF Del
  <2> HIDE DEF m, r
  <2>4. r = [ m EXCEPT !.first = IF @ = t THEN m.next[t] ELSE @, !.count = @ - 1, !.in[t] = FALSE,
                !.next = [u \in Tasks |-> IF u = t THEN Null ELSE IF u = m.prev[t] THEN m.next[t] ELSE @[u]],
                !.prev = [u \in Tasks |-> IF u = t THEN Null ELSE IF u = m.next[t] THEN m.prev[t] ELSE @[u]] ]
    BY <1>5, <2>2, <2>3 DEF Unhook
  <2>5. r = [x \in DOMAIN m |-> r[x]]
    BY <2>4
  <2>6. r.first = (IF l.first = t THEN after ELSE l.first)
    BY <1>5, <2>2, <2>4
  <2>7. r.count = l.count - 1
    BY <2>2, <2>4
  <2>8. r.last = (IF l.last = t THEN before ELSE l.last)
    BY <2>2, <2>4
  <2>9. r.in = [l.in EXCEPT ![t] = FALSE]
    BY <2>2, <2>4
  <2>10. r.next = [u \in Tasks |-> IF u = t THEN Null ELSE IF u = before THEN after ELSE l.next[u]]
    BY <1>5, <2>2, <2>4
  <2>11. r.prev = [u \in Tasks |-> IF u = t THEN Null ELSE IF u = after THEN before ELSE l.prev[u]]
    BY <1>5, <2>2, <2>4
  <2>12. r = [first |-> r.first, last |-> r.last, count |-> r.count,
              next |-> r.next, prev |-> r.prev, in |-> r.in]
    BY <1>1, <2>2, <2>5, RecordFact
  <2> QED BY <2>6, <2>7, <2>8, <2>9, <2>10, <2>11, <2>12
<1>7. /\ l.first \in Link /\ l.last \in Link /\ l.count \in Int /\ l.next \in [Tasks -> Link]
      /\ l.prev \in [Tasks -> Link] /\ l.in \in [Tasks -> BOOLEAN] /\ Null \in Link
      /\ before \in Link /\ after \in Link
  BY <1>1, <1>5 DEF ListType, Link
<1> HIDE DEF r
<1>8. r \in ListType
  <2>1. r.first \in Link /\ r.last \in Link /\ r.count \in Int
    BY <1>6, <1>7
  <2>2. r.in \in [Tasks -> BOOLEAN]
    BY <1>6, <1>7
  <2>3. r.prev \in [Tasks -> Link]
    BY <1>6, <1>7
  <2>4. r.next \in [Tasks -> Link]
    BY <1>6, <1>7
  <2> QED BY <1>6, <2>1, <2>2, <2>3, <2>4 DEF ListType
<1>9. \A u \in Tasks : r.in[u] <=> u \in ToSet(d)
  BY <1>3, <1>4, <1>6, <1>7
<1>10. /\ before = (IF k = len THEN Null ELSE c[k + 1]) /\ after = (IF k = 1 THEN Null ELSE c[k - 1])
       /\ t = c[k]
  BY DEF before, after, t
<1>11. r.count = Len(d)
  BY <1>3, <1>4, <1>6
<1>12. r.first = IF d = <<>> THEN Null ELSE d[len - 1]
  <2>1. CASE k = len
    <3>1. l.first = t /\ r.first = after
      BY <1>4, <1>6, <1>10, <2>1
    <3>2. CASE len = 1
      BY <1>3, <1>10, <2>1, <3>1, <3>2
    <3>3. CASE len # 1
      <4>1. len - 1 \in 1..(len - 1) /\ len - 1 < k
        BY <1>1, <2>1, <3>3
      <4> QED BY <1>3, <1>10, <2>1, <3>1, <3>3, <4>1
    <3> QED BY <3>2, <3>3
  <2>2. CASE k # len
    <3>1. len \in 1..len /\ len - 1 \in 1..(len - 1) /\ ~(len - 1 < k) /\ (len - 1) + 1 = len /\ len # 1
      BY <1>1, <2>2
    <3>2. c[len] # t
      BY <1>1, <1>2, <1>10, <2>2, <3>1
    <3> QED BY <1>3, <1>4, <1>6, <3>1, <3>2
  <2> QED BY <2>1, <2>2
<1>13. r.last = IF d = <<>> THEN Null ELSE d[1]
  <2>1. CASE k = 1
    <3>1. l.last = t /\ r.last = before
      BY <1>4, <1>6, <1>10, <2>1
    <3>2. CASE len = 1
      BY <1>3, <1>10, <2>1, <3>1, <3>2
    <3>3. CASE len # 1
      <4>1. 1 \in 1..(len - 1) /\ ~(1 < k)
        BY <1>1, <2>1, <3>3
      <4> QED BY <1>3, <1>10, <2>1, <3>1, <3>3, <4>1
    <3> QED BY <3>2, <3>3
  <2>2. CASE k # 1
    <3>1. 1 \in 1..len /\ 1 \in 1..(len - 1) /\ 1 < k /\ len # 1
      BY <1>1, <2>2
    <3>2. c[1] # t
      BY <1>1, <1>2, <1>10, <2>2, <3>1
    <3> QED BY <1>3, <1>4, <1>6, <3>1, <3>2
  <2> QED BY <2>1, <2>2
<1>14. ASSUME NEW n \in 1..len, n # k
       PROVE  r.prev[c[n]] = (IF c[n] = after THEN before ELSE l.prev[c[n]])
              /\ r.next[c[n]] = (IF c[n] = before THEN after ELSE l.next[c[n]])
  <2>1. c[n] # t /\ c[n] \in Tasks
    BY <1>1, <1>2, <1>10, <1>14
  <2> QED BY <1>6, <2>1
<1>15. ASSUME NEW n \in 1..(len - 1)
       PROVE  r.prev[d[n]] = IF n = len - 1 THEN Null ELSE d[n + 1]
  <2>1. CASE n + 1 < k
    <3>1. /\ n \in 1..len /\ n # k /\ k - 1 \in 1..len /\ n # k - 1 /\ n # len /\ k # 1
          /\ n < k /\ n + 1 \in 1..(len - 1) /\ n # len - 1
      BY <1>1, <2>1
    <3>2. c[n] # after
      BY <1>2, <1>10, <3>1
    <3>3. l.prev[c[n]] = c[n + 1]
      BY <1>4, <3>1
    <3>4. d[n] = c[n] /\ d[n + 1] = c[n + 1]
      BY <1>3, <2>1, <3>1
    <3> QED BY <1>14, <3>1, <3>2, <3>3, <3>4
  <2>2. CASE n + 1 = k
    <3>1. n \in 1..len /\ n # k /\ n < k /\ k # 1 /\ n = k - 1
      BY <1>1, <2>2
    <3>2. d[n] = c[n] /\ c[n] = after
      BY <1>3, <1>10, <3>1
    <3>3. r.prev[d[n]] = before
      BY <1>14, <3>1, <3>2
    <3>4. CASE k = len
      BY <1>10, <2>2, <3>3, <3>4
    <3>5. CASE k # len
      <4>1. n + 1 \in 1..(len - 1) /\ ~(n + 1 < k) /\ n # len - 1
        BY <1>1, <2>2, <3>5
      <4>2. d[n + 1] = c[k + 1]
        BY <1>3, <2>2, <4>1
      <4> QED BY <1>10, <3>3, <3>5, <4>1, <4>2
    <3> QED BY <3>4, <3>5
  <2>3. CASE n >= k
    <3>1. n + 1 \in 1..len /\ n + 1 # k /\ ~(n < k) /\ n + 1 # k - 1
      BY <1>1, <2>3
    <3>2. d[n] = c[n + 1]
      BY <1>3, <3>1
    <3>3. c[n + 1] # after
      <4>1. k # 1 => k - 1 \in 1..len
        BY <1>1
      <4> QED BY <1>1, <1>2, <1>10, <3>1, <4>1
    <3>4. r.prev[c[n + 1]] = IF n + 1 = len THEN Null ELSE c[(n + 1) + 1]
      BY <1>4, <1>14, <3>1, <3>3
    <3>5. n + 1 # len => n + 1 \in 1..(len - 1) /\ ~(n + 1 < k) /\ n # len - 1
      BY <1>1, <2>3
    <3>6. n + 1 = len <=> n = len - 1
      BY <1>1
    <3> QED BY <1>3, <3>2, <3>4, <3>5, <3>6
  <2> QED BY <1>1, <2>1, <2>2, <2>3
<1>16. ASSUME NEW n \in 1..(len - 1)
       PROVE  r.next[d[n]] = IF n = 1 THEN Null ELSE d[n - 1]
  <2>1. CASE n < k
    <3>1. n \in 1..len /\ n # k /\ n # k + 1 /\ (k # len => k + 1 \in 1..len)
      BY <1>1, <2>1
    <3>2. c[n] # before
      BY <1>1, <1>2, <1>10, <3>1
    <3>3. r.next[c[n]] = IF n = 1 THEN Null ELSE c[n - 1]
      BY <1>4, <1>14, <3>1, <3>2
    <3>4. n # 1 => n - 1 \in 1..(len - 1) /\ n - 1 < k
      BY <1>1, <2>1
    <3> QED BY <1>3, <2>1, <3>3, <3>4
  <2>2. CASE n = k
    <3>1. k # len /\ k + 1 \in 1..len /\ k + 1 # k
      BY <1>1, <2>2
    <3>2. d[n] = before /\ before = c[k + 1]
      BY <1>3, <1>10, <2>2, <3>1
    <3>3. r.next[d[n]] = after
      BY <1>14, <3>1, <3>2
    <3>4. n # 1 => n - 1 \in 1..(len - 1) /\ n - 1 < k
      BY <1>1, <2>2
    <3> QED BY <1>3, <1>10, <2>2, <3>3, <3>4
  <2>3. CASE n > k
    <3>1. /\ n + 1 \in 1..len /\ n + 1 # k /\ ~(n < k) /\ n + 1 # k + 1 /\ n # 1 /\ n + 1 # 1
          /\ n - 1 \in 1..(len - 1) /\ ~(n - 1 < k) /\ (n - 1) + 1 = n /\ (n + 1) - 1 = n
          /\ (k # len => k + 1 \in 1..len)
      BY <1>1, <2>3
    <3>2. d[n] = c[n + 1] /\ d[n - 1] = c[n]
      BY <1>3, <3>1
    <3>3. c[n + 1] # before
      BY <1>1, <1>2, <1>10, <3>1
    <3> QED BY <1>4, <1>14, <3>1, <3>2, <3>3
  <2> QED BY <1>1, <2>1, <2>2, <2>3
<1>17. Linked(r, d)
  BY <1>3, <1>8, <1>9, <1>11, <1>12, <1>13, <1>15, <1>16 DEF Linked
<1> QED BY <1>17 DEF r, d, t

\* What is left of what is left is what is left.
LEMMA KeepsFact ==
  ASSUME NEW c
  PROVE  /\ Keeps(c, c)
         /\ \A d, e : Keeps(e, d) /\ Keeps(d, c) => Keeps(e, c)
<1>1. Keeps(c, c)
  BY DEF Keeps
<1>2. ASSUME NEW d, NEW e, Keeps(e, d), Keeps(d, c) PROVE Keeps(e, c)
  <2>1. ToSet(e) \subseteq ToSet(d) /\ ToSet(d) \subseteq ToSet(c)
    BY <1>2 DEF Keeps
  <2>2. ASSUME NEW x \in ToSet(e), NEW t \in ToSet(e) PROVE Meets(e, x, t) <=> Meets(c, x, t)
    BY <1>2, <2>1 DEF Keeps
  <2> QED BY <2>1, <2>2 DEF Keeps
<1> QED BY <1>1, <1>2

\* The list after so many tasks of the walk that takes some of them out.
Rests(f, c, gone, n) ==
  f = [k \in 0..n |-> IF k = 0 THEN list
                      ELSE IF c[k] \in gone THEN Del(f[k - 1], c[k]) ELSE f[k - 1]]

LEMMA RestsExist ==
  ASSUME NEW c, NEW gone, NEW n \in Nat
  PROVE  \E f : Rests(f, c, gone, n)
<1> DEFINE T == {k \in Nat : ~\E f : Rests(f, c, gone, k)}
<1>1. SUFFICES ASSUME T # {} PROVE FALSE
  OBVIOUS
<1>2. PICK m \in T : \A k \in T : m <= k
  BY <1>1, Smallest
<1>3. m # 0
  <2>1. Rests([k \in 0..0 |-> list], c, gone, 0)
    BY DEF Rests
  <2> QED BY <2>1
<1>4. PICK g : Rests(g, c, gone, m - 1)
  <2>1. m - 1 \in Nat /\ ~(m <= m - 1)
    BY <1>3
  <2> QED BY <1>2, <2>1
<1> DEFINE f == [k \in 0..m |-> IF k < m THEN g[k]
                                ELSE IF c[m] \in gone THEN Del(g[m - 1], c[m]) ELSE g[m - 1]]
<1>5. Rests(f, c, gone, m)
  <2>1. \A k \in 0..(m - 1) : g[k] = IF k = 0 THEN list
          ELSE IF c[k] \in gone THEN Del(g[k - 1], c[k]) ELSE g[k - 1]
    BY <1>3, <1>4, Zenon DEF Rests
  <2>2. \A k \in 0..m : f[k] = IF k = 0 THEN list
          ELSE IF c[k] \in gone THEN Del(f[k - 1], c[k]) ELSE f[k - 1]
    <3> TAKE k \in 0..m
    <3>1. CASE k = m
      <4>1. k # 0 /\ f[k - 1] = g[m - 1]
        BY <1>3, <3>1
      <4>2. f[k] = IF c[m] \in gone THEN Del(g[m - 1], c[m]) ELSE g[m - 1]
        BY <1>3, <3>1
      <4> QED BY <3>1, <4>1, <4>2
    <3>2. CASE k # m
      <4>1. f[k] = g[k] /\ k \in 0..(m - 1)
        BY <3>2
      <4>2. k # 0 => f[k - 1] = g[k - 1]
        BY <3>2
      <4> QED BY <2>1, <4>1, <4>2
    <3> QED BY <3>1, <3>2
  <2>3. f = [k \in 0..m |-> f[k]]
    OBVIOUS
  <2> HIDE DEF f
  <2> QED BY <2>2, <2>3 DEF Rests
<1> QED BY <1>5

\* What is left of c when those of gone among the first n were taken out.
Left(l, c, gone, n) ==
  \E d : /\ Linked(l, d) /\ Keeps(d, c)
         /\ \A t : t \in ToSet(d) <=> t \in ToSet(c) /\ ~(t \in gone /\ \E k \in 1..n : t = c[k])

\* Tasks that are taken out one by one leave the others in their order.
LEMMA PurgeLinked ==
  ASSUME NEW c, Linked(list, c), NEW gone
  PROVE  \E d : Linked(Purged(gone), d) /\ Keeps(d, c) /\ ToSet(d) = ToSet(c) \ gone
<1> DEFINE len == Len(c)
           f == CHOOSE g : Rests(g, c, gone, len)
<1>1. /\ len \in Nat /\ DOMAIN c = 1..len /\ \A n \in 1..len : c[n] \in Tasks
      /\ \A a, b \in 1..len : c[a] = c[b] => a = b
      /\ \A t : t \in ToSet(c) <=> \E n \in 1..len : t = c[n]
  BY LinkedFact DEF Linked, IsInjective
<1>2. Purged(gone) = f[len]
  <2>1. Chain = c
    BY ChainFact DEF Chain
  <2> QED BY <2>1 DEF Purged, Rests
<1>3. Rests(f, c, gone, len)
  BY <1>1, RestsExist
<1> HIDE DEF f, len
<1>4. f[0] = list /\ \A n \in 1..len : f[n] = IF c[n] \in gone THEN Del(f[n - 1], c[n]) ELSE f[n - 1]
  <2>1. \A n \in 0..len : f[n] = IF n = 0 THEN list
          ELSE IF c[n] \in gone THEN Del(f[n - 1], c[n]) ELSE f[n - 1]
    BY <1>3, Zenon DEF Rests
  <2> QED BY <1>1, <2>1
<1> DEFINE T == {n \in Nat : n <= len /\ ~Left(f[n], c, gone, n)}
<1>5. T = {}
  <2>1. SUFFICES ASSUME T # {} PROVE FALSE
    OBVIOUS
  <2>2. PICK m \in T : \A k \in T : m <= k
    BY <2>1, Smallest
  <2>3. m \in Nat /\ m <= len /\ ~Left(f[m], c, gone, m)
    BY <2>2
  <2>4. m # 0
    <3>1. Left(list, c, gone, 0)
      <4>1. Keeps(c, c) /\ ~\E k \in 1..0 : TRUE
        BY KeepsFact
      <4> QED BY <4>1 DEF Left
    <3> QED BY <1>4, <2>3, <3>1
  <2>5. m \in 1..len /\ m - 1 \in Nat /\ m - 1 <= len /\ ~(m <= m - 1)
    BY <1>1, <2>3, <2>4
  <2>6. Left(f[m - 1], c, gone, m - 1)
    BY <2>2, <2>5
  <2>7. PICK d : /\ Linked(f[m - 1], d) /\ Keeps(d, c)
                 /\ \A t : t \in ToSet(d) <=> t \in ToSet(c) /\ ~(t \in gone /\ \E k \in 1..(m - 1) : t = c[k])
    BY <2>6, Zenon DEF Left
  <2>8. \A t : (\E k \in 1..m : t = c[k]) <=> (\E k \in 1..(m - 1) : t = c[k]) \/ t = c[m]
    <3>1. \A k : k \in 1..m <=> k \in 1..(m - 1) \/ k = m
      BY <2>5
    <3> QED BY <3>1
  <2>9. CASE c[m] \notin gone
    <3>1. f[m] = f[m - 1]
      BY <1>4, <2>5, <2>9
    <3>2. \A t : t \in ToSet(d) <=> t \in ToSet(c) /\ ~(t \in gone /\ \E k \in 1..m : t = c[k])
      BY <2>7, <2>8, <2>9
    <3>3. Left(f[m], c, gone, m)
      BY <2>7, <3>1, <3>2 DEF Left
    <3> QED BY <2>3, <3>3
  <2>10. CASE c[m] \in gone
    <3>1. f[m] = Del(f[m - 1], c[m])
      BY <1>4, <2>5, <2>10
    <3>2. c[m] \in ToSet(d)
      <4>1. c[m] \in ToSet(c)
        BY <1>1, <2>5
      <4>2. \A k \in 1..(m - 1) : k \in 1..len /\ k # m
        BY <1>1, <2>5
      <4>3. ~\E k \in 1..(m - 1) : c[m] = c[k]
        BY <1>1, <2>5, <4>2
      <4> QED BY <2>7, <4>1, <4>3
    <3>3. PICK j \in 1..Len(d) : c[m] = d[j]
      <4>1. \A t : t \in ToSet(d) <=> \E n \in 1..Len(d) : t = d[n]
        BY <2>7, LinkedFact
      <4> QED BY <3>2, <4>1
    <3> DEFINE e == Cut(d, j)
    <3>4. Linked(f[m], e)
      BY <2>7, <3>1, <3>3, DelLinked
    <3>5. d \in Seq(Tasks) /\ IsInjective(d)
      BY <2>7 DEF Linked
    <3>6. ToSet(e) = ToSet(d) \ {c[m]} /\ Keeps(e, d)
      BY <3>3, <3>5, CutFact
    <3> HIDE DEF e
    <3>7. Keeps(e, c)
      BY <2>7, <3>6, KeepsFact
    <3>8. \A t : t \in ToSet(e) <=> t \in ToSet(c) /\ ~(t \in gone /\ \E k \in 1..m : t = c[k])
      BY <2>7, <2>8, <2>10, <3>6
    <3>9. Left(f[m], c, gone, m)
      BY <3>4, <3>7, <3>8 DEF Left
    <3> QED BY <2>3, <3>9
  <2> QED BY <2>9, <2>10
<1>6. Left(f[len], c, gone, len)
  BY <1>1, <1>5
<1>7. PICK d : /\ Linked(f[len], d) /\ Keeps(d, c)
               /\ \A t : t \in ToSet(d) <=> t \in ToSet(c) /\ ~(t \in gone /\ \E k \in 1..len : t = c[k])
  BY <1>6, Zenon DEF Left
<1>8. ToSet(d) = ToSet(c) \ gone
  BY <1>1, <1>7
<1> QED BY <1>2, <1>7, <1>8

-----------------------------------------------------------------------------
(* Where a walk goes                                                       *)

\* A walk that begins meets all tasks, one that goes on meets the one it is at and
\* those that come after it, and one that has ended meets none.
LEMMA MeetsFact ==
  ASSUME NEW l, NEW c, Linked(l, c)
  PROVE  /\ \A t \in ToSet(c) : Meets(c, l.last, t)
         /\ \A x, t : Meets(c, x, t) => x \in ToSet(c) /\ t \in ToSet(c)
         /\ \A x \in ToSet(c) : \A t : Meets(c, x, t) => t = x \/ Meets(c, l.prev[x], t)
         /\ \A x \in ToSet(c) : l.prev[x] \in ToSet(c) \cup {Null} /\ l.prev[x] # x
         /\ l.last \in ToSet(c) \cup {Null}
         /\ Null \notin ToSet(c)
<1> DEFINE len == Len(c)
<1>1. /\ len \in Nat /\ DOMAIN c = 1..len /\ (c = <<>> <=> len = 0)
      /\ \A n \in 1..len : c[n] \in Tasks /\ c[n] # Null
      /\ \A t : t \in ToSet(c) <=> \E n \in 1..len : t = c[n]
  BY LinkedFact
<1>2. /\ IsInjective(c) /\ l.last = (IF c = <<>> THEN Null ELSE c[1])
      /\ \A n \in 1..len : l.prev[c[n]] = IF n = len THEN Null ELSE c[n + 1]
  BY DEF Linked
<1>3. \A a, b \in 1..len : c[a] = c[b] => a = b
  BY <1>1, <1>2 DEF IsInjective
<1> HIDE DEF len
<1>4. ASSUME NEW t \in ToSet(c) PROVE Meets(c, l.last, t)
  <2>1. PICK n \in 1..len : t = c[n]
    BY <1>1
  <2>2. 1 \in 1..n /\ len # 0
    BY <1>1
  <2>3. l.last = c[1]
    BY <1>1, <1>2, <2>2
  <2> QED BY <1>1, <2>1, <2>2, <2>3 DEF Meets
<1>5. ASSUME NEW x, NEW t, Meets(c, x, t)
      PROVE  \E n \in 1..len : t = c[n] /\ \E m \in 1..n : m \in 1..len /\ x = c[m]
  <2>1. PICK n \in 1..len : t = c[n] /\ \E m \in 1..n : x = c[m]
    BY <1>1, <1>5 DEF Meets
  <2>2. PICK m \in 1..n : x = c[m]
    BY <2>1
  <2>3. m \in 1..len
    BY <1>1
  <2> QED BY <2>1, <2>2, <2>3
<1>6. ASSUME NEW x, NEW t, Meets(c, x, t) PROVE x \in ToSet(c) /\ t \in ToSet(c)
  BY <1>1, <1>5, <1>6
<1>7. ASSUME NEW x \in ToSet(c), NEW t, Meets(c, x, t) PROVE t = x \/ Meets(c, l.prev[x], t)
  <2>1. PICK n \in 1..len : t = c[n] /\ \E m \in 1..n : m \in 1..len /\ x = c[m]
    BY <1>5, <1>7
  <2>2. PICK m \in 1..n : m \in 1..len /\ x = c[m]
    BY <2>1
  <2>3. CASE m = n
    BY <2>1, <2>2, <2>3
  <2>4. CASE m # n
    <3>1. m # len /\ m + 1 \in 1..n
      BY <1>1, <2>2, <2>4
    <3>2. l.prev[x] = c[m + 1]
      BY <1>2, <2>2, <3>1
    <3> QED BY <1>1, <2>1, <3>1, <3>2 DEF Meets
  <2> QED BY <2>3, <2>4
<1>8. ASSUME NEW x \in ToSet(c) PROVE l.prev[x] \in ToSet(c) \cup {Null} /\ l.prev[x] # x
  <2>1. PICK n \in 1..len : x = c[n]
    BY <1>1
  <2>2. l.prev[x] = IF n = len THEN Null ELSE c[n + 1]
    BY <1>2, <2>1
  <2>3. n # len => n + 1 \in 1..len /\ n + 1 # n
    BY <1>1
  <2>4. n # len => c[n + 1] \in ToSet(c) /\ c[n + 1] # c[n]
    BY <1>1, <1>3, <2>3
  <2> QED BY <1>1, <2>1, <2>2, <2>4
<1>9. l.last \in ToSet(c) \cup {Null}
  <2>1. len # 0 => 1 \in 1..len
    BY <1>1
  <2> QED BY <1>1, <1>2, <2>1
<1>10. Null \notin ToSet(c)
  BY <1>1
<1> QED BY <1>4, <1>6, <1>7, <1>8, <1>9, <1>10

-----------------------------------------------------------------------------
(* The steps that leave the list alone                                     *)

\* The parts of the invariant that a step that leaves the list alone keeps.
LEMMA SameList ==
  ASSUME IInv, UNCHANGED <<list, alive>>
  PROVE  (Linked(list, Chain) /\ ToSet(Chain) = alive)' /\ Chain' = Chain
BY DEF IInv, Chain

LEMMA EndsInv ==
  ASSUME IInv, NEW p \in Pids, Ends(p)
  PROVE  IInv'
<1>1. Typed'
  BY DEF IInv, Typed, Ends
<1>2. (Linked(list, Chain) /\ ToSet(Chain) = alive)' /\ Chain' = Chain
  BY SameList DEF Ends
<1>3. \A q \in Pids : proc'[q] = "none" <=> proc[q] = "none"
  BY DEF Ends, IInv, Typed
<1>4. Owned'
  <2>1. killed \subseteq Pids
    BY DEF IInv, Typed
  <2> QED BY <1>3, <2>1 DEF IInv, Owned, Ends
<1>5. \A i \in 1..2 : FrameOk(frame[i])'
  BY <1>3 DEF IInv, FrameOk, Ends
<1>6. \A i \in 1..2 : Safe(frame[i]) => Safe(frame[i])'
  BY DEF Safe, Ends
<1>7. Found => Found'
  <2>1. \A t \in alive : pid[t] \in Pids
    BY DEF IInv, Owned, Typed
  <2> QED BY <1>2, <1>3, <2>1 DEF Found, Seeks, Ends
<1> QED BY <1>1, <1>2, <1>4, <1>5, <1>6, <1>7 DEF IInv, Ends

LEMMA GrowsOldInv ==
  ASSUME IInv, NEW t \in Tasks, GrowsOld(t)
  PROVE  IInv'
<1>1. Typed'
  BY DEF IInv, Typed, GrowsOld
<1>2. (Linked(list, Chain) /\ ToSet(Chain) = alive)' /\ Chain' = Chain
  BY SameList DEF GrowsOld
<1>3. Owned' /\ (\A i \in 1..2 : FrameOk(frame[i])')
  BY DEF IInv, Owned, FrameOk, GrowsOld
<1>4. (Found => Found') /\ \A i \in 1..2 : Safe(frame[i]) => Safe(frame[i])'
  BY <1>2 DEF Found, Seeks, Safe, GrowsOld
<1> QED BY <1>1, <1>2, <1>3, <1>4 DEF IInv, GrowsOld

\* A handler goes on to f, and what it looks for it will still come to.
LEMMA MovesInv ==
  ASSUME IInv, NEW i \in 1..2, Running(i), NEW f \in FrameType, Moves(i, f), FrameOk(f),
         UNCHANGED <<list, alive, pid, proc, old, alarm, broken, killed, hurt>>,
         ~hurt => Safe(f) /\ \A t \in alive : Seeks(frame[i], t) => Seeks(f, t)
  PROVE  IInv'
<1>1. frame \in [1..2 -> FrameType] /\ frame' = [frame EXCEPT ![i] = f]
  BY DEF IInv, Typed, Moves
<1>2. frame'[i] = f /\ \A j \in 1..2 : j # i => frame'[j] = frame[j]
  BY <1>1
<1>3. Typed'
  <2>1. frame' \in [1..2 -> FrameType]
    BY <1>1
  <2> QED BY <2>1 DEF IInv, Typed
<1>4. (Linked(list, Chain) /\ ToSet(Chain) = alive)' /\ Chain' = Chain
  BY SameList
<1>5. Owned'
  BY DEF IInv, Owned
<1>6. \A j \in 1..2 : FrameOk(frame[j])'
  BY <1>2 DEF IInv, FrameOk
<1>7. ~alarm' => frame'[2] = Off
  BY <1>2 DEF IInv, Running
<1>8. ~hurt => \A j \in 1..2 : Safe(frame[j])'
  BY <1>2 DEF IInv, Safe
<1>9. ~hurt => Found'
  <2> SUFFICES ASSUME ~hurt, NEW t \in alive, ~(proc[pid[t]] # "none")
               PROVE  \E j \in 1..2 : Seeks(frame[j], t)'
    BY DEF Found
  <2>1. PICK j \in 1..2 : Seeks(frame[j], t)
    BY DEF IInv, Found
  <2>2. CASE j = i
    BY <1>2, <1>4, <2>1, <2>2 DEF Seeks
  <2>3. CASE j # i
    BY <1>2, <1>4, <2>1, <2>3 DEF Seeks
  <2> QED BY <2>2, <2>3
<1> QED BY <1>3, <1>4, <1>5, <1>6, <1>7, <1>8, <1>9 DEF IInv

LEMMA SigchldInv ==
  ASSUME IInv, NEW i \in 1..2, Sigchld(i)
  PROVE  IInv'
<1> DEFINE f == [Off EXCEPT !.pc = "wait"]
<1>1. f \in FrameType /\ f.pc = "wait"
  BY DEF FrameType, Off, Link
<1>2. Running(i) /\ frame[i].pc = "off" /\ Moves(i, f)
      /\ UNCHANGED <<list, alive, pid, proc, old, alarm, broken, killed, hurt>>
  BY DEF Sigchld, At
<1>3. FrameOk(f) /\ Safe(f)
  BY <1>1 DEF FrameOk, Safe
<1>4. \A t : ~Seeks(frame[i], t)
  BY <1>2 DEF Seeks
<1> HIDE DEF f
<1> QED BY <1>1, <1>2, <1>3, <1>4, MovesInv

LEMMA WaitDoneInv ==
  ASSUME IInv, NEW i \in 1..2, WaitDone(i)
  PROVE  IInv'
<1>1. Off \in FrameType /\ Off.pc = "off"
  BY DEF FrameType, Off, Link
<1>2. Running(i) /\ frame[i].pc = "wait" /\ Moves(i, Off)
      /\ UNCHANGED <<list, alive, pid, proc, old, alarm, broken, killed, hurt>>
  BY DEF WaitDone, At
<1>3. FrameOk(Off) /\ Safe(Off)
  BY <1>1 DEF FrameOk, Safe
<1>4. \A t : ~Seeks(frame[i], t)
  BY <1>2 DEF Seeks
<1> QED BY <1>1, <1>2, <1>3, <1>4, MovesInv

\* A walk that has ended has met the task it was looking for.
LEMMA WalkDoneInv ==
  ASSUME IInv, NEW i \in 1..2, WalkDone(i)
  PROVE  IInv'
<1> DEFINE f == [Off EXCEPT !.pc = "wait"]
<1>1. f \in FrameType /\ f.pc = "wait"
  BY DEF FrameType, Off, Link
<1>2. Running(i) /\ frame[i].pc = "walk" /\ frame[i].curr = Null /\ Moves(i, f)
      /\ UNCHANGED <<list, alive, pid, proc, old, alarm, broken, killed, hurt>>
  BY DEF WalkDone, At
<1>3. FrameOk(f) /\ Safe(f)
  BY <1>1 DEF FrameOk, Safe
<1>4. \A t : ~Seeks(frame[i], t)
  <2>1. Linked(list, Chain)
    BY DEF IInv
  <2>2. \A t : ~Meets(Chain, Null, t)
    BY <2>1, MeetsFact
  <2> QED BY <1>2, <2>2 DEF Seeks
<1> HIDE DEF f
<1> QED BY <1>1, <1>2, <1>3, <1>4, MovesInv

\* A task that was deleted is looked at only where SIGALRM has deleted it.
LEMMA TouchInv ==
  ASSUME IInv, NEW i \in 1..2, Touch(i)
  PROVE  IInv'
<1>1. hurt
  <2>1. frame[i].pc \in {"walk", "match"} /\ frame[i].curr # Null /\ frame[i].curr \notin alive
    BY DEF Touch, At
  <2>2. ~Safe(frame[i])
    BY <2>1 DEF Safe
  <2> QED BY <2>2 DEF IInv
<1>2. (Linked(list, Chain) /\ ToSet(Chain) = alive)' /\ Chain' = Chain
  BY SameList DEF Touch
<1>3. Typed' /\ Owned' /\ (\A j \in 1..2 : FrameOk(frame[j])')
  BY DEF IInv, Typed, Owned, FrameOk, Touch
<1> QED BY <1>1, <1>2, <1>3 DEF IInv, Touch

\* A walk goes on with the next task in hand.
LEMMA WalkInv ==
  ASSUME IInv, NEW i \in 1..2, Walk(i)
  PROVE  IInv'
<1> DEFINE t == frame[i].curr
           f == [frame[i] EXCEPT !.pc = "match", !.after = list.prev[t]]
<1>1. /\ Running(i) /\ frame[i].pc = "walk" /\ t \in alive /\ Moves(i, f)
      /\ UNCHANGED <<list, alive, pid, proc, old, alarm, broken, killed, hurt>>
  BY DEF Walk, At
<1>2. Linked(list, Chain) /\ ToSet(Chain) = alive /\ alive \subseteq Tasks
  BY DEF IInv, Typed
<1>3. /\ list.prev[t] \in alive \cup {Null} /\ list.prev[t] # t
      /\ \A u : Meets(Chain, t, u) => u = t \/ Meets(Chain, list.prev[t], u)
  BY <1>1, <1>2, MeetsFact
<1>4. frame[i] \in FrameType
  BY DEF IInv, Typed
<1>5. /\ f.pc = "match" /\ f.pid = frame[i].pid /\ f.curr = t /\ f.after = list.prev[t]
      /\ f \in FrameType
  <2>1. list.prev[t] \in Link
    BY <1>2, <1>3 DEF Link
  <2> QED BY <1>4, <2>1 DEF FrameType
<1> HIDE DEF f
<1>6. FrameOk(f)
  BY <1>1, <1>5 DEF IInv, FrameOk
<1>7. Safe(f)
  BY <1>1, <1>3, <1>5 DEF Safe
<1>8. \A u \in alive : Seeks(frame[i], u) => Seeks(f, u)
  BY <1>1, <1>3, <1>5 DEF Seeks
<1> QED BY <1>1, <1>5, <1>6, <1>7, <1>8, MovesInv

LEMMA AlarmDoneInv ==
  ASSUME IInv, AlarmDone
  PROVE  IInv'
<1>1. (Linked(list, Chain) /\ ToSet(Chain) = alive)' /\ Chain' = Chain
  BY SameList DEF AlarmDone
<1>2. Typed' /\ Owned' /\ \A i \in 1..2 : FrameOk(frame[i])'
  BY DEF IInv, Typed, Owned, FrameOk, AlarmDone
<1>3. frame'[2] = Off
  BY DEF IInv, FrameOk, AlarmDone
<1>4. (Found => Found') /\ \A i \in 1..2 : Safe(frame[i]) => Safe(frame[i])'
  BY <1>1 DEF Found, Seeks, Safe, AlarmDone
<1> QED BY <1>1, <1>2, <1>3, <1>4 DEF IInv, AlarmDone

\* The handler that has learnt the end of a child looks for its task from the first on.
LEMMA WaitInv ==
  ASSUME IInv, NEW i \in 1..2, Wait(i)
  PROVE  IInv'
<1>1. Running(i) /\ frame[i].pc = "wait"
      /\ UNCHANGED <<list, alive, pid, old, alarm, broken, hurt>>
  BY DEF Wait, At
<1>2. PICK p \in Pids :
        /\ proc[p] = "ended" /\ proc' = [proc EXCEPT ![p] = "none"] /\ killed' = killed \ {p}
        /\ Moves(i, [pc |-> "walk", pid |-> p, curr |-> list.last, after |-> Null])
  BY DEF Wait
<1> DEFINE f == [pc |-> "walk", pid |-> p, curr |-> list.last, after |-> Null]
<1>3. Linked(list, Chain) /\ ToSet(Chain) = alive /\ alive \subseteq Tasks
  BY DEF IInv, Typed
<1>4. (\A t \in alive : Meets(Chain, list.last, t)) /\ list.last \in alive \cup {Null}
  BY <1>3, MeetsFact
<1>5. /\ f.pc = "walk" /\ f.pid = p /\ f.curr = list.last /\ f.after = Null
      /\ f \in FrameType
  <2>1. list.last \in Link /\ Null \in Link
    BY <1>3, <1>4 DEF Link
  <2> QED BY <2>1 DEF FrameType
<1>6. frame'[i] = f /\ (\A j \in 1..2 : j # i => frame'[j] = frame[j]) /\ frame' \in [1..2 -> FrameType]
  BY <1>2, <1>5 DEF IInv, Typed, Moves
<1> HIDE DEF f
<1>7. proc' \in [Pids -> {"none", "runs", "ended"}] /\ proc'[p] = "none"
      /\ \A q \in Pids : q # p => proc'[q] = proc[q]
  BY <1>2 DEF IInv, Typed
<1>8. Typed'
  BY <1>1, <1>2, <1>6, <1>7 DEF IInv, Typed
<1>9. (Linked(list, Chain) /\ ToSet(Chain) = alive)' /\ Chain' = Chain
  BY <1>1, SameList
<1>10. Owned'
  <2>1. killed \subseteq Pids
    BY DEF IInv, Typed
  <2>2. \A q \in killed' : q # p /\ q \in killed
    BY <1>2
  <2>3. \A q \in Pids : proc'[q] # "none" => q # p /\ proc[q] # "none"
    BY <1>7
  <2>4. \A q \in killed' : proc'[q] # "none" /\ \A t \in alive : pid[t] # q
    BY <1>7, <2>1, <2>2 DEF IInv, Owned
  <2>5. \A q \in Pids : proc'[q] # "none" /\ q \notin killed' => \E t \in alive : pid[t] = q
    BY <1>2, <2>3 DEF IInv, Owned
  <2> QED BY <1>1, <2>4, <2>5 DEF IInv, Owned
<1>11. \A j \in 1..2 : FrameOk(frame[j])'
  <2>1. FrameOk(frame[i])'
    BY <1>5, <1>6, <1>7 DEF FrameOk
  <2>2. ASSUME NEW j \in 1..2, j # i PROVE FrameOk(frame[j])'
    <3>1. frame'[j] = frame[j] /\ FrameOk(frame[j])
      BY <1>6, <2>2 DEF IInv
    <3>2. \A q \in Pids : proc[q] = "none" => proc'[q] = "none"
      BY <1>7
    <3> QED BY <3>1, <3>2 DEF FrameOk
  <2> QED BY <2>1, <2>2
<1>12. ~alarm' => frame'[2] = Off
  BY <1>1, <1>6 DEF IInv, Running
<1>13. ~hurt => \A j \in 1..2 : Safe(frame[j])'
  <2>1. ASSUME ~hurt, NEW j \in 1..2 PROVE Safe(frame[j])'
    <3>1. CASE j = i
      BY <1>1, <1>4, <1>5, <1>6, <3>1 DEF Safe
    <3>2. CASE j # i
      BY <1>1, <1>6, <2>1, <3>2 DEF IInv, Safe
    <3> QED BY <3>1, <3>2
  <2> QED BY <2>1
<1>14. ~hurt => Found'
  <2> SUFFICES ASSUME ~hurt, NEW t \in alive, ~(proc'[pid[t]] # "none")
               PROVE  \E j \in 1..2 : Seeks(frame[j], t)'
    BY <1>1 DEF Found
  <2>1. CASE pid[t] = p
    <3>1. Seeks(frame[i], t)'
      BY <1>1, <1>4, <1>5, <1>6, <1>9, <2>1 DEF Seeks
    <3> QED BY <3>1
  <2>2. CASE pid[t] # p
    <3>1. pid[t] \in Pids
      BY <1>3 DEF IInv, Owned
    <3>2. ~(proc[pid[t]] # "none")
      BY <1>7, <2>2, <3>1
    <3>3. PICK j \in 1..2 : Seeks(frame[j], t)
      BY <3>2 DEF IInv, Found
    <3>4. j # i
      BY <1>1, <3>3 DEF Seeks
    <3>5. Seeks(frame[j], t)'
      BY <1>1, <1>6, <1>9, <3>3, <3>4 DEF Seeks
    <3> QED BY <3>5
  <2> QED BY <2>1, <2>2
<1> QED BY <1>1, <1>8, <1>9, <1>10, <1>11, <1>12, <1>13, <1>14 DEF IInv

-----------------------------------------------------------------------------
(* The steps that change the list                                          *)

LEMMA NewChain ==
  ASSUME NEW d, Linked(list', d)
  PROVE  Chain' = d /\ Linked(list, Chain)'
<1>1. ChainOf(list') = d
  BY ChainFact
<1> QED BY <1>1 DEF Chain

\* No task, no handler and nobody who was terminated has the id of a new process.
LEMMA FreshFact ==
  ASSUME IInv, NEW p \in Pids, NextPid(p)
  PROVE  /\ proc[p] = "none" /\ p \notin killed
         /\ \A t \in alive : pid[t] # p
         /\ \A i \in 1..2 : frame[i].pid # p
BY DEF NextPid, Fresh, IInv, Owned

LEMMA ReceiveInv ==
  ASSUME IInv, Receive
  PROVE  IInv'
<1>1. ~alarm /\ frame[1].pc = "off" /\ UNCHANGED <<old, frame, alarm, broken, killed, hurt>>
  BY DEF Receive, At, Running
<1>2. PICK t \in Tasks \ alive, p \in Pids :
        /\ NextPid(p) /\ list' = Add(list, t) /\ alive' = alive \cup {t}
        /\ pid' = [pid EXCEPT ![t] = p] /\ proc' = [proc EXCEPT ![p] = "runs"]
  BY DEF Receive
<1>3. proc[p] = "none" /\ p \notin killed /\ \A u \in alive : pid[u] # p
  BY <1>2, FreshFact
<1>4. Linked(list, Chain) /\ ToSet(Chain) = alive /\ alive \subseteq Tasks /\ killed \subseteq Pids
  BY DEF IInv, Typed
<1>5. Linked(list', Append(Chain, t))
  BY <1>2, <1>4, AddLinked
<1>6. ToSet(Append(Chain, t)) = alive'
  <2>1. Chain \in Seq(Tasks)
    BY <1>4 DEF Linked
  <2> QED BY <1>2, <1>4, <2>1, AppendFact
<1>7. (Linked(list, Chain) /\ ToSet(Chain) = alive)'
  BY <1>5, <1>6, NewChain
<1>8. /\ pid' \in [Tasks -> Pids \cup {NoPid}] /\ pid'[t] = p
      /\ \A u \in Tasks : u # t => pid'[u] = pid[u]
  BY <1>2 DEF IInv, Typed
<1>9. /\ proc' \in [Pids -> {"none", "runs", "ended"}] /\ proc'[p] = "runs"
      /\ \A q \in Pids : q # p => proc'[q] = proc[q]
  BY <1>2 DEF IInv, Typed
<1>10. Typed'
  BY <1>1, <1>2, <1>8, <1>9 DEF IInv, Typed
<1>11. frame[1] = Off /\ frame[2] = Off /\ Off.pc = "off"
  BY <1>1 DEF IInv, FrameOk, Off
<1>12. \A i \in 1..2 : FrameOk(frame[i])' /\ Safe(frame[i])' /\ frame'[i].pc = "off"
  BY <1>1, <1>11 DEF FrameOk, Safe
<1>13. Owned'
  <2>1. \A u \in Tasks : pid'[u] \in Pids <=> u \in alive'
    BY <1>2, <1>8 DEF IInv, Owned
  <2>2. \A u, v \in alive' : pid'[u] = pid'[v] => u = v
    BY <1>2, <1>3, <1>4, <1>8 DEF IInv, Owned
  <2>3. \A q \in killed' : proc'[q] # "none" /\ \A u \in alive' : pid'[u] # q
    BY <1>1, <1>2, <1>3, <1>4, <1>8, <1>9 DEF IInv, Owned
  <2>4. \A q \in Pids : proc'[q] # "none" /\ q \notin killed' => \E u \in alive' : pid'[u] = q
    BY <1>1, <1>2, <1>4, <1>8, <1>9 DEF IInv, Owned
  <2> QED BY <2>1, <2>2, <2>3, <2>4 DEF Owned
<1>14. ~hurt => Found'
  <2> SUFFICES ASSUME ~hurt, NEW u \in alive' PROVE proc'[pid'[u]] # "none"
    BY DEF Found
  <2>1. CASE u = t
    BY <1>8, <1>9, <2>1
  <2>2. CASE u # t
    <3>1. u \in alive /\ pid'[u] = pid[u] /\ pid[u] \in Pids /\ pid[u] # p
      BY <1>2, <1>3, <1>4, <1>8, <2>2 DEF IInv, Owned
    <3>2. \A i \in 1..2 : ~Seeks(frame[i], u)
      BY <1>11 DEF Seeks
    <3>3. proc[pid[u]] # "none"
      BY <3>1, <3>2 DEF IInv, Found
    <3> QED BY <1>9, <3>1, <3>3
  <2> QED BY <2>1, <2>2
<1> QED BY <1>1, <1>7, <1>10, <1>11, <1>12, <1>13, <1>14 DEF IInv

\* The handler that has come to the task of the child takes it out, and goes on with
\* the one it has in hand.
LEMMA MatchInv ==
  ASSUME IInv, NEW i \in 1..2, Match(i)
  PROVE  IInv'
<1> DEFINE t == frame[i].curr
           f == [frame[i] EXCEPT !.pc = "walk", !.curr = frame[i].after, !.after = Null]
<1>1. Running(i) /\ frame[i].pc = "match" /\ t \in alive /\ Moves(i, f)
      /\ UNCHANGED <<proc, alarm, broken, killed>>
  BY DEF Match, At
<1>2. /\ frame[i] \in FrameType /\ FrameOk(frame[i])
      /\ frame[i].pid \in Pids /\ proc[frame[i].pid] = "none"
  BY <1>1 DEF IInv, Typed, FrameOk
<1>3. /\ f.pc = "walk" /\ f.pid = frame[i].pid /\ f.curr = frame[i].after /\ f.after = Null
      /\ f \in FrameType
  BY <1>2 DEF FrameType, Link
<1>4. FrameOk(f)
  <2> HIDE DEF f
  <2> QED BY <1>2, <1>3 DEF FrameOk
<1>5. CASE pid[t] # frame[i].pid
  <2>1. UNCHANGED <<list, alive, pid, old, hurt>>
    BY <1>5 DEF Match
  <2> HIDE DEF f
  <2>2. ~hurt => Safe(f)
    BY <1>1, <1>3 DEF IInv, Safe
  <2>3. \A u \in alive : Seeks(frame[i], u) => Seeks(f, u)
    BY <1>1, <1>3, <1>5 DEF Seeks
  <2> QED BY <1>1, <1>3, <1>4, <2>1, <2>2, <2>3, MovesInv
<1>6. CASE pid[t] = frame[i].pid
  <2>1. /\ list' = Del(list, t) /\ pid' = [pid EXCEPT ![t] = NoPid]
        /\ alive' = alive \ {t} /\ old' = old \ {t}
        /\ hurt' = (hurt \/ (i = 2 /\ t \in Held))
    BY <1>6 DEF Match
  <2> HIDE DEF f
  <2>2. frame'[i] = f /\ (\A j \in 1..2 : j # i => frame'[j] = frame[j]) /\ frame' \in [1..2 -> FrameType]
    BY <1>1, <1>3 DEF IInv, Typed, Moves
  <2>3. Linked(list, Chain) /\ ToSet(Chain) = alive /\ alive \subseteq Tasks /\ killed \subseteq Pids
    BY DEF IInv, Typed
  <2>4. PICK k \in 1..Len(Chain) : t = Chain[k]
    BY <1>1, <2>3, LinkedFact
  <2> DEFINE d == Cut(Chain, k)
  <2>5. Linked(list', d)
    BY <2>1, <2>3, <2>4, DelLinked
  <2>6. ToSet(d) = alive' /\ Keeps(d, Chain)
    <3>1. Chain \in Seq(Tasks) /\ IsInjective(Chain)
      BY <2>3 DEF Linked
    <3> QED BY <2>1, <2>3, <2>4, <3>1, CutFact
  <2>7. Chain' = d /\ (Linked(list, Chain) /\ ToSet(Chain) = alive)'
    BY <2>5, <2>6, NewChain
  <2> HIDE DEF d
  <2>8. /\ pid' \in [Tasks -> Pids \cup {NoPid}] /\ pid'[t] = NoPid
        /\ \A u \in Tasks : u # t => pid'[u] = pid[u]
    BY <1>1, <2>1, <2>3 DEF IInv, Typed
  <2>9. hurt \in BOOLEAN /\ hurt' \in BOOLEAN /\ (hurt => hurt')
    BY <2>1, Zenon DEF IInv, Typed
  <2>10. Typed'
    BY <1>1, <2>1, <2>2, <2>8, <2>9 DEF IInv, Typed
  <2>11. Owned'
    <3>1. NoPid \notin Pids
      BY TaskListAssumption DEF Pids, NoPid
    <3>2. \A u \in Tasks : pid'[u] \in Pids <=> u \in alive'
      BY <2>1, <2>8, <3>1 DEF IInv, Owned
    <3>3. \A u \in alive' : u \in alive /\ pid'[u] = pid[u]
      BY <2>1, <2>3, <2>8
    <3>4. \A q \in Pids : proc[q] # "none" /\ q \notin killed => \E u \in alive' : pid'[u] = q
      <4> SUFFICES ASSUME NEW q \in Pids, proc[q] # "none", q \notin killed
                   PROVE  \E u \in alive' : pid'[u] = q
        OBVIOUS
      <4>1. PICK u \in alive : pid[u] = q
        BY DEF IInv, Owned
      <4>2. u # t
        BY <1>2, <1>6, <4>1
      <4> QED BY <2>1, <2>3, <2>8, <4>1, <4>2
    <3> QED BY <1>1, <3>2, <3>3, <3>4 DEF IInv, Owned
  <2>12. \A j \in 1..2 : FrameOk(frame[j])'
    <3>1. FrameOk(frame[i])'
      BY <1>1, <1>4, <2>2 DEF FrameOk
    <3>2. \A j \in 1..2 : j # i => FrameOk(frame[j])'
      BY <1>1, <2>2 DEF IInv, FrameOk
    <3> QED BY <3>1, <3>2
  <2>13. ~alarm' => frame'[2] = Off
    BY <1>1, <2>2 DEF IInv, Running
  \* The other handler holds nothing that is deleted, if it holds anything.
  <2>14. ASSUME ~hurt', NEW j \in 1..2, j # i
         PROVE  /\ frame[j].pc \in {"walk", "match"} => frame[j].curr # t
                /\ frame[j].pc = "match" => frame[j].after # t
    <3>1. CASE j = 2
      <4>1. frame[2] = Off
        BY <1>1, <2>14, <3>1 DEF IInv, Running
      <4> QED BY <3>1, <4>1 DEF Off
    <3>2. CASE j = 1
      <4>1. i = 2
        BY <2>14, <3>2
      <4>2. t \notin Held
        BY <2>1, <2>14, <4>1
      <4> QED BY <3>2, <4>2 DEF Held
    <3> QED BY <3>1, <3>2
  <2>15. ASSUME ~hurt', NEW j \in 1..2 PROVE Safe(frame[j])'
    <3>1. Safe(frame[j])
      BY <2>9, <2>15 DEF IInv
    <3>2. CASE j = i
      <4>1. f.curr \in alive \cup {Null} /\ f.curr # t
        BY <1>1, <1>3, <3>1, <3>2 DEF Safe
      <4> QED BY <1>3, <2>1, <2>2, <3>2, <4>1 DEF Safe
    <3>3. CASE j # i
      <4>1. /\ frame[j].pc \in {"walk", "match"} => frame[j].curr # t
            /\ frame[j].pc = "match" => frame[j].after # t
        BY <2>14, <2>15, <3>3
      <4> QED BY <2>1, <2>2, <3>1, <3>3, <4>1 DEF Safe
    <3> QED BY <3>2, <3>3
  <2>16. ASSUME ~hurt' PROVE Found'
    <3> SUFFICES ASSUME NEW u \in alive', ~(proc'[pid'[u]] # "none")
                 PROVE  \E j \in 1..2 : Seeks(frame[j], u)'
      BY DEF Found
    <3>1. u \in alive /\ u # t /\ pid'[u] = pid[u]
      BY <2>1, <2>3, <2>8
    <3>2. PICK j \in 1..2 : Seeks(frame[j], u)
      <4>1. ~hurt /\ ~(proc[pid[u]] # "none")
        BY <1>1, <2>9, <2>16, <3>1
      <4> QED BY <3>1, <4>1 DEF IInv, Found
    <3>3. j # i
      <4>1. j = i => pid[u] = pid[t]
        BY <1>6, <3>2 DEF Seeks
      <4> QED BY <1>1, <3>1, <4>1 DEF IInv, Owned
    <3>4. /\ frame[j].pc \in {"walk", "match"} => frame[j].curr # t
          /\ frame[j].pc = "match" => frame[j].after # t
      BY <2>14, <2>16, <3>3
    <3>5. \A x : Meets(Chain, x, u) /\ x # t => Meets(d, x, u)
      <4>1. \A x : Meets(Chain, x, u) => x \in alive
        BY <2>3, MeetsFact
      <4> QED BY <2>1, <2>6, <3>1, <4>1 DEF Keeps
    <3>6. Seeks(frame[j], u)'
      BY <2>2, <2>7, <3>1, <3>2, <3>3, <3>4, <3>5 DEF Seeks
    <3> QED BY <3>6
  <2>17. broken' => hurt'
    BY <1>1, <2>9 DEF IInv
  <2> QED BY <2>7, <2>10, <2>11, <2>12, <2>13, <2>15, <2>16, <2>17 DEF IInv
<1> QED BY <1>5, <1>6

\* SIGALRM may take tasks out and put one in while the handler of SIGCHLD is on its way.
LEMMA AlarmInv ==
  ASSUME IInv, Alarm
  PROVE  IInv'
<1> DEFINE over == Overdue
           rest == Purged(over)
           left == [t \in Tasks |-> IF t \in over THEN NoPid ELSE pid[t]]
<1>1. /\ ~broken /\ ~alarm /\ alarm' = TRUE /\ UNCHANGED <<frame, broken>>
      /\ killed' = killed \cup {pid[t] : t \in {u \in over : proc[pid[u]] # "none"}}
      /\ old' = old \ over
      /\ hurt' = (hurt \/ Held \cap over # {})
  BY DEF Alarm
<1>2. /\ Linked(list, Chain) /\ ToSet(Chain) = alive /\ alive \subseteq Tasks
      /\ old \subseteq alive /\ killed \subseteq Pids /\ over \subseteq alive
  BY DEF IInv, Typed, Overdue
<1>3. PICK d : Linked(rest, d) /\ Keeps(d, Chain) /\ ToSet(d) = alive \ over
  BY <1>2, PurgeLinked
<1>4. /\ left \in [Tasks -> Pids \cup {NoPid}]
      /\ \A u \in Tasks : left[u] = IF u \in over THEN NoPid ELSE pid[u]
  BY DEF IInv, Typed
<1> DEFINE Joins(t, p) ==
             /\ t \in Tasks \ (alive \ over) /\ p \in Pids /\ NextPid(p)
             /\ list' = Add(rest, t) /\ alive' = (alive \ over) \cup {t}
             /\ pid' = [left EXCEPT ![t] = p] /\ proc' = [proc EXCEPT ![p] = "runs"]
           Alone == list' = rest /\ alive' = alive \ over /\ pid' = left /\ UNCHANGED proc
<1>5. (\E t, p : Joins(t, p)) \/ Alone
  BY DEF Alarm
<1>6. /\ frame[2] = Off /\ Off.pc = "off" /\ hurt \in BOOLEAN /\ hurt' \in BOOLEAN
      /\ (hurt => hurt') /\ (~hurt' => Held \cap over = {})
  BY <1>1, Zenon DEF IInv, Typed, Off
<1>7. NoPid \notin Pids
  BY TaskListAssumption DEF Pids, NoPid
<1> HIDE DEF over, rest, left
\* The processes that get SIGTERM.
<1>8. \A q : q \in killed' <=> q \in killed \/ \E u \in over : q = pid[u] /\ proc[pid[u]] # "none"
  BY <1>1
<1>9. killed' \subseteq Pids
  <2>1. \A u \in alive : pid[u] \in Pids
    BY <1>2 DEF IInv, Owned
  <2> QED BY <1>2, <1>8, <2>1
<1>10. CASE Alone
  <2>1. Chain' = d /\ (Linked(list, Chain) /\ ToSet(Chain) = alive)'
    BY <1>3, <1>10, NewChain
  <2>2. \A x, u : Meets(Chain, x, u) /\ x \notin over /\ u \notin over => Meets(d, x, u)
    <3>1. \A x, u : Meets(Chain, x, u) => x \in alive /\ u \in alive
      BY <1>2, MeetsFact
    <3> QED BY <1>3, <3>1 DEF Keeps
  <2>3. Typed'
    BY <1>1, <1>2, <1>4, <1>6, <1>9, <1>10 DEF IInv, Typed
  <2>4. \A u \in alive' : u \in alive /\ u \notin over /\ pid'[u] = pid[u]
    BY <1>2, <1>4, <1>10
  <2>5. Owned'
    <3>1. \A u \in Tasks : pid'[u] \in Pids <=> u \in alive'
      BY <1>2, <1>4, <1>7, <1>10 DEF IInv, Owned
    <3>2. \A u, v \in alive' : pid'[u] = pid'[v] => u = v
      BY <2>4 DEF IInv, Owned
    <3>3. \A q \in killed' : proc'[q] # "none" /\ \A u \in alive' : pid'[u] # q
      BY <1>2, <1>8, <1>10, <2>4 DEF IInv, Owned
    <3>4. \A q \in Pids : proc'[q] # "none" /\ q \notin killed' => \E u \in alive' : pid'[u] = q
      <4> SUFFICES ASSUME NEW q \in Pids, proc[q] # "none", q \notin killed'
                   PROVE  \E u \in alive' : pid'[u] = q
        BY <1>10
      <4>1. PICK u \in alive : pid[u] = q
        BY <1>8 DEF IInv, Owned
      <4>2. u \notin over
        BY <1>8, <4>1
      <4> QED BY <1>10, <2>4, <4>1, <4>2
    <3> QED BY <3>1, <3>2, <3>3, <3>4 DEF Owned
  <2>6. \A j \in 1..2 : FrameOk(frame[j])'
    BY <1>1, <1>10 DEF IInv, FrameOk
  <2>7. ASSUME ~hurt', NEW u \in alive', NEW j \in 1..2, Seeks(frame[j], u)
        PROVE  Seeks(frame[j], u)'
    <3>1. j = 1
      BY <1>6, <2>7 DEF Seeks
    <3>2. /\ frame[j].pc \in {"walk", "match"} => frame[j].curr \notin over
          /\ frame[j].pc = "match" => frame[j].after \notin over
      BY <1>6, <2>7, <3>1 DEF Held
    <3> QED BY <1>1, <2>1, <2>2, <2>4, <2>7, <3>2 DEF Seeks
  <2>8. ~hurt' => Found'
    <3> SUFFICES ASSUME ~hurt', NEW u \in alive', ~(proc'[pid'[u]] # "none")
                 PROVE  \E j \in 1..2 : Seeks(frame[j], u)'
      BY DEF Found
    <3>1. ~hurt /\ u \in alive /\ ~(proc[pid[u]] # "none")
      BY <1>6, <1>10, <2>4
    <3>2. PICK j \in 1..2 : Seeks(frame[j], u)
      BY <3>1 DEF IInv, Found
    <3> QED BY <2>7, <3>2
  <2>9. ASSUME ~hurt', NEW j \in 1..2 PROVE Safe(frame[j])'
    <3>1. Safe(frame[j])
      BY <1>6, <2>9 DEF IInv
    <3>2. CASE j = 1
      <4>1. /\ frame[j].pc \in {"walk", "match"} => frame[j].curr \notin over
            /\ frame[j].pc = "match" => frame[j].after \notin over
        BY <1>6, <2>9, <3>2 DEF Held
      <4> QED BY <1>1, <1>10, <3>1, <4>1 DEF Safe
    <3>3. CASE j = 2
      BY <1>1, <1>6, <3>3 DEF Safe
    <3> QED BY <3>2, <3>3
  <2> QED BY <1>1, <1>6, <2>1, <2>3, <2>5, <2>6, <2>8, <2>9 DEF IInv
<1>11. ASSUME NEW t, NEW p, Joins(t, p) PROVE IInv'
  <2>1. /\ t \in Tasks \ (alive \ over) /\ p \in Pids /\ NextPid(p)
        /\ list' = Add(rest, t) /\ alive' = (alive \ over) \cup {t}
        /\ pid' = [left EXCEPT ![t] = p] /\ proc' = [proc EXCEPT ![p] = "runs"]
    BY <1>11
  <2> HIDE DEF Joins, Alone
  <2> DEFINE e == Append(d, t)
  <2>2. /\ proc[p] = "none" /\ p \notin killed
        /\ \A u \in alive : pid[u] # p
        /\ \A i \in 1..2 : frame[i].pid # p
    BY <2>1, FreshFact
  <2>3. Linked(list', e)
    BY <1>3, <2>1, AddLinked
  <2>4. ToSet(e) = alive' /\ Keeps(d, e)
    <3>1. d \in Seq(Tasks) /\ IsInjective(d)
      BY <1>3 DEF Linked
    <3> QED BY <1>3, <2>1, <3>1, AppendFact
  <2>5. Chain' = e /\ (Linked(list, Chain) /\ ToSet(Chain) = alive)'
    BY <2>3, <2>4, NewChain
  <2> HIDE DEF e
  <2>6. \A x, u : Meets(Chain, x, u) /\ x \notin over /\ u \notin over => Meets(e, x, u)
    <3>1. \A x, u : Meets(Chain, x, u) => x \in alive /\ u \in alive
      BY <1>2, MeetsFact
    <3> QED BY <1>3, <2>4, <3>1 DEF Keeps
  <2>7. /\ pid' \in [Tasks -> Pids \cup {NoPid}] /\ pid'[t] = p
        /\ \A u \in Tasks : u # t => pid'[u] = IF u \in over THEN NoPid ELSE pid[u]
    BY <1>4, <2>1
  <2>8. /\ proc' \in [Pids -> {"none", "runs", "ended"}] /\ proc'[p] = "runs"
        /\ \A q \in Pids : q # p => proc'[q] = proc[q]
    BY <2>1 DEF IInv, Typed
  <2>9. alive' \subseteq Tasks /\ old' \subseteq alive'
    BY <1>1, <1>2, <2>1
  <2>10. Typed'
    BY <1>1, <1>6, <1>9, <2>7, <2>8, <2>9 DEF IInv, Typed
  <2>11. \A u \in alive' : u # t => u \in alive /\ u \notin over /\ pid'[u] = pid[u]
    BY <1>2, <2>1, <2>7
  <2>12. Owned'
    <3>1. \A u \in Tasks : pid'[u] \in Pids <=> u \in alive'
      BY <1>2, <1>7, <2>1, <2>7 DEF IInv, Owned
    <3>2. \A u, v \in alive' : pid'[u] = pid'[v] => u = v
      BY <2>2, <2>7, <2>11 DEF IInv, Owned
    <3>3. ASSUME NEW q \in killed' PROVE proc'[q] # "none" /\ \A u \in alive' : pid'[u] # q
      <4>1. q \in Pids /\ proc[q] # "none"
        BY <1>8, <1>9 DEF IInv, Owned
      <4>2. q # p /\ proc'[q] # "none"
        BY <2>2, <2>8, <4>1
      <4>3. \A u \in alive : u \notin over => pid[u] # q
        BY <1>2, <1>8 DEF IInv, Owned
      <4> QED BY <2>7, <2>11, <4>2, <4>3
    <3>4. \A q \in Pids : proc'[q] # "none" /\ q \notin killed' => \E u \in alive' : pid'[u] = q
      <4> SUFFICES ASSUME NEW q \in Pids, proc'[q] # "none", q \notin killed'
                   PROVE  \E u \in alive' : pid'[u] = q
        OBVIOUS
      <4>1. CASE q = p
        BY <2>1, <2>7, <4>1
      <4>2. CASE q # p
        <5>1. proc[q] # "none" /\ q \notin killed
          BY <1>8, <2>8, <4>2
        <5>2. PICK u \in alive : pid[u] = q
          BY <5>1 DEF IInv, Owned
        <5>3. u \notin over
          BY <1>8, <5>1, <5>2
        <5> QED BY <2>1, <2>11, <5>2, <5>3
      <4> QED BY <4>1, <4>2
    <3> QED BY <3>1, <3>2, <3>3, <3>4 DEF Owned
  <2>13. \A j \in 1..2 : FrameOk(frame[j])'
    <3> SUFFICES ASSUME NEW j \in 1..2 PROVE FrameOk(frame[j])'
      OBVIOUS
    <3>1. FrameOk(frame[j]) /\ frame[j].pid # p /\ frame' = frame
      BY <1>1, <2>2 DEF IInv
    <3> QED BY <2>8, <3>1 DEF FrameOk
  <2>14. ASSUME ~hurt', NEW u \in alive', u # t, NEW j \in 1..2, Seeks(frame[j], u)
         PROVE  Seeks(frame[j], u)'
    <3>1. j = 1
      BY <1>6, <2>14 DEF Seeks
    <3>2. /\ frame[j].pc \in {"walk", "match"} => frame[j].curr \notin over
          /\ frame[j].pc = "match" => frame[j].after \notin over
      BY <1>6, <2>14, <3>1 DEF Held
    <3> QED BY <1>1, <2>5, <2>6, <2>11, <2>14, <3>2 DEF Seeks
  <2>15. ~hurt' => Found'
    <3> SUFFICES ASSUME ~hurt', NEW u \in alive', ~(proc'[pid'[u]] # "none")
                 PROVE  \E j \in 1..2 : Seeks(frame[j], u)'
      BY DEF Found
    <3>1. u # t
      BY <2>7, <2>8
    <3>2. u \in alive /\ pid'[u] = pid[u] /\ pid[u] \in Pids /\ pid[u] # p
      BY <1>2, <2>2, <2>11, <3>1 DEF IInv, Owned
    <3>3. ~hurt /\ ~(proc[pid[u]] # "none")
      BY <1>6, <2>8, <3>2
    <3>4. PICK j \in 1..2 : Seeks(frame[j], u)
      BY <3>2, <3>3 DEF IInv, Found
    <3> QED BY <2>14, <3>1, <3>4
  <2>16. ASSUME ~hurt', NEW j \in 1..2 PROVE Safe(frame[j])'
    <3>1. Safe(frame[j])
      BY <1>6, <2>16 DEF IInv
    <3>2. CASE j = 1
      <4>1. /\ frame[j].pc \in {"walk", "match"} => frame[j].curr \notin over
            /\ frame[j].pc = "match" => frame[j].after \notin over
        BY <1>6, <2>16, <3>2 DEF Held
      <4> QED BY <1>1, <2>1, <3>1, <4>1 DEF Safe
    <3>3. CASE j = 2
      BY <1>1, <1>6, <3>3 DEF Safe
    <3> QED BY <3>2, <3>3
  <2> QED BY <1>1, <1>6, <2>5, <2>10, <2>12, <2>13, <2>15, <2>16 DEF IInv
<1> QED BY <1>5, <1>10, <1>11

-----------------------------------------------------------------------------
(* The specification                                                       *)

LEMMA InitInv ==
  ASSUME Init
  PROVE  IInv
<1>1. Linked(Empty, <<>>)
  <2>1. Empty \in ListType
    BY DEF Empty, ListType, Link
  <2>2. <<>> \in Seq(Tasks) /\ Len(<<>>) = 0 /\ ToSet(<<>>) = {} /\ IsInjective(<<>>)
    BY DEF ToSet, IsInjective
  <2> QED BY <2>1, <2>2 DEF Linked, Empty
<1>2. Chain = <<>>
  BY <1>1, ChainFact DEF Init, Chain
<1>3. Linked(list, Chain) /\ ToSet(Chain) = alive
  <2>1. ToSet(<<>>) = {}
    BY DEF ToSet
  <2> QED BY <1>1, <1>2, <2>1 DEF Init
<1>4. Off \in FrameType /\ Off.pc = "off"
  BY DEF Off, FrameType, Link
<1>5. Typed
  <2>1. NoPid \in Pids \cup {NoPid}
    OBVIOUS
  <2> QED BY <1>4, <2>1 DEF Init, Typed
<1>6. Owned
  BY TaskListAssumption DEF Init, Owned, Pids, NoPid
<1>7. \A i \in 1..2 : frame[i] = Off
  BY DEF Init
<1>8. \A i \in 1..2 : FrameOk(frame[i]) /\ Safe(frame[i])
  BY <1>4, <1>7 DEF FrameOk, Safe
<1>9. Found
  BY DEF Init, Found
<1> QED BY <1>3, <1>5, <1>6, <1>7, <1>8, <1>9 DEF IInv, Init

LEMMA StepInv ==
  ASSUME IInv, [Next]_vars
  PROVE  IInv'
<1>1. CASE UNCHANGED vars
  <2>1. UNCHANGED <<list, alive, pid, proc, old, frame, alarm, broken, killed, hurt>>
    BY <1>1 DEF vars
  <2>2. (Linked(list, Chain) /\ ToSet(Chain) = alive)' /\ Chain' = Chain
    BY <2>1, SameList
  <2>3. Typed' /\ Owned' /\ \A i \in 1..2 : FrameOk(frame[i])'
    BY <2>1 DEF IInv, Typed, Owned, FrameOk
  <2>4. (Found => Found') /\ \A i \in 1..2 : Safe(frame[i]) => Safe(frame[i])'
    BY <2>1, <2>2 DEF Found, Seeks, Safe
  <2> QED BY <2>1, <2>2, <2>3, <2>4 DEF IInv
<1>2. CASE Receive
  BY <1>2, ReceiveInv
<1>3. CASE Alarm
  BY <1>3, AlarmInv
<1>4. CASE AlarmDone
  BY <1>4, AlarmDoneInv
<1>5. ASSUME NEW i \in 1..2, Handler(i) PROVE IInv'
  BY <1>5, SigchldInv, WaitInv, WaitDoneInv, WalkDoneInv, TouchInv, WalkInv, MatchInv DEF Handler
<1>6. ASSUME NEW p \in Pids, Ends(p) PROVE IInv'
  BY <1>6, EndsInv
<1>7. ASSUME NEW t \in Tasks, GrowsOld(t) PROVE IInv'
  BY <1>7, GrowsOldInv
<1> QED BY <1>1, <1>2, <1>3, <1>4, <1>5, <1>6, <1>7 DEF Next

\* The tasks of the list are linked in the order in which they joined; each belongs to
\* one process; and, as long as SIGALRM has not deleted what a handler of SIGCHLD had
\* in hand, that handler will come to the task of the child it has waited for.
THEOREM ListInvariant == Spec => []IInv
<1>1. Init => IInv
  BY InitInv
<1>2. IInv /\ [Next]_vars => IInv'
  BY StepInv
<1> QED BY <1>1, <1>2, PTL DEF Spec

\* The variables have their types, and the links, the ends and the count of the list
\* agree with one another and with the tasks that were made and not deleted, whatever
\* handler interrupts which (List::add, List::del, ListElement::unhook).
THEOREM ListTyping == Spec => []TypeOK
<1>1. IInv => TypeOK
  <2> SUFFICES ASSUME IInv PROVE TypeOK
    OBVIOUS
  <2>1. /\ Linked(list, Chain) /\ ToSet(Chain) = alive /\ Typed
    BY DEF IInv
  <2>2. /\ Len(Chain) \in Nat /\ \A n \in 1..Len(Chain) : Chain[n] \in Tasks
    BY <2>1, LinkedFact
  <2>3. /\ list \in ListType /\ list.count = Len(Chain)
        /\ \A t \in Tasks : list.in[t] <=> t \in ToSet(Chain)
        /\ list.first = IF Chain = <<>> THEN Null ELSE Last(Chain)
    BY <2>1 DEF Linked, Last
  <2>4. {t \in Tasks : list.in[t]} = alive
    BY <2>1, <2>3 DEF Typed
  <2>5. ASSUME NEW n \in 1..(Len(Chain) - 1) PROVE list.next[Chain[n + 1]] = Chain[n]
    <3>1. n + 1 \in 1..Len(Chain) /\ n + 1 # 1 /\ (n + 1) - 1 = n
      BY <2>2
    <3>2. \A m \in 1..Len(Chain) : list.next[Chain[m]] = IF m = 1 THEN Null ELSE Chain[m - 1]
      BY <2>1 DEF Linked
    <3> QED BY <3>1, <3>2
  <2>6. {alarm, broken, hurt} \subseteq BOOLEAN
    BY <2>1, Zenon DEF Typed
  <2> QED BY <2>1, <2>3, <2>4, <2>5, <2>6 DEF TypeOK, Typed, Listed
<1> QED BY <1>1, ListInvariant, PTL

\* When no handler runs and none was hurt, the tasks of the list are those of the
\* children that were not waited for and not terminated, for any number of them.
THEOREM ListedAreChildren == Spec => []ListIsChildren
<1>1. IInv => ListIsChildren
  <2> SUFFICES ASSUME IInv, ~alarm, frame[1].pc = "off", ~hurt
               PROVE  {pid[t] : t \in Listed} = {p \in Pids : proc[p] # "none"} \ killed
    BY DEF ListIsChildren
  <2>1. Listed = alive /\ alive \subseteq Tasks
    BY DEF IInv, Typed, Listed
  <2>2. \A i \in 1..2 : frame[i].pc = "off"
    BY DEF IInv, Off
  <2>3. ASSUME NEW t \in alive PROVE pid[t] \in Pids /\ proc[pid[t]] # "none" /\ pid[t] \notin killed
    <3>1. \A i \in 1..2 : ~Seeks(frame[i], t)
      BY <2>2 DEF Seeks
    <3> QED BY <2>1, <3>1 DEF IInv, Found, Owned
  <2>4. \A p \in Pids : proc[p] # "none" /\ p \notin killed => \E t \in alive : pid[t] = p
    BY DEF IInv, Owned
  <2> QED BY <2>1, <2>3, <2>4
<1> QED BY <1>1, ListInvariant, PTL

\* No handler looks at a task that was deleted, but for one SIGALRM deletes in its hand.
THEOREM DeletedIsLeftHolds == Spec => []DeletedIsLeft
<1>1. IInv => DeletedIsLeft
  BY DEF IInv, DeletedIsLeft
<1> QED BY <1>1, ListInvariant, PTL

\* SIGTERM goes to children of the scheduler, but for the one whose end an interrupted
\* handler has just learnt (scheduler_sigalarm).
THEOREM TermIsForChildHolds == Spec => TermIsForChild
<1>1. IInv => (alarm' /\ ~alarm /\ ~hurt =>
        \A t \in alive : t \in Overdue => proc[pid[t]] # "none" \/ pid[t] = frame[1].pid)
  <2> SUFFICES ASSUME IInv, ~alarm, ~hurt, NEW t \in alive
               PROVE  proc[pid[t]] # "none" \/ pid[t] = frame[1].pid
    OBVIOUS
  <2>1. ~Seeks(frame[2], t)
    BY DEF IInv, Seeks, Off
  <2> QED BY <2>1 DEF IInv, Found, Seeks
<1> QED BY <1>1, ListInvariant, PTL DEF TermIsForChild

-----------------------------------------------------------------------------
(* The list is a queue                                                     *)

LEMMA OrderFact ==
  ASSUME NEW s
  PROVE  /\ \A x, t : <<x, t>> \in Queue!Order(s) <=> Meets(s, x, t)
         /\ \A o \in Queue!Order(s) : \E x, t : o = <<x, t>>
<1>1. \A o : o \in Queue!Order(s) <=> \E n \in DOMAIN s : \E m \in 1..n : o = <<s[m], s[n]>>
  BY DEF Queue!Order
<1>2. ASSUME NEW x, NEW t PROVE <<x, t>> \in Queue!Order(s) <=> Meets(s, x, t)
  BY <1>1 DEF Meets
<1>3. \A o \in Queue!Order(s) : \E x, t : o = <<x, t>>
  BY <1>1
<1> QED BY <1>2, <1>3

\* What keeps its order is what the queue is left with.
LEMMA LeaveFact ==
  ASSUME Linked(list, Chain), NEW d, NEW l, Linked(l, d), Keeps(d, Chain)
  PROVE  Queue!Leave(d)
<1>1. IsInjective(d) /\ \A x, t : Meets(d, x, t) => x \in ToSet(d) /\ t \in ToSet(d)
  BY MeetsFact DEF Linked
<1>2. \A x, t : Meets(d, x, t) => Meets(Chain, x, t)
  BY <1>1 DEF Keeps
<1>3. Queue!Order(d) \subseteq Queue!Order(Chain)
  BY <1>2, OrderFact
<1> QED BY <1>1, <1>3 DEF Queue!Leave, Queue!IsInjective, IsInjective

\* A task that is added behind what is left joins the queue.
LEMMA JoinFact ==
  ASSUME Linked(list, Chain), NEW d, NEW l, Linked(l, d), Keeps(d, Chain),
         NEW t \in Tasks \ ToSet(d), Chain' = Append(d, t)
  PROVE  Queue!Join
<1> DEFINE e == Append(d, t)
<1>1. d \in Seq(Tasks) /\ Len(d) \in Nat
  BY LinkedFact DEF Linked
<1>2. Len(e) = Len(d) + 1 /\ e # <<>> /\ e[Len(d) + 1] = t
  BY <1>1, AppendFact
<1>3. Last(e) = t
  BY <1>2 DEF Last
<1>4. Front(e) = d
  <2>1. \A n \in 1..Len(d) : e[n] = d[n] /\ d[n] \in Tasks
    BY <1>1, AppendFact
  <2>2. 1 \in Int /\ Len(d) \in Int /\ Len(e) - 1 = Len(d)
    BY <1>1, <1>2
  <2> DEFINE f == SubSeq(e, 1, Len(d))
  <2> HIDE DEF e
  <2>3. /\ f \in Seq(Tasks)
        /\ Len(f) = IF 1 <= Len(d) THEN Len(d) - 1 + 1 ELSE 0
        /\ \A n \in 1..(Len(d) - 1 + 1) : f[n] = e[1 + n - 1]
    BY <2>1, <2>2, SubSeqProperties
  <2>4. Front(e) = f
    BY <2>2 DEF Front
  <2> HIDE DEF f
  <2>5. Len(f) = Len(d) /\ \A n \in 1..Len(d) : f[n] = d[n]
    <3>1. Len(f) = Len(d) /\ Len(d) - 1 + 1 = Len(d)
      BY <1>1, <2>3
    <3>2. \A n \in 1..Len(d) : 1 + n - 1 = n
      BY <1>1
    <3> QED BY <2>1, <2>3, <3>1, <3>2
  <2>6. f = d
    BY <1>1, <2>3, <2>5, SeqEqual
  <2> QED BY <2>4, <2>6
<1>5. Queue!Leave(d)
  BY LeaveFact
<1> HIDE DEF e
<1>6. Chain' = e
  BY DEF e
<1> QED BY <1>2, <1>3, <1>4, <1>5, <1>6
       DEF Queue!Join, Queue!Front, Queue!Last, Queue!ToSet, Front, Last, ToSet

\* The list is a queue: tasks leave it at any place and keep their order, and join
\* it at its end (List::add, List::del, ListElement::unhook, getFirst and getNext).
THEOREM IsQueueHolds == Spec => IsQueue
<1>1. Init => Queue!Init
  <2> SUFFICES ASSUME Init PROVE Chain = <<>>
    BY DEF Queue!Init
  <2>1. Linked(list, Chain) /\ ToSet(Chain) = {}
    BY InitInv DEF IInv, Init
  <2> QED BY <2>1, LinkedFact
<1>2. IInv /\ [Next]_vars => [Queue!Next]_Chain
  <2> SUFFICES ASSUME IInv, [Next]_vars, Chain' # Chain PROVE Queue!Next
    OBVIOUS
  <2>1. Linked(list, Chain) /\ ToSet(Chain) = alive /\ alive \subseteq Tasks
    BY DEF IInv, Typed
  <2>2. list' # list
    BY DEF Chain
  <2>3. CASE Receive
    <3>1. PICK t \in Tasks \ alive : list' = Add(list, t)
      BY <2>3 DEF Receive
    <3>2. Linked(list', Append(Chain, t))
      BY <2>1, <3>1, AddLinked
    <3>3. Chain' = Append(Chain, t)
      BY <3>2, NewChain
    <3>4. Queue!Join
      BY <2>1, <3>1, <3>3, KeepsFact, JoinFact
    <3> QED BY <3>4 DEF Queue!Next
  <2>4. CASE Alarm
    <3> DEFINE over == Overdue
               rest == Purged(over)
    <3>1. \/ \E t \in Tasks \ (alive \ over) : list' = Add(rest, t)
          \/ list' = rest
      BY <2>4 DEF Alarm
    <3>2. PICK d : Linked(rest, d) /\ Keeps(d, Chain) /\ ToSet(d) = alive \ over
      BY <2>1, PurgeLinked
    <3> HIDE DEF over, rest
    <3>3. CASE list' = rest
      <4>1. Chain' = d
        BY <3>2, <3>3, NewChain
      <4>2. Queue!Leave(d)
        BY <2>1, <3>2, LeaveFact
      <4> QED BY <4>1, <4>2 DEF Queue!Next
    <3>4. ASSUME NEW t \in Tasks \ (alive \ over), list' = Add(rest, t) PROVE Queue!Join
      <4>1. Linked(list', Append(d, t))
        BY <3>2, <3>4, AddLinked
      <4>2. Chain' = Append(d, t)
        BY <4>1, NewChain
      <4> QED BY <2>1, <3>2, <4>2, JoinFact
    <3> QED BY <3>1, <3>3, <3>4 DEF Queue!Next
  <2>5. ASSUME NEW i \in 1..2, Handler(i) PROVE Queue!Next
    <3> DEFINE t == frame[i].curr
    <3>1. Match(i)
      BY <2>2, <2>5 DEF Handler, Sigchld, Wait, WaitDone, WalkDone, Touch, Walk
    <3>2. t \in alive /\ list' = Del(list, t)
      BY <2>2, <3>1 DEF Match
    <3>3. PICK k \in 1..Len(Chain) : t = Chain[k]
      BY <2>1, <3>2, LinkedFact
    <3>4. Linked(list', Cut(Chain, k))
      BY <2>1, <3>2, <3>3, DelLinked
    <3>5. Chain' = Cut(Chain, k)
      BY <3>4, NewChain
    <3>6. Keeps(Cut(Chain, k), Chain)
      BY <2>1, CutFact DEF Linked
    <3>7. Queue!Leave(Cut(Chain, k))
      BY <2>1, <3>4, <3>6, LeaveFact
    <3> QED BY <3>5, <3>7 DEF Queue!Next
  <2>6. ~UNCHANGED vars /\ ~AlarmDone /\ (\A p \in Pids : ~Ends(p)) /\ (\A t \in Tasks : ~GrowsOld(t))
    BY <2>2 DEF vars, AlarmDone, Ends, GrowsOld
  <2> QED BY <2>3, <2>4, <2>5, <2>6 DEF Next
<1> QED BY <1>1, <1>2, ListInvariant, PTL DEF Spec, IsQueue, Queue!Spec

-----------------------------------------------------------------------------
(* The loop of the scheduler                                               *)

CONSTANTS MaxProcs, MaxFaults
VARIABLES loop, task, tasks, run, active, blocked, armed, reload, aged, faults

\* Its list is "tasks", and its tasks that are too old are "aged".
S == INSTANCE Scheduler WITH list <- tasks, old <- aged

\* The children that were not waited for, those excepted that got SIGTERM.
Children == {t \in Tasks : run[t] \in S!Working \cup {"zombie"}}

\* The loop has made a task.
TaskMade == loop \in {"new", "suspended", "forked", "added"} => task \in Tasks

\* The list as the loop goes on.  While SIGCHLD is suspended the list is right only as
\* long as no SIGALRM has come; when one has, the flag of the handler of SIGCHLD
\* tells, and the release aborts the scheduler before it waits for a connection.
ListSoFar ==
  /\ loop \in {"accept", "new"} => tasks = Children
  /\ loop \in {"suspended", "added"} /\ ~active => tasks = Children
  /\ loop = "forked" /\ ~active /\ task \notin tasks => tasks \cup {task} = Children

SInv == S!TypeOK /\ TaskMade /\ ListSoFar

\* What the scheduler's list is compared with in the property is the same set.
LEMMA ChildrenFact == Children = {t \in S!Unreaped : run[t] # "killed"}
BY DEF Children, S!Unreaped, S!Working

-----------------------------------------------------------------------------
(* The handlers                                                            *)

\* SIGALRM comes while the list is right: it is right when the handler returns.
LEMMA ReleasedList ==
  ASSUME S!TypeOK, tasks = Children, NEW made \in SUBSET S!Unused, NEW r,
         \A t \in made : r[t] \in {"manager", "zombie"},
         \A t \in Tasks \ made : r[t] = IF t \in S!Overdue THEN "killed"
                                        ELSE IF run[t] = "made" THEN r[t] ELSE run[t],
         \A t \in Tasks : run[t] = "made" => r[t] \in {"made", "replaced"},
         S!Released(r, (tasks \ S!Overdue) \cup made)
  PROVE  tasks' = Children'
<1>1. PICK waited \in SUBSET {t \in Tasks : r[t] \in {"zombie", "killed"}} :
        /\ {t \in Tasks : run[t] = "zombie"} \subseteq waited
        /\ run' = [t \in Tasks |-> IF t \in waited THEN "none" ELSE r[t]]
        /\ tasks' = ((tasks \ S!Overdue) \cup made) \ waited
  BY DEF S!Released
<1>2. made \subseteq Tasks /\ tasks \subseteq Tasks /\ S!Overdue \subseteq tasks
  BY DEF S!TypeOK, S!Unused, S!Overdue
<1>3. ASSUME NEW t \in Tasks PROVE t \in tasks' <=> run'[t] \in S!Working \cup {"zombie"}
  <2>1. t \in tasks <=> run[t] \in S!Working \cup {"zombie"}
    BY DEF Children
  <2>2. CASE t \in made
    <3>1. r[t] \in {"manager", "zombie"}
      BY <2>2
    <3> QED BY <1>1, <2>2, <3>1 DEF S!Working
  <2>3. CASE t \notin made /\ t \in S!Overdue
    <3>1. r[t] = "killed"
      BY <2>3
    <3> QED BY <1>1, <2>3, <3>1 DEF S!Working
  <2>4. CASE t \notin made /\ t \notin S!Overdue
    <3>1. t \in tasks' <=> t \in tasks /\ t \notin waited
      BY <1>1, <2>4
    <3>2. run'[t] = IF t \in waited THEN "none" ELSE r[t]
      BY <1>1
    <3>3. r[t] \in S!Working \cup {"zombie"} <=> run[t] \in S!Working \cup {"zombie"}
      BY <2>4 DEF S!Working
    <3> QED BY <2>1, <3>1, <3>2, <3>3 DEF S!Working
  <2> QED BY <2>2, <2>3, <2>4
<1>4. tasks' \subseteq Tasks
  BY <1>1, <1>2
<1> QED BY <1>3, <1>4 DEF Children

\* The types when SIGALRM returns.
LEMMA ReleasedType ==
  ASSUME S!TypeOK, NEW r \in [Tasks -> S!Working \cup {"none", "made", "replaced", "zombie", "killed"}],
         NEW members \in SUBSET Tasks, S!Released(r, members)
  PROVE  /\ tasks' \subseteq Tasks /\ aged' \subseteq Tasks
         /\ run' \in [Tasks -> S!Working \cup {"none", "made", "replaced", "zombie", "killed"}]
         /\ active' = TRUE /\ blocked' = blocked
<1>1. PICK waited :
        /\ run' = [t \in Tasks |-> IF t \in waited THEN "none" ELSE r[t]]
        /\ tasks' = members \ waited /\ aged' = aged \ waited
  BY DEF S!Released
<1>2. active' = TRUE /\ blocked' = blocked
  BY DEF S!Released
<1> QED BY <1>1, <1>2 DEF S!TypeOK

\* The tasks that are too old, terminated.
LEMMA TerminatedType ==
  ASSUME S!TypeOK
  PROVE  S!Terminated \in [Tasks -> S!Working \cup {"none", "made", "replaced", "zombie", "killed"}]
BY DEF S!TypeOK, S!Terminated

LEMMA StepAlarm ==
  ASSUME SInv, S!Alarm
  PROVE  SInv'
<1>1. PICK t \in S!Unused :
        \E now \in {"manager", "zombie"} :
          /\ task' = t
          /\ S!Released([S!Terminated EXCEPT ![t] = now], (tasks \ S!Overdue) \cup {t})
  BY DEF S!Alarm, S!Newborn
<1>a. PICK now \in {"manager", "zombie"} :
        /\ task' = t
        /\ S!Released([S!Terminated EXCEPT ![t] = now], (tasks \ S!Overdue) \cup {t})
  BY <1>1
<1>2. UNCHANGED <<loop, armed, reload, faults>> /\ t \in Tasks /\ S!TypeOK /\ tasks \subseteq Tasks
  BY DEF S!Alarm, S!Unused, SInv, S!TypeOK
<1> DEFINE r == [S!Terminated EXCEPT ![t] = now]
<1>3. r \in [Tasks -> S!Working \cup {"none", "made", "replaced", "zombie", "killed"}]
  BY <1>2, TerminatedType DEF S!Working
<1>4. \A u \in Tasks : r[u] = IF u = t THEN now
                              ELSE IF u \in S!Overdue THEN "killed" ELSE run[u]
  BY <1>2 DEF S!Terminated
<1>5. S!Released(r, (tasks \ S!Overdue) \cup {t})
  BY <1>a
<1> HIDE DEF r
<1>6. /\ tasks' \subseteq Tasks /\ aged' \subseteq Tasks
      /\ run' \in [Tasks -> S!Working \cup {"none", "made", "replaced", "zombie", "killed"}]
      /\ active' = TRUE /\ blocked' = blocked
  BY <1>2, <1>3, <1>5, ReleasedType
<1>7. tasks = Children => tasks' = Children'
  <2> SUFFICES ASSUME tasks = Children PROVE tasks' = Children'
    OBVIOUS
  <2>1. /\ \A u \in {t} : r[u] \in {"manager", "zombie"}
        /\ \A u \in Tasks \ {t} : r[u] = IF u \in S!Overdue THEN "killed"
                                        ELSE IF run[u] = "made" THEN r[u] ELSE run[u]
    BY <1>2, <1>4
  <2>2. \A u \in Tasks : run[u] = "made" => r[u] \in {"made", "replaced"}
    BY <1>1, <1>4 DEF S!Overdue, Children, S!Unused, S!Working
  <2>3. {t} \in SUBSET S!Unused
    BY <1>1
  <2> QED BY <1>2, <1>5, <2>1, <2>2, <2>3, ReleasedList
<1>8. S!TypeOK'
  BY <1>a, <1>2, <1>6 DEF S!TypeOK
<1> QED BY <1>a, <1>2, <1>6, <1>7, <1>8 DEF SInv, TaskMade, ListSoFar

LEMMA StepAlarmForkFails ==
  ASSUME SInv, S!AlarmForkFails, MaxFaults \in Nat
  PROVE  SInv'
<1> DEFINE r == [t \in Tasks |->
                   IF t = task /\ run[t] = "made" THEN "replaced" ELSE S!Terminated[t]]
<1>1. S!Released(r, tasks \ S!Overdue)
  BY DEF S!AlarmForkFails
<1>2. UNCHANGED <<loop, task, armed, reload>> /\ S!TypeOK /\ tasks \subseteq Tasks
  BY DEF S!AlarmForkFails, SInv, S!TypeOK
<1>3. r \in [Tasks -> S!Working \cup {"none", "made", "replaced", "zombie", "killed"}]
  BY <1>2, TerminatedType DEF S!Working
<1>4. \A u \in Tasks : r[u] = IF u = task /\ run[u] = "made" THEN "replaced"
                              ELSE IF u \in S!Overdue THEN "killed" ELSE run[u]
  BY DEF S!Terminated
<1> HIDE DEF r
<1>5. /\ tasks' \subseteq Tasks /\ aged' \subseteq Tasks
      /\ run' \in [Tasks -> S!Working \cup {"none", "made", "replaced", "zombie", "killed"}]
      /\ active' = TRUE /\ blocked' = blocked
  BY <1>1, <1>2, <1>3, ReleasedType
<1>6. tasks = Children => tasks' = Children'
  <2> SUFFICES ASSUME tasks = Children PROVE tasks' = Children'
    OBVIOUS
  <2>1. \A u \in S!Overdue : run[u] # "made"
    BY DEF S!Overdue, Children, S!Working
  <2>2. \A u \in Tasks \ {} : r[u] = IF u \in S!Overdue THEN "killed"
                                     ELSE IF run[u] = "made" THEN r[u] ELSE run[u]
    BY <1>4, <2>1
  <2>3. \A u \in Tasks : run[u] = "made" => r[u] \in {"made", "replaced"}
    BY <1>4, <2>1
  <2>4. S!Released(r, (tasks \ S!Overdue) \cup {})
    BY <1>1
  <2>5. {} \in SUBSET S!Unused
    OBVIOUS
  <2> QED BY <1>2, <2>2, <2>3, <2>4, <2>5, ReleasedList
<1>7. faults' \in 0..MaxFaults
  BY <1>2 DEF S!AlarmForkFails, S!TypeOK
<1>8. S!TypeOK'
  BY <1>2, <1>5, <1>7 DEF S!TypeOK
<1> QED BY <1>2, <1>5, <1>6, <1>8 DEF SInv, TaskMade, ListSoFar

LEMMA StepSigchld ==
  ASSUME SInv, S!Sigchld
  PROVE  SInv'
<1> DEFINE ended == {t \in Tasks : run[t] \in {"zombie", "killed"}}
<1>1. /\ ~blocked /\ UNCHANGED <<loop, task, active, blocked, armed, reload, faults>>
      /\ run' = [t \in Tasks |-> IF t \in ended THEN "none" ELSE run[t]]
      /\ tasks' = tasks \ ended /\ aged' = aged \ ended
  BY DEF S!Sigchld, S!signals
<1>2. S!TypeOK /\ TaskMade /\ ListSoFar
  BY DEF SInv
<1>3. S!TypeOK'
  BY <1>1, <1>2 DEF S!TypeOK
<1>4. tasks = Children => tasks' = Children'
  BY <1>1 DEF Children, S!Working
<1>5. ListSoFar'
  BY <1>1, <1>2, <1>4 DEF ListSoFar, S!TypeOK
<1> QED BY <1>1, <1>2, <1>3, <1>5 DEF SInv, TaskMade

-----------------------------------------------------------------------------
(* Scheduler::run                                                          *)

LEMMA StepAccept ==
  ASSUME SInv, S!Accept
  PROVE  SInv'
<1>1. PICK t \in S!Unused : task' = t /\ run' = [run EXCEPT ![t] = "made"]
  BY DEF S!Accept
<1>2. /\ UNCHANGED <<tasks, active, blocked, armed, reload, aged, faults>>
      /\ loop = "accept" /\ loop' = "new" /\ t \in Tasks /\ run[t] = "none"
      /\ S!TypeOK /\ tasks = Children
  BY DEF S!Accept, S!In, S!signals, S!Unused, SInv, ListSoFar
<1>3. S!TypeOK'
  BY <1>1, <1>2 DEF S!TypeOK
<1>4. Children' = Children
  BY <1>1, <1>2 DEF Children, S!TypeOK, S!Working
<1> QED BY <1>1, <1>2, <1>3, <1>4 DEF SInv, TaskMade, ListSoFar

LEMMA StepForkReceiver ==
  ASSUME SInv, S!ForkReceiver
  PROVE  SInv'
<1>1. /\ UNCHANGED <<task, tasks, active, blocked, armed, reload, aged, faults>>
      /\ loop = "suspended" /\ S!TypeOK /\ task \in Tasks
      /\ (~active => tasks = Children)
  BY DEF S!ForkReceiver, S!In, S!signals, SInv, TaskMade, ListSoFar
<1>2. CASE S!Deleted
  <2>1. run' = run /\ loop' = "wild"
    BY <1>2 DEF S!ForkReceiver
  <2> QED BY <1>1, <2>1 DEF SInv, TaskMade, ListSoFar, S!TypeOK
<1>3. CASE ~S!Deleted /\ (task \in tasks \/ active)
  <2>1. run' = run /\ loop' = "forked"
    BY <1>3 DEF S!ForkReceiver
  <2> QED BY <1>1, <1>3, <2>1 DEF SInv, TaskMade, ListSoFar, S!TypeOK
<1>4. CASE ~S!Deleted /\ ~(task \in tasks \/ active)
  <2>1. loop' = "forked" /\ \E s \in S!Working : run' = [run EXCEPT ![task] = s]
    BY <1>4 DEF S!ForkReceiver, S!Working
  <2>2. PICK s \in S!Working : run' = [run EXCEPT ![task] = s]
    BY <2>1
  <2>3. S!TypeOK'
    BY <1>1, <2>1, <2>2 DEF S!TypeOK
  <2>4. Children' = Children \cup {task}
    BY <1>1, <2>2 DEF Children, S!TypeOK
  <2> QED BY <1>1, <1>4, <2>1, <2>3, <2>4 DEF SInv, TaskMade, ListSoFar
<1> QED BY <1>2, <1>3, <1>4

\* The steps of the loop that leave the tasks as they are.
LEMMA StepLoop ==
  ASSUME SInv, S!Suspend \/ S!AddReceiver \/ S!Release
  PROVE  SInv'
<1>1. UNCHANGED <<task, run, armed, reload, aged, faults>> /\ S!TypeOK /\ TaskMade /\ ListSoFar
  BY DEF S!Suspend, S!AddReceiver, S!Release, S!signals, SInv
<1>2. Children' = Children
  BY <1>1 DEF Children
<1>3. CASE S!Suspend
  BY <1>1, <1>2, <1>3 DEF S!Suspend, S!In, SInv, S!TypeOK, TaskMade, ListSoFar
<1>4. CASE S!AddReceiver
  <2>1. active' = active /\ blocked' = blocked /\ loop = "forked" /\ task \in Tasks
    BY <1>1, <1>4 DEF S!AddReceiver, S!signals, S!In, TaskMade
  <2>2. \/ task \in tasks /\ loop' = "aborted" /\ tasks' = tasks
        \/ task \notin tasks /\ loop' = "wild" /\ tasks' = tasks
        \/ task \notin tasks /\ loop' = "added" /\ tasks' = tasks \cup {task}
    BY <1>4 DEF S!AddReceiver
  <2>3. S!TypeOK'
    BY <1>1, <2>1, <2>2 DEF S!TypeOK
  <2> QED BY <1>1, <1>2, <2>1, <2>2, <2>3 DEF SInv, TaskMade, ListSoFar
<1>5. CASE S!Release
  BY <1>1, <1>2, <1>5 DEF S!Release, S!In, SInv, S!TypeOK, TaskMade, ListSoFar
<1> QED BY <1>3, <1>4, <1>5

\* The scheduler ends or aborts, or SIGHUP goes on: the tasks and signals stay.
LEMMA StepOther ==
  ASSUME MaxFaults \in Nat, SInv, S!GiveUp \/ S!AlarmAborts \/ S!Reload \/ S!ReloadFails
  PROVE  SInv'
<1>1. /\ UNCHANGED <<task, tasks, run, active, blocked, armed, aged>>
      /\ loop' \in {loop, "aborted", "ended"}
      /\ S!TypeOK /\ TaskMade /\ ListSoFar
  BY DEF S!GiveUp, S!AlarmAborts, S!Reload, S!ReloadFails, S!signals, SInv
<1>2. faults' \in 0..MaxFaults
  BY <1>1 DEF S!GiveUp, S!AlarmAborts, S!Reload, S!ReloadFails, S!TypeOK
<1>3. reload' \in {"off", "cleared", "nolists"}
  BY <1>1 DEF S!GiveUp, S!AlarmAborts, S!Reload, S!ReloadFails, S!TypeOK, S!signals
<1>4. S!TypeOK'
  BY <1>1, <1>2, <1>3 DEF S!TypeOK
<1> QED BY <1>1, <1>4 DEF SInv, TaskMade, ListSoFar, Children

LEMMA StepChild ==
  ASSUME SInv, NEW t \in Tasks, S!Ends(t) \/ S!GrowsOld(t)
  PROVE  SInv'
<1>1. /\ UNCHANGED <<loop, task, tasks, active, blocked, armed, reload, faults>>
      /\ run[t] \in S!Working /\ S!TypeOK /\ TaskMade /\ ListSoFar
      /\ run' = run \/ run' = [run EXCEPT ![t] = "zombie"]
      /\ aged' \subseteq Tasks
  BY DEF S!Ends, S!GrowsOld, S!signals, SInv, S!TypeOK
<1>2. S!TypeOK'
  BY <1>1 DEF S!TypeOK
<1>3. Children' = Children
  BY <1>1 DEF Children, S!TypeOK, S!Working
<1> QED BY <1>1, <1>2, <1>3 DEF SInv, TaskMade, ListSoFar

-----------------------------------------------------------------------------
(* The invariant                                                           *)

THEOREM SchedulerInvariant ==
  ASSUME MaxFaults \in Nat
  PROVE  S!Spec => []SInv
<1>1. S!Init => SInv
  <2> SUFFICES ASSUME S!Init PROVE SInv
    OBVIOUS
  <2>1. faults \in 0..MaxFaults
    BY DEF S!Init
  <2>2. S!TypeOK
    BY <2>1 DEF S!Init, S!TypeOK
  <2>3. Children = {}
    BY DEF S!Init, Children, S!Working
  <2> QED BY <2>2, <2>3 DEF S!Init, SInv, TaskMade, ListSoFar
<1>2. SInv /\ [S!Next]_S!vars => SInv'
  <2> SUFFICES ASSUME SInv, [S!Next]_S!vars PROVE SInv'
    OBVIOUS
  <2>1. CASE S!Next
    BY <2>1, StepAccept, StepForkReceiver, StepLoop, StepSigchld, StepAlarm,
       StepAlarmForkFails, StepOther, StepChild DEF S!Next, S!Loop
  <2>2. CASE S!vars' = S!vars
    BY <2>2 DEF S!vars, S!signals, SInv, S!TypeOK, TaskMade, ListSoFar, Children
  <2> QED BY <2>1, <2>2
<1> QED BY <1>1, <1>2, PTL DEF S!Spec

\* The variables of the scheduler have their types, and SIGCHLD is blocked from
\* suspend to release of the loop and not outside.
THEOREM SchedulerTyping ==
  ASSUME MaxFaults \in Nat
  PROVE  S!Spec => []S!TypeOK
<1>1. SInv => S!TypeOK
  BY DEF SInv
<1> QED BY <1>1, SchedulerInvariant, PTL

\* Whenever Scheduler::run waits for a connection its list holds the children that
\* were not waited for: a handler that came between fork and List::add has aborted
\* the scheduler, has made it use a task that was deleted, which is not followed any
\* further, or has left no trace.
THEOREM SchedulerListHolds ==
  ASSUME MaxFaults \in Nat
  PROVE  S!Spec => []S!ListIsChildren
<1>1. SInv => S!ListIsChildren
  BY ChildrenFact DEF SInv, ListSoFar, S!ListIsChildren
<1> QED BY <1>1, SchedulerInvariant, PTL

=============================================================================
