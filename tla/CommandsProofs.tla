--------------------------- MODULE CommandsProofs ----------------------------
(***************************************************************************)
(* Proofs about the mail commands, for any number of managers, lists,      *)
(* users and mails, and lines of any length: who may change the stores of  *)
(* a list, what is broadcast to it, and which mails are lost.              *)
(***************************************************************************)
EXTENDS Commands, WellFoundedInduction, SequenceTheorems, TLAPS

-----------------------------------------------------------------------------
(* The command of a line                                                   *)

\* A set of numbers has a smallest one.
LEMMA Smallest ==
  ASSUME NEW T \in SUBSET Nat, T # {}
  PROVE  \E m \in T : \A k \in T : m <= k
<1>1. IsWellFoundedOn(OpToRel(<, Nat), Nat)
  BY NatLessThanWellFounded, Zenon
<1>2. PICK m \in T : \A k \in T : <<k, m>> \notin OpToRel(<, Nat)
  BY <1>1, WFMin, Zenon
<1>3. \A k \in T : ~(k < m)
  BY <1>2, Zenon DEF OpToRel
<1> QED BY <1>3

\* There is no password behind the end of a line.
LEMMA OpensFact ==
  ASSUME NEW m, NEW line \in Seq(STRING), NEW i \in Nat, Opens(m, line, i)
  PROVE  i \in DOMAIN line /\ i <= Len(line) /\ line[i] = "approve"
<1>1. Word(line, i) = "approve"
  BY DEF Opens
<1>2. i \in DOMAIN line
  BY <1>1 DEF Word, NoWord
<1> QED BY <1>1, <1>2, LenProperties DEF Word

\* A line has its command behind its passwords.
LEMMA CommandAtFact ==
  ASSUME NEW m, NEW line \in Seq(STRING)
  PROVE  CommandAt(m, line) \in 1..(Len(line) + 2) /\ Behind(m, line, CommandAt(m, line))
<1> DEFINE T == {i \in Nat : i >= 1 /\ i % 2 = 1 /\ ~Opens(m, line, i)}
<1>0. Len(line) \in Nat
  BY LenProperties
<1>1. PICK n \in {Len(line) + 1, Len(line) + 2} : n % 2 = 1
  BY <1>0
<1>2. n \in T
  BY <1>0, <1>1, OpensFact
<1>3. PICK i \in T : \A k \in T : i <= k
  BY <1>2, Smallest
<1>4. i \in 1..(Len(line) + 2)
  BY <1>0, <1>1, <1>2, <1>3
<1>5. \A j \in 1..(i - 1) : j % 2 = 1 => Opens(m, line, j)
  <2> SUFFICES ASSUME NEW j \in 1..(i - 1), j % 2 = 1, ~Opens(m, line, j) PROVE FALSE
    OBVIOUS
  <2>1. j \in T /\ ~(i <= j)
    BY <1>4
  <2> QED BY <1>3, <2>1
<1>6. Behind(m, line, i)
  BY <1>3, <1>5 DEF Behind
<1> QED BY <1>4, <1>6, Zenon DEF CommandAt

\* A manager knows nothing but lists.
LEMMA KnownFact ==
  ASSUME NEW m, proc[m].set \in Settings, proc[m].knows \in 0..Len(proc[m].set.lists),
         NEW l, Known(m, l)
  PROVE  l \in Lists
<1>1. proc[m].set.lists \in Seq(Lists)
  BY CommandsAssumption DEF IsSetting
<1>2. PICK j \in 1..proc[m].knows : proc[m].set.lists[j] = l
  BY DEF Known
<1>3. j \in 1..Len(proc[m].set.lists)
  BY <1>1, LenProperties
<1> QED BY <1>1, <1>2, <1>3, ElementOfSeq

\* Results that ask for no change.
LEMMA JustFact ==
  \A what \in {"wrong", "fine", "quiet", "crash"} : Just(what).what # "change"
BY DEF Just

\* A change is asked for by a command somewhere in the line, for the list and the
\* address behind it; and when it is approved the password of the list is before it.
LEMMA ParsedFact ==
  ASSUME NEW m, NEW line \in Seq(STRING), Parsed(m, line).what = "change",
         mail[proc[m].mail].from \in People, proc[m].set \in Settings,
         proc[m].knows \in 0..Len(proc[m].set.lists)
  PROVE  LET r == Parsed(m, line) IN
         /\ r \in Request
         /\ r.cmd \in Changes /\ r.list \in Lists /\ r.user \in Addresses
         /\ \E i \in DOMAIN line :
              /\ line[i] = r.cmd /\ Word(line, i + 1) = r.list
              /\ r.user = (IF Word(line, i + 2) = NoWord THEN mail[proc[m].mail].from
                           ELSE Word(line, i + 2))
              /\ r.approved => Sealed(proc[m].set, line, i, r.list)
<1> DEFINE i == CommandAt(m, line)
           w == Word(line, i)
           r == Parsed(m, line)
<1>1. i \in 1..(Len(line) + 2) /\ Behind(m, line, i) /\ Len(line) \in Nat
  BY CommandAtFact, LenProperties
<1> HIDE DEF i
<1>2. w \in Changes /\ r = Asked(m, line, i, i > 1)
  BY JustFact DEF Parsed, i
<1>3. w # NoWord /\ i \in DOMAIN line /\ line[i] = w
  BY <1>2 DEF Changes, UserCmds, OptionCmds, SenderCmds, NoWord, Word
<1> DEFINE l == Word(line, i + 1)
           u == IF Word(line, i + 2) = NoWord THEN mail[proc[m].mail].from
                ELSE Word(line, i + 2)
<1>4. /\ Known(m, l) /\ u \in Addresses
      /\ r = [what |-> "change", cmd |-> line[i], list |-> l, user |-> u,
              approved |-> (i > 1)]
  <2>1. Asked(m, line, i, i > 1).what = "change"
    BY <1>2
  <2> QED BY <1>2, <2>1, JustFact DEF Asked
<1>5. l \in Lists
  BY <1>4, KnownFact
<1>6. /\ r.what = "change" /\ r.cmd = w /\ r.list = l /\ r.user = u /\ r.approved = (i > 1)
      /\ r \in Request
  <2>1. w \in Changes \cup {NoWord} /\ l \in Lists \cup {NoWord} /\ u \in Addresses \cup {NoWord}
        /\ (i > 1) \in BOOLEAN
    BY <1>2, <1>4, <1>5
  <2> HIDE DEF r, l, u, w
  <2> QED BY <1>3, <1>4, <2>1 DEF Request
<1>8. i > 1 => Sealed(proc[m].set, line, i, l)
  <2> SUFFICES ASSUME i > 1 PROVE Sealed(proc[m].set, line, i, l)
    OBVIOUS
  <2>1. i % 2 = 1 /\ \A j \in 1..(i - 1) : j % 2 = 1 => Opens(m, line, j)
    BY <1>1 DEF Behind
  <2>2. i - 2 \in 1..(i - 1) /\ (i - 2) % 2 = 1
    BY <1>1, <2>1
  <2>3. Opens(m, line, i - 2) /\ i > 2
    BY <1>1, <2>1, <2>2
  <2>5. (i - 2) + 1 = i - 1 /\ (i - 2) + 3 = i + 1
    BY <1>1
  <2>6. /\ Word(line, i - 2) = "approve"
        /\ l \in DOMAIN proc[m].set.pass /\ Word(line, i - 1) = proc[m].set.pass[l]
    BY <2>3, <2>5 DEF Opens, ListPassword
  <2> QED BY <2>3, <2>6 DEF Sealed
<1> HIDE DEF r, l, u, w
<1>9. r.approved => i > 1
  BY <1>6
<1> QED BY <1>2, <1>3, <1>4, <1>5, <1>6, <1>8, <1>9 DEF r, l, u

-----------------------------------------------------------------------------
(* The invariant                                                           *)

\* The message is for a list, and whoever wrote it might write to its list at some time, or was judged when a
\* table could not be read.
Warranted(x) ==
  /\ mail[x].to \in Lists /\ ~mail[x].big
  /\ \E s \in past :
       LET l == mail[x].to
           may(kind) ==
             \/ <<kind, l, mail[x].from>> \in ever
             \/ <<x, "judgement">> \in spoilt /\ <<kind, l>> \in s.tables IN
       \/ s.send[l] = "open"
       \/ s.send[l] = "sender" /\ may("senders")
       \/ s.send[l] = "subscriber" /\ may("users")

\* What must be true when message x has, or is about to get, this status.
Deserved(x, status) ==
  /\ status \in {"error", "failed"} => x \in blind
  /\ status = "done" => x \in heard \/ <<x, "data">> \in spoilt
  /\ status = "sent" => x \in heard \/ <<x, "users">> \in spoilt
  /\ status \in {"approved", "sent"} => Warranted(x)

\* A manager has a message, and knows lists of one time, that of its message among them
\* unless it is blind; the change it is about to make is one that the line at hand
\* entitles its writer to, and the status it is about to write is deserved.
Aware(m) ==
  LET r == proc[m] IN
  /\ r.mail \in Mails /\ r.set \in past
  /\ r.knows \in 0..Len(r.set.lists)
  /\ r.bare => r.mail \in blind
  /\ mail[r.mail].to # Program /\ ~Known(m, mail[r.mail].to) => r.mail \in blind

Empowered(m) ==
  LET r == proc[m] IN
  /\ r.todo.cmd \in Changes /\ r.todo.list \in Lists /\ r.todo.user \in Addresses
  /\ Entitled(r.set, NextLine(m), Mine(m).from, r.todo.list, r.todo.user)

ProcOk(m) ==
  /\ proc[m].pc # "off" => Aware(m)
  /\ proc[m].pc = "apply" => Empowered(m)
  /\ proc[m].pc = "settle" => Deserved(proc[m].mail, proc[m].out)

\* What is in a store is remembered.
EverOk ==
  \A k \in Kinds, l \in Lists, u \in Addresses : In(k, l, u) => <<k, l, u>> \in ever

IInv ==
  /\ TypeOK /\ set \in past
  /\ \A m \in Managers : ProcOk(m)
  /\ \A x \in Mails : Deserved(x, stat[x])
  /\ EverOk

\* Histories only grow.
Grows ==
  /\ mail' = mail /\ blind \subseteq blind' /\ ever \subseteq ever' /\ past \subseteq past'
  /\ heard \subseteq heard' /\ spoilt \subseteq spoilt'

\* Nothing but managers, answers, locks, faults and histories of messages changes.
Still == UNCHANGED <<mail, stat, store, sched, blind, ever>>

\* The constants, and what a message is.
LEMMA Given ==
  ASSUME TypeOK
  PROVE  /\ \A x \in Mails : /\ mail[x].to \in Lists \cup {Program}
                             /\ mail[x].from \in People
                             /\ Lines(x) \in Seq(Seq(STRING))
         /\ \A s \in Settings : Len(s.lists) \in Nat
         /\ Program \notin Lists
         /\ MaxFaults \in Nat /\ MaxReloads \in Nat
<1>1. \A s \in Settings : Len(s.lists) \in Nat
  BY CommandsAssumption, LenProperties DEF IsSetting
<1>2. ASSUME NEW x \in Mails
      PROVE  /\ mail[x].to \in Lists \cup {Program} /\ mail[x].from \in People
             /\ Lines(x) \in Seq(Seq(STRING))
  <2>1. IsMail(mail[x])
    BY CommandsAssumption DEF TypeOK
  <2>2. mail[x].subject \in Seq(Seq(STRING)) /\ mail[x].body \in Seq(Seq(STRING))
    BY <2>1 DEF IsMail
  <2>3. Lines(x) \in Seq(Seq(STRING))
    BY <2>2, ConcatProperties DEF Lines
  <2> QED BY <2>1, <2>3 DEF IsMail
<1> QED BY <1>1, <1>2, CommandsAssumption

\* A status once deserved stays so.
LEMMA StillDeserved ==
  ASSUME Grows, NEW x, NEW status, Deserved(x, status)
  PROVE  Deserved(x, status)'
<1>1. ASSUME Warranted(x) PROVE Warranted(x)'
  BY <1>1 DEF Warranted, Grows
<1> QED BY <1>1 DEF Deserved, Grows

\* A process that does not move keeps its promises.
LEMMA StillOk ==
  ASSUME Grows, NEW m \in Managers, ProcOk(m), proc'[m] = proc[m]
  PROVE  ProcOk(m)'
<1>1. NextLine(m)' = NextLine(m) /\ Mine(m)' = Mine(m)
  BY DEF NextLine, Lines, Mine, Grows
<1>2. ASSUME Aware(m) PROVE Aware(m)'
  BY <1>2 DEF Aware, Known, Grows
<1>3. ASSUME Empowered(m) PROVE Empowered(m)'
  BY <1>1, <1>3 DEF Empowered, Entitled, Sealed, Lets, Word
<1>4. PICK x, status : x = proc[m].mail /\ status = proc[m].out
  OBVIOUS
<1>5. ASSUME Deserved(x, status) PROVE Deserved(x, status)'
  BY <1>5, StillDeserved
<1>6. proc'[m].mail = x /\ proc'[m].out = status /\ proc'[m].pc = proc[m].pc
  BY <1>4
<1>7. Deserved(x, status)' => Deserved(proc[m].mail, proc[m].out)'
  BY <1>6 DEF Deserved, Warranted
<1> QED BY <1>2, <1>3, <1>4, <1>5, <1>6, <1>7 DEF ProcOk

\* A step of manager m keeps the invariant when it keeps m's promises and the types.
LEMMA ManagerStep ==
  ASSUME IInv, NEW m \in Managers, Grows, TypeOK', set' = set,
         \A q \in Managers \ {m} : proc'[q] = proc[q],
         ProcOk(m)', \A x \in Mails : stat'[x] = stat[x] \/ Deserved(x, stat[x])', EverOk'
  PROVE  IInv'
<1>1. \A q \in Managers : ProcOk(q)'
  BY StillOk DEF IInv
<1>2. ASSUME NEW x \in Mails PROVE Deserved(x, stat[x])'
  <2>1. CASE stat'[x] = stat[x]
    <3>1. PICK status : status = stat[x]
      OBVIOUS
    <3>2. Deserved(x, status)'
      BY <3>1, StillDeserved DEF IInv
    <3> QED BY <2>1, <3>1, <3>2 DEF Deserved
  <2> QED BY <2>1
<1>3. set' \in past'
  BY DEF IInv, Grows
<1> QED BY <1>1, <1>2, <1>3 DEF IInv

\* A step that changes nothing but where m is, and maybe a lock, an answer or a history.
LEMMA QuietStep ==
  ASSUME IInv, NEW m \in Managers, NEW r \in ProcType, proc' = [proc EXCEPT ![m] = r],
         Still, Grows,
         answer' \subseteq Mails, heard' \subseteq Mails,
         spoilt' \subseteq Mails \X {"data", "judgement", "users"},
         lock' \in [Mails -> Managers \cup {NoOwner}],
         faults' = faults \/ Fault,
         proc'[m] = r => ProcOk(m)'
  PROVE  IInv'
<1>1. TypeOK /\ proc'[m] = r /\ \A q \in Managers \ {m} : proc'[q] = proc[q]
  BY DEF IInv, TypeOK
<1>2. faults' \in 0..MaxFaults
  BY <1>1, Given DEF TypeOK, Fault
<1>3. proc' \in [Managers -> ProcType]
  BY <1>1 DEF TypeOK
<1>4. UNCHANGED <<mail, stat, store, set, bare, known, reloads, past, blind, ever>>
  BY DEF Still, sched
<1>5. TypeOK'
  BY <1>1, <1>2, <1>3, <1>4 DEF TypeOK
<1>6. EverOk'
  BY <1>4 DEF IInv, EverOk, In
<1> QED BY <1>1, <1>4, <1>5, <1>6, ManagerStep

\* What the invariant says of one manager.
LEMMA Knows ==
  ASSUME IInv, NEW m \in Managers
  PROVE  /\ TypeOK /\ ProcOk(m) /\ proc[m] \in ProcType /\ proc[m].set \in Settings
         /\ answer \subseteq Mails /\ heard \subseteq Mails
         /\ spoilt \subseteq Mails \X {"data", "judgement", "users"}
         /\ lock \in [Mails -> Managers \cup {NoOwner}]
         /\ \A x \in Mails : Deserved(x, stat[x])
         /\ (proc[m].pc # "off" =>
               /\ Aware(m) /\ proc[m].mail \in Mails
               /\ Mine(m).to \in Lists \cup {Program} /\ Mine(m).from \in People)
<1>1. TypeOK /\ ProcOk(m) /\ proc[m] \in ProcType
  BY DEF IInv, TypeOK
<1>2. proc[m].set \in Settings
  BY <1>1 DEF ProcType
<1>3. proc[m].pc # "off" => Aware(m) /\ proc[m].mail \in Mails
  BY <1>1 DEF ProcOk, Aware
<1> QED BY <1>1, <1>2, <1>3, Given DEF IInv, TypeOK, Mine

\* The manager goes on with its message, and has promised nothing but what it knows.
LEMMA AwareFact ==
  ASSUME NEW m \in Managers, Aware(m), Grows, NEW r,
         r.mail = proc[m].mail, r.bare = proc[m].bare, r.set = proc[m].set,
         r.knows = proc[m].knows, proc'[m] = r
  PROVE  Aware(m)'
<1>1. Known(m, mail[proc[m].mail].to)' <=> Known(m, mail[proc[m].mail].to)
  BY DEF Known, Grows
<1> QED BY <1>1 DEF Aware, Grows

LEMMA PlainOk ==
  ASSUME NEW m \in Managers, ProcOk(m), proc[m].pc # "off", Grows, NEW r,
         r.mail = proc[m].mail, r.bare = proc[m].bare, r.set = proc[m].set,
         r.knows = proc[m].knows, proc'[m] = r, r.pc \in {"judge", "line", "letter", "answer"}
  PROVE  ProcOk(m)'
<1>1. Aware(m)'
  BY AwareFact DEF ProcOk
<1> QED BY <1>1 DEF ProcOk

\* The manager has got the status for its message.
LEMMA OutcomeStep ==
  ASSUME IInv, NEW m \in Managers, proc[m].pc # "off",
         NEW out \in Live \cup Final, Outcome(m, out),
         Still, Grows, lock' = lock, answer' \subseteq Mails, heard' \subseteq Mails,
         spoilt' \subseteq Mails \X {"data", "judgement", "users"},
         faults' = faults \/ Fault,
         NEW x, x = proc[m].mail, Deserved(x, out)'
  PROVE  IInv'
<1> DEFINE r == [proc[m] EXCEPT !.pc = "settle", !.out = out]
<1>1. proc[m] \in ProcType /\ ProcOk(m) /\ lock' \in [Mails -> Managers \cup {NoOwner}]
  BY Knows
<1>2. proc' = [proc EXCEPT ![m] = r] /\ r \in ProcType
  BY <1>1 DEF Outcome, ProcType
<1>3. /\ r.pc = "settle" /\ r.out = out /\ r.mail = x /\ r.bare = proc[m].bare
      /\ r.knows = proc[m].knows /\ r.set = proc[m].set
  BY <1>1 DEF ProcType
<1> HIDE DEF r
<1>4. ASSUME proc'[m] = r PROVE ProcOk(m)'
  <2>1. Aware(m)'
    BY <1>1, <1>3, <1>4, AwareFact DEF ProcOk
  <2>2. proc'[m].mail = x /\ proc'[m].out = out /\ proc'[m].pc = "settle"
    BY <1>3, <1>4
  <2>3. Deserved(proc[m].mail, proc[m].out)'
    BY <2>2 DEF Deserved, Warranted
  <2> QED BY <2>1, <2>2, <2>3 DEF ProcOk
<1> QED BY <1>1, <1>2, <1>4, QuietStep

-----------------------------------------------------------------------------
(* Manager::start and Manager::process                                     *)

\* A manager knows the lists of its parent, which is all of them but in a reload.
LEMMA StepTake ==
  ASSUME IInv, NEW m \in Managers, Take(m)
  PROVE  IInv'
<1>1. PICK x \in Mails : TakeMail(m, x)
  BY DEF Take
<1>2. /\ lock' = [lock EXCEPT ![x] = m]
      /\ UNCHANGED <<mail, stat, answer, store, set, bare, known, reloads, past, faults,
                     ever, heard, spoilt>>
      /\ TypeOK /\ set \in past /\ set \in Settings /\ bare \in BOOLEAN
      /\ known \in 0..Len(set.lists)
  BY <1>1 DEF TakeMail, sched, notes, IInv, TypeOK
<1>3. /\ blind \subseteq blind' /\ blind' \subseteq Mails
      /\ \/ bare \/ known < Len(set.lists)
         \/ mail[x].to \notin ToSet(set.lists) \cup {Program}
         => x \in blind'
  BY <1>1, <1>2 DEF TakeMail, TypeOK
<1> DEFINE r == [Off EXCEPT !.pc = "judge", !.mail = x, !.set = set, !.bare = bare, !.knows = known]
<1>4. /\ r \in ProcType /\ r.pc = "judge" /\ r.mail = x /\ r.set = set /\ r.bare = bare
      /\ r.knows = known
  <2>1. known \in Nat
    BY <1>2, Given
  <2>2. Just("fine") \in Request /\ "done" \in Live \cup Final
    BY DEF Just, Request, Final
  <2>3. Off.todo = Just("fine") /\ Off.out = "done"
    BY DEF Off
  <2> QED BY <1>2, <2>1, <2>2, <2>3 DEF Off, ProcType
<1>5. proc' = [proc EXCEPT ![m] = r]
  BY <1>1 DEF TakeMail
<1> HIDE DEF r
<1>6. proc'[m] = r /\ proc' \in [Managers -> ProcType] /\ \A q \in Managers \ {m} : proc'[q] = proc[q]
  BY <1>2, <1>4, <1>5 DEF TypeOK
<1>7. TypeOK' /\ Grows
  BY <1>2, <1>3, <1>6 DEF TypeOK, Grows
<1>8. ProcOk(m)'
  <2>1. ASSUME mail[x].to # Program, x \notin blind' PROVE Known(m, mail[x].to)'
    <3>1. mail[x].to \in ToSet(set.lists) /\ ~(known < Len(set.lists))
      BY <1>3, <2>1
    <3>2. PICK j \in DOMAIN set.lists : set.lists[j] = mail[x].to
      BY <3>1 DEF ToSet
    <3>3. set.lists \in Seq(Lists)
      BY <1>2, CommandsAssumption DEF IsSetting
    <3>4. DOMAIN set.lists = 1..Len(set.lists) /\ Len(set.lists) \in Nat
      BY <3>3, LenProperties
    <3>5. j \in 1..known
      BY <1>2, <3>1, <3>2, <3>4
    <3> QED BY <1>2, <1>4, <1>6, <3>2, <3>5 DEF Known
  <2>2. Aware(m)'
    BY <1>2, <1>3, <1>4, <1>6, <2>1 DEF Aware
  <2> QED BY <1>4, <1>6, <2>2 DEF ProcOk
<1>9. EverOk'
  BY <1>2 DEF IInv, EverOk, In
<1> QED BY <1>2, <1>6, <1>7, <1>8, <1>9, ManagerStep

\* What the actions between taking and settling a message leave alone.
LEMMA StillFact ==
  ASSUME NEW m,
         \/ NotOurs(m) \/ Open(m) \/ OpenFails(m) \/ Weigh(m) \/ WeighFails(m) \/ Cast(m)
         \/ CastFails(m) \/ EndOfMail(m) \/ PlainLine(m) \/ ChangeLine(m) \/ ApplyFails(m)
         \/ Letter(m) \/ Answer(m)
  PROVE  Still /\ lock' = lock /\ proc[m].pc # "off" /\ (faults' = faults \/ Fault)
BY DEF NotOurs, Open, OpenFails, Weigh, WeighFails, Cast, CastFails, EndOfMail, PlainLine,
   ChangeLine, ApplyFails, Letter, Answer, Spoils, Still, spool, notes, Judging, At

\* A status that asks for nothing is always deserved.
LEMMA FreeStatus ==
  ASSUME NEW x
  PROVE  Deserved(x, "rejected") /\ Deserved(x, "received")
BY DEF Deserved

LEMMA StepNotOurs ==
  ASSUME IInv, NEW m \in Managers, NotOurs(m)
  PROVE  IInv'
<1>1. PICK x : x = proc[m].mail
  OBVIOUS
<1>2. /\ Outcome(m, "error") /\ Grows
      /\ UNCHANGED <<answer, blind, heard, spoilt>>
  BY DEF NotOurs, spool, notes, sched, Grows
<1>3. Still /\ lock' = lock /\ proc[m].pc # "off" /\ (faults' = faults \/ Fault)
  BY StillFact
<1>4. x \in blind
  BY <1>1, <1>3, Knows DEF NotOurs, Aware, Mine
<1>5. Deserved(x, "error")'
  BY <1>2, <1>4 DEF Deserved
<1>6. "error" \in Live \cup Final
  BY DEF Final
<1>7. answer \subseteq Mails /\ heard \subseteq Mails
      /\ spoilt \subseteq Mails \X {"data", "judgement", "users"}
  BY Knows
<1> QED BY <1>1, <1>2, <1>3, <1>5, <1>6, <1>7, OutcomeStep

\* Something could not be read, and the message has its status all the same.
LEMMA SpoiltStep ==
  ASSUME IInv, NEW m \in Managers, proc[m].pc # "off", NEW what \in {"data", "judgement", "users"},
         Spoils(m, what), NEW out \in Live \cup Final, Outcome(m, out),
         NEW x, x = proc[m].mail,
         Grows /\ <<x, what>> \in spoilt' => Deserved(x, out)'
  PROVE  IInv'
<1>1. /\ Still /\ lock' = lock /\ (faults' = faults \/ Fault)
      /\ UNCHANGED <<mail, answer, blind, ever, heard, past>>
      /\ spoilt' = spoilt \cup {<<x, what>>}
  BY DEF Spoils, spool, sched, Still
<1>2. /\ x \in Mails /\ answer \subseteq Mails /\ heard \subseteq Mails
      /\ spoilt \subseteq Mails \X {"data", "judgement", "users"}
  BY Knows
<1>3. spoilt' \subseteq Mails \X {"data", "judgement", "users"}
  BY <1>1, <1>2
<1>4. Grows
  BY <1>1 DEF Grows
<1>5. <<x, what>> \in spoilt'
  BY <1>1
<1> QED BY <1>1, <1>2, <1>3, <1>4, <1>5, OutcomeStep

LEMMA StepOpenFails ==
  ASSUME IInv, NEW m \in Managers, OpenFails(m)
  PROVE  IInv'
<1>1. PICK x : x = proc[m].mail
  OBVIOUS
<1>2. /\ proc[m].pc # "off" /\ Outcome(m, "done") /\ Spoils(m, "data")
      /\ "done" \in Live \cup Final
  BY DEF OpenFails, Judging, At, Final
<1>3. Grows /\ <<x, "data">> \in spoilt' => Deserved(x, "done")'
  BY DEF Deserved
<1> QED BY <1>1, <1>2, <1>3, SpoiltStep

\* Who is authorised is, or was, in the store the list demands.
LEMMA AuthorisedFact ==
  ASSUME IInv, NEW m \in Managers, proc[m].pc # "off",
         NEW x, x = proc[m].mail, ~mail[x].big, Known(m, mail[x].to),
         Authorised(m, mail[x].to, mail[x].from)
  PROVE  Warranted(x)
<1>1. PICK s, l, u : s = proc[m].set /\ l = mail[x].to /\ u = mail[x].from
  OBVIOUS
<1>2. /\ s \in Settings /\ s \in past /\ l \in Lists /\ u \in Addresses /\ EverOk
  BY <1>1, Knows, KnownFact DEF Aware, Mine, Addresses, IInv
<1>3. s.send[l] \in SendPolicy
  BY <1>2, CommandsAssumption DEF IsSetting
<1>4. CASE s.send[l] = "closed"
  BY <1>1, <1>4 DEF Authorised
<1>5. CASE s.send[l] = "open"
  BY <1>1, <1>2, <1>5 DEF Warranted
<1>6. CASE s.send[l] = "sender"
  <2>1. Asks(m, l) = {"senders"}
    BY <1>1, <1>6 DEF Asks
  <2>2. In("senders", l, u)
    BY <1>1, <2>1 DEF Authorised
  <2>3. <<"senders", l, u>> \in ever
    BY <1>2, <2>2 DEF EverOk, Kinds
  <2> QED BY <1>1, <1>2, <1>6, <2>3 DEF Warranted
<1>7. CASE s.send[l] = "subscriber"
  <2>1. Asks(m, l) = {"users"}
    BY <1>1, <1>7 DEF Asks
  <2>2. In("users", l, u)
    BY <1>1, <2>1 DEF Authorised
  <2>3. <<"users", l, u>> \in ever
    BY <1>2, <2>2 DEF EverOk, Kinds
  <2> QED BY <1>1, <1>2, <1>7, <2>3 DEF Warranted
<1> QED BY <1>3, <1>4, <1>5, <1>6, <1>7 DEF SendPolicy

LEMMA StepWeigh ==
  ASSUME IInv, NEW m \in Managers, Weigh(m)
  PROVE  IInv'
<1>1. PICK x : x = proc[m].mail
  OBVIOUS
<1>2. /\ Known(m, mail[x].to) /\ Grows
      /\ Approve(m, ~mail[x].big /\ Authorised(m, mail[x].to, mail[x].from))
      /\ UNCHANGED <<answer, blind, heard, spoilt>>
  BY <1>1 DEF Weigh, Mine, spool, sched, notes, Grows
<1>3. Still /\ lock' = lock /\ proc[m].pc # "off" /\ (faults' = faults \/ Fault)
  BY StillFact
<1>4. /\ {"approved", "rejected"} \subseteq Live \cup Final
      /\ answer \subseteq Mails /\ heard \subseteq Mails
      /\ spoilt \subseteq Mails \X {"data", "judgement", "users"}
  BY Knows DEF Live, Final
<1>5. CASE ~mail[x].big /\ Authorised(m, mail[x].to, mail[x].from)
  <2>1. Deserved(x, "approved")
    BY <1>1, <1>2, <1>3, <1>5, AuthorisedFact DEF Deserved
  <2>2. Deserved(x, "approved")'
    BY <1>2, <2>1, StillDeserved
  <2>3. Outcome(m, "approved")
    BY <1>2, <1>5 DEF Approve
  <2> QED BY <1>1, <1>2, <1>3, <1>4, <2>2, <2>3, OutcomeStep
<1>6. CASE ~(~mail[x].big /\ Authorised(m, mail[x].to, mail[x].from))
  <2>1. Outcome(m, "rejected")
    BY <1>2, <1>6 DEF Approve
  <2>2. Deserved(x, "rejected")'
    BY DEF Deserved
  <2> QED BY <1>1, <1>2, <1>3, <1>4, <2>1, <2>2, OutcomeStep
<1> QED BY <1>5, <1>6

LEMMA StepWeighFails ==
  ASSUME IInv, NEW m \in Managers, WeighFails(m)
  PROVE  IInv'
<1>1. PICK x, s, l : x = proc[m].mail /\ s = proc[m].set /\ l = mail[x].to
  OBVIOUS
<1>2. PICK kind \in Asks(m, l) : \E found \in Misread(m, kind, l) : Approve(m, found)
  BY <1>1 DEF WeighFails, Mine
<1>3. PICK found \in Misread(m, kind, l) : Approve(m, found)
  BY <1>2
<1>4. /\ proc[m].pc # "off" /\ Spoils(m, "judgement") /\ ~mail[x].big
      /\ {"approved", "rejected"} \subseteq Live \cup Final
  BY <1>1 DEF WeighFails, Mine, Judging, At, Live, Final
<1>5. s \in past
  BY <1>1, <1>4, Knows DEF Aware
<1>9. l \in Lists
  BY <1>1, <1>4, Knows, KnownFact DEF WeighFails, Aware, Mine
<1>6. CASE found = FALSE
  <2>1. Outcome(m, "rejected")
    BY <1>3, <1>6 DEF Approve
  <2>2. Deserved(x, "rejected")'
    BY DEF Deserved
  <2> QED BY <1>1, <1>4, <2>1, <2>2, SpoiltStep
<1>7. CASE found = TRUE
  <2>1. Outcome(m, "approved")
    BY <1>3, <1>7 DEF Approve
  <2>2. <<kind, l>> \in s.tables
    BY <1>1, <1>3, <1>7 DEF Misread
  <2>3. \/ s.send[l] = "subscriber" /\ kind = "users"
        \/ s.send[l] = "sender" /\ kind = "senders"
    <3>1. CASE s.send[l] = "subscriber"
      <4>1. Asks(m, l) = {"users"}
        BY <1>1, <3>1 DEF Asks
      <4>2. kind = "users"
        BY <1>2, <4>1
      <4> QED BY <3>1, <4>2
    <3>2. CASE s.send[l] = "sender"
      <4>1. Asks(m, l) = {"senders"}
        BY <1>1, <3>2 DEF Asks
      <4> QED BY <1>2, <3>2, <4>1
    <3>3. CASE s.send[l] \notin {"subscriber", "sender"}
      <4>1. Asks(m, l) = {}
        BY <1>1, <3>3 DEF Asks
      <4> QED BY <1>2, <4>1
    <3> QED BY <3>1, <3>2, <3>3
  <2>4. ASSUME Grows, <<x, "judgement">> \in spoilt' PROVE Deserved(x, "approved")'
    <3>1. mail' = mail /\ s \in past'
      BY <1>5, <2>4 DEF Grows
    <3>2. Warranted(x)'
      BY <1>1, <1>4, <1>9, <2>2, <2>3, <2>4, <3>1 DEF Warranted
    <3> QED BY <3>2 DEF Deserved
  <2> QED BY <1>1, <1>4, <2>1, <2>4, SpoiltStep
<1>8. found \in BOOLEAN
  BY <1>3 DEF Misread
<1> QED BY <1>6, <1>7, <1>8

LEMMA StepCast ==
  ASSUME IInv, NEW m \in Managers, Cast(m)
  PROVE  IInv'
<1>1. PICK x : x = proc[m].mail
  OBVIOUS
<1>2. /\ stat[x] = "approved" /\ x \in Mails /\ Aware(m) /\ Deserved(x, "approved")
      /\ answer \subseteq Mails /\ heard \subseteq Mails
      /\ spoilt \subseteq Mails \X {"data", "judgement", "users"}
  <2>1. stat[x] = "approved" /\ proc[m].pc # "off"
    BY <1>1 DEF Cast, Judging, At
  <2>2. x \in Mails /\ \A y \in Mails : Deserved(y, stat[y])
    BY <1>1, <2>1, Knows
  <2>3. Deserved(x, "approved")
    BY <2>1, <2>2
  <2> QED BY <1>1, <2>1, <2>2, <2>3, Knows
<1>3. /\ Still /\ lock' = lock /\ proc[m].pc # "off" /\ (faults' = faults \/ Fault)
      /\ UNCHANGED <<answer, blind, spoilt>>
  BY StillFact DEF Cast, spool
<1>4. {"sent", "failed"} \subseteq Live \cup Final
  BY DEF Final
<1>5. CASE Known(m, mail[x].to) /\ Outcome(m, "sent") /\ heard' = heard \cup {x}
  <2>1. Grows
    BY <1>3, <1>5 DEF Grows, Still, sched
  <2>2. Deserved(x, "approved")'
    BY <1>2, <2>1, StillDeserved
  <2>3. Deserved(x, "sent")'
    BY <1>5, <2>2 DEF Deserved
  <2>4. heard' \subseteq Mails
    BY <1>2, <1>5
  <2> QED BY <1>1, <1>2, <1>3, <1>4, <1>5, <2>1, <2>3, <2>4, OutcomeStep
<1>6. CASE ~Known(m, mail[x].to) /\ Outcome(m, "failed") /\ UNCHANGED heard
  <2>1. Grows
    BY <1>3, <1>6 DEF Grows, Still, sched
  <2>2. mail[x].to # Program
    <3>1. mail[x].to \in Lists
      BY <1>2 DEF Deserved, Warranted
    <3>2. Program \notin Lists
      BY Knows, Given
    <3> QED BY <3>1, <3>2
  <2>3. x \in blind
    BY <1>1, <1>2, <1>6, <2>2 DEF Aware
  <2>4. Deserved(x, "failed")'
    BY <1>3, <2>3 DEF Deserved
  <2> QED BY <1>1, <1>2, <1>3, <1>4, <1>6, <2>1, <2>4, OutcomeStep
<1> QED BY <1>1, <1>5, <1>6 DEF Cast, Mine

LEMMA StepCastFails ==
  ASSUME IInv, NEW m \in Managers, CastFails(m)
  PROVE  IInv'
<1>1. PICK x : x = proc[m].mail
  OBVIOUS
<1>2. /\ proc[m].pc # "off" /\ Outcome(m, "sent") /\ Spoils(m, "users")
      /\ "sent" \in Live \cup Final /\ stat[x] = "approved"
  BY <1>1 DEF CastFails, Judging, At, Final
<1>3. Deserved(x, "approved")
  <2>1. x \in Mails /\ \A y \in Mails : Deserved(y, stat[y])
    BY <1>1, <1>2, Knows
  <2> QED BY <1>2, <2>1
<1>4. ASSUME Grows, <<x, "users">> \in spoilt' PROVE Deserved(x, "sent")'
  <2>1. Deserved(x, "approved")'
    BY <1>3, <1>4, StillDeserved
  <2> QED BY <1>4, <2>1 DEF Deserved
<1> QED BY <1>1, <1>2, <1>4, SpoiltStep

-----------------------------------------------------------------------------
(* Message::generateAnswer                                                 *)

\* Where a manager is when it has read a line.
LEMMA LineFact ==
  ASSUME NEW m \in Managers, proc[m] \in ProcType, proc[m].pc # "off",
         Wrong(m) \/ Right(m, TRUE) \/ Right(m, FALSE)
  PROVE  \E r \in ProcType :
           /\ proc' = [proc EXCEPT ![m] = r]
           /\ r.pc \in {"line", "answer"} /\ r.mail = proc[m].mail
           /\ r.bare = proc[m].bare /\ r.knows = proc[m].knows
           /\ r.set = proc[m].set
<1>1. PICK todo \in Request : todo = Just("fine")
  BY DEF Just, Request
<1>2. PICK at \in Nat, more \in Nat : at = proc[m].at + 1 /\ more = proc[m].errs + 1
  <2>1. proc[m].at \in Nat /\ proc[m].errs \in Nat
    BY Zenon DEF ProcType
  <2>2. proc[m].at + 1 \in Nat /\ proc[m].errs + 1 \in Nat
    BY <2>1
  <2> QED BY <2>2
<1>3. \E s \in {"line", "answer"}, errs \in Nat, q \in BOOLEAN :
        proc' = [proc EXCEPT ![m] = [@ EXCEPT !.at = at, !.errs = errs, !.quiet = q,
                                              !.todo = todo, !.pc = s]]
  <2>0. PICK p \in ProcType : p = proc[m]
    OBVIOUS
  <2>1. CASE Wrong(m)
    <3>1. PICK s \in {"line", "answer"} :
            proc' = [proc EXCEPT ![m].at = @ + 1, ![m].errs = @ + 1, ![m].todo = Just("fine"),
                                 ![m].pc = s]
      BY <2>1 DEF Wrong
    <3>2. proc' = [proc EXCEPT ![m] = [p EXCEPT !.at = at, !.errs = more, !.todo = todo,
                                                !.pc = s]]
      BY <1>1, <1>2, <2>0, <3>1
    <3>3. [p EXCEPT !.at = at, !.errs = more, !.todo = todo, !.pc = s]
            = [p EXCEPT !.at = at, !.errs = more, !.quiet = p.quiet, !.todo = todo, !.pc = s]
      BY DEF ProcType
    <3>4. p.quiet \in BOOLEAN
      BY DEF ProcType
    <3> QED BY <2>0, <3>2, <3>3, <3>4
  <2>2. ASSUME NEW quiet \in BOOLEAN, Right(m, quiet)
        PROVE  \E q \in BOOLEAN :
                 proc' = [proc EXCEPT ![m] = [@ EXCEPT !.at = at, !.errs = p.errs, !.quiet = q,
                                                       !.todo = todo, !.pc = "line"]]
    <3>1. PICK q \in BOOLEAN :
            proc' = [proc EXCEPT ![m].at = @ + 1, ![m].quiet = q, ![m].todo = Just("fine"),
                                 ![m].pc = "line"]
      BY <2>2 DEF Right
    <3>2. proc' = [proc EXCEPT ![m] = [p EXCEPT !.at = at, !.quiet = q, !.todo = todo,
                                                !.pc = "line"]]
      BY <1>1, <1>2, <2>0, <3>1
    <3>3. [p EXCEPT !.at = at, !.quiet = q, !.todo = todo, !.pc = "line"]
            = [p EXCEPT !.at = at, !.errs = p.errs, !.quiet = q, !.todo = todo, !.pc = "line"]
      BY DEF ProcType
    <3> QED BY <2>0, <3>2, <3>3
  <2>3. p.errs \in Nat
    BY DEF ProcType
  <2>4. CASE Right(m, TRUE) \/ Right(m, FALSE)
    BY <2>2, <2>3, <2>4
  <2> QED BY <2>1, <2>4
<1>4. PICK s \in {"line", "answer"}, errs \in Nat, q \in BOOLEAN :
        proc' = [proc EXCEPT ![m] = [@ EXCEPT !.at = at, !.errs = errs, !.quiet = q,
                                              !.todo = todo, !.pc = s]]
  BY <1>3
<1> DEFINE r == [proc[m] EXCEPT !.at = at, !.errs = errs, !.quiet = q, !.todo = todo, !.pc = s]
<1>5. /\ r \in ProcType /\ r.pc = s /\ r.mail = proc[m].mail
      /\ r.bare = proc[m].bare /\ r.knows = proc[m].knows /\ r.set = proc[m].set
  BY DEF ProcType
<1>6. proc' = [proc EXCEPT ![m] = r]
  BY <1>4
<1> HIDE DEF r
<1> QED BY <1>5, <1>6

\* A manager goes on with its message, and has changed nothing.
LEMMA MoveStep ==
  ASSUME IInv, NEW m \in Managers, proc[m].pc # "off",
         NEW r \in ProcType, proc' = [proc EXCEPT ![m] = r],
         r.pc \in {"line", "answer"}, r.mail = proc[m].mail, r.set = proc[m].set,
         r.bare = proc[m].bare, r.knows = proc[m].knows,
         Still, lock' = lock, UNCHANGED <<answer, notes>>, faults' = faults \/ Fault
  PROVE  IInv'
<1>1. /\ ProcOk(m) /\ answer' \subseteq Mails /\ heard' \subseteq Mails
      /\ spoilt' \subseteq Mails \X {"data", "judgement", "users"}
      /\ lock' \in [Mails -> Managers \cup {NoOwner}] /\ Grows
  BY Knows DEF notes, Grows, Still, sched
<1>2. proc'[m] = r => ProcOk(m)'
  BY <1>1, PlainOk
<1> QED BY <1>1, <1>2, QuietStep

LEMMA LineStep ==
  ASSUME IInv, NEW m \in Managers, proc[m].pc # "off",
         Wrong(m) \/ Right(m, TRUE) \/ Right(m, FALSE),
         Still, lock' = lock, UNCHANGED <<answer, notes>>, faults' = faults \/ Fault
  PROVE  IInv'
<1>1. PICK r \in ProcType :
        /\ proc' = [proc EXCEPT ![m] = r]
        /\ r.pc \in {"line", "answer"} /\ r.mail = proc[m].mail
        /\ r.bare = proc[m].bare /\ r.knows = proc[m].knows /\ r.set = proc[m].set
  BY Knows, LineFact
<1> QED BY <1>1, MoveStep

\* Only the step of the code changes.
LEMMA PcStep ==
  ASSUME IInv, NEW m \in Managers, proc[m].pc # "off",
         NEW s \in {"line", "answer"}, proc' = [proc EXCEPT ![m].pc = s],
         Still, lock' = lock, UNCHANGED <<answer, notes>>, faults' = faults \/ Fault
  PROVE  IInv'
<1> DEFINE r == [proc[m] EXCEPT !.pc = s]
<1>1. proc[m] \in ProcType
  BY Knows
<1>2. /\ proc' = [proc EXCEPT ![m] = r] /\ r \in ProcType
      /\ r.pc = s /\ r.mail = proc[m].mail /\ r.bare = proc[m].bare /\ r.knows = proc[m].knows
      /\ r.set = proc[m].set
  BY <1>1 DEF ProcType
<1> HIDE DEF r
<1> QED BY <1>2, MoveStep

LEMMA StepLine ==
  ASSUME IInv, NEW m \in Managers,
         Open(m) \/ EndOfMail(m) \/ PlainLine(m) \/ ApplyFails(m) \/ Letter(m)
  PROVE  IInv'
<1>1. Still /\ lock' = lock /\ proc[m].pc # "off" /\ (faults' = faults \/ Fault)
  BY StillFact
<1>2. UNCHANGED <<answer, notes>>
  BY DEF Open, EndOfMail, PlainLine, ApplyFails, Letter, spool, notes
<1>3. CASE Open(m)
  <2>1. proc' = [proc EXCEPT ![m].pc = "line"]
    BY <1>3 DEF Open
  <2> QED BY <1>1, <1>2, <2>1, PcStep
<1>4. CASE EndOfMail(m)
  <2>1. proc' = [proc EXCEPT ![m].pc = "answer"]
    BY <1>4 DEF EndOfMail
  <2> QED BY <1>1, <1>2, <2>1, PcStep
<1>5. CASE PlainLine(m)
  <2>1. Wrong(m) \/ Right(m, TRUE) \/ Right(m, FALSE)
    BY <1>5 DEF PlainLine
  <2> QED BY <1>1, <1>2, <2>1, LineStep
<1>6. CASE ApplyFails(m)
  BY <1>1, <1>2, <1>6, LineStep DEF ApplyFails
<1>7. CASE Letter(m)
  BY <1>1, <1>2, <1>7, LineStep DEF Letter
<1> QED BY <1>3, <1>4, <1>5, <1>6, <1>7

LEMMA StepAnswer ==
  ASSUME IInv, NEW m \in Managers, Answer(m)
  PROVE  IInv'
<1>1. PICK x : x = proc[m].mail
  OBVIOUS
<1>2. /\ Still /\ lock' = lock /\ proc[m].pc # "off" /\ (faults' = faults \/ Fault)
      /\ Outcome(m, "done") /\ UNCHANGED <<blind, ever, spoilt>>
      /\ heard' = heard \cup {x} /\ answer' \in {answer, answer \cup {x}}
  BY <1>1, StillFact DEF Answer
<1>3. /\ x \in Mails /\ answer' \subseteq Mails /\ heard' \subseteq Mails
      /\ spoilt' \subseteq Mails \X {"data", "judgement", "users"} /\ "done" \in Live \cup Final
  BY <1>1, <1>2, Knows DEF Final
<1>4. Grows
  BY <1>2 DEF Grows, Still, sched
<1>5. Deserved(x, "done")'
  BY <1>2 DEF Deserved
<1> QED BY <1>1, <1>2, <1>3, <1>4, <1>5, OutcomeStep

\* The line that a manager reads, when there is one.
LEMMA NextLineFact ==
  ASSUME IInv, NEW m \in Managers, proc[m].pc # "off", ~NoMore(m)
  PROVE  NextLine(m) \in Seq(STRING)
<1>1. /\ proc[m].mail \in Mails /\ proc[m].at \in Nat
      /\ Lines(proc[m].mail) \in Seq(Seq(STRING))
      /\ proc[m].at < Len(Lines(proc[m].mail))
  <2>1. proc[m].at \in Nat
    BY Knows, Zenon DEF ProcType
  <2> QED BY <2>1, Knows, Given DEF NoMore
<1>2. proc[m].at + 1 \in 1..Len(Lines(proc[m].mail))
  BY <1>1, LenProperties
<1> QED BY <1>1, <1>2, ElementOfSeq DEF NextLine

\* What the policy of a list permits, with or without a password, is what the line
\* entitles its writer to.
LEMMA EntitledFact ==
  ASSUME IInv, NEW m \in Managers, proc[m].pc # "off", ~NoMore(m),
         NEW r, r = Parsed(m, NextLine(m)), r.what = "change", Permitted(m, r)
  PROVE  /\ r \in Request /\ r.cmd \in Changes
         /\ r.list \in Lists /\ r.user \in Addresses
         /\ Entitled(proc[m].set, NextLine(m), Mine(m).from, r.list, r.user)
<1>1. PICK line, s, u, l : line = NextLine(m) /\ s = proc[m].set /\ u = Mine(m).from /\ l = r.list
  OBVIOUS
<1>2. /\ u = mail[proc[m].mail].from /\ u \in People /\ s \in Settings /\ line \in Seq(STRING)
      /\ proc[m].knows \in 0..Len(s.lists)
  BY <1>1, Knows, NextLineFact DEF Mine, Aware
<1>3. /\ r \in Request /\ r.cmd \in Changes /\ l \in Lists /\ r.user \in Addresses
      /\ \E i \in DOMAIN line :
           /\ line[i] = r.cmd /\ Word(line, i + 1) = l
           /\ r.user = (IF Word(line, i + 2) = NoWord THEN u ELSE Word(line, i + 2))
           /\ r.approved => Sealed(s, line, i, l)
  BY <1>1, <1>2, ParsedFact
<1>4. PICK i \in DOMAIN line :
        /\ line[i] = r.cmd /\ Word(line, i + 1) = l
        /\ r.user = (IF Word(line, i + 2) = NoWord THEN u ELSE Word(line, i + 2))
        /\ r.approved => Sealed(s, line, i, l)
  BY <1>3
<1>5. /\ r.cmd = "add" => Lets(s.add[l], u, r.user, Sealed(s, line, i, l))
      /\ r.cmd = "del" => Lets(s.del[l], u, r.user, Sealed(s, line, i, l))
  <2> SUFFICES ASSUME r.cmd \in UserCmds
               PROVE  Lets(Policy(m, r), u, r.user, Sealed(s, line, i, l))
    BY <1>1 DEF Policy, UserCmds
  <2>1. r.cmd \notin OptionCmds /\ r.cmd \notin SenderCmds
    BY DEF UserCmds, OptionCmds, SenderCmds
  <2>2. /\ Policy(m, r) # "closed" /\ (r.approved \/ Policy(m, r) # "approve")
        /\ (r.approved \/ Policy(m, r) # "open" \/ r.user = u)
    BY <1>2, <2>1 DEF Permitted
  <2>3. Policy(m, r) \in JoinPolicy
    BY <1>1, <1>2, <1>3, CommandsAssumption DEF IsSetting, Policy
  <2> QED BY <1>4, <2>2, <2>3 DEF Lets, JoinPolicy
<1>6. r.cmd \in SenderCmds => Sealed(s, line, i, l)
  <2> SUFFICES ASSUME r.cmd \in SenderCmds PROVE r.approved
    BY <1>4
  <2>1. r.cmd \notin OptionCmds
    BY DEF OptionCmds, SenderCmds
  <2> QED BY <2>1 DEF Permitted
<1>7. \/ line[i] = "add" /\ Lets(s.add[l], u, r.user, Sealed(s, line, i, l))
      \/ line[i] = "del" /\ Lets(s.del[l], u, r.user, Sealed(s, line, i, l))
      \/ line[i] \in SenderCmds /\ Sealed(s, line, i, l)
      \/ line[i] \in OptionCmds
  BY <1>3, <1>4, <1>5, <1>6 DEF Changes, UserCmds
<1>8. Entitled(s, line, u, l, r.user)
  BY <1>4, <1>7 DEF Entitled
<1> QED BY <1>1, <1>3, <1>8

LEMMA StepChangeLine ==
  ASSUME IInv, NEW m \in Managers, ChangeLine(m)
  PROVE  IInv'
<1>1. PICK r : r = Parsed(m, NextLine(m))
  OBVIOUS
<1>2. /\ Still /\ lock' = lock /\ proc[m].pc # "off" /\ (faults' = faults \/ Fault)
      /\ ~NoMore(m) /\ r.what = "change" /\ UNCHANGED <<answer, notes>>
  BY <1>1, StillFact DEF ChangeLine, spool, notes
<1>3. \E found : Decide(m, r, found)
  BY <1>1 DEF ChangeLine
<1>4. \/ Permitted(m, r) /\ proc' = [proc EXCEPT ![m].pc = "apply", ![m].todo = r]
      \/ Wrong(m)
  BY <1>3 DEF Decide
<1>5. CASE Wrong(m)
  BY <1>2, <1>5, LineStep
<1>6. CASE Permitted(m, r) /\ proc' = [proc EXCEPT ![m].pc = "apply", ![m].todo = r]
  <2> DEFINE p == [proc[m] EXCEPT !.pc = "apply", !.todo = r]
  <2>1. /\ r \in Request /\ r.cmd \in Changes /\ r.list \in Lists /\ r.user \in Addresses
        /\ Entitled(proc[m].set, NextLine(m), Mine(m).from, r.list, r.user)
    BY <1>1, <1>2, <1>6, EntitledFact
  <2>2. /\ proc[m] \in ProcType /\ Aware(m) /\ answer' \subseteq Mails /\ heard' \subseteq Mails
        /\ spoilt' \subseteq Mails \X {"data", "judgement", "users"}
        /\ lock' \in [Mails -> Managers \cup {NoOwner}] /\ Grows
    BY <1>2, Knows DEF notes, Grows, Still, sched
  <2>3. /\ p \in ProcType /\ p.pc = "apply" /\ p.todo = r /\ p.mail = proc[m].mail
        /\ p.bare = proc[m].bare /\ p.knows = proc[m].knows /\ p.at = proc[m].at
        /\ p.set = proc[m].set
    BY <2>1, <2>2 DEF ProcType
  <2>4. proc' = [proc EXCEPT ![m] = p]
    BY <1>6
  <2> HIDE DEF p
  <2>5. ASSUME proc'[m] = p PROVE ProcOk(m)'
    <3>1. NextLine(m)' = NextLine(m) /\ Mine(m)' = Mine(m)
      BY <2>2, <2>3, <2>5 DEF NextLine, Lines, Mine, Grows
    <3>2. Aware(m)'
      BY <2>2, <2>3, <2>5, AwareFact
    <3>3. PICK s, line, u : s = proc[m].set /\ line = NextLine(m) /\ u = Mine(m).from
      OBVIOUS
    <3>4. Entitled(s, line, u, r.list, r.user)
      BY <2>1, <3>3
    <3>5. proc'[m].set = s /\ NextLine(m)' = line /\ Mine(m)'.from = u /\ proc'[m].todo = r
      BY <2>3, <2>5, <3>1, <3>3
    <3>6. Empowered(m)'
      BY <2>1, <3>4, <3>5 DEF Empowered, Entitled, Sealed, Lets, Word
    <3> QED BY <2>3, <2>5, <3>2, <3>6 DEF ProcOk
  <2> QED BY <1>2, <2>2, <2>3, <2>4, <2>5, QuietStep
<1> QED BY <1>4, <1>5, <1>6

\* The change is made, and whoever is put into a store is remembered.
LEMMA StepApply ==
  ASSUME IInv, NEW m \in Managers, Apply(m)
  PROVE  IInv'
<1>1. PICK r : r = proc[m].todo
  OBVIOUS
<1>2. /\ proc[m].pc = "apply" /\ proc[m].pc # "off" /\ TypeOK /\ ProcOk(m) /\ Empowered(m)
      /\ EverOk /\ proc[m] \in ProcType
      /\ UNCHANGED <<mail, stat, lock, answer, set, bare, known, reloads, past, faults, blind,
                     heard, spoilt>>
  BY Knows DEF Apply, At, spool, sched, IInv, ProcOk
<1>3. PICK k \in Kinds, l \in Lists, u \in Addresses :
        k = Kind(r.cmd) /\ l = r.list /\ u = r.user
  <2>1. r.list \in Lists /\ r.user \in Addresses
    BY <1>1, <1>2 DEF Empowered
  <2> QED BY <2>1 DEF Kind, Kinds
<1>4. PICK n \in Nat :
        /\ n > 0 => Adds(r.cmd)
        /\ store' = [store EXCEPT ![k][l][u] = n]
  <2>1. PICK was \in Nat : was = store[k][l][u]
    BY <1>2 DEF TypeOK
  <2>2. PICK n : n = IF Adds(r.cmd) THEN was + 1 ELSE 0
    OBVIOUS
  <2>3. store' = [store EXCEPT ![k][l][u] = n]
    BY <1>1, <1>3, <2>1, <2>2 DEF Apply
  <2>4. n \in Nat /\ (n > 0 => Adds(r.cmd))
    BY <2>2
  <2> QED BY <2>3, <2>4
<1>5. store' \in [Kinds -> [Lists -> [Addresses -> Nat]]]
  BY <1>2, <1>4 DEF TypeOK
<1>6. ever' = IF Adds(r.cmd) THEN ever \cup {<<k, l, u>>} ELSE ever
  BY <1>1, <1>3 DEF Apply
<1>7. ever' \subseteq Kinds \X Lists \X Addresses /\ ever \subseteq ever'
  BY <1>2, <1>6 DEF TypeOK
<1>8. PICK p \in ProcType :
        /\ proc' = [proc EXCEPT ![m] = p]
        /\ p.pc \in {"line", "answer", "letter"} /\ p.mail = proc[m].mail
        /\ p.bare = proc[m].bare /\ p.knows = proc[m].knows /\ p.set = proc[m].set
  <2>1. CASE r.cmd \in UserCmds
    <3> DEFINE p == [proc[m] EXCEPT !.pc = "letter"]
    <3>1. /\ p \in ProcType /\ p.pc = "letter" /\ p.mail = proc[m].mail
          /\ p.bare = proc[m].bare /\ p.knows = proc[m].knows /\ p.set = proc[m].set
      BY <1>2 DEF ProcType
    <3>2. proc' = [proc EXCEPT ![m] = p]
      BY <1>1, <2>1 DEF Apply
    <3> HIDE DEF p
    <3> QED BY <3>1, <3>2
  <2>2. CASE r.cmd \notin UserCmds
    <3>1. Right(m, FALSE)
      BY <1>1, <2>2 DEF Apply
    <3> QED BY <1>2, <3>1, LineFact
  <2> QED BY <2>1, <2>2
<1>9. /\ proc'[m] = p /\ proc' \in [Managers -> ProcType]
      /\ \A q \in Managers \ {m} : proc'[q] = proc[q]
  BY <1>2, <1>8 DEF TypeOK
<1>10. TypeOK' /\ Grows
  BY <1>2, <1>5, <1>7, <1>9 DEF TypeOK, Grows
<1>11. ProcOk(m)'
  BY <1>2, <1>8, <1>9, <1>10, PlainOk
<1>12. EverOk'
  <2> SUFFICES ASSUME NEW k1 \in Kinds, NEW l1 \in Lists, NEW u1 \in Addresses,
                      store'[k1][l1][u1] > 0
               PROVE  <<k1, l1, u1>> \in ever'
    BY DEF EverOk, In
  <2>1. CASE k1 = k /\ l1 = l /\ u1 = u
    <3>1. store'[k][l][u] = n
      BY <1>2, <1>4 DEF TypeOK
    <3>2. Adds(r.cmd)
      BY <1>4, <2>1, <3>1
    <3> QED BY <1>6, <2>1, <3>2
  <2>2. CASE ~(k1 = k /\ l1 = l /\ u1 = u)
    <3>1. store'[k1][l1][u1] = store[k1][l1][u1]
      BY <1>2, <1>4, <2>2 DEF TypeOK
    <3> QED BY <1>2, <1>7, <3>1 DEF EverOk, In
  <2> QED BY <2>1, <2>2
<1> QED BY <1>2, <1>9, <1>10, <1>11, <1>12, ManagerStep

\* There is nothing to say of a manager that is not there.
LEMMA OffFact == Off \in ProcType /\ Off.pc = "off"
<1>1. Just("fine") \in Request /\ (CHOOSE s \in Settings : TRUE) \in Settings
  BY CommandsAssumption DEF Just, Request
<1> QED BY <1>1 DEF Off, ProcType, Final

LEMMA StepSettle ==
  ASSUME IInv, NEW m \in Managers, Settle(m)
  PROVE  IInv'
<1>1. PICK x, out : x = proc[m].mail /\ out = proc[m].out
  OBVIOUS
<1>2. /\ proc[m].pc = "settle" /\ TypeOK /\ ProcOk(m) /\ proc[m] \in ProcType
      /\ UNCHANGED <<mail, answer, store, set, bare, known, reloads, past, faults, blind, ever,
                     heard, spoilt>>
      /\ stat' = [stat EXCEPT ![x] = out]
      /\ lock' = [lock EXCEPT ![x] = NoOwner]
      /\ proc' = [proc EXCEPT ![m] = Off]
  BY <1>1, Knows DEF Settle, At, sched, notes
<1>3. x \in Mails /\ out \in Live \cup Final /\ Deserved(x, out)
  BY <1>1, <1>2 DEF ProcOk, Aware, ProcType
<1>4. /\ proc'[m] = Off /\ proc' \in [Managers -> ProcType]
      /\ \A q \in Managers \ {m} : proc'[q] = proc[q]
  BY <1>2, OffFact DEF TypeOK
<1>5. stat' \in [Mails -> Live \cup Final] /\ lock' \in [Mails -> Managers \cup {NoOwner}]
      /\ stat'[x] = out /\ \A y \in Mails \ {x} : stat'[y] = stat[y]
  BY <1>2, <1>3 DEF TypeOK
<1>6. TypeOK' /\ Grows
  BY <1>2, <1>4, <1>5 DEF TypeOK, Grows
<1>7. ProcOk(m)'
  BY <1>4, OffFact DEF ProcOk
<1>8. EverOk'
  BY <1>2 DEF IInv, EverOk, In
<1>9. Deserved(x, stat[x])'
  <2>1. Deserved(x, out)'
    BY <1>3, <1>6, StillDeserved
  <2> QED BY <1>5, <2>1 DEF Deserved
<1>10. \A y \in Mails : stat'[y] = stat[y] \/ Deserved(y, stat[y])'
  BY <1>5, <1>9
<1> QED BY <1>2, <1>4, <1>6, <1>7, <1>8, <1>10, ManagerStep

\* A manager that is gone leaves its lock behind.
LEMMA StepDie ==
  ASSUME IInv, NEW m \in Managers, Die(m) \/ Crash(m)
  PROVE  IInv'
<1>1. /\ Still /\ Grows /\ UNCHANGED <<lock, answer, heard, spoilt>> /\ (faults' = faults \/ Fault)
      /\ proc' = [proc EXCEPT ![m] = Off]
  BY DEF Die, Crash, Still, Grows, spool, sched, notes
<1>2. /\ answer' \subseteq Mails /\ heard' \subseteq Mails
      /\ spoilt' \subseteq Mails \X {"data", "judgement", "users"}
      /\ lock' \in [Mails -> Managers \cup {NoOwner}]
  BY <1>1, Knows
<1>3. proc'[m] = Off => ProcOk(m)'
  BY OffFact DEF ProcOk
<1> QED BY <1>1, <1>2, <1>3, OffFact, QuietStep

-----------------------------------------------------------------------------
(* Locks and the scheduler, and the invariant                              *)

\* Nothing moves but locks and what the scheduler knows.
LEMMA OtherStep ==
  ASSUME IInv, Grows, TypeOK', set' \in past', UNCHANGED <<stat, store, proc>>
  PROVE  IInv'
<1>1. \A m \in Managers : ProcOk(m)'
  BY StillOk DEF IInv
<1>2. ASSUME NEW x \in Mails PROVE Deserved(x, stat[x])'
  <2>1. PICK status : status = stat[x]
    OBVIOUS
  <2>2. Deserved(x, status)'
    BY <2>1, StillDeserved DEF IInv
  <2> QED BY <2>1, <2>2 DEF Deserved
<1>3. EverOk'
  BY DEF IInv, EverOk, In, Grows
<1> QED BY <1>1, <1>2, <1>3 DEF IInv

LEMMA StepExpire ==
  ASSUME IInv, NEW x \in Mails, Expire(x)
  PROVE  IInv'
<1>1. /\ TypeOK /\ set \in past /\ lock' = [lock EXCEPT ![x] = NoOwner]
      /\ UNCHANGED <<mail, stat, answer, store, set, bare, known, reloads, past, proc, faults,
                     blind, ever, heard, spoilt>>
  BY DEF Expire, IInv, sched, notes
<1>2. lock' \in [Mails -> Managers \cup {NoOwner}]
  BY <1>1 DEF TypeOK
<1>3. TypeOK' /\ Grows /\ set' \in past'
  BY <1>1, <1>2 DEF TypeOK, Grows
<1> QED BY <1>1, <1>3, OtherStep

\* The scheduler reads its lists again without a look at mails and managers.
LEMMA StepScheduler ==
  ASSUME IInv, Reload \/ DropLists \/ ReadList
  PROVE  IInv'
<1>1. /\ TypeOK /\ set \in past
      /\ UNCHANGED <<mail, stat, lock, answer, store, proc, faults, blind, ever, heard, spoilt>>
  BY DEF IInv, Reload, DropLists, ReadList, spool, notes
<1>2. /\ bare' \in BOOLEAN /\ known' \in 0..Len(set'.lists) /\ reloads' \in 0..MaxReloads
      /\ set' \in Settings /\ past' \subseteq Settings /\ set' \in past' /\ past \subseteq past'
  <2>1. \A s \in Settings : Len(s.lists) \in Nat
    BY <1>1, Given
  <2>2. /\ bare \in BOOLEAN /\ known \in 0..Len(set.lists) /\ reloads \in 0..MaxReloads
        /\ set \in Settings /\ past \subseteq Settings /\ MaxReloads \in Nat
    BY <1>1, Given DEF TypeOK
  <2>3. CASE Reload
    BY <1>1, <2>1, <2>2, <2>3 DEF Reload
  <2>4. CASE DropLists
    <3>1. /\ known' = 0 /\ reloads' = reloads /\ bare' = FALSE
          /\ set' \in Settings /\ past' = past \cup {set'}
      BY <2>4 DEF DropLists
    <3>2. known' \in 0..Len(set'.lists)
      BY <2>1, <3>1
    <3> QED BY <2>2, <3>1, <3>2
  <2>5. CASE ReadList
    BY <1>1, <2>1, <2>2, <2>5 DEF ReadList
  <2> QED BY <2>3, <2>4, <2>5
<1>3. TypeOK' /\ Grows
  BY <1>1, <1>2 DEF TypeOK, Grows
<1> QED BY <1>1, <1>2, <1>3, OtherStep

\* Nothing happens.
LEMMA Stutter ==
  ASSUME IInv, UNCHANGED vars
  PROVE  IInv'
<1>1. /\ TypeOK /\ set \in past
      /\ UNCHANGED <<mail, stat, lock, answer, store, set, bare, known, reloads, past, proc, faults,
                     blind, ever, heard, spoilt>>
  BY DEF IInv, vars, spool, sched, notes
<1>2. TypeOK' /\ Grows
  BY <1>1 DEF TypeOK, Grows
<1> QED BY <1>1, <1>2, OtherStep

LEMMA Start == Init => IInv
<1> SUFFICES ASSUME Init PROVE IInv
  OBVIOUS
<1>1. TypeOK
  <2>1. /\ MaxReloads \in Nat /\ MaxFaults \in Nat /\ set \in Settings
        /\ Len(set.lists) \in Nat
    BY CommandsAssumption, LenProperties DEF IsSetting, Init
  <2>2. /\ proc \in [Managers -> ProcType]
        /\ stat \in [Mails -> Live \cup Final] /\ lock \in [Mails -> Managers \cup {NoOwner}]
    BY OffFact DEF Init, Live
  <2>3. store \in [Kinds -> [Lists -> [Addresses -> Nat]]]
    BY DEF Init
  <2>4. /\ mail \in Mailbags /\ {answer, blind, heard} \subseteq SUBSET Mails
        /\ spoilt \subseteq Mails \X {"data", "judgement", "users"} /\ past \subseteq Settings
    BY <2>1 DEF Init
  <2>6. /\ bare \in BOOLEAN /\ known \in 0..Len(set.lists)
        /\ reloads \in 0..MaxReloads /\ faults \in 0..MaxFaults
    <3>1. bare = FALSE /\ known = Len(set.lists) /\ reloads = 0 /\ faults = 0
      BY DEF Init
    <3>2. known \in 0..Len(set.lists) /\ reloads \in 0..MaxReloads /\ faults \in 0..MaxFaults
      <4>1. \A n \in Nat : n \in 0..n /\ 0 \in 0..n
        OBVIOUS
      <4> QED BY <2>1, <3>1, <4>1, Zenon
    <3> QED BY <3>1, <3>2
  <2>5. ever \subseteq Kinds \X Lists \X Addresses
    BY DEF Init
  <2> QED BY <2>1, <2>2, <2>3, <2>4, <2>5, <2>6 DEF TypeOK
<1>2. \A m \in Managers : ProcOk(m)
  BY OffFact DEF Init, ProcOk
<1>3. \A x \in Mails : Deserved(x, stat[x])
  <2>1. \A x \in Mails : stat[x] = "received"
    BY DEF Init
  <2> QED BY <2>1, FreeStatus
<1>4. EverOk
  <2> SUFFICES ASSUME NEW k \in Kinds, NEW l \in Lists, NEW u \in Addresses, store[k][l][u] > 0
               PROVE  <<k, l, u>> \in ever
    BY DEF EverOk, In
  <2>1. store[k][l][u] = IF u \in First[k][l] THEN 1 ELSE 0
    BY DEF Init
  <2>2. u \in First[k][l]
    BY <2>1
  <2> QED BY <2>2 DEF Init
<1>5. set \in past
  BY DEF Init
<1> QED BY <1>1, <1>2, <1>3, <1>4, <1>5 DEF IInv

LEMMA Steps ==
  ASSUME IInv, [Next]_vars
  PROVE  IInv'
<1>1. CASE \E m \in Managers : Process(m) \/ Die(m)
  <2>1. PICK m \in Managers : Process(m) \/ Die(m)
    BY <1>1
  <2>2. CASE Process(m)
    BY <2>2, StepTake, StepNotOurs, StepOpenFails, StepWeigh, StepWeighFails, StepCast,
       StepCastFails, StepLine, StepDie, StepChangeLine, StepApply, StepAnswer, StepSettle
       DEF Process
  <2>3. CASE Die(m)
    BY <2>3, StepDie
  <2> QED BY <2>1, <2>2, <2>3
<1>2. CASE \E x \in Mails : Expire(x)
  BY <1>2, StepExpire
<1>3. CASE Reload \/ DropLists \/ ReadList
  BY <1>3, StepScheduler
<1>4. CASE UNCHANGED vars
  BY <1>4, Stutter
<1> QED BY <1>1, <1>2, <1>3, <1>4 DEF Next

\* Managers keep their promises, statuses are deserved, and stores are remembered.
THEOREM Invariant == Spec => []IInv
<1>1. Init => IInv
  BY Start
<1>2. IInv /\ [Next]_vars => IInv'
  BY Steps
<1> QED BY <1>1, <1>2, PTL DEF Spec

\* The variables have their types.
THEOREM Typing == Spec => []TypeOK
<1>1. IInv => TypeOK
  BY DEF IInv
<1> QED BY <1>1, Invariant, PTL

\* A message that was taken in is lost only in the hands of a manager that was forked
\* while the scheduler read its config and its lists again, or after its list was dropped;
\* and it is passed over only when its data, or the users of its list, could not be read.
THEOREM LostOnlyInReloadHolds == Spec => []LostOnlyInReload
<1>1. IInv => LostOnlyInReload
  BY DEF IInv, Deserved, LostOnlyInReload
<1> QED BY <1>1, Invariant, PTL

\* What is broadcast was written by somebody who was entitled to it at some time, but for
\* messages that were judged when a table could not be read.
THEOREM CastWasEntitledHolds == Spec => []CastWasEntitled
<1>1. IInv => CastWasEntitled
  <2> SUFFICES ASSUME IInv, NEW x \in Mails, stat[x] = "sent" PROVE Warranted(x)
    BY DEF CastWasEntitled, Warranted
  <2> QED BY DEF IInv, Deserved
<1> QED BY <1>1, Invariant, PTL

\* The stores change by the command of a line that entitles its writer to the change.
THEOREM ChangesAreEntitledHolds == Spec => ChangesAreEntitled
<1> DEFINE A == \A k \in Kinds, l \in Lists, a \in Addresses :
                  store'[k][l][a] # store[k][l][a] =>
                    \E m \in Managers :
                      /\ At(m, "apply") /\ proc[m].set \in past
                      /\ Entitled(proc[m].set, NextLine(m), Mine(m).from, l, a)
<1>1. IInv /\ [Next]_vars => [A]_vars
  <2> SUFFICES ASSUME IInv, [Next]_vars PROVE A
    OBVIOUS
  <2>1. CASE \E m \in Managers : Apply(m)
    <3>1. PICK m \in Managers : Apply(m)
      BY <2>1
    <3>2. PICK r : r = proc[m].todo
      OBVIOUS
    <3>3. /\ At(m, "apply") /\ proc[m].set \in past
          /\ Entitled(proc[m].set, NextLine(m), Mine(m).from, r.list, r.user)
          /\ r.list \in Lists /\ r.user \in Addresses
      BY <3>1, <3>2, Knows DEF Apply, At, ProcOk, Aware, Empowered
    <3>4. PICK n : store' = [store EXCEPT ![Kind(r.cmd)][r.list][r.user] = n]
      BY <3>1, <3>2 DEF Apply
    <3>5. store \in [Kinds -> [Lists -> [Addresses -> Nat]]]
      BY DEF IInv, TypeOK
    <3>6. ASSUME NEW k \in Kinds, NEW l \in Lists, NEW a \in Addresses,
                 store'[k][l][a] # store[k][l][a]
          PROVE  l = r.list /\ a = r.user
      BY <3>4, <3>5, <3>6
    <3> QED BY <3>3, <3>6
  <2>2. CASE ~\E m \in Managers : Apply(m)
    <3>1. store' = store
      BY <2>2 DEF Next, Process, Die, Expire, Reload, DropLists, ReadList, Take, TakeMail, NotOurs,
         Open, OpenFails, Weigh, WeighFails, Cast, CastFails, Spoils, EndOfMail, PlainLine, Crash,
         ChangeLine, ApplyFails, Letter, Answer, Settle, vars
    <3> QED BY <3>1
  <2> QED BY <2>1, <2>2
<1>2. Spec => [][A]_vars
  BY <1>1, Invariant, PTL DEF Spec
<1> QED BY <1>2 DEF ChangesAreEntitled

=============================================================================
