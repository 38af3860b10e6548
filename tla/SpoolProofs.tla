---------------------------- MODULE SpoolProofs -----------------------------
(***************************************************************************)
(* Proofs about the spool for any number of managers, receivers and        *)
(* messages, with crashes and failing name servers, whether selections     *)
(* overlap or not: the type invariant, and that a config is put away once, *)
(* after its data.                                                         *)
(***************************************************************************)
EXTENDS Spool, TLAPS

-----------------------------------------------------------------------------
(* Local states of processes                                               *)

\* The record of a process that is not running is a legal one.
LEMMA IdleFact == Idle \in ProcType /\ Shape(Idle)
<1>1. NoConf \in ConfType
  BY DEF NoConf, ConfType, Status
<1>2. Idle \in ProcType
  BY <1>1 DEF Idle, ProcType, PCs, Status
<1>3. Shape(Idle)
  BY DEF Idle, Shape, Handled, Settling, Mailing
<1> QED BY <1>2, <1>3

\* A step that gives one process a legal record keeps all records legal.
LEMMA Become ==
  ASSUME ProcsOK, NEW p \in Procs, NEW r, r \in ProcType, Shape(r),
         proc' = [proc EXCEPT ![p] = r]
  PROVE  ProcsOK'
  BY DEF ProcsOK

\* A process that ends.
LEMMA GoneFact ==
  ASSUME ProcsOK, NEW p \in Procs, Gone(p)
  PROVE  ProcsOK'
  BY IdleFact, Become DEF Gone

\* A step that only moves a process to another place of the code.
LEMMA MoveFact ==
  ASSUME ProcsOK, NEW p \in Procs, NEW k \in PCs, Shape([proc[p] EXCEPT !.pc = k]),
         proc' = [proc EXCEPT ![p].pc = k]
  PROVE  ProcsOK'
<1> DEFINE r == [proc[p] EXCEPT !.pc = k]
<1>1. r \in ProcType
  BY DEF ProcsOK, ProcType
<1>2. proc' = [proc EXCEPT ![p] = r]
  BY DEF ProcsOK
<1> QED BY <1>1, <1>2, Become

\* The same from one step that has a message at hand to another one.
LEMMA OnFact ==
  ASSUME ProcsOK, NEW p \in Procs, proc[p].pc \in Handled, NEW k \in Handled,
         proc' = [proc EXCEPT ![p].pc = k]
  PROVE  ProcsOK'
<1>1. proc[p] \in ProcType /\ Shape(proc[p])
  BY DEF ProcsOK
<1>2. k \in PCs
  BY DEF Handled, Settling, PCs
<1>3. Shape([proc[p] EXCEPT !.pc = k])
  BY <1>1 DEF Shape, ProcType, Handled, Settling, Mailing
<1> QED BY <1>2, <1>3, MoveFact

\* A process that goes on to put a message into the spool.
LEMMA DepositFact ==
  ASSUME ProcsOK, NEW p \in Procs, NEW k \in Names, NEW mail \in ConfType,
         NEW next \in {"off", "giveup", "split", "reply", "cast"},
         NEW rest \in ProcType,
         rest.cur = NoName \/ rest.cur \in Names,
         next = "off" <=> rest.cur = NoName,
         Deposit(p, k, mail, next, rest)
  PROVE  ProcsOK'
<1> DEFINE r == [rest EXCEPT !.pc = "lockmail", !.box = k, !.item = mail, !.then = next]
<1>1. r \in ProcType
  BY DEF ProcType, PCs
<1>2. Shape(r)
  BY NullAssumption DEF Shape, ProcType, Handled, Settling, Mailing
<1>3. proc' = [proc EXCEPT ![p] = r]
  BY DEF Deposit
<1> QED BY <1>1, <1>2, <1>3, Become

\* A process that puts a mail into the spool which Limez writes itself.
LEMMA ReplyFact ==
  ASSUME ProcsOK, NEW p \in Procs, NEW next \in {"giveup", "reply"},
         NEW rest \in ProcType, rest.cur \in Names, Reply(p, next, rest)
  PROVE  ProcsOK'
<1>1. PICK k \in MailNames : Deposit(p, k, Mail("created", 1), next, rest)
  BY DEF Reply
<1>2. k \in Names /\ Mail("created", 1) \in ConfType
  BY DEF Names, Mail, ConfType, Status, Live
<1> QED BY <1>1, <1>2, DepositFact, NullAssumption

\* A process that may do so.
LEMMA MaybeReplyFact ==
  ASSUME ProcsOK, NEW p \in Procs, NEW next \in {"giveup", "reply"},
         NEW rest \in ProcType, rest.cur \in Names, rest.box = NoName,
         rest.then = "off", MaybeReply(p, next, rest)
  PROVE  ProcsOK'
<1>1. CASE proc' = [proc EXCEPT ![p] = [rest EXCEPT !.pc = next]]
  <2> DEFINE r == [rest EXCEPT !.pc = next]
  <2>1. r \in ProcType
    BY DEF ProcType, PCs
  <2>2. Shape(r)
    BY NullAssumption DEF Shape, ProcType, Handled, Settling, Mailing
  <2> QED BY <1>1, <2>1, <2>2, Become
<1>2. CASE Reply(p, next, rest)
  BY <1>2, ReplyFact
<1> QED BY <1>1, <1>2 DEF MaybeReply

\* A manager that has found the status its message gets.
LEMMA OutcomeFact ==
  ASSUME ProcsOK, NEW p \in Procs, proc[p].pc \in Handled, NEW out \in Status,
         Outcome(p, out)
  PROVE  ProcsOK'
<1> DEFINE r == [proc[p] EXCEPT !.pc = "truncate", !.out = out]
<1>1. proc[p] \in ProcType /\ Shape(proc[p])
  BY DEF ProcsOK
<1>2. r \in ProcType
  BY <1>1 DEF ProcType, PCs
<1>3. Shape(r)
  BY <1>1 DEF Shape, ProcType, Handled, Settling, Mailing
<1>4. proc' = [proc EXCEPT ![p] = r]
  BY <1>1 DEF Outcome, ProcsOK
<1> HIDE DEF r
<1> QED BY <1>2, <1>3, <1>4, Become

-----------------------------------------------------------------------------
(* Each action keeps the records legal                                     *)

\* A manager that is forked has read the directory and holds no message.
LEMMA ProcsStart ==
  ASSUME TypeOK, NEW m \in Managers, Start(m)
  PROVE  ProcsOK'
<1>0. /\ m \in Procs /\ proc[m] \in ProcType /\ Shape(proc[m])
      /\ ProcsOK /\ FilesOK
  BY DEF TypeOK, ProcsOK, Procs
<1> DEFINE found == {n \in Names : conf[n].file # "none"}
           r == [Idle EXCEPT !.pc = "scan", !.listing = found]
<1>1. r \in ProcType
  BY IdleFact DEF ProcType, PCs
<1>2. Shape(r)
  BY IdleFact DEF Shape, Idle, Handled, Settling, Mailing
<1>3. proc' = [proc EXCEPT ![m] = r]
  BY DEF Start
<1> HIDE DEF r
<1> QED BY <1>0, <1>1, <1>2, <1>3, Become

\* A config that was read joins the messages seen.
LEMMA ProcsUnqueue ==
  ASSUME TypeOK, NEW m \in Managers, Unqueue(m)
  PROVE  ProcsOK'
<1>0. /\ m \in Procs /\ proc[m] \in ProcType /\ Shape(proc[m])
      /\ ProcsOK /\ FilesOK
  BY DEF TypeOK, ProcsOK, Procs
<1>1. PICK n \in proc[m].listing :
       LET there == IF n \in dead THEN conf[n].rcpts - 1 ELSE conf[n].rcpts IN
       /\ conf[n].file = "full" /\ there > 0
       /\ proc' = [proc EXCEPT ![m].listing = @ \ {n},
                               ![m].seen[n] = [conf[n] EXCEPT !.rcpts = there]]
  BY DEF Unqueue
<1> DEFINE t == IF n \in dead THEN conf[n].rcpts - 1 ELSE conf[n].rcpts
           c == [conf[n] EXCEPT !.rcpts = t]
           s == [proc[m].seen EXCEPT ![n] = c]
           r == [proc[m] EXCEPT !.listing = @ \ {n}, !.seen = s]
<1>2. n \in Names /\ conf[n] \in ConfType /\ t \in Nat
  BY <1>0, <1>1 DEF FilesOK, ConfType, ProcType
<1>3. c \in ConfType
  BY <1>2 DEF ConfType
<1>4. s \in [Names -> ConfType]
  BY <1>0, <1>2, <1>3 DEF ProcType
<1>5. proc' = [proc EXCEPT ![m] = r]
  BY <1>0, <1>1, <1>2 DEF ProcsOK, ProcType
<1> HIDE DEF s, c, t
<1>6. r \in ProcType
  BY <1>0, <1>4 DEF ProcType, PCs
<1>7. Shape(r)
  BY <1>0 DEF Shape, ProcType
<1> HIDE DEF r
<1> QED BY <1>0, <1>5, <1>6, <1>7, Become

\* An empty config leaves the listing.
LEMMA ProcsUnqueueEmpty ==
  ASSUME TypeOK, NEW m \in Managers, UnqueueEmpty(m)
  PROVE  ProcsOK'
<1>0. /\ m \in Procs /\ proc[m] \in ProcType /\ Shape(proc[m])
      /\ ProcsOK /\ FilesOK
  BY DEF TypeOK, ProcsOK, Procs
<1>1. PICK n : proc' = [proc EXCEPT ![m].listing = @ \ {n}]
  BY DEF UnqueueEmpty
<1> DEFINE r == [proc[m] EXCEPT !.listing = @ \ {n}]
<1>2. r \in ProcType
  BY <1>0 DEF ProcType
<1>3. Shape(r)
  BY <1>0 DEF Shape, ProcType
<1>4. proc' = [proc EXCEPT ![m] = r]
  BY <1>0, <1>1 DEF ProcsOK
<1> HIDE DEF r
<1> QED BY <1>0, <1>2, <1>3, <1>4, Become

\* A manager that exits in Message::unqueue is gone.
LEMMA ProcsUnqueueDies ==
  ASSUME TypeOK, NEW m \in Managers, UnqueueDies(m)
  PROVE  ProcsOK'
<1>0. /\ m \in Procs /\ proc[m] \in ProcType /\ Shape(proc[m])
      /\ ProcsOK /\ FilesOK
  BY DEF TypeOK, ProcsOK, Procs
<1> QED BY <1>0, GoneFact DEF UnqueueDies

\* The selection begins with what was read.
LEMMA ProcsScanDone ==
  ASSUME TypeOK, NEW m \in Managers, ScanDone(m)
  PROVE  ProcsOK'
<1>0. /\ m \in Procs /\ proc[m] \in ProcType /\ Shape(proc[m])
      /\ ProcsOK /\ FilesOK
  BY DEF TypeOK, ProcsOK, Procs
<1>1. Shape([proc[m] EXCEPT !.pc = "select"])
  BY <1>0 DEF ScanDone, At, Shape, ProcType, Handled, Settling, Mailing
<1>2. "select" \in PCs /\ proc' = [proc EXCEPT ![m].pc = "select"]
  BY DEF PCs, ScanDone
<1> QED BY <1>0, <1>1, <1>2, MoveFact

\* A message passed over is forgotten.
LEMMA ProcsPassOver ==
  ASSUME TypeOK, NEW m \in Managers, PassOver(m)
  PROVE  ProcsOK'
<1>0. /\ m \in Procs /\ proc[m] \in ProcType /\ Shape(proc[m])
      /\ ProcsOK /\ FilesOK
  BY DEF TypeOK, ProcsOK, Procs
<1>1. PICK n \in Todo(m) : proc' = [proc EXCEPT ![m].seen[n] = NoConf]
  BY DEF PassOver
<1> DEFINE s == [proc[m].seen EXCEPT ![n] = NoConf]
           r == [proc[m] EXCEPT !.seen = s]
<1>2. s \in [Names -> ConfType]
  BY <1>0, IdleFact DEF ProcType, NoConf, ConfType, Status
<1>3. proc' = [proc EXCEPT ![m] = r]
  BY <1>0, <1>1 DEF ProcsOK, ProcType
<1> HIDE DEF s
<1>4. r \in ProcType
  BY <1>0, <1>2 DEF ProcType
<1>5. Shape(r)
  BY <1>0 DEF Shape, ProcType
<1> HIDE DEF r
<1> QED BY <1>0, <1>3, <1>4, <1>5, Become

\* The new candidate is a name, the old one is forgotten.
LEMMA ProcsCandidate ==
  ASSUME TypeOK, NEW m \in Managers, Candidate(m)
  PROVE  ProcsOK'
<1>0. /\ m \in Procs /\ proc[m] \in ProcType /\ Shape(proc[m])
      /\ ProcsOK /\ FilesOK
  BY DEF TypeOK, ProcsOK, Procs
<1>1. PICK n \in Todo(m) :
       proc' = [proc EXCEPT ![m].cand = n,
         ![m].seen = [k \in Names |-> IF k = proc[m].cand THEN NoConf ELSE @[k]]]
  BY DEF Candidate
<1> DEFINE s == [k \in Names |-> IF k = proc[m].cand THEN NoConf ELSE proc[m].seen[k]]
           r == [proc[m] EXCEPT !.cand = n, !.seen = s]
<1>2. s \in [Names -> ConfType]
  BY <1>0 DEF ProcType, NoConf, ConfType, Status
<1>3. proc' = [proc EXCEPT ![m] = r]
  BY <1>0, <1>1 DEF ProcsOK, ProcType
<1> HIDE DEF s
<1>4. n \in Names
  BY <1>1 DEF Todo
<1>5. r \in ProcType
  BY <1>0, <1>2, <1>4 DEF ProcType
<1>6. Shape(r)
  BY <1>0 DEF Shape, ProcType
<1> HIDE DEF r
<1> QED BY <1>0, <1>3, <1>5, <1>6, Become

\* A message that is given up is at hand until the selection goes on.
LEMMA ProcsExpire ==
  ASSUME TypeOK, NEW m \in Managers, Expire(m)
  PROVE  ProcsOK'
<1>0. /\ m \in Procs /\ proc[m] \in ProcType /\ Shape(proc[m])
      /\ ProcsOK /\ FilesOK
  BY DEF TypeOK, ProcsOK, Procs
<1>1. PICK n \in Todo(m) :
       MaybeReply(m, "giveup",
                [proc[m] EXCEPT !.seen[n] = NoConf, !.cur = n, !.msg = proc[m].seen[n],
                                !.out = "failed", !.resume = "select"])
  BY DEF Expire
<1> DEFINE rest == [proc[m] EXCEPT !.seen[n] = NoConf, !.cur = n, !.msg =
    proc[m].seen[n],
                                   !.out = "failed", !.resume = "select"]
           s == [proc[m].seen EXCEPT ![n] = NoConf]
<1>2. n \in Names
  BY <1>1 DEF Todo
<1>3. s \in [Names -> ConfType] /\ proc[m].seen[n] \in ConfType
  BY <1>0, <1>2 DEF ProcType, NoConf, ConfType, Status
<1>4. rest \in ProcType
  <2>1. rest = [proc[m] EXCEPT !.seen = s, !.cur = n, !.msg = proc[m].seen[n],
                               !.out = "failed", !.resume = "select"]
    BY <1>0 DEF ProcType
  <2> HIDE DEF s, rest
  <2> QED BY <2>1, <1>0, <1>2, <1>3 DEF ProcType, Status, Final
<1>5. rest.cur \in Names /\ rest.box = NoName /\ rest.then = "off"
  BY <1>0, <1>2 DEF Expire, At, ProcType, Shape, Mailing
<1> HIDE DEF rest
<1> QED BY <1>0, <1>1, <1>4, <1>5, MaybeReplyFact DEF rest

\* Locking the message keeps it at hand.
LEMMA ProcsGiveUp ==
  ASSUME TypeOK, NEW m \in Managers, GiveUp(m)
  PROVE  ProcsOK'
<1>0. /\ m \in Procs /\ proc[m] \in ProcType /\ Shape(proc[m])
      /\ ProcsOK /\ FilesOK
  BY DEF TypeOK, ProcsOK, Procs
<1>1. proc[m].pc \in Handled /\ "truncate" \in Handled
  BY DEF GiveUp, At, Handled, Settling
<1>2. proc' = [proc EXCEPT ![m].pc = "truncate"]
  BY DEF GiveUp
<1> QED BY <1>0, <1>1, <1>2, OnFact

\* The manager takes the candidate, which is a name, and its config as read.
LEMMA ProcsTake ==
  ASSUME TypeOK, NEW m \in Managers, Take(m)
  PROVE  ProcsOK'
<1>0. /\ m \in Procs /\ proc[m] \in ProcType /\ Shape(proc[m])
      /\ ProcsOK /\ FilesOK
  BY DEF TypeOK, ProcsOK, Procs
<1> DEFINE r == [Idle EXCEPT !.pc = "work", !.cur = proc[m].cand,
                            !.msg = proc[m].seen[proc[m].cand]]
<1>1. proc[m].cand \in Names /\ proc[m].seen[proc[m].cand] \in ConfType
  BY <1>0 DEF Take, ProcType
<1>2. r \in ProcType
  BY <1>1, IdleFact DEF ProcType, PCs
<1>3. Shape(r)
  BY <1>1, IdleFact DEF Shape, ProcType, Idle, Handled, Settling, Mailing
<1>4. proc' = [proc EXCEPT ![m] = r]
  BY DEF Take
<1> HIDE DEF r
<1> QED BY <1>0, <1>2, <1>3, <1>4, Become

\* A manager that found nothing is gone.
LEMMA ProcsNothingToDo ==
  ASSUME TypeOK, NEW m \in Managers, NothingToDo(m)
  PROVE  ProcsOK'
<1>0. /\ m \in Procs /\ proc[m] \in ProcType /\ Shape(proc[m])
      /\ ProcsOK /\ FilesOK
  BY DEF TypeOK, ProcsOK, Procs
<1> QED BY <1>0, GoneFact DEF NothingToDo

\* The recipients left to split off are a number.
LEMMA ProcsStartSplit ==
  ASSUME TypeOK, NEW m \in Managers, StartSplit(m)
  PROVE  ProcsOK'
<1>0. /\ m \in Procs /\ proc[m] \in ProcType /\ Shape(proc[m])
      /\ ProcsOK /\ FilesOK
  BY DEF TypeOK, ProcsOK, Procs
<1> DEFINE r == [proc[m] EXCEPT !.pc = "split", !.left = proc[m].msg.rcpts]
<1>1. r \in ProcType
  BY <1>0 DEF ProcType, PCs, ConfType
<1>2. Shape(r)
  BY <1>0 DEF StartSplit, Handling, At, Shape, ProcType, Handled, Settling, Mailing
<1>3. proc' = [proc EXCEPT ![m] = r]
  BY <1>0 DEF StartSplit, ProcsOK
<1> HIDE DEF r
<1> QED BY <1>0, <1>1, <1>2, <1>3, Become

\* The clone is put away while the message stays at hand.
LEMMA ProcsSplit ==
  ASSUME TypeOK, NEW m \in Managers, Split(m)
  PROVE  ProcsOK'
<1>0. /\ m \in Procs /\ proc[m] \in ProcType /\ Shape(proc[m])
      /\ ProcsOK /\ FilesOK
  BY DEF TypeOK, ProcsOK, Procs
<1> DEFINE rest == [proc[m] EXCEPT !.left = @ - 1]
<1>1. rest \in ProcType
  BY <1>0 DEF Split, ProcType
<1>2. rest.cur \in Names /\ Shape(rest)
  BY <1>0 DEF Split, At, Shape, ProcType, Handled
<1>3. CASE proc' = [proc EXCEPT ![m] = rest]
  <2> HIDE DEF rest
  <2> QED BY <1>0, <1>1, <1>2, <1>3, Become
<1>4. CASE \E k \in CloneNames : Deposit(m, k, Mail("received", 1), "split", rest)
  <2>1. PICK k \in CloneNames : Deposit(m, k, Mail("received", 1), "split", rest)
    BY <1>4
  <2>2. k \in Names /\ Mail("received", 1) \in ConfType
    BY DEF Names, Mail, ConfType, Status, Live
  <2> HIDE DEF rest
  <2> QED BY <1>0, <1>1, <1>2, <2>1, <2>2, DepositFact, NullAssumption
<1> QED BY <1>3, <1>4 DEF Split

\* A message that is split has its status.
LEMMA ProcsSplitDone ==
  ASSUME TypeOK, NEW m \in Managers, SplitDone(m)
  PROVE  ProcsOK'
<1>0. /\ m \in Procs /\ proc[m] \in ProcType /\ Shape(proc[m])
      /\ ProcsOK /\ FilesOK
  BY DEF TypeOK, ProcsOK, Procs
<1>1. proc[m].pc \in Handled /\ \E out \in {"splitted"} : Outcome(m, out)
  BY DEF SplitDone, Handling, At, Handled
<1> QED BY <1>0, <1>1, OutcomeFact DEF Status, Live, Final

\* A message to be answered has its status and stays at hand.
LEMMA ProcsAnswer ==
  ASSUME TypeOK, NEW m \in Managers, Answer(m)
  PROVE  ProcsOK'
<1>0. /\ m \in Procs /\ proc[m] \in ProcType /\ Shape(proc[m])
      /\ ProcsOK /\ FilesOK
  BY DEF TypeOK, ProcsOK, Procs
<1>1. PICK out \in {"done", "rejected"} :
       proc' = [proc EXCEPT ![m].pc = "reply", ![m].out = out]
  BY DEF Answer
<1> DEFINE r == [proc[m] EXCEPT !.pc = "reply", !.out = out]
<1>2. r \in ProcType
  BY <1>0 DEF ProcType, PCs, Status, Final
<1>3. Shape(r)
  BY <1>0 DEF Answer, Handling, At, Shape, ProcType, Handled, Settling, Mailing
<1>4. proc' = [proc EXCEPT ![m] = r]
  BY <1>0, <1>1 DEF ProcsOK
<1> HIDE DEF r
<1> QED BY <1>0, <1>2, <1>3, <1>4, Become

\* A mail about the message is put away while the message stays at hand.
LEMMA ProcsAnswerMail ==
  ASSUME TypeOK, NEW m \in Managers, AnswerMail(m)
  PROVE  ProcsOK'
<1>0. /\ m \in Procs /\ proc[m] \in ProcType /\ Shape(proc[m])
      /\ ProcsOK /\ FilesOK
  BY DEF TypeOK, ProcsOK, Procs
<1>1. proc[m].cur \in Names
  BY <1>0 DEF AnswerMail, At, Shape, Handled
<1>2. Reply(m, "reply", proc[m])
  BY DEF AnswerMail
<1> QED BY <1>0, <1>1, <1>2, ReplyFact

\* A message that was answered keeps its status.
LEMMA ProcsAnswerDone ==
  ASSUME TypeOK, NEW m \in Managers, AnswerDone(m)
  PROVE  ProcsOK'
<1>0. /\ m \in Procs /\ proc[m] \in ProcType /\ Shape(proc[m])
      /\ ProcsOK /\ FilesOK
  BY DEF TypeOK, ProcsOK, Procs
<1>1. proc[m].pc \in Handled /\ proc[m].out \in Status /\ Outcome(m, proc[m].out)
  BY <1>0 DEF AnswerDone, At, Handled, ProcType
<1> QED BY <1>0, <1>1, OutcomeFact

\* A message for a list, or for nobody, has its status.
LEMMA ProcsJudge ==
  ASSUME TypeOK, NEW m \in Managers, Judge(m)
  PROVE  ProcsOK'
<1>0. /\ m \in Procs /\ proc[m] \in ProcType /\ Shape(proc[m])
      /\ ProcsOK /\ FilesOK
  BY DEF TypeOK, ProcsOK, Procs
<1>1. proc[m].pc \in Handled /\ \E out \in {"approved", "error"} : Outcome(m, out)
  BY DEF Judge, Handling, At, Handled
<1> QED BY <1>0, <1>1, OutcomeFact DEF Status, Live, Final

\* A broadcast goes on with the message at hand.
LEMMA ProcsBroadcast ==
  ASSUME TypeOK, NEW m \in Managers, Broadcast(m)
  PROVE  ProcsOK'
<1>0. /\ m \in Procs /\ proc[m] \in ProcType /\ Shape(proc[m])
      /\ ProcsOK /\ FilesOK
  BY DEF TypeOK, ProcsOK, Procs
<1>1. proc[m].pc \in Handled /\ "cast" \in Handled
  BY DEF Broadcast, Handling, At, Handled
<1>2. CASE proc' = [proc EXCEPT ![m].pc = "cast"]
  BY <1>0, <1>1, <1>2, OnFact
<1>3. CASE Outcome(m, "failed")
  BY <1>0, <1>1, <1>3, OutcomeFact DEF Status, Final
<1> QED BY <1>2, <1>3 DEF Broadcast

\* A copy for one user is put away while the message stays at hand.
LEMMA ProcsCastMail ==
  ASSUME TypeOK, NEW m \in Managers, CastMail(m)
  PROVE  ProcsOK'
<1>0. /\ m \in Procs /\ proc[m] \in ProcType /\ Shape(proc[m])
      /\ ProcsOK /\ FilesOK
  BY DEF TypeOK, ProcsOK, Procs
<1>1. PICK k \in MailNames, stat \in {"created", "spooled"} :
       Deposit(m, k, Mail(stat, 1), "cast", proc[m])
  BY DEF CastMail
<1>2. k \in Names /\ Mail(stat, 1) \in ConfType
  BY DEF Names, Mail, ConfType, Status, Live
<1>3. proc[m].cur \in Names
  BY <1>0 DEF CastMail, At, Shape, Handled
<1> QED BY <1>0, <1>1, <1>2, <1>3, DepositFact, NullAssumption

\* A message that was broadcast has its status.
LEMMA ProcsCastDone ==
  ASSUME TypeOK, NEW m \in Managers, CastDone(m)
  PROVE  ProcsOK'
<1>0. /\ m \in Procs /\ proc[m] \in ProcType /\ Shape(proc[m])
      /\ ProcsOK /\ FilesOK
  BY DEF TypeOK, ProcsOK, Procs
<1>1. proc[m].pc \in Handled /\ Outcome(m, "sent")
  BY DEF CastDone, At, Handled
<1> QED BY <1>0, <1>1, OutcomeFact DEF Status, Final

\* A message to be delivered stays at hand, one that is put off has its status.
LEMMA ProcsTransmit ==
  ASSUME TypeOK, NEW m \in Managers, Transmit(m)
  PROVE  ProcsOK'
<1>0. /\ m \in Procs /\ proc[m] \in ProcType /\ Shape(proc[m])
      /\ ProcsOK /\ FilesOK
  BY DEF TypeOK, ProcsOK, Procs
<1>1. proc[m].pc \in Handled /\ "deliver" \in Handled
  BY DEF Transmit, Handling, At, Handled
<1>2. CASE proc' = [proc EXCEPT ![m].pc = "deliver"]
  BY <1>0, <1>1, <1>2, OnFact
<1>3. CASE Outcome(m, "spooled")
  BY <1>0, <1>1, <1>3, OutcomeFact DEF Status, Live
<1> QED BY <1>2, <1>3 DEF Transmit

\* A message that was tried has its status.
LEMMA ProcsDeliver ==
  ASSUME TypeOK, NEW m \in Managers, Deliver(m)
  PROVE  ProcsOK'
<1>0. /\ m \in Procs /\ proc[m] \in ProcType /\ Shape(proc[m])
      /\ ProcsOK /\ FilesOK
  BY DEF TypeOK, ProcsOK, Procs
<1>1. proc[m].pc \in Handled /\ \E out \in {"sent", "spooled"} : Outcome(m, out)
  BY DEF Deliver, At, Handled
<1> QED BY <1>0, <1>1, OutcomeFact DEF Status, Live, Final

\* A manager that meets an unknown status is gone.
LEMMA ProcsUnknownStatus ==
  ASSUME TypeOK, NEW m \in Managers, UnknownStatus(m)
  PROVE  ProcsOK'
<1>0. /\ m \in Procs /\ proc[m] \in ProcType /\ Shape(proc[m])
      /\ ProcsOK /\ FilesOK
  BY DEF TypeOK, ProcsOK, Procs
<1> QED BY <1>0, GoneFact DEF UnknownStatus

\* Truncating the config keeps the message at hand.
LEMMA ProcsTruncate ==
  ASSUME TypeOK, NEW m \in Managers, Truncate(m)
  PROVE  ProcsOK'
<1>0. /\ m \in Procs /\ proc[m] \in ProcType /\ Shape(proc[m])
      /\ ProcsOK /\ FilesOK
  BY DEF TypeOK, ProcsOK, Procs
<1>1. proc[m].pc \in Handled /\ "write" \in Handled
  BY DEF Truncate, At, Handled, Settling
<1>2. proc' = [proc EXCEPT ![m].pc = "write"]
  BY DEF Truncate
<1> QED BY <1>0, <1>1, <1>2, OnFact

\* Writing the config keeps the message at hand.
LEMMA ProcsWriteConf ==
  ASSUME TypeOK, NEW m \in Managers, WriteConf(m)
  PROVE  ProcsOK'
<1>0. /\ m \in Procs /\ proc[m] \in ProcType /\ Shape(proc[m])
      /\ ProcsOK /\ FilesOK
  BY DEF TypeOK, ProcsOK, Procs
<1>1. proc[m].pc \in Handled /\ "mvdata" \in Handled /\ "unlock" \in Handled
  BY DEF WriteConf, At, Handled, Settling
<1>2. \E k \in {"mvdata", "unlock"} : proc' = [proc EXCEPT ![m].pc = k]
  BY DEF WriteConf, Written
<1> QED BY <1>0, <1>1, <1>2, OnFact

\* Writing into the archived config keeps the message at hand.
LEMMA ProcsWriteMoved ==
  ASSUME TypeOK, NEW m \in Managers, WriteMoved(m)
  PROVE  ProcsOK'
<1>0. /\ m \in Procs /\ proc[m] \in ProcType /\ Shape(proc[m])
      /\ ProcsOK /\ FilesOK
  BY DEF TypeOK, ProcsOK, Procs
<1>1. proc[m].pc \in Handled /\ "mvdata" \in Handled /\ "unlock" \in Handled
  BY DEF WriteMoved, At, Handled, Settling
<1>2. \E k \in {"mvdata", "unlock"} : proc' = [proc EXCEPT ![m].pc = k]
  BY DEF WriteMoved, Written
<1> QED BY <1>0, <1>1, <1>2, OnFact

\* Renaming the data keeps the message at hand, whether it works or not.
LEMMA ProcsMvData ==
  ASSUME TypeOK, NEW m \in Managers, MvData(m)
  PROVE  ProcsOK'
<1>0. /\ m \in Procs /\ proc[m] \in ProcType /\ Shape(proc[m])
      /\ ProcsOK /\ FilesOK
  BY DEF TypeOK, ProcsOK, Procs
<1>1. proc[m].pc \in Handled /\ "mvconf" \in Handled /\ "unlock" \in Handled
  BY DEF MvData, At, Handled, Settling
<1>2. \E k \in {"mvconf", "unlock"} : proc' = [proc EXCEPT ![m].pc = k]
  BY DEF MvData
<1> QED BY <1>0, <1>1, <1>2, OnFact

\* Renaming the config keeps its message at hand for all who write to it.
LEMMA ProcsMvConf ==
  ASSUME TypeOK, NEW m \in Managers, MvConf(m)
  PROVE  ProcsOK'
<1>0. /\ m \in Procs /\ proc[m] \in ProcType /\ Shape(proc[m])
      /\ ProcsOK /\ FilesOK
  BY DEF TypeOK, ProcsOK, Procs
<1>1. proc[m].pc \in Handled /\ "unlock" \in Handled
  BY DEF MvConf, At, Handled, Settling
<1>2. CASE proc' = [proc EXCEPT ![m].pc = "unlock"]
  BY <1>0, <1>1, <1>2, OnFact
<1>3. CASE proc' = [q \in Procs |->
                 IF q = m THEN [proc[q] EXCEPT !.pc = "unlock"]
                 ELSE IF proc[q].pc = "write" /\ proc[q].cur = proc[m].cur
                 THEN [proc[q] EXCEPT !.pc = "writemoved"]
                 ELSE proc[q]]
  <2>1. ASSUME NEW q \in Procs PROVE proc'[q] \in ProcType /\ Shape(proc'[q])
    <3>1. proc[q] \in ProcType /\ Shape(proc[q])
      BY <1>0 DEF ProcsOK
    <3>2. CASE q = m
      BY <1>1, <1>3, <3>1, <3>2 DEF ProcType, PCs, Shape, Handled, Settling, Mailing
    <3>3. CASE q # m /\ proc[q].pc = "write" /\ proc[q].cur = proc[m].cur
      BY <1>3, <3>1, <3>3 DEF ProcType, PCs, Shape, Handled, Settling, Mailing
    <3>4. CASE q # m /\ ~(proc[q].pc = "write" /\ proc[q].cur = proc[m].cur)
      BY <1>3, <3>1, <3>4
    <3> QED BY <3>2, <3>3, <3>4
  <2> QED BY <1>3, <2>1 DEF ProcsOK
<1> QED BY <1>2, <1>3 DEF MvConf

\* After the unlock the manager is gone, or selects without a message.
LEMMA ProcsUnlock ==
  ASSUME TypeOK, NEW m \in Managers, Unlock(m)
  PROVE  ProcsOK'
<1>0. /\ m \in Procs /\ proc[m] \in ProcType /\ Shape(proc[m])
      /\ ProcsOK /\ FilesOK
  BY DEF TypeOK, ProcsOK, Procs
<1> DEFINE r == [proc[m] EXCEPT !.pc = "select", !.cur = NoName, !.msg = NoConf,
                               !.out = "absent", !.resume = "off"]
<1>1. CASE proc[m].resume = "off"
  BY <1>0, <1>1, GoneFact DEF Unlock
<1>2. CASE proc[m].resume # "off"
  <2>1. NoConf \in ConfType
    BY DEF NoConf, ConfType, Status
  <2>2. r \in ProcType
    BY <1>0, <2>1 DEF ProcType, PCs, Status
  <2>3. Shape(r)
    BY <1>0 DEF Unlock, At, Shape, ProcType, Handled, Settling, Mailing
  <2>4. proc' = [proc EXCEPT ![m] = r]
    BY <1>0, <1>2 DEF Unlock, ProcsOK
  <2> HIDE DEF r
  <2> QED BY <1>0, <2>2, <2>3, <2>4, Become
<1> QED BY <1>1, <1>2

\* A receiver puts away a message while it has none at hand.
LEMMA ProcsReceive ==
  ASSUME TypeOK, NEW r \in Receivers, Receive(r)
  PROVE  ProcsOK'
<1>0. /\ r \in Procs /\ proc[r] \in ProcType /\ Shape(proc[r])
      /\ ProcsOK /\ FilesOK
  BY DEF TypeOK, ProcsOK, Procs
<1>1. PICK n \in Incoming, k \in 1..MaxRcpts : Deposit(r, n, Mail("received", k),
    "off", Idle)
  BY DEF Receive
<1>2. n \in Names /\ Mail("received", k) \in ConfType
  BY SpoolAssumption DEF Names, Mail, ConfType, Status, Live
<1>3. Idle.cur = NoName
  BY DEF Idle
<1> QED BY <1>0, <1>1, <1>2, <1>3, IdleFact, DepositFact

\* The locked mail is still the one being put away.
LEMMA ProcsLockMail ==
  ASSUME TypeOK, NEW p \in Procs, LockMail(p)
  PROVE  ProcsOK'
<1>0. /\ p \in Procs /\ proc[p] \in ProcType /\ Shape(proc[p])
      /\ ProcsOK /\ FilesOK
  BY DEF TypeOK, ProcsOK, Procs
<1>1. Shape([proc[p] EXCEPT !.pc = "writemail"])
  BY <1>0 DEF LockMail, At, Shape, ProcType, Handled, Settling, Mailing
<1>2. "writemail" \in PCs /\ proc' = [proc EXCEPT ![p].pc = "writemail"]
  BY DEF PCs, LockMail
<1> QED BY <1>0, <1>1, <1>2, MoveFact

\* The written mail is still the one being put away.
LEMMA ProcsWriteMail ==
  ASSUME TypeOK, NEW p \in Procs, WriteMail(p)
  PROVE  ProcsOK'
<1>0. /\ p \in Procs /\ proc[p] \in ProcType /\ Shape(proc[p])
      /\ ProcsOK /\ FilesOK
  BY DEF TypeOK, ProcsOK, Procs
<1>1. Shape([proc[p] EXCEPT !.pc = "unlockmail"])
  BY <1>0 DEF WriteMail, At, Shape, ProcType, Handled, Settling, Mailing
<1>2. "unlockmail" \in PCs /\ proc' = [proc EXCEPT ![p].pc = "unlockmail"]
  BY DEF PCs, WriteMail
<1> QED BY <1>0, <1>1, <1>2, MoveFact

\* A mail that is put away leaves the process where it came from.
LEMMA ProcsUnlockMail ==
  ASSUME TypeOK, NEW p \in Procs, UnlockMail(p)
  PROVE  ProcsOK'
<1>0. /\ p \in Procs /\ proc[p] \in ProcType /\ Shape(proc[p])
      /\ ProcsOK /\ FilesOK
  BY DEF TypeOK, ProcsOK, Procs
<1> DEFINE r == [proc[p] EXCEPT !.pc = proc[p].then, !.box = NoName, !.item = NoConf,
                               !.then = "off"]
<1>1. NoConf \in ConfType
  BY DEF NoConf, ConfType, Status
<1>2. r \in ProcType
  BY <1>0, <1>1 DEF ProcType, PCs
<1>3. Shape(r)
  BY <1>0 DEF UnlockMail, At, Shape, ProcType, Handled, Settling, Mailing
<1>4. proc' = [proc EXCEPT ![p] = r]
  BY <1>0 DEF UnlockMail, ProcsOK
<1> HIDE DEF r
<1> QED BY <1>0, <1>2, <1>3, <1>4, Become

\* ProcsOK is inductive relative to TypeOK.
LEMMA StepProcs == TypeOK /\ [Next]_vars => ProcsOK'
<1> SUFFICES ASSUME TypeOK, [Next]_vars PROVE ProcsOK'
  OBVIOUS
<1>1. ASSUME NEW m \in Managers, Start(m) PROVE ProcsOK'
  BY <1>1, ProcsStart
<1>2. ASSUME NEW m \in Managers, Unqueue(m) PROVE ProcsOK'
  BY <1>2, ProcsUnqueue
<1>3. ASSUME NEW m \in Managers, UnqueueEmpty(m) PROVE ProcsOK'
  BY <1>3, ProcsUnqueueEmpty
<1>4. ASSUME NEW m \in Managers, UnqueueDies(m) PROVE ProcsOK'
  BY <1>4, ProcsUnqueueDies
<1>5. ASSUME NEW m \in Managers, ScanDone(m) PROVE ProcsOK'
  BY <1>5, ProcsScanDone
<1>6. ASSUME NEW m \in Managers, PassOver(m) PROVE ProcsOK'
  BY <1>6, ProcsPassOver
<1>7. ASSUME NEW m \in Managers, Candidate(m) PROVE ProcsOK'
  BY <1>7, ProcsCandidate
<1>8. ASSUME NEW m \in Managers, Expire(m) PROVE ProcsOK'
  BY <1>8, ProcsExpire
<1>9. ASSUME NEW m \in Managers, GiveUp(m) PROVE ProcsOK'
  BY <1>9, ProcsGiveUp
<1>10. ASSUME NEW m \in Managers, Take(m) PROVE ProcsOK'
  BY <1>10, ProcsTake
<1>11. ASSUME NEW m \in Managers, NothingToDo(m) PROVE ProcsOK'
  BY <1>11, ProcsNothingToDo
<1>12. ASSUME NEW m \in Managers, StartSplit(m) PROVE ProcsOK'
  BY <1>12, ProcsStartSplit
<1>13. ASSUME NEW m \in Managers, Split(m) PROVE ProcsOK'
  BY <1>13, ProcsSplit
<1>14. ASSUME NEW m \in Managers, SplitDone(m) PROVE ProcsOK'
  BY <1>14, ProcsSplitDone
<1>15. ASSUME NEW m \in Managers, Answer(m) PROVE ProcsOK'
  BY <1>15, ProcsAnswer
<1>16. ASSUME NEW m \in Managers, AnswerMail(m) PROVE ProcsOK'
  BY <1>16, ProcsAnswerMail
<1>38. ASSUME NEW m \in Managers, AnswerDone(m) PROVE ProcsOK'
  BY <1>38, ProcsAnswerDone
<1>17. ASSUME NEW m \in Managers, Judge(m) PROVE ProcsOK'
  BY <1>17, ProcsJudge
<1>18. ASSUME NEW m \in Managers, Broadcast(m) PROVE ProcsOK'
  BY <1>18, ProcsBroadcast
<1>19. ASSUME NEW m \in Managers, CastMail(m) PROVE ProcsOK'
  BY <1>19, ProcsCastMail
<1>20. ASSUME NEW m \in Managers, CastDone(m) PROVE ProcsOK'
  BY <1>20, ProcsCastDone
<1>21. ASSUME NEW m \in Managers, Transmit(m) PROVE ProcsOK'
  BY <1>21, ProcsTransmit
<1>39. ASSUME NEW m \in Managers, Deliver(m) PROVE ProcsOK'
  BY <1>39, ProcsDeliver
<1>22. ASSUME NEW m \in Managers, UnknownStatus(m) PROVE ProcsOK'
  BY <1>22, ProcsUnknownStatus
<1>23. ASSUME NEW m \in Managers, Truncate(m) PROVE ProcsOK'
  BY <1>23, ProcsTruncate
<1>24. ASSUME NEW m \in Managers, WriteConf(m) PROVE ProcsOK'
  BY <1>24, ProcsWriteConf
<1>25. ASSUME NEW m \in Managers, WriteMoved(m) PROVE ProcsOK'
  BY <1>25, ProcsWriteMoved
<1>26. ASSUME NEW m \in Managers, MvData(m) PROVE ProcsOK'
  BY <1>26, ProcsMvData
<1>27. ASSUME NEW m \in Managers, MvConf(m) PROVE ProcsOK'
  BY <1>27, ProcsMvConf
<1>28. ASSUME NEW m \in Managers, Unlock(m) PROVE ProcsOK'
  BY <1>28, ProcsUnlock
<1>29. ASSUME NEW r \in Receivers, Receive(r) PROVE ProcsOK'
  BY <1>29, ProcsReceive
<1>30. ASSUME NEW p \in Procs, LockMail(p) PROVE ProcsOK'
  BY <1>30, ProcsLockMail
<1>31. ASSUME NEW p \in Procs, WriteMail(p) PROVE ProcsOK'
  BY <1>31, ProcsWriteMail
<1>32. ASSUME NEW p \in Procs, UnlockMail(p) PROVE ProcsOK'
  BY <1>32, ProcsUnlockMail
<1>33. ASSUME NEW n \in Names, Due(n) PROVE ProcsOK'
  BY <1>33 DEF TypeOK, ProcsOK, Due
<1>34. ASSUME NEW n \in Names, Old(n) PROVE ProcsOK'
  BY <1>34 DEF TypeOK, ProcsOK, Old
<1>35. ASSUME NEW n \in Names, DomainDies(n) PROVE ProcsOK'
  BY <1>35 DEF TypeOK, ProcsOK, DomainDies
<1>36. ASSUME NEW p \in Procs, Crash(p) PROVE ProcsOK'
  BY <1>36, GoneFact DEF TypeOK, Crash
<1>37. ASSUME UNCHANGED vars PROVE ProcsOK'
  BY <1>37 DEF TypeOK, ProcsOK, vars
<1> QED
  BY <1>1, <1>2, <1>3, <1>4, <1>5, <1>6, <1>7, <1>8, <1>9, <1>10, <1>11, <1>12, <1>13,
     <1>14, <1>15, <1>16, <1>17, <1>18, <1>19, <1>20, <1>21, <1>22, <1>23, <1>24,
     <1>25, <1>26, <1>27, <1>28, <1>29, <1>30, <1>31, <1>32, <1>33, <1>34, <1>35,
     <1>36, <1>37, <1>38, <1>39
  DEF Next, Select, Handle, Finish, PutMail, Environment, Procs

-----------------------------------------------------------------------------
(* Each action keeps the files well formed                                 *)

\* What ProcsOK says of one process.
LEMMA ProcRecord ==
  ASSUME ProcsOK
  PROVE  /\ Managers \subseteq Procs
         /\ \A p \in Procs : proc[p] \in ProcType /\ Shape(proc[p])
  BY DEF ProcsOK, Procs

\* The config that Config::write truncates keeps its shape.
LEMMA TruncateFiles ==
  ASSUME FilesOK, NEW m \in Managers, Truncate(m)
  PROVE  FilesOK'
<1>1. ASSUME NEW c \in ConfType PROVE [c EXCEPT !.file = "empty"] \in ConfType
  BY DEF ConfType
<1>2. conf' \in [Names -> ConfType]
  BY <1>1 DEF FilesOK, Truncate
<1> QED BY <1>2 DEF FilesOK, Truncate

\* What a manager writes into a config is a config.
LEMMA WriteConfFiles ==
  ASSUME FilesOK, ProcsOK, NEW m \in Managers, WriteConf(m)
  PROVE  FilesOK'
<1> DEFINE p == proc[m]
           c == [p.msg EXCEPT !.stat = p.out,
                              !.tries = IF p.out = "spooled" THEN @ + 1 ELSE @]
<1>1. p.msg \in ConfType /\ p.out \in Status
  BY ProcRecord DEF ProcType
<1>2. c \in ConfType
  <2> DEFINE t == IF p.out = "spooled" THEN p.msg.tries + 1 ELSE p.msg.tries
  <2>1. t \in Nat
    BY <1>1 DEF ConfType
  <2>2. c = [p.msg EXCEPT !.stat = p.out, !.tries = t]
    BY <1>1 DEF ConfType
  <2> HIDE DEF t, c
  <2> QED BY <1>1, <2>1, <2>2 DEF ConfType
<1>3. conf' = [conf EXCEPT ![p.cur] = c]
  BY DEF WriteConf
<1> HIDE DEF c
<1>4. conf' \in [Names -> ConfType]
  BY <1>2, <1>3 DEF FilesOK
<1> QED BY <1>4 DEF FilesOK, WriteConf

\* What is moved to the done directory had a status.
LEMMA MvConfFiles ==
  ASSUME FilesOK, NEW m \in Managers, MvConf(m)
  PROVE  FilesOK'
<1>1. NoConf \in ConfType
  BY DEF NoConf, ConfType, Status
<1>2. conf' \in [Names -> ConfType]
  BY <1>1 DEF FilesOK, MvConf
<1>3. \A n \in Names : conf[n].stat \in Status
  BY DEF FilesOK, ConfType
<1>4. archive' \in [Names -> Status \cup {"none", "empty"}]
  BY <1>3 DEF FilesOK, MvConf
<1> QED BY <1>2, <1>4 DEF FilesOK, MvConf

\* FilesOK is inductive relative to TypeOK.
LEMMA StepFiles == TypeOK /\ [Next]_vars => FilesOK'
<1> SUFFICES ASSUME TypeOK, [Next]_vars PROVE FilesOK'
  OBVIOUS
<1>0. FilesOK /\ ProcsOK
  BY DEF TypeOK
<1>1. ASSUME NEW m \in Managers, Start(m) PROVE FilesOK'
  BY <1>0, <1>1 DEF FilesOK, Start, files
<1>2. ASSUME NEW m \in Managers, Unqueue(m) PROVE FilesOK'
  BY <1>0, <1>2 DEF FilesOK, Unqueue, files
<1>3. ASSUME NEW m \in Managers, UnqueueEmpty(m) PROVE FilesOK'
  BY <1>0, <1>3 DEF FilesOK, UnqueueEmpty, files
<1>4. ASSUME NEW m \in Managers, UnqueueDies(m) PROVE FilesOK'
  BY <1>0, <1>4 DEF FilesOK, UnqueueDies, files
<1>5. ASSUME NEW m \in Managers, ScanDone(m) PROVE FilesOK'
  BY <1>0, <1>5 DEF FilesOK, ScanDone, files
<1>6. ASSUME NEW m \in Managers, PassOver(m) PROVE FilesOK'
  BY <1>0, <1>6 DEF FilesOK, PassOver, Unlocked
<1>7. ASSUME NEW m \in Managers, Candidate(m) PROVE FilesOK'
  BY <1>0, <1>7 DEF FilesOK, Candidate, Unlocked
<1>8. ASSUME NEW m \in Managers, Expire(m) PROVE FilesOK'
  BY <1>0, <1>8 DEF FilesOK, Expire, Unlocked
<1>9. ASSUME NEW m \in Managers, GiveUp(m) PROVE FilesOK'
  BY <1>0, <1>9 DEF FilesOK, GiveUp, Procs
<1>10. ASSUME NEW m \in Managers, Take(m) PROVE FilesOK'
  BY <1>0, <1>10 DEF FilesOK, Take, Procs
<1>11. ASSUME NEW m \in Managers, NothingToDo(m) PROVE FilesOK'
  BY <1>0, <1>11 DEF FilesOK, NothingToDo, files
<1>12. ASSUME NEW m \in Managers, StartSplit(m) PROVE FilesOK'
  BY <1>0, <1>12 DEF FilesOK, StartSplit, files
<1>13. ASSUME NEW m \in Managers, Split(m) PROVE FilesOK'
  BY <1>0, <1>13 DEF FilesOK, Split, files
<1>14. ASSUME NEW m \in Managers, SplitDone(m) PROVE FilesOK'
  BY <1>0, <1>14 DEF FilesOK, SplitDone, files
<1>15. ASSUME NEW m \in Managers, Answer(m) PROVE FilesOK'
  BY <1>0, <1>15 DEF FilesOK, Answer, files
<1>16. ASSUME NEW m \in Managers, AnswerMail(m) PROVE FilesOK'
  BY <1>0, <1>16 DEF FilesOK, AnswerMail, files
<1>38. ASSUME NEW m \in Managers, AnswerDone(m) PROVE FilesOK'
  BY <1>0, <1>38 DEF FilesOK, AnswerDone, files
<1>17. ASSUME NEW m \in Managers, Judge(m) PROVE FilesOK'
  BY <1>0, <1>17 DEF FilesOK, Judge, files
<1>18. ASSUME NEW m \in Managers, Broadcast(m) PROVE FilesOK'
  BY <1>0, <1>18 DEF FilesOK, Broadcast, files
<1>19. ASSUME NEW m \in Managers, CastMail(m) PROVE FilesOK'
  BY <1>0, <1>19 DEF FilesOK, CastMail, files
<1>20. ASSUME NEW m \in Managers, CastDone(m) PROVE FilesOK'
  BY <1>0, <1>20 DEF FilesOK, CastDone, files
<1>21. ASSUME NEW m \in Managers, Transmit(m) PROVE FilesOK'
  BY <1>0, <1>21 DEF FilesOK, Transmit, files
<1>39. ASSUME NEW m \in Managers, Deliver(m) PROVE FilesOK'
  BY <1>0, <1>39 DEF FilesOK, Deliver, files
<1>22. ASSUME NEW m \in Managers, UnknownStatus(m) PROVE FilesOK'
  BY <1>0, <1>22 DEF FilesOK, UnknownStatus, Orphaned
<1>23. ASSUME NEW m \in Managers, Truncate(m) PROVE FilesOK'
  BY <1>0, <1>23, TruncateFiles
<1>24. ASSUME NEW m \in Managers, WriteConf(m) PROVE FilesOK'
  BY <1>0, <1>24, WriteConfFiles
<1>25. ASSUME NEW m \in Managers, WriteMoved(m) PROVE FilesOK'
  BY <1>0, <1>25, ProcRecord DEF FilesOK, WriteMoved, ProcType
<1>26. ASSUME NEW m \in Managers, MvData(m) PROVE FilesOK'
  BY <1>0, <1>26 DEF FilesOK, MvData
<1>27. ASSUME NEW m \in Managers, MvConf(m) PROVE FilesOK'
  BY <1>0, <1>27, MvConfFiles
<1>28. ASSUME NEW m \in Managers, Unlock(m) PROVE FilesOK'
  BY <1>0, <1>28 DEF FilesOK, Unlock
<1>29. ASSUME NEW r \in Receivers, Receive(r) PROVE FilesOK'
  BY <1>0, <1>29 DEF FilesOK, Receive, files
<1>30. ASSUME NEW p \in Procs, LockMail(p) PROVE FilesOK'
  BY <1>0, <1>30 DEF FilesOK, LockMail
<1>31. ASSUME NEW p \in Procs, WriteMail(p) PROVE FilesOK'
  BY <1>0, <1>31, ProcRecord DEF FilesOK, WriteMail, ProcType
<1>32. ASSUME NEW p \in Procs, UnlockMail(p) PROVE FilesOK'
  BY <1>0, <1>32 DEF FilesOK, UnlockMail
<1>33. ASSUME NEW n \in Names, Due(n) PROVE FilesOK'
  BY <1>0, <1>33 DEF FilesOK, Due, files
<1>34. ASSUME NEW n \in Names, Old(n) PROVE FilesOK'
  BY <1>0, <1>34 DEF FilesOK, Old, files
<1>35. ASSUME NEW n \in Names, DomainDies(n) PROVE FilesOK'
  BY <1>0, <1>35 DEF FilesOK, DomainDies, files
<1>36. ASSUME NEW p \in Procs, Crash(p) PROVE FilesOK'
  BY <1>0, <1>36 DEF FilesOK, Crash, Orphaned
<1>37. ASSUME UNCHANGED vars PROVE FilesOK'
  BY <1>0, <1>37 DEF FilesOK, vars, files
<1> QED
  BY <1>1, <1>2, <1>3, <1>4, <1>5, <1>6, <1>7, <1>8, <1>9, <1>10, <1>11, <1>12, <1>13,
     <1>14, <1>15, <1>16, <1>17, <1>18, <1>19, <1>20, <1>21, <1>22, <1>23, <1>24,
     <1>25, <1>26, <1>27, <1>28, <1>29, <1>30, <1>31, <1>32, <1>33, <1>34, <1>35,
     <1>36, <1>37, <1>38, <1>39
  DEF Next, Select, Handle, Finish, PutMail, Environment, Procs

\* The history of a message, and of all.
Entry == [asked : Nat, clones : Nat, sent : Nat, lost : Nat, had : SUBSET Status]
Books == [Names -> Entry]

\* Counting keeps the history well formed.
LEMMA BookFact ==
  ASSUME ClockOK, NEW n
  PROVE  /\ \A k \in Nat : [book EXCEPT ![n].asked = k] \in Books
         /\ [book EXCEPT ![n].clones = @ + 1] \in Books
         /\ [book EXCEPT ![n].sent = @ + 1] \in Books
         /\ [book EXCEPT ![n].sent = @ + 1, ![n].lost = @ + 1] \in Books
         /\ \A s \in Status : Noted(n, s) \in Books
<1>1. book \in [Names -> Entry]
  BY DEF ClockOK, Entry
<1>2. CASE n \notin Names
  BY <1>1, <1>2 DEF Noted, Books
<1>3. CASE n \in Names
  <2> DEFINE e == book[n]
  <2>1. e \in Entry
    BY <1>1, <1>3
  <2>2. /\ \A k \in Nat : [e EXCEPT !.asked = k] \in Entry
        /\ [e EXCEPT !.clones = e.clones + 1] \in Entry
        /\ [e EXCEPT !.sent = e.sent + 1] \in Entry
        /\ [e EXCEPT !.sent = e.sent + 1, !.lost = e.lost + 1] \in Entry
    <3>1. PICK S : S = SUBSET Status /\ Entry = [asked : Nat, clones : Nat, sent : Nat,
                                                 lost : Nat, had : S]
      BY DEF Entry
    <3>2. e.clones + 1 \in Nat /\ e.sent + 1 \in Nat /\ e.lost + 1 \in Nat
      BY <2>1, <3>1
    <3> HIDE DEF e
    <3>3. /\ \A k \in Nat : [e EXCEPT !.asked = k] \in Entry
          /\ \A k \in Nat : [e EXCEPT !.clones = k] \in Entry
          /\ \A k, l \in Nat : [e EXCEPT !.sent = k, !.lost = l] \in Entry
          /\ \A k \in Nat : [e EXCEPT !.sent = k] \in Entry
      BY <2>1, <3>1
    <3> QED BY <3>2, <3>3
  <2>3. \A s \in Status : [e EXCEPT !.had = e.had \cup {s}] \in Entry
    <3>1. \A s \in Status : e.had \cup {s} \in SUBSET Status
      BY <2>1 DEF Entry
    <3>2. PICK S : S = SUBSET Status /\ Entry = [asked : Nat, clones : Nat, sent : Nat,
                                                 lost : Nat, had : S]
      BY DEF Entry
    <3> HIDE DEF e
    <3>3. \A h \in S : [e EXCEPT !.had = h] \in Entry
      BY <2>1, <3>2
    <3> QED BY <3>1, <3>2, <3>3
  <2>4. \A x \in Entry : [book EXCEPT ![n] = x] \in Books
    BY <1>1 DEF Books
  <2>5. /\ \A k \in Nat : [book EXCEPT ![n].asked = k] = [book EXCEPT ![n] = [e EXCEPT !.asked = k]]
        /\ [book EXCEPT ![n].clones = @ + 1] = [book EXCEPT ![n] = [e EXCEPT !.clones = e.clones + 1]]
        /\ [book EXCEPT ![n].sent = @ + 1] = [book EXCEPT ![n] = [e EXCEPT !.sent = e.sent + 1]]
        /\ \A s \in Status : Noted(n, s) = [book EXCEPT ![n] = [e EXCEPT !.had = e.had \cup {s}]]
    BY <1>1, <1>3 DEF Noted
  <2>6. [book EXCEPT ![n].sent = @ + 1, ![n].lost = @ + 1] =
          [book EXCEPT ![n] = [e EXCEPT !.sent = e.sent + 1, !.lost = e.lost + 1]]
    BY <1>1, <1>3, <2>1 DEF Entry
  <2> HIDE DEF e
  <2> HIDE DEF Entry, Books, Noted
  <2>7. \A k \in Nat : [book EXCEPT ![n].asked = k] \in Books
    <3>1. TAKE k \in Nat
    <3>2. [e EXCEPT !.asked = k] \in Entry
      BY <2>2
    <3>3. [book EXCEPT ![n] = [e EXCEPT !.asked = k]] \in Books
      BY <2>4, <3>2
    <3> QED BY <2>5, <3>3
  <2>8. [book EXCEPT ![n].clones = @ + 1] \in Books
    BY <2>2, <2>4, <2>5
  <2>9. [book EXCEPT ![n].sent = @ + 1] \in Books
    BY <2>2, <2>4, <2>5
  <2>10. [book EXCEPT ![n].sent = @ + 1, ![n].lost = @ + 1] \in Books
    <3>1. [book EXCEPT ![n] = [e EXCEPT !.sent = e.sent + 1, !.lost = e.lost + 1]] \in Books
      BY <2>2, <2>4
    <3> QED BY <2>6, <3>1
  <2>11. \A s \in Status : Noted(n, s) \in Books
    <3>1. TAKE s \in Status
    <3>2. [book EXCEPT ![n] = [e EXCEPT !.had = e.had \cup {s}]] \in Books
      BY <2>3, <2>4
    <3> QED BY <2>5, <3>2
  <2> QED BY <2>7, <2>8, <2>9, <2>10, <2>11
<1> QED BY <1>2, <1>3

\* ClockOK is inductive relative to TypeOK.
LEMMA StepClock == TypeOK /\ [Next]_vars => ClockOK'
<1> SUFFICES ASSUME TypeOK, [Next]_vars PROVE ClockOK'
  OBVIOUS
<1>0. /\ ClockOK /\ Managers \subseteq Procs
      /\ \A p \in Procs : proc[p].out \in Status /\ proc[p].item.stat \in Status
  BY ProcRecord DEF TypeOK, ProcType, ConfType
<1>1. ASSUME NEW m \in Managers, Start(m) PROVE ClockOK'
  BY <1>0, <1>1 DEF ClockOK, Start, clock
<1>2. ASSUME NEW m \in Managers, Unqueue(m) PROVE ClockOK'
  BY <1>0, <1>2 DEF ClockOK, Unqueue, clock
<1>3. ASSUME NEW m \in Managers, UnqueueEmpty(m) PROVE ClockOK'
  BY <1>0, <1>3 DEF ClockOK, UnqueueEmpty, clock
<1>4. ASSUME NEW m \in Managers, UnqueueDies(m) PROVE ClockOK'
  BY <1>0, <1>4 DEF ClockOK, UnqueueDies, clock
<1>5. ASSUME NEW m \in Managers, ScanDone(m) PROVE ClockOK'
  BY <1>0, <1>5 DEF ClockOK, ScanDone, clock
<1>6. ASSUME NEW m \in Managers, PassOver(m) PROVE ClockOK'
  BY <1>0, <1>6 DEF ClockOK, PassOver, clock
<1>7. ASSUME NEW m \in Managers, Candidate(m) PROVE ClockOK'
  BY <1>0, <1>7 DEF ClockOK, Candidate, clock
<1>8. ASSUME NEW m \in Managers, Expire(m) PROVE ClockOK'
  BY <1>0, <1>8 DEF ClockOK, Expire, clock
<1>9. ASSUME NEW m \in Managers, GiveUp(m) PROVE ClockOK'
  BY <1>0, <1>9 DEF ClockOK, GiveUp, clock
<1>10. ASSUME NEW m \in Managers, Take(m) PROVE ClockOK'
  BY <1>0, <1>10 DEF ClockOK, Take, clock
<1>11. ASSUME NEW m \in Managers, NothingToDo(m) PROVE ClockOK'
  BY <1>0, <1>11 DEF ClockOK, NothingToDo, clock
<1>12. ASSUME NEW m \in Managers, StartSplit(m) PROVE ClockOK'
  BY <1>0, <1>12 DEF ClockOK, StartSplit, clock
<1>13. ASSUME NEW m \in Managers, Split(m) PROVE ClockOK'
  <2>1. book' = book \/ book' = [book EXCEPT ![proc[m].cur].clones = @ + 1]
    BY <1>13 DEF Split
  <2> DEFINE n == proc[m].cur
  <2>2. book' \in Books
    <3>1. [book EXCEPT ![n].clones = @ + 1] \in Books
      <4> HIDE DEF n
      <4> QED BY <1>0, BookFact
    <3> QED BY <1>0, <2>1, <3>1 DEF ClockOK, Books, Entry
  <2> QED BY <1>0, <1>13, <2>2 DEF ClockOK, Books, Entry, Split, clock
<1>14. ASSUME NEW m \in Managers, SplitDone(m) PROVE ClockOK'
  BY <1>0, <1>14 DEF ClockOK, SplitDone, clock
<1>15. ASSUME NEW m \in Managers, Answer(m) PROVE ClockOK'
  BY <1>0, <1>15 DEF ClockOK, Answer, clock
<1>16. ASSUME NEW m \in Managers, AnswerMail(m) PROVE ClockOK'
  BY <1>0, <1>16 DEF ClockOK, AnswerMail, clock
<1>38. ASSUME NEW m \in Managers, AnswerDone(m) PROVE ClockOK'
  BY <1>0, <1>38 DEF ClockOK, AnswerDone, clock
<1>17. ASSUME NEW m \in Managers, Judge(m) PROVE ClockOK'
  BY <1>0, <1>17 DEF ClockOK, Judge, clock
<1>18. ASSUME NEW m \in Managers, Broadcast(m) PROVE ClockOK'
  BY <1>0, <1>18 DEF ClockOK, Broadcast, clock
<1>19. ASSUME NEW m \in Managers, CastMail(m) PROVE ClockOK'
  BY <1>0, <1>19 DEF ClockOK, CastMail, clock
<1>20. ASSUME NEW m \in Managers, CastDone(m) PROVE ClockOK'
  <2>1. CASE data[proc[m].cur] = "spool"
    <3> DEFINE n == proc[m].cur
    <3>1. book' = [book EXCEPT ![n].sent = @ + 1]
      BY <1>20, <2>1 DEF CastDone
    <3>2. book' \in Books
      <4> HIDE DEF n
      <4> QED BY <1>0, <3>1, BookFact
    <3> QED BY <1>0, <1>20, <3>2 DEF ClockOK, Books, Entry, CastDone, clock
  <2>2. CASE data[proc[m].cur] # "spool"
    <3>1. book' = book
      BY <1>20, <2>2 DEF CastDone
    <3> QED BY <1>0, <1>20, <3>1 DEF ClockOK, CastDone, clock
  <2> QED BY <2>1, <2>2
<1>21. ASSUME NEW m \in Managers, Transmit(m) PROVE ClockOK'
  BY <1>0, <1>21 DEF ClockOK, Transmit, clock
<1>39. ASSUME NEW m \in Managers, Deliver(m) PROVE ClockOK'
  <2> DEFINE n == proc[m].cur
  <2>1. \/ book' = book \/ book' = [book EXCEPT ![n].sent = @ + 1]
        \/ book' = [book EXCEPT ![n].sent = @ + 1, ![n].lost = @ + 1]
    BY <1>39 DEF Deliver
  <2> HIDE DEF n
  <2>2. book \in Books
    BY <1>0 DEF ClockOK, Books, Entry
  <2>3. book' \in Books
    BY <1>0, <2>1, <2>2, BookFact
  <2> QED BY <1>0, <1>39, <2>3 DEF ClockOK, Books, Entry, Deliver, clock
<1>22. ASSUME NEW m \in Managers, UnknownStatus(m) PROVE ClockOK'
  BY <1>0, <1>22 DEF ClockOK, UnknownStatus, clock
<1>23. ASSUME NEW m \in Managers, Truncate(m) PROVE ClockOK'
  BY <1>0, <1>23 DEF ClockOK, Truncate, clock
<1>24. ASSUME NEW m \in Managers, WriteConf(m) PROVE ClockOK'
  <2>1. book' = Noted(proc[m].cur, proc[m].out)
    BY <1>24 DEF WriteConf
  <2>2. book' \in Books /\ due' \subseteq due
    BY <1>0, <1>24, <2>1, BookFact DEF WriteConf
  <2> QED BY <1>0, <1>24, <2>2 DEF ClockOK, Books, Entry, WriteConf, clock
<1>25. ASSUME NEW m \in Managers, WriteMoved(m) PROVE ClockOK'
  <2>1. book' = Noted(proc[m].cur, proc[m].out)
    BY <1>25 DEF WriteMoved
  <2>2. book' \in Books
    BY <1>0, <2>1, BookFact
  <2> QED BY <1>0, <1>25, <2>2 DEF ClockOK, Books, Entry, WriteMoved, clock
<1>26. ASSUME NEW m \in Managers, MvData(m) PROVE ClockOK'
  BY <1>0, <1>26 DEF ClockOK, MvData, clock
<1>27. ASSUME NEW m \in Managers, MvConf(m) PROVE ClockOK'
  BY <1>0, <1>27 DEF ClockOK, MvConf, clock
<1>28. ASSUME NEW m \in Managers, Unlock(m) PROVE ClockOK'
  BY <1>0, <1>28 DEF ClockOK, Unlock, clock
<1>29. ASSUME NEW r \in Receivers, Receive(r) PROVE ClockOK'
  <2>1. PICK n \in Incoming, k \in 1..MaxRcpts : book' = [book EXCEPT ![n].asked = k]
    BY <1>29 DEF Receive
  <2>2. k \in Nat
    BY SpoolAssumption
  <2>3. book' \in Books
    BY <1>0, <2>1, <2>2, BookFact
  <2> QED BY <1>0, <1>29, <2>3 DEF ClockOK, Books, Entry, Receive, clock
<1>30. ASSUME NEW p \in Procs, LockMail(p) PROVE ClockOK'
  BY <1>0, <1>30 DEF ClockOK, LockMail, clock
<1>31. ASSUME NEW p \in Procs, WriteMail(p) PROVE ClockOK'
  <2>1. book' = Noted(proc[p].box, proc[p].item.stat)
    BY <1>31 DEF WriteMail
  <2>2. book' \in Books
    BY <1>0, <2>1, BookFact
  <2> QED BY <1>0, <1>31, <2>2 DEF ClockOK, Books, Entry, WriteMail, clock
<1>32. ASSUME NEW p \in Procs, UnlockMail(p) PROVE ClockOK'
  BY <1>0, <1>32 DEF ClockOK, UnlockMail, clock
<1>33. ASSUME NEW n \in Names, Due(n) PROVE ClockOK'
  BY <1>0, <1>33 DEF ClockOK, Due
<1>34. ASSUME NEW n \in Names, Old(n) PROVE ClockOK'
  BY <1>0, <1>34 DEF ClockOK, Old
<1>35. ASSUME NEW n \in Names, DomainDies(n) PROVE ClockOK'
  BY <1>0, <1>35 DEF ClockOK, DomainDies
<1>36. ASSUME NEW p \in Procs, Crash(p) PROVE ClockOK'
  BY <1>0, <1>36, SpoolAssumption DEF ClockOK, Crash, clock
<1>37. ASSUME UNCHANGED vars PROVE ClockOK'
  BY <1>0, <1>37 DEF ClockOK, vars, clock
<1> QED
  BY <1>1, <1>2, <1>3, <1>4, <1>5, <1>6, <1>7, <1>8, <1>9, <1>10, <1>11, <1>12, <1>13,
     <1>14, <1>15, <1>16, <1>17, <1>18, <1>19, <1>20, <1>21, <1>22, <1>23, <1>24,
     <1>25, <1>26, <1>27, <1>28, <1>29, <1>30, <1>31, <1>32, <1>33, <1>34, <1>35,
     <1>36, <1>37, <1>38, <1>39
  DEF Next, Select, Handle, Finish, PutMail, Environment, Procs

\* The empty spool is well formed.
LEMMA InitTypeOK == Init => TypeOK
<1> SUFFICES ASSUME Init PROVE TypeOK
  OBVIOUS
<1>1. FilesOK
  BY DEF Init, FilesOK, NoConf, ConfType, Status
<1>2. ProcsOK
  BY IdleFact DEF Init, ProcsOK
<1>3. ClockOK
  BY SpoolAssumption DEF Init, ClockOK
<1> QED BY <1>1, <1>2, <1>3 DEF TypeOK

\* The variables always have their types, and a process that is about to use the
\* message it handles always has one.
THEOREM Typing == Spec => []TypeOK
<1>1. TypeOK /\ [Next]_vars => TypeOK'
  BY StepFiles, StepProcs, StepClock DEF TypeOK
<1> QED BY InitTypeOK, <1>1, PTL DEF Spec

-----------------------------------------------------------------------------
(* A message is put away once, with its data                               *)

\* A message that is about to get its files is nowhere yet.
BoxIsNew ==
  \A p \in Procs : proc[p].pc = "lockmail" => data[proc[p].box] = "none"

\* Two processes never put a message of the same name into the spool.
BoxIsOwn ==
  \A p, q \in Procs : proc[p].box = proc[q].box /\ proc[p].box # NoName => p = q

\* Whoever moves the config has moved the data before.
MoverHasData ==
  \A p \in Procs : proc[p].pc = "mvconf" => data[proc[p].cur] = "done"

\* A config that is open for writing while it is moved is written where it went.
WriterIsArchived ==
  \A p \in Procs : proc[p].pc = "writemoved" => data[proc[p].cur] = "done"

Safe == /\ BoxIsNew /\ BoxIsOwn /\ MoverHasData /\ WriterIsArchived
        /\ ArchiveComplete /\ OneMover

SInv == TypeOK /\ Safe

\* Only process p takes a step, and the data and the done directory stay.
Alone(p) ==
  /\ UNCHANGED <<data, archive>>
  /\ \A q \in Procs \ {p} : proc'[q] = proc[q]

\* A step of one process to a place of the code where nothing is promised.
LEMMA QuietStep ==
  ASSUME Safe, NEW p \in Procs, Alone(p),
         proc'[p].pc \notin {"lockmail", "mvconf", "writemoved"},
         proc'[p].box \in {NoName, proc[p].box}
  PROVE  Safe'
<1>1. BoxIsNew'
  BY DEF Safe, BoxIsNew, Alone
<1>2. BoxIsOwn'
  BY DEF Safe, BoxIsOwn, Alone
<1>3. MoverHasData' /\ WriterIsArchived'
  BY DEF Safe, MoverHasData, WriterIsArchived, Alone
<1>4. ArchiveComplete' /\ OneMover'
  BY DEF Safe, ArchiveComplete, OneMover, Alone
<1> QED BY <1>1, <1>2, <1>3, <1>4 DEF Safe

\* A step of one process to the putting of a message with a new name.
LEMMA DepositStep ==
  ASSUME Safe, NEW p \in Procs, Alone(p), NEW k \in Names, Fresh(k),
         proc'[p].pc = "lockmail", proc'[p].box = k
  PROVE  Safe'
<1>1. BoxIsNew'
  BY DEF Safe, BoxIsNew, Alone, Fresh
<1>2. BoxIsOwn'
  BY DEF Safe, BoxIsOwn, Alone, Fresh
<1>3. MoverHasData' /\ WriterIsArchived'
  BY DEF Safe, MoverHasData, WriterIsArchived, Alone
<1>4. ArchiveComplete' /\ OneMover'
  BY DEF Safe, ArchiveComplete, OneMover, Alone
<1> QED BY <1>1, <1>2, <1>3, <1>4 DEF Safe

\* A step that puts a mail into the spool which Limez writes itself.
LEMMA ReplyStep ==
  ASSUME Safe, ProcsOK, NEW p \in Procs, NEW next, NEW rest \in ProcType,
         Reply(p, next, rest), UNCHANGED <<data, archive>>
  PROVE  Safe'
<1>1. PICK k \in MailNames : Fresh(k) /\ Deposit(p, k, Mail("created", 1), next, rest)
  BY DEF Reply
<1>2. Alone(p)
  BY <1>1 DEF Alone, ProcsOK, Deposit
<1>3. k \in Names /\ proc'[p].pc = "lockmail" /\ proc'[p].box = k
  BY <1>1 DEF ProcsOK, ProcType, Deposit, Names
<1> QED BY <1>1, <1>2, <1>3, DepositStep

\* A process that ends promises nothing any more.
LEMMA GoneStep ==
  ASSUME Safe, ProcsOK, NEW p \in Procs, Gone(p), UNCHANGED <<data, archive>>
  PROVE  Safe'
<1>1. Alone(p)
  BY DEF Alone, ProcsOK, Gone
<1>2. proc'[p].pc = "off" /\ proc'[p].box = NoName
  BY DEF ProcsOK, Gone, Idle
<1> QED BY <1>1, <1>2, QuietStep

-----------------------------------------------------------------------------
(* The actions that deal with the files of a message                       *)

\* The name a message is put under is new, so nobody is moving that message.
LEMMA SafeLockMail ==
  ASSUME SInv, NEW p \in Procs, LockMail(p), data' = [data EXCEPT ![proc[p].box] = "spool"]
  PROVE  Safe'
<1>0. /\ ProcsOK /\ FilesOK /\ Safe
      /\ proc[p] \in ProcType /\ Shape(proc[p]) /\ proc[p].pc = "lockmail"
  BY DEF SInv, TypeOK, ProcsOK, LockMail, At
<1> DEFINE k == proc[p].box
<1>1. k \in Names /\ k # NoName /\ data[k] = "none"
  BY <1>0 DEF Shape, ProcType, Mailing, Safe, BoxIsNew
<1>2. data' = [data EXCEPT ![k] = "spool"] /\ archive' = archive
  BY DEF LockMail
<1>3. \A q \in Procs \ {p} : proc'[q] = proc[q]
  BY <1>0 DEF LockMail, ProcsOK
<1>4. proc'[p].pc = "writemail" /\ proc'[p].box = k
  BY <1>0 DEF LockMail, ProcsOK, ProcType
<1>5. \A n \in Names \ {k} : data'[n] = data[n]
  BY <1>2, <1>0 DEF FilesOK
<1> HIDE DEF k
<1>6. \A q \in Procs \ {p} : proc[q].box # k
  BY <1>0, <1>1 DEF Safe, BoxIsOwn, k
<1>7. \A q \in Procs \ {p} :
        proc[q].pc = "lockmail" => proc[q].box \in Names \ {k}
  <2>1. \A q \in Procs : proc[q].pc = "lockmail" => proc[q].box \in Names
    BY <1>0 DEF ProcsOK, ProcType, Shape, Mailing
  <2> QED BY <1>6, <2>1
<1>8. \A q \in Procs : proc[q].pc \in {"mvconf", "writemoved"} => proc[q].cur \in Names
  BY <1>0 DEF ProcsOK, Shape, Handled, Settling
<1>a. BoxIsNew'
  BY <1>0, <1>3, <1>4, <1>5, <1>7 DEF Safe, BoxIsNew
<1>b. BoxIsOwn'
  BY <1>0, <1>3, <1>4 DEF Safe, BoxIsOwn, k
<1>c. MoverHasData' /\ WriterIsArchived'
  BY <1>0, <1>1, <1>3, <1>4, <1>5, <1>8 DEF Safe, MoverHasData, WriterIsArchived
<1>d. ArchiveComplete'
  BY <1>0, <1>1, <1>2, <1>5 DEF Safe, ArchiveComplete
<1>e. OneMover'
  BY <1>0, <1>3, <1>4 DEF Safe, OneMover
<1> QED BY <1>a, <1>b, <1>c, <1>d, <1>e DEF Safe

\* The rename succeeds only for the manager that still finds the data there, and
\* at that moment nobody is moving the config.
LEMMA SafeMvData ==
  ASSUME SInv, NEW m \in Managers, MvData(m)
  PROVE  Safe'
<1>0. /\ ProcsOK /\ FilesOK /\ Safe /\ m \in Procs
      /\ proc[m] \in ProcType /\ Shape(proc[m]) /\ proc[m].pc = "mvdata"
  BY ProcRecord DEF SInv, TypeOK, MvData, At
<1> DEFINE n == proc[m].cur
<1>1. n \in Names
  BY <1>0 DEF Shape, Handled, Settling
<1>2. \A q \in Procs \ {m} : proc'[q] = proc[q]
  BY <1>0 DEF MvData, ProcsOK
<1>3. proc'[m].cur = n /\ proc'[m].box = proc[m].box
  BY <1>0 DEF MvData, ProcsOK, ProcType
<1>4. CASE data[n] # "spool"
  <2>1. proc'[m].pc = "unlock" /\ Alone(m)
    BY <1>0, <1>2, <1>4 DEF MvData, ProcsOK, ProcType, Alone
  <2> QED BY <1>0, <1>3, <2>1, QuietStep
<1>5. CASE data[n] = "spool"
  <2>1. /\ data' = [data EXCEPT ![n] = "done"] /\ archive' = archive
        /\ proc'[m].pc = "mvconf"
    BY <1>0, <1>5 DEF MvData, ProcsOK, ProcType
  <2>2. data'[n] = "done" /\ \A k \in Names \ {n} : data'[k] = data[k]
    BY <1>0, <1>1, <2>1 DEF FilesOK
  <2> HIDE DEF n
  <2>3. \A q \in Procs : /\ proc[q].pc = "mvconf" => proc[q].cur \in Names \ {n}
                         /\ proc[q].pc = "writemoved" => proc[q].cur \in Names \ {n}
    BY <1>0, <1>5 DEF ProcsOK, Shape, Handled, Settling, Safe, MoverHasData,
       WriterIsArchived
  <2>4. \A q \in Procs : proc[q].pc = "lockmail" => proc[q].box \in Names \ {n}
    BY <1>0, <1>5 DEF ProcsOK, ProcType, Shape, Mailing, Safe, BoxIsNew
  <2>a. BoxIsNew'
    BY <1>0, <1>2, <2>1, <2>2, <2>4 DEF Safe, BoxIsNew
  <2>b. BoxIsOwn'
    BY <1>0, <1>2, <1>3 DEF Safe, BoxIsOwn
  <2>c. MoverHasData' /\ WriterIsArchived'
    BY <1>0, <1>2, <1>3, <2>1, <2>2, <2>3 DEF Safe, MoverHasData, WriterIsArchived
  <2>d. ArchiveComplete'
    BY <1>0, <1>5, <2>1, <2>2 DEF Safe, ArchiveComplete
  <2>e. OneMover'
    BY <1>0, <1>2, <1>3, <2>1, <2>3 DEF Safe, OneMover
  <2> QED BY <2>a, <2>b, <2>c, <2>d, <2>e DEF Safe
<1> QED BY <1>4, <1>5

\* The config goes away after the data, to a place where it stays.
LEMMA SafeMvConf ==
  ASSUME SInv, NEW m \in Managers, MvConf(m)
  PROVE  Safe'
<1>0. /\ ProcsOK /\ FilesOK /\ Safe /\ m \in Procs
      /\ proc[m] \in ProcType /\ Shape(proc[m]) /\ proc[m].pc = "mvconf"
  BY ProcRecord DEF SInv, TypeOK, MvConf, At
<1> DEFINE n == proc[m].cur
<1>1. n \in Names /\ data[n] = "done" /\ data' = data
  BY <1>0 DEF Shape, Handled, Settling, Safe, MoverHasData, MvConf
<1>2. CASE conf[n].file = "none"
  <2>1. Alone(m) /\ proc'[m].pc = "unlock" /\ proc'[m].box = proc[m].box
    BY <1>0, <1>2 DEF MvConf, Alone, ProcsOK, ProcType
  <2> QED BY <1>0, <2>1, QuietStep
<1>3. CASE conf[n].file # "none"
  <2>1. proc' = [q \in Procs |->
                 IF q = m THEN [proc[q] EXCEPT !.pc = "unlock"]
                 ELSE IF proc[q].pc = "write" /\ proc[q].cur = n
                 THEN [proc[q] EXCEPT !.pc = "writemoved"]
                 ELSE proc[q]]
    BY <1>3 DEF MvConf
  <2>2. \A q \in Procs :
          /\ proc'[q].cur = proc[q].cur /\ proc'[q].box = proc[q].box
          /\ proc'[q].pc \in {"lockmail", "mvconf"} => proc'[q].pc = proc[q].pc
          /\ proc'[q].pc = "writemoved" => proc[q].pc = "writemoved" \/ proc[q].cur = n
    <3>1. TAKE q \in Procs
    <3>2. proc[q] \in ProcType
      BY <1>0 DEF ProcsOK
    <3>3. CASE q = m
      BY <2>1, <3>2, <3>3 DEF ProcType
    <3>4. CASE q # m /\ proc[q].pc = "write" /\ proc[q].cur = n
      BY <2>1, <3>2, <3>4 DEF ProcType
    <3>5. CASE q # m /\ ~(proc[q].pc = "write" /\ proc[q].cur = n)
      BY <2>1, <3>5
    <3> QED BY <3>3, <3>4, <3>5
  <2>3. \A k \in Names : archive'[k] # "none" => archive[k] # "none" \/ k = n
    BY <1>0 DEF MvConf, FilesOK
  <2> HIDE DEF n
  <2>a. BoxIsNew' /\ BoxIsOwn'
    BY <1>0, <1>1, <2>2 DEF Safe, BoxIsNew, BoxIsOwn
  <2>b. MoverHasData' /\ WriterIsArchived'
    BY <1>0, <1>1, <2>2 DEF Safe, MoverHasData, WriterIsArchived
  <2>c. ArchiveComplete' /\ OneMover'
    BY <1>0, <1>1, <2>2, <2>3 DEF Safe, ArchiveComplete, OneMover
  <2> QED BY <2>a, <2>b, <2>c DEF Safe
<1> QED BY <1>2, <1>3

\* What is written late goes into the archived config.
LEMMA SafeWriteMoved ==
  ASSUME SInv, NEW m \in Managers, WriteMoved(m)
  PROVE  Safe'
<1>0. /\ ProcsOK /\ FilesOK /\ Safe /\ m \in Procs
      /\ proc[m] \in ProcType /\ Shape(proc[m]) /\ proc[m].pc = "writemoved"
  BY ProcRecord DEF SInv, TypeOK, WriteMoved, At
<1> DEFINE n == proc[m].cur
<1>1. data[n] = "done" /\ data' = data
  BY <1>0 DEF Safe, WriterIsArchived, WriteMoved
<1>2. \A k \in Names : archive'[k] # "none" => archive[k] # "none" \/ k = n
  BY <1>0 DEF WriteMoved, FilesOK
<1>3. /\ \A q \in Procs \ {m} : proc'[q] = proc[q]
      /\ proc'[m].box = proc[m].box
      /\ proc'[m].pc \in {"mvdata", "unlock"}
  BY <1>0 DEF WriteMoved, Written, ProcsOK, ProcType
<1> HIDE DEF n
<1>4. BoxIsNew' /\ BoxIsOwn'
  BY <1>0, <1>1, <1>3 DEF Safe, BoxIsNew, BoxIsOwn
<1>5. MoverHasData' /\ WriterIsArchived'
  BY <1>0, <1>1, <1>3 DEF Safe, MoverHasData, WriterIsArchived
<1>6. ArchiveComplete' /\ OneMover'
  BY <1>0, <1>1, <1>2, <1>3 DEF Safe, ArchiveComplete, OneMover
<1> QED BY <1>4, <1>5, <1>6 DEF Safe

\* Choosing a message to give up moves none.
LEMMA SafeExpire ==
  ASSUME SInv, NEW m \in Managers, Expire(m)
  PROVE  Safe'
<1>0. /\ ProcsOK /\ Safe /\ m \in Procs /\ proc[m] \in ProcType /\ Shape(proc[m])
  BY ProcRecord DEF SInv, TypeOK
<1>1. PICK n \in Todo(m) :
       MaybeReply(m, "giveup",
             [proc[m] EXCEPT !.seen[n] = NoConf, !.cur = n, !.msg = proc[m].seen[n],
                             !.out = "failed", !.resume = "select"])
  BY DEF Expire
<1> DEFINE s == [proc[m].seen EXCEPT ![n] = NoConf]
           rest == [proc[m] EXCEPT !.seen = s, !.cur = n, !.msg = proc[m].seen[n],
                                   !.out = "failed", !.resume = "select"]
<1>2. n \in Names /\ MaybeReply(m, "giveup", rest)
  BY <1>0, <1>1 DEF Todo, ProcType
<1>3. s \in [Names -> ConfType] /\ proc[m].seen[n] \in ConfType
  BY <1>0, <1>2 DEF ProcType, NoConf, ConfType, Status
<1> HIDE DEF s
<1>4. rest \in ProcType /\ rest.box = NoName
  BY <1>0, <1>2, <1>3 DEF Expire, At, Shape, ProcType, Mailing, Status, Final
<1>5. UNCHANGED <<data, archive>>
  BY DEF Expire
<1> HIDE DEF rest
<1>6. CASE proc' = [proc EXCEPT ![m] = [rest EXCEPT !.pc = "giveup"]]
  <2>1. Alone(m) /\ proc'[m].pc = "giveup" /\ proc'[m].box = NoName
    BY <1>0, <1>4, <1>5, <1>6 DEF Alone, ProcsOK, ProcType
  <2> QED BY <1>0, <2>1, QuietStep
<1>7. CASE Reply(m, "giveup", rest)
  BY <1>0, <1>4, <1>5, <1>7, ReplyStep
<1> QED BY <1>2, <1>6, <1>7 DEF MaybeReply

\* Splitting off a clone moves no message: its name is new.
LEMMA SafeSplit ==
  ASSUME SInv, NEW m \in Managers, Split(m)
  PROVE  Safe'
<1>0. /\ ProcsOK /\ Safe /\ m \in Procs /\ proc[m] \in ProcType /\ Shape(proc[m])
  BY ProcRecord DEF SInv, TypeOK
<1> DEFINE rest == [proc[m] EXCEPT !.left = @ - 1]
<1>1. UNCHANGED <<data, archive>>
  BY DEF Split, files
<1>2. CASE proc' = [proc EXCEPT ![m] = rest]
  <2>1. Alone(m) /\ proc'[m].box = proc[m].box /\ proc'[m].pc = "split"
    BY <1>0, <1>1, <1>2 DEF Alone, ProcsOK, ProcType, Split, At
  <2> QED BY <1>0, <2>1, QuietStep
<1>3. CASE \E k \in CloneNames :
             Fresh(k) /\ Deposit(m, k, Mail("received", 1), "split", rest)
  <2>1. PICK k \in CloneNames :
               Fresh(k) /\ Deposit(m, k, Mail("received", 1), "split", rest)
    BY <1>3
  <2>2. Alone(m) /\ k \in Names /\ proc'[m].pc = "lockmail" /\ proc'[m].box = k
    BY <1>0, <1>1, <2>1 DEF Alone, ProcsOK, ProcType, Deposit, Names
  <2> QED BY <1>0, <2>1, <2>2, DepositStep
<1> QED BY <1>2, <1>3 DEF Split

\* Putting away a copy for one user moves no message.
LEMMA SafeCastMail ==
  ASSUME SInv, NEW m \in Managers, CastMail(m)
  PROVE  Safe'
<1>0. /\ ProcsOK /\ Safe /\ m \in Procs /\ proc[m] \in ProcType /\ Shape(proc[m])
  BY ProcRecord DEF SInv, TypeOK
<1>1. PICK k \in MailNames, stat \in {"created", "spooled"} :
       Fresh(k) /\ Deposit(m, k, Mail(stat, 1), "cast", proc[m])
  BY DEF CastMail
<1>2. UNCHANGED <<data, archive>>
  BY DEF CastMail, files
<1>3. Alone(m) /\ k \in Names /\ proc'[m].pc = "lockmail" /\ proc'[m].box = k
  BY <1>0, <1>1, <1>2 DEF Alone, ProcsOK, ProcType, Deposit, Names
<1> QED BY <1>0, <1>1, <1>3, DepositStep

\* Removing a lock moves no message.
LEMMA SafeUnlock ==
  ASSUME SInv, NEW m \in Managers, Unlock(m)
  PROVE  Safe'
<1>0. /\ ProcsOK /\ Safe /\ m \in Procs /\ proc[m] \in ProcType /\ Shape(proc[m])
  BY ProcRecord DEF SInv, TypeOK
<1>1. UNCHANGED <<data, archive>>
  BY DEF Unlock
<1>2. CASE proc[m].resume = "off"
  BY <1>0, <1>1, <1>2, GoneStep DEF Unlock
<1>3. CASE proc[m].resume # "off"
  <2>1. Alone(m) /\ proc'[m].box = proc[m].box /\ proc'[m].pc = "select"
    BY <1>0, <1>1, <1>3 DEF Alone, ProcsOK, ProcType, Unlock
  <2> QED BY <1>0, <2>1, QuietStep
<1> QED BY <1>2, <1>3

\* Taking a message in moves none: its name is new.
LEMMA SafeReceive ==
  ASSUME SInv, NEW r \in Receivers, Receive(r)
  PROVE  Safe'
<1>0. ProcsOK /\ Safe /\ r \in Procs /\ UNCHANGED <<data, archive>>
  BY DEF SInv, TypeOK, Procs, Receive, files
<1>1. PICK n \in Incoming, k \in 1..MaxRcpts :
        Fresh(n) /\ Deposit(r, n, Mail("received", k), "off", Idle)
  BY DEF Receive
<1>2. Alone(r) /\ n \in Names /\ proc'[r].pc = "lockmail" /\ proc'[r].box = n
  BY <1>0, <1>1, IdleFact DEF Alone, ProcsOK, ProcType, Deposit, Names
<1> QED BY <1>0, <1>1, <1>2, DepositStep

-----------------------------------------------------------------------------
\* Safe is inductive relative to TypeOK, one case per action.
LEMMA StepSafe == SInv /\ [Next]_vars => Safe'
<1> SUFFICES ASSUME SInv, [Next]_vars PROVE Safe'
  OBVIOUS
<1>0. /\ ProcsOK /\ Safe /\ Managers \subseteq Procs
      /\ \A p \in Procs : proc[p] \in ProcType /\ Shape(proc[p])
  BY ProcRecord DEF SInv, TypeOK
<1>1. ASSUME NEW m \in Managers, Start(m) PROVE Safe'
  <2>1. Alone(m) /\ proc'[m].box \in {NoName, proc[m].box}
    BY <1>0, <1>1 DEF Alone, ProcsOK, ProcType, Idle, Start, files
  <2>2. proc'[m].pc \notin {"lockmail", "mvconf", "writemoved"}
    BY <1>0, <1>1 DEF ProcsOK, ProcType, Idle, Start, files
  <2> QED BY <1>0, <1>1, <2>1, <2>2, QuietStep
<1>2. ASSUME NEW m \in Managers, Unqueue(m) PROVE Safe'
  <2>1. Alone(m) /\ proc'[m].box \in {NoName, proc[m].box}
    BY <1>0, <1>2 DEF Alone, ProcsOK, ProcType, Idle, Unqueue, At, files
  <2>2. proc'[m].pc \notin {"lockmail", "mvconf", "writemoved"}
    BY <1>0, <1>2 DEF ProcsOK, ProcType, Idle, Unqueue, At, files
  <2> QED BY <1>0, <1>2, <2>1, <2>2, QuietStep
<1>3. ASSUME NEW m \in Managers, UnqueueEmpty(m) PROVE Safe'
  <2>1. Alone(m) /\ proc'[m].box \in {NoName, proc[m].box}
    BY <1>0, <1>3 DEF Alone, ProcsOK, ProcType, Idle, UnqueueEmpty, At, files
  <2>2. proc'[m].pc \notin {"lockmail", "mvconf", "writemoved"}
    BY <1>0, <1>3 DEF ProcsOK, ProcType, Idle, UnqueueEmpty, At, files
  <2> QED BY <1>0, <1>3, <2>1, <2>2, QuietStep
<1>4. ASSUME NEW m \in Managers, UnqueueDies(m) PROVE Safe'
  BY <1>0, <1>4, GoneStep DEF UnqueueDies, files
<1>5. ASSUME NEW m \in Managers, ScanDone(m) PROVE Safe'
  <2>1. Alone(m) /\ proc'[m].box \in {NoName, proc[m].box}
    BY <1>0, <1>5 DEF Alone, ProcsOK, ProcType, Idle, ScanDone, files
  <2>2. proc'[m].pc \notin {"lockmail", "mvconf", "writemoved"}
    BY <1>0, <1>5 DEF ProcsOK, ProcType, Idle, ScanDone, files
  <2> QED BY <1>0, <1>5, <2>1, <2>2, QuietStep
<1>6. ASSUME NEW m \in Managers, PassOver(m) PROVE Safe'
  <2>1. Alone(m) /\ proc'[m].box \in {NoName, proc[m].box}
    BY <1>0, <1>6 DEF Alone, ProcsOK, ProcType, Idle, PassOver, At
  <2>2. proc'[m].pc \notin {"lockmail", "mvconf", "writemoved"}
    BY <1>0, <1>6 DEF ProcsOK, ProcType, Idle, PassOver, At
  <2> QED BY <1>0, <1>6, <2>1, <2>2, QuietStep
<1>7. ASSUME NEW m \in Managers, Candidate(m) PROVE Safe'
  <2>1. Alone(m) /\ proc'[m].box \in {NoName, proc[m].box}
    BY <1>0, <1>7 DEF Alone, ProcsOK, ProcType, Idle, Candidate, At
  <2>2. proc'[m].pc \notin {"lockmail", "mvconf", "writemoved"}
    BY <1>0, <1>7 DEF ProcsOK, ProcType, Idle, Candidate, At
  <2> QED BY <1>0, <1>7, <2>1, <2>2, QuietStep
<1>8. ASSUME NEW m \in Managers, Expire(m) PROVE Safe'
  BY <1>0, <1>8, SafeExpire
<1>9. ASSUME NEW m \in Managers, GiveUp(m) PROVE Safe'
  <2>1. Alone(m) /\ proc'[m].box \in {NoName, proc[m].box}
    BY <1>0, <1>9 DEF Alone, ProcsOK, ProcType, Idle, GiveUp
  <2>2. proc'[m].pc \notin {"lockmail", "mvconf", "writemoved"}
    BY <1>0, <1>9 DEF ProcsOK, ProcType, Idle, GiveUp
  <2> QED BY <1>0, <1>9, <2>1, <2>2, QuietStep
<1>10. ASSUME NEW m \in Managers, Take(m) PROVE Safe'
  <2>1. Alone(m) /\ proc'[m].box \in {NoName, proc[m].box}
    BY <1>0, <1>10 DEF Alone, ProcsOK, ProcType, Idle, Take
  <2>2. proc'[m].pc \notin {"lockmail", "mvconf", "writemoved"}
    BY <1>0, <1>10 DEF ProcsOK, ProcType, Idle, Take
  <2> QED BY <1>0, <1>10, <2>1, <2>2, QuietStep
<1>11. ASSUME NEW m \in Managers, NothingToDo(m) PROVE Safe'
  BY <1>0, <1>11, GoneStep DEF NothingToDo, files
<1>12. ASSUME NEW m \in Managers, StartSplit(m) PROVE Safe'
  <2>1. Alone(m) /\ proc'[m].box \in {NoName, proc[m].box}
    BY <1>0, <1>12 DEF Alone, ProcsOK, ProcType, Idle, StartSplit, files
  <2>2. proc'[m].pc \notin {"lockmail", "mvconf", "writemoved"}
    BY <1>0, <1>12 DEF ProcsOK, ProcType, Idle, StartSplit, files
  <2> QED BY <1>0, <1>12, <2>1, <2>2, QuietStep
<1>13. ASSUME NEW m \in Managers, Split(m) PROVE Safe'
  BY <1>0, <1>13, SafeSplit
<1>14. ASSUME NEW m \in Managers, SplitDone(m) PROVE Safe'
  <2>1. Alone(m) /\ proc'[m].box \in {NoName, proc[m].box}
    BY <1>0, <1>14 DEF Alone, ProcsOK, ProcType, Idle, SplitDone, Outcome, files
  <2>2. proc'[m].pc \notin {"lockmail", "mvconf", "writemoved"}
    BY <1>0, <1>14 DEF ProcsOK, ProcType, Idle, SplitDone, Outcome, files
  <2> QED BY <1>0, <1>14, <2>1, <2>2, QuietStep
<1>15. ASSUME NEW m \in Managers, Answer(m) PROVE Safe'
  <2>1. Alone(m) /\ proc'[m].box \in {NoName, proc[m].box}
    BY <1>0, <1>15 DEF Alone, ProcsOK, ProcType, Idle, Answer, files
  <2>2. proc'[m].pc \notin {"lockmail", "mvconf", "writemoved"}
    BY <1>0, <1>15 DEF ProcsOK, ProcType, Idle, Answer, files
  <2> QED BY <1>0, <1>15, <2>1, <2>2, QuietStep
<1>16. ASSUME NEW m \in Managers, AnswerMail(m) PROVE Safe'
  BY <1>0, <1>16, ReplyStep DEF AnswerMail, files
<1>38. ASSUME NEW m \in Managers, AnswerDone(m) PROVE Safe'
  <2>1. Alone(m) /\ proc'[m].box \in {NoName, proc[m].box}
    BY <1>0, <1>38 DEF Alone, ProcsOK, ProcType, Idle, AnswerDone, Outcome, files
  <2>2. proc'[m].pc \notin {"lockmail", "mvconf", "writemoved"}
    BY <1>0, <1>38 DEF ProcsOK, ProcType, Idle, AnswerDone, Outcome, files
  <2> QED BY <1>0, <1>38, <2>1, <2>2, QuietStep
<1>17. ASSUME NEW m \in Managers, Judge(m) PROVE Safe'
  <2>1. Alone(m) /\ proc'[m].box \in {NoName, proc[m].box}
    BY <1>0, <1>17 DEF Alone, ProcsOK, ProcType, Idle, Judge, Outcome, files
  <2>2. proc'[m].pc \notin {"lockmail", "mvconf", "writemoved"}
    BY <1>0, <1>17 DEF ProcsOK, ProcType, Idle, Judge, Outcome, files
  <2> QED BY <1>0, <1>17, <2>1, <2>2, QuietStep
<1>18. ASSUME NEW m \in Managers, Broadcast(m) PROVE Safe'
  <2>1. Alone(m) /\ proc'[m].box \in {NoName, proc[m].box}
    BY <1>0, <1>18 DEF Alone, ProcsOK, ProcType, Idle, Broadcast, Outcome, files
  <2>2. proc'[m].pc \notin {"lockmail", "mvconf", "writemoved"}
    BY <1>0, <1>18 DEF ProcsOK, ProcType, Idle, Broadcast, Outcome, files
  <2> QED BY <1>0, <1>18, <2>1, <2>2, QuietStep
<1>19. ASSUME NEW m \in Managers, CastMail(m) PROVE Safe'
  BY <1>0, <1>19, SafeCastMail
<1>20. ASSUME NEW m \in Managers, CastDone(m) PROVE Safe'
  <2>1. Alone(m) /\ proc'[m].box \in {NoName, proc[m].box}
    BY <1>0, <1>20 DEF Alone, ProcsOK, ProcType, Idle, CastDone, Outcome, files
  <2>2. proc'[m].pc \notin {"lockmail", "mvconf", "writemoved"}
    BY <1>0, <1>20 DEF ProcsOK, ProcType, Idle, CastDone, Outcome, files
  <2> QED BY <1>0, <1>20, <2>1, <2>2, QuietStep
<1>21. ASSUME NEW m \in Managers, Transmit(m) PROVE Safe'
  <2>1. Alone(m) /\ proc'[m].box \in {NoName, proc[m].box}
    BY <1>0, <1>21 DEF Alone, ProcsOK, ProcType, Idle, Transmit, Outcome, files
  <2>2. proc'[m].pc \notin {"lockmail", "mvconf", "writemoved"}
    BY <1>0, <1>21 DEF ProcsOK, ProcType, Idle, Transmit, Outcome, files
  <2> QED BY <1>0, <1>21, <2>1, <2>2, QuietStep
<1>39. ASSUME NEW m \in Managers, Deliver(m) PROVE Safe'
  <2>1. Alone(m) /\ proc'[m].box \in {NoName, proc[m].box}
    BY <1>0, <1>39 DEF Alone, ProcsOK, ProcType, Idle, Deliver, Outcome, files
  <2>2. proc'[m].pc \notin {"lockmail", "mvconf", "writemoved"}
    BY <1>0, <1>39 DEF ProcsOK, ProcType, Idle, Deliver, Outcome, files
  <2> QED BY <1>0, <1>39, <2>1, <2>2, QuietStep
<1>22. ASSUME NEW m \in Managers, UnknownStatus(m) PROVE Safe'
  BY <1>0, <1>22, GoneStep DEF UnknownStatus
<1>23. ASSUME NEW m \in Managers, Truncate(m) PROVE Safe'
  <2>1. Alone(m) /\ proc'[m].box \in {NoName, proc[m].box}
    BY <1>0, <1>23 DEF Alone, ProcsOK, ProcType, Idle, Truncate
  <2>2. proc'[m].pc \notin {"lockmail", "mvconf", "writemoved"}
    BY <1>0, <1>23 DEF ProcsOK, ProcType, Idle, Truncate
  <2> QED BY <1>0, <1>23, <2>1, <2>2, QuietStep
<1>24. ASSUME NEW m \in Managers, WriteConf(m) PROVE Safe'
  <2>1. Alone(m) /\ proc'[m].box \in {NoName, proc[m].box}
    BY <1>0, <1>24 DEF Alone, ProcsOK, ProcType, Idle, WriteConf, Written
  <2>2. proc'[m].pc \notin {"lockmail", "mvconf", "writemoved"}
    BY <1>0, <1>24 DEF ProcsOK, ProcType, Idle, WriteConf, Written
  <2> QED BY <1>0, <1>24, <2>1, <2>2, QuietStep
<1>25. ASSUME NEW m \in Managers, WriteMoved(m) PROVE Safe'
  BY <1>25, SafeWriteMoved
<1>26. ASSUME NEW m \in Managers, MvData(m) PROVE Safe'
  BY <1>26, SafeMvData
<1>27. ASSUME NEW m \in Managers, MvConf(m) PROVE Safe'
  BY <1>27, SafeMvConf
<1>28. ASSUME NEW m \in Managers, Unlock(m) PROVE Safe'
  BY <1>0, <1>28, SafeUnlock
<1>29. ASSUME NEW r \in Receivers, Receive(r) PROVE Safe'
  BY <1>0, <1>29, SafeReceive
<1>30. ASSUME NEW p \in Procs, LockMail(p) PROVE Safe'
  <2>1. CASE data' = [data EXCEPT ![proc[p].box] = "spool"]
    BY <1>30, <2>1, SafeLockMail
  <2>2. CASE data' = data
    <3>1. Alone(p) /\ proc'[p].box = proc[p].box /\ proc'[p].pc = "writemail"
      BY <1>0, <1>30, <2>2 DEF Alone, ProcsOK, ProcType, LockMail
    <3> QED BY <1>0, <3>1, QuietStep
  <2> QED BY <1>30, <2>1, <2>2 DEF LockMail
<1>31. ASSUME NEW p \in Procs, WriteMail(p) PROVE Safe'
  <2>1. Alone(p) /\ proc'[p].box \in {NoName, proc[p].box}
    BY <1>0, <1>31 DEF Alone, ProcsOK, ProcType, Idle, WriteMail
  <2>2. proc'[p].pc \notin {"lockmail", "mvconf", "writemoved"}
    BY <1>0, <1>31 DEF ProcsOK, ProcType, Idle, WriteMail
  <2> QED BY <1>0, <1>31, <2>1, <2>2, QuietStep
<1>32. ASSUME NEW p \in Procs, UnlockMail(p) PROVE Safe'
  <2>1. Alone(p) /\ proc'[p].box \in {NoName, proc[p].box}
    BY <1>0, <1>32 DEF Alone, ProcsOK, ProcType, Idle, UnlockMail
  <2>2. proc'[p].pc \notin {"lockmail", "mvconf", "writemoved"}
    BY <1>0, <1>32 DEF ProcsOK, ProcType, Idle, UnlockMail
  <2> QED BY <1>0, <1>32, <2>1, <2>2, QuietStep
<1>33. ASSUME NEW n \in Names, Due(n) PROVE Safe'
  BY <1>0, <1>33 DEF Due, files, Safe, BoxIsNew, BoxIsOwn, MoverHasData,
    WriterIsArchived, ArchiveComplete, OneMover
<1>34. ASSUME NEW n \in Names, Old(n) PROVE Safe'
  BY <1>0, <1>34 DEF Old, files, Safe, BoxIsNew, BoxIsOwn, MoverHasData,
    WriterIsArchived, ArchiveComplete, OneMover
<1>35. ASSUME NEW n \in Names, DomainDies(n) PROVE Safe'
  BY <1>0, <1>35 DEF DomainDies, files, Safe, BoxIsNew, BoxIsOwn, MoverHasData,
    WriterIsArchived, ArchiveComplete, OneMover
<1>36. ASSUME NEW p \in Procs, Crash(p) PROVE Safe'
  BY <1>0, <1>36, GoneStep DEF Crash
<1>37. ASSUME UNCHANGED vars PROVE Safe'
  BY <1>0, <1>37 DEF vars, files, Safe, BoxIsNew, BoxIsOwn, MoverHasData,
    WriterIsArchived, ArchiveComplete, OneMover
<1> QED
  BY <1>1, <1>2, <1>3, <1>4, <1>5, <1>6, <1>7, <1>8, <1>9, <1>10, <1>11, <1>12, <1>13,
     <1>14, <1>15, <1>16, <1>17, <1>18, <1>19, <1>20, <1>21, <1>22, <1>23, <1>24,
     <1>25, <1>26, <1>27, <1>28, <1>29, <1>30, <1>31, <1>32, <1>33, <1>34, <1>35,
     <1>36, <1>37, <1>38, <1>39
  DEF Next, Select, Handle, Finish, PutMail, Environment, Procs

\* The invariant of the spool holds initially and is kept by every step.
THEOREM Invariant == Spec => []SInv
<1>1. Init => SInv
  <2> SUFFICES ASSUME Init PROVE Safe
    BY InitTypeOK DEF SInv
  <2> QED BY NullAssumption DEF Init, Idle, Safe, BoxIsNew, BoxIsOwn, MoverHasData,
       WriterIsArchived, ArchiveComplete, OneMover
<1>2. SInv /\ [Next]_vars => SInv'
  BY StepFiles, StepProcs, StepClock, StepSafe DEF SInv, TypeOK
<1> QED BY <1>1, <1>2, PTL DEF Spec

\* Message::moveToDone never puts a config away without its data, whatever the
\* managers do to the same message and wherever they are stopped.
THEOREM ArchiveCompleteHolds == Spec => []ArchiveComplete
<1>1. SInv => ArchiveComplete
  BY DEF SInv, Safe
<1> QED BY <1>1, Invariant, PTL

\* At most one manager gets to move the config of a message.
THEOREM OneMoverHolds == Spec => []OneMover
<1>1. SInv => OneMover
  BY DEF SInv, Safe
<1> QED BY <1>1, Invariant, PTL

=============================================================================
