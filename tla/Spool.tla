------------------------------- MODULE Spool --------------------------------
(***************************************************************************)
(* The spool of Limez: the files <name>.data, <name>.config and <name>.lock*)
(* of each message in the spool directory, their copies in the done        *)
(* directory, and the processes that work on them.  Every                  *)
(* server_spool_interval the scheduler forks a manager (manager.cc) that   *)
(* reads all configs, picks one unlocked message, locks it, handles it and *)
(* writes its new status (message.cc).  Receivers put new messages in.     *)
(*                                                                         *)
(* A step is one access to the file system, or one stretch of the code     *)
(* between two of them; the processes share nothing else.                  *)
(***************************************************************************)
EXTENDS Naturals, FiniteSets

CONSTANTS
  Managers,     \* process ids of manager processes
  Receivers,    \* process ids of receiver processes
  Incoming,     \* names of the messages receivers bring in
  CloneNames,   \* names for the messages split off an incoming one
  MailNames,    \* names for the mails Limez writes itself
  MaxRcpts,     \* most recipients of an incoming message
  MaxTries,     \* server_max_queuetries
  MaxCrashes,   \* bound: processes that die in the middle of their work
  MaxLost,      \* bound: deliveries of one message whose answer is lost
  Turns,        \* the values inTurn may have
  DnsFailures   \* TRUE: domains of recipients may cease to resolve

ASSUME SpoolAssumption ==
  /\ Managers \cap Receivers = {}
  /\ Incoming \cap (CloneNames \cup MailNames) = {}
  /\ CloneNames \cap MailNames = {}
  /\ MaxRcpts \in Nat \ {0}
  /\ MaxTries \in Nat
  /\ MaxCrashes \in Nat
  /\ MaxLost \in Nat
  /\ Turns \subseteq BOOLEAN
  /\ DnsFailures \in BOOLEAN

Names == Incoming \cup CloneNames \cup MailNames
Procs == Managers \cup Receivers

Live   == {"received", "approved", "created", "spooled"}
Final  == {"splitted", "done", "rejected", "error", "sent", "failed"}
Status == Live \cup Final \cup {"absent"}

NoName == "no name"
NoLock == "no lock"
Orphan == "orphan"      \* the lock of a process that is gone

ASSUME NullAssumption ==
  NoName \notin Names /\ NoLock \notin Procs /\ Orphan \notin Procs

\* A config file.  It is "empty" after Config::write has truncated it and
\* before it is written; the fields then tell what it held before.
ConfType == [file : {"none", "empty", "full"}, stat : Status, tries : Nat, rcpts : Nat]
NoConf   == [file |-> "none", stat |-> "absent", tries |-> 0, rcpts |-> 0]
Mail(s, r) == [file |-> "full", stat |-> s, tries |-> 0, rcpts |-> r]

VARIABLES
  conf,         \* <name>.config in the spool directory
  data,         \* where <name>.data is: "none", "spool" or "done"
  lock,         \* owner of <name>.lock, or NoLock
  archive,      \* status in <name>.config of the done directory, or "none"
  proc,         \* the processes, see ProcType
  due,          \* messages whose server_queue_interval has passed
  old,          \* messages older than server_max_queuetime
  dead,         \* messages with a recipient whose domain does not resolve
  inTurn,       \* of a behaviour: no two managers select at a time
  crashes,      \* processes that died so far
  book          \* history: recipients asked for, clones made, deliveries done, those
                \* that were not answered, and the words the status has been

files == <<conf, data, lock, archive>>
clock == <<due, old, dead, inTurn>>
vars  == <<files, proc, clock, crashes, book>>

\* A process.  pc names the next step; listing, seen and cand belong to the
\* selection; cur, msg and out are the message being handled, its config as it
\* was read, and the status it gets; box and item a message being put into the
\* spool, and then the step after that; resume the step after unlocking cur.
PCs == {"off", "scan", "select", "giveup", "work", "split", "reply", "cast", "deliver",
        "truncate", "write", "writemoved", "mvdata", "mvconf", "unlock",
        "lockmail", "writemail", "unlockmail"}

ProcType ==
  [ pc      : PCs,
    listing : SUBSET Names,
    seen    : [Names -> ConfType],
    cand    : Names \cup {NoName},
    cur     : Names \cup {NoName},
    msg     : ConfType,
    out     : Status,
    left    : Nat,
    box     : Names \cup {NoName},
    item    : ConfType,
    then    : {"off", "giveup", "split", "reply", "cast"},
    resume  : {"off", "select"} ]

Idle == [ pc |-> "off", listing |-> {}, seen |-> [n \in Names |-> NoConf],
          cand |-> NoName, cur |-> NoName, msg |-> NoConf, out |-> "absent",
          left |-> 0, box |-> NoName, item |-> NoConf, then |-> "off",
          resume |-> "off" ]

-----------------------------------------------------------------------------
(* Helpers *)

Selecting(p) == proc[p].pc \in {"scan", "select"} \/ proc[p].resume = "select"

At(p, pc) == proc[p].pc = pc

\* A process ends: it keeps nothing, and the locks it leaves have no owner.
Gone(p)     == proc' = [proc EXCEPT ![p] = Idle]
Orphaned(p) == [n \in Names |-> IF lock[n] = p THEN Orphan ELSE lock[n]]

\* A name is made of date, pid and a counter: nobody used it before.
Fresh(k) ==
  /\ conf[k] = NoConf /\ data[k] = "none" /\ lock[k] = NoLock
  /\ \A q \in Procs : proc[q].box # k

\* Process p goes on to put message k into the spool, and then to step next.
Deposit(p, k, mail, next, rest) ==
  proc' = [proc EXCEPT ![p] = [rest EXCEPT !.pc = "lockmail", !.box = k,
                                           !.item = mail, !.then = next]]

\* The same for a mail that Limez writes itself.
Reply(p, next, rest) ==
  \E k \in MailNames : Fresh(k) /\ Deposit(p, k, Mail("created", 1), next, rest)

\* A step to next, or a mail and then that step: there may be nobody to write to.
MaybeReply(p, next, rest) ==
  proc' = [proc EXCEPT ![p] = [rest EXCEPT !.pc = next]] \/ Reply(p, next, rest)

\* The status of message n is written.
Noted(n, s) == [book EXCEPT ![n].had = @ \cup {s}]

-----------------------------------------------------------------------------
(* Putting a message into the spool: Message::clone or Generator::finish,  *)
(* or Receiver::readData and the end of Receiver::start.                   *)

\* The lock file comes first, then the data.  A receiver whose last DATA failed, after
\* one that did not, queues a message without data, and maybe without a lock.
LockMail(p) ==
  /\ At(p, "lockmail")
  /\ \/ /\ lock' = [lock EXCEPT ![proc[p].box] = p]
        /\ data' = [data EXCEPT ![proc[p].box] = "spool"]
     \/ /\ p \in Receivers
        /\ lock' \in {lock, [lock EXCEPT ![proc[p].box] = p]}
        /\ UNCHANGED data
  /\ proc' = [proc EXCEPT ![p].pc = "writemail"]
  /\ UNCHANGED <<conf, archive, clock, crashes, book>>

WriteMail(p) ==
  /\ At(p, "writemail")
  /\ conf' = [conf EXCEPT ![proc[p].box] = proc[p].item]
  /\ proc' = [proc EXCEPT ![p].pc = "unlockmail"]
  /\ book' = Noted(proc[p].box, proc[p].item.stat)
  /\ UNCHANGED <<data, lock, archive, clock, crashes>>

\* Mutant of the next definition: the lock of the new message stays.
UnlockMailForgotten(p) ==
  /\ At(p, "unlockmail")
  /\ proc' = [proc EXCEPT ![p].pc = proc[p].then, ![p].box = NoName,
                          ![p].item = NoConf, ![p].then = "off"]
  /\ UNCHANGED <<files, clock, crashes, book>>

\* The lock file is removed, whoever wrote it.
UnlockMail(p) ==
  /\ At(p, "unlockmail")
  /\ lock' = [lock EXCEPT ![proc[p].box] = NoLock]
  /\ proc' = [proc EXCEPT ![p].pc = proc[p].then, ![p].box = NoName,
                          ![p].item = NoConf, ![p].then = "off"]
  /\ UNCHANGED <<conf, data, archive, clock, crashes, book>>

\* A receiver has taken in a message.
Receive(r) ==
  /\ At(r, "off")
  /\ \E n \in Incoming, k \in 1..MaxRcpts :
       /\ Fresh(n)
       /\ Deposit(r, n, Mail("received", k), "off", Idle)
       /\ book' = [book EXCEPT ![n].asked = k]
  /\ UNCHANGED <<files, clock, crashes>>

-----------------------------------------------------------------------------
(* Manager::getNext *)

\* The manager is forked and reads the directory; with inTurn not while another
\* one does so or makes its choice.
Start(m) ==
  /\ At(m, "off")
  /\ inTurn => \A q \in Procs : ~Selecting(q)
  /\ LET found == {n \in Names : conf[n].file # "none"} IN
       /\ found # {}
       /\ proc' = [proc EXCEPT ![m] = [Idle EXCEPT !.pc = "scan", !.listing = found]]
  /\ UNCHANGED <<files, clock, crashes, book>>

\* Message::unqueue of a config that is there and has been written.  A
\* recipient whose domain does not resolve is left out.
Unqueue(m) ==
  /\ At(m, "scan")
  /\ \E n \in proc[m].listing :
       LET there == IF n \in dead THEN conf[n].rcpts - 1 ELSE conf[n].rcpts IN
       /\ conf[n].file = "full" /\ there > 0
       /\ proc' = [proc EXCEPT ![m].listing = @ \ {n},
                               ![m].seen[n] = [conf[n] EXCEPT !.rcpts = there]]
  /\ UNCHANGED <<files, clock, crashes, book>>

\* An empty config is passed over.
UnqueueEmpty(m) ==
  /\ At(m, "scan")
  /\ \E n \in proc[m].listing :
       /\ conf[n].file = "empty"
       /\ proc' = [proc EXCEPT ![m].listing = @ \ {n}]
  /\ UNCHANGED <<files, clock, crashes, book>>

\* The manager exits when a config has been moved away meanwhile, and fails
\* the assertion on currAdd when a message has no recipient left.
UnqueueDies(m) ==
  /\ At(m, "scan")
  /\ \E n \in proc[m].listing :
       \/ conf[n].file = "none"
       \/ conf[n].file = "full" /\ n \in dead /\ conf[n].rcpts = 1
  /\ Gone(m)
  /\ UNCHANGED <<files, clock, crashes, book>>

ScanDone(m) ==
  /\ At(m, "scan")
  /\ proc[m].listing = {}
  /\ proc' = [proc EXCEPT ![m].pc = "select"]
  /\ UNCHANGED <<files, clock, crashes, book>>

\* Mutant of the next definition: the lock is not looked at.
UnlockedAlways(n) == lock' = lock

\* Message::hasLock is FALSE: there is no lock file, or it has expired and is
\* removed.  Only the lock of a process that is gone is that old.
Unlocked(n) ==
  \/ lock[n] = NoLock /\ UNCHANGED lock
  \/ lock[n] = Orphan /\ lock' = [lock EXCEPT ![n] = NoLock]

\* The messages the loop over the messages read has not come to.
Todo(m) == {n \in Names : proc[m].seen[n].file # "none"} \ {proc[m].cand}

TooLate(m, n) == n \in old \/ proc[m].seen[n].tries > MaxTries

\* A message that is locked, not due, or older than the candidate is passed
\* over; which of two is older is left open.
PassOver(m) ==
  /\ At(m, "select")
  /\ \E n \in Todo(m) :
       /\ \/ proc[m].cand # NoName /\ UNCHANGED lock
          \/ lock[n] # NoLock /\ UNCHANGED lock
          \/ Unlocked(n) /\ proc[m].seen[n].stat = "spooled" /\ n \notin due
       /\ proc' = [proc EXCEPT ![m].seen[n] = NoConf]
  /\ UNCHANGED <<conf, data, archive, clock, crashes, book>>

\* A message takes the place of the candidate there was.
Candidate(m) ==
  /\ At(m, "select")
  /\ \E n \in Todo(m) :
       /\ Unlocked(n)
       /\ proc[m].seen[n].stat = "spooled" => n \in due /\ ~TooLate(m, n)
       /\ proc' = [proc EXCEPT ![m].cand = n,
            ![m].seen = [k \in Names |-> IF k = proc[m].cand THEN NoConf ELSE @[k]]]
  /\ UNCHANGED <<conf, data, archive, clock, crashes, book>>

\* A spooled message is given up: an error mail to the administrator is put
\* into the spool, then the message is locked and queued as "failed".
Expire(m) ==
  /\ At(m, "select")
  /\ \E n \in Todo(m) :
       /\ Unlocked(n)
       /\ proc[m].seen[n].stat = "spooled" /\ n \in due /\ TooLate(m, n)
       /\ MaybeReply(m, "giveup",
                [proc[m] EXCEPT !.seen[n] = NoConf, !.cur = n, !.msg = proc[m].seen[n],
                                !.out = "failed", !.resume = "select"])
  /\ UNCHANGED <<conf, data, archive, clock, crashes, book>>

GiveUp(m) ==
  /\ At(m, "giveup")
  /\ lock' = [lock EXCEPT ![proc[m].cur] = m]
  /\ proc' = [proc EXCEPT ![m].pc = "truncate"]
  /\ UNCHANGED <<conf, data, archive, clock, crashes, book>>

\* The candidate is locked, without another look at its lock or its config.
Take(m) ==
  /\ At(m, "select")
  /\ Todo(m) = {}
  /\ proc[m].cand # NoName
  /\ lock' = [lock EXCEPT ![proc[m].cand] = m]
  /\ proc' = [proc EXCEPT ![m] = [Idle EXCEPT !.pc = "work", !.cur = proc[m].cand,
                                              !.msg = proc[m].seen[proc[m].cand]]]
  /\ UNCHANGED <<conf, data, archive, clock, crashes, book>>

NothingToDo(m) ==
  /\ At(m, "select")
  /\ Todo(m) = {} /\ proc[m].cand = NoName
  /\ Gone(m)
  /\ UNCHANGED <<files, clock, crashes, book>>

-----------------------------------------------------------------------------
(* Manager::start and Manager::process: what becomes of the message        *)

Handling(m, S) == At(m, "work") /\ proc[m].msg.stat \in S

Outcome(m, out) ==
  proc' = [proc EXCEPT ![m].pc = "truncate", ![m].out = out]

\* Mutant of the next definition: the last recipient is forgotten.
StartSplitShort(m) ==
  /\ Handling(m, {"received"})
  /\ proc[m].msg.rcpts > 1
  /\ proc' = [proc EXCEPT ![m].pc = "split", ![m].left = proc[m].msg.rcpts - 1]
  /\ UNCHANGED <<files, clock, crashes, book>>

\* A message with several recipients is split.
StartSplit(m) ==
  /\ Handling(m, {"received"})
  /\ proc[m].msg.rcpts > 1
  /\ proc' = [proc EXCEPT ![m].pc = "split", ![m].left = proc[m].msg.rcpts]
  /\ UNCHANGED <<files, clock, crashes, book>>

\* Message::clone for one recipient.  Without the data file there is nothing to
\* link, and this recipient gets no message.
Split(m) ==
  /\ At(m, "split")
  /\ proc[m].left > 0
  /\ LET n    == proc[m].cur
         rest == [proc[m] EXCEPT !.left = @ - 1] IN
       \/ /\ data[n] = "spool"
          /\ \E k \in CloneNames :
               Fresh(k) /\ Deposit(m, k, Mail("received", 1), "split", rest)
          /\ book' = [book EXCEPT ![n].clones = @ + 1]
       \/ /\ data[n] # "spool"
          /\ proc' = [proc EXCEPT ![m] = rest]
          /\ UNCHANGED book
  /\ UNCHANGED <<files, clock, crashes>>

SplitDone(m) ==
  /\ At(m, "split")
  /\ proc[m].left = 0
  /\ Outcome(m, "splitted")
  /\ UNCHANGED <<files, clock, crashes, book>>

\* A message to the list program is a set of commands; one to a list may be too large,
\* or come from a stranger.
Answer(m) ==
  /\ Handling(m, {"received"}) /\ proc[m].msg.rcpts = 1
  /\ \E out \in {"done", "rejected"} :
       proc' = [proc EXCEPT ![m].pc = "reply", ![m].out = out]
  /\ UNCHANGED <<files, clock, crashes, book>>

\* Mails about that are written: to users and administrators, and an answer.  How many
\* is left open.
AnswerMail(m) ==
  /\ At(m, "reply")
  /\ Reply(m, "reply", proc[m])
  /\ UNCHANGED <<files, clock, crashes, book>>

AnswerDone(m) ==
  /\ At(m, "reply")
  /\ Outcome(m, proc[m].out)
  /\ UNCHANGED <<files, clock, crashes, book>>

\* A message a list takes, and one with a recipient that is nothing of ours.
Judge(m) ==
  /\ Handling(m, {"received"}) /\ proc[m].msg.rcpts = 1
  /\ \E out \in {"approved", "error"} : Outcome(m, out)
  /\ UNCHANGED <<files, clock, crashes, book>>

\* Mutant of the next definition: an unknown list is to be tried again.
BroadcastAgain(m) ==
  /\ Handling(m, {"approved"})
  /\ Outcome(m, "spooled") \/ proc' = [proc EXCEPT ![m].pc = "cast"]
  /\ UNCHANGED <<files, clock, crashes, book>>

\* Manager::broadcast fails for an unknown list only.
Broadcast(m) ==
  /\ Handling(m, {"approved"})
  /\ Outcome(m, "failed") \/ proc' = [proc EXCEPT ![m].pc = "cast"]
  /\ UNCHANGED <<files, clock, crashes, book>>

\* While the manager waits for its transmitters, a copy for a user who could not
\* be reached is put into the spool; a notice to the sender comes before and
\* after.  The copies of different users are put one after the other here.
CastMail(m) ==
  /\ At(m, "cast")
  /\ \E k \in MailNames, stat \in {"created", "spooled"} :
       /\ Fresh(k)
       /\ stat = "spooled" => data[proc[m].cur] = "spool"
       /\ Deposit(m, k, Mail(stat, 1), "cast", proc[m])
  /\ UNCHANGED <<files, clock, crashes, book>>

\* Success is reported whatever became of the copies.
CastDone(m) ==
  /\ At(m, "cast")
  /\ Outcome(m, "sent")
  /\ book' = IF data[proc[m].cur] = "spool"
             THEN [book EXCEPT ![proc[m].cur].sent = @ + 1] ELSE book
  /\ UNCHANGED <<files, clock, crashes>>

\* Mutant of Transmit: nobody looks whether the data file could be opened.
TransmitBlind(m) ==
  /\ Handling(m, {"created", "spooled"})
  /\ \/ proc[m].cur \notin dead /\ proc' = [proc EXCEPT ![m].pc = "deliver"]
     \/ Outcome(m, "spooled")
  /\ UNCHANGED <<files, clock, crashes, book>>

\* Transmitter::start for a mail to one recipient: a server is found and takes the
\* envelope, and the data is opened, or not.
Transmit(m) ==
  /\ Handling(m, {"created", "spooled"})
  /\ \/ /\ data[proc[m].cur] = "spool" /\ proc[m].cur \notin dead
        /\ proc' = [proc EXCEPT ![m].pc = "deliver"]
     \/ Outcome(m, "spooled")
  /\ UNCHANGED <<files, clock, crashes, book>>

\* Mutant of the next definition: the answers of Transmitter::start are swapped.
DeliverSwapped(m) ==
  /\ At(m, "deliver")
  /\ LET n == proc[m].cur IN
       \/ Outcome(m, "spooled") /\ book' = [book EXCEPT ![n].sent = @ + 1]
       \/ Outcome(m, "sent") /\ UNCHANGED book
  /\ UNCHANGED <<files, clock, crashes>>

\* The data is sent, and the answer to the final dot read.  When that is lost the
\* message has been delivered and is tried again all the same.
Deliver(m) ==
  /\ At(m, "deliver")
  /\ LET n == proc[m].cur IN
       \/ Outcome(m, "sent") /\ book' = [book EXCEPT ![n].sent = @ + 1]
       \/ /\ Outcome(m, "spooled") /\ book[n].lost < MaxLost
          /\ book' = [book EXCEPT ![n].sent = @ + 1, ![n].lost = @ + 1]
       \/ Outcome(m, "spooled") /\ UNCHANGED book
  /\ UNCHANGED <<files, clock, crashes>>

\* Any other status: the manager ends and leaves its lock behind.
UnknownStatus(m) ==
  /\ Handling(m, Final \cup {"absent"})
  /\ Gone(m)
  /\ lock' = Orphaned(m)
  /\ UNCHANGED <<conf, data, archive, clock, crashes, book>>

-----------------------------------------------------------------------------
(* Message::queue, Message::moveToDone and Message::unlock                 *)

\* Config::write truncates the file, or makes it anew.
Truncate(m) ==
  /\ At(m, "truncate")
  /\ conf' = [conf EXCEPT ![proc[m].cur].file = "empty"]
  /\ proc' = [proc EXCEPT ![m].pc = "write"]
  /\ UNCHANGED <<data, lock, archive, clock, crashes, book>>

\* Mutant of the next definition: Q_AGAIN moves the message as Q_DONE does.
WrittenAgain(m) ==
  proc' = [proc EXCEPT ![m].pc = IF proc[m].out # "approved" THEN "mvdata" ELSE "unlock"]

\* What the manager goes on with after the config is written.
Written(m) ==
  proc' = [proc EXCEPT ![m].pc = IF proc[m].out \in Final THEN "mvdata" ELSE "unlock"]

\* The file gets the message as this manager knows it; tries counts Q_AGAIN.
WriteConf(m) ==
  /\ At(m, "write")
  /\ LET p == proc[m] IN
       /\ conf' = [conf EXCEPT ![p.cur] =
            [p.msg EXCEPT !.stat = p.out,
                          !.tries = IF p.out = "spooled" THEN @ + 1 ELSE @]]
       /\ due' = due \ {p.cur}
       /\ book' = Noted(p.cur, p.out)
  /\ Written(m)
  /\ UNCHANGED <<data, lock, archive, old, dead, inTurn, crashes>>

\* The open file has been renamed meanwhile: it is the archived one.
WriteMoved(m) ==
  /\ At(m, "writemoved")
  /\ archive' = [archive EXCEPT ![proc[m].cur] = proc[m].out]
  /\ book' = Noted(proc[m].cur, proc[m].out)
  /\ Written(m)
  /\ UNCHANGED <<conf, data, lock, clock, crashes>>

\* Mutant of MvData: the data is copied after the config is moved, so a failure
\* is found too late.
MvDataLate(m) ==
  /\ At(m, "mvdata")
  /\ proc' = [proc EXCEPT ![m].pc = "mvconf"]
  /\ UNCHANGED <<conf, data, lock, archive, clock, crashes, book>>

MvData(m) ==
  /\ At(m, "mvdata")
  /\ IF data[proc[m].cur] = "spool"
     THEN /\ data' = [data EXCEPT ![proc[m].cur] = "done"]
          /\ proc' = [proc EXCEPT ![m].pc = "mvconf"]
     ELSE /\ UNCHANGED data
          /\ proc' = [proc EXCEPT ![m].pc = "unlock"]
  /\ UNCHANGED <<conf, lock, archive, clock, crashes, book>>

\* A process that has the file open goes on writing to it where it is now.
MvConf(m) ==
  /\ At(m, "mvconf")
  /\ LET n == proc[m].cur IN
       IF conf[n].file = "none"
       THEN /\ UNCHANGED <<conf, archive>>
            /\ proc' = [proc EXCEPT ![m].pc = "unlock"]
       ELSE /\ conf' = [conf EXCEPT ![n] = NoConf]
            /\ archive' = [archive EXCEPT ![n] =
                 IF conf[n].file = "full" THEN conf[n].stat ELSE "empty"]
            /\ proc' = [q \in Procs |->
                 IF q = m THEN [proc[q] EXCEPT !.pc = "unlock"]
                 ELSE IF proc[q].pc = "write" /\ proc[q].cur = n
                 THEN [proc[q] EXCEPT !.pc = "writemoved"]
                 ELSE proc[q]]
  /\ UNCHANGED <<data, lock, clock, crashes, book>>

\* The lock file is removed, whoever wrote it.
Unlock(m) ==
  /\ At(m, "unlock")
  /\ lock' = [lock EXCEPT ![proc[m].cur] = NoLock]
  /\ IF proc[m].resume = "off" THEN Gone(m)
     ELSE proc' = [proc EXCEPT ![m].pc = "select", ![m].cur = NoName, ![m].msg = NoConf,
                               ![m].out = "absent", ![m].resume = "off"]
  /\ UNCHANGED <<conf, data, archive, clock, crashes, book>>

-----------------------------------------------------------------------------
(* Time, name servers and crashes                                          *)

\* The queue interval of a message has passed.
Due(n) ==
  /\ conf[n].stat = "spooled" /\ conf[n].file = "full" /\ n \notin due
  /\ due' = due \cup {n}
  /\ UNCHANGED <<files, proc, old, dead, inTurn, crashes, book>>

\* The maximal queue time of a message has passed.
Old(n) ==
  /\ conf[n].stat = "spooled" /\ n \notin old
  /\ old' = old \cup {n}
  /\ UNCHANGED <<files, proc, due, dead, inTurn, crashes, book>>

DomainDies(n) ==
  /\ DnsFailures
  /\ conf[n].file # "none" /\ n \notin dead
  /\ dead' = dead \cup {n}
  /\ UNCHANGED <<files, proc, due, old, inTurn, crashes, book>>

\* A process is killed, or the machine goes down under it.
Crash(p) ==
  /\ proc[p].pc # "off" /\ crashes < MaxCrashes
  /\ crashes' = crashes + 1
  /\ Gone(p)
  /\ lock' = Orphaned(p)
  /\ UNCHANGED <<conf, data, archive, clock, book>>

-----------------------------------------------------------------------------
Init ==
  /\ conf = [n \in Names |-> NoConf]
  /\ data = [n \in Names |-> "none"]
  /\ lock = [n \in Names |-> NoLock]
  /\ archive = [n \in Names |-> "none"]
  /\ proc = [p \in Procs |-> Idle]
  /\ due = {} /\ old = {} /\ dead = {}
  /\ inTurn \in Turns
  /\ crashes = 0
  /\ book = [n \in Names |-> [asked |-> 0, clones |-> 0, sent |-> 0, lost |-> 0, had |-> {}]]

\* The steps of Manager::getNext, and of the rest of Manager::start.
Select(m) ==
  \/ Start(m) \/ Unqueue(m) \/ UnqueueEmpty(m) \/ UnqueueDies(m) \/ ScanDone(m)
  \/ PassOver(m) \/ Candidate(m) \/ Expire(m) \/ GiveUp(m) \/ Take(m) \/ NothingToDo(m)

Handle(m) ==
  \/ StartSplit(m) \/ Split(m) \/ SplitDone(m)
  \/ Answer(m) \/ AnswerMail(m) \/ AnswerDone(m) \/ Judge(m)
  \/ Broadcast(m) \/ CastMail(m) \/ CastDone(m)
  \/ Transmit(m) \/ Deliver(m) \/ UnknownStatus(m)

Finish(m) ==
  \/ Truncate(m) \/ WriteConf(m) \/ WriteMoved(m) \/ MvData(m) \/ MvConf(m) \/ Unlock(m)

PutMail(p) == LockMail(p) \/ WriteMail(p) \/ UnlockMail(p)

Environment ==
  \/ \E n \in Names : Due(n) \/ Old(n) \/ DomainDies(n)
  \/ \E p \in Procs : Crash(p)

Next ==
  \/ \E m \in Managers : Select(m) \/ Handle(m) \/ Finish(m)
  \/ \E r \in Receivers : Receive(r)
  \/ \E p \in Procs : PutMail(p)
  \/ Environment

Spec == Init /\ [][Next]_vars

\* A process that runs goes on, the scheduler forks managers for ever, and time
\* passes.  Fairness is strong because a manager may have to wait for another one's
\* selection.
Fairness ==
  /\ \A m \in Managers : SF_vars(Select(m) \/ Handle(m) \/ Finish(m))
  /\ \A p \in Procs : SF_vars(PutMail(p))
  /\ \A n \in Names : WF_vars(Due(n))

FairSpec == Spec /\ Fairness

-----------------------------------------------------------------------------
(* Properties *)

Mailing   == {"lockmail", "writemail", "unlockmail"}
Settling  == {"truncate", "write", "writemoved", "mvdata", "mvconf", "unlock"}
Handled   == {"giveup", "work", "split", "reply", "cast", "deliver"} \cup Settling

\* What the next step of a process finds in its local state.
Shape(r) ==
  /\ r.pc \in Handled \/ r.then # "off" => r.cur \in Names
  /\ r.pc \in {"off", "scan", "select"} => r.cur = NoName
  /\ r.pc \in Mailing /\ r.then = "off" => r.cur = NoName
  /\ r.pc \in Mailing <=> r.box # NoName
  /\ r.then # "off" => r.pc \in Mailing

FilesOK ==
  /\ conf \in [Names -> ConfType]
  /\ data \in [Names -> {"none", "spool", "done"}]
  /\ lock \in [Names -> Procs \cup {NoLock, Orphan}]
  /\ archive \in [Names -> Status \cup {"none", "empty"}]

ProcsOK == proc \in [Procs -> ProcType] /\ \A p \in Procs : Shape(proc[p])

ClockOK ==
  /\ due \subseteq Names /\ old \subseteq Names /\ dead \subseteq Names
  /\ inTurn \in Turns
  /\ crashes \in 0..MaxCrashes
  /\ book \in [Names -> [asked : Nat, clones : Nat, sent : Nat, lost : Nat, had : SUBSET Status]]

\* The variables have their types, and a process holds a message exactly at the
\* steps of the code that have one.
TypeOK == FilesOK /\ ProcsOK /\ ClockOK

Working(p, n) == proc[p].cur = n /\ proc[p].pc # "unlock"

\* No two managers handle the same message at a time, as long as their selections
\* do not overlap: "creating lock-file and return selected message"
\* (Manager::getNext).  A message without data is left out: its receiver may remove
\* the lock of a manager.
NoDoubleWork ==
  inTurn => \A p, q \in Managers, n \in Names :
    data[n] # "none" /\ Working(p, n) /\ Working(q, n) => p = q

\* However old the config is that a manager has read, a message is delivered at most
\* once, retries included, and once more for each process that died before it could
\* write down what it had done and for each answer that was lost.
AtMostOnce == inTurn => \A n \in Names : book[n].sent <= 1 + crashes + book[n].lost

\* A final status is written before the files move: what a manager does that dies
\* between the renames is not lost for the next one that reads the config.
FinalBeforeMove ==
  [][inTurn => \A n \in Names :
       data[n] # "done" /\ data'[n] = "done" => conf[n].file = "full" /\ conf[n].stat \in Final]_vars

\* A message put away as "splitted" has become a message for each recipient that
\* the receiver acknowledged, and when no manager has died while it split, just one.
\* Left out are recipients whose domain does not resolve and overlapping selections.
SplitComplete ==
  inTurn => \A n \in Names \ dead : archive[n] = "splitted" =>
    /\ book[n].clones >= book[n].asked
    /\ crashes = 0 => book[n].clones = book[n].asked

\* Each message goes through the life cycle of its status words, however old the
\* configs are that managers work from, and is put away once, with a final one.  It is
\* claimed of selections that do not overlap (Turns = {TRUE}): else two managers may
\* write different statuses, each its own, into one file.
L == INSTANCE Lifecycle WITH had <- [n \in Names |-> book[n].had], fate <- archive
FollowsLifecycle == L!Spec

\* A config that nobody works on and whose data is not in the spool: what a receiver
\* queued without data, or a manager whose config was older than what was put away.
LeftBehind(n) ==
  conf[n].file = "full" /\ data[n] # "spool" /\ lock[n] \in {NoLock, Orphan}

\* The spool drains: again and again there is no config left in it, every message
\* having been put away, delivered or not, unless one was left behind.
SpoolDrains ==
  <>(\E n \in Names : LeftBehind(n)) \/ []<>(\A n \in Names : conf[n].file = "none")

\* Message::moveToDone never puts a config away without the data.
ArchiveComplete == \A n \in Names : archive[n] # "none" => data[n] = "done"

\* The rename of the data file lets one process through to move the config, even
\* when two managers handle the same message.
OneMover ==
  \A p, q \in Procs :
    proc[p].pc = "mvconf" /\ proc[q].pc = "mvconf" /\ proc[p].cur = proc[q].cur => p = q

\* What is put away is never delivered again, by a manager that read the config before.
NoRevival ==
  [][inTurn => \A n \in Names : book'[n].sent # book[n].sent => archive[n] = "none"]_vars

=============================================================================
