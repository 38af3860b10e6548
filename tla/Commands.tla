------------------------------ MODULE Commands ------------------------------
(***************************************************************************)
(* What a manager makes of a message that was received (Manager::process):  *)
(* the mail commands in a message to the list program (Message), which      *)
(* change the users and senders of the lists, and the judgement on a        *)
(* message to a list (MailingList::isUserAuthorized), which another manager *)
(* then broadcasts.                                                         *)
(*                                                                         *)
(* Managers are forked by the scheduler from its SIGALRM handler, at any    *)
(* time, also while it reads the lists again after SIGHUP; a manager knows  *)
(* the lists its parent knew, as they were then.  What they share is the    *)
(* spool, where a lock keeps a message for one of them (module Spool shows   *)
(* when), and the user and sender stores of the lists, which nothing locks. *)
(*                                                                         *)
(* A line of a mail is the sequence of its words, in small letters, as      *)
(* parseCommand makes them; lines without a word are left out.              *)
(***************************************************************************)
EXTENDS Naturals, Sequences, FiniteSets, SequencesExt

CONSTANTS
  Managers,     \* process ids of manager processes
  Lists,        \* names of lists
  People,       \* addresses outside of Limez
  Settings,     \* what the configs may say, see IsSetting
  Mails,        \* names of the messages in the spool
  Mailbags,     \* what the messages may be, see IsMail
  First,        \* the users and the senders of each list at the beginning
  MaxErrors,    \* MAX_MAIL_ERRORS
  MaxReloads,   \* bound: how often SIGHUP comes
  MaxFaults     \* bound: managers that die, and stores and files that fail

Program == "listserver"        \* server_mail and its aliases
NoMail  == "no mail"
NoOwner == "no owner"
NoWord  == "no word"

Kinds      == {"users", "senders"}
UserCmds   == {"add", "del"}           \* with all their other spellings
OptionCmds == {"xadd", "xdel"}         \* "do not inform admin"
SenderCmds == {"addsender", "delsender"}
Changes    == UserCmds \cup OptionCmds \cup SenderCmds
Harmless   == {"help", "lists", "stats"}

\* list_subscribe, list_unsubscribe, list_send.
JoinPolicy == {"closed", "approve", "open", "anyone"}
SendPolicy == {"closed", "sender", "subscriber", "open"}

\* What the config of the server and those of the lists say: which lists there are, in
\* the order they are read, their policies, the passwords of those that have one, whose
\* users and senders are in a table of the database, and server_command_quiet.
IsSetting(s) ==
  /\ s.lists \in Seq(Lists) /\ IsInjective(s.lists)
  /\ s.add \in [Lists -> JoinPolicy] /\ s.del \in [Lists -> JoinPolicy]
  /\ s.send \in [Lists -> SendPolicy]
  /\ DOMAIN s.pass \subseteq Lists
  /\ s.tables \subseteq Kinds \X Lists
  /\ s.quiet \in BOOLEAN

\* A message: its recipient, who wrote it, whether it is larger than
\* list_max_mailsize, its subject lines and its body.
IsMail(x) ==
  /\ x.to \in Lists \cup {Program} /\ x.from \in People
  /\ x.big \in BOOLEAN
  /\ x.subject \in Seq(Seq(STRING)) /\ x.body \in Seq(Seq(STRING))

\* What may be put into a store: a manager that does not know a list takes its
\* address for one outside.  Other words are no address (Address::setIfValid), or
\* the list program.
Addresses == People \cup Lists

ASSUME CommandsAssumption ==
  /\ {Program, NoWord} \cap (Lists \cup People) = {}
  /\ NoMail \notin Mails /\ NoOwner \notin Managers
  /\ Settings # {} /\ \A s \in Settings : IsSetting(s)
  /\ \A bag \in Mailbags : DOMAIN bag = Mails /\ \A x \in Mails : IsMail(bag[x])
  /\ MaxErrors \in Nat /\ MaxReloads \in Nat /\ MaxFaults \in Nat

Live   == {"received", "approved"}
Final  == {"done", "rejected", "error", "failed", "sent"}

VARIABLES
  set,          \* what the scheduler reads, or has read, in the configs
  mail,         \* what each message is
  stat,         \* its status
  lock,         \* the manager that has it, or NoOwner
  answer,       \* messages that have an answer in the spool
  store,        \* how often an address is in the stores of a list
  bare,         \* the scheduler has cleared its config, and has not read it yet
  known,        \* how many of the lists of set the scheduler has read
  reloads,      \* how often it has been told to read them again
  proc,         \* the managers, see ProcType
  faults,       \* what went wrong so far
  blind,        \* history: messages taken by a manager that did not know all lists, or
                \* when the list they are for was no more
  ever,         \* history: addresses that were in a store at some time
  past,         \* history: what the configs have said so far
  heard,        \* history: messages that were read to their end, or sent to a list
  spoilt        \* history: messages for which something could not be read, and what

spool == <<stat, lock, answer>>
sched == <<set, bare, known, reloads, past>>
notes == <<ever, heard, spoilt>>
vars  == <<mail, spool, store, sched, proc, faults, blind, notes>>

\* What a line asks for: a change of a store, or just a result.
Request == [what : {"wrong", "fine", "quiet", "crash", "change"}, cmd : Changes \cup {NoWord},
            list : Lists \cup {NoWord}, user : Addresses \cup {NoWord},
            approved : BOOLEAN]
Just(what) == [what |-> what, cmd |-> NoWord, list |-> NoWord, user |-> NoWord,
               approved |-> FALSE]

\* A manager: its step, its message, the configs and the lists it was forked with,
\* the lines it has read, the commands that failed, whether no answer is wanted,
\* the change it is about to make, and the status it will give to the message.
ProcType ==
  [ pc    : {"off", "judge", "line", "apply", "letter", "answer", "settle"},
    mail  : Mails \cup {NoMail},
    bare  : BOOLEAN,
    set   : Settings,
    knows : Nat,
    at    : Nat,
    errs  : Nat,
    quiet : BOOLEAN,
    todo  : Request,
    out   : Live \cup Final ]

Off == [pc |-> "off", mail |-> NoMail, bare |-> FALSE, set |-> CHOOSE s \in Settings : TRUE,
        knows |-> 0, at |-> 0, errs |-> 0, quiet |-> FALSE, todo |-> Just("fine"), out |-> "done"]

-----------------------------------------------------------------------------
(* The words of a line: Message::parseCommand, approve and change          *)

Word(line, i) == IF i \in DOMAIN line THEN line[i] ELSE NoWord

\* Mutant of the next definition: the loop ends before the last list.
KnownButLast(m, w) == \E i \in 1..(proc[m].knows - 1) : proc[m].set.lists[i] = w

\* getList: the list of that name, if this process knows it.
Known(m, w) == \E i \in 1..proc[m].knows : proc[m].set.lists[i] = w

\* Mutant of the next definition: the password of any list will do.
AnyPassword(m, line, i) ==
  LET pass == proc[m].set.pass
  IN /\ Known(m, Word(line, i + 3))
     /\ \E l \in DOMAIN pass : Word(line, i + 1) = pass[l]

\* "approve <password> <command> <list>": the list is the fourth word.  A list
\* whose password has a capital letter does not match, since the line has none.
ListPassword(m, line, i) ==
  LET l == Word(line, i + 3)
      pass == proc[m].set.pass
  IN Known(m, l) /\ l \in DOMAIN pass /\ Word(line, i + 1) = pass[l]

\* There is no password to compare with: strcmp gets NULL.
NothingToCompare(m, line, i) ==
  LET l == Word(line, i + 3) IN Known(m, l) /\ l \notin DOMAIN proc[m].set.pass

\* "<command> <list> [address]": the address is that of the writer when there is
\* none.  A word that is no address, or is one of our own, is answered and not
\* taken for an error.
Asked(m, line, i, approved) ==
  LET l == Word(line, i + 1)
      u == IF Word(line, i + 2) = NoWord THEN mail[proc[m].mail].from
           ELSE Word(line, i + 2) IN
  IF ~Known(m, l) THEN Just("wrong")
  ELSE IF u \notin Addresses \/ Known(m, u) THEN Just("fine")
  ELSE [what |-> "change", cmd |-> line[i], list |-> l, user |-> u, approved |-> approved]

\* A password of a list opens the rest of the line.
Opens(m, line, i) == Word(line, i) = "approve" /\ ListPassword(m, line, i)

\* Where the command is: the rest behind a password is parsed again, and may begin
\* with another password.
Behind(m, line, i) ==
  /\ i % 2 = 1 /\ ~Opens(m, line, i)
  /\ \A j \in 1..(i - 1) : j % 2 = 1 => Opens(m, line, j)

CommandAt(m, line) == CHOOSE i \in 1..(Len(line) + 2) : Behind(m, line, i)

\* What the line asks for.
Parsed(m, line) ==
  LET i == CommandAt(m, line)
      w == Word(line, i) IN
  CASE w \in Changes  -> Asked(m, line, i, i > 1)
    [] w \in Harmless -> Just("fine")
    [] w = "quiet"    -> Just("quiet")
    [] w = "approve" /\ NothingToCompare(m, line, i) -> Just("crash")
    [] OTHER          -> Just("wrong")

-----------------------------------------------------------------------------
(* Who may do what: Message::changeuser and changesender, and               *)
(* MailingList::isUserAuthorized                                            *)

Adds(cmd)  == cmd \in {"add", "xadd", "addsender"}
Kind(cmd)  == IF cmd \in SenderCmds THEN "senders" ELSE "users"
In(kind, l, u) == store[kind][l][u] > 0
Policy(m, r) == IF r.cmd = "add" THEN proc[m].set.add[r.list] ELSE proc[m].set.del[r.list]

\* A list that is closed stays so even for those who know the password.
Permitted(m, r) ==
  CASE r.cmd \in OptionCmds -> TRUE
    [] r.cmd \in SenderCmds -> r.approved
    [] OTHER ->
         /\ Policy(m, r) # "closed"
         /\ r.approved \/ Policy(m, r) # "approve"
         /\ r.approved \/ Policy(m, r) # "open" \/ r.user = mail[proc[m].mail].from

\* What isUserMember or isUserSender may say of the store when it fails: nobody is found
\* in one that cannot be opened; a count of the database that fails is -1 in an unsigned
\* number, and then everybody is found.
Misread(m, kind, l) == IF <<kind, l>> \in proc[m].set.tables THEN BOOLEAN ELSE {FALSE}

\* Where the sender of a message to a list is looked for, if anywhere.
Asks(m, l) ==
  CASE proc[m].set.send[l] = "subscriber" -> {"users"}
    [] proc[m].set.send[l] = "sender"     -> {"senders"}
    [] OTHER                              -> {}

\* Mutant of the next definition: senders are looked for among the users.
AuthorisedAsUser(m, l, u) ==
  proc[m].set.send[l] # "closed" /\ \A kind \in Asks(m, l) : In("users", l, u)

Authorised(m, l, u) ==
  proc[m].set.send[l] # "closed" /\ \A kind \in Asks(m, l) : In(kind, l, u)

-----------------------------------------------------------------------------
(* Manager::start and Manager::process                                     *)

At(m, pc) == proc[m].pc = pc
Mine(m)   == mail[proc[m].mail]
Fault     == faults < MaxFaults /\ faults' = faults + 1
Outcome(m, out) == proc' = [proc EXCEPT ![m].pc = "settle", ![m].out = out]

\* The scheduler forks a manager, which takes a message nobody else has.
TakeMail(m, x) ==
  /\ At(m, "off")
  /\ stat[x] \in Live /\ lock[x] = NoOwner
  /\ lock' = [lock EXCEPT ![x] = m]
  /\ proc' = [proc EXCEPT ![m] = [Off EXCEPT !.pc = "judge", !.mail = x, !.set = set,
                                            !.bare = bare, !.knows = known]]
  /\ blind' = IF \/ bare \/ known < Len(set.lists)
                 \/ mail[x].to \notin ToSet(set.lists) \cup {Program}
              THEN blind \cup {x} ELSE blind
  /\ UNCHANGED <<mail, stat, answer, store, sched, faults, notes>>

Take(m) == \E x \in Mails : TakeMail(m, x)

Judging(m, status) == At(m, "judge") /\ stat[proc[m].mail] = status

\* Address::isValidRec finds no list program and no list of that name.
NotOurs(m) ==
  /\ Judging(m, "received")
  /\ IF Mine(m).to = Program THEN proc[m].bare ELSE ~Known(m, Mine(m).to)
  /\ Outcome(m, "error")
  /\ UNCHANGED <<mail, spool, store, sched, faults, blind, notes>>

\* The message is for the list program: Message::generateAnswer opens its data.
Open(m) ==
  /\ Judging(m, "received") /\ Mine(m).to = Program /\ ~proc[m].bare
  /\ proc' = [proc EXCEPT ![m].pc = "line"]
  /\ UNCHANGED <<mail, spool, store, sched, faults, blind, notes>>

\* A file or a store cannot be read, and the message goes on as if it had been.
Spoils(m, what) ==
  /\ Fault
  /\ spoilt' = spoilt \cup {<<proc[m].mail, what>>}
  /\ UNCHANGED <<mail, spool, store, sched, blind, ever, heard>>

\* The data cannot be opened: there is no answer, and the message is done.
OpenFails(m) ==
  /\ Judging(m, "received") /\ Mine(m).to = Program /\ ~proc[m].bare
  /\ Outcome(m, "done")
  /\ Spoils(m, "data")

Approve(m, ok) == Outcome(m, IF ok THEN "approved" ELSE "rejected")

\* The message is for a list: its size comes first, then its sender.
Weigh(m) ==
  /\ Judging(m, "received") /\ Known(m, Mine(m).to)
  /\ Approve(m, ~Mine(m).big /\ Authorised(m, Mine(m).to, Mine(m).from))
  /\ UNCHANGED <<mail, spool, store, sched, faults, blind, notes>>

\* The store where the sender should be cannot be read.
WeighFails(m) ==
  /\ Judging(m, "received") /\ Known(m, Mine(m).to) /\ ~Mine(m).big
  /\ \E kind \in Asks(m, Mine(m).to) :
       \E found \in Misread(m, kind, Mine(m).to) : Approve(m, found)
  /\ Spoils(m, "judgement")

\* Manager::broadcast (module Broadcast), which fails for an unknown list.
Cast(m) ==
  /\ Judging(m, "approved")
  /\ \/ Known(m, Mine(m).to) /\ Outcome(m, "sent") /\ heard' = heard \cup {proc[m].mail}
     \/ ~Known(m, Mine(m).to) /\ Outcome(m, "failed") /\ UNCHANGED heard
  /\ UNCHANGED <<mail, spool, store, sched, faults, blind, ever, spoilt>>

\* The users of the list cannot be read: it is sent to nobody.
CastFails(m) ==
  /\ Judging(m, "approved") /\ Known(m, Mine(m).to)
  /\ Outcome(m, "sent")
  /\ Spoils(m, "users")

-----------------------------------------------------------------------------
(* Message::generateAnswer                                                 *)

Lines(x)     == mail[x].subject \o mail[x].body
InBody(m)    == proc[m].at >= Len(Mine(m).subject)
NextLine(m)  == Lines(proc[m].mail)[proc[m].at + 1]
IsEnd(line)  == Word(line, 1) \in {".", "--"}

\* There are no more lines, or what follows is the signature.
NoMore(m) ==
  proc[m].at < Len(Lines(proc[m].mail)) => InBody(m) /\ IsEnd(NextLine(m))

EndOfMail(m) ==
  /\ At(m, "line") /\ NoMore(m)
  /\ proc' = [proc EXCEPT ![m].pc = "answer"]
  /\ UNCHANGED <<mail, spool, store, sched, faults, blind, notes>>

\* The command at hand has failed.  When there were already more than MaxErrors
\* before it the rest of the mail is ignored; a failure in a subject line counts,
\* and does not stop anything.
Wrong(m) ==
  proc' = [proc EXCEPT ![m].at = @ + 1, ![m].errs = @ + 1, ![m].todo = Just("fine"),
             ![m].pc = IF InBody(m) /\ proc[m].errs > MaxErrors THEN "answer" ELSE "line"]

Right(m, quiet) ==
  proc' = [proc EXCEPT ![m].at = @ + 1, ![m].quiet = @ \/ quiet, ![m].todo = Just("fine"),
                       ![m].pc = "line"]

\* A line that asks for no change.
PlainLine(m) ==
  /\ At(m, "line") /\ ~NoMore(m)
  /\ LET r == Parsed(m, NextLine(m)) IN
       \/ r.what = "wrong" /\ Wrong(m)
       \/ r.what \in {"fine", "quiet"} /\ Right(m, r.what = "quiet")
  /\ UNCHANGED <<mail, spool, store, sched, faults, blind, notes>>

\* A line that kills the manager; the lock of its message stays.
Crash(m) ==
  /\ At(m, "line") /\ ~NoMore(m) /\ Parsed(m, NextLine(m)).what = "crash"
  /\ proc' = [proc EXCEPT ![m] = Off]
  /\ UNCHANGED <<mail, spool, store, sched, faults, blind, notes>>

\* What comes of the look into the store: there is something to do, or there is not.
Decide(m, r, found) ==
  IF Permitted(m, r) /\ found # Adds(r.cmd)
  THEN proc' = [proc EXCEPT ![m].pc = "apply", ![m].todo = r]
  ELSE Wrong(m)

\* A line that asks for a change: the policy comes first, then isUserMember or
\* isUserSender.
ChangeLine(m) ==
  /\ At(m, "line") /\ ~NoMore(m)
  /\ LET r == Parsed(m, NextLine(m)) IN
       /\ r.what = "change"
       /\ \/ Decide(m, r, In(Kind(r.cmd), r.list, r.user)) /\ UNCHANGED faults
          \/ /\ Permitted(m, r) /\ Fault
             /\ \E found \in Misread(m, Kind(r.cmd), r.list) : Decide(m, r, found)
  /\ UNCHANGED <<mail, spool, store, sched, blind, notes>>

\* MailingList::addUser, delUser, addSender or delSender (module UserFile): the
\* address is appended, or taken out wherever it is.
Apply(m) ==
  /\ At(m, "apply")
  /\ LET r == proc[m].todo IN
       /\ store' = [store EXCEPT ![Kind(r.cmd)][r.list][r.user] =
                      IF Adds(r.cmd) THEN @ + 1 ELSE 0]
       /\ ever' = IF Adds(r.cmd) THEN ever \cup {<<Kind(r.cmd), r.list, r.user>>} ELSE ever
       /\ IF r.cmd \in UserCmds
          THEN proc' = [proc EXCEPT ![m].pc = "letter"]
          ELSE Right(m, FALSE)
  /\ UNCHANGED <<mail, spool, sched, faults, blind, heard, spoilt>>

ApplyFails(m) ==
  /\ At(m, "apply")
  /\ Fault
  /\ Wrong(m)
  /\ UNCHANGED <<mail, spool, store, sched, blind, notes>>

\* Generator::welcomeBye, and informAdmin for the administrator, put letters into
\* the spool (module Spool shows how); a manager that dies before this sends none,
\* and the one that takes the mail again finds nothing to do.
Letter(m) ==
  /\ At(m, "letter")
  /\ Right(m, FALSE)
  /\ UNCHANGED <<mail, spool, store, sched, faults, blind, notes>>

\* The answer is put into the spool, unless it is not wanted.
Answer(m) ==
  /\ At(m, "answer")
  /\ answer' = IF proc[m].quiet \/ proc[m].set.quiet THEN answer ELSE answer \cup {proc[m].mail}
  /\ heard' = heard \cup {proc[m].mail}
  /\ Outcome(m, "done")
  /\ UNCHANGED <<mail, stat, lock, store, sched, faults, blind, ever, spoilt>>

\* Message::queue and unlock, and the end of the manager.
Settle(m) ==
  /\ At(m, "settle")
  /\ LET x == proc[m].mail IN
       /\ stat' = [stat EXCEPT ![x] = proc[m].out]
       /\ lock' = [lock EXCEPT ![x] = NoOwner]
  /\ proc' = [proc EXCEPT ![m] = Off]
  /\ UNCHANGED <<mail, answer, store, sched, faults, blind, notes>>

\* A manager is killed.
Die(m) ==
  /\ ~At(m, "off")
  /\ Fault
  /\ proc' = [proc EXCEPT ![m] = Off]
  /\ UNCHANGED <<mail, spool, store, sched, blind, notes>>

\* Mutant of the next definition: the age of a lock is compared the wrong way round.
ExpireYoung(x) ==
  /\ lock[x] # NoOwner /\ proc[lock[x]].mail = x
  /\ lock' = [lock EXCEPT ![x] = NoOwner]
  /\ UNCHANGED <<mail, stat, answer, store, sched, proc, faults, blind, notes>>

\* Message::hasLock removes a lock that is too old, whose owner is gone.
Expire(x) ==
  /\ lock[x] # NoOwner /\ proc[lock[x]].mail # x
  /\ lock' = [lock EXCEPT ![x] = NoOwner]
  /\ UNCHANGED <<mail, stat, answer, store, sched, proc, faults, blind, notes>>

-----------------------------------------------------------------------------
(* Scheduler::init after SIGHUP                                            *)

\* The config goes back to its defaults, in which the list program has another
\* address.  The lists of the old config are still there.
Reload ==
  /\ reloads < MaxReloads /\ ~bare /\ known = Len(set.lists)
  /\ bare' = TRUE /\ reloads' = reloads + 1
  /\ UNCHANGED <<mail, spool, store, set, known, past, proc, faults, blind, notes>>

\* The config has been read, and the lists are dropped; the configs may have been
\* edited, and say what they will.
DropLists ==
  /\ bare
  /\ bare' = FALSE /\ known' = 0
  /\ set' \in Settings /\ past' = past \cup {set'}
  /\ UNCHANGED <<mail, spool, store, reloads, proc, faults, blind, notes>>

\* Mutant of the next definition: the loop goes on behind the last list.
ReadListAlways ==
  /\ ~bare /\ reloads > 0
  /\ known' = known + 1
  /\ UNCHANGED <<mail, spool, store, set, bare, reloads, past, proc, faults, blind, notes>>

ReadList ==
  /\ ~bare /\ known < Len(set.lists)
  /\ known' = known + 1
  /\ UNCHANGED <<mail, spool, store, set, bare, reloads, past, proc, faults, blind, notes>>

-----------------------------------------------------------------------------
\* A message was received for a list of that time.
Init ==
  /\ set \in Settings
  /\ mail \in Mailbags
  /\ \A x \in Mails : mail[x].to \in ToSet(set.lists) \cup {Program}
  /\ stat = [x \in Mails |-> "received"]
  /\ lock = [x \in Mails |-> NoOwner]
  /\ answer = {}
  /\ store = [k \in Kinds |-> [l \in Lists |-> [u \in Addresses |->
                IF u \in First[k][l] THEN 1 ELSE 0]]]
  /\ bare = FALSE /\ known = Len(set.lists) /\ reloads = 0
  /\ proc = [m \in Managers |-> Off]
  /\ faults = 0
  /\ blind = {} /\ heard = {} /\ spoilt = {} /\ past = {set}
  /\ ever = {e \in Kinds \X Lists \X Addresses : e[3] \in First[e[1]][e[2]]}

Process(m) ==
  \/ Take(m) \/ NotOurs(m) \/ Open(m) \/ OpenFails(m) \/ Weigh(m) \/ WeighFails(m)
  \/ Cast(m) \/ CastFails(m) \/ EndOfMail(m) \/ PlainLine(m) \/ Crash(m) \/ ChangeLine(m)
  \/ Apply(m) \/ ApplyFails(m) \/ Letter(m) \/ Answer(m) \/ Settle(m)

Next ==
  \/ \E m \in Managers : Process(m) \/ Die(m)
  \/ \E x \in Mails : Expire(x)
  \/ Reload \/ DropLists \/ ReadList

Spec == Init /\ [][Next]_vars

\* A process that runs goes on, locks get old, and the scheduler forks managers for
\* ever: so many while an old lock still holds that each message gets its turn, even
\* next to one that kills every manager.
FairSpec ==
  /\ Spec
  /\ \A m \in Managers : WF_vars(Process(m))
  /\ \A x \in Mails : WF_vars(Expire(x)) /\ SF_vars(\E m \in Managers : TakeMail(m, x))

-----------------------------------------------------------------------------
(* Properties                                                              *)

\* The variables have their types.
TypeOK ==
  /\ set \in Settings /\ mail \in Mailbags
  /\ stat \in [Mails -> Live \cup Final] /\ lock \in [Mails -> Managers \cup {NoOwner}]
  /\ {answer, blind, heard} \subseteq SUBSET Mails /\ past \subseteq Settings
  /\ spoilt \subseteq Mails \X {"data", "judgement", "users"}
  /\ store \in [Kinds -> [Lists -> [Addresses -> Nat]]]
  /\ bare \in BOOLEAN /\ known \in 0..Len(set.lists)
  /\ reloads \in 0..MaxReloads /\ faults \in 0..MaxFaults
  /\ proc \in [Managers -> ProcType]
  /\ ever \subseteq Kinds \X Lists \X Addresses

\* The command at place i of the line is for list l, and has its password before it.
Sealed(s, line, i, l) ==
  /\ i > 2 /\ Word(line, i - 2) = "approve"
  /\ l \in DOMAIN s.pass /\ Word(line, i - 1) = s.pass[l]

\* A policy for users lets u do something to address a, with a password or without:
\* "'open' - everyone can join, 'closed' - nobody may add, 'approve' - only with
\* password, 'anyone' - anyone may add anyone" (doc.ini).
Lets(policy, u, a, sealed) ==
  \/ policy = "anyone"
  \/ policy = "open" /\ (a = u \/ sealed)
  \/ policy = "approve" /\ sealed

\* Somewhere in the line, sent by u, is a command that names list l and address a, or
\* no address when that is u itself, and with these settings it is granted.  The code
\* grants xadd and xdel to everybody, which the README does not: see OptionsAreSealed.
Entitled(s, line, u, l, a) ==
  \E i \in DOMAIN line :
    LET w == Word(line, i + 2) IN
    /\ Word(line, i + 1) = l /\ a = IF w = NoWord THEN u ELSE w
    /\ \/ line[i] = "add" /\ Lets(s.add[l], u, a, Sealed(s, line, i, l))
       \/ line[i] = "del" /\ Lets(s.del[l], u, a, Sealed(s, line, i, l))
       \/ line[i] \in SenderCmds /\ Sealed(s, line, i, l)
       \/ line[i] \in OptionCmds

\* Whoever's entry in a store changes, some manager is at a line that entitles its
\* writer to this, by the lists as they were when the manager was forked: passwords
\* within a line, taken from the words it is made of, open the list they belong to and
\* no other, and a policy holds for the address that is changed.
ChangesAreEntitled ==
  [][\A k \in Kinds, l \in Lists, a \in Addresses :
       store'[k][l][a] # store[k][l][a] =>
         \E m \in Managers :
           /\ At(m, "apply") /\ proc[m].set \in past
           /\ Entitled(proc[m].set, NextLine(m), Mine(m).from, l, a)]_vars

\* "the following commands always need to be approved by password: ... addsender ...
\* delsender ... xadd ... xdel" (README).
OptionsAreSealed ==
  [][\A m \in Managers :
       LET r == proc[m].todo IN
       At(m, "apply") /\ r.cmd \in SenderCmds \cup OptionCmds /\ store' # store =>
         \E i \in DOMAIN NextLine(m) :
           NextLine(m)[i] = r.cmd /\ Sealed(proc[m].set, NextLine(m), i, r.list)]_vars

\* A message we took in for a list or the list program is lost only if a manager was
\* forked for it while the scheduler was reading its config and its lists again, or
\* after that had dropped the list.  It counts as done or sent although nobody read it
\* or was sent it only if its data or the users of the list could not be read.
LostOnlyInReload ==
  \A x \in Mails :
    /\ stat[x] \in {"error", "failed"} => x \in blind
    /\ stat[x] = "done" => x \in heard \/ <<x, "data">> \in spoilt
    /\ stat[x] = "sent" => x \in heard \/ <<x, "users">> \in spoilt

\* What is broadcast to a list was written by somebody who was a sender of this list,
\* or subscribed to it, at some time, as the list then demanded, though stores and
\* lists change between the reception, the judgement and the broadcast; or it was
\* judged when a table could not be read, which makes everybody a member.
CastWasEntitled ==
  \A x \in Mails :
    stat[x] = "sent" =>
      /\ ~mail[x].big
      /\ \E s \in past :
           LET l == mail[x].to
               may(kind) ==
                 \/ <<kind, l, mail[x].from>> \in ever
                 \/ <<x, "judgement">> \in spoilt /\ <<kind, l>> \in s.tables IN
           \/ s.send[l] = "open"
           \/ s.send[l] = "sender" /\ may("senders")
           \/ s.send[l] = "subscriber" /\ may("users")

\* A line of the message asks for a list that has no password to be compared.
Deadly(x) ==
  \E n \in DOMAIN Lines(x) :
    LET line == Lines(x)[n] IN
    \E i \in DOMAIN line :
      line[i] = "approve" /\ Word(line, i + 3) \in ToSet(set.lists) \ DOMAIN set.pass

\* Every message is settled at last, but for one that is for a list program whose lists
\* have no password where it wants one: that kills one manager after the other.
MailsSettle == \A x \in Mails : <>[](stat[x] \in Final \/ Deadly(x))
=============================================================================
