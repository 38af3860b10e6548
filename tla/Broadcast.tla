----------------------------- MODULE Broadcast ------------------------------
(***************************************************************************)
(* The broadcast of one message to the users of a list.  The manager       *)
(* (Manager::broadcast) forks one transmitter per user, list_max_send_tasks *)
(* at a time, and learns of their ends from SIGCHLD (manager_sigchild); a   *)
(* transmitter (transmitter.cc) talks SMTP to the mail servers of its user  *)
(* and puts a copy of the message into the spool when it fails.             *)
(*                                                                         *)
(* The transmitters are copies of the manager: in all of them the global    *)
(* "task" is the manager with the manager's pid, and the counter of         *)
(* getNextId has the manager's value.  Message::clone makes the name of the *)
(* copy of these two, so all transmitters of one broadcast use one name.    *)
(***************************************************************************)
EXTENDS Naturals, FiniteSets

CONSTANTS
  Users,        \* the users in the temporary copy of the user file
  Sender,       \* the user who sent the message, or NoUser
  Settings,     \* settings of the list to consider, see SettingType
  MaxProcs,     \* list_max_send_tasks
  MaxHosts,     \* mail servers tried, 3 in the code
  Faults,       \* what goes wrong besides refusals, see AllFaults
  MaxStalls,    \* bound: transmitters that are held up in the middle of a line
  MaxForkFails, \* bound: forks that fail
  Retriers,     \* other managers, which take the copy from the spool
  MaxTaken      \* bound: deliveries of the copy of one user

NoUser == "no user"
AllFaults == {"dns", "closed", "answer lost"}

\* list_me_too, list_auto_unsub, list_disable_spool and debug_connect_only.
SettingType ==
  [me_too : BOOLEAN, auto_unsub : BOOLEAN, disable_spool : BOOLEAN, connect_only : BOOLEAN]

ASSUME BroadcastAssumption ==
  /\ IsFiniteSet(Users) /\ NoUser \notin Users
  /\ Sender \in Users \cup {NoUser}
  /\ MaxProcs \in Nat \ {0} /\ MaxHosts \in Nat \ {0}
  /\ MaxStalls \in Nat /\ MaxForkFails \in Nat /\ MaxTaken \in Nat
  /\ Settings \subseteq SettingType
  /\ Faults \subseteq AllFaults

VARIABLES
  set,          \* the settings of this list
  pc,           \* next step of the manager
  todo,         \* users not looked at yet
  cur,          \* user whose transmitter is being made
  blocked,      \* SIGCHLD is suspended
  tasks,        \* users whose transmitter is in the manager's task list
  success,      \* bc_success
  child,        \* transmitter of each user, see ChildType
  copy,         \* the spool files with the name all the copies get
  members,      \* users subscribed to the list
  taken,        \* history: how often a mail server took the mail of a user
  fault,        \* history: what happened to the mail of a user
  forkfails,    \* forks that failed
  retry         \* the other managers, see RetryType

parent == <<set, pc, todo, cur, blocked, tasks, success, forkfails>>
remote == <<members, taken>>
vars   == <<parent, child, copy, remote, fault, retry>>

\* Steps of the dialogue with a mail server: the welcome, HELO and MAIL; RCPT;
\* RSET; DATA and the message; QUIT.
Dialogue == {"hello", "rcpt", "rset", "data", "quit"}
Cloning  == {"lock", "link", "queue", "unlock"}
Running  == {"resolve", "connect", "stalled"} \cup Dialogue \cup Cloning
Exits    == {"ok", "fail", "killed"}

ChildType ==
  [ pc      : Running \cup {"none", "zombie", "reaped"},
    hosts   : Nat,                  \* mail servers left to try
    ok      : BOOLEAN,              \* successful
    unknown : BOOLEAN,              \* unknownUser
    exit    : Exits \cup {"none"} ]

NoChild  == [pc |-> "none", hosts |-> 0, ok |-> FALSE, unknown |-> FALSE, exit |-> "none"]
NewChild == [NoChild EXCEPT !.pc = "resolve"]

CopyType == [locked : BOOLEAN, data : BOOLEAN, rcpt : Users \cup {NoUser}]
NoCopy   == [locked |-> FALSE, data |-> FALSE, rcpt |-> NoUser]

\* A manager that has read the config of the copy, or works on the copy; sent is the
\* answer of Transmitter::start.
RetryType ==
  [ pc   : {"off", "read", "taken", "deliver", "write", "mvdata", "mvconf", "unlock"},
    rcpt : Users \cup {NoUser},
    sent : BOOLEAN ]
Idle == [pc |-> "off", rcpt |-> NoUser, sent |-> FALSE]

Alive(u)  == child[u].pc \in Running
Zombies   == {u \in Users : child[u].pc = "zombie"}

-----------------------------------------------------------------------------
(* Manager::broadcast                                                      *)

\* The sender is left out unless list_me_too is set.
SkipSender ==
  /\ pc = "users"
  /\ Sender \in todo /\ ~set.me_too
  /\ todo' = todo \ {Sender}
  /\ UNCHANGED <<set, pc, cur, blocked, tasks, success, forkfails, child, copy, remote, fault, retry>>

\* The next user, when fewer than list_max_send_tasks transmitters are left.
Turn(u) ==
  /\ pc = "users"
  /\ u \in todo /\ (u = Sender => set.me_too)
  /\ Cardinality(tasks) < MaxProcs
  /\ todo' = todo \ {u}

\* Mutant of Fork: SIGCHLD is not suspended before there is a child.
ForkUnblocked(u) ==
  /\ Turn(u)
  /\ child' = [child EXCEPT ![u] = NewChild]
  /\ pc' = "add" /\ cur' = u
  /\ UNCHANGED <<set, blocked, tasks, success, forkfails, copy, remote, fault, retry>>

\* SIGCHLD is suspended, then the transmitter is forked.
Fork(u) ==
  /\ Turn(u)
  /\ child' = [child EXCEPT ![u] = NewChild]
  /\ blocked' = TRUE
  /\ pc' = "add" /\ cur' = u
  /\ UNCHANGED <<set, tasks, success, forkfails, copy, remote, fault, retry>>

\* fork() fails: the user is left out, and SIGCHLD stays suspended.
ForkFails(u) ==
  /\ Turn(u)
  /\ forkfails < MaxForkFails
  /\ forkfails' = forkfails + 1
  /\ blocked' = TRUE
  /\ fault' = [fault EXCEPT ![u] = @ \cup {"fork"}]
  /\ UNCHANGED <<set, pc, cur, tasks, success, child, copy, remote, retry>>

\* The transmitter joins the task list, and SIGCHLD is released.
AddTask ==
  /\ pc = "add"
  /\ tasks' = tasks \cup {cur}
  /\ blocked' = FALSE
  /\ pc' = "users" /\ cur' = NoUser
  /\ UNCHANGED <<set, todo, success, forkfails, child, copy, remote, fault, retry>>

UsersDone ==
  /\ pc = "users" /\ todo = {}
  /\ pc' = "wait"
  /\ UNCHANGED <<set, todo, cur, blocked, tasks, success, forkfails, child, copy, remote, fault, retry>>

\* Mutant of the next definition: an old transmitter is left alone.
WaitPatiently ==
  /\ pc = "wait" /\ tasks # {}
  /\ blocked' = FALSE
  /\ UNCHANGED <<set, pc, todo, cur, tasks, success, forkfails, child, copy, remote, fault, retry>>

\* A transmitter in the task list that is older than MAX_TRANSCEIVER_TIME, which
\* is when it is held up, gets SIGTERM and dies of it.
Wait ==
  /\ pc = "wait" /\ tasks # {}
  /\ blocked' = FALSE
  /\ child' = [u \in Users |->
       IF u \in tasks /\ child[u].pc = "stalled"
       THEN [child[u] EXCEPT !.pc = "zombie", !.exit = "killed"] ELSE child[u]]
  /\ UNCHANGED <<set, pc, todo, cur, tasks, success, forkfails, copy, remote, fault, retry>>

WaitDone ==
  /\ pc = "wait" /\ tasks = {}
  /\ pc' = "done"
  /\ UNCHANGED <<set, todo, cur, blocked, tasks, success, forkfails, child, copy, remote, fault, retry>>

\* manager_sigchild: all the children that ended are waited for, counted and
\* taken off the task list.
Sigchld ==
  /\ ~blocked /\ Zombies # {}
  /\ success' = success + Cardinality({u \in Zombies : child[u].exit = "ok"})
  /\ tasks' = tasks \ Zombies
  /\ child' = [u \in Users |->
       IF u \in Zombies THEN [child[u] EXCEPT !.pc = "reaped"] ELSE child[u]]
  /\ UNCHANGED <<set, pc, todo, cur, blocked, forkfails, copy, remote, fault, retry>>

-----------------------------------------------------------------------------
(* Transmitter::start in the child                                         *)

Goes(u, to)    == child' = [child EXCEPT ![u].pc = to]
Exit(u, code)  == child' = [child EXCEPT ![u].pc = "zombie", ![u].exit = code]
Meets(u, what) == fault' = [fault EXCEPT ![u] = @ \cup {what}]

\* After a failure a copy is put into the spool, if that is wanted.
Settle(u) ==
  IF child[u].ok THEN Exit(u, "ok")
  ELSE IF set.connect_only \/ child[u].unknown \/ set.disable_spool
  THEN Exit(u, "fail")
  ELSE Goes(u, "lock")

\* Resolver::getExchanger finds up to MaxHosts mail servers.
Resolve(u) ==
  /\ child[u].pc = "resolve"
  /\ \E k \in 1..MaxHosts :
       child' = [child EXCEPT ![u].pc = "connect", ![u].hosts = k]
  /\ UNCHANGED <<parent, copy, remote, fault, retry>>

\* It finds none: Transmitter::start returns before it comes to the copy.
Unresolvable(u) ==
  /\ child[u].pc = "resolve" /\ "dns" \in Faults
  /\ Exit(u, "fail")
  /\ Meets(u, "dns")
  /\ UNCHANGED <<parent, copy, remote, retry>>

\* The servers are tried one after the other, until there is a connection.
Connect(u) ==
  /\ child[u].pc = "connect"
  /\ \/ child' = [child EXCEPT ![u].pc = "hello", ![u].hosts = 0]
     \/ /\ child[u].hosts > 1
        /\ child' = [child EXCEPT ![u].hosts = @ - 1]
     \/ /\ child[u].hosts = 1
        /\ Settle(u)
  /\ UNCHANGED <<parent, copy, remote, fault, retry>>

\* readWelcome, writeHelo and writeMail, then writeRcpt: the server agrees.
Agreed(u) ==
  /\ \/ child[u].pc = "hello" /\ Goes(u, "rcpt")
     \/ child[u].pc = "rcpt" /\ Goes(u, IF set.connect_only THEN "rset" ELSE "data")
  /\ UNCHANGED <<parent, copy, remote, fault, retry>>

\* It does not, or it says nothing for server_timeout seconds: no other server is
\* tried.
Refused(u) ==
  /\ child[u].pc \in {"hello", "rcpt", "rset", "data"}
  /\ Goes(u, "quit")
  /\ UNCHANGED <<parent, copy, remote, fault, retry>>

\* Mutant of the next definition: unknownUser is not set.
UnknownForgotten(u) ==
  /\ child[u].pc = "rcpt"
  /\ Goes(u, "quit")
  /\ members' = IF set.auto_unsub THEN members \ {u} ELSE members
  /\ UNCHANGED <<parent, copy, taken, fault, retry>>

\* A reply of 55x to RCPT: the user does not exist, and leaves the list.
UnknownUser(u) ==
  /\ child[u].pc = "rcpt"
  /\ child' = [child EXCEPT ![u].pc = "quit", ![u].unknown = TRUE]
  /\ members' = IF set.auto_unsub THEN members \ {u} ELSE members
  /\ UNCHANGED <<parent, copy, taken, fault, retry>>

\* debug_connect_only: RSET, and that is a success.
Reset(u) ==
  /\ child[u].pc = "rset"
  /\ child' = [child EXCEPT ![u].pc = "quit", ![u].ok = TRUE]
  /\ UNCHANGED <<parent, copy, remote, fault, retry>>

\* Mutant of the next definition: "successful" is not set.
SentUnnoticed(u) ==
  /\ child[u].pc = "data"
  /\ Goes(u, "quit")
  /\ taken' = [taken EXCEPT ![u] = @ + 1]
  /\ UNCHANGED <<parent, copy, members, fault, retry>>

\* writeData and sendData: the server takes the mail and says so.
Sent(u) ==
  /\ child[u].pc = "data"
  /\ child' = [child EXCEPT ![u].pc = "quit", ![u].ok = TRUE]
  /\ taken' = [taken EXCEPT ![u] = @ + 1]
  /\ UNCHANGED <<parent, copy, members, fault, retry>>

\* It takes the mail and its answer does not arrive.
AnswerLost(u) ==
  /\ child[u].pc = "data" /\ "answer lost" \in Faults
  /\ Goes(u, "quit")
  /\ taken' = [taken EXCEPT ![u] = @ + 1]
  /\ Meets(u, "answer lost")
  /\ UNCHANGED <<parent, copy, members, retry>>

\* writeQuit, whatever the answer is.
Quit(u) ==
  /\ child[u].pc = "quit"
  /\ Settle(u)
  /\ UNCHANGED <<parent, copy, remote, fault, retry>>

\* The server has closed the connection, and the next write raises SIGPIPE:
\* trans_signal calls exit(FALSE), which is the exit code of a success.
Closed(u) ==
  /\ child[u].pc \in Dialogue /\ "closed" \in Faults
  /\ Exit(u, "ok")
  /\ Meets(u, "closed")
  /\ UNCHANGED <<parent, copy, remote, retry>>

\* The server sends part of a line and then nothing; cread waits for the rest.
Stall(u) ==
  /\ child[u].pc \in Dialogue
  /\ Cardinality({v \in Users : "stalled" \in fault[v]}) < MaxStalls
  /\ Goes(u, "stalled")
  /\ Meets(u, "stalled")
  /\ UNCHANGED <<parent, copy, remote, retry>>

\* Message::clone: the lock file is written, whether there is one or not.
LockCopy(u) ==
  /\ child[u].pc = "lock"
  /\ copy' = [copy EXCEPT !.locked = TRUE]
  /\ Goes(u, "link")
  /\ Meets(u, "copy")
  /\ UNCHANGED <<parent, remote, retry>>

\* link() fails when the name is taken; then the lock is removed, whoever wrote it.
LinkCopy(u) ==
  /\ child[u].pc = "link"
  /\ IF copy.data
     THEN copy' = [copy EXCEPT !.locked = FALSE] /\ Exit(u, "fail")
     ELSE copy' = [copy EXCEPT !.data = TRUE] /\ Goes(u, "queue")
  /\ UNCHANGED <<parent, remote, fault, retry>>

QueueCopy(u) ==
  /\ child[u].pc = "queue"
  /\ copy' = [copy EXCEPT !.rcpt = u]
  /\ Goes(u, "unlock")
  /\ UNCHANGED <<parent, remote, fault, retry>>

UnlockCopy(u) ==
  /\ child[u].pc = "unlock"
  /\ copy' = [copy EXCEPT !.locked = FALSE]
  /\ Exit(u, "fail")
  /\ UNCHANGED <<parent, remote, fault, retry>>

-----------------------------------------------------------------------------
(* Other managers deliver the copy (module Spool): Manager::getNext, which *)
(* reads a config, looks for a lock and locks, Manager::start and          *)
(* Message::queue.  A manager that makes its choice is not overtaken by    *)
(* another one, and no copy is given up here.                              *)

ReadCopy(m) ==
  /\ retry[m].pc = "off" /\ copy.rcpt # NoUser
  /\ retry' = [retry EXCEPT ![m] = [Idle EXCEPT !.pc = "read", !.rcpt = copy.rcpt]]
  /\ UNCHANGED <<parent, child, copy, remote, fault>>

Continue(m, to) == retry' = [retry EXCEPT ![m].pc = to]

PassOver(m) ==
  /\ retry[m].pc = "read" /\ copy.locked
  /\ retry' = [retry EXCEPT ![m] = Idle]
  /\ UNCHANGED <<parent, child, copy, remote, fault>>

TakeCopy(m) ==
  /\ retry[m].pc = "read" /\ ~copy.locked
  /\ copy' = [copy EXCEPT !.locked = TRUE]
  /\ Continue(m, "taken")
  /\ UNCHANGED <<parent, child, remote, fault>>

OpenCopy(m) ==
  /\ retry[m].pc = "taken" /\ copy.data
  /\ Continue(m, "deliver")
  /\ UNCHANGED <<parent, child, copy, remote, fault>>

\* No server takes it, or the data could not be opened.
PutOff(m) ==
  /\ retry[m].pc \in {"taken", "deliver"}
  /\ Continue(m, "write")
  /\ UNCHANGED <<parent, child, copy, remote, fault>>

\* A server takes it, and its answer arrives, or does not.
DeliverCopy(m) ==
  /\ retry[m].pc = "deliver"
  /\ LET u == retry[m].rcpt IN
       /\ taken' = [taken EXCEPT ![u] = @ + 1]
       /\ \/ /\ retry' = [retry EXCEPT ![m].pc = "write", ![m].sent = TRUE]
             /\ UNCHANGED fault
          \/ "answer lost" \in Faults /\ Continue(m, "write") /\ Meets(u, "answer lost")
  /\ taken[retry[m].rcpt] < MaxTaken
  /\ UNCHANGED <<parent, child, copy, members>>

\* The status is written, over what another transmitter may have written.
WriteCopy(m) ==
  /\ retry[m].pc = "write"
  /\ copy' = [copy EXCEPT !.rcpt = retry[m].rcpt]
  /\ Continue(m, IF retry[m].sent THEN "mvdata" ELSE "unlock")
  /\ UNCHANGED <<parent, child, remote, fault>>

MoveCopyData(m) ==
  /\ retry[m].pc = "mvdata"
  /\ copy' = [copy EXCEPT !.data = FALSE]
  /\ Continue(m, IF copy.data THEN "mvconf" ELSE "unlock")
  /\ UNCHANGED <<parent, child, remote, fault>>

MoveCopyConf(m) ==
  /\ retry[m].pc = "mvconf"
  /\ copy' = [copy EXCEPT !.rcpt = NoUser]
  /\ Continue(m, "unlock")
  /\ UNCHANGED <<parent, child, remote, fault>>

\* The lock is removed, whoever wrote it.
ReleaseCopy(m) ==
  /\ retry[m].pc = "unlock"
  /\ copy' = [copy EXCEPT !.locked = FALSE]
  /\ retry' = [retry EXCEPT ![m] = Idle]
  /\ UNCHANGED <<parent, child, remote, fault>>

Init ==
  /\ set \in Settings
  /\ pc = "users" /\ todo = Users /\ cur = NoUser
  /\ blocked = FALSE /\ tasks = {} /\ success = 0 /\ forkfails = 0
  /\ child = [u \in Users |-> NoChild]
  /\ copy = NoCopy
  /\ members = Users
  /\ taken = [u \in Users |-> 0]
  /\ fault = [u \in Users |-> {}]
  /\ retry = [m \in Retriers |-> Idle]

Manager ==
  \/ SkipSender \/ AddTask \/ UsersDone \/ Wait \/ WaitDone
  \/ \E u \in Users : Fork(u) \/ ForkFails(u)

Transmitter(u) ==
  \/ Resolve(u) \/ Unresolvable(u) \/ Connect(u) \/ Agreed(u) \/ Refused(u)
  \/ UnknownUser(u) \/ Reset(u) \/ Sent(u) \/ AnswerLost(u) \/ Quit(u) \/ Closed(u)
  \/ LockCopy(u) \/ LinkCopy(u) \/ QueueCopy(u) \/ UnlockCopy(u)

Retry(m) ==
  \/ ReadCopy(m) \/ PassOver(m) \/ TakeCopy(m) \/ OpenCopy(m) \/ PutOff(m) \/ DeliverCopy(m)
  \/ WriteCopy(m) \/ MoveCopyData(m) \/ MoveCopyConf(m) \/ ReleaseCopy(m)

Next ==
  \/ Manager \/ Sigchld
  \/ \E m \in Retriers : Retry(m)
  \/ \E u \in Users : Transmitter(u) \/ Stall(u)

Spec == Init /\ [][Next]_vars

\* The processes go on, and signals arrive.  A transmitter never waits longer
\* than server_timeout for a line, unless it is held up within one.
Fairness ==
  /\ WF_vars(Manager) /\ WF_vars(Sigchld)
  /\ \A u \in Users : WF_vars(Transmitter(u))

FairSpec == Spec /\ Fairness

-----------------------------------------------------------------------------
(* Properties                                                              *)

\* The variables have their types.
TypeOK ==
  /\ set \in SettingType
  /\ pc \in {"users", "add", "wait", "done"}
  /\ todo \subseteq Users /\ tasks \subseteq Users
  /\ cur \in Users \cup {NoUser}
  /\ blocked \in BOOLEAN
  /\ success \in Nat /\ forkfails \in 0..MaxForkFails
  /\ child \in [Users -> ChildType]
  /\ copy \in CopyType
  /\ members \subseteq Users
  /\ taken \in [Users -> Nat]
  /\ fault \in [Users -> SUBSET (AllFaults \cup {"fork", "stalled", "copy"})]
  /\ retry \in [Retriers -> RetryType]

\* The task list holds exactly the transmitters that have not been waited for,
\* but for the one that was just forked: none is forgotten, and none that is gone
\* stays in the list to be waited for, or killed, for ever.
TasksAreChildren ==
  LET kids == {u \in Users : Alive(u)} \cup Zombies IN
  tasks = IF pc = "add" THEN kids \ {cur} ELSE kids

\* The mail of a user is taken twice only if an answer was lost, or if a transmitter of
\* another user has made a copy as well: then it has the same name, and the same lock.
\* A connection that is closed after the mail was taken leads to no copy.
NoDuplicate ==
  \A u \in Users : taken[u] > 1 =>
    "answer lost" \in fault[u] \/ \E v \in Users \ {u} : "copy" \in fault[v]

\* Whoever was taken off the list because a mail server does not know him gets no
\* copy of the message either.
UnsubscribedGetsNothing == copy.rcpt # NoUser => copy.rcpt \in members

\* The broadcast ends, as long as fewer transmitters are held up than may run.
BroadcastEnds == <>(pc = "done")

\* Whoever could not be reached and exists is tried again: "Deferred mails will be
\* tried to deliver again during the next hours" (Generator::pastBroadcast).
DeferredIsKept ==
  \A u \in Users :
    pc = "done" /\ child[u].exit = "fail" /\ ~child[u].unknown /\ ~set.disable_spool
      => taken[u] > 0 \/ copy.rcpt = u
=============================================================================
