------------------------------ MODULE Receiver ------------------------------
(***************************************************************************)
(* One SMTP session of the Limez receiver (src/src/receiver.cc) and the    *)
(* three spool files it writes for each DATA it takes in: <name>.data,     *)
(* <name>.lock and, only when the session ends in QUIT, <name>.config.     *)
(*                                                                         *)
(* The receiver is a forked process that serves one connection.  A step    *)
(* is one iteration of the command loop of Receiver::start, or one event   *)
(* of the line loop of Receiver::readData.  A message name is the second   *)
(* the DATA command started in, joined to the pid of the process, so       *)
(* within a session it is the second.                                      *)
(***************************************************************************)
EXTENDS Naturals

CONSTANTS
  Recipients,   \* addresses of the server, its aliases and its lists
  MaxErrors,    \* MAX_SMTP_ERRORS
  MaxSecond,    \* bound: seconds a session may last
  Budget        \* bound: lines the client sends

ASSUME ReceiverAssumption ==
  /\ MaxErrors \in Nat \ {0}
  /\ MaxSecond \in Nat \ {0}
  /\ Budget \in Nat

\* enum CONSTATE, global.h
CON_NONE == 0
CON_HELO == 1
CON_FROM == 2
CON_RCPT == 3
CON_DATA == 4
CON_DONE == 5

Seconds == 1..MaxSecond
NoName  == 0

VARIABLES
  phase,        \* where the process is: "cmd" reads a command, "data" the
                \* lines of a DATA, "stalled" is blocked in recv, "close" and
                \* "unlock" end the session, "gone" and "killed" are final
  status,       \* CON_NONE .. CON_DONE
  authorized,   \* LPWD has been accepted
  errors,       \* errors counted by the receiver
  connErrors,   \* errors counted by its connection
  sender,       \* currMsg has a sender
  recipients,   \* recipients of currMsg
  name,         \* name of currMsg
  currAdd,      \* the object currAdd points to: "none", "live" or "freed"
  pretending,   \* readData swallows a message it will refuse
  now,          \* the second the clock shows
  data,         \* <name>.data: "none", "open", "cut" (bytes lost) or "whole"
  lock,         \* <name>.lock exists
  conf,         \* recipients in <name>.config, {} if there is no such file
  budget,       \* lines the client may still send
  last,         \* history: the message answered "250 ... accepted for
                \* delivery" last, NoName once another is begun
  accepted,     \* history: a DATA was accepted since the last RSET
  told,         \* history: recipients answered 250 since the last RSET
  mailSeen,     \* history: a mail transaction command has been accepted
  adminOps,     \* history: L-commands carried out
  silent        \* history: bytes were lost in an fclose nobody looked at

process == <<phase, authorized, errors, connErrors>>
message == <<sender, recipients, name, currAdd>>
spool   == <<data, lock, conf>>
history == <<last, accepted, told, mailSeen, adminOps, silent>>
vars    == <<process, status, message, pretending, now, spool, budget, history>>

-----------------------------------------------------------------------------
(* Helpers *)

\* The client sends one complete line in the command loop.
Line == phase = "cmd" /\ budget > 0 /\ budget' = budget - 1

\* The end of a loop iteration that added e errors.  The connection may count
\* up to w errors of its own: a reply it cannot write, a read that timed out.
CountErrors(e, w) ==
  /\ errors' = errors + e
  /\ connErrors' \in connErrors..(connErrors + w)
  /\ phase' = IF connErrors' + errors' >= MaxErrors THEN "close" ELSE "cmd"

EndCommand(e, w) == CountErrors(e, w) /\ UNCHANGED authorized

Reply(e) == EndCommand(e, 1)

-----------------------------------------------------------------------------
(* Commands that do not concern the message *)

\* NOOP, HELP, VRFY are answered; unknown, unrecognised and unimplemented
\* commands are answered and counted as errors.
Other ==
  /\ Line
  /\ \E e \in 0..1 : Reply(e)
  /\ UNCHANGED <<status, message, pretending, now, spool, history>>

\* Mutant of the next definition: a failed read is not an error.
ReadFailUncounted ==
  /\ phase = "cmd"
  /\ EndCommand(0, 0)
  /\ UNCHANGED <<status, message, pretending, now, spool, budget, history>>

\* cread returned 0: timeout, reset or end of file.  The loop answers 500 to
\* whatever its buffer still holds.
ReadFail ==
  /\ phase = "cmd"
  /\ EndCommand(1, 2)
  /\ UNCHANGED <<status, message, pretending, now, spool, budget, history>>

\* cread waits for the first byte of a line only; a client that sends part of
\* a line leaves the process in recv.
Stall ==
  /\ phase \in {"cmd", "data"}
  /\ budget > 0
  /\ budget' = budget - 1
  /\ phase' = "stalled"
  /\ UNCHANGED <<authorized, errors, connErrors, status, message, pretending,
                 now, spool, history>>

\* LPWD is refused once a mail transaction or an authorization is under way.
Lpwd ==
  /\ Line
  /\ \/ Reply(1)
     \/ /\ status = CON_NONE /\ ~authorized
        /\ CountErrors(0, 1)
        /\ authorized' = TRUE
  /\ UNCHANGED <<status, message, pretending, now, spool, history>>

\* LADD, LDEL, LCMD, LSHW and LRLD share two guards, and say 501 otherwise, as
\* they do to a sub-command they do not know.  What they do to lists, files and
\* the configuration is outside this session; adminOps counts it.  No other
\* failure counts as an error.  A command may cause w errors of the connection.
AdminMayRun == status = CON_NONE /\ authorized

Admin(w) ==
  /\ Line
  /\ \/ Reply(1) /\ UNCHANGED adminOps
     \/ AdminMayRun /\ EndCommand(0, w) /\ adminOps' \in adminOps..(adminOps + 1)
  /\ UNCHANGED <<status, message, pretending, now, spool, last, accepted,
                 told, mailSeen, silent>>

\* LADD of a file reads its lines until one is not a "250-" line, or none comes.
Ladd == Admin(3)
Ldel == Admin(1)
Lrld == Admin(1)
\* LCMD and LSHW write a reply for each line of what they have to tell.
Lcmd == Admin(MaxErrors)
Lshw == Admin(MaxErrors)

AdminCommand == Ladd \/ Ldel \/ Lrld \/ Lcmd \/ Lshw

-----------------------------------------------------------------------------
(* The mail transaction *)

Helo ==
  /\ Line
  /\ \/ Reply(1) /\ UNCHANGED <<status, mailSeen>>
     \/ status = CON_NONE /\ Reply(0) /\ status' = CON_HELO /\ mailSeen' = TRUE
  /\ UNCHANGED <<message, pretending, now, spool, last, accepted, told,
                 adminOps, silent>>

\* MAIL FROM: is refused out of sequence, with a bad syntax or a bad address;
\* none of these counts as an error.
Mail ==
  /\ Line
  /\ Reply(0)
  /\ \/ UNCHANGED <<status, sender, currAdd>>
     \/ /\ status = CON_HELO                       \* 553: bad address
        /\ currAdd' = "freed"
        /\ UNCHANGED <<status, sender>>
     \/ /\ status = CON_HELO
        /\ status' = CON_FROM
        /\ sender' = TRUE
        /\ currAdd' = "live"
  /\ UNCHANGED <<recipients, name, pretending, now, spool, history>>

\* RCPT TO: moves the session to CON_RCPT even from CON_DATA: what had been
\* accepted is not queued any more, unless another DATA is.
Rcpt ==
  /\ Line
  /\ Reply(0)
  /\ \/ UNCHANGED <<status, recipients, currAdd, told, last>>
     \/ /\ status >= CON_FROM                      \* 550, 553
        /\ currAdd' = "freed"
        /\ UNCHANGED <<status, recipients, told, last>>
     \/ /\ status >= CON_FROM
        /\ \E r \in Recipients :
             /\ recipients' = recipients \cup {r}
             /\ told' = told \cup {r}
        /\ currAdd' = "live"
        /\ status' = CON_RCPT
        /\ last' = NoName
  /\ UNCHANGED <<sender, name, pretending, now, spool, accepted, mailSeen,
                 adminOps, silent>>

\* Mutants of the next definition: RSET forgets to reinitialise the message,
\* and RSET returns to the state before HELO.
RsetKeepsMessage ==
  /\ Line
  /\ Reply(0)
  /\ status' = CON_HELO
  /\ accepted' = FALSE
  /\ told' = {}
  /\ mailSeen' = TRUE
  /\ last' = NoName
  /\ UNCHANGED <<message, pretending, now, spool, adminOps, silent>>

\* RSET reinitialises the message, whatever the state, and goes to CON_HELO.
\* Data and lock file of a DATA taken in before are left behind.
Rset ==
  /\ Line
  /\ Reply(0)
  /\ status' = CON_HELO
  /\ sender' = FALSE
  /\ recipients' = {}
  /\ name' = NoName
  /\ currAdd' = IF currAdd = "none" THEN "none" ELSE "freed"
  /\ accepted' = FALSE
  /\ told' = {}
  /\ mailSeen' = TRUE
  /\ last' = NoName
  /\ UNCHANGED <<pretending, now, spool, adminOps, silent>>

-----------------------------------------------------------------------------
(* DATA *)

DataOutOfSequence ==
  /\ Line
  /\ status < CON_RCPT
  /\ Reply(0)
  /\ UNCHANGED <<status, message, pretending, now, spool, history>>

\* The message gets its name and its lock before its file is opened.  What the
\* session had accepted before bears another name, or is overwritten.
DataStart ==
  /\ Line
  /\ status >= CON_RCPT
  /\ name' = now
  /\ lock' = [lock EXCEPT ![now] = TRUE]
  /\ pretending' = FALSE
  /\ last' = NoName
  /\ \/ Reply(2) /\ UNCHANGED data                 \* the file cannot be opened
     \/ /\ \E lost \in 0..1 :                      \* the first write may fail
             /\ errors' = errors + lost
             /\ data' = [data EXCEPT ![now] = IF lost = 0 THEN "open" ELSE "cut"]
        /\ connErrors' \in connErrors..(connErrors + 1)
        /\ \/ phase' = "data"
           \/ currAdd = "freed" /\ phase' = "killed" \* the dangling pointer is read
        /\ UNCHANGED authorized
  /\ UNCHANGED <<status, sender, recipients, currAdd, now, conf, accepted, told,
                 mailSeen, adminOps, silent>>

Reading == phase = "data" /\ errors < MaxErrors

Cut(n) == [data EXCEPT ![n] = IF @ = "none" THEN "none" ELSE "cut"]

\* 552: the message is refused; the connection state stays what it was.
Refuse(e) ==
  /\ Reply(e)
  /\ UNCHANGED <<status, last, accepted, silent>>

\* 250: the message is accepted for delivery.
Accept(e, w) ==
  /\ EndCommand(e, w)
  /\ status' = CON_DATA
  /\ last' = name
  /\ accepted' = TRUE

\* What every event of the line loop leaves alone.
KeepInData == UNCHANGED <<message, pretending, now, conf, lock, budget, told,
                          mailSeen, adminOps>>

\* The file is closed behind the final dot, and nobody looks whether its last
\* bytes could be written.
DataEnd ==
  /\ Reading
  /\ IF pretending
     THEN Refuse(1) /\ UNCHANGED data
     ELSE /\ Accept(0, 1)
          /\ \/ /\ data' = [data EXCEPT ![name] = IF @ = "open" THEN "whole" ELSE @]
                /\ UNCHANGED silent
             \/ data' = Cut(name) /\ silent' = TRUE
  /\ KeepInData

\* A failed read ends the loop as the terminating dot does.
DataReadFail ==
  /\ Reading
  /\ data' = Cut(name)
  /\ IF pretending
     THEN Refuse(2)
     ELSE Accept(1, 2) /\ UNCHANGED silent
  /\ KeepInData

\* So does an error count that has reached its limit.
DataErrorLimit ==
  /\ phase = "data"
  /\ errors >= MaxErrors
  /\ data' = Cut(name)
  /\ Accept(0, 1)
  /\ UNCHANGED silent
  /\ KeepInData

DataWriteFail ==
  /\ Reading
  /\ ~pretending
  /\ data' = Cut(name)
  /\ Refuse(2)
  /\ KeepInData

\* More than 2 GB: reading stops at once.
DataHuge ==
  /\ Reading
  /\ data' = Cut(name)
  /\ Refuse(1)
  /\ KeepInData

\* Mutant of the next definition: what is left of the message is not refused.
DataTooBigTaken ==
  /\ Reading
  /\ ~pretending
  /\ data' = [data EXCEPT ![name] = "none"]
  /\ lock' = [lock EXCEPT ![name] = FALSE]
  /\ UNCHANGED <<process, status, message, pretending, now, conf, budget, history>>

\* More than server_max_mailsize: file and lock are removed, the rest of the
\* message is read and dropped.
DataTooBig ==
  /\ Reading
  /\ ~pretending
  /\ pretending' = TRUE
  /\ data' = [data EXCEPT ![name] = "none"]
  /\ lock' = [lock EXCEPT ![name] = FALSE]
  /\ UNCHANGED <<process, status, message, now, conf, budget, history>>

\* More than server_max_hops Received: lines: file and lock stay.
DataTooManyHops ==
  /\ Reading
  /\ ~pretending
  /\ pretending' = TRUE
  /\ data' = Cut(name)
  /\ UNCHANGED <<process, status, message, now, lock, conf, budget, history>>

-----------------------------------------------------------------------------
(* The end of the session *)

Quit ==
  /\ Line
  /\ status' = IF status = CON_DATA THEN CON_DONE ELSE status
  /\ phase' = "close"
  /\ connErrors' \in connErrors..(connErrors + 1)
  /\ UNCHANGED <<authorized, errors, message, pretending, now, spool, history>>

\* The config of the message is written: all of it; a part, if the bytes are
\* lost when the file is closed; or a part, and the process gives up.
WriteConfig ==
  \E r \in SUBSET recipients :
    /\ conf' = [conf EXCEPT ![name] = r]
    /\ \/ r = recipients /\ phase' = "unlock" /\ UNCHANGED silent
       \/ phase' = "unlock" /\ silent' = TRUE
       \/ phase' = "killed" /\ UNCHANGED silent

\* Mutant of the next definition: the lock goes before the config comes.
CloseUnlocksFirst ==
  /\ phase = "close"
  /\ IF status # CON_DONE
     THEN phase' = "gone" /\ UNCHANGED <<conf, lock, silent>>
     ELSE /\ lock' = [lock EXCEPT ![name] = FALSE]
          /\ IF sender /\ recipients # {}
             THEN WriteConfig
             ELSE phase' = "unlock" /\ UNCHANGED <<conf, silent>>
  /\ UNCHANGED <<authorized, errors, connErrors, status, message, pretending,
                 now, data, budget, last, accepted, told, mailSeen, adminOps>>

\* Message::queue("received", Q_INIT) refuses a message without sender or
\* recipients.  Only a session that ended in QUIT queues its message.
Close ==
  /\ phase = "close"
  /\ IF status # CON_DONE
     THEN phase' = "gone" /\ UNCHANGED <<conf, silent>>
     ELSE IF sender /\ recipients # {}
          THEN WriteConfig
          ELSE phase' = "unlock" /\ UNCHANGED <<conf, silent>>
  /\ UNCHANGED <<authorized, errors, connErrors, status, message, pretending,
                 now, data, lock, budget, last, accepted, told, mailSeen, adminOps>>

Unlock ==
  /\ phase = "unlock"
  /\ lock' = [lock EXCEPT ![name] = FALSE]
  /\ phase' = "gone"
  /\ UNCHANGED <<authorized, errors, connErrors, status, message, pretending,
                 now, data, conf, budget, history>>

\* SIGPIPE and SIGINT end the process in their handler, SIGTERM by default.
Ended == phase \in {"gone", "killed"}

Die ==
  /\ ~Ended
  /\ phase' = "killed"
  /\ UNCHANGED <<authorized, errors, connErrors, status, message, pretending,
                 now, spool, budget, history>>

\* The scheduler terminates a task that runs longer than MAX_TASK_TIME.
KillOld == phase = "stalled" /\ Die

Tick ==
  /\ ~Ended
  /\ now < MaxSecond
  /\ now' = now + 1
  /\ UNCHANGED <<process, status, message, pretending, spool, budget, history>>

-----------------------------------------------------------------------------
Init ==
  /\ phase = "cmd"
  /\ status = CON_NONE
  /\ authorized = FALSE
  /\ errors = 0
  /\ connErrors \in 0..1          \* the welcome line may fail
  /\ sender = FALSE
  /\ recipients = {}
  /\ name = NoName
  /\ currAdd = "none"
  /\ pretending = FALSE
  /\ now = 1
  /\ data = [n \in Seconds |-> "none"]
  /\ lock = [n \in Seconds |-> FALSE]
  /\ conf = [n \in Seconds |-> {}]
  /\ budget = Budget
  /\ last = NoName
  /\ accepted = FALSE
  /\ told = {}
  /\ mailSeen = FALSE
  /\ adminOps = 0
  /\ silent = FALSE

Command   == \/ Other \/ Lpwd \/ AdminCommand \/ Helo \/ Mail \/ Rcpt \/ Rset
             \/ DataOutOfSequence \/ DataStart \/ Quit
DataEvent == \/ DataEnd \/ DataReadFail \/ DataErrorLimit \/ DataWriteFail
             \/ DataHuge \/ DataTooBig \/ DataTooManyHops

Next == \/ Command \/ DataEvent \/ ReadFail \/ Stall \/ Close \/ Unlock
        \/ Die \/ Tick

\* The process is scheduled: a read that is waiting ends at the latest with
\* its timeout, the steps after the loop are taken, and the scheduler kills a
\* task that has grown too old.  The client owes nothing.
Fairness ==
  /\ WF_vars(ReadFail)
  /\ WF_vars(DataReadFail)
  /\ WF_vars(DataErrorLimit)
  /\ WF_vars(Close)
  /\ WF_vars(Unlock)
  /\ WF_vars(KillOld)

Spec     == Init /\ [][Next]_vars
FairSpec == Spec /\ Fairness

-----------------------------------------------------------------------------
(* Properties *)

\* Type invariant of the session.
Flags ==
  /\ authorized \in BOOLEAN
  /\ sender \in BOOLEAN
  /\ pretending \in BOOLEAN
  /\ accepted \in BOOLEAN
  /\ mailSeen \in BOOLEAN
  /\ silent \in BOOLEAN

Sorts ==
  /\ phase \in {"cmd", "data", "stalled", "close", "unlock", "gone", "killed"}
  /\ status \in CON_NONE..CON_DONE
  /\ errors \in Nat
  /\ connErrors \in Nat
  /\ recipients \in SUBSET Recipients
  /\ name \in Seconds \cup {NoName}
  /\ currAdd \in {"none", "live", "freed"}
  /\ now \in Seconds
  /\ data \in [Seconds -> {"none", "open", "cut", "whole"}]
  /\ lock \in [Seconds -> BOOLEAN]
  /\ conf \in [Seconds -> SUBSET Recipients]
  /\ budget \in 0..Budget
  /\ last \in Seconds \cup {NoName}
  /\ told \in SUBSET Recipients
  /\ adminOps \in Nat

TypeOK == Flags /\ Sorts

\* A message handed to the manager carries a sender and exactly the recipients
\* the client was told are ok since the last RSET, and a DATA of the same
\* transaction was accepted: nothing of an aborted transaction leaks into the
\* next.  Recipients are missing only where fclose lost them, or where the
\* write failed, and then the message stays locked or has no data.
QueuedEnvelope ==
  \A n \in Seconds :
    conf[n] # {} => /\ sender /\ accepted
                    /\ conf[n] \subseteq told
                    /\ conf[n] = told \/ silent \/ lock[n] \/ data[n] = "none"

\* The session has left its loop with QUIT.
QuitReached ==
  \/ phase = "unlock"
  \/ phase = "gone" /\ errors + connErrors < MaxErrors

\* The message the client was told last is accepted for delivery, and began no
\* other after, is queued when the session comes to its end with QUIT: under
\* its own name, for all its recipients, with its data, and with all of its
\* data if the session had no error.
DoneIsQueued ==
  QuitReached /\ last # NoName /\ ~silent =>
    /\ last = name
    /\ conf[last] = told /\ told # {}
    /\ data[last] # "none"
    /\ errors = 0 => data[last] = "whole"

\* The config that makes a whole message visible to the managers appears while
\* the receiver holds its lock, and the lock is still held after that step: a
\* manager never finds the message unlocked while it is being queued.
QueuedUnderLock ==
  [][\A n \in Seconds :
       conf'[n] # conf[n] /\ data[n] = "whole" => lock[n] /\ lock'[n]]_vars

\* README section 6: administration commands can not be mixed with the usual
\* smtp commands.  Once a mail command was accepted no L-command is carried
\* out, not even after RSET.
AdminBeforeMail ==
  [][adminOps' # adminOps => ~mailSeen]_vars

\* A client that falls silent, closes or stalls cannot keep the process: its
\* reads fail until the error limit ends the session.
SessionEnds == <>Ended

=============================================================================
