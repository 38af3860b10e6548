----------------------------- MODULE Scheduler ------------------------------
(***************************************************************************)
(* The scheduler, the one process of Limez that stays: it accepts SMTP     *)
(* connections and forks a receiver for each (Scheduler::run), SIGALRM      *)
(* makes it fork a manager every server_spool_interval                      *)
(* (scheduler_sigalarm), SIGCHLD tells it of the end of its children        *)
(* (scheduler_sigchild) and SIGHUP makes it read its configs again          *)
(* (scheduler_signal, Scheduler::init).                                     *)
(*                                                                         *)
(* The handlers interrupt the loop, and each other, wherever the signal is  *)
(* not blocked; only SIGCHLD is ever suspended.  The loop stands still while *)
(* a handler runs.  The handlers share with it the global "task", the list   *)
(* of tasks and the flag "active" of the handler of SIGCHLD.                *)
(***************************************************************************)
EXTENDS Naturals, FiniteSets

CONSTANTS
  Tasks,        \* task objects, each with the process that is forked for it
  MaxProcs,     \* server_max_procs
  MaxFaults     \* bound: failures of fork(), of accept() and of a config

NoTask == "no task"

ASSUME SchedulerAssumption ==
  /\ IsFiniteSet(Tasks) /\ NoTask \notin Tasks
  /\ MaxProcs \in Nat /\ MaxFaults \in Nat

VARIABLES
  loop,         \* next step of Scheduler::run
  task,         \* the global task
  list,         \* Scheduler::tasks
  run,          \* what became of each task
  active,       \* sigCHLD->active
  blocked,      \* SIGCHLD is blocked
  armed,        \* alarm() is set
  reload,       \* how far SIGHUP has got
  old,          \* tasks that run longer than MAX_TASK_TIME
  faults        \* failures so far

signals == <<active, blocked, armed, reload>>
vars    == <<loop, task, list, run, signals, old, faults>>

Working  == {"served", "denied", "manager"}
Unreaped == {t \in Tasks : run[t] \in Working \cup {"zombie", "killed"}}
Unused   == {t \in Tasks : run[t] = "none" /\ t \notin list}

\* The scheduler is gone, or works on memory that is not its own any more: what it does
\* from there on is not defined, and not followed.
Over == loop \in {"aborted", "ended", "wild"}

\* The object the loop holds was replaced by the one SIGALRM made, and that was deleted
\* when its process had ended.
Deleted == run[task] = "none"

\* The loop moves: no handler is in the middle of its work.
In(step) == loop = step /\ reload = "off"

-----------------------------------------------------------------------------
(* Scheduler::run                                                          *)

\* A connection comes in; a receiver is made for it.  The bound on processes
\* leaves room for a manager.
Accept ==
  /\ In("accept")
  /\ Cardinality(Unused) > 1
  /\ \E t \in Unused :
       /\ task' = t
       /\ run' = [run EXCEPT ![t] = "made"]
  /\ loop' = "new"
  /\ UNCHANGED <<list, signals, old, faults>>

\* SignalHandler::suspend: SIGCHLD is blocked.
Suspend ==
  /\ In("new")
  /\ blocked' = TRUE /\ active' = FALSE
  /\ loop' = "suspended"
  /\ UNCHANGED <<task, list, run, armed, reload, old, faults>>

\* The child adds the task to its list, which aborts it when the task is there, and
\* releases SIGCHLD, which aborts it when that is done already; it denies or serves
\* the connection, as many tasks as there were before.
ForkReceiver ==
  /\ In("suspended")
  /\ IF Deleted
     THEN loop' = "wild" /\ UNCHANGED run
     ELSE /\ run' = IF task \in list \/ active THEN run
                    ELSE [run EXCEPT ![task] =
                      IF Cardinality(list) > MaxProcs THEN "denied"
                      ELSE IF @ = "made" THEN "served" ELSE "manager"]
          /\ loop' = "forked"
  /\ UNCHANGED <<task, list, signals, old, faults>>

\* List::add asserts that the task is in no list yet.
AddReceiver ==
  /\ In("forked")
  /\ IF task \in list THEN loop' = "aborted" /\ UNCHANGED list
     ELSE IF Deleted THEN loop' = "wild" /\ UNCHANGED list
     ELSE loop' = "added" /\ list' = list \cup {task}
  /\ UNCHANGED <<task, run, signals, old, faults>>

\* Mutant of the next definition: the handler is marked, and the signal stays blocked.
ReleaseMarkedOnly ==
  /\ In("added")
  /\ IF active
     THEN loop' = "aborted" /\ UNCHANGED <<active, blocked>>
     ELSE loop' = "accept" /\ active' = TRUE /\ UNCHANGED blocked
  /\ UNCHANGED <<task, list, run, armed, reload, old, faults>>

\* SignalHandler::release asserts that the signal is suspended.
Release ==
  /\ In("added")
  /\ IF active
     THEN loop' = "aborted" /\ UNCHANGED <<active, blocked>>
     ELSE loop' = "accept" /\ active' = TRUE /\ blocked' = FALSE
  /\ UNCHANGED <<task, list, run, armed, reload, old, faults>>

\* accept() or fork() fails: the scheduler ends.
GiveUp ==
  /\ In("accept") \/ In("suspended")
  /\ faults < MaxFaults
  /\ faults' = faults + 1
  /\ loop' = "ended"
  /\ UNCHANGED <<task, list, run, signals, old>>

-----------------------------------------------------------------------------
(* Signal handlers                                                         *)

\* Mutant of the next definition: one child is waited for per signal.
SigchldOnce ==
  /\ ~blocked /\ ~Over
  /\ \E t \in Tasks :
       /\ run[t] \in {"zombie", "killed"}
       /\ run' = [u \in Tasks |-> IF u = t THEN "none"
                   ELSE IF run[u] = "zombie" THEN "lost" ELSE run[u]]
       /\ list' = list \ {t}
       /\ old' = old \ {t}
  /\ UNCHANGED <<loop, task, signals, faults>>

\* All children that have ended are waited for and leave the list.
Sigchld ==
  /\ ~blocked /\ ~Over
  /\ LET ended == {t \in Tasks : run[t] \in {"zombie", "killed"}} IN
       /\ ended # {}
       /\ run' = [t \in Tasks |-> IF t \in ended THEN "none" ELSE run[t]]
       /\ list' = list \ ended
       /\ old' = old \ ended
  /\ UNCHANGED <<loop, task, signals, faults>>

\* SIGALRM arrives; what the handler reads of the config is there.
Alarmed == armed /\ ~Over /\ reload # "cleared"

\* The tasks in the list that are too old leave it and get SIGTERM, which kills
\* them; those that have ended already are still to be waited for, too.
Overdue    == list \cap old
Terminated == [t \in Tasks |-> IF t \in Overdue THEN "killed" ELSE run[t]]

\* While SIGALRM has released SIGCHLD its handler waits for the children that had
\* ended, and maybe for those that SIGTERM has ended just now.  When SIGALRM returns,
\* SIGCHLD is blocked again if it was before; the flag is not restored.
Released(r, members) ==
  /\ \E waited \in SUBSET {t \in Tasks : r[t] \in {"zombie", "killed"}} :
       /\ {t \in Tasks : run[t] = "zombie"} \subseteq waited
       /\ run' = [t \in Tasks |-> IF t \in waited THEN "none" ELSE r[t]]
       /\ list' = members \ waited
       /\ old' = old \ waited
  /\ active' = TRUE
  /\ UNCHANGED blocked

\* The manager may have ended before SIGALRM returns.  This is a step of its own but
\* where the loop has blocked SIGCHLD and is about to use the task.
Newborn == IF loop \in {"suspended", "forked"} THEN {"manager", "zombie"} ELSE {"manager"}

\* Mutant of the next definition: only the child adds the manager to its list.
AlarmAddsInChild ==
  /\ Alarmed
  /\ \E t \in Unused, now \in Newborn :
       /\ task' = t
       /\ Released([Terminated EXCEPT ![t] = now], list \ Overdue)
  /\ UNCHANGED <<loop, armed, reload, faults>>

\* scheduler_sigalarm: SIGCHLD is suspended, the alarm is set again, old tasks
\* are terminated, the manager is forked and joins the list, SIGCHLD is released.
Alarm ==
  /\ Alarmed
  /\ \E t \in Unused, now \in Newborn :
       /\ task' = t
       /\ Released([Terminated EXCEPT ![t] = now], (list \ Overdue) \cup {t})
  /\ UNCHANGED <<loop, armed, reload, faults>>

\* Mutant of the next definition: the alarm is set again after the fork.
AlarmForkFailsLate ==
  /\ Alarmed
  /\ \/ faults < MaxFaults /\ faults' = faults + 1
     \/ Unused = {} /\ UNCHANGED faults
  /\ Released([t \in Tasks |->
                 IF t = task /\ run[t] = "made" THEN "replaced" ELSE Terminated[t]],
              list \ Overdue)
  /\ armed' = FALSE
  /\ UNCHANGED <<loop, task, reload>>

\* fork() fails: there is no manager, but an object for it.  It takes the place of
\* the receiver in the global task, if the loop has just made one.
AlarmForkFails ==
  /\ Alarmed
  /\ \/ faults < MaxFaults /\ faults' = faults + 1
     \/ Unused = {} /\ UNCHANGED faults
  /\ Released([t \in Tasks |->
                 IF t = task /\ run[t] = "made" THEN "replaced" ELSE Terminated[t]],
              list \ Overdue)
  /\ UNCHANGED <<loop, task, armed, reload>>

\* server_spool_interval is not there: Config::getIntValue asserts that it is.
AlarmAborts ==
  /\ armed /\ ~Over /\ reload = "cleared"
  /\ loop' = "aborted"
  /\ UNCHANGED <<task, list, run, signals, old, faults>>

\* Scheduler::init: the config is cleared; then it is read, and the lists are
\* dropped; then they are read.
Reload ==
  /\ ~Over
  /\ reload' = CASE reload = "off" -> "cleared"
                 [] reload = "cleared" -> "nolists"
                 [] reload = "nolists" -> "off"
  /\ UNCHANGED <<loop, task, list, run, active, blocked, armed, old, faults>>

\* Config::check finds a key missing in the config file: the scheduler exits.
ReloadFails ==
  /\ ~Over /\ reload = "cleared"
  /\ faults < MaxFaults
  /\ faults' = faults + 1
  /\ loop' = "ended"
  /\ UNCHANGED <<task, list, run, signals, old>>

-----------------------------------------------------------------------------
(* The children                                                            *)

Ends(t) ==
  /\ run[t] \in Working
  /\ run' = [run EXCEPT ![t] = "zombie"]
  /\ UNCHANGED <<loop, task, list, signals, old, faults>>

GrowsOld(t) ==
  /\ run[t] \in Working /\ t \notin old
  /\ old' = old \cup {t}
  /\ UNCHANGED <<loop, task, list, run, signals, faults>>

-----------------------------------------------------------------------------
Init ==
  /\ loop = "accept" /\ task = NoTask /\ list = {}
  /\ run = [t \in Tasks |-> "none"]
  /\ active = TRUE /\ blocked = FALSE /\ armed = TRUE /\ reload = "off"
  /\ old = {} /\ faults = 0

Loop == Suspend \/ ForkReceiver \/ AddReceiver \/ Release

Next ==
  \/ Accept \/ Loop \/ GiveUp
  \/ Sigchld \/ Alarm \/ AlarmForkFails \/ AlarmAborts \/ Reload \/ ReloadFails
  \/ \E t \in Tasks : Ends(t) \/ GrowsOld(t)

Spec == Init /\ [][Next]_vars

\* The scheduler goes on, a pending signal arrives when it is not blocked, and time
\* passes for all tasks.  Nobody need connect, and no task need ever end by itself.  SIGALRM comes again
\* and again, and SIGHUP does not come without a pause.
Fairness ==
  /\ SF_vars(Loop) /\ SF_vars(Sigchld) /\ WF_vars(reload # "off" /\ Reload)
  /\ SF_vars(Alarm \/ AlarmForkFails)
  /\ \A t \in Tasks : WF_vars(GrowsOld(t))

FairSpec == Spec /\ Fairness

-----------------------------------------------------------------------------
(* Properties                                                              *)

\* The variables have their types, and SIGCHLD is blocked from suspend to release of
\* the loop, though SIGALRM releases it meanwhile; outside, its handler is marked as
\* active, however suspend and release are nested.
TypeOK ==
  /\ loop \in {"accept", "new", "suspended", "forked", "added", "aborted", "ended", "wild"}
  /\ task \in Tasks \cup {NoTask}
  /\ list \subseteq Tasks
  /\ run \in [Tasks -> Working \cup {"none", "made", "replaced", "zombie", "killed"}]
  /\ {armed, active, blocked} \subseteq BOOLEAN
  /\ loop \in {"suspended", "forked", "added"} => blocked
  /\ loop \in {"accept", "new"} => active /\ ~blocked
  /\ reload \in {"off", "cleared", "nolists"}
  /\ old \subseteq Tasks
  /\ faults \in 0..MaxFaults

\* When the scheduler waits for a connection its list, which server_max_procs is
\* compared with, holds the children that were not waited for, those excepted that
\* got SIGTERM: whatever the handlers did to the loop, it has aborted, it has gone on
\* with a task that was deleted, or the list is sound.
ListIsChildren ==
  loop = "accept" => list = {t \in Unreaped : run[t] # "killed"}

\* Every child that ends is waited for in the end.
NoZombieStays ==
  \A t \in Tasks : run[t] \in {"zombie", "killed"}
                     ~> run[t] = "none" \/ Over

\* There is always another manager, while the scheduler runs, though the tasks
\* there are may hang, and fork() may fail.
SpoolingGoesOn ==
  []<>(\E t \in Tasks : run[t] = "manager") \/ <>(Over)
=============================================================================
