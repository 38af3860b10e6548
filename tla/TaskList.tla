------------------------------ MODULE TaskList ------------------------------
(***************************************************************************)
(* The list of tasks of the scheduler (List, ListElement) as its signal     *)
(* handlers walk over it.  SIGCHLD is blocked while its own handler runs,   *)
(* SIGALRM is not: scheduler_sigalarm may interrupt scheduler_sigchild at    *)
(* any step of its walk, takes tasks out and puts one in, and releases       *)
(* SIGCHLD, so that the handler of SIGCHLD may run a second time, inside.    *)
(*                                                                         *)
(* A step is one access to the list.  Adding a task and taking one out is    *)
(* one access; that the loop forks and adds with SIGCHLD suspended, and how  *)
(* SIGALRM disturbs this, is the subject of module Scheduler.                *)
(***************************************************************************)
EXTENDS Naturals, Sequences, FiniteSets, SequencesExt

CONSTANTS
  Tasks,        \* places in memory for task objects
  Null,         \* no task
  MaxPid,       \* process ids are 1..MaxPid
  Wrap          \* the number of tasks is kept in a byte: 256

ASSUME TaskListAssumption ==
  /\ IsFiniteSet(Tasks) /\ Null \notin Tasks
  /\ MaxPid \in Nat /\ Wrap \in Nat \ {0}

Pids  == 1..MaxPid
NoPid == 0

VARIABLES
  list,         \* scheduler.tasks and the links of the tasks, see ListType
  alive,        \* task objects that were made and not deleted
  pid,          \* the process each task stands for, or NoPid
  proc,         \* the processes
  old,          \* tasks that are older than MAX_TASK_TIME
  frame,        \* the handler of SIGCHLD, and the one inside of it, see FrameType
  alarm,        \* SIGALRM has released SIGCHLD, and has not returned yet
  broken,       \* a handler has touched a task that was deleted
  killed,       \* history: children that got SIGTERM
  hurt          \* history: a task an interrupted handler holds was deleted

vars == <<list, alive, pid, proc, old, frame, alarm, broken, killed, hurt>>

Link == Tasks \cup {Null}
ListType == [ first : Link, last : Link, count : Int,
              next : [Tasks -> Link], prev : [Tasks -> Link], in : [Tasks -> BOOLEAN] ]

\* Where a handler is: it waits for children, or walks to the next task (currTask),
\* or compares it, with the one behind it in hand (nextTask).
FrameType == [ pc : {"off", "wait", "walk", "match"}, pid : Pids \cup {NoPid},
               curr : Link, after : Link ]
Off == [pc |-> "off", pid |-> NoPid, curr |-> Null, after |-> Null]

-----------------------------------------------------------------------------
(* The list                                                                *)

Empty == [ first |-> Null, last |-> Null, count |-> 0,
           next |-> [t \in Tasks |-> Null], prev |-> [t \in Tasks |-> Null],
           in |-> [t \in Tasks |-> FALSE] ]

\* Mutant of the next definition: a new task goes behind the last.
AddBehind(l, t) ==
  [ l EXCEPT !.last = t, !.count = @ + 1, !.in[t] = TRUE,
             !.first = IF l.last = Null THEN t ELSE @,
             !.prev[t] = l.last,
             !.next = [u \in Tasks |-> IF u = t THEN Null ELSE IF u = l.last THEN t ELSE @[u]] ]

\* List::add: a new task goes before the first.
Add(l, t) ==
  [ l EXCEPT !.first = t, !.count = @ + 1, !.in[t] = TRUE,
             !.last  = IF l.first = Null THEN t ELSE @,
             !.next[t] = l.first,
             !.prev = [u \in Tasks |-> IF u = t THEN Null ELSE IF u = l.first THEN t ELSE @[u]] ]

\* ListElement::unhook.
Unhook(l, t) ==
  IF ~l.in[t] THEN l
  ELSE [ l EXCEPT !.first = IF @ = t THEN l.next[t] ELSE @, !.count = @ - 1, !.in[t] = FALSE,
                  !.next = [u \in Tasks |-> IF u = t THEN Null ELSE IF u = l.prev[t] THEN l.next[t] ELSE @[u]],
                  !.prev = [u \in Tasks |-> IF u = t THEN Null ELSE IF u = l.next[t] THEN l.prev[t] ELSE @[u]] ]

\* Mutant of the next definition: the last task stays the last.
DelFirstOnly(l, t) == Unhook(l, t)

\* List::del.
Del(l, t) == Unhook([l EXCEPT !.last = IF @ = t THEN l.prev[t] ELSE @], t)

\* getFirst gives the last task, and getNext the one before: a walk meets the tasks in
\* the order in which they were added.
ChainOf(l) ==
  LET at[n \in 1..Cardinality(Tasks)] ==
        IF n = 1 THEN l.last
        ELSE LET t == at[n - 1] IN IF t = Null THEN Null ELSE l.prev[t]
      met == {n \in 1..Cardinality(Tasks) : at[n] # Null}
  IN [n \in 1..Cardinality(met) |-> at[n]]
Chain  == ChainOf(list)
Listed == ToSet(Chain)

-----------------------------------------------------------------------------
(* Processes                                                               *)

\* The handler that runs: the one inside, when SIGALRM has come in between.
Running(i) == ~broken /\ i = (IF alarm THEN 2 ELSE 1)
At(i, pc)  == Running(i) /\ frame[i].pc = pc

\* Ids are not used again while something remembers them.
Fresh(p) ==
  /\ proc[p] = "none"
  /\ \A t \in alive : pid[t] # p
  /\ \A i \in 1..2 : frame[i].pid # p
NextPid(p) == Fresh(p) /\ \A q \in Pids : Fresh(q) => p <= q

\* An interrupted handler holds a task it is going to look at.
Held == (IF frame[1].pc \in {"walk", "match"} THEN {frame[1].curr} ELSE {}) \cup
        (IF frame[1].pc = "match" THEN {frame[1].after} ELSE {})

Ends(p) ==
  /\ ~broken /\ proc[p] = "runs"
  /\ proc' = [proc EXCEPT ![p] = "ended"]
  /\ UNCHANGED <<list, alive, pid, old, frame, alarm, broken, killed, hurt>>

GrowsOld(t) ==
  /\ ~broken /\ t \in alive \ old
  /\ old' = old \cup {t}
  /\ UNCHANGED <<list, alive, pid, proc, frame, alarm, broken, killed, hurt>>

\* Scheduler::run forks a receiver and adds its task.
Receive ==
  /\ At(1, "off")
  /\ \E t \in Tasks \ alive, p \in Pids :
       /\ NextPid(p)
       /\ list' = Add(list, t)
       /\ alive' = alive \cup {t}
       /\ pid' = [pid EXCEPT ![t] = p]
       /\ proc' = [proc EXCEPT ![p] = "runs"]
  /\ UNCHANGED <<old, frame, alarm, broken, killed, hurt>>

-----------------------------------------------------------------------------
(* scheduler_sigchild                                                      *)

Moves(i, f) == frame' = [frame EXCEPT ![i] = f]

\* SIGCHLD arrives.
Sigchld(i) ==
  /\ At(i, "off") /\ \E p \in Pids : proc[p] = "ended"
  /\ Moves(i, [Off EXCEPT !.pc = "wait"])
  /\ UNCHANGED <<list, alive, pid, proc, old, alarm, broken, killed, hurt>>

\* waitpid gives a child that has ended, and the walk begins.
Wait(i) ==
  /\ At(i, "wait")
  /\ \E p \in Pids :
       /\ proc[p] = "ended"
       /\ proc' = [proc EXCEPT ![p] = "none"]
       /\ killed' = killed \ {p}
       /\ Moves(i, [pc |-> "walk", pid |-> p, curr |-> list.last, after |-> Null])
  /\ UNCHANGED <<list, alive, pid, old, alarm, broken, hurt>>

WaitDone(i) ==
  /\ At(i, "wait") /\ \A p \in Pids : proc[p] # "ended"
  /\ Moves(i, Off)
  /\ UNCHANGED <<list, alive, pid, proc, old, alarm, broken, killed, hurt>>

WalkDone(i) ==
  /\ At(i, "walk") /\ frame[i].curr = Null
  /\ Moves(i, [Off EXCEPT !.pc = "wait"])
  /\ UNCHANGED <<list, alive, pid, proc, old, alarm, broken, killed, hurt>>

\* A task that was deleted is looked at: anything may happen from here on.
Touch(i) ==
  /\ At(i, "walk") \/ At(i, "match")
  /\ frame[i].curr # Null /\ frame[i].curr \notin alive
  /\ broken' = TRUE
  /\ UNCHANGED <<list, alive, pid, proc, old, frame, alarm, killed, hurt>>

\* Mutant of the next definition: the walk ends before the last task.
WalkShort(i) ==
  /\ At(i, "walk") /\ frame[i].curr \in alive
  /\ LET next == list.prev[frame[i].curr] IN
       Moves(i, IF next = Null THEN [Off EXCEPT !.pc = "wait"]
                ELSE [frame[i] EXCEPT !.pc = "match", !.after = next])
  /\ UNCHANGED <<list, alive, pid, proc, old, alarm, broken, killed, hurt>>

\* getNext comes before the task is looked at.
Walk(i) ==
  /\ At(i, "walk") /\ frame[i].curr \in alive
  /\ Moves(i, [frame[i] EXCEPT !.pc = "match", !.after = list.prev[frame[i].curr]])
  /\ UNCHANGED <<list, alive, pid, proc, old, alarm, broken, killed, hurt>>

\* Mutant of the next definition: the walk goes on from the task that was deleted.
MatchHold(i) ==
  /\ At(i, "match") /\ frame[i].curr \in alive
  /\ LET t == frame[i].curr IN
       IF pid[t] = frame[i].pid
       THEN /\ list' = Del(list, t) /\ pid' = [pid EXCEPT ![t] = NoPid]
            /\ alive' = alive \ {t} /\ old' = old \ {t}
            /\ hurt' = (hurt \/ (i = 2 /\ t \in Held))
            /\ Moves(i, [frame[i] EXCEPT !.pc = "walk", !.after = Null])
       ELSE /\ UNCHANGED <<list, alive, pid, old, hurt>>
            /\ Moves(i, [frame[i] EXCEPT !.pc = "walk", !.curr = frame[i].after, !.after = Null])
  /\ UNCHANGED <<proc, alarm, broken, killed>>

\* The task of the child leaves the list and is deleted.
Match(i) ==
  /\ At(i, "match") /\ frame[i].curr \in alive
  /\ LET t == frame[i].curr IN
       IF pid[t] = frame[i].pid
       THEN /\ list' = Del(list, t) /\ pid' = [pid EXCEPT ![t] = NoPid]
            /\ alive' = alive \ {t} /\ old' = old \ {t}
            /\ hurt' = (hurt \/ (i = 2 /\ t \in Held))
       ELSE UNCHANGED <<list, alive, pid, old, hurt>>
  /\ Moves(i, [frame[i] EXCEPT !.pc = "walk", !.curr = frame[i].after, !.after = Null])
  /\ UNCHANGED <<proc, alarm, broken, killed>>

-----------------------------------------------------------------------------
(* scheduler_sigalarm                                                      *)

\* Tasks that are too old, unless the number of tasks reads as 0.
Overdue == IF list.count % Wrap = 0 THEN {} ELSE Listed \cap old

\* The walk of the handler takes them out one by one.
Purged(gone) ==
  LET rest[n \in 0..Len(Chain)] ==
        IF n = 0 THEN list
        ELSE IF Chain[n] \in gone THEN Del(rest[n - 1], Chain[n]) ELSE rest[n - 1]
  IN rest[Len(Chain)]

\* They leave the list, are deleted, and get SIGTERM, and a manager is forked, unless
\* that fails.  The new object may have the place of one just deleted.
Alarm ==
  /\ ~broken /\ ~alarm
  /\ LET over == Overdue
         rest == Purged(over)
         left == [t \in Tasks |-> IF t \in over THEN NoPid ELSE pid[t]] IN
       /\ \/ \E t \in Tasks \ (alive \ over), p \in Pids :
               /\ NextPid(p)
               /\ list' = Add(rest, t) /\ alive' = (alive \ over) \cup {t}
               /\ pid' = [left EXCEPT ![t] = p] /\ proc' = [proc EXCEPT ![p] = "runs"]
          \/ list' = rest /\ alive' = alive \ over /\ pid' = left /\ UNCHANGED proc
       /\ killed' = killed \cup {pid[t] : t \in {u \in over : proc[pid[u]] # "none"}}
       /\ old' = old \ over
       /\ hurt' = (hurt \/ Held \cap over # {})
  /\ alarm' = TRUE
  /\ UNCHANGED <<frame, broken>>

AlarmDone ==
  /\ ~broken /\ alarm /\ frame[2].pc = "off"
  /\ alarm' = FALSE
  /\ UNCHANGED <<list, alive, pid, proc, old, frame, broken, killed, hurt>>

-----------------------------------------------------------------------------
Init ==
  /\ list = Empty /\ alive = {} /\ pid = [t \in Tasks |-> NoPid]
  /\ proc = [p \in Pids |-> "none"] /\ old = {} /\ killed = {}
  /\ frame = [i \in 1..2 |-> Off]
  /\ alarm = FALSE /\ broken = FALSE /\ hurt = FALSE

Handler(i) ==
  Sigchld(i) \/ Wait(i) \/ WaitDone(i) \/ WalkDone(i) \/ Touch(i) \/ Walk(i) \/ Match(i)

Next ==
  \/ Receive \/ Alarm \/ AlarmDone
  \/ \E i \in 1..2 : Handler(i)
  \/ \E p \in Pids : Ends(p)
  \/ \E t \in Tasks : GrowsOld(t)

Spec == Init /\ [][Next]_vars

-----------------------------------------------------------------------------
(* Properties                                                              *)

\* The variables have their types, and the links, the ends and the count of the list
\* agree with one another and with the tasks that were made and not deleted.
TypeOK ==
  /\ list \in ListType /\ alive \subseteq Tasks
  /\ pid \in [Tasks -> Pids \cup {NoPid}] /\ proc \in [Pids -> {"none", "runs", "ended"}]
  /\ old \subseteq alive /\ killed \subseteq Pids
  /\ frame \in [1..2 -> FrameType]
  /\ {alarm, broken, hurt} \subseteq BOOLEAN
  /\ list.count = Len(Chain) /\ Listed = alive
  /\ {t \in Tasks : list.in[t]} = alive
  /\ list.first = IF Chain = <<>> THEN Null ELSE Last(Chain)
  /\ \A n \in 1..(Len(Chain) - 1) : list.next[Chain[n + 1]] = Chain[n]

\* The list is a queue of tasks, however its handlers interrupt one another.
Queue == INSTANCE TaskQueue WITH queue <- Chain
IsQueue == Queue!Spec

\* When no handler runs, the list holds a task for each child that was not waited for
\* and not terminated, and no other: a walk of SIGCHLD finds the task it looks for,
\* though SIGALRM takes out and puts in others meanwhile, even at the place of one
\* just deleted, as long as the walk does not hold what is deleted.
ListIsChildren ==
  ~alarm /\ frame[1].pc = "off" /\ ~hurt =>
    {pid[t] : t \in Listed} = {p \in Pids : proc[p] # "none"} \ killed

\* No handler looks at a task that was deleted, unless another one inside of it has
\* deleted what it held: its own deletions do no harm.
DeletedIsLeft == broken => hurt

\* SIGTERM goes to children of the scheduler, and to nobody who has their process id
\* by now, the one child excepted whose end an interrupted handler has just learnt.
TermIsForChild ==
  [][ alarm' /\ ~alarm /\ ~hurt =>
        \A t \in alive : t \in Overdue => proc[pid[t]] # "none" \/ pid[t] = frame[1].pid ]_vars
=============================================================================
