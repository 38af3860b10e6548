------------------------------ MODULE UserTable ------------------------------
(***************************************************************************)
(* The users of a list in a database (DBStorage over Database), as several *)
(* processes work on them: managers that carry out mail commands           *)
(* (Message::changeuser), transmitters that take an unknown user off a     *)
(* list (Transmitter::writeRcpt), and managers that broadcast              *)
(* (Manager::broadcast), which copy the table and read the copy in pages   *)
(* (MailingList::getAllUsers).                                             *)
(*                                                                         *)
(* Each call of the storage connects anew; there are no transactions.  A   *)
(* step is one SQL statement, which the database carries out as a whole.   *)
(* A statement that fails may have been carried out all the same, when     *)
(* the connection broke before the answer came.  A table nobody changes is *)
(* returned in the same order every time.                                  *)
(***************************************************************************)
EXTENDS Naturals, Sequences, SequencesExt

CONSTANTS
  Procs,        \* process ids, used again when a process has ended
  Users,        \* addresses
  Bad,          \* those another program put there and Limez takes for invalid
  PageSize,     \* MAX_USERS_ONCE
  MaxRows,      \* bound: rows of the table
  MaxFaults     \* bound: statements that fail, and processes that die

ASSUME UserTableAssumption ==
  /\ Bad \subseteq Users
  /\ PageSize \in Nat \ {0} /\ MaxRows \in Nat /\ MaxFaults \in Nat

NoUser == "no user"
ASSUME NullAssumption == NoUser \notin Users

VARIABLES
  live,         \* the user table of the list
  temp,         \* the tables <table>_tmp_<pid>
  proc,         \* the processes, see ProcType
  faults,       \* faults so far
  cut           \* history: pids whose broadcast met a fault

vars == <<live, temp, proc, faults, cut>>

TableType == [there : BOOLEAN, rows : Seq(Users), index : BOOLEAN]
Absent    == [there |-> FALSE, rows |-> <<>>, index |-> FALSE]
Created   == [Absent EXCEPT !.there = TRUE]

\* A process: what it does and for whom, its next statement, the call that opens
\* the storage, the page it is at; history: the users it got so far, the rows it
\* copied, and whether something went wrong meanwhile.
Calls == {"number", "find", "insert", "delete", "clone", "page"}

ProcType ==
  [ op    : {"none", "add", "del", "drop", "cast"},
    user  : Users \cup {NoUser},
    pc    : {"off", "count", "create", "index", "fill", "destroy"} \cup Calls,
    call  : Calls,
    page  : Nat,
    got   : Seq(Users),
    snap  : Seq(Users),
    spoilt : BOOLEAN ]

Idle == [ op |-> "none", user |-> NoUser, pc |-> "off", call |-> "find", page |-> 1,
          got |-> <<>>, snap |-> <<>>, spoilt |-> FALSE ]

At(p, pc) == proc[p].pc = pc
Go(p, pc) == proc' = [proc EXCEPT ![p].pc = pc]

\* The storage is opened for a call: the table, or the copy for a page.
Opening(p, call) == proc' = [proc EXCEPT ![p].pc = "count", ![p].call = call]
OnCopy(p) == proc[p].call = "page"
Table(p)  == IF OnCopy(p) THEN temp[p] ELSE live
Becomes(p, t) ==
  IF OnCopy(p) THEN temp' = [temp EXCEPT ![p] = t] /\ UNCHANGED live
               ELSE live' = t /\ UNCHANGED temp

End(p) == proc' = [proc EXCEPT ![p] = Idle]

Fault(p) ==
  /\ faults < MaxFaults /\ faults' = faults + 1
  /\ cut' = IF proc[p].op = "cast" THEN cut \cup {p} ELSE cut
NoFault == UNCHANGED <<faults, cut>>

\* The rows of other users, in their order.
Without(rows, gone) ==
  LET kept[n \in 0..Len(rows)] ==
        IF n = 0 THEN <<>>
        ELSE IF rows[n] \in gone THEN kept[n - 1] ELSE Append(kept[n - 1], rows[n])
  IN kept[Len(rows)]

Valid(rows) == Without(rows, Bad)

-----------------------------------------------------------------------------
(* Operations                                                              *)

\* A process begins: changeuser looks the user up, the transmitter does not, and
\* a broadcast asks for the number of users first.
Begin(p) ==
  /\ At(p, "off")
  /\ \/ \E op \in {"add", "del", "drop"}, u \in Users \ Bad :
          /\ op = "add" => Len(live.rows) < MaxRows
          /\ proc' = [proc EXCEPT ![p].op = op, ![p].user = u, ![p].pc = "count",
                                  ![p].call = IF op = "drop" THEN "delete" ELSE "find"]
     \/ proc' = [proc EXCEPT ![p].op = "cast", ![p].pc = "count", ![p].call = "number"]
  /\ UNCHANGED <<live, temp, faults, cut>>

\* A call fails: without an answer the user is no member, and the number of users
\* does not matter; everything else ends the operation.
CallFails(p) ==
  CASE proc[p].call = "number" -> Opening(p, "clone")
    [] proc[p].call = "find" /\ proc[p].op = "add" -> Opening(p, "insert")
    [] OTHER -> End(p)

\* DBStorage::open: three times there is no connection.
ConnectFails(p) ==
  /\ At(p, "count") /\ Fault(p)
  /\ CallFails(p)
  /\ UNCHANGED <<live, temp>>

\* DBStorage::open: is the table there?
Count(p) ==
  /\ At(p, "count")
  /\ \/ Table(p).there /\ Go(p, proc[p].call) /\ NoFault
     \/ ~Table(p).there /\ Go(p, "create") /\ NoFault
     \/ Table(p).there /\ Go(p, "create") /\ Fault(p)
  /\ UNCHANGED <<live, temp>>

Create(p) ==
  /\ At(p, "create")
  /\ IF Table(p).there
     THEN CallFails(p) /\ NoFault /\ UNCHANGED <<live, temp>>
     ELSE \/ Go(p, "index") /\ Becomes(p, Created) /\ NoFault
          \/ /\ CallFails(p) /\ Fault(p)
             /\ \/ Becomes(p, Created)
                \/ UNCHANGED <<live, temp>>

\* The index is unique: there is none over two equal rows.
Index(p) ==
  /\ At(p, "index")
  /\ LET indexed == [Table(p) EXCEPT !.index = TRUE] IN
       IF IsInjective(Table(p).rows)
       THEN \/ Go(p, proc[p].call) /\ Becomes(p, indexed) /\ NoFault
            \/ /\ CallFails(p) /\ Fault(p)
               /\ \/ Becomes(p, indexed)
                  \/ UNCHANGED <<live, temp>>
       ELSE CallFails(p) /\ NoFault /\ UNCHANGED <<live, temp>>

\* DBStorage::find: a count that fails is -1, which is a large number once it is
\* unsigned, so the user is a member.
Find(p) ==
  /\ At(p, "find")
  /\ \E member \in BOOLEAN :
       /\ \/ NoFault /\ member = \E i \in DOMAIN live.rows : live.rows[i] = proc[p].user
          \/ Fault(p) /\ member
       /\ CASE proc[p].op = "add" /\ ~member -> Opening(p, "insert")
            [] proc[p].op = "del" /\ member  -> Opening(p, "delete")
            [] OTHER -> End(p)
  /\ UNCHANGED <<live, temp>>

\* DBStorage::add of one user.
Insert(p) ==
  /\ At(p, "insert")
  /\ LET u == proc[p].user
         refused == live.index /\ \E i \in DOMAIN live.rows : live.rows[i] = u IN
       \/ ~refused /\ live' = [live EXCEPT !.rows = Append(@, u)] /\ (NoFault \/ Fault(p))
       \/ UNCHANGED live /\ ((refused /\ NoFault) \/ Fault(p))
  /\ End(p)
  /\ UNCHANGED temp

\* DBStorage::remove of one user: all rows that are equal.
Delete(p) ==
  /\ At(p, "delete")
  /\ \/ live' = [live EXCEPT !.rows = Without(@, {proc[p].user})] /\ (NoFault \/ Fault(p))
     \/ UNCHANGED live /\ Fault(p)
  /\ End(p)
  /\ UNCHANGED temp

-----------------------------------------------------------------------------
(* Manager::broadcast                                                      *)

\* MailingList::getUserCount: the number is for the report.
Number(p) ==
  /\ At(p, "number")
  /\ Opening(p, "clone")
  /\ NoFault \/ Fault(p)
  /\ UNCHANGED <<live, temp>>

\* DBStorage::clone, first statement.  A copy that an earlier process with this
\* pid has left is in the way.
Clone(p) ==
  /\ At(p, "clone")
  /\ IF temp[p].there
     THEN End(p) /\ NoFault /\ UNCHANGED temp
     ELSE \/ Go(p, "fill") /\ temp' = [temp EXCEPT ![p] = Created] /\ NoFault
          \/ /\ End(p) /\ Fault(p)
             /\ temp' \in {temp, [temp EXCEPT ![p] = Created]}
  /\ UNCHANGED live

\* DBStorage::clone, second statement.
Fill(p) ==
  /\ At(p, "fill")
  /\ \/ /\ temp' = [temp EXCEPT ![p].rows = live.rows]
        /\ proc' = [proc EXCEPT ![p].pc = "count", ![p].call = "page", ![p].snap = live.rows]
        /\ NoFault
     \/ /\ End(p) /\ Fault(p)
        /\ temp' \in {temp, [temp EXCEPT ![p].rows = live.rows]}
  /\ UNCHANGED live

\* Rows (k-1)*PageSize + 1 to k*PageSize.
PageOf(rows, k) == SubSeq(rows, (k-1) * PageSize + 1,
                          IF k * PageSize < Len(rows) THEN k * PageSize ELSE Len(rows))

\* Mutant of the next definition: the pages are read from the table itself.
SourceLive(p) == live.rows

\* The name of the copy replaces that of the table.
Source(p) == temp[p].rows

\* DBStorage::get: a page without a valid row is as good as the end.
Page(p) ==
  /\ At(p, "page")
  /\ LET users == Valid(PageOf(Source(p), proc[p].page)) IN
       \/ /\ NoFault
          /\ IF users = <<>> THEN Go(p, "destroy")
             ELSE proc' = [proc EXCEPT ![p].pc = "count", ![p].page = @ + 1,
                                       ![p].got = @ \o users]
       \/ Fault(p) /\ proc' = [proc EXCEPT ![p].pc = "destroy", ![p].spoilt = TRUE]
  /\ UNCHANGED <<live, temp>>

\* Mutant of the next definition: the copy is kept.
DestroyNothing(p) == At(p, "destroy") /\ End(p) /\ NoFault /\ UNCHANGED <<live, temp>>

\* DBStorage::destroy, and the end of the broadcast.
Destroy(p) ==
  /\ At(p, "destroy")
  /\ \/ temp' = [temp EXCEPT ![p] = Absent] /\ (NoFault \/ Fault(p))
     \/ UNCHANGED temp /\ Fault(p)
  /\ End(p)
  /\ UNCHANGED live

Die(p) ==
  /\ ~At(p, "off") /\ Fault(p)
  /\ End(p)
  /\ UNCHANGED <<live, temp>>

-----------------------------------------------------------------------------
\* The table as it came to be: without its index when that could not be made.
Init ==
  /\ \E rows \in BoundedSeq(Users, MaxRows), index \in BOOLEAN :
       /\ index => IsInjective(rows)
       /\ live \in {Absent, [there |-> TRUE, rows |-> rows, index |-> index]}
  /\ temp = [p \in Procs |-> Absent]
  /\ proc = [p \in Procs |-> Idle]
  /\ faults = 0
  /\ cut = {}

Open(p)   == Count(p) \/ Create(p) \/ Index(p)
Change(p) == Find(p) \/ Insert(p) \/ Delete(p)
Cast(p)   == Number(p) \/ Clone(p) \/ Fill(p) \/ Page(p) \/ Destroy(p)
Step(p)   == Open(p) \/ Change(p) \/ Cast(p)

Next == \E p \in Procs : Begin(p) \/ Step(p) \/ ConnectFails(p) \/ Die(p)

Spec == Init /\ [][Next]_vars

-----------------------------------------------------------------------------
(* Properties                                                              *)

TablesOK ==
  /\ live \in TableType /\ temp \in [Procs -> TableType]
  /\ \A t \in {live} \cup {temp[p] : p \in Procs} :
       /\ t.rows # <<>> \/ t.index => t.there
       /\ t.index => IsInjective(t.rows)

\* The variables have their types; a table with the unique index has no two equal
\* rows; and a copy is there only during its broadcast, or after a broadcast of
\* the same pid that met a fault (MailingList::getAllUsers destroys it).
TypeOK ==
  /\ TablesOK
  /\ proc \in [Procs -> ProcType]
  /\ faults \in 0..MaxFaults /\ cut \subseteq Procs
  /\ \A p \in Procs : temp[p].there => p \in cut \/ proc[p].op = "cast"

BlankPage(rows) ==
  \E k \in 1..Len(rows) :
    PageOf(rows, k) # <<>> /\ Valid(PageOf(rows, k)) = <<>>

\* A broadcast goes to the users who were in the table at one moment, in one order,
\* whoever comes or goes meanwhile: to some of the first of them at any time, and
\* to all of them when no page fails and none is without a valid row
\* (Manager::broadcast, MailingList::getAllUsers, DBStorage::clone and get).
CastIsSnapshot ==
  \A p \in Procs : LET r == proc[p] IN
    /\ IsPrefix(r.got, Valid(r.snap))
    /\ r.pc = "destroy" /\ ~r.spoilt => r.got = Valid(r.snap) \/ BlankPage(r.snap)
=============================================================================
