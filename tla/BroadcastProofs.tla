-------------------------- MODULE BroadcastProofs --------------------------
(***************************************************************************)
(* What a broadcast guarantees for any number of users and transmitters,   *)
(* any settings of the list and any faults of mail servers and of fork().   *)
(***************************************************************************)
EXTENDS Broadcast, TLAPS, FiniteSetTheorems

\* The users whose transmitter was forked and not waited for.
Kids == {u \in Users : Alive(u)} \cup Zombies

\* A user is forked for once, and the transmitter that was just forked is there, and
\* stays there, until it joins the task list.
Forked ==
  /\ TasksAreChildren
  /\ \A u \in todo : child[u].pc = "none"
  /\ pc = "add" => cur \in Users /\ cur \in Kids /\ blocked

\* Only the transmitter that was told so takes its user off the list, and then it makes
\* no copy.
Subscribed ==
  /\ \A u \in Users : ~child[u].unknown => u \in members
  /\ \A u \in Users : child[u].pc \in Cloning \cup {"none"} => ~child[u].unknown

\* The transmitter of user u has put a copy into the spool, and has nothing more to do
\* with the list of users.
Copied(u) ==
  "copy" \in fault[u] /\ ~child[u].unknown /\ child[u].pc \in {"unlock", "zombie", "reaped"}

\* Who makes a copy is known, and whoever it is for has one.
Marked ==
  /\ \A u \in Users : child[u].pc \in {"link", "queue", "unlock"} => "copy" \in fault[u]
  /\ \A u \in Users : "copy" \in fault[u] =>
       child[u].pc \in {"link", "queue", "unlock", "zombie", "reaped"}
  /\ copy.rcpt # NoUser => Copied(copy.rcpt)
  /\ \A m \in Retriers : retry[m].pc # "off" => retry[m].rcpt \in Users /\ Copied(retry[m].rcpt)

\* The server has not taken the mail, as far as the transmitter knows, and there is
\* no copy.
Unserved(c) ==
  \/ c.pc \in {"none", "resolve", "connect", "hello", "rcpt", "rset", "data"}
  \/ c.pc \in {"lock", "link", "queue"}
  \/ c.pc = "quit" /\ ~c.ok

\* No answer was lost, and no other copy was made under the name of this one.
Clear(u) == "answer lost" \notin fault[u] /\ \A v \in Users \ {u} : "copy" \notin fault[v]

\* A manager that believes to have the lock of the copy, and one that has delivered it and
\* not moved it away yet.
Works(r)   == r.pc \in {"taken", "deliver", "write", "mvdata", "mvconf", "unlock"}
Settles(r) == r.pc \in {"write", "mvdata"} /\ r.sent

\* The lock of the copy is the one of whoever works on it.
LockOk(u) ==
  /\ \A m \in Retriers : Works(retry[m]) =>
       copy.locked /\ child[u].pc \notin {"link", "queue", "unlock"}
  /\ \A m, k \in Retriers : Works(retry[m]) /\ Works(retry[k]) => m = k
  /\ child[u].pc \in {"link", "queue", "unlock"} => copy.locked

\* A mail is in one of two places: at the server, or in the copy to be delivered later.
PlaceOk(u) ==
  /\ Unserved(child[u]) => taken[u] = 0
  /\ "copy" \notin fault[u] => copy = NoCopy
  /\ child[u].pc = "link" => ~copy.data
  /\ \A m \in Retriers : retry[m].pc = "deliver" => copy.data
  /\ copy.data /\ (\A m \in Retriers : ~Settles(retry[m])) => taken[u] = 0
  /\ taken[u] <= 1

Once(u) == Clear(u) => LockOk(u) /\ PlaceOk(u)

FaultType == [Users -> SUBSET (AllFaults \cup {"fork", "stalled", "copy"})]

IInv == TypeOK /\ Forked /\ Subscribed /\ Marked /\ \A u \in Users : Once(u)

-----------------------------------------------------------------------------
LEMMA Records == NoChild \in ChildType /\ NewChild \in ChildType /\ NoCopy \in CopyType
BY DEF NoChild, NewChild, ChildType, Running, Dialogue, Cloning, Exits, NoCopy, CopyType

LEMMA InitIInv == Init => IInv
<1> SUFFICES ASSUME Init PROVE IInv
  OBVIOUS
<1>1. TypeOK
  <2>1. set \in SettingType /\ forkfails \in 0..MaxForkFails
    BY BroadcastAssumption DEF Init
  <2>2. child \in [Users -> ChildType] /\ copy \in CopyType
    BY Records DEF Init
  <2>3. fault \in FaultType
    BY DEF Init, FaultType
  <2>4. retry \in [Retriers -> RetryType]
    BY DEF Init, Idle, RetryType
  <2> QED
    BY <2>1, <2>2, <2>3, <2>4 DEF Init, TypeOK, FaultType
<1>2. Forked
  BY DEF Init, Forked, TasksAreChildren, Kids, Alive, Zombies, NoChild, Running, Dialogue, Cloning
<1>3. Subscribed /\ Marked
  BY BroadcastAssumption DEF Init, Subscribed, Marked, NoChild, NoCopy, Cloning, Idle
<1>4. ASSUME NEW u \in Users PROVE LockOk(u) /\ PlaceOk(u)
  <2>1. \A m \in Retriers : retry[m].pc = "off"
    BY DEF Init, Idle
  <2>2. child[u].pc = "none" /\ copy = NoCopy /\ ~copy.data /\ taken[u] = 0
    BY DEF Init, NoChild, NoCopy
  <2> QED BY <2>1, <2>2 DEF LockOk, PlaceOk, Works
<1> QED
  BY <1>1, <1>2, <1>3, <1>4 DEF IInv, Once

\* A transmitter that goes on is in the task list as it was.
LEMMA StillForked ==
  ASSUME TypeOK, Forked, NEW u \in Users, NEW r \in ChildType,
         child' = [child EXCEPT ![u] = r],
         child[u].pc \in Running, r.pc \in Running \cup {"zombie"},
         UNCHANGED parent
  PROVE  Forked'
<1>1. \A v \in Users : v # u => child'[v] = child[v]
  BY DEF TypeOK
<1>2. child'[u] = r
  BY DEF TypeOK
<1>3. Kids' = Kids
  BY <1>1, <1>2 DEF Kids, Alive, Zombies
<1>4. u \notin todo
  BY DEF Forked, Running, Dialogue, Cloning
<1>5. TasksAreChildren'
  BY <1>3 DEF Forked, TasksAreChildren, Kids, parent
<1>6. todo \subseteq Users /\ UNCHANGED <<todo, pc, cur, blocked>>
  BY DEF TypeOK, parent
<1> QED
  BY <1>1, <1>3, <1>4, <1>5, <1>6 DEF Forked

\* The faults of a step that makes no copy: those there were stay.
Noted == /\ fault' \in FaultType
         /\ \A v \in Users : /\ "answer lost" \in fault[v] => "answer lost" \in fault'[v]
                             /\ "copy" \in fault'[v] <=> "copy" \in fault[v]

\* A mail whose transmitter comes no nearer to a copy is where it was.
LEMMA StillOnce ==
  ASSUME NEW u \in Users, Once(u), Noted, UNCHANGED <<copy, retry>>, taken'[u] = taken[u],
         child'[u].pc \in {"link", "queue", "unlock"} => child'[u].pc = child[u].pc,
         Unserved(child'[u]) => Unserved(child[u])
  PROVE  Once(u)'
<1>1. Clear(u)' => Clear(u)
  BY DEF Clear, Noted
<1>2. Unserved(child[u])' <=> Unserved(child'[u])
  BY DEF Unserved
<1>3. LockOk(u) => LockOk(u)'
  BY DEF LockOk, Works
<1>4. PlaceOk(u) => PlaceOk(u)'
  BY <1>2 DEF PlaceOk, Noted, Settles
<1> QED BY <1>1, <1>3, <1>4 DEF Once

\* Nothing else is known less of who makes copies, when a transmitter makes none.
LEMMA StillMarked ==
  ASSUME IInv, Noted, UNCHANGED <<copy, retry>>,
         \A v \in Users :
           /\ child'[v].pc \in {"link", "queue", "unlock"} => child'[v].pc = child[v].pc
           /\ child[v].pc \in {"link", "queue", "unlock", "zombie", "reaped"} =>
                /\ child'[v].pc = child[v].pc \/ child'[v].pc \in {"zombie", "reaped"}
                /\ child'[v].unknown = child[v].unknown
  PROVE  Marked'
<1>1. copy.rcpt \in Users \cup {NoUser} /\ \A v \in Users : "copy" \in fault'[v] <=> "copy" \in fault[v]
  BY DEF IInv, TypeOK, CopyType, Noted
<1>2. \A v \in Users : Copied(v) => Copied(v)'
  BY <1>1 DEF Copied
<1>4. copy.rcpt # NoUser => Copied(copy.rcpt)'
  BY <1>1, <1>2 DEF IInv, Marked
<1>5. (copy.rcpt # NoUser => Copied(copy.rcpt))'
  BY <1>4 DEF Copied
<1>6. \A m \in Retriers : (retry[m].pc # "off" => retry[m].rcpt \in Users /\ Copied(retry[m].rcpt))'
  BY <1>2 DEF IInv, Marked, Copied
<1> QED BY <1>1, <1>5, <1>6 DEF IInv, Marked

\* A step of a transmitter that neither gets its mail taken, nor touches the list of
\* members, nor the copy.
LEMMA Quiet ==
  ASSUME IInv, NEW u \in Users, NEW r \in ChildType,
         child' = [child EXCEPT ![u] = r],
         child[u].pc \in Running \ Cloning,
         r.pc \in (Running \ {"link", "queue", "unlock"}) \cup {"zombie"},
         r.unknown = child[u].unknown,
         r.pc \in Cloning => ~r.unknown,
         Unserved(r) => Unserved(child[u]),
         UNCHANGED <<parent, copy, members, taken, retry>>, Noted
  PROVE  IInv'
<1>1. \A v \in Users : v # u => child'[v] = child[v]
  BY DEF IInv, TypeOK
<1>2. child'[u] = r /\ child' \in [Users -> ChildType]
  BY DEF IInv, TypeOK
<1>3. TypeOK'
  BY <1>2 DEF IInv, TypeOK, parent, Noted, FaultType
<1>4. Forked'
  BY StillForked DEF IInv
<1>7. r.pc # "none" /\ child[u].pc # "none" /\ child[u].pc \notin {"zombie", "reaped"}
  BY DEF Running, Dialogue, Cloning
<1>8. Subscribed'
  BY <1>1, <1>2, <1>7 DEF IInv, Subscribed
<1>9. Marked'
  BY <1>1, <1>2, <1>7, StillMarked DEF Cloning
<1>10. ASSUME NEW v \in Users PROVE Once(v)'
  <2>1. CASE v = u
    BY <2>1, <1>2, StillOnce DEF IInv
  <2>2. CASE v # u
    BY <2>2, <1>1, StillOnce DEF IInv
  <2> QED BY <2>1, <2>2
<1> QED
  BY <1>3, <1>4, <1>8, <1>9, <1>10 DEF IInv

-----------------------------------------------------------------------------
(* The steps of a transmitter                                              *)

\* What each transmitter step starts from.
LEMMA Known ==
  ASSUME IInv, NEW u \in Users
  PROVE  /\ child[u] \in ChildType
         /\ child \in [Users -> ChildType]
         /\ fault \in FaultType
         /\ child[u].pc \in Cloning => ~child[u].unknown
         /\ "copy" \in fault[u] => child[u].pc \in {"link", "queue", "unlock", "zombie", "reaped"}
         /\ UNCHANGED fault => Noted
BY DEF IInv, TypeOK, Subscribed, Marked, Noted, FaultType

\* A transmitter that comes to another place of the code, and does nothing else.
LEMMA QuietMove ==
  ASSUME IInv, NEW u \in Users, NEW to \in Running \ Cloning,
         Goes(u, to), child[u].pc \in Running \ Cloning,
         Unserved([child[u] EXCEPT !.pc = to]) => Unserved(child[u]),
         UNCHANGED <<parent, copy, members, taken, fault, retry>>
  PROVE  IInv'
<1> DEFINE r == [child[u] EXCEPT !.pc = to]
<1>1. child' = [child EXCEPT ![u] = r]
  BY Known DEF Goes
<1>2. r \in ChildType /\ r.pc = to /\ r.unknown = child[u].unknown
  BY Known DEF ChildType
<1>3. /\ Unserved(r) => Unserved(child[u])
      /\ r.pc \notin Cloning /\ r.pc \in (Running \ {"link", "queue", "unlock"}) \cup {"zombie"}
  BY <1>2 DEF Cloning
<1> HIDE DEF r
<1> QED
  BY <1>1, <1>2, <1>3, Quiet, Known

\* The same for one that exits.
LEMMA QuietExit ==
  ASSUME IInv, NEW u \in Users, NEW code \in Exits,
         Exit(u, code), child[u].pc \in Running \ Cloning,
         UNCHANGED <<parent, copy, members, taken, retry>>,
         Noted
  PROVE  IInv'
<1> DEFINE r == [child[u] EXCEPT !.pc = "zombie", !.exit = code]
<1>1. child' = [child EXCEPT ![u] = r]
  BY Known DEF Exit
<1>2. r \in ChildType /\ r.pc = "zombie" /\ r.unknown = child[u].unknown
  BY Known DEF ChildType
<1>3. r.pc \notin Cloning /\ ~Unserved(r)
  BY <1>2 DEF Cloning, Unserved
<1> HIDE DEF r
<1> QED
  BY <1>1, <1>2, <1>3, Quiet

\* A history entry keeps the type, and the entries there are.
LEMMA MeetsFact ==
  ASSUME IInv, NEW u \in Users, NEW what \in AllFaults \cup {"stalled"}, Meets(u, what)
  PROVE  Noted
BY Known DEF Meets, Noted, FaultType, AllFaults

LEMMA SettleStep ==
  ASSUME IInv, NEW u \in Users, Settle(u), child[u].pc \in {"connect", "quit"},
         UNCHANGED <<parent, copy, remote, fault, retry>>
  PROVE  IInv'
<1>0. child[u].pc \in Running \ Cloning /\ UNCHANGED <<members, taken, retry>>
  BY DEF Running, Dialogue, Cloning, remote
<1>1. CASE \E code \in {"ok", "fail"} : Exit(u, code)
  BY <1>0, <1>1, QuietExit, Known DEF Exits
<1>2. CASE ~child[u].ok /\ ~child[u].unknown /\ Goes(u, "lock")
  <2> DEFINE r == [child[u] EXCEPT !.pc = "lock"]
  <2>1. child' = [child EXCEPT ![u] = r]
    BY <1>2, Known DEF Goes
  <2>2. r \in ChildType /\ r.pc = "lock" /\ r.unknown = child[u].unknown
    BY Known DEF ChildType, Running, Cloning
  <2>3. r.pc \in Running /\ Unserved(child[u])
    BY <2>2, <1>2 DEF Running, Cloning, Unserved
  <2> HIDE DEF r
  <2> QED
    BY <1>0, <1>2, <2>1, <2>2, <2>3, Quiet, Known
<1> QED
  BY <1>1, <1>2 DEF Settle

LEMMA ResolveStep == ASSUME IInv, NEW u \in Users, Resolve(u) PROVE IInv'
<1>1. PICK k \in 1..MaxHosts : child' = [child EXCEPT ![u].pc = "connect", ![u].hosts = k]
  BY DEF Resolve
<1> DEFINE r == [child[u] EXCEPT !.pc = "connect", !.hosts = k]
<1>2. child' = [child EXCEPT ![u] = r]
  BY <1>1, Known
<1>a. k \in Nat /\ child[u] \in ChildType
  BY BroadcastAssumption, Known
<1>3. r \in ChildType /\ r.pc = "connect" /\ r.unknown = child[u].unknown
  BY <1>a DEF ChildType, Running
<1>4. /\ r.pc \in Running \ Cloning /\ Unserved(child[u])
      /\ child[u].pc \in Running \ Cloning /\ UNCHANGED <<members, taken, retry>>
  BY <1>3 DEF Resolve, Running, Cloning, Unserved, remote
<1> HIDE DEF r
<1> QED
  BY <1>2, <1>3, <1>4, Quiet, Known DEF Resolve

LEMMA UnresolvableStep == ASSUME IInv, NEW u \in Users, Unresolvable(u) PROVE IInv'
<1>1. child[u].pc \in Running \ Cloning /\ UNCHANGED <<members, taken, retry>>
  BY DEF Unresolvable, Running, Dialogue, Cloning, remote
<1> QED
  BY <1>1, QuietExit, MeetsFact DEF Unresolvable, Exits, AllFaults

LEMMA ConnectStep == ASSUME IInv, NEW u \in Users, Connect(u) PROVE IInv'
<1>0. child[u].pc = "connect" /\ UNCHANGED <<parent, copy, remote, fault, members, taken, retry>>
  BY DEF Connect, remote
<1>1. child[u].pc \in Running \ Cloning /\ Unserved(child[u])
  BY <1>0 DEF Running, Dialogue, Cloning, Unserved
<1>2. CASE child' = [child EXCEPT ![u].pc = "hello", ![u].hosts = 0]
  <2> DEFINE r == [child[u] EXCEPT !.pc = "hello", !.hosts = 0]
  <2>1. child' = [child EXCEPT ![u] = r]
    BY <1>2, Known
  <2>2. r \in ChildType /\ r.pc = "hello" /\ r.unknown = child[u].unknown
    BY Known DEF ChildType, Running, Dialogue
  <2>3. r.pc \in Running \ Cloning
    BY <2>2 DEF Running, Dialogue, Cloning
  <2> HIDE DEF r
  <2> QED
    BY <1>0, <1>1, <2>1, <2>2, <2>3, Quiet, Known
<1>3. CASE child[u].hosts > 1 /\ child' = [child EXCEPT ![u].hosts = @ - 1]
  <2> DEFINE r == [child[u] EXCEPT !.hosts = child[u].hosts - 1]
  <2>1. child' = [child EXCEPT ![u] = r]
    BY <1>3, Known
  <2>2. r \in ChildType /\ r.pc = "connect" /\ r.unknown = child[u].unknown
    BY <1>0, <1>3, Known DEF ChildType
  <2>3. r.pc \in Running \ Cloning
    BY <2>2 DEF Running, Dialogue, Cloning
  <2> HIDE DEF r
  <2> QED
    BY <1>0, <1>1, <2>1, <2>2, <2>3, Quiet, Known
<1>4. CASE Settle(u)
  BY <1>0, <1>4, SettleStep
<1> QED
  BY <1>2, <1>3, <1>4 DEF Connect

\* The dialogue goes on or breaks off.
LEMMA AgreedStep == ASSUME IInv, NEW u \in Users, Agreed(u) PROVE IInv'
<1>1. PICK to \in {"rcpt", "rset", "data"} : Goes(u, to)
  BY DEF Agreed
<1>2. child[u].pc \in {"hello", "rcpt"} /\ UNCHANGED <<parent, copy, members, taken, fault, retry>>
  BY DEF Agreed, remote
<1>3. /\ to \in Running \ Cloning /\ child[u].pc \in Running \ Cloning
      /\ Unserved(child[u])
  BY <1>2 DEF Running, Dialogue, Cloning, Unserved
<1> QED
  BY <1>1, <1>2, <1>3, QuietMove

LEMMA RefusedStep == ASSUME IInv, NEW u \in Users, Refused(u) PROVE IInv'
<1>1. /\ child[u].pc \in {"hello", "rcpt", "rset", "data"}
      /\ UNCHANGED <<parent, copy, members, taken, fault, retry>>
  BY DEF Refused, remote
<1>2. /\ "quit" \in Running \ Cloning /\ child[u].pc \in Running \ Cloning
      /\ Unserved(child[u])
  BY <1>1 DEF Running, Dialogue, Cloning, Unserved
<1> QED
  BY <1>1, <1>2, QuietMove DEF Refused

\* A user who is unknown is taken off the list, and marked.
LEMMA UnknownUserStep == ASSUME IInv, NEW u \in Users, UnknownUser(u) PROVE IInv'
<1> DEFINE r == [child[u] EXCEPT !.pc = "quit", !.unknown = TRUE]
<1>1. child' = [child EXCEPT ![u] = r]
  BY Known DEF UnknownUser
<1>2. r \in ChildType /\ r.pc = "quit" /\ r.unknown = TRUE
  BY Known DEF ChildType, Running, Dialogue
<1>3. /\ r.pc \in Running \ Cloning /\ child[u].pc \in Running
      /\ child[u].pc = "rcpt" /\ Unserved(child[u])
  BY <1>2 DEF UnknownUser, Running, Dialogue, Cloning, Unserved
<1>4. /\ UNCHANGED <<parent, copy, taken, fault, retry>>
      /\ members \ {u} \subseteq members' /\ members' \subseteq members
  BY DEF UnknownUser
<1> HIDE DEF r
<1>5. /\ \A v \in Users : v # u => child'[v] = child[v]
      /\ child'[u] = r /\ child' \in [Users -> ChildType]
  BY <1>1, <1>2, Known
<1>6. TypeOK'
  BY <1>4, <1>5 DEF IInv, TypeOK, parent
<1>7. Forked'
  BY <1>1, <1>2, <1>3, <1>4, StillForked DEF IInv
<1>8. Noted
  BY <1>4, Known
<1>9. Subscribed'
  BY <1>2, <1>3, <1>4, <1>5 DEF IInv, Subscribed, Cloning
<1>10. Marked'
  BY <1>2, <1>3, <1>4, <1>5, <1>8, StillMarked
<1>11. ASSUME NEW v \in Users PROVE Once(v)'
  <2>1. CASE v = u
    BY <2>1, <1>2, <1>3, <1>4, <1>5, <1>8, StillOnce DEF IInv
  <2>2. CASE v # u
    BY <2>2, <1>4, <1>5, <1>8, StillOnce DEF IInv
  <2> QED BY <2>1, <2>2
<1> QED
  BY <1>6, <1>7, <1>9, <1>10, <1>11 DEF IInv

LEMMA ResetStep == ASSUME IInv, NEW u \in Users, Reset(u) PROVE IInv'
<1> DEFINE r == [child[u] EXCEPT !.pc = "quit", !.ok = TRUE]
<1>1. child' = [child EXCEPT ![u] = r]
  BY Known DEF Reset
<1>2. r \in ChildType /\ r.pc = "quit" /\ r.unknown = child[u].unknown
  BY Known DEF ChildType, Running, Dialogue
<1>3. /\ r.pc \in Running \ Cloning /\ child[u].pc \in Running \ Cloning
      /\ Unserved(child[u]) /\ UNCHANGED <<parent, copy, members, taken, fault, retry>>
  BY <1>2 DEF Reset, Running, Dialogue, Cloning, Unserved, remote
<1> HIDE DEF r
<1> QED
  BY <1>1, <1>2, <1>3, Quiet, Known

\* The count of a user goes up by one.
LEMMA TakenFact ==
  ASSUME IInv, NEW u \in Users, taken' = [taken EXCEPT ![u] = @ + 1]
  PROVE  /\ \A v \in Users : v # u => taken'[v] = taken[v]
         /\ taken'[u] = taken[u] + 1 /\ taken' \in [Users -> Nat]
         /\ taken[u] = 0 => taken'[u] = 1
<1>1. taken \in [Users -> Nat]
  BY DEF IInv, TypeOK
<1> QED
  BY <1>1

LEMMA AtMostOne == \A k : k = 1 => k <= 1
OBVIOUS

\* The server takes the mail: it had none, and there is no copy of it.
LEMMA TakenStep ==
  ASSUME IInv, NEW u \in Users, NEW r \in ChildType, child[u].pc = "data",
         child' = [child EXCEPT ![u] = r], r.pc = "quit", r.unknown = child[u].unknown,
         taken' = [taken EXCEPT ![u] = @ + 1],
         UNCHANGED <<parent, copy, members, retry>>,
         \/ r.ok /\ UNCHANGED fault
         \/ fault' = [fault EXCEPT ![u] = @ \cup {"answer lost"}]
  PROVE  IInv'
<1>1. r.pc \in Running \ Cloning /\ child[u].pc \in Running /\ Unserved(child[u])
  BY DEF Running, Dialogue, Cloning, Unserved
<1>2. /\ \A v \in Users : v # u => child'[v] = child[v]
      /\ child'[u] = r /\ child' \in [Users -> ChildType]
  BY Known
<1>3. /\ \A v \in Users : v # u => taken'[v] = taken[v]
      /\ taken[u] = 0 => taken'[u] = 1
      /\ taken' \in [Users -> Nat]
  BY TakenFact
<1>4. /\ Noted
      /\ (r.ok /\ fault'[u] = fault[u]) \/ "answer lost" \in fault'[u]
  <2>1. CASE r.ok /\ UNCHANGED fault
    BY <2>1, Known
  <2>2. CASE fault' = [fault EXCEPT ![u] = @ \cup {"answer lost"}]
    BY <2>2, Known DEF AllFaults, Noted, FaultType
  <2> QED BY <2>1, <2>2
<1>5. TypeOK'
  BY <1>2, <1>3, <1>4 DEF IInv, TypeOK, parent, Noted, FaultType
<1>6. Forked'
  BY <1>1, StillForked DEF IInv
<1>8. Subscribed'
  BY <1>1, <1>2 DEF IInv, Subscribed
<1>7. Marked'
  BY <1>2, <1>4, StillMarked
<1>9. ASSUME NEW v \in Users PROVE Once(v)'
  <2>1. CASE v # u
    BY <2>1, <1>2, <1>3, <1>4, StillOnce DEF IInv
  <2>2. CASE v = u /\ r.ok /\ fault'[u] = fault[u]
    <3>1. SUFFICES ASSUME Clear(u)' PROVE LockOk(u)' /\ PlaceOk(u)'
      BY <2>2 DEF Once
    <3>2. Clear(u)
      BY <3>1, <1>4 DEF Clear, Noted
    <3>3. LockOk(u) /\ PlaceOk(u) /\ "copy" \notin fault[u]
      BY <3>2, Known DEF IInv, Once
    <3>4. ~Unserved(child'[u]) /\ taken'[u] = 1 /\ copy = NoCopy /\ ~copy.data
      <4>1. taken[u] = 0 /\ copy = NoCopy
        BY <3>3, <1>1 DEF PlaceOk
      <4>2. ~Unserved(child'[u])
        BY <2>2, <1>2 DEF Unserved
      <4> QED BY <4>1, <4>2, <1>3 DEF NoCopy
    <3>5. LockOk(u)'
      BY <3>3, <1>2 DEF LockOk, Works
    <3>6. Unserved(child[u])' <=> Unserved(child'[u])
      BY DEF Unserved
    <3>7. taken'[u] <= 1
      BY <3>4, AtMostOne
    <3>8. PlaceOk(u)'
      BY <3>3, <3>4, <3>6, <3>7, <1>2 DEF PlaceOk
    <3> QED BY <3>5, <3>8
  <2>3. CASE v = u /\ "answer lost" \in fault'[u]
    BY <2>3 DEF Once, Clear
  <2> QED
    BY <2>1, <2>2, <2>3, <1>4
<1> QED
  BY <1>5, <1>6, <1>7, <1>8, <1>9 DEF IInv

LEMMA SentStep == ASSUME IInv, NEW u \in Users, Sent(u) PROVE IInv'
<1> DEFINE r == [child[u] EXCEPT !.pc = "quit", !.ok = TRUE]
<1>1. child' = [child EXCEPT ![u] = r]
  BY Known DEF Sent
<1>2. r \in ChildType /\ r.pc = "quit" /\ r.ok /\ r.unknown = child[u].unknown
  BY Known DEF ChildType, Running, Dialogue
<1> HIDE DEF r
<1> QED
  BY <1>1, <1>2, TakenStep DEF Sent

LEMMA AnswerLostStep == ASSUME IInv, NEW u \in Users, AnswerLost(u) PROVE IInv'
<1> DEFINE r == [child[u] EXCEPT !.pc = "quit"]
<1>1. child' = [child EXCEPT ![u] = r]
  BY Known DEF AnswerLost, Goes
<1>2. r \in ChildType /\ r.pc = "quit" /\ r.unknown = child[u].unknown
  BY Known DEF ChildType, Running, Dialogue
<1> HIDE DEF r
<1> QED
  BY <1>1, <1>2, TakenStep DEF AnswerLost, Meets

LEMMA QuitStep == ASSUME IInv, NEW u \in Users, Quit(u) PROVE IInv'
BY SettleStep DEF Quit

LEMMA ClosedStep == ASSUME IInv, NEW u \in Users, Closed(u) PROVE IInv'
<1>1. child[u].pc \in Running \ Cloning /\ UNCHANGED <<parent, copy, members, taken, retry>>
  BY DEF Closed, Running, Dialogue, Cloning, remote
<1> QED
  BY <1>1, QuietExit, MeetsFact DEF Closed, Exits, AllFaults

LEMMA StallStep == ASSUME IInv, NEW u \in Users, Stall(u) PROVE IInv'
<1> DEFINE r == [child[u] EXCEPT !.pc = "stalled"]
<1>1. child' = [child EXCEPT ![u] = r]
  BY Known DEF Stall, Goes
<1>2. r \in ChildType /\ r.pc = "stalled" /\ r.unknown = child[u].unknown
  BY Known DEF ChildType, Running
<1>3. /\ r.pc \in Running \ Cloning /\ ~Unserved(r)
      /\ child[u].pc \in Running \ Cloning /\ UNCHANGED <<parent, copy, members, taken, retry>>
  BY <1>2 DEF Stall, Running, Dialogue, Cloning, Unserved, remote
<1>4. Noted
  BY MeetsFact DEF Stall
<1> HIDE DEF r
<1> QED
  BY <1>1, <1>2, <1>3, <1>4, Quiet

-----------------------------------------------------------------------------
(* The copy                                                                *)

\* A step of the clone of user u: no other copy is clear of it.
LEMMA CloneStep ==
  ASSUME IInv, NEW u \in Users, NEW r \in ChildType,
         child' = [child EXCEPT ![u] = r],
         child[u].pc \in Cloning, r.pc \in {"link", "queue", "unlock", "zombie"},
         r.unknown = child[u].unknown,
         child[u].pc = "unlock" => r.pc = "zombie",
         fault' \in FaultType, "copy" \in fault'[u], fault[u] \subseteq fault'[u],
         \A v \in Users : v # u => fault'[v] = fault[v],
         copy' \in CopyType,
         copy'.rcpt = copy.rcpt \/ (copy'.rcpt = u /\ r.pc = "unlock"),
         UNCHANGED <<parent, members, taken, retry>>,
         Clear(u) /\ LockOk(u) /\ PlaceOk(u) => LockOk(u)' /\ PlaceOk(u)'
  PROVE  IInv'
<1>1. /\ \A v \in Users : v # u => child'[v] = child[v]
      /\ child'[u] = r /\ child' \in [Users -> ChildType]
  BY Known
<1>2. child[u].pc \in Running /\ ~r.unknown /\ r.pc \in Running \cup {"zombie"}
  BY DEF IInv, Subscribed, Running, Cloning
<1>3. TypeOK'
  BY <1>1 DEF IInv, TypeOK, parent, FaultType
<1>4. Forked'
  BY <1>2, StillForked DEF IInv
<1>5. Subscribed'
  BY <1>1, <1>2 DEF IInv, Subscribed
<1>6. \A v \in Users : Copied(v) => Copied(v)'
  <2>1. ASSUME Copied(u) PROVE r.pc = "zombie"
    BY <2>1 DEF Copied, Cloning
  <2>2. Copied(u) => Copied(u)'
    BY <2>1, <1>1, <1>2 DEF Copied
  <2>3. \A v \in Users : v # u /\ Copied(v) => Copied(v)'
    BY <1>1 DEF Copied
  <2> QED BY <2>2, <2>3
<1>7. r.pc = "unlock" => Copied(u)'
  BY <1>1, <1>2 DEF Copied
<1>8. copy.rcpt \in Users \cup {NoUser} /\ NoUser \notin Users
  BY BroadcastAssumption DEF IInv, TypeOK, CopyType
<1>9. Marked'
  <2>1. \A v \in Users : child'[v].pc \in {"link", "queue", "unlock"} => "copy" \in fault'[v]
    BY <1>1 DEF IInv, Marked
  <2>2. \A v \in Users : "copy" \in fault'[v] =>
          child'[v].pc \in {"link", "queue", "unlock", "zombie", "reaped"}
    BY <1>1 DEF IInv, Marked
  <2>3. (copy.rcpt # NoUser => Copied(copy.rcpt))'
    <3>1. CASE copy'.rcpt = copy.rcpt
      <4> PICK y : y = copy.rcpt
        OBVIOUS
      <4>1. y # NoUser => Copied(y)'
        BY <1>6, <1>8 DEF IInv, Marked
      <4> QED BY <4>1, <3>1
    <3>2. CASE copy'.rcpt = u /\ r.pc = "unlock"
      BY <3>2, <1>7 DEF Copied
    <3> QED BY <3>1, <3>2
  <2>4. \A m \in Retriers : (retry[m].pc # "off" => retry[m].rcpt \in Users /\ Copied(retry[m].rcpt))'
    <3> TAKE m \in Retriers
    <3> PICK y : y = retry[m].rcpt
      OBVIOUS
    <3>1. retry[m].pc # "off" => y \in Users /\ Copied(y)'
      BY <1>6 DEF IInv, Marked
    <3> QED BY <3>1
  <2> QED BY <2>1, <2>2, <2>3, <2>4 DEF Marked
<1>10. ASSUME NEW v \in Users PROVE Once(v)'
  <2>1. CASE v = u
    <3>1. Clear(u)' => Clear(u)
      BY DEF Clear
    <3> QED BY <2>1, <3>1 DEF IInv, Once
  <2>2. CASE v # u
    BY <2>2 DEF Once, Clear
  <2> QED BY <2>1, <2>2
<1> QED
  BY <1>3, <1>4, <1>5, <1>9, <1>10 DEF IInv

LEMMA CopyKnown == IInv => copy \in CopyType
BY DEF IInv, TypeOK

\* There is no copy under the name, and nobody who works on it.
LEMMA LockCopyStep == ASSUME IInv, NEW u \in Users, LockCopy(u) PROVE IInv'
<1> DEFINE r == [child[u] EXCEPT !.pc = "link"]
<1>1. child' = [child EXCEPT ![u] = r]
  BY Known DEF LockCopy, Goes
<1>2. r \in ChildType /\ r.pc = "link" /\ r.unknown = child[u].unknown
  BY Known DEF ChildType, Running, Cloning
<1>3. child[u].pc = "lock" /\ UNCHANGED <<parent, members, taken, retry>>
  BY DEF LockCopy, remote
<1>4. copy' \in CopyType /\ copy'.rcpt = copy.rcpt /\ copy'.locked /\ copy'.data = copy.data
  BY CopyKnown DEF LockCopy, CopyType
<1>5. /\ fault' \in FaultType /\ "copy" \in fault'[u] /\ fault[u] \subseteq fault'[u]
      /\ \A v \in Users : v # u => fault'[v] = fault[v]
  BY Known DEF LockCopy, Meets, FaultType
<1> HIDE DEF r
<1>6. child'[u] = r
  BY <1>1, Known
<1>7. ASSUME Clear(u), LockOk(u), PlaceOk(u) PROVE LockOk(u)' /\ PlaceOk(u)'
  <2>1. "copy" \notin fault[u]
    BY <1>3, Known
  <2>2. copy = NoCopy /\ ~copy.data
    BY <1>7, <2>1 DEF PlaceOk, NoCopy
  <2>3. \A m \in Retriers : retry[m].pc = "off"
    BY <1>7, <2>1 DEF IInv, Marked, Clear, Copied
  <2>4. LockOk(u)'
    BY <2>3, <1>3, <1>4 DEF LockOk, Works
  <2>5. taken[u] = 0
    BY <1>3, <1>7 DEF PlaceOk, Unserved
  <2>6. PlaceOk(u)'
    BY <2>2, <2>3, <2>5, <1>3, <1>4, <1>5, <1>7 DEF PlaceOk
  <2> QED BY <2>4, <2>6
<1> QED
  BY <1>1, <1>2, <1>3, <1>4, <1>5, <1>7, CloneStep DEF Cloning

LEMMA LinkCopyStep == ASSUME IInv, NEW u \in Users, LinkCopy(u) PROVE IInv'
<1>0. child[u].pc = "link" /\ UNCHANGED <<parent, members, taken, fault, retry>>
  BY DEF LinkCopy, remote
<1>a. "copy" \in fault[u] /\ fault' \in FaultType /\ child[u].pc \in Cloning
  BY <1>0, Known DEF IInv, Marked, Cloning
<1>1. CASE copy.data /\ copy' = [copy EXCEPT !.locked = FALSE] /\ Exit(u, "fail")
  <2> DEFINE r == [child[u] EXCEPT !.pc = "zombie", !.exit = "fail"]
  <2>1. child' = [child EXCEPT ![u] = r]
    BY <1>1, Known DEF Exit
  <2>2. r \in ChildType /\ r.pc = "zombie" /\ r.unknown = child[u].unknown
    BY Known DEF ChildType, Exits
  <2>3. copy' \in CopyType /\ copy'.rcpt = copy.rcpt
    BY <1>1, CopyKnown DEF CopyType
  <2> HIDE DEF r
  <2>4. ~PlaceOk(u)
    BY <1>0, <1>1 DEF PlaceOk
  <2> QED
    BY <1>0, <1>a, <2>1, <2>2, <2>3, <2>4, CloneStep
<1>2. CASE ~copy.data /\ copy' = [copy EXCEPT !.data = TRUE] /\ Goes(u, "queue")
  <2> DEFINE r == [child[u] EXCEPT !.pc = "queue"]
  <2>1. child' = [child EXCEPT ![u] = r]
    BY <1>2, Known DEF Goes
  <2>2. r \in ChildType /\ r.pc = "queue" /\ r.unknown = child[u].unknown
    BY Known DEF ChildType, Running, Cloning
  <2>3. copy' \in CopyType /\ copy'.rcpt = copy.rcpt /\ copy'.locked = copy.locked /\ copy'.data
    BY <1>2, CopyKnown DEF CopyType
  <2> HIDE DEF r
  <2>4. child'[u] = r
    BY <2>1, Known
  <2>5. ASSUME LockOk(u), PlaceOk(u) PROVE LockOk(u)' /\ PlaceOk(u)'
    <3>1. copy.locked /\ \A m \in Retriers : ~Works(retry[m])
      BY <1>0, <2>5 DEF LockOk
    <3>2. LockOk(u)'
      BY <1>0, <2>3, <2>5, <3>1 DEF LockOk, Works
    <3>3. taken[u] = 0 /\ taken'[u] = taken[u]
      BY <1>0, <2>5 DEF PlaceOk, Unserved
    <3>4. PlaceOk(u)'
      BY <1>0, <1>a, <2>2, <2>3, <2>4, <2>5, <3>3 DEF PlaceOk
    <3> QED BY <3>2, <3>4
  <2> QED
    BY <1>0, <1>a, <2>1, <2>2, <2>3, <2>5, CloneStep
<1> QED
  BY <1>1, <1>2 DEF LinkCopy

\* The copy gets its recipient, whose mail no server has taken.
LEMMA QueueCopyStep == ASSUME IInv, NEW u \in Users, QueueCopy(u) PROVE IInv'
<1> DEFINE r == [child[u] EXCEPT !.pc = "unlock"]
<1>1. child' = [child EXCEPT ![u] = r]
  BY Known DEF QueueCopy, Goes
<1>2. r \in ChildType /\ r.pc = "unlock" /\ r.unknown = child[u].unknown
  BY Known DEF ChildType, Running, Cloning
<1>3. child[u].pc = "queue" /\ UNCHANGED <<parent, members, taken, fault, retry>>
  BY DEF QueueCopy, remote
<1>4. copy' \in CopyType /\ copy'.rcpt = u /\ copy'.locked = copy.locked /\ copy'.data = copy.data
  BY CopyKnown DEF QueueCopy, CopyType
<1>a. "copy" \in fault[u] /\ fault' \in FaultType /\ child[u].pc \in Cloning
  BY <1>3, Known DEF IInv, Marked, Cloning
<1> HIDE DEF r
<1>5. child'[u] = r
  BY <1>1, Known
<1>6. ASSUME LockOk(u), PlaceOk(u) PROVE LockOk(u)' /\ PlaceOk(u)'
  <2>1. copy.locked /\ \A m \in Retriers : ~Works(retry[m])
    BY <1>3, <1>6 DEF LockOk
  <2>2. LockOk(u)'
    BY <1>3, <1>4, <1>6, <2>1 DEF LockOk, Works
  <2>3. ~Unserved(r) /\ (Unserved(child[u])' <=> Unserved(child'[u]))
    BY <1>2 DEF Unserved
  <2>4. \A m \in Retriers : Settles(retry[m])' <=> Settles(retry[m])
    BY <1>3 DEF Settles
  <2>5. PlaceOk(u)'
    BY <1>2, <1>3, <1>a, <1>4, <1>5, <1>6, <2>3, <2>4 DEF PlaceOk
  <2> QED BY <2>2, <2>5
<1> QED
  BY <1>1, <1>2, <1>3, <1>4, <1>6, <1>a, CloneStep

LEMMA UnlockCopyStep == ASSUME IInv, NEW u \in Users, UnlockCopy(u) PROVE IInv'
<1> DEFINE r == [child[u] EXCEPT !.pc = "zombie", !.exit = "fail"]
<1>1. child' = [child EXCEPT ![u] = r]
  BY Known DEF UnlockCopy, Exit
<1>2. r \in ChildType /\ r.pc = "zombie" /\ r.unknown = child[u].unknown
  BY Known DEF ChildType, Exits
<1>3. child[u].pc = "unlock" /\ UNCHANGED <<parent, members, taken, fault, retry>>
  BY DEF UnlockCopy, remote
<1>4. copy' \in CopyType /\ copy'.rcpt = copy.rcpt /\ copy'.data = copy.data
  BY CopyKnown DEF UnlockCopy, CopyType
<1>a. "copy" \in fault[u] /\ fault' \in FaultType /\ child[u].pc \in Cloning
  BY <1>3, Known DEF IInv, Marked, Cloning
<1> HIDE DEF r
<1>5. child'[u] = r
  BY <1>1, Known
<1>6. ASSUME LockOk(u), PlaceOk(u) PROVE LockOk(u)' /\ PlaceOk(u)'
  <2>1. \A m \in Retriers : ~Works(retry[m])
    BY <1>3, <1>6 DEF LockOk
  <2>2. LockOk(u)'
    BY <1>2, <1>3, <1>5, <2>1 DEF LockOk, Works
  <2>3. ~Unserved(r) /\ (Unserved(child[u])' <=> Unserved(child'[u]))
    BY <1>2 DEF Unserved
  <2>4. \A m \in Retriers : Settles(retry[m])' <=> Settles(retry[m])
    BY <1>3 DEF Settles
  <2>5. PlaceOk(u)'
    BY <1>2, <1>3, <1>a, <1>4, <1>5, <1>6, <2>3, <2>4 DEF PlaceOk
  <2> QED BY <2>2, <2>5
<1> QED
  BY <1>1, <1>2, <1>3, <1>4, <1>6, <1>a, CloneStep

-----------------------------------------------------------------------------
(* The managers that deliver the copy                                      *)

\* A step of one of them, which works for user x: no other user is clear of the copy.
LEMMA WorkStep ==
  ASSUME IInv, NEW m \in Retriers, NEW x \in Users, Copied(x),
         NEW q \in RetryType, retry' = [retry EXCEPT ![m] = q],
         q.pc # "off" => q.rcpt = x,
         UNCHANGED <<parent, child, members>>, Noted,
         copy' \in CopyType, copy'.rcpt \in {copy.rcpt, x, NoUser},
         taken' \in [Users -> Nat],
         Clear(x) /\ Clear(x)' /\ LockOk(x) /\ PlaceOk(x) => LockOk(x)' /\ PlaceOk(x)'
  PROVE  IInv'
<1>1. /\ \A k \in Retriers : k # m => retry'[k] = retry[k]
      /\ retry'[m] = q /\ retry' \in [Retriers -> RetryType]
  BY DEF IInv, TypeOK
<1>2. TypeOK'
  BY <1>1 DEF IInv, TypeOK, parent, Noted, FaultType
<1>3. Forked'
  BY DEF IInv, Forked, TasksAreChildren, Alive, Zombies, Kids, parent
<1>4. Subscribed'
  BY DEF IInv, Subscribed
<1>5. \A v \in Users : Copied(v) => Copied(v)'
  BY DEF Copied, Noted
<1>6. copy.rcpt \in Users \cup {NoUser} /\ NoUser \notin Users
  BY BroadcastAssumption DEF IInv, TypeOK, CopyType
<1>7. Marked'
  <2>1. \A v \in Users : child'[v].pc \in {"link", "queue", "unlock"} => "copy" \in fault'[v]
    BY DEF IInv, Marked, Noted
  <2>2. \A v \in Users : "copy" \in fault'[v] =>
          child'[v].pc \in {"link", "queue", "unlock", "zombie", "reaped"}
    BY DEF IInv, Marked, Noted
  <2>3. (copy.rcpt # NoUser => Copied(copy.rcpt))'
    <3> PICK y : y = copy.rcpt
      OBVIOUS
    <3>1. y # NoUser => Copied(y)'
      BY <1>5, <1>6 DEF IInv, Marked
    <3>2. Copied(x)'
      BY <1>5
    <3> QED BY <3>1, <3>2
  <2>4. ASSUME NEW k \in Retriers
        PROVE  (retry[k].pc # "off" => retry[k].rcpt \in Users /\ Copied(retry[k].rcpt))'
    <3>1. CASE k = m
      <4>1. Copied(x)'
        BY <1>5
      <4> QED BY <3>1, <4>1, <1>1
    <3>2. CASE k # m
      <4> PICK y : y = retry[k].rcpt
        OBVIOUS
      <4>1. retry[k].pc # "off" => y \in Users /\ Copied(y)'
        BY <1>5 DEF IInv, Marked
      <4> QED BY <3>2, <4>1, <1>1
    <3> QED BY <3>1, <3>2
  <2> QED BY <2>1, <2>2, <2>3, <2>4 DEF Marked
<1>8. ASSUME NEW v \in Users PROVE Once(v)'
  <2>1. CASE v = x
    <3>1. Clear(x)' => Clear(x)
      BY DEF Clear, Noted
    <3> QED BY <2>1, <3>1 DEF IInv, Once
  <2>2. CASE v # x
    <3>1. "copy" \in fault'[x]
      BY DEF Copied, Noted
    <3> QED BY <2>2, <3>1 DEF Once, Clear
  <2> QED BY <2>1, <2>2
<1> QED
  BY <1>2, <1>3, <1>4, <1>7, <1>8 DEF IInv

\* What each of their steps starts from.
LEMMA RetryKnown ==
  ASSUME IInv, NEW m \in Retriers
  PROVE  /\ retry[m] \in RetryType /\ retry \in [Retriers -> RetryType]
         /\ copy \in CopyType /\ taken \in [Users -> Nat]
         /\ UNCHANGED fault => Noted
         /\ retry[m].pc # "off" => retry[m].rcpt \in Users /\ Copied(retry[m].rcpt)
         /\ copy.rcpt # NoUser => copy.rcpt \in Users /\ Copied(copy.rcpt)
BY DEF IInv, TypeOK, Marked, Noted, FaultType, CopyType

\* A step that changes neither the copy nor what is delivered.
LEMMA PauseStep ==
  ASSUME IInv, NEW m \in Retriers, NEW x \in Users, Copied(x),
         NEW q \in RetryType, retry' = [retry EXCEPT ![m] = q],
         q.pc # "off" => q.rcpt = x,
         Works(q) => Works(retry[m]),
         q.pc = "deliver" => copy.data,
         Settles(retry[m]) => Settles(q),
         UNCHANGED <<parent, child, copy, members, taken, fault>>
  PROVE  IInv'
<1>1. /\ \A k \in Retriers : k # m => retry'[k] = retry[k]
      /\ retry'[m] = q
  BY RetryKnown
<1>2. ASSUME LockOk(x), PlaceOk(x) PROVE LockOk(x)' /\ PlaceOk(x)'
  <2>1. \A k \in Retriers : Works(retry'[k]) => Works(retry[k])
    BY <1>1
  <2>2. \A k \in Retriers : Works(retry[k])' <=> Works(retry'[k])
    BY DEF Works
  <2>3. LockOk(x)'
    BY <1>2, <2>1, <2>2 DEF LockOk
  <2>4. \A k \in Retriers : Settles(retry[k]) => Settles(retry'[k])
    BY <1>1
  <2>5. \A k \in Retriers : Settles(retry[k])' <=> Settles(retry'[k])
    BY DEF Settles
  <2>6. Unserved(child[x])' <=> Unserved(child[x])
    BY DEF Unserved
  <2>7. \A k \in Retriers : retry'[k].pc = "deliver" => copy.data
    BY <1>1, <1>2 DEF PlaceOk
  <2>8. PlaceOk(x)'
    BY <1>2, <2>4, <2>5, <2>6, <2>7 DEF PlaceOk
  <2> QED BY <2>3, <2>8
<1> QED
  BY <1>2, WorkStep, RetryKnown

\* It comes to another place of the code, and does nothing else.
LEMMA MoveFact ==
  ASSUME IInv, NEW m \in Retriers, Continue(m, "deliver") \/ Continue(m, "write")
  PROVE  /\ retry'[m] \in RetryType /\ retry' = [retry EXCEPT ![m] = retry'[m]]
         /\ retry'[m].rcpt = retry[m].rcpt /\ retry'[m].sent = retry[m].sent
         /\ Continue(m, "deliver") => retry'[m].pc = "deliver"
         /\ Continue(m, "write") => retry'[m].pc = "write"
BY RetryKnown DEF Continue, RetryType

LEMMA ReadCopyStep == ASSUME IInv, NEW m \in Retriers, ReadCopy(m) PROVE IInv'
<1> DEFINE q == [Idle EXCEPT !.pc = "read", !.rcpt = copy.rcpt]
<1>1. /\ retry[m].pc = "off" /\ copy.rcpt # NoUser
      /\ retry' = [retry EXCEPT ![m] = q]
      /\ UNCHANGED <<parent, child, copy, members, taken, fault>>
  BY DEF ReadCopy, remote
<1>2. copy.rcpt \in Users /\ Copied(copy.rcpt)
  BY <1>1, RetryKnown
<1>3. q \in RetryType /\ q.pc = "read" /\ q.rcpt = copy.rcpt
  BY <1>2 DEF Idle, RetryType
<1> HIDE DEF q
<1>4. ~Works(q) /\ ~Settles(retry[m])
  BY <1>1, <1>3 DEF Works, Settles
<1> QED BY <1>1, <1>2, <1>3, <1>4, PauseStep

LEMMA PassOverStep == ASSUME IInv, NEW m \in Retriers, PassOver(m) PROVE IInv'
<1>1. /\ retry[m].pc = "read" /\ retry' = [retry EXCEPT ![m] = Idle]
      /\ UNCHANGED <<parent, child, copy, members, taken, fault>>
  BY DEF PassOver, remote
<1>2. retry[m].rcpt \in Users /\ Copied(retry[m].rcpt)
  BY <1>1, RetryKnown
<1>3. Idle \in RetryType /\ Idle.pc = "off" /\ ~Works(Idle)
  BY DEF Idle, RetryType, Works
<1>4. ~Settles(retry[m])
  BY <1>1 DEF Settles
<1> QED BY <1>1, <1>2, <1>3, <1>4, PauseStep

LEMMA OpenCopyStep == ASSUME IInv, NEW m \in Retriers, OpenCopy(m) PROVE IInv'
<1>1. /\ retry[m].pc = "taken" /\ copy.data /\ Continue(m, "deliver")
      /\ UNCHANGED <<parent, child, copy, members, taken, fault>>
  BY DEF OpenCopy, remote
<1>2. retry[m].rcpt \in Users /\ Copied(retry[m].rcpt)
  BY <1>1, RetryKnown
<1>3. Works(retry[m]) /\ ~Settles(retry[m])
  BY <1>1 DEF Works, Settles
<1> QED BY <1>1, <1>2, <1>3, MoveFact, PauseStep

LEMMA PutOffStep == ASSUME IInv, NEW m \in Retriers, PutOff(m) PROVE IInv'
<1>1. /\ retry[m].pc \in {"taken", "deliver"} /\ Continue(m, "write")
      /\ UNCHANGED <<parent, child, copy, members, taken, fault>>
  BY DEF PutOff, remote
<1>2. retry[m].rcpt \in Users /\ Copied(retry[m].rcpt)
  BY <1>1, RetryKnown
<1>3. Works(retry[m]) /\ ~Settles(retry[m])
  BY <1>1 DEF Works, Settles
<1> QED BY <1>1, <1>2, <1>3, MoveFact, PauseStep

\* Nobody works on a copy that is not locked.
LEMMA TakeCopyStep == ASSUME IInv, NEW m \in Retriers, TakeCopy(m) PROVE IInv'
<1> PICK x : x = retry[m].rcpt
  OBVIOUS
<1> DEFINE q == [retry[m] EXCEPT !.pc = "taken"]
<1>1. /\ retry[m].pc = "read" /\ ~copy.locked /\ copy' = [copy EXCEPT !.locked = TRUE]
      /\ retry' = [retry EXCEPT ![m] = q]
      /\ UNCHANGED <<parent, child, members, taken, fault>>
  BY RetryKnown DEF TakeCopy, remote, Continue
<1>2. x \in Users /\ Copied(x)
  BY <1>1, RetryKnown
<1>3. q \in RetryType /\ q.pc = "taken" /\ q.rcpt = x
  BY RetryKnown DEF RetryType
<1>4. copy' \in CopyType /\ copy'.locked /\ copy'.data = copy.data /\ copy'.rcpt = copy.rcpt
  BY <1>1, RetryKnown DEF CopyType
<1> HIDE DEF q
<1>5. /\ \A k \in Retriers : k # m => retry'[k] = retry[k]
      /\ retry'[m] = q
  BY <1>1, RetryKnown
<1>6. ASSUME LockOk(x), PlaceOk(x) PROVE LockOk(x)' /\ PlaceOk(x)'
  <2>1. \A k \in Retriers : ~Works(retry[k])
    BY <1>1, <1>6 DEF LockOk
  <2>2. child[x].pc \notin {"link", "queue", "unlock"}
    BY <1>1, <1>6 DEF LockOk
  <2>3. \A k \in Retriers : Works(retry[k])' <=> Works(retry'[k])
    BY DEF Works
  <2>4. LockOk(x)'
    BY <1>1, <1>4, <1>5, <2>1, <2>2, <2>3 DEF LockOk
  <2>5. ~Settles(q)
    BY <1>3 DEF Settles
  <2>6. \A k \in Retriers : Settles(retry[k])' <=> Settles(retry'[k])
    BY DEF Settles
  <2>7. \A k \in Retriers : ~Settles(retry[k])
    BY <2>1 DEF Works, Settles
  <2>8. "copy" \in fault'[x] /\ ~Unserved(child'[x]) /\ (Unserved(child[x])' <=> Unserved(child'[x]))
    BY <1>1, <1>2 DEF Copied, Unserved
  <2>9. \A k \in Retriers : retry'[k].pc # "deliver"
    <3>1. \A k \in Retriers : retry[k].pc # "deliver"
      BY <2>1 DEF Works
    <3> QED BY <3>1, <1>3, <1>5
  <2>10. PlaceOk(x)'
    BY <1>1, <1>4, <1>6, <2>7, <2>8, <2>9 DEF PlaceOk
  <2> QED BY <2>4, <2>10
<1> QED BY <1>1, <1>2, <1>3, <1>4, <1>6, WorkStep, RetryKnown

\* Whoever delivers is alone, and the copy was not delivered before.
LEMMA DeliverCopyStep == ASSUME IInv, NEW m \in Retriers, DeliverCopy(m) PROVE IInv'
<1> PICK x : x = retry[m].rcpt
  OBVIOUS
<1>1. /\ retry[m].pc = "deliver" /\ taken' = [taken EXCEPT ![x] = @ + 1]
      /\ UNCHANGED <<parent, child, copy, members>>
      /\ \/ retry' = [retry EXCEPT ![m].pc = "write", ![m].sent = TRUE] /\ UNCHANGED fault
         \/ Continue(m, "write") /\ Meets(x, "answer lost")
  BY DEF DeliverCopy
<1>2. x \in Users /\ Copied(x)
  BY <1>1, RetryKnown
<1>3. taken' \in [Users -> Nat] /\ (taken[x] = 0 => taken'[x] = 1)
  BY <1>1, <1>2, TakenFact
<1>4. copy' \in CopyType /\ copy'.rcpt = copy.rcpt
  BY <1>1, RetryKnown
<1>5. CASE Continue(m, "write") /\ Meets(x, "answer lost")
  <2>1. Noted
    BY <1>2, <1>5, MeetsFact DEF AllFaults
  <2>2. ~Clear(x)'
    BY <1>2, <1>5, Known DEF Clear, Meets, FaultType
  <2>3. retry'[m] \in RetryType /\ retry' = [retry EXCEPT ![m] = retry'[m]] /\ retry'[m].rcpt = x
    BY <1>5, MoveFact
  <2> QED BY <1>1, <1>2, <1>3, <1>4, <2>1, <2>2, <2>3, WorkStep
<1>6. CASE retry' = [retry EXCEPT ![m].pc = "write", ![m].sent = TRUE] /\ UNCHANGED fault
  <2> DEFINE q == [retry[m] EXCEPT !.pc = "write", !.sent = TRUE]
  <2>1. retry' = [retry EXCEPT ![m] = q]
    BY <1>6, RetryKnown
  <2>2. q \in RetryType /\ q.pc = "write" /\ q.sent /\ q.rcpt = x
    BY RetryKnown DEF RetryType
  <2> HIDE DEF q
  <2>3. /\ \A k \in Retriers : k # m => retry'[k] = retry[k]
        /\ retry'[m] = q
    BY <2>1, RetryKnown
  <2>4. Works(q) /\ Settles(q) /\ Works(retry[m]) /\ ~Settles(retry[m])
    BY <1>1, <2>2 DEF Works, Settles
  <2>5. ASSUME LockOk(x), PlaceOk(x) PROVE LockOk(x)' /\ PlaceOk(x)'
    <3>1. \A k \in Retriers : Works(retry'[k]) => Works(retry[k])
      BY <2>3, <2>4
    <3>2. \A k \in Retriers : Works(retry[k])' <=> Works(retry'[k])
      BY DEF Works
    <3>3. LockOk(x)'
      BY <1>1, <2>5, <3>1, <3>2 DEF LockOk
    <3>4. \A k \in Retriers : ~Settles(retry[k])
      BY <2>4, <2>5 DEF LockOk, Works, Settles
    <3>5. taken[x] = 0 /\ taken'[x] = 1
      BY <1>1, <1>3, <2>5, <3>4 DEF PlaceOk
    <3>6. taken'[x] <= 1
      BY <3>5, AtMostOne
    <3>7. (Settles(retry[m]))'
      BY <2>3, <2>4 DEF Settles
    <3>8. "copy" \in fault'[x] /\ ~Unserved(child'[x]) /\ (Unserved(child[x])' <=> Unserved(child'[x]))
      BY <1>1, <1>2, <1>6 DEF Copied, Unserved
    <3>9. \A k \in Retriers : retry'[k].pc = "deliver" => copy'.data
      BY <1>1, <2>2, <2>3, <2>5 DEF PlaceOk
    <3>10. child'[x].pc = "link" => ~copy'.data
      BY <1>1, <2>5 DEF PlaceOk
    <3>11. PlaceOk(x)'
      BY <3>6, <3>7, <3>8, <3>9, <3>10 DEF PlaceOk
    <3> QED BY <3>3, <3>11
  <2>6. Noted
    BY <1>6, RetryKnown
  <2>7. UNCHANGED <<parent, child, members>>
    BY <1>1
  <2> QED BY <1>2, <1>3, <1>4, <2>1, <2>2, <2>5, <2>6, <2>7, WorkStep
<1> QED BY <1>1, <1>5, <1>6

\* Writing and moving: only a copy that was delivered, or is gone, leaves the spool.
LEMMA WriteCopyStep == ASSUME IInv, NEW m \in Retriers, WriteCopy(m) PROVE IInv'
<1> PICK x : x = retry[m].rcpt
  OBVIOUS
<1> DEFINE to == IF retry[m].sent THEN "mvdata" ELSE "unlock"
           q == [retry[m] EXCEPT !.pc = to]
<1>1. /\ retry[m].pc = "write" /\ copy' = [copy EXCEPT !.rcpt = x]
      /\ retry' = [retry EXCEPT ![m] = q]
      /\ UNCHANGED <<parent, child, members, taken, fault>>
  BY RetryKnown DEF WriteCopy, remote, Continue
<1>2. x \in Users /\ Copied(x)
  BY <1>1, RetryKnown
<1>3. /\ q \in RetryType /\ q.rcpt = x /\ q.sent = retry[m].sent
      /\ q.pc \in {"mvdata", "unlock"} /\ (q.sent => q.pc = "mvdata")
  BY RetryKnown DEF RetryType
<1>4. /\ copy' \in CopyType /\ copy'.locked = copy.locked /\ copy'.data = copy.data
      /\ copy'.rcpt = x
  BY <1>1, <1>2, RetryKnown DEF CopyType
<1> HIDE DEF q, to
<1>5. /\ \A k \in Retriers : k # m => retry'[k] = retry[k]
      /\ retry'[m] = q
  BY <1>1, RetryKnown
<1>6. Works(q) /\ Works(retry[m]) /\ (Settles(retry[m]) => Settles(q))
  BY <1>1, <1>3 DEF Works, Settles
<1>7. ASSUME LockOk(x), PlaceOk(x) PROVE LockOk(x)' /\ PlaceOk(x)'
  <2>1. \A k \in Retriers : /\ Works(retry'[k]) => Works(retry[k])
                            /\ Works(retry[k])' <=> Works(retry'[k])
    BY <1>5, <1>6 DEF Works
  <2>2. LockOk(x)'
    BY <1>1, <1>4, <1>7, <2>1 DEF LockOk
  <2>3. \A k \in Retriers : /\ Settles(retry[k]) => Settles(retry'[k])
                            /\ Settles(retry[k])' <=> Settles(retry'[k])
    BY <1>5, <1>6 DEF Settles
  <2>4. "copy" \in fault'[x] /\ (Unserved(child[x])' <=> Unserved(child[x]))
    BY <1>1, <1>2 DEF Copied, Unserved
  <2>5. \A k \in Retriers : retry'[k].pc = "deliver" => copy'.data
    BY <1>3, <1>4, <1>5, <1>7 DEF PlaceOk
  <2>6. PlaceOk(x)'
    BY <1>1, <1>4, <1>7, <2>3, <2>4, <2>5 DEF PlaceOk
  <2> QED BY <2>2, <2>6
<1> QED BY <1>1, <1>2, <1>3, <1>4, <1>7, WorkStep, RetryKnown

LEMMA MoveCopyDataStep == ASSUME IInv, NEW m \in Retriers, MoveCopyData(m) PROVE IInv'
<1> PICK x : x = retry[m].rcpt
  OBVIOUS
<1> DEFINE to == IF copy.data THEN "mvconf" ELSE "unlock"
           q == [retry[m] EXCEPT !.pc = to]
<1>1. /\ retry[m].pc = "mvdata" /\ copy' = [copy EXCEPT !.data = FALSE]
      /\ retry' = [retry EXCEPT ![m] = q]
      /\ UNCHANGED <<parent, child, members, taken, fault>>
  BY RetryKnown DEF MoveCopyData, remote, Continue
<1>2. x \in Users /\ Copied(x)
  BY <1>1, RetryKnown
<1>3. q \in RetryType /\ q.rcpt = x /\ q.pc \in {"mvconf", "unlock"}
  BY RetryKnown DEF RetryType
<1>4. /\ copy' \in CopyType /\ copy'.locked = copy.locked /\ ~copy'.data
      /\ copy'.rcpt = copy.rcpt
  BY <1>1, RetryKnown DEF CopyType
<1> HIDE DEF q, to
<1>5. /\ \A k \in Retriers : k # m => retry'[k] = retry[k]
      /\ retry'[m] = q
  BY <1>1, RetryKnown
<1>6. Works(q) /\ Works(retry[m])
  BY <1>1, <1>3 DEF Works
<1>7. ASSUME LockOk(x), PlaceOk(x) PROVE LockOk(x)' /\ PlaceOk(x)'
  <2>1. \A k \in Retriers : /\ Works(retry'[k]) => Works(retry[k])
                            /\ Works(retry[k])' <=> Works(retry'[k])
    BY <1>5, <1>6 DEF Works
  <2>2. LockOk(x)'
    BY <1>1, <1>4, <1>7, <2>1 DEF LockOk
  <2>3. "copy" \in fault'[x] /\ (Unserved(child[x])' <=> Unserved(child[x]))
    BY <1>1, <1>2 DEF Copied, Unserved
  <2>4. \A k \in Retriers : retry'[k].pc # "deliver"
    <3>1. \A k \in Retriers : k # m => retry[k].pc # "deliver"
      BY <1>6, <1>7 DEF LockOk, Works
    <3> QED BY <3>1, <1>3, <1>5
  <2>5. PlaceOk(x)'
    BY <1>1, <1>4, <1>7, <2>3, <2>4 DEF PlaceOk
  <2> QED BY <2>2, <2>5
<1> QED BY <1>1, <1>2, <1>3, <1>4, <1>7, WorkStep, RetryKnown

LEMMA MoveCopyConfStep == ASSUME IInv, NEW m \in Retriers, MoveCopyConf(m) PROVE IInv'
<1> PICK x : x = retry[m].rcpt
  OBVIOUS
<1> DEFINE q == [retry[m] EXCEPT !.pc = "unlock"]
<1>1. /\ retry[m].pc = "mvconf" /\ copy' = [copy EXCEPT !.rcpt = NoUser]
      /\ retry' = [retry EXCEPT ![m] = q]
      /\ UNCHANGED <<parent, child, members, taken, fault>>
  BY RetryKnown DEF MoveCopyConf, remote, Continue
<1>2. x \in Users /\ Copied(x)
  BY <1>1, RetryKnown
<1>3. q \in RetryType /\ q.rcpt = x /\ q.pc = "unlock"
  BY RetryKnown DEF RetryType
<1>4. /\ copy' \in CopyType /\ copy'.locked = copy.locked /\ copy'.data = copy.data
      /\ copy'.rcpt = NoUser
  BY <1>1, RetryKnown DEF CopyType
<1> HIDE DEF q
<1>5. /\ \A k \in Retriers : k # m => retry'[k] = retry[k]
      /\ retry'[m] = q
  BY <1>1, RetryKnown
<1>6. Works(q) /\ Works(retry[m]) /\ ~Settles(retry[m])
  BY <1>1, <1>3 DEF Works, Settles
<1>7. ASSUME LockOk(x), PlaceOk(x) PROVE LockOk(x)' /\ PlaceOk(x)'
  <2>1. \A k \in Retriers : /\ Works(retry'[k]) => Works(retry[k])
                            /\ Works(retry[k])' <=> Works(retry'[k])
    BY <1>5, <1>6 DEF Works
  <2>2. LockOk(x)'
    BY <1>1, <1>4, <1>7, <2>1 DEF LockOk
  <2>3. \A k \in Retriers : /\ Settles(retry[k]) => Settles(retry'[k])
                            /\ Settles(retry[k])' <=> Settles(retry'[k])
    BY <1>5, <1>6 DEF Settles
  <2>4. "copy" \in fault'[x] /\ (Unserved(child[x])' <=> Unserved(child[x]))
    BY <1>1, <1>2 DEF Copied, Unserved
  <2>5. \A k \in Retriers : retry'[k].pc = "deliver" => copy'.data
    BY <1>3, <1>4, <1>5, <1>7 DEF PlaceOk
  <2>6. PlaceOk(x)'
    BY <1>1, <1>4, <1>7, <2>3, <2>4, <2>5 DEF PlaceOk
  <2> QED BY <2>2, <2>6
<1> QED BY <1>1, <1>2, <1>3, <1>4, <1>7, WorkStep, RetryKnown

\* Whoever releases the copy is the one who had it.
LEMMA ReleaseCopyStep == ASSUME IInv, NEW m \in Retriers, ReleaseCopy(m) PROVE IInv'
<1> PICK x : x = retry[m].rcpt
  OBVIOUS
<1>1. /\ retry[m].pc = "unlock" /\ copy' = [copy EXCEPT !.locked = FALSE]
      /\ retry' = [retry EXCEPT ![m] = Idle]
      /\ UNCHANGED <<parent, child, members, taken, fault>>
  BY DEF ReleaseCopy, remote
<1>2. x \in Users /\ Copied(x)
  BY <1>1, RetryKnown
<1>3. Idle \in RetryType /\ Idle.pc = "off" /\ ~Works(Idle) /\ ~Settles(Idle)
  BY DEF Idle, RetryType, Works, Settles
<1>4. copy' \in CopyType /\ copy'.data = copy.data /\ copy'.rcpt = copy.rcpt
  BY <1>1, RetryKnown DEF CopyType
<1>5. /\ \A k \in Retriers : k # m => retry'[k] = retry[k]
      /\ retry'[m] = Idle
  BY <1>1, RetryKnown
<1>6. Works(retry[m]) /\ ~Settles(retry[m])
  BY <1>1 DEF Works, Settles
<1>7. ASSUME LockOk(x), PlaceOk(x) PROVE LockOk(x)' /\ PlaceOk(x)'
  <2>1. \A k \in Retriers : ~Works(retry'[k]) /\ (Works(retry[k])' <=> Works(retry'[k]))
    BY <1>3, <1>5, <1>6, <1>7 DEF LockOk, Works
  <2>2. child[x].pc \notin {"link", "queue", "unlock"}
    BY <1>6, <1>7 DEF LockOk
  <2>3. LockOk(x)'
    BY <1>1, <2>1, <2>2 DEF LockOk
  <2>4. \A k \in Retriers : /\ Settles(retry[k]) => Settles(retry'[k])
                            /\ Settles(retry[k])' <=> Settles(retry'[k])
    BY <1>5, <1>6 DEF Settles
  <2>5. "copy" \in fault'[x] /\ (Unserved(child[x])' <=> Unserved(child[x]))
    BY <1>1, <1>2 DEF Copied, Unserved
  <2>6. \A k \in Retriers : retry'[k].pc = "deliver" => copy'.data
    BY <1>3, <1>4, <1>5, <1>7 DEF PlaceOk
  <2>7. PlaceOk(x)'
    BY <1>1, <1>4, <1>7, <2>4, <2>5, <2>6 DEF PlaceOk
  <2> QED BY <2>3, <2>7
<1> QED BY <1>1, <1>2, <1>3, <1>4, <1>7, WorkStep, RetryKnown

LEMMA RetryStep == ASSUME IInv, NEW m \in Retriers, Retry(m) PROVE IInv'
BY ReadCopyStep, PassOverStep, TakeCopyStep, OpenCopyStep, PutOffStep, DeliverCopyStep,
   WriteCopyStep, MoveCopyDataStep, MoveCopyConfStep, ReleaseCopyStep DEF Retry

-----------------------------------------------------------------------------
(* The steps of the manager                                                *)

\* Nothing that belongs to a transmitter changes.
LEMMA ParentOnly ==
  ASSUME IInv, UNCHANGED <<child, copy, members, taken, retry>>, Noted
  PROVE  Subscribed' /\ Marked' /\ \A v \in Users : Once(v)'
<1>1. Subscribed'
  BY DEF IInv, Subscribed
<1>2. Marked'
  BY StillMarked
<1>3. ASSUME NEW v \in Users PROVE Once(v)'
  BY StillOnce DEF IInv
<1> QED BY <1>1, <1>2, <1>3

LEMMA NothingNoted == ASSUME IInv, UNCHANGED fault PROVE Noted
BY DEF IInv, TypeOK, Noted, FaultType

LEMMA SkipSenderStep == ASSUME IInv, SkipSender PROVE IInv'
<1>1. TypeOK'
  BY DEF IInv, TypeOK, SkipSender, remote
<1>2. Forked'
  BY DEF IInv, Forked, TasksAreChildren, Kids, Alive, Zombies, SkipSender
<1>3. Subscribed' /\ Marked' /\ \A v \in Users : Once(v)'
  BY ParentOnly, NothingNoted DEF SkipSender, remote
<1> QED
  BY <1>1, <1>2, <1>3 DEF IInv

\* The user at hand was not forked for, so it joins the children.
LEMMA ForkStep == ASSUME IInv, NEW u \in Users, Fork(u) PROVE IInv'
<1>1. /\ pc = "users" /\ u \in todo /\ todo' = todo \ {u} /\ pc' = "add" /\ cur' = u
      /\ blocked' = TRUE /\ child' = [child EXCEPT ![u] = NewChild]
      /\ UNCHANGED <<set, tasks, success, forkfails, copy, members, taken, fault, retry>>
  BY DEF Fork, Turn, remote
<1>2. child[u].pc = "none"
  BY <1>1 DEF IInv, Forked
<1>3. NewChild.pc = "resolve" /\ NewChild.unknown = FALSE
  BY DEF NewChild, NoChild
<1>4. /\ \A v \in Users : v # u => child'[v] = child[v]
      /\ child'[u] = NewChild /\ child' \in [Users -> ChildType]
  BY <1>1, Known, Records
<1>5. TypeOK'
  BY <1>1, <1>4 DEF IInv, TypeOK
<1>6. u \notin Kids /\ Kids' = Kids \cup {u}
  BY <1>2, <1>3, <1>4 DEF Kids, Alive, Zombies, Running, Dialogue, Cloning
<1>7. TasksAreChildren'
  <2>1. tasks = Kids
    BY <1>1 DEF IInv, Forked, TasksAreChildren, Kids
  <2>2. tasks' = Kids' \ {cur'}
    BY <1>1, <1>6, <2>1
  <2> QED
    BY <1>1, <2>2 DEF TasksAreChildren, Kids
<1>8. Forked'
  BY <1>1, <1>4, <1>6, <1>7 DEF IInv, Forked, TypeOK
<1>9. child[u].unknown = FALSE
  BY <1>2, Known DEF IInv, Subscribed, ChildType
<1>10. Subscribed'
  BY <1>1, <1>3, <1>4, <1>9 DEF IInv, Subscribed, Cloning
<1>11. Noted
  BY <1>1, NothingNoted
<1>12. Marked'
  BY <1>1, <1>2, <1>3, <1>4, <1>11, StillMarked
<1>13. ASSUME NEW v \in Users PROVE Once(v)'
  <2>1. CASE v = u
    <3>1. Unserved(child[u])
      BY <1>2 DEF Unserved
    <3> QED BY <2>1, <3>1, <1>1, <1>3, <1>4, <1>11, StillOnce DEF IInv
  <2>2. CASE v # u
    BY <2>2, <1>1, <1>4, <1>11, StillOnce DEF IInv
  <2> QED BY <2>1, <2>2
<1> QED
  BY <1>5, <1>8, <1>10, <1>12, <1>13 DEF IInv

LEMMA ForkFailsStep == ASSUME IInv, NEW u \in Users, ForkFails(u) PROVE IInv'
<1>1. /\ pc = "users" /\ todo' = todo \ {u} /\ blocked' = TRUE
      /\ forkfails < MaxForkFails /\ forkfails' = forkfails + 1
      /\ fault' = [fault EXCEPT ![u] = @ \cup {"fork"}]
      /\ UNCHANGED <<set, pc, cur, tasks, success, child, copy, members, taken, retry>>
  BY DEF ForkFails, Turn, remote
<1>2. Noted
  BY <1>1, Known DEF Noted, FaultType
<1>3. forkfails' \in 0..MaxForkFails
  BY <1>1, BroadcastAssumption DEF IInv, TypeOK
<1>4. TypeOK'
  BY <1>1, <1>2, <1>3 DEF IInv, TypeOK, Noted, FaultType
<1>5. Forked'
  BY <1>1 DEF IInv, Forked, TasksAreChildren, Kids, Alive, Zombies
<1>6. Subscribed' /\ Marked' /\ \A v \in Users : Once(v)'
  BY <1>1, <1>2, ParentOnly
<1> QED
  BY <1>4, <1>5, <1>6 DEF IInv

\* The child that was just forked is still there, since SIGCHLD was blocked.
LEMMA AddTaskStep == ASSUME IInv, AddTask PROVE IInv'
<1>1. /\ pc = "add" /\ tasks' = tasks \cup {cur} /\ pc' = "users" /\ cur' = NoUser
      /\ blocked' = FALSE
      /\ UNCHANGED <<set, todo, success, forkfails, child, copy, members, taken, fault, retry>>
  BY DEF AddTask, remote
<1>2. cur \in Kids /\ cur \in Users /\ tasks = Kids \ {cur}
  BY <1>1 DEF IInv, Forked, TasksAreChildren, Kids
<1>3. TypeOK'
  BY <1>1, <1>2 DEF IInv, TypeOK
<1>4. Kids' = Kids /\ tasks' = Kids
  BY <1>1, <1>2 DEF Kids, Alive, Zombies
<1>5. TasksAreChildren'
  BY <1>1, <1>4 DEF TasksAreChildren, Kids
<1>6. Forked'
  BY <1>1, <1>5 DEF IInv, Forked
<1>7. Subscribed' /\ Marked' /\ \A v \in Users : Once(v)'
  BY <1>1, ParentOnly, NothingNoted
<1> QED
  BY <1>3, <1>6, <1>7 DEF IInv

LEMMA WaitingStep == ASSUME IInv, UsersDone \/ WaitDone PROVE IInv'
<1>1. /\ pc # "add" /\ pc' \in {"wait", "done"}
      /\ UNCHANGED <<set, todo, cur, blocked, tasks, success, forkfails, child, copy,
                     members, taken, fault, retry>>
  BY DEF UsersDone, WaitDone, remote
<1>2. TypeOK'
  BY <1>1 DEF IInv, TypeOK
<1>3. Forked'
  BY <1>1 DEF IInv, Forked, TasksAreChildren, Kids, Alive, Zombies
<1>4. Subscribed' /\ Marked' /\ \A v \in Users : Once(v)'
  BY <1>1, ParentOnly, NothingNoted
<1> QED
  BY <1>2, <1>3, <1>4 DEF IInv

\* Children change, but for the mails they have to do with.
LEMMA ChildrenOnly ==
  ASSUME IInv, child' \in [Users -> ChildType],
         \A v \in Users : \/ child'[v] = child[v]
                           \/ /\ child[v].pc \in {"stalled", "zombie"}
                              /\ child'[v].pc \in {"zombie", "reaped"}
                              /\ child'[v].unknown = child[v].unknown,
         UNCHANGED <<copy, members, taken, fault, retry>>
  PROVE  Subscribed' /\ Marked' /\ \A v \in Users : Once(v)'
<1>1. Noted
  BY NothingNoted
<1>2. Subscribed'
  BY DEF IInv, Subscribed, Cloning
<1>3. Marked'
  BY <1>1, StillMarked
<1>4. ASSUME NEW v \in Users PROVE Once(v)'
  <2>1. Unserved(child'[v]) => Unserved(child[v])
    BY DEF Unserved
  <2> QED
    BY <1>1, <2>1, StillOnce DEF IInv
<1> QED
  BY <1>2, <1>3, <1>4

LEMMA WaitStep == ASSUME IInv, Wait PROVE IInv'
<1>1. /\ pc = "wait" /\ blocked' = FALSE
      /\ UNCHANGED <<set, pc, todo, cur, tasks, success, forkfails, copy, members, taken, fault, retry>>
  BY DEF Wait, remote
<1> DEFINE dead(v) == [child[v] EXCEPT !.pc = "zombie", !.exit = "killed"]
<1>2. \A v \in Users : /\ dead(v) \in ChildType /\ dead(v).pc = "zombie"
                        /\ dead(v).unknown = child[v].unknown
  BY Known DEF ChildType, Exits
<1>3. child' = [v \in Users |-> IF v \in tasks /\ child[v].pc = "stalled" THEN dead(v) ELSE child[v]]
  BY DEF Wait
<1> HIDE DEF dead
<1>4. child' \in [Users -> ChildType]
  BY <1>2, <1>3, Known
<1>5. \A v \in Users :
        \/ child'[v] = child[v]
        \/ /\ child[v].pc = "stalled" /\ child'[v].pc = "zombie"
           /\ child'[v].unknown = child[v].unknown
  BY <1>2, <1>3
<1>6. TypeOK'
  BY <1>1, <1>4 DEF IInv, TypeOK
<1>7. Kids' = Kids
  BY <1>5 DEF Kids, Alive, Zombies, Running
<1>8. TasksAreChildren'
  BY <1>1, <1>7 DEF IInv, Forked, TasksAreChildren, Kids
<1>9. Forked'
  BY <1>1, <1>5, <1>8 DEF IInv, TypeOK, Forked
<1>10. Subscribed' /\ Marked' /\ \A v \in Users : Once(v)'
  BY <1>1, <1>4, <1>5, ChildrenOnly
<1> QED
  BY <1>6, <1>9, <1>10 DEF IInv

\* The children that have ended leave the list and the children alike.
LEMMA SigchldStep == ASSUME IInv, Sigchld PROVE IInv'
<1>1. /\ ~blocked /\ tasks' = tasks \ Zombies
      /\ success' = success + Cardinality({u \in Zombies : child[u].exit = "ok"})
      /\ UNCHANGED <<set, pc, todo, cur, blocked, forkfails, copy, members, taken, fault, retry>>
  BY DEF Sigchld, remote
<1> DEFINE gone(v) == [child[v] EXCEPT !.pc = "reaped"]
<1>2. \A v \in Users : /\ gone(v) \in ChildType /\ gone(v).pc = "reaped"
                        /\ gone(v).unknown = child[v].unknown
  BY Known DEF ChildType
<1>3. child' = [v \in Users |-> IF v \in Zombies THEN gone(v) ELSE child[v]]
  BY DEF Sigchld
<1> HIDE DEF gone
<1>4. child' \in [Users -> ChildType]
  BY <1>2, <1>3, Known
<1>5. \A v \in Users :
        IF v \in Zombies THEN child'[v].pc = "reaped" /\ child'[v].unknown = child[v].unknown
        ELSE child'[v] = child[v]
  BY <1>2, <1>3
<1>6. success' \in Nat
  <2>1. IsFiniteSet({u \in Zombies : child[u].exit = "ok"})
    BY BroadcastAssumption, FS_Subset DEF Zombies
  <2>2. Cardinality({u \in Zombies : child[u].exit = "ok"}) \in Nat
    BY <2>1, FS_CardinalityType
  <2> QED
    BY <1>1, <2>2 DEF IInv, TypeOK
<1>7. TypeOK'
  BY <1>1, <1>4, <1>6 DEF IInv, TypeOK
<1>8. pc # "add"
  BY <1>1 DEF IInv, Forked
<1>9. Kids' = Kids \ Zombies
  BY <1>5 DEF Kids, Alive, Zombies, Running, Dialogue, Cloning
<1>10. TasksAreChildren'
  BY <1>1, <1>8, <1>9 DEF IInv, Forked, TasksAreChildren, Kids
<1>11. Forked'
  BY <1>1, <1>5, <1>8, <1>10 DEF IInv, TypeOK, Forked, Zombies
<1>12. Subscribed' /\ Marked' /\ \A v \in Users : Once(v)'
  BY <1>1, <1>4, <1>5, ChildrenOnly DEF Zombies
<1> QED
  BY <1>7, <1>11, <1>12 DEF IInv

-----------------------------------------------------------------------------
LEMMA TransmitterStep == ASSUME IInv, NEW u \in Users, Transmitter(u) PROVE IInv'
BY ResolveStep, UnresolvableStep, ConnectStep, AgreedStep, RefusedStep, UnknownUserStep,
   ResetStep, SentStep, AnswerLostStep, QuitStep, ClosedStep, LockCopyStep, LinkCopyStep,
   QueueCopyStep, UnlockCopyStep DEF Transmitter

LEMMA ManagerStep == ASSUME IInv, Manager PROVE IInv'
BY SkipSenderStep, AddTaskStep, WaitingStep, WaitStep, ForkStep, ForkFailsStep DEF Manager

LEMMA NextIInv == IInv /\ [Next]_vars => IInv'
<1> SUFFICES ASSUME IInv, [Next]_vars PROVE IInv'
  OBVIOUS
<1>1. CASE Manager
  BY <1>1, ManagerStep
<1>2. CASE Sigchld \/ \E m \in Retriers : Retry(m)
  BY <1>2, SigchldStep, RetryStep
<1>3. CASE \E u \in Users : Transmitter(u) \/ Stall(u)
  BY <1>3, TransmitterStep, StallStep
<1>4. CASE UNCHANGED vars
  <2>1. UNCHANGED <<set, pc, todo, cur, blocked, tasks, success, forkfails, child, copy,
                    members, taken, fault, retry>>
    BY <1>4 DEF vars, parent, remote
  <2>2. TypeOK' /\ Forked'
    BY <2>1 DEF IInv, TypeOK, Forked, TasksAreChildren, Kids, Alive, Zombies
  <2> QED
    BY <2>1, <2>2, ParentOnly, NothingNoted DEF IInv
<1> QED
  BY <1>1, <1>2, <1>3, <1>4 DEF Next

THEOREM Inductive == Spec => []IInv
BY InitIInv, NextIInv, PTL DEF Spec

\* The variables have their types.
THEOREM Typing == Spec => []TypeOK
<1>1. IInv => TypeOK
  BY DEF IInv
<1> QED
  BY <1>1, Inductive, PTL

\* The task list of a broadcast holds the transmitters that were not waited for, for
\* any number of users and of transmitters, with forks that fail.
THEOREM TasksAreChildrenHolds == Spec => []TasksAreChildren
<1>1. IInv => TasksAreChildren
  BY DEF IInv, Forked
<1> QED
  BY <1>1, Inductive, PTL

\* Nobody gets the mail of a broadcast twice, whoever delivers the copy, unless an answer
\* was lost or the copy of another user has the same name.
THEOREM NoDuplicateHolds == Spec => []NoDuplicate
<1>1. IInv => NoDuplicate
  <2>1. ASSUME IInv, NEW u \in Users, Clear(u)
        PROVE  ~(taken[u] > 1)
    <3>1. taken[u] \in Nat
      BY <2>1 DEF IInv, TypeOK
    <3>2. taken[u] <= 1
      BY <2>1 DEF IInv, Once, PlaceOk
    <3> QED
      BY <3>1, <3>2
  <2> QED
    BY <2>1 DEF NoDuplicate, Clear
<1> QED
  BY <1>1, Inductive, PTL

\* A copy is never for somebody who was just taken off the list.
THEOREM UnsubscribedGetsNothingHolds == Spec => []UnsubscribedGetsNothing
<1>1. IInv => UnsubscribedGetsNothing
  BY DEF IInv, Subscribed, Marked, Copied, UnsubscribedGetsNothing, TypeOK, CopyType
<1> QED
  BY <1>1, Inductive, PTL
=============================================================================
