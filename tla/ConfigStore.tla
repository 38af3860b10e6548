---------------------------- MODULE ConfigStore ----------------------------
(***************************************************************************)
(* The config of the server or of a list, in memory and in its storage.     *)
(* The scheduler reads it when it starts and at SIGHUP (Scheduler::init,     *)
(* MailingList::initConfig); a receiver the administrator talks to has the   *)
(* copy the scheduler had when it was forked, changes that (LADD config,     *)
(* LDEL config) and writes all of it back (Config::write).                   *)
(*                                                                         *)
(* A file is truncated when it is opened and gets its lines when it is       *)
(* closed, since they fit one buffer; what two processes write begins at the *)
(* same place, and lines are of one length.  In the table all rows of the    *)
(* config are deleted by one statement and inserted one by one, without a    *)
(* transaction.  Reading is one step: one buffer, or one select.             *)
(*                                                                         *)
(* A value is not always read back as it was written: in a file it ends at a *)
(* quote, and one that is empty then or too long ends the process that reads *)
(* it; in the table one that is too long is skipped.  The storage here has   *)
(* what is read of it.                                                     *)
(***************************************************************************)
EXTENDS Naturals, Sequences, FiniteSets, SequencesExt

CONSTANTS
  Admins,       \* receivers that serve the administrator
  Sched,        \* the scheduler
  Kinds,        \* which configs to look at
  Keys,         \* the known keys of each kind, see IsKey
  Given,        \* values each kind is protected with (CONF_PROT)
  Passing,      \* keys of these that are for this run only (CONF_PROTTEMP: -d, -c, -q)
  Home,         \* the key that says where each config is written, and this storage
  Reads,        \* what a value of each kind is read back as; NoValue when it is refused
  Initial,      \* what the storage of each kind may hold at first
  Edits,        \* what the administrator may ask for, see IsEdit
  MaxFaults     \* bound: processes that die while they write

Procs == Admins \cup {Sched}

\* "main" is limez.config; the others are configs of lists.
AllKinds == {"main", "list file", "list table"}

NoValue == ""
IsKey(k) ==
  /\ k.name \in STRING /\ k.default \in STRING
  /\ {k.mult, k.mand, k.temp} \subseteq BOOLEAN
IsEdit(e) == e \in [op : {"add", "del"}, key : STRING, val : STRING]

\* The keys of a kind, by name.
Names(k)  == {x.name : x \in Keys[k]}
Key(k, n) == CHOOSE x \in Keys[k] : x.name = n

Texts == {NoValue} \cup UNION {{Home[k].val} \cup {g.val : g \in ToSet(Given[k])} \cup {x.default : x \in Keys[k]} \cup
           {e.val : e \in Edits[k]} \cup UNION {{r.val : r \in ToSet(s)} : s \in Initial[k]} : k \in Kinds}

\* A line or a row, as it is read, and a value in memory, which is protected or not.
Row(k)   == [key : Names(k), val : {x \in Texts : Reads[k][x] = x}]
Value(k) == [key : Names(k), val : Texts, prot : BOOLEAN]

\* Config::write leaves out what is temporary by its key or by its value.
Temporary(k, n) == Key(k, n).temp \/ n \in Passing[k]

\* Keys that must have a value and have no default.
Needed(k) == {n \in Names(k) : Key(k, n).mand /\ Key(k, n).default = NoValue}

\* Keys have a name of their own.  What is read once is read so again; defaults and what
\* a config is protected with are such values, and what it is protected with was added
\* value by value.  Of the mandatory keys only the name of a list has no default, and
\* the config of a list in the table is protected with that.  No config says that it is
\* written elsewhere at first, nor has it a line of a temporary key.
ASSUME ConfigAssumption ==
  /\ Sched \notin Admins
  /\ Kinds \subseteq AllKinds
  /\ \A k \in Kinds :
       /\ IsFiniteSet(Keys[k]) /\ \A x \in Keys[k] : IsKey(x)
       /\ \A x, y \in Keys[k] : x.name = y.name => x = y
       /\ Reads[k] \in [Texts -> Texts] /\ Reads[k][NoValue] = NoValue
       /\ \A x \in Texts : Reads[k][Reads[k][x]] = Reads[k][x]
       /\ \A x \in Keys[k] : Reads[k][x.default] = x.default
       /\ Given[k] \in Seq(Row(k)) /\ \A i \in DOMAIN Given[k] : Given[k][i].val # NoValue
       /\ \A n \in Passing[k] : n \in Names(k) /\ ~Key(k, n).mult /\ \E i \in DOMAIN Given[k] : Given[k][i].key = n
       /\ \A n \in Needed(k) :
            ~Temporary(k, n) /\ (k # "list file" => \E i \in DOMAIN Given[k] : Given[k][i].key = n)
       /\ Home[k] \in Row(k) /\ Home[k].val # NoValue
       /\ ~Key(k, Home[k].key).mult /\ ~Key(k, Home[k].key).temp
       /\ \A i, j \in DOMAIN Given[k] :
            /\ Given[k][i].key = Given[k][j].key
            /\ Key(k, Given[k][i].key).mult => Given[k][i].val = Given[k][j].val
            => i = j
       /\ \A s \in Initial[k] :
            /\ s \in Seq(Row(k)) /\ \A i \in DOMAIN s : ~Key(k, s[i].key).temp
            /\ \A i \in DOMAIN s : s[i].key = Home[k].key => s[i].val = Home[k].val
       /\ \A e \in Edits[k] : IsEdit(e) /\ e.key \in Names(k)
  /\ MaxFaults \in Nat

VARIABLES
  kind,         \* which config this is
  store,        \* its lines or rows
  proc,         \* the processes, see ProcType
  faults,
  book,         \* history: what each key should be
  version,      \* history: writes that are complete
  lost,         \* history: a process wrote a copy that was out of date, or wrote it elsewhere
  spoilt,       \* history: a write was cut short, or met another one or a read, or a value
                \* was added that is not read back
  dropped       \* history: a value was deleted that each config needs

configVars == <<kind, store, proc, faults, book, version, lost, spoilt, dropped>>

\* mem is the copy of a process, made when base was the version; rows is what it
\* has still to write, and edit what that is for.
ProcType(k) ==
  [ pc   : {"off", "idle", "open", "rows"},
    mem  : Seq(Value(k)),
    rows : Seq(Row(k)),
    base : Nat,
    edit : [op : {"add", "del", "none"}, key : Names(k) \cup {NoValue}, val : Texts] ]

NoEdit == [op |-> "none", key |-> NoValue, val |-> NoValue]
Off    == [pc |-> "off", mem |-> <<>>, rows |-> <<>>, base |-> 0, edit |-> NoEdit]

At(p, pc) == proc[p].pc = pc
Writing(p) == proc[p].pc = "rows"

-----------------------------------------------------------------------------
(* The values in memory                                                    *)

\* The values of key n.
Vals(mem, n) == {v.val : v \in {w \in ToSet(mem) : w.key = n}}

\* Where key n is, or a value of it.
Places(mem, n) == {i \in DOMAIN mem : mem[i].key = n}
FirstOf(places) == CHOOSE i \in places : \A j \in places : i <= j
LastOf(places)  == CHOOSE i \in places : \A j \in places : j <= i

\* Mutant of AddValue: protection is not looked at.
AddUnprotected(k, mem, v) ==
  LET same == Places(mem, v.key) IN
    IF Key(k, v.key).mult
      THEN IF v.val \in Vals(mem, v.key) THEN mem ELSE Append(mem, v)
      ELSE IF same = {} THEN Append(mem, v) ELSE Append(RemoveAt(mem, FirstOf(same)), v)

\* Mutant of AddValue: a value gets no options.
AddBare(k, mem, v) ==
  LET same == Places(mem, v.key)
      bare == [key |-> v.key, val |-> v.val] IN
    IF same = {} THEN Append(mem, bare) ELSE Append(RemoveAt(mem, FirstOf(same)), bare)

\* Config::addValue: a key with CONF_MULT collects values, each once; the value of
\* another one is replaced, unless it is protected.  An empty value is ignored.
AddValue(k, mem, v) ==
  LET same == Places(mem, v.key) IN
    IF v.val = NoValue THEN mem
    ELSE IF Key(k, v.key).mult
      THEN IF v.val \in Vals(mem, v.key) THEN mem ELSE Append(mem, v)
    ELSE IF same = {} THEN Append(mem, v)
    ELSE IF mem[FirstOf(same)].prot THEN mem
    ELSE Append(RemoveAt(mem, FirstOf(same)), v)

\* Values that are added one by one.
Added(k, mem, vs) ==
  LET with[n \in 0..Len(vs)] == IF n = 0 THEN mem ELSE AddValue(k, with[n - 1], vs[n])
  IN with[Len(vs)]

\* Config::delValue with a value: the first such one that is not protected goes.
Deletes(mem, n, x) == {i \in Places(mem, n) : mem[i].val = x /\ ~mem[i].prot}
DelValue(mem, n, x) ==
  IF Deletes(mem, n, x) = {} THEN mem ELSE RemoveAt(mem, FirstOf(Deletes(mem, n, x)))

\* It succeeds too when the last value of the key is protected, and does nothing.
DelSucceeds(mem, n, x) ==
  \/ Deletes(mem, n, x) # {}
  \/ Places(mem, n) # {} /\ mem[LastOf(Places(mem, n))].prot

Free(r) == [key |-> r.key, val |-> r.val, prot |-> FALSE]
ReadBack(k, v) == [key |-> v.key, val |-> Reads[k][v.val]]

\* Config::clear and setDefaults, in a config that holds nothing but what it is
\* protected with, and then the rows that were read.
Cleared(k) == [i \in DOMAIN Given[k] |->
                 [key |-> Given[k][i].key, val |-> Given[k][i].val, prot |-> TRUE]]
Default(k, n) == IF Key(k, n).mand /\ Key(k, n).default # NoValue THEN {Key(k, n).default} ELSE {}
Defaults(k) ==
  SetToSeq({[key |-> x.name, val |-> x.default, prot |-> FALSE] :
              x \in {y \in Keys[k] : y.mand /\ y.default # NoValue}})

\* A list whose config is a file gets the name of that last (MailingList::initConfig).
WithHome(k, rows) == IF k = "list file" THEN Append(rows, Home[k]) ELSE rows
Load(k, rows) ==
  Added(k, Added(k, Cleared(k), Defaults(k)), [i \in DOMAIN WithHome(k, rows) |-> Free(WithHome(k, rows)[i])])

\* A line without a value ends the process that reads the file; such a row is skipped.
Exits(k, rows) == k # "list table" /\ \E i \in DOMAIN rows : rows[i].val = NoValue
Vacant(rows)   == \A i \in DOMAIN rows : rows[i].val = NoValue

\* Config::check: every mandatory key has a value.
Complete(k, mem) == \A x \in Keys[k] : x.mand => Vals(mem, x.name) # {}

\* Mutant of Rows: the walk over the values begins after the first one.
RowsWithoutFirst(k, mem) ==
  LET upto[n \in 0..Len(mem)] ==
        IF n <= 1 THEN <<>>
        ELSE IF Temporary(k, mem[n].key) THEN upto[n - 1]
        ELSE Append(upto[n - 1], ReadBack(k, mem[n]))
  IN upto[Len(mem)]

\* What Config::write puts into the storage: all but what is temporary.
Rows(k, mem) ==
  LET upto[n \in 0..Len(mem)] ==
        IF n = 0 THEN <<>>
        ELSE IF Temporary(k, mem[n].key) THEN upto[n - 1]
        ELSE Append(upto[n - 1], ReadBack(k, mem[n]))
  IN upto[Len(mem)]

-----------------------------------------------------------------------------
(* History                                                                 *)

\* What a process that reads these rows will find under each key.
Meaning(k, rows) == [n \in Names(k) |-> Vals(Load(k, rows), n)]

Protected(k, n) == ~Key(k, n).mult /\ Places(Given[k], n) # {}

\* What an edit is meant to do: a mandatory default comes back when it is deleted.
Edited(k, b, e) ==
  IF e.op = "none" \/ Key(k, e.key).temp \/ Protected(k, e.key) THEN b
  ELSE [b EXCEPT ![e.key] =
    CASE e.op = "add" -> IF Key(k, e.key).mult THEN @ \cup {e.val} ELSE {e.val}
      [] e.op = "del" ->
           LET rest == @ \ {e.val}
           IN IF Key(k, e.key).mult THEN rest \cup Default(k, e.key) \cup Vals(Given[k], e.key)
              ELSE IF rest = {} THEN Default(k, e.key) ELSE rest]

-----------------------------------------------------------------------------
(* Writing                                                                 *)

InTable == kind = "list table"

StartWrite(p, mem, e) ==
  proc' = [proc EXCEPT ![p].pc = "open", ![p].mem = mem, ![p].edit = e, ![p].rows = Rows(kind, mem)]

\* The file is truncated, or the rows are deleted.
Empty(p) ==
  /\ At(p, "open")
  /\ store' = <<>>
  /\ proc' = [proc EXCEPT ![p].pc = "rows"]
  /\ spoilt' = (spoilt \/ \E q \in Procs : Writing(q))
  /\ lost' = (lost \/ proc[p].base # version)
  /\ UNCHANGED <<kind, faults, book, version, dropped>>

\* Lines are written over what is there; a row is added.
Over(rows, old) == rows \o SubSeq(old, Len(rows) + 1, Len(old))

\* The write is complete: the receiver answers, or the scheduler goes on.
Done(p) ==
  /\ version' = version + 1
  /\ book' = Edited(kind, book, proc[p].edit)
  /\ proc' = [proc EXCEPT ![p].pc = "idle", ![p].base = version + 1,
                          ![p].rows = <<>>, ![p].edit = NoEdit]

\* Only some lines reach the file.
Partly(p) ==
  /\ faults < MaxFaults /\ faults' = faults + 1 /\ spoilt' = TRUE
  /\ \E n \in 0..Len(proc[p].rows) : store' = Over(SubSeq(proc[p].rows, 1, n), store)

\* FileStorage::close does not look at what fclose returns.
CloseFile(p) ==
  /\ At(p, "rows") /\ ~InTable
  /\ \/ store' = Over(proc[p].rows, store) /\ UNCHANGED <<faults, spoilt>>
     \/ Partly(p)
  /\ Done(p)
  /\ UNCHANGED <<kind, lost, dropped>>

Insert(p) ==
  /\ At(p, "rows") /\ InTable /\ proc[p].rows # <<>>
  /\ store' = Append(store, Head(proc[p].rows))
  /\ proc' = [proc EXCEPT ![p].rows = Tail(@)]
  /\ UNCHANGED <<kind, faults, book, version, lost, spoilt, dropped>>

Inserted(p) ==
  /\ At(p, "rows") /\ InTable /\ proc[p].rows = <<>>
  /\ Done(p)
  /\ UNCHANGED <<kind, store, faults, lost, spoilt, dropped>>

\* A write or a statement fails and the process exits, or it is terminated; of a
\* file some lines may be written, when the process exits by itself.
Breaks(p) ==
  /\ Writing(p)
  /\ IF InTable THEN faults < MaxFaults /\ faults' = faults + 1 /\ spoilt' = TRUE /\ store' = store
     ELSE Partly(p)
  /\ proc' = [proc EXCEPT ![p] = Off]
  /\ UNCHANGED <<kind, book, version, lost, dropped>>

-----------------------------------------------------------------------------
(* The scheduler                                                           *)

\* The scheduler fills an empty config with defaults, but not the file of a list.
Fills == kind # "list file"

\* At the start and at SIGHUP.  The scheduler exits when a line has no value or when a
\* key is missing.
Read ==
  /\ At(Sched, "off") \/ At(Sched, "idle")
  /\ LET mem == Load(kind, store)
     IN IF Exits(kind, store) THEN proc' = [proc EXCEPT ![Sched] = Off]
        ELSE IF Vacant(store) /\ Fills
          THEN proc' = [proc EXCEPT ![Sched].pc = "open", ![Sched].mem = mem,
                                    ![Sched].base = version, ![Sched].rows = Rows(kind, mem)]
        ELSE IF Complete(kind, mem)
          THEN proc' = [proc EXCEPT ![Sched].pc = "idle", ![Sched].mem = mem, ![Sched].base = version]
        ELSE proc' = [proc EXCEPT ![Sched] = Off]
  /\ spoilt' = (spoilt \/ \E q \in Procs : Writing(q))
  /\ UNCHANGED <<kind, store, faults, book, version, lost, dropped>>

-----------------------------------------------------------------------------
(* A receiver                                                              *)

\* It is forked with the config the scheduler has now, and exits.
Connect(a) ==
  /\ At(a, "off") /\ At(Sched, "idle")
  /\ proc' = [proc EXCEPT ![a] = [Off EXCEPT !.pc = "idle", !.mem = proc[Sched].mem,
                                             !.base = proc[Sched].base]]
  /\ UNCHANGED <<kind, store, faults, book, version, lost, spoilt, dropped>>

Disconnect(a) ==
  /\ At(a, "idle")
  /\ proc' = [proc EXCEPT ![a] = Off]
  /\ UNCHANGED <<kind, store, faults, book, version, lost, spoilt, dropped>>

\* It is written to where the copy says: here, or elsewhere; when it does not say where,
\* the receiver dies (strcasecmp with NULL).
WriteTo(a, new, e) ==
  LET home == Vals(new, Home[kind].key) IN
    \/ home = {Home[kind].val} /\ StartWrite(a, new, e) /\ lost' = lost
    \/ home = {} /\ proc' = [proc EXCEPT ![a] = Off] /\ lost' = lost
    \/ home \notin {{}, {Home[kind].val}} /\ proc' = [proc EXCEPT ![a].mem = new] /\ lost' = TRUE

\* LADD config writes in any case but for an empty value, which is refused; LDEL config
\* when the value was there.
Edit(a) ==
  /\ At(a, "idle")
  /\ \E e \in Edits[kind] :
       LET new == IF e.op = "add" THEN AddValue(kind, proc[a].mem, Free(e))
                  ELSE DelValue(proc[a].mem, e.key, e.val)
       IN /\ IF e.op = "add" THEN e.val # NoValue ELSE DelSucceeds(proc[a].mem, e.key, e.val)
          /\ WriteTo(a, new, e)
          /\ spoilt' = (spoilt \/ (e.op = "add" /\ Reads[kind][e.val] # e.val))
          /\ dropped' = (dropped \/ \E n \in Needed(kind) : Vals(new, n) = {})
  /\ UNCHANGED <<kind, store, faults, book, version>>

ConfigInit ==
  /\ kind \in Kinds
  /\ store \in Initial[kind]
  /\ proc = [p \in Procs |-> Off]
  /\ faults = 0 /\ version = 0
  /\ book = Meaning(kind, store)
  /\ lost = FALSE /\ spoilt = FALSE /\ dropped = FALSE

ConfigNext ==
  \/ Read
  \/ \E a \in Admins : Connect(a) \/ Edit(a) \/ Disconnect(a)
  \/ \E p \in Procs : Empty(p) \/ CloseFile(p) \/ Insert(p) \/ Inserted(p) \/ Breaks(p)

ConfigSpec == ConfigInit /\ [][ConfigNext]_configVars

-----------------------------------------------------------------------------
(* Properties                                                              *)

\* The variables have their types.
ConfigTypeOK ==
  /\ kind \in Kinds /\ store \in Seq(Row(kind)) /\ proc \in [Procs -> ProcType(kind)]
  /\ faults \in 0..MaxFaults /\ version \in Nat
  /\ book \in [Names(kind) -> SUBSET Texts]
  /\ {lost, spoilt, dropped} \subseteq BOOLEAN

\* What was answered with 250 is what the next reload finds: each edit since the
\* beginning and nothing else, defaults where there is no value, and protected values
\* as they were given.  It takes that no two writes met, that none was cut short, that
\* nobody wrote back an old copy or wrote it elsewhere, and that each value that was
\* added is one that is read back: of none of these is the administrator told.
EditsKept ==
  ~lost /\ ~spoilt /\ (\A p \in Procs : ~Writing(p)) => Meaning(kind, store) = book

\* However old the copies are that receivers write back, and wherever they write them, a
\* reload does not end the server, unless a write was cut short or was under way when
\* something else was written or read, a value was added that is not read back, or a
\* value was deleted that has no default.
KeepsRunning ==
  [][At(Sched, "idle") /\ At(Sched, "off")' => spoilt' \/ dropped]_configVars
=============================================================================
