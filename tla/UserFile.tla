------------------------------ MODULE UserFile -------------------------------
(***************************************************************************)
(* The user file of a list (FileStorage), as several processes work on it:  *)
(* managers that carry out mail commands (Message::changeuser) and          *)
(* transmitters that take a user off a list (Transmitter::writeRcpt) change *)
(* it, and managers that start a broadcast copy it (FileStorage::clone).    *)
(* The sender file of a list is changed in the same way.                    *)
(*                                                                         *)
(* No process locks the file.  A new user is appended; to remove one the     *)
(* file is read a page at a time and written to <file>-temporary, which is   *)
(* then renamed, and only then closed.  A step is one access to the file     *)
(* system.  A process has a file open, whatever its name is by then; what it *)
(* writes is buffered, and reaches the file when the buffer is full, or when *)
(* the file is closed.  All addresses take the same room in the file.        *)
(***************************************************************************)
EXTENDS Naturals, Sequences, SequencesExt

CONSTANTS
  Users,        \* addresses
  First,        \* users in the file at the beginning
  Adders,       \* processes that add a user
  Removers,     \* processes that remove a user
  Copiers,      \* processes that copy the file for a broadcast
  PageSize,     \* MAX_USERS_ONCE
  MaxFaults     \* bound: processes that die, and disks that are full

Changers == Adders \cup Removers
Procs    == Changers \cup Copiers

NoUser   == "no user"
NoFile   == "no file"
FirstFile == "first file"
\* Each remover makes at most one file, which bears its name.
Files    == Removers \cup {FirstFile}

ASSUME UserFileAssumption ==
  /\ Adders \cap Removers = {} /\ Changers \cap Copiers = {}
  /\ NoUser \notin Users /\ FirstFile \notin Procs /\ NoFile \notin Files
  /\ First \in Seq(Users) /\ IsInjective(First)
  /\ PageSize \in Nat \ {0} /\ MaxFaults \in Nat

VARIABLES
  name,         \* the file that bears the name of the user file
  temp,         \* the file named <file>-temporary, or NoFile
  content,      \* lines of each file
  proc,         \* the processes, see ProcType
  faults,       \* faults so far
  book,         \* history: who is subscribed, according to the changes that ended
  harm,         \* history: two changes overlapped, or one failed half-way
  lists,        \* history: what book was while a copier was at work
  torn          \* history: copiers that opened a file just being replaced

disk  == <<name, temp, content>>
notes == <<book, harm, lists, torn>>
vars  == <<disk, proc, faults, notes>>

\* A process: its next step ("cut" is the end of a copier that could not write all of its
\* copy, and does not know), the user it is about, the files it reads and writes,
\* the pages it has read, how much it has written and what is in its buffer.
ProcType ==
  [ pc     : {"start", "opensrc", "opentmp", "read", "rename", "close", "append", "done",
              "cut"},
    user   : Users \cup {NoUser},
    src    : Files \cup {NoFile},
    dst    : Files \cup {NoFile},
    page   : Nat,
    offset : Nat,
    buffer : Seq(Users \cup {NoUser}) ]

NewProc == [pc |-> "start", user |-> NoUser, src |-> NoFile, dst |-> NoFile,
            page |-> 0, offset |-> 0, buffer |-> <<>>]

-----------------------------------------------------------------------------
(* Helpers                                                                 *)

At(p, pc) == proc[p].pc = pc
Goes(p, pc) == proc' = [proc EXCEPT ![p].pc = pc]
Changing(p) == p \in Changers /\ proc[p].pc \notin {"start", "done"}

\* FileStorage::get: the lines of the next page, counted from the start of the file.
Page(p) ==
  LET lines == content[proc[p].src]
      from  == proc[p].page * PageSize + 1
      upto  == proc[p].page * PageSize + PageSize IN
  SubSeq(lines, from, IF upto < Len(lines) THEN upto ELSE Len(lines))

\* What a file holds after new lines are written over it, the old ones that lie
\* behind them being kept.
Overwritten(lines, offset, new) ==
  [i \in 1..(IF offset + Len(new) > Len(lines) THEN offset + Len(new) ELSE Len(lines)) |->
     IF i > offset /\ i <= offset + Len(new) THEN new[i - offset]
     ELSE IF i <= Len(lines) THEN lines[i] ELSE NoUser]

Flushed(p) ==
  [content EXCEPT ![proc[p].dst] = Overwritten(@, proc[p].offset, proc[p].buffer)]

\* The change of p has been made, and the copiers at work may see it.
Booked(new) ==
  /\ book' = new
  /\ lists' = [c \in Copiers |-> IF At(c, "read") THEN lists[c] \cup {new} ELSE lists[c]]

-----------------------------------------------------------------------------
(* Changes: Message::changeuser and Transmitter::writeRcpt                 *)

\* MailingList::isUserMember decides whether there is something to do.  A
\* transmitter does not ask.
StartAdd(p) ==
  /\ p \in Adders /\ At(p, "start")
  /\ \E u \in Users :
       proc' = [proc EXCEPT ![p].user = u, ![p].pc =
                  IF u \in ToSet(content[name]) THEN "done" ELSE "opensrc"]
  /\ harm' = (harm \/ \E q \in Changers : Changing(q))
  /\ UNCHANGED <<disk, faults, book, lists, torn>>

StartRemove(p) ==
  /\ p \in Removers /\ At(p, "start")
  /\ \E u \in Users :
       \/ Goes(p, "done") /\ u \notin ToSet(content[name])
       \/ proc' = [proc EXCEPT ![p].user = u, ![p].pc = "opensrc"]
  /\ harm' = (harm \/ \E q \in Changers : Changing(q))
  /\ UNCHANGED <<disk, faults, book, lists, torn>>

\* The user file is opened, by a remover to read it, else to append to it.
OpenChange(p) ==
  /\ At(p, "opensrc")
  /\ proc' = IF p \in Adders
             THEN [proc EXCEPT ![p].dst = name, ![p].pc = "append"]
             ELSE [proc EXCEPT ![p].src = name, ![p].pc = "opentmp"]
  /\ UNCHANGED <<disk, faults, notes>>

\* FileStorage::add: the user is written to the end of the file when it is closed.
AppendUser(p) ==
  /\ At(p, "append")
  /\ content' = [content EXCEPT ![proc[p].dst] = Append(@, proc[p].user)]
  /\ Booked(book \cup {proc[p].user})
  /\ Goes(p, "done")
  /\ UNCHANGED <<name, temp, faults, harm, torn>>

-----------------------------------------------------------------------------
(* FileStorage::remove                                                     *)

\* Mutant of the next definition: an existing file is not truncated.
OpenTempAsIs(p) ==
  /\ At(p, "opentmp")
  /\ LET file == IF temp = NoFile THEN p ELSE temp IN
       /\ temp' = file
       /\ proc' = [proc EXCEPT ![p].dst = file, ![p].pc = "read"]
  /\ UNCHANGED <<name, content, faults, notes>>

\* An existing file of that name, which another process may have open, is
\* truncated; else there is a new one.
OpenTemp(p) ==
  /\ At(p, "opentmp")
  /\ LET file == IF temp = NoFile THEN p ELSE temp IN
       /\ temp' = file
       /\ content' = [content EXCEPT ![file] = <<>>]
       /\ proc' = [proc EXCEPT ![p].dst = file, ![p].pc = "read"]
  /\ UNCHANGED <<name, faults, notes>>

\* The lines of a page that are not the user.
Without(lines, u) ==
  LET kept[n \in 0..Len(lines)] ==
        IF n = 0 THEN <<>>
        ELSE IF lines[n] = u THEN kept[n - 1] ELSE Append(kept[n - 1], lines[n])
  IN kept[Len(lines)]

\* A page is read, and all but the user to remove are copied.
CopyPage(p) ==
  /\ At(p, "read") /\ p \in Removers
  /\ IF Page(p) = <<>>
     THEN Goes(p, "rename")
     ELSE proc' = [proc EXCEPT ![p].page = @ + 1,
                            ![p].buffer = @ \o Without(Page(p), proc[p].user)]
  /\ UNCHANGED <<disk, faults, notes>>

\* The buffer is full; where in the file that is, is left open.
Flush(p) ==
  /\ At(p, "read") /\ p \in Removers
  /\ proc[p].buffer # <<>>
  /\ content' = Flushed(p)
  /\ proc' = [proc EXCEPT ![p].offset = @ + Len(proc[p].buffer), ![p].buffer = <<>>]
  /\ UNCHANGED <<name, temp, faults, notes>>

\* The disk is full: the loop ends, and what was written is put in place.
DiskFull(p) ==
  /\ At(p, "read") /\ p \in Removers
  /\ faults < MaxFaults /\ faults' = faults + 1
  /\ proc' = [proc EXCEPT ![p].pc = "rename", ![p].buffer = <<>>]
  /\ harm' = TRUE
  /\ UNCHANGED <<disk, book, lists, torn>>

\* Mutant of the next definition: the temporary name stays.
RenameAsLink(p) ==
  /\ At(p, "rename")
  /\ name' = IF temp = NoFile THEN name ELSE temp
  /\ Goes(p, "close")
  /\ UNCHANGED <<temp, content, faults, notes>>

\* The temporary file gets the name of the user file, if nobody else has renamed
\* it meanwhile.
Rename(p) ==
  /\ At(p, "rename")
  /\ IF temp = NoFile
     THEN UNCHANGED <<name, temp>>
     ELSE name' = temp /\ temp' = NoFile
  /\ Goes(p, "close")
  /\ UNCHANGED <<content, faults, notes>>

Close(p) ==
  /\ At(p, "close")
  /\ content' = Flushed(p)
  /\ proc' = [proc EXCEPT ![p].pc = "done", ![p].buffer = <<>>]
  /\ Booked(book \ {proc[p].user})
  /\ UNCHANGED <<name, temp, faults, harm, torn>>

-----------------------------------------------------------------------------
(* FileStorage::clone, for MailingList::getAllUsers                        *)

OpenCopy(c) ==
  /\ c \in Copiers /\ At(c, "start")
  /\ proc' = [proc EXCEPT ![c].src = name, ![c].pc = "read"]
  /\ lists' = [lists EXCEPT ![c] = {book}]
  /\ torn' = IF \E p \in Removers : At(p, "close") THEN torn \cup {c} ELSE torn
  /\ UNCHANGED <<disk, faults, book, harm>>

\* Mutant of the next definition: each page is read from the file that bears the
\* name at that time.
ReadPageAnew(c) ==
  /\ c \in Copiers /\ At(c, "read")
  /\ proc' = IF Page(c) = <<>>
             THEN [proc EXCEPT ![c].pc = "done"]
             ELSE [proc EXCEPT ![c].page = @ + 1, ![c].buffer = @ \o Page(c), ![c].src = name]
  /\ UNCHANGED <<disk, faults, notes>>

\* The copy is the buffer of the copier: nobody else reads it.
ReadPage(c) ==
  /\ c \in Copiers /\ At(c, "read")
  /\ proc' = IF Page(c) = <<>>
             THEN [proc EXCEPT ![c].pc = "done"]
             ELSE [proc EXCEPT ![c].page = @ + 1, ![c].buffer = @ \o Page(c)]
  /\ UNCHANGED <<disk, faults, notes>>

\* The disk is full: the loop ends, or the end of the copy is lost when it is closed,
\* and the copy is used as it is.  The file may not even be made.
CopyFull(c) ==
  /\ c \in Copiers /\ At(c, "read")
  /\ faults < MaxFaults /\ faults' = faults + 1
  /\ \E n \in 0..Len(proc[c].buffer) :
       proc' = [proc EXCEPT ![c].pc = "cut", ![c].buffer = SubSeq(@, 1, n)]
  /\ UNCHANGED <<disk, notes>>

-----------------------------------------------------------------------------
\* A process that changes the file is killed, and what it has buffered is lost.
\* That does harm when the file it writes has been put in place already.
Die(p) ==
  /\ Changing(p)
  /\ faults < MaxFaults /\ faults' = faults + 1
  /\ harm' = (harm \/ At(p, "close"))
  /\ proc' = [proc EXCEPT ![p].pc = "done", ![p].buffer = <<>>]
  /\ UNCHANGED <<disk, book, lists, torn>>

Init ==
  /\ name = FirstFile /\ temp = NoFile
  /\ content = [f \in Files |-> IF f = FirstFile THEN First ELSE <<>>]
  /\ proc = [p \in Procs |-> NewProc]
  /\ faults = 0
  /\ book = ToSet(First) /\ harm = FALSE
  /\ lists = [c \in Copiers |-> {}] /\ torn = {}

Removal(p) ==
  \/ StartRemove(p) \/ OpenTemp(p) \/ CopyPage(p) \/ Flush(p) \/ DiskFull(p)
  \/ Rename(p) \/ Close(p)

Next ==
  \/ \E p \in Changers : OpenChange(p) \/ Die(p)
  \/ \E p \in Adders : StartAdd(p) \/ AppendUser(p)
  \/ \E p \in Removers : Removal(p)
  \/ \E c \in Copiers : OpenCopy(c) \/ ReadPage(c) \/ CopyFull(c)

Spec == Init /\ [][Next]_vars

-----------------------------------------------------------------------------
(* Properties                                                              *)

\* The variables have their types; a hole in a file reads as NoUser.
TypeOK ==
  /\ name \in Files /\ temp \in Removers \cup {NoFile} /\ name # temp
  /\ content \in [Files -> Seq(Users \cup {NoUser})]
  /\ proc \in [Procs -> ProcType]
  /\ faults \in 0..MaxFaults
  /\ book \subseteq Users /\ harm \in BOOLEAN
  /\ torn \subseteq Copiers

\* As long as no two changes overlap, and none fails half-way, the file holds
\* exactly the users who were added and not removed, each one once; only between
\* the renaming and the closing of a new file it does not.  A process that dies
\* earlier, and the temporary file it leaves, do no harm to this change or the next.
FileIsBook ==
  ~harm /\ (\A p \in Removers : ~At(p, "close")) =>
    ToSet(content[name]) = book /\ IsInjective(content[name])

\* A broadcast goes to each user who was subscribed when its copy was begun, and to
\* nobody who was not while it was made, though the file is read a page at a time and
\* may be replaced or grow meanwhile, and to each one once; unless it opened a file
\* before the process that put it in place had written it.  Of those who are added
\* meanwhile it may miss one and take a later one.  A copier that cannot write all of
\* its copy misses users, but takes nobody else.
CopyIsWhole ==
  \A c \in Copiers :
    proc[c].pc \in {"done", "cut"} /\ ~harm /\ c \notin torn =>
      LET copied == ToSet(proc[c].buffer) IN
      /\ IsInjective(proc[c].buffer)
      /\ \E after \in lists[c] : copied \subseteq after
      /\ At(c, "done") => \E before \in lists[c] : before \subseteq copied

=============================================================================
