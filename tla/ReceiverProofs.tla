--------------------------- MODULE ReceiverProofs ---------------------------
(***************************************************************************)
(* What the receiver session guarantees for every set of recipients, error *)
(* limit, session length and number of client lines; and, in the second    *)
(* half, what becomes of the config when its administrator edits it in     *)
(* such sessions, for every set of keys, values, edits and receivers.      *)
(***************************************************************************)
EXTENDS Receiver, ConfigStore, WellFoundedInduction, FiniteSetTheorems, SequenceTheorems, TLAPS

\* The message has a name while its data is read.
Named == phase = "data" => name # NoName

\* The strengthening: what the connection state says about the message under
\* construction, and that the history agrees with it.
Envelope ==
  /\ recipients = told
  /\ status >= CON_FROM => sender
  /\ status >= CON_RCPT => recipients # {}
  /\ status >= CON_DATA => accepted /\ name # NoName
  /\ status = CON_DONE => phase \in {"close", "unlock", "gone", "killed"}
  /\ phase = "unlock" => status = CON_DONE
  /\ phase = "data" => status >= CON_RCPT

\* A file is protected by its lock until the session ends.
Locked ==
  \A n \in Seconds : data[n] # "none" /\ phase # "gone" => lock[n]

\* A config exists only once the session is over, and for the message at hand.
QueuedLast ==
  \A n \in Seconds :
    conf[n] # {} => /\ phase \in {"unlock", "gone", "killed"}
                    /\ sender /\ accepted
                    /\ conf[n] \subseteq told
                    /\ conf[n] = told \/ silent \/ lock[n] \/ data[n] = "none"

\* What was accepted last is the message at hand, and its data is there.
LastKept ==
  last # NoName => /\ last = name
                   /\ status \in {CON_DATA, CON_DONE}
                   /\ phase # "data"
                   /\ data[last] # "none"
                   /\ errors = 0 /\ ~silent => data[last] = "whole"

\* While data is read, nothing is lost of what will be accepted unless an error
\* was counted.
DataKept ==
  phase = "data" => /\ last = NoName
                    /\ pretending => errors < MaxErrors
                    /\ ~pretending => data[name] # "none"
                    /\ ~pretending /\ errors = 0 => data[name] = "open"

\* QUIT queues what DATA left.
QuitKept ==
  /\ phase \in {"close", "unlock", "gone"} /\ errors + connErrors < MaxErrors
       => status # CON_DATA
  /\ phase \in {"unlock", "gone"} /\ status = CON_DONE /\ ~silent
       => conf[name] = told

IInv == /\ TypeOK /\ Named /\ Envelope /\ Locked /\ QueuedLast
        /\ LastKept /\ DataKept /\ QuitKept

\* Every mail command leaves CON_NONE for good.
MailLeavesNone == mailSeen <=> status > CON_NONE

USE DEF CON_NONE, CON_HELO, CON_FROM, CON_RCPT, CON_DATA, CON_DONE, NoName

\* A session starts inside the invariant.
LEMMA InitIInv == Init => IInv
<1> SUFFICES ASSUME Init PROVE IInv
  OBVIOUS
<1>1. TypeOK
  <2>1. now \in Seconds /\ name \in Seconds \cup {NoName} /\ budget \in 0..Budget
    BY ReceiverAssumption DEF Init, Seconds
  <2>2. /\ data \in [Seconds -> {"none", "open", "cut", "whole"}]
        /\ lock \in [Seconds -> BOOLEAN]
        /\ conf \in [Seconds -> SUBSET Recipients]
    BY DEF Init
  <2>3. /\ status \in CON_NONE..CON_DONE
        /\ errors \in Nat
        /\ connErrors \in Nat
        /\ adminOps \in Nat
    BY DEF Init
  <2>4. /\ authorized \in BOOLEAN /\ sender \in BOOLEAN /\ pretending \in BOOLEAN
        /\ accepted \in BOOLEAN /\ mailSeen \in BOOLEAN /\ silent \in BOOLEAN
    BY DEF Init
  <2>5. QED
    BY <2>1, <2>2, <2>3, <2>4 DEF Init, TypeOK, Flags, Sorts
<1>2. Named /\ Envelope /\ LastKept /\ DataKept /\ QuitKept
  BY DEF Init, Named, Envelope, LastKept, DataKept, QuitKept
<1>3. QueuedLast /\ Locked
  BY DEF Init, QueuedLast, Locked
<1>4. QED
  BY <1>1, <1>2, <1>3 DEF IInv

\* What the bookkeeping at the end of a command does to types and phase.
LEMMA CountErrorsFact ==
  ASSUME errors \in Nat, connErrors \in Nat,
         NEW e \in Nat, NEW w \in Nat, CountErrors(e, w)
  PROVE  /\ errors' \in Nat /\ connErrors' \in Nat /\ phase' \in {"cmd", "close"}
         /\ errors' >= errors
         /\ phase' = "close" => errors' + connErrors' >= MaxErrors
<1>1. errors' \in Nat /\ connErrors' \in Nat /\ errors' >= errors
  BY DEF CountErrors
<1>2. phase' \in {"cmd", "close"}
  BY DEF CountErrors
<1>3. phase' = "close" => errors' + connErrors' >= MaxErrors
  <2>1. phase' = IF connErrors' + errors' >= MaxErrors THEN "close" ELSE "cmd"
    BY DEF CountErrors
  <2>2. connErrors' + errors' = errors' + connErrors'
    BY <1>1
  <2>3. QED
    BY <2>1, <2>2
<1>4. QED
  BY <1>1, <1>2, <1>3

\* Each L-command is an instance of Admin.
LEMMA AdminFact == AdminCommand => \E w \in Nat : Admin(w)
BY ReceiverAssumption DEF AdminCommand, Ladd, Ldel, Lrld, Lcmd, Lshw

\* Every step keeps the flags Boolean.
LEMMA StepFlags == Flags /\ [Next]_vars => Flags'
<1> SUFFICES ASSUME Flags, [Next]_vars PROVE Flags'
  OBVIOUS
<1> USE DEF Flags, process, message, spool, history
<1>1. CASE Other
  BY <1>1 DEF Other, Line, Reply, EndCommand
<1>2. CASE Lpwd
  BY <1>2 DEF Lpwd, Line, Reply, EndCommand
<1>3. CASE AdminCommand
  <2>1. PICK w \in Nat : Admin(w)
    BY <1>3, AdminFact
  <2>2. QED
    BY <2>1 DEF Admin, Line, Reply, EndCommand
<1>4. CASE Helo
  BY <1>4 DEF Helo, Line, Reply, EndCommand
<1>5. CASE Mail
  BY <1>5 DEF Mail, Line, Reply, EndCommand
<1>6. CASE Rcpt
  BY <1>6 DEF Rcpt, Line, Reply, EndCommand
<1>7. CASE Rset
  BY <1>7 DEF Rset, Line, Reply, EndCommand
<1>8. CASE DataOutOfSequence
  BY <1>8 DEF DataOutOfSequence, Line, Reply, EndCommand
<1>9. CASE DataStart
  BY <1>9 DEF DataStart, Line, Reply, EndCommand
<1>10. CASE Quit
  BY <1>10 DEF Quit, Line
<1>11. CASE DataEnd
  BY <1>11 DEF DataEnd, Reading, Refuse, Accept, Reply, EndCommand, KeepInData
<1>12. CASE DataReadFail
  BY <1>12 DEF DataReadFail, Reading, Refuse, Accept, Reply, EndCommand,
        KeepInData, Cut
<1>13. CASE DataErrorLimit
  BY <1>13 DEF DataErrorLimit, Accept, EndCommand, KeepInData, Cut
<1>14. CASE DataWriteFail
  BY <1>14 DEF DataWriteFail, Reading, Refuse, Reply, EndCommand, KeepInData,
        Cut
<1>15. CASE DataHuge
  BY <1>15 DEF DataHuge, Reading, Refuse, Reply, EndCommand, KeepInData, Cut
<1>16. CASE DataTooBig
  BY <1>16 DEF DataTooBig, Reading
<1>17. CASE DataTooManyHops
  BY <1>17 DEF DataTooManyHops, Reading, Cut
<1>18. CASE ReadFail
  BY <1>18 DEF ReadFail, EndCommand
<1>19. CASE Stall
  BY <1>19 DEF Stall
<1>20. CASE Close
  BY <1>20 DEF Close, WriteConfig
<1>21. CASE Unlock
  BY <1>21 DEF Unlock
<1>22. CASE Die
  BY <1>22 DEF Die, Ended
<1>23. CASE Tick
  BY <1>23 DEF Tick, Ended
<1>24. CASE UNCHANGED vars
  BY <1>24 DEF vars
<1>25. QED
  BY <1>1, <1>2, <1>3, <1>4, <1>5, <1>6, <1>7, <1>8, <1>9, <1>10, <1>11,
        <1>12, <1>13, <1>14, <1>15, <1>16, <1>17, <1>18, <1>19, <1>20, <1>21,
        <1>22, <1>23, <1>24 DEF Next, Command, DataEvent


\* Every step keeps numbers, names and files in their types.
LEMMA StepSorts == Sorts /\ Named /\ [Next]_vars => Sorts' /\ Named'
<1> SUFFICES ASSUME Sorts, Named, [Next]_vars PROVE Sorts' /\ Named'
  OBVIOUS
<1> USE ReceiverAssumption DEF Sorts, Named, Seconds, process, message, spool, history
<1>1. CASE Other
  BY <1>1, CountErrorsFact DEF Other, Line, Reply, EndCommand
<1>2. CASE Lpwd
  BY <1>2, CountErrorsFact DEF Lpwd, Line, Reply, EndCommand
<1>3. CASE AdminCommand
  <2>1. PICK w \in Nat : Admin(w)
    BY <1>3, AdminFact
  <2>2. QED
    BY <2>1, CountErrorsFact DEF Admin, Line, Reply, EndCommand
<1>4. CASE Helo
  BY <1>4, CountErrorsFact DEF Helo, Line, Reply, EndCommand
<1>5. CASE Mail
  BY <1>5, CountErrorsFact DEF Mail, Line, Reply, EndCommand
<1>6. CASE Rcpt
  BY <1>6, CountErrorsFact DEF Rcpt, Line, Reply, EndCommand
<1>7. CASE Rset
  BY <1>7, CountErrorsFact DEF Rset, Line, Reply, EndCommand
<1>8. CASE DataOutOfSequence
  BY <1>8, CountErrorsFact DEF DataOutOfSequence, Line, Reply, EndCommand
<1>9. CASE DataStart
  BY <1>9, CountErrorsFact DEF DataStart, Line, Reply, EndCommand
<1>10. CASE Quit
  BY <1>10 DEF Quit, Line
<1>11. CASE DataEnd
  <2>1. CASE pretending
    BY <1>11, <2>1, CountErrorsFact
       DEF DataEnd, Reading, Refuse, Reply, EndCommand, KeepInData
  <2>2. CASE ~pretending
    <3>1. Reading /\ Accept(0, 1) /\ KeepInData
      BY <1>11, <2>2 DEF DataEnd
    <3>2. data' \in [Seconds -> {"none", "open", "cut", "whole"}]
      BY <1>11, <2>2 DEF DataEnd, Cut
    <3>3. CountErrors(0, 1)
      BY <3>1 DEF Accept, EndCommand
    <3>4. QED
      BY <3>1, <3>2, <3>3, CountErrorsFact DEF Reading, Accept, KeepInData
  <2>3. QED
    BY <2>1, <2>2
<1>12. CASE DataReadFail
  <2>1. CASE pretending
    BY <1>12, <2>1, CountErrorsFact
       DEF DataReadFail, Reading, Refuse, Reply, EndCommand, KeepInData, Cut
  <2>2. CASE ~pretending
    <3>1. Reading /\ Accept(1, 2) /\ KeepInData
      BY <1>12, <2>2 DEF DataReadFail
    <3>2. data' \in [Seconds -> {"none", "open", "cut", "whole"}]
      BY <1>12, <2>2 DEF DataReadFail, Cut
    <3>3. CountErrors(1, 2)
      BY <3>1 DEF Accept, EndCommand
    <3>4. QED
      BY <3>1, <3>2, <3>3, CountErrorsFact DEF Reading, Accept, KeepInData
  <2>3. QED
    BY <2>1, <2>2
<1>13. CASE DataErrorLimit
  BY <1>13, CountErrorsFact DEF DataErrorLimit, Accept, EndCommand, KeepInData, Cut
<1>14. CASE DataWriteFail
  BY <1>14, CountErrorsFact DEF DataWriteFail, Reading, Refuse, Reply, EndCommand, KeepInData,
        Cut
<1>15. CASE DataHuge
  BY <1>15, CountErrorsFact DEF DataHuge, Reading, Refuse, Reply, EndCommand, KeepInData, Cut
<1>16. CASE DataTooBig
  BY <1>16 DEF DataTooBig, Reading
<1>17. CASE DataTooManyHops
  BY <1>17 DEF DataTooManyHops, Reading, Cut
<1>18. CASE ReadFail
  BY <1>18, CountErrorsFact DEF ReadFail, EndCommand
<1>19. CASE Stall
  BY <1>19 DEF Stall
<1>20. CASE Close
  BY <1>20 DEF Close, WriteConfig
<1>21. CASE Unlock
  BY <1>21 DEF Unlock
<1>22. CASE Die
  BY <1>22 DEF Die, Ended
<1>23. CASE Tick
  BY <1>23 DEF Tick, Ended
<1>24. CASE UNCHANGED vars
  BY <1>24 DEF vars
<1>25. QED
  BY <1>1, <1>2, <1>3, <1>4, <1>5, <1>6, <1>7, <1>8, <1>9, <1>10, <1>11,
        <1>12, <1>13, <1>14, <1>15, <1>16, <1>17, <1>18, <1>19, <1>20, <1>21,
        <1>22, <1>23, <1>24 DEF Next, Command, DataEvent

\* Every step keeps what the connection state says about the message.
LEMMA StepEnvelope == Sorts /\ Named /\ Envelope /\ [Next]_vars => Envelope'
<1> SUFFICES ASSUME Sorts, Named, Envelope, [Next]_vars PROVE Envelope'
  OBVIOUS
<1> USE DEF Sorts, Named, Envelope, process, message, spool, history
<1>1. CASE Other
  BY <1>1, CountErrorsFact DEF Other, Line, Reply, EndCommand
<1>2. CASE Lpwd
  BY <1>2, CountErrorsFact DEF Lpwd, Line, Reply, EndCommand
<1>3. CASE AdminCommand
  <2>1. PICK w \in Nat : Admin(w)
    BY <1>3, AdminFact
  <2>2. QED
    BY <2>1, CountErrorsFact DEF Admin, Line, AdminMayRun, Reply, EndCommand
<1>4. CASE Helo
  BY <1>4, CountErrorsFact DEF Helo, Line, Reply, EndCommand
<1>5. CASE Mail
  BY <1>5, CountErrorsFact DEF Mail, Line, Reply, EndCommand
<1>6. CASE Rcpt
  <2>1. phase' \in {"cmd", "close"}
    BY <1>6, CountErrorsFact DEF Rcpt, Reply, EndCommand
  <2>2. CASE UNCHANGED <<status, recipients, told>>
    BY <1>6, <2>1, <2>2 DEF Rcpt, Line
  <2>3. CASE /\ status >= CON_FROM /\ status' = CON_RCPT
             /\ \E r \in Recipients : /\ recipients' = recipients \cup {r}
                                    /\ told' = told \cup {r}
    BY <1>6, <2>1, <2>3 DEF Rcpt, Line
  <2>4. QED
    BY <1>6, <2>2, <2>3 DEF Rcpt
<1>7. CASE Rset
  BY <1>7, CountErrorsFact DEF Rset, Line, Reply, EndCommand
<1>8. CASE DataOutOfSequence
  BY <1>8, CountErrorsFact DEF DataOutOfSequence, Line, Reply, EndCommand
<1>9. CASE DataStart
  <2>1. phase' \in {"cmd", "close", "data", "killed"}
    BY <1>9, CountErrorsFact DEF DataStart, Reply, EndCommand
  <2>2. name' # NoName
    BY <1>9 DEF DataStart, Seconds
  <2>3. QED
    BY <1>9, <2>1, <2>2 DEF DataStart, Line
<1>10. CASE Quit
  BY <1>10 DEF Quit, Line
<1>11. CASE DataEnd
  <2>1. CASE pretending
    <3>1. Refuse(1) /\ KeepInData
      BY <1>11, <2>1 DEF DataEnd
    <3>2. phase' \in {"cmd", "close"}
      BY <3>1, CountErrorsFact DEF Refuse, Reply, EndCommand
    <3>3. QED
      BY <1>11, <3>1, <3>2 DEF DataEnd, Reading, Refuse, KeepInData
  <2>2. CASE ~pretending
    <3>1. Reading /\ Accept(0, 1) /\ KeepInData
      BY <1>11, <2>2 DEF DataEnd
    <3>2. phase' \in {"cmd", "close"}
      BY <3>1, CountErrorsFact DEF Accept, EndCommand
    <3>3. QED
      BY <3>1, <3>2 DEF Reading, Accept, KeepInData
  <2>3. QED
    BY <2>1, <2>2
<1>12. CASE DataReadFail
  <2>1. CASE pretending
    <3>1. Refuse(2) /\ KeepInData
      BY <1>12, <2>1 DEF DataReadFail
    <3>2. phase' \in {"cmd", "close"}
      BY <3>1, CountErrorsFact DEF Refuse, Reply, EndCommand
    <3>3. QED
      BY <1>12, <3>1, <3>2 DEF DataReadFail, Reading, Refuse, KeepInData
  <2>2. CASE ~pretending
    <3>1. Reading /\ Accept(1, 2) /\ KeepInData
      BY <1>12, <2>2 DEF DataReadFail
    <3>2. phase' \in {"cmd", "close"}
      BY <3>1, CountErrorsFact DEF Accept, EndCommand
    <3>3. QED
      BY <3>1, <3>2 DEF Reading, Accept, KeepInData
  <2>3. QED
    BY <2>1, <2>2
<1>13. CASE DataErrorLimit
  <2>1. phase = "data" /\ Accept(0, 1) /\ KeepInData
    BY <1>13 DEF DataErrorLimit
  <2>2. phase' \in {"cmd", "close"}
    BY <2>1, CountErrorsFact DEF Accept, EndCommand
  <2>3. QED
    BY <2>1, <2>2 DEF Accept, KeepInData
<1>14. CASE DataWriteFail
  BY <1>14, CountErrorsFact DEF DataWriteFail, Reading, Refuse, KeepInData,
        Cut, Reply, EndCommand
<1>15. CASE DataHuge
  BY <1>15, CountErrorsFact DEF DataHuge, Reading, Refuse, KeepInData, Cut,
        Reply, EndCommand
<1>16. CASE DataTooBig
  BY <1>16 DEF DataTooBig, Reading
<1>17. CASE DataTooManyHops
  BY <1>17 DEF DataTooManyHops, Reading, Cut
<1>18. CASE ReadFail
  BY <1>18, CountErrorsFact DEF ReadFail, EndCommand
<1>19. CASE Stall
  BY <1>19 DEF Stall
<1>20. CASE Close
  BY <1>20 DEF Close, WriteConfig
<1>21. CASE Unlock
  BY <1>21 DEF Unlock
<1>22. CASE Die
  BY <1>22 DEF Die, Ended
<1>23. CASE Tick
  BY <1>23 DEF Tick, Ended
<1>24. CASE UNCHANGED vars
  BY <1>24 DEF vars
<1>25. QED
  BY <1>1, <1>2, <1>3, <1>4, <1>5, <1>6, <1>7, <1>8, <1>9, <1>10, <1>11,
        <1>12, <1>13, <1>14, <1>15, <1>16, <1>17, <1>18, <1>19, <1>20, <1>21,
        <1>22, <1>23, <1>24
     DEF Next, Command, DataEvent

\* The lock of a file is removed only with the file, or at the end of the
\* session.
LEMMA StepLocked == Sorts /\ Named /\ Locked /\ [Next]_vars => Locked'
<1> SUFFICES ASSUME Sorts, Named, Locked, [Next]_vars PROVE Locked'
  OBVIOUS
<1> USE DEF Sorts, Named, Locked, process, message, spool, history
<1>1. CASE Other
  BY <1>1, CountErrorsFact DEF Other, Line, Reply, EndCommand
<1>2. CASE Lpwd
  BY <1>2, CountErrorsFact DEF Lpwd, Line, Reply, EndCommand
<1>3. CASE AdminCommand
  <2>1. PICK w \in Nat : Admin(w)
    BY <1>3, AdminFact
  <2>2. QED
    BY <2>1, CountErrorsFact DEF Admin, Line, AdminMayRun, Reply, EndCommand
<1>4. CASE Helo
  BY <1>4, CountErrorsFact DEF Helo, Line, Reply, EndCommand
<1>5. CASE Mail
  BY <1>5, CountErrorsFact DEF Mail, Line, Reply, EndCommand
<1>6. CASE Rcpt
  BY <1>6, CountErrorsFact DEF Rcpt, Line, Reply, EndCommand
<1>7. CASE Rset
  BY <1>7, CountErrorsFact DEF Rset, Line, Reply, EndCommand
<1>8. CASE DataOutOfSequence
  BY <1>8, CountErrorsFact DEF DataOutOfSequence, Line, Reply, EndCommand
<1>9. CASE DataStart
  BY <1>9, CountErrorsFact DEF DataStart, Line, Reply, EndCommand
<1>10. CASE Quit
  BY <1>10 DEF Quit, Line
<1>11. CASE DataEnd
  <2>1. phase = "data" /\ lock' = lock
    BY <1>11 DEF DataEnd, Reading, KeepInData
  <2>2. \A n \in Seconds :
          data'[n] # "none" => data[n] # "none"
    BY <1>11 DEF DataEnd, Cut
  <2>3. QED
    BY <2>1, <2>2
<1>12. CASE DataReadFail
  <2>1. phase = "data" /\ lock' = lock
    BY <1>12 DEF DataReadFail, Reading, KeepInData
  <2>2. \A n \in Seconds :
          data'[n] # "none" => data[n] # "none"
    BY <1>12 DEF DataReadFail, Cut
  <2>3. QED
    BY <2>1, <2>2
<1>13. CASE DataErrorLimit
  <2>1. phase = "data" /\ lock' = lock
    BY <1>13 DEF DataErrorLimit, Reading, KeepInData
  <2>2. \A n \in Seconds :
          data'[n] # "none" => data[n] # "none"
    BY <1>13 DEF DataErrorLimit, Cut
  <2>3. QED
    BY <2>1, <2>2
<1>14. CASE DataWriteFail
  BY <1>14, CountErrorsFact DEF DataWriteFail, Reading, Refuse, KeepInData,
        Cut, Reply, EndCommand
<1>15. CASE DataHuge
  BY <1>15, CountErrorsFact DEF DataHuge, Reading, Refuse, KeepInData, Cut,
        Reply, EndCommand
<1>16. CASE DataTooBig
  BY <1>16 DEF DataTooBig, Reading
<1>17. CASE DataTooManyHops
  BY <1>17 DEF DataTooManyHops, Reading, Cut
<1>18. CASE ReadFail
  BY <1>18, CountErrorsFact DEF ReadFail, EndCommand
<1>19. CASE Stall
  BY <1>19 DEF Stall
<1>20. CASE Close
  BY <1>20 DEF Close, WriteConfig
<1>21. CASE Unlock
  BY <1>21 DEF Unlock
<1>22. CASE Die
  BY <1>22 DEF Die, Ended
<1>23. CASE Tick
  BY <1>23 DEF Tick, Ended
<1>24. CASE UNCHANGED vars
  BY <1>24 DEF vars
<1>25. QED
  BY <1>1, <1>2, <1>3, <1>4, <1>5, <1>6, <1>7, <1>8, <1>9, <1>10, <1>11,
        <1>12, <1>13, <1>14, <1>15, <1>16, <1>17, <1>18, <1>19, <1>20, <1>21,
        <1>22, <1>23, <1>24
     DEF Next, Command, DataEvent

\* Every step keeps what a written config says.
LEMMA StepQueued ==
  Sorts /\ Envelope /\ Locked /\ QueuedLast /\ QuitKept /\ [Next]_vars
    => QueuedLast'
<1> SUFFICES ASSUME Sorts, Envelope, Locked, QueuedLast, QuitKept, [Next]_vars
             PROVE  QueuedLast'
  OBVIOUS
<1> USE DEF Sorts, Envelope, QueuedLast, process, message, spool, history
<1>1. CASE Other
  BY <1>1, CountErrorsFact DEF Other, Line, Reply, EndCommand
<1>2. CASE Lpwd
  BY <1>2, CountErrorsFact DEF Lpwd, Line, Reply, EndCommand
<1>3. CASE AdminCommand
  <2>1. PICK w \in Nat : Admin(w)
    BY <1>3, AdminFact
  <2>2. QED
    BY <2>1, CountErrorsFact DEF Admin, Line, AdminMayRun, Reply, EndCommand
<1>4. CASE Helo
  BY <1>4, CountErrorsFact DEF Helo, Line, Reply, EndCommand
<1>5. CASE Mail
  BY <1>5, CountErrorsFact DEF Mail, Line, Reply, EndCommand
<1>6. CASE Rcpt
  BY <1>6, CountErrorsFact DEF Rcpt, Line, Reply, EndCommand
<1>7. CASE Rset
  BY <1>7, CountErrorsFact DEF Rset, Line, Reply, EndCommand
<1>8. CASE DataOutOfSequence
  BY <1>8, CountErrorsFact DEF DataOutOfSequence, Line, Reply, EndCommand
<1>9. CASE DataStart
  BY <1>9, CountErrorsFact DEF DataStart, Line, Reply, EndCommand
<1>10. CASE Quit
  BY <1>10 DEF Quit, Line
<1>11. CASE DataEnd
  BY <1>11, CountErrorsFact DEF DataEnd, Reading, Refuse, Accept, KeepInData,
        Reply, EndCommand
<1>12. CASE DataReadFail
  BY <1>12, CountErrorsFact DEF DataReadFail, Reading, Refuse, Accept,
        KeepInData, Cut, Reply, EndCommand
<1>13. CASE DataErrorLimit
  BY <1>13, CountErrorsFact DEF DataErrorLimit, Accept, EndCommand,
        KeepInData, Cut
<1>14. CASE DataWriteFail
  BY <1>14, CountErrorsFact DEF DataWriteFail, Reading, Refuse, KeepInData,
        Cut, Reply, EndCommand
<1>15. CASE DataHuge
  BY <1>15, CountErrorsFact DEF DataHuge, Reading, Refuse, KeepInData, Cut,
        Reply, EndCommand
<1>16. CASE DataTooBig
  BY <1>16 DEF DataTooBig, Reading
<1>17. CASE DataTooManyHops
  BY <1>17 DEF DataTooManyHops, Reading, Cut
<1>18. CASE ReadFail
  BY <1>18, CountErrorsFact DEF ReadFail, EndCommand
<1>19. CASE Stall
  BY <1>19 DEF Stall
<1>20. CASE Close
  BY <1>20 DEF Close, WriteConfig, Locked
<1>21. CASE Unlock
  BY <1>21 DEF Unlock, QuitKept
<1>22. CASE Die
  BY <1>22 DEF Die, Ended
<1>23. CASE Tick
  BY <1>23 DEF Tick, Ended
<1>24. CASE UNCHANGED vars
  BY <1>24 DEF vars
<1>25. QED
  BY <1>1, <1>2, <1>3, <1>4, <1>5, <1>6, <1>7, <1>8, <1>9, <1>10, <1>11,
        <1>12, <1>13, <1>14, <1>15, <1>16, <1>17, <1>18, <1>19, <1>20, <1>21,
        <1>22, <1>23, <1>24
     DEF Next, Command, DataEvent

\* What was accepted last stays the message at hand until another is begun.
LEMMA StepLast ==
  Flags /\ Sorts /\ Named /\ Envelope /\ LastKept /\ DataKept /\ [Next]_vars
    => LastKept' /\ DataKept'
<1> SUFFICES ASSUME Flags, Sorts, Named, Envelope, LastKept, DataKept, [Next]_vars
             PROVE  LastKept' /\ DataKept'
  OBVIOUS
<1> USE ReceiverAssumption DEF Sorts, Named, Envelope, LastKept, DataKept, process, message, spool, history
<1>1. CASE Other
  BY <1>1, CountErrorsFact DEF Other, Line, Reply, EndCommand
<1>2. CASE Lpwd
  BY <1>2, CountErrorsFact DEF Lpwd, Line, Reply, EndCommand
<1>3. CASE AdminCommand
  <2>1. PICK w \in Nat : Admin(w)
    BY <1>3, AdminFact
  <2>2. QED
    BY <2>1, CountErrorsFact DEF Admin, Line, AdminMayRun, Reply, EndCommand
<1>4. CASE Helo
  BY <1>4, CountErrorsFact DEF Helo, Line, Reply, EndCommand
<1>5. CASE Mail
  BY <1>5, CountErrorsFact DEF Mail, Line, Reply, EndCommand
<1>6. CASE Rcpt
  BY <1>6, CountErrorsFact DEF Rcpt, Line, Reply, EndCommand
<1>7. CASE Rset
  BY <1>7, CountErrorsFact DEF Rset, Line, Reply, EndCommand
<1>8. CASE DataOutOfSequence
  BY <1>8, CountErrorsFact DEF DataOutOfSequence, Line, Reply, EndCommand
<1>9. CASE DataStart
  BY <1>9, CountErrorsFact DEF DataStart, Line, Reply, EndCommand
<1>10. CASE Quit
  BY <1>10 DEF Quit, Line
<1>11. CASE DataEnd
  <2>1. CASE pretending
    BY <1>11, <2>1, CountErrorsFact
       DEF DataEnd, Reading, Refuse, KeepInData, Reply, EndCommand
  <2>2. CASE ~pretending
    <3>1. /\ phase = "data" /\ Accept(0, 1) /\ KeepInData
          /\ \/ /\ data' = [data EXCEPT ![name] = IF @ = "open" THEN "whole" ELSE @]
                /\ UNCHANGED silent
             \/ data' = Cut(name) /\ silent' = TRUE
      BY <1>11, <2>2 DEF DataEnd, Reading
    <3>2. /\ phase' \in {"cmd", "close"} /\ errors' >= errors
          /\ last' = name /\ status' = CON_DATA /\ name' = name
      BY <3>1, CountErrorsFact DEF Accept, EndCommand, KeepInData
    <3>3. data'[name] # "none"
      BY <2>2, <3>1 DEF Cut
    <3>4. errors = 0 /\ ~silent' => data'[name] = "whole"
      BY <2>2, <3>1
    <3>5. QED
      BY <3>2, <3>3, <3>4
  <2>3. QED
    BY <2>1, <2>2
<1>12. CASE DataReadFail
  <2>1. CASE pretending
    BY <1>12, <2>1, CountErrorsFact
       DEF DataReadFail, Reading, Refuse, KeepInData, Reply, EndCommand
  <2>2. CASE ~pretending
    <3>1. /\ phase = "data" /\ Accept(1, 2) /\ KeepInData /\ data' = Cut(name)
      BY <1>12, <2>2 DEF DataReadFail, Reading
    <3>2. /\ phase' \in {"cmd", "close"} /\ errors' # 0
          /\ last' = name /\ status' = CON_DATA /\ name' = name
      BY <3>1, CountErrorsFact DEF Accept, EndCommand, KeepInData, CountErrors
    <3>3. data'[name] # "none"
      BY <2>2, <3>1 DEF Cut
    <3>4. QED
      BY <3>2, <3>3
  <2>3. QED
    BY <2>1, <2>2
<1>13. CASE DataErrorLimit
  BY <1>13, CountErrorsFact DEF DataErrorLimit, Accept, EndCommand,
        KeepInData, Cut
<1>14. CASE DataWriteFail
  BY <1>14, CountErrorsFact DEF DataWriteFail, Reading, Refuse, KeepInData,
        Cut, Reply, EndCommand
<1>15. CASE DataHuge
  BY <1>15, CountErrorsFact DEF DataHuge, Reading, Refuse, KeepInData, Cut,
        Reply, EndCommand
<1>16. CASE DataTooBig
  BY <1>16 DEF DataTooBig, Reading
<1>17. CASE DataTooManyHops
  BY <1>17 DEF DataTooManyHops, Reading, Cut
<1>18. CASE ReadFail
  BY <1>18, CountErrorsFact DEF ReadFail, EndCommand
<1>19. CASE Stall
  BY <1>19 DEF Stall
<1>20. CASE Close
  BY <1>20 DEF Close, WriteConfig
<1>21. CASE Unlock
  BY <1>21 DEF Unlock
<1>22. CASE Die
  BY <1>22 DEF Die, Ended
<1>23. CASE Tick
  BY <1>23 DEF Tick, Ended
<1>24. CASE UNCHANGED vars
  BY <1>24 DEF vars
<1>25. QED
  BY <1>1, <1>2, <1>3, <1>4, <1>5, <1>6, <1>7, <1>8, <1>9, <1>10, <1>11,
        <1>12, <1>13, <1>14, <1>15, <1>16, <1>17, <1>18, <1>19, <1>20, <1>21,
        <1>22, <1>23, <1>24
     DEF Next, Command, DataEvent

\* The session that ends in QUIT queues what it accepted.
LEMMA StepQuit ==
  Sorts /\ Named /\ Envelope /\ QuitKept /\ [Next]_vars
    => QuitKept'
<1> SUFFICES ASSUME Sorts, Named, Envelope, QuitKept, [Next]_vars
             PROVE  QuitKept'
  OBVIOUS
<1> USE ReceiverAssumption DEF Sorts, Named, Envelope, QuitKept, process, message, spool, history
<1>1. CASE Other
  BY <1>1, CountErrorsFact DEF Other, Line, Reply, EndCommand
<1>2. CASE Lpwd
  BY <1>2, CountErrorsFact DEF Lpwd, Line, Reply, EndCommand
<1>3. CASE AdminCommand
  <2>1. PICK w \in Nat : Admin(w)
    BY <1>3, AdminFact
  <2>2. QED
    BY <2>1, CountErrorsFact DEF Admin, Line, AdminMayRun, Reply, EndCommand
<1>4. CASE Helo
  BY <1>4, CountErrorsFact DEF Helo, Line, Reply, EndCommand
<1>5. CASE Mail
  BY <1>5, CountErrorsFact DEF Mail, Line, Reply, EndCommand
<1>6. CASE Rcpt
  BY <1>6, CountErrorsFact DEF Rcpt, Line, Reply, EndCommand
<1>7. CASE Rset
  BY <1>7, CountErrorsFact DEF Rset, Line, Reply, EndCommand
<1>8. CASE DataOutOfSequence
  BY <1>8, CountErrorsFact DEF DataOutOfSequence, Line, Reply, EndCommand
<1>9. CASE DataStart
  BY <1>9, CountErrorsFact DEF DataStart, Line, Reply, EndCommand
<1>10. CASE Quit
  <2>1. phase' = "close" /\ status' # CON_DATA
    BY <1>10 DEF Quit
  <2>2. QED
    BY <2>1
<1>11. CASE DataEnd
  BY <1>11, CountErrorsFact DEF DataEnd, Reading, Refuse, Accept, KeepInData,
        Reply, EndCommand
<1>12. CASE DataReadFail
  BY <1>12, CountErrorsFact DEF DataReadFail, Reading, Refuse, Accept,
        KeepInData, Cut, Reply, EndCommand
<1>13. CASE DataErrorLimit
  BY <1>13, CountErrorsFact DEF DataErrorLimit, Accept, EndCommand,
        KeepInData, Cut
<1>14. CASE DataWriteFail
  BY <1>14, CountErrorsFact DEF DataWriteFail, Reading, Refuse, KeepInData,
        Cut, Reply, EndCommand
<1>15. CASE DataHuge
  BY <1>15, CountErrorsFact DEF DataHuge, Reading, Refuse, KeepInData, Cut,
        Reply, EndCommand
<1>16. CASE DataTooBig
  BY <1>16 DEF DataTooBig, Reading
<1>17. CASE DataTooManyHops
  BY <1>17 DEF DataTooManyHops, Reading, Cut
<1>18. CASE ReadFail
  BY <1>18, CountErrorsFact DEF ReadFail, EndCommand
<1>19. CASE Stall
  BY <1>19 DEF Stall
<1>20. CASE Close
  BY <1>20 DEF Close, WriteConfig
<1>21. CASE Unlock
  BY <1>21 DEF Unlock
<1>22. CASE Die
  BY <1>22 DEF Die, Ended
<1>23. CASE Tick
  BY <1>23 DEF Tick, Ended
<1>24. CASE UNCHANGED vars
  BY <1>24 DEF vars
<1>25. QED
  BY <1>1, <1>2, <1>3, <1>4, <1>5, <1>6, <1>7, <1>8, <1>9, <1>10, <1>11,
        <1>12, <1>13, <1>14, <1>15, <1>16, <1>17, <1>18, <1>19, <1>20, <1>21,
        <1>22, <1>23, <1>24
     DEF Next, Command, DataEvent

\* No command returns to CON_NONE.
LEMMA StepMail ==
  Sorts /\ Envelope /\ MailLeavesNone /\ [Next]_vars => MailLeavesNone'
<1> SUFFICES ASSUME Sorts, Envelope, MailLeavesNone, [Next]_vars
             PROVE  MailLeavesNone'
  OBVIOUS
<1> USE DEF Sorts, MailLeavesNone, process, message, spool, history
<1>1. CASE Other
  BY <1>1, CountErrorsFact DEF Other, Line, Reply, EndCommand
<1>2. CASE Lpwd
  BY <1>2, CountErrorsFact DEF Lpwd, Line, Reply, EndCommand
<1>3. CASE AdminCommand
  <2>1. PICK w \in Nat : Admin(w)
    BY <1>3, AdminFact
  <2>2. QED
    BY <2>1, CountErrorsFact DEF Admin, Line, AdminMayRun, Reply, EndCommand
<1>4. CASE Helo
  BY <1>4, CountErrorsFact DEF Helo, Line, Reply, EndCommand
<1>5. CASE Mail
  BY <1>5, CountErrorsFact DEF Mail, Line, Reply, EndCommand
<1>6. CASE Rcpt
  BY <1>6, CountErrorsFact DEF Rcpt, Line, Reply, EndCommand
<1>7. CASE Rset
  BY <1>7, CountErrorsFact DEF Rset, Line, Reply, EndCommand
<1>8. CASE DataOutOfSequence
  BY <1>8, CountErrorsFact DEF DataOutOfSequence, Line, Reply, EndCommand
<1>9. CASE DataStart
  BY <1>9, CountErrorsFact DEF DataStart, Line, Reply, EndCommand
<1>10. CASE Quit
  BY <1>10 DEF Quit, Line
<1>11. CASE DataEnd
  <2>1. status > CON_NONE
    BY <1>11 DEF DataEnd, Reading, Envelope
  <2>2. status' \in {status, CON_DATA} /\ mailSeen' = mailSeen
    BY <1>11 DEF DataEnd, Refuse, Accept, KeepInData
  <2>3. QED
    BY <2>1, <2>2
<1>12. CASE DataReadFail
  <2>1. status > CON_NONE
    BY <1>12 DEF DataReadFail, Reading, Envelope
  <2>2. status' \in {status, CON_DATA} /\ mailSeen' = mailSeen
    BY <1>12 DEF DataReadFail, Refuse, Accept, KeepInData
  <2>3. QED
    BY <2>1, <2>2
<1>13. CASE DataErrorLimit
  <2>1. status > CON_NONE
    BY <1>13 DEF DataErrorLimit, Reading, Envelope
  <2>2. status' \in {status, CON_DATA} /\ mailSeen' = mailSeen
    BY <1>13 DEF DataErrorLimit, Refuse, Accept, KeepInData
  <2>3. QED
    BY <2>1, <2>2
<1>14. CASE DataWriteFail
  BY <1>14, CountErrorsFact DEF DataWriteFail, Reading, Refuse, KeepInData,
        Cut, Reply, EndCommand
<1>15. CASE DataHuge
  BY <1>15, CountErrorsFact DEF DataHuge, Reading, Refuse, KeepInData, Cut,
        Reply, EndCommand
<1>16. CASE DataTooBig
  BY <1>16 DEF DataTooBig, Reading
<1>17. CASE DataTooManyHops
  BY <1>17 DEF DataTooManyHops, Reading, Cut
<1>18. CASE ReadFail
  BY <1>18, CountErrorsFact DEF ReadFail, EndCommand
<1>19. CASE Stall
  BY <1>19 DEF Stall
<1>20. CASE Close
  BY <1>20 DEF Close, WriteConfig
<1>21. CASE Unlock
  BY <1>21 DEF Unlock
<1>22. CASE Die
  BY <1>22 DEF Die, Ended
<1>23. CASE Tick
  BY <1>23 DEF Tick, Ended
<1>24. CASE UNCHANGED vars
  BY <1>24 DEF vars
<1>25. QED
  BY <1>1, <1>2, <1>3, <1>4, <1>5, <1>6, <1>7, <1>8, <1>9, <1>10, <1>11,
        <1>12, <1>13, <1>14, <1>15, <1>16, <1>17, <1>18, <1>19, <1>20, <1>21,
        <1>22, <1>23, <1>24
     DEF Next, Command, DataEvent

\* The session never leaves its types: Receiver::start and the handlers it
\* calls, for every error limit, session length and number of lines.
THEOREM Typing == Spec => [](TypeOK /\ Named)
<1>1. Init => TypeOK /\ Named
  BY InitIInv DEF IInv
<1>2. TypeOK /\ Named /\ [Next]_vars => (TypeOK /\ Named)'
  BY StepFlags, StepSorts DEF TypeOK
<1>3. QED
  BY <1>1, <1>2, PTL DEF Spec

\* The inductive invariant.
THEOREM Inductive == Spec => []IInv
<1>1. IInv /\ [Next]_vars => IInv'
  BY StepFlags, StepSorts, StepEnvelope, StepLocked, StepQueued, StepLast,
     StepQuit DEF IInv, TypeOK
<1>2. QED
  BY InitIInv, <1>1, PTL DEF Spec

\* Whatever the client sends, a queued message has a sender, an accepted DATA
\* and exactly the recipients acknowledged since the last RSET.
THEOREM QueuedEnvelopeHolds == Spec => []QueuedEnvelope
<1>1. IInv => QueuedEnvelope
  BY DEF IInv, QueuedLast, QueuedEnvelope
<1>2. QED
  BY Inductive, <1>1, PTL

\* What the client was told last is accepted for delivery is queued at the end
\* of a session that comes to its QUIT, with its data and all its recipients.
THEOREM DoneIsQueuedHolds == Spec => []DoneIsQueued
<1>1. IInv => DoneIsQueued
  <2> SUFFICES ASSUME IInv, QuitReached, last # NoName, ~silent
               PROVE  /\ last = name
                      /\ conf[last] = told /\ told # {}
                      /\ data[last] # "none"
                      /\ errors = 0 => data[last] = "whole"
    BY DEF DoneIsQueued
  <2>1. /\ last = name /\ status \in {CON_DATA, CON_DONE}
        /\ data[last] # "none"
        /\ errors = 0 => data[last] = "whole"
    BY DEF IInv, LastKept
  <2>2. status = CON_DONE
    BY <2>1 DEF IInv, QuitReached, QuitKept, Envelope
  <2>3. conf[name] = told
    BY <2>2 DEF IInv, QuitReached, QuitKept
  <2>4. told # {}
    BY <2>2 DEF IInv, Envelope
  <2>5. QED
    BY <2>1, <2>3, <2>4
<1>2. QED
  BY Inductive, <1>1, PTL

\* No L-command is carried out once a mail command was accepted, RSET included.
THEOREM AdminBeforeMailHolds == Spec => AdminBeforeMail
<1>1. Init => MailLeavesNone
  BY DEF Init, MailLeavesNone
<1>2. Sorts /\ MailLeavesNone /\ [Next]_vars => [adminOps' # adminOps => ~mailSeen]_vars
  <2> SUFFICES ASSUME Sorts, MailLeavesNone, Next, adminOps' # adminOps
               PROVE  ~mailSeen
    OBVIOUS
  <2>1. AdminCommand
    BY DEF Next, Command, DataEvent, Other, Lpwd, Helo, Mail, Rcpt, Rset,
           DataOutOfSequence, DataStart, Quit, DataEnd, DataReadFail, Refuse,
           Accept, KeepInData, DataErrorLimit, DataWriteFail, DataHuge,
           DataTooBig, DataTooManyHops, ReadFail, Stall, Close, Unlock, Die,
           Tick, history
  <2>2. status = CON_NONE
    <3>1. PICK w \in Nat : Admin(w)
      BY <2>1, AdminFact
    <3>2. QED
      BY <3>1 DEF Admin, AdminMayRun
  <2>3. QED
    BY <2>2 DEF MailLeavesNone
<1>3. QED
  BY <1>1, <1>2, StepMail, Inductive, PTL DEF Spec, IInv, TypeOK, AdminBeforeMail

\* A message that is whole becomes visible to the managers under its lock.
THEOREM QueuedUnderLockHolds == Spec => QueuedUnderLock
<1>1. Sorts /\ Locked /\ [Next]_vars
        => [\A n \in Seconds :
              conf'[n] # conf[n] /\ data[n] = "whole" => lock[n] /\ lock'[n]]_vars
  <2> SUFFICES ASSUME Sorts, Locked, Next,
                      NEW n \in Seconds, conf'[n] # conf[n], data[n] = "whole"
               PROVE  lock[n] /\ lock'[n]
    OBVIOUS
  <2>1. Close
    BY DEF Next, Command, DataEvent, Other, Lpwd, AdminCommand, Ladd, Ldel, Lrld,
           Lcmd, Lshw, Admin, Helo, Mail, Rcpt,
           Rset, DataOutOfSequence, DataStart, Quit, DataEnd, DataReadFail,
           KeepInData, DataErrorLimit, DataWriteFail, DataHuge, DataTooBig,
           DataTooManyHops, ReadFail, Stall, Unlock, Die, Tick, spool
  <2>2. phase = "close" /\ lock' = lock
    BY <2>1 DEF Close
  <2>3. QED
    BY <2>2 DEF Locked
<1>2. QED
  BY <1>1, Inductive, PTL DEF Spec, IInv, TypeOK, QueuedUnderLock

-----------------------------------------------------------------------------
(* What a copy in memory means                                             *)

\* A key has one value, or each value once.
Once(k, mem) ==
  \A i, j \in DOMAIN mem :
    /\ mem[i].key = mem[j].key
    /\ Key(k, mem[i].key).mult => mem[i].val = mem[j].val
    => i = j

\* A copy holds the values the config is protected with, and no other is protected.
Sound(k, mem) ==
  /\ mem \in Seq(Value(k)) /\ Once(k, mem)
  /\ \A v \in Value(k) : v.prot => (v \in ToSet(mem) <=> v \in ToSet(Cleared(k)))

\* A set of numbers has a smallest one.
LEMMA Smallest ==
  ASSUME NEW T \in SUBSET Nat, T # {}
  PROVE  \E m \in T : \A k \in T : m <= k
<1>1. IsWellFoundedOn(OpToRel(<, Nat), Nat)
  BY NatLessThanWellFounded, Zenon
<1>2. PICK m \in T : \A k \in T : <<k, m>> \notin OpToRel(<, Nat)
  BY <1>1, WFMin, Zenon
<1>3. \A k \in T : ~(k < m)
  BY <1>2, Zenon DEF OpToRel
<1> QED BY <1>3

\* The first and the last place of a key.
LEMMA FirstFact ==
  ASSUME NEW T \in SUBSET Nat, T # {}
  PROVE  FirstOf(T) \in T
<1>1. \E m \in T : \A k \in T : m <= k
  BY Smallest
<1> QED BY <1>1, Zenon DEF FirstOf

\* The last place, likewise.
LEMMA LastFact ==
  ASSUME NEW n \in Nat, NEW T \in SUBSET (1..n), T # {}
  PROVE  LastOf(T) \in T
<1> DEFINE U == {n - i : i \in T}
<1>1. U \in SUBSET Nat /\ U # {}
  <2>1. \A i \in T : n - i \in Nat
    OBVIOUS
  <2>2. U \in SUBSET Nat
    BY <2>1
  <2>3. PICK i \in T : TRUE
    OBVIOUS
  <2>4. n - i \in U
    OBVIOUS
  <2> QED BY <2>2, <2>4
<1>2. PICK m \in U : \A j \in U : m <= j
  BY <1>1, Smallest
<1>3. PICK i \in T : m = n - i
  BY <1>2
<1>4. \A j \in T : j <= i
  <2> TAKE j \in T
  <2>1. m <= n - j
    BY <1>2
  <2> QED BY <1>3, <2>1
<1> QED BY <1>3, <1>4, Zenon DEF LastOf

\* What is assumed of the keys of a kind,
LEMMA KeysAssumed ==
  ASSUME NEW k \in Kinds
  PROVE  /\ k \in AllKinds
         /\ \A x \in Keys[k] : IsKey(x)
         /\ \A x, y \in Keys[k] : x.name = y.name => x = y
BY ConfigAssumption

\* of what is read,
LEMMA ReadsAssumed ==
  ASSUME NEW k \in Kinds
  PROVE  /\ Reads[k] \in [Texts -> Texts] /\ Reads[k][NoValue] = NoValue
         /\ \A x \in Texts : Reads[k][x] \in Texts /\ Reads[k][Reads[k][x]] = Reads[k][x]
         /\ \A x \in Keys[k] : Reads[k][x.default] = x.default
<1>1. Reads[k] \in [Texts -> Texts] /\ Reads[k][NoValue] = NoValue
  BY ConfigAssumption
<1>2. \A x \in Texts : Reads[k][Reads[k][x]] = Reads[k][x]
  BY ConfigAssumption
<1>3. \A x \in Keys[k] : Reads[k][x.default] = x.default
  BY ConfigAssumption
<1>4. \A x \in Texts : Reads[k][x] \in Texts
  BY <1>1
<1> QED BY <1>1, <1>2, <1>3, <1>4

\* of where a config is written,
LEMMA HomeAssumed ==
  ASSUME NEW k \in Kinds
  PROVE  /\ Home[k] \in Row(k) /\ Home[k].val # NoValue /\ Home[k].key \in Names(k)
         /\ ~Key(k, Home[k].key).mult /\ ~Key(k, Home[k].key).temp
<1>1. /\ Home[k] \in Row(k) /\ Home[k].val # NoValue
      /\ ~Key(k, Home[k].key).mult /\ ~Key(k, Home[k].key).temp
  BY ConfigAssumption
<1> QED BY <1>1 DEF Row

\* of what is in the storage at first,
LEMMA InitialAssumed ==
  ASSUME NEW k \in Kinds, NEW s \in Initial[k]
  PROVE  /\ s \in Seq(Row(k)) /\ \A i \in DOMAIN s : ~Key(k, s[i].key).temp
         /\ \A i \in DOMAIN s : s[i].key = Home[k].key => s[i].val = Home[k].val
BY ConfigAssumption

\* of the keys that are needed,
LEMMA NeededAssumed ==
  ASSUME NEW k \in Kinds, NEW n \in Needed(k)
  PROVE  /\ n \in Names(k) /\ ~Temporary(k, n)
         /\ k # "list file" => \E i \in DOMAIN Given[k] : Given[k][i].key = n
<1>1. n \in Names(k)
  BY DEF Needed
<1>2. \A m \in Needed(k) :
        ~Temporary(k, m) /\ (k # "list file" => \E i \in DOMAIN Given[k] : Given[k][i].key = m)
  BY ConfigAssumption, Zenon
<1> QED BY <1>1, <1>2, Zenon

\* of the bound,
LEMMA BoundAssumed == MaxFaults \in Nat
BY ConfigAssumption

\* and of the edits.
LEMMA EditsAssumed ==
  ASSUME NEW k \in Kinds, NEW e \in Edits[k]
  PROVE  IsEdit(e) /\ e.key \in Names(k)
BY ConfigAssumption

\* A name stands for a key.
LEMMA KeyFact ==
  ASSUME NEW k \in Kinds, NEW n \in Names(k)
  PROVE  /\ Key(k, n) \in Keys[k] /\ Key(k, n).name = n
         /\ Key(k, n).mult \in BOOLEAN /\ Key(k, n).mand \in BOOLEAN
         /\ Key(k, n).temp \in BOOLEAN
         /\ \A x \in Keys[k] : x.name = n => x = Key(k, n)
         /\ Key(k, n).default \in Texts
<1>1. \E x \in Keys[k] : x.name = n
  BY DEF Names
<1>2. Key(k, n) \in Keys[k] /\ Key(k, n).name = n
  BY <1>1, Zenon DEF Key
<1>3. IsKey(Key(k, n))
  BY <1>2, KeysAssumed, Zenon
<1>4. \A x \in Keys[k] : x.name = n => x = Key(k, n)
  BY <1>2, KeysAssumed, Zenon
<1>5. Key(k, n).default \in Texts
  <2>1. Key(k, n).default \in {x.default : x \in Keys[k]}
    BY <1>2
  <2> QED BY <2>1 DEF Texts
<1>6. {Key(k, n).mult, Key(k, n).mand, Key(k, n).temp} \subseteq BOOLEAN
  BY <1>3, Zenon DEF IsKey
<1>7. Key(k, n).mult \in BOOLEAN
  BY <1>6, Zenon
<1>8. Key(k, n).mand \in BOOLEAN
  BY <1>6, Zenon
<1>9. Key(k, n).temp \in BOOLEAN
  BY <1>6, Zenon
<1> QED BY <1>2, <1>4, <1>5, <1>7, <1>8, <1>9

\* Taking one element out of a sequence.
LEMMA RemoveFact ==
  ASSUME NEW T, NEW s \in Seq(T), NEW i \in 1..Len(s)
  PROVE  /\ RemoveAt(s, i) \in Seq(T)
         /\ Len(s) \in Nat
         /\ Len(RemoveAt(s, i)) = Len(s) - 1
         /\ \A j \in 1..(Len(s) - 1) : RemoveAt(s, i)[j] = IF j < i THEN s[j] ELSE s[j + 1]
<1> DEFINE a == SubSeq(s, 1, i - 1)
           b == SubSeq(s, i + 1, Len(s))
<1>1. Len(s) \in Nat /\ i \in Nat
  BY LenProperties
<1>2. /\ a \in Seq(T) /\ Len(a) = i - 1
      /\ \A j \in 1..(i - 1) : a[j] = s[j]
  <2>1. 1 \in Nat /\ i - 1 \in 0..Len(s)
    BY <1>1
  <2> QED BY <2>1, <1>1
<1>3. /\ b \in Seq(T) /\ Len(b) = Len(s) - i
      /\ \A j \in 1..(Len(s) - i) : b[j] = s[j + i]
  BY <1>1
<1> HIDE DEF a, b
<1>4. /\ a \o b \in Seq(T) /\ Len(a \o b) = Len(a) + Len(b)
      /\ \A j \in 1..(Len(a) + Len(b)) : (a \o b)[j] = IF j <= Len(a) THEN a[j] ELSE b[j - Len(a)]
  BY <1>2, <1>3, ConcatProperties
<1>5. RemoveAt(s, i) = a \o b
  BY DEF RemoveAt, a, b
<1>6. Len(a) + Len(b) = Len(s) - 1
  BY <1>1, <1>2, <1>3
<1>7. ASSUME NEW j \in 1..(Len(s) - 1)
      PROVE  (a \o b)[j] = IF j < i THEN s[j] ELSE s[j + 1]
  <2>1. (a \o b)[j] = IF j <= i - 1 THEN a[j] ELSE b[j - (i - 1)]
    BY <1>2, <1>4, <1>6
  <2>2. CASE j < i
    BY <1>1, <1>2, <2>1, <2>2
  <2>3. CASE ~(j < i)
    <3>1. j - (i - 1) \in 1..(Len(s) - i) /\ (j - (i - 1)) + i = j + 1
      BY <1>1, <2>3
    <3>2. b[j - (i - 1)] = s[j + 1]
      BY <1>3, <3>1
    <3> QED BY <1>1, <2>1, <2>3, <3>2
  <2> QED BY <2>2, <2>3
<1> QED BY <1>1, <1>4, <1>5, <1>6, <1>7

-----------------------------------------------------------------------------
(* Adding a value and taking one out                                       *)

\* A value of a key stands at some place under that key.
LEMMA ValsFact ==
  ASSUME NEW s, NEW n, NEW x
  PROVE  x \in Vals(s, n) <=> \E i \in DOMAIN s : s[i].key = n /\ s[i].val = x
BY DEF Vals, ToSet

\* What is in a copy.
LEMMA ItemFact ==
  ASSUME NEW k, NEW mem \in Seq(Value(k))
  PROVE  /\ Len(mem) \in Nat /\ DOMAIN mem = 1..Len(mem)
         /\ \A i \in DOMAIN mem : /\ mem[i] \in Value(k) /\ mem[i].key \in Names(k)
                                  /\ mem[i].val \in Texts /\ mem[i].prot \in BOOLEAN
<1>1. Len(mem) \in Nat /\ DOMAIN mem = 1..Len(mem) /\ mem \in [1..Len(mem) -> Value(k)]
  BY LenProperties
<1>2. \A i \in DOMAIN mem : mem[i] \in Value(k)
  BY <1>1
<1>3. \A v \in Value(k) : v.key \in Names(k) /\ v.val \in Texts /\ v.prot \in BOOLEAN
  BY DEF Value
<1> QED BY <1>1, <1>2, <1>3

\* A value or a row that is made of parts of their types has its type.
LEMMA MakeFact ==
  ASSUME NEW k, NEW n \in Names(k), NEW x \in Texts, NEW b \in BOOLEAN
  PROVE  /\ [key |-> n, val |-> x, prot |-> b] \in Value(k)
         /\ Reads[k][x] = x => [key |-> n, val |-> x] \in Row(k)
BY DEF Value, Row

\* What is in the storage.
LEMMA RowFact ==
  ASSUME NEW k, NEW rows \in Seq(Row(k))
  PROVE  /\ Len(rows) \in Nat /\ DOMAIN rows = 1..Len(rows)
         /\ \A i \in DOMAIN rows : /\ rows[i] \in Row(k) /\ rows[i].key \in Names(k)
                                   /\ rows[i].val \in Texts /\ Reads[k][rows[i].val] = rows[i].val
<1>1. Len(rows) \in Nat /\ DOMAIN rows = 1..Len(rows) /\ rows \in [1..Len(rows) -> Row(k)]
  BY LenProperties
<1>2. \A i \in DOMAIN rows : rows[i] \in Row(k)
  BY <1>1
<1>3. \A r \in Row(k) : r.key \in Names(k) /\ r.val \in Texts /\ Reads[k][r.val] = r.val
  BY DEF Row
<1> QED BY <1>1, <1>2, <1>3

\* A value that is not there, under a key that may take it, comes last.
LEMMA AppendFact ==
  ASSUME NEW k \in Kinds, NEW mem, Sound(k, mem), NEW v \in Value(k), ~v.prot,
         \A i \in DOMAIN mem :
           mem[i].key = v.key => Key(k, v.key).mult /\ mem[i].val # v.val
  PROVE  /\ Sound(k, Append(mem, v))
         /\ \A n : Vals(Append(mem, v), n) = Vals(mem, n) \cup IF n = v.key THEN {v.val} ELSE {}
<1> DEFINE new == Append(mem, v)
<1>1. mem \in Seq(Value(k)) /\ Once(k, mem)
  BY DEF Sound
<1>2. Len(mem) \in Nat /\ DOMAIN mem = 1..Len(mem)
  BY <1>1, ItemFact
<1>3. /\ new \in Seq(Value(k)) /\ DOMAIN new = 1..(Len(mem) + 1)
      /\ \A i \in 1..Len(mem) : new[i] = mem[i]
      /\ new[Len(mem) + 1] = v
  BY <1>1, AppendProperties, LenProperties
<1> HIDE DEF new
<1>4. \A w : w \in ToSet(new) <=> w \in ToSet(mem) \/ w = v
  BY <1>2, <1>3 DEF ToSet
<1>5. Once(k, new)
  <2> SUFFICES ASSUME NEW i \in DOMAIN new, NEW j \in DOMAIN new, new[i].key = new[j].key,
                      Key(k, new[i].key).mult => new[i].val = new[j].val
               PROVE  i = j
    BY DEF Once
  <2>1. CASE i \in 1..Len(mem) /\ j \in 1..Len(mem)
    BY <1>1, <1>2, <1>3, <2>1 DEF Once
  <2>2. CASE i \notin 1..Len(mem)
    <3>1. i = Len(mem) + 1 /\ new[i] = v
      BY <1>2, <1>3, <2>2
    <3>2. j \in 1..Len(mem) => FALSE
      BY <1>2, <1>3, <3>1
    <3> QED BY <1>2, <1>3, <3>1, <3>2
  <2>3. CASE j \notin 1..Len(mem)
    <3>1. j = Len(mem) + 1 /\ new[j] = v
      BY <1>2, <1>3, <2>3
    <3>2. i \in 1..Len(mem) => FALSE
      BY <1>2, <1>3, <3>1
    <3> QED BY <1>2, <1>3, <3>1, <3>2
  <2> QED BY <2>1, <2>2, <2>3
<1>6. \A w \in Value(k) : w.prot => (w \in ToSet(new) <=> w \in ToSet(Cleared(k)))
  BY <1>4 DEF Sound
<1>7. ASSUME NEW n PROVE Vals(new, n) = Vals(mem, n) \cup IF n = v.key THEN {v.val} ELSE {}
  BY <1>4 DEF Vals
<1> QED BY <1>3, <1>5, <1>6, <1>7 DEF Sound, new

\* A value that is not protected goes, and no other.
LEMMA CutFact ==
  ASSUME NEW k \in Kinds, NEW mem, Sound(k, mem), NEW i \in DOMAIN mem, ~mem[i].prot
  PROVE  /\ Sound(k, RemoveAt(mem, i))
         /\ \A j \in DOMAIN RemoveAt(mem, i) : RemoveAt(mem, i)[j].key = mem[i].key =>
              Key(k, mem[i].key).mult /\ RemoveAt(mem, i)[j].val # mem[i].val
         /\ \A n : n # mem[i].key => Vals(RemoveAt(mem, i), n) = Vals(mem, n)
         /\ Vals(RemoveAt(mem, i), mem[i].key) =
              IF Key(k, mem[i].key).mult THEN Vals(mem, mem[i].key) \ {mem[i].val} ELSE {}
<1> DEFINE new == RemoveAt(mem, i)
<1>1. mem \in Seq(Value(k)) /\ Once(k, mem)
  BY DEF Sound
<1>2. Len(mem) \in Nat /\ DOMAIN mem = 1..Len(mem)
  BY <1>1, ItemFact
<1>3. /\ new \in Seq(Value(k)) /\ Len(new) = Len(mem) - 1
      /\ \A j \in 1..(Len(mem) - 1) : new[j] = IF j < i THEN mem[j] ELSE mem[j + 1]
  BY <1>1, <1>2, RemoveFact
<1>4. DOMAIN new = 1..(Len(mem) - 1)
  BY <1>3, LenProperties
<1> HIDE DEF new
<1> DEFINE from(j) == IF j < i THEN j ELSE j + 1
<1>5. ASSUME NEW j \in DOMAIN new
      PROVE  from(j) \in DOMAIN mem /\ from(j) # i /\ new[j] = mem[from(j)]
  BY <1>2, <1>3, <1>4
<1>6. ASSUME NEW j \in DOMAIN mem, j # i
      PROVE  \E m \in DOMAIN new : new[m] = mem[j]
  <2>1. CASE j < i
    <3>1. j \in 1..(Len(mem) - 1)
      BY <1>2, <2>1
    <3> QED BY <1>3, <1>4, <2>1, <3>1
  <2>2. CASE ~(j < i)
    <3>1. j - 1 \in 1..(Len(mem) - 1) /\ ~(j - 1 < i) /\ (j - 1) + 1 = j
      BY <1>2, <1>6, <2>2
    <3>2. new[j - 1] = mem[j]
      BY <1>3, <3>1
    <3> QED BY <1>4, <3>1, <3>2
  <2> QED BY <2>1, <2>2
<1>7. Once(k, new)
  <2> SUFFICES ASSUME NEW m \in DOMAIN new, NEW j \in DOMAIN new, new[m].key = new[j].key,
                      Key(k, new[m].key).mult => new[m].val = new[j].val
               PROVE  m = j
    BY DEF Once
  <2>1. from(m) = from(j)
    BY <1>1, <1>5 DEF Once
  <2> QED BY <1>2, <1>4, <2>1
<1>8. ASSUME NEW w \in Value(k), w.prot
      PROVE  w \in ToSet(new) <=> w \in ToSet(Cleared(k))
  <2>1. w \in ToSet(mem) <=> w \in ToSet(Cleared(k))
    BY <1>8 DEF Sound
  <2>2. w \in ToSet(new) => w \in ToSet(mem)
    BY <1>5 DEF ToSet
  <2>3. w \in ToSet(mem) => w \in ToSet(new)
    BY <1>6, <1>8 DEF ToSet
  <2> QED BY <2>1, <2>2, <2>3
<1>9. ASSUME NEW j \in DOMAIN new, new[j].key = mem[i].key
      PROVE  Key(k, mem[i].key).mult /\ new[j].val # mem[i].val
  <2>1. from(j) \in DOMAIN mem /\ from(j) # i /\ new[j] = mem[from(j)]
    BY <1>5
  <2>2. mem[i].key \in Names(k)
    BY <1>1, ItemFact
  <2>3. Key(k, mem[i].key).mult \in BOOLEAN
    BY <2>2, KeyFact
  <2>4. ~(mem[i].key = mem[from(j)].key /\ (Key(k, mem[i].key).mult => mem[i].val = mem[from(j)].val))
    BY <1>1, <2>1, Zenon DEF Once
  <2> QED BY <1>9, <2>1, <2>3, <2>4
<1>10. ASSUME NEW n, n # mem[i].key PROVE Vals(new, n) = Vals(mem, n)
  <2>1. ASSUME NEW x PROVE x \in Vals(new, n) <=> x \in Vals(mem, n)
    <3>1. x \in Vals(new, n) => x \in Vals(mem, n)
      BY <1>5, ValsFact
    <3>2. ASSUME x \in Vals(mem, n) PROVE x \in Vals(new, n)
      <4>1. PICK j \in DOMAIN mem : mem[j].key = n /\ mem[j].val = x
        BY <3>2, ValsFact
      <4>2. j # i
        BY <1>10, <4>1
      <4> QED BY <1>6, <4>1, <4>2, ValsFact
    <3> QED BY <3>1, <3>2
  <2> QED BY <2>1
<1>11. Vals(new, mem[i].key) =
         IF Key(k, mem[i].key).mult THEN Vals(mem, mem[i].key) \ {mem[i].val} ELSE {}
  <2> DEFINE n == mem[i].key
  <2> HIDE DEF n
  <2>1. ASSUME NEW x PROVE x \in Vals(new, n) <=>
              Key(k, n).mult /\ x \in Vals(mem, n) \ {mem[i].val}
    <3>1. ASSUME x \in Vals(new, n) PROVE Key(k, n).mult /\ x \in Vals(mem, n) \ {mem[i].val}
      <4>1. PICK j \in DOMAIN new : new[j].key = n /\ new[j].val = x
        BY <3>1, ValsFact
      <4>2. Key(k, n).mult /\ x # mem[i].val
        BY <1>9, <4>1 DEF n
      <4>3. x \in Vals(mem, n)
        BY <1>5, <4>1, ValsFact
      <4> QED BY <4>2, <4>3
    <3>2. ASSUME x \in Vals(mem, n) \ {mem[i].val} PROVE x \in Vals(new, n)
      <4>1. PICK j \in DOMAIN mem : mem[j].key = n /\ mem[j].val = x
        BY <3>2, ValsFact
      <4>2. j # i
        BY <3>2, <4>1
      <4> QED BY <1>6, <4>1, <4>2, ValsFact
    <3> QED BY <3>1, <3>2
  <2> QED BY <2>1 DEF n
<1> QED BY <1>3, <1>7, <1>8, <1>9, <1>10, <1>11 DEF Sound, new

\* What a config is protected with is in each copy, and nothing else is protected.
LEMMA GuardFact ==
  ASSUME NEW k \in Kinds, NEW mem, Sound(k, mem)
  PROVE  /\ \A j \in DOMAIN Given[k] : \E i \in DOMAIN mem :
              mem[i].key = Given[k][j].key /\ mem[i].val = Given[k][j].val /\ mem[i].prot
         /\ \A i \in DOMAIN mem : mem[i].prot => \E j \in DOMAIN Given[k] :
              Given[k][j].key = mem[i].key /\ Given[k][j].val = mem[i].val
<1> DEFINE safe == Cleared(k)
<1>1. mem \in Seq(Value(k)) /\ \A v \in Value(k) : v.prot => (v \in ToSet(mem) <=> v \in ToSet(safe))
  BY DEF Sound
<1>2. Given[k] \in Seq(Row(k))
  BY ConfigAssumption
<1>3. \A j \in DOMAIN Given[k] : Given[k][j].key \in Names(k) /\ Given[k][j].val \in Texts
  BY <1>2, RowFact
<1>4. /\ DOMAIN safe = DOMAIN Given[k]
      /\ \A j \in DOMAIN Given[k] : safe[j] = [key |-> Given[k][j].key, val |-> Given[k][j].val, prot |-> TRUE]
  BY DEF Cleared
<1> HIDE DEF safe
<1>5. ASSUME NEW j \in DOMAIN Given[k]
      PROVE  \E i \in DOMAIN mem :
               mem[i].key = Given[k][j].key /\ mem[i].val = Given[k][j].val /\ mem[i].prot
  <2>1. safe[j] \in ToSet(safe)
    BY <1>4 DEF ToSet
  <2>2. safe[j] \in Value(k) /\ safe[j].prot
    <3>1. [key |-> Given[k][j].key, val |-> Given[k][j].val, prot |-> TRUE] \in Value(k)
      BY <1>3, MakeFact
    <3> QED BY <1>4, <3>1
  <2>3. safe[j] \in ToSet(mem)
    BY <1>1, <2>1, <2>2
  <2>4. PICK i \in DOMAIN mem : mem[i] = safe[j]
    BY <2>3 DEF ToSet
  <2>5. mem[i] = [key |-> Given[k][j].key, val |-> Given[k][j].val, prot |-> TRUE]
    BY <1>4, <2>4
  <2> QED BY <2>5
<1>6. ASSUME NEW i \in DOMAIN mem, mem[i].prot
      PROVE  \E j \in DOMAIN Given[k] : Given[k][j].key = mem[i].key /\ Given[k][j].val = mem[i].val
  <2>1. mem[i] \in Value(k) /\ mem[i] \in ToSet(mem)
    BY <1>1, ItemFact DEF ToSet
  <2>2. mem[i] \in ToSet(safe)
    BY <1>1, <1>6, <2>1
  <2>3. PICK j \in DOMAIN safe : mem[i] = safe[j]
    BY <2>2 DEF ToSet
  <2>4. mem[i] = [key |-> Given[k][j].key, val |-> Given[k][j].val, prot |-> TRUE]
    BY <1>4, <2>3
  <2> QED BY <1>4, <2>4
<1> QED BY <1>5, <1>6

\* A config that holds nothing else is a copy.
LEMMA ClearedFact ==
  ASSUME NEW k \in Kinds
  PROVE  Sound(k, Cleared(k)) /\ \A n : Vals(Cleared(k), n) = Vals(Given[k], n)
<1> DEFINE safe == Cleared(k)
<1>1. Given[k] \in Seq(Row(k))
  BY ConfigAssumption
<1>2. /\ Len(Given[k]) \in Nat /\ DOMAIN Given[k] = 1..Len(Given[k])
      /\ \A j \in DOMAIN Given[k] : Given[k][j].key \in Names(k) /\ Given[k][j].val \in Texts
  BY <1>1, RowFact
<1>3. /\ DOMAIN safe = DOMAIN Given[k]
      /\ \A j \in DOMAIN Given[k] : safe[j] = [key |-> Given[k][j].key, val |-> Given[k][j].val, prot |-> TRUE]
      /\ safe = [j \in DOMAIN Given[k] |-> safe[j]]
  BY DEF Cleared
<1> HIDE DEF safe
<1>4. \A j \in DOMAIN Given[k] : safe[j] \in Value(k)
  <2> TAKE j \in DOMAIN Given[k]
  <2>1. [key |-> Given[k][j].key, val |-> Given[k][j].val, prot |-> TRUE] \in Value(k)
    BY <1>2, MakeFact
  <2> QED BY <1>3, <2>1
<1>5. safe \in Seq(Value(k))
  BY <1>2, <1>3, <1>4
<1>6. \A j \in DOMAIN Given[k] : safe[j].key = Given[k][j].key /\ safe[j].val = Given[k][j].val
  <2> TAKE j \in DOMAIN Given[k]
  <2>1. safe[j] = [key |-> Given[k][j].key, val |-> Given[k][j].val, prot |-> TRUE]
    BY <1>3
  <2> QED BY <2>1
<1>7. Once(k, safe)
  <2> SUFFICES ASSUME NEW i \in DOMAIN Given[k], NEW j \in DOMAIN Given[k], safe[i].key = safe[j].key,
                      Key(k, safe[i].key).mult => safe[i].val = safe[j].val
               PROVE  i = j
    BY <1>3 DEF Once
  <2>1. /\ Given[k][i].key = Given[k][j].key
        /\ Key(k, Given[k][i].key).mult => Given[k][i].val = Given[k][j].val
    BY <1>6
  <2> QED BY <2>1, ConfigAssumption
<1>8. ASSUME NEW n, NEW x PROVE x \in Vals(safe, n) <=> x \in Vals(Given[k], n)
  BY <1>3, <1>6, ValsFact
<1>9. \A n : Vals(safe, n) = Vals(Given[k], n)
  BY <1>8
<1> QED BY <1>5, <1>7, <1>9 DEF Sound, safe

\* What the values of a key become when x is added; an empty one is not.
Taken(k, n, old, x) ==
  IF x = NoValue THEN old ELSE IF Key(k, n).mult THEN old \cup {x} ELSE IF Protected(k, n) THEN old ELSE {x}

\* Config::addValue keeps a copy sound and changes the values of one key.
LEMMA AddFact ==
  ASSUME NEW k \in Kinds, NEW mem, Sound(k, mem), NEW v \in Value(k), ~v.prot
  PROVE  /\ Sound(k, AddValue(k, mem, v))
         /\ \A n : Vals(AddValue(k, mem, v), n) =
                     IF n = v.key THEN Taken(k, n, Vals(mem, n), v.val) ELSE Vals(mem, n)
<1> DEFINE same  == Places(mem, v.key)
           first == FirstOf(same)
<1>1. mem \in Seq(Value(k)) /\ Once(k, mem)
  BY DEF Sound
<1>2. /\ Len(mem) \in Nat /\ DOMAIN mem = 1..Len(mem)
      /\ \A i \in DOMAIN mem : mem[i].prot \in BOOLEAN
  BY <1>1, ItemFact
<1>3. v.key \in Names(k) /\ v.val \in Texts
  BY DEF Value
<1>4. Key(k, v.key).mult \in BOOLEAN
  BY <1>3, KeyFact
<1>5. same \in SUBSET DOMAIN mem /\ \A i \in DOMAIN mem : i \in same <=> mem[i].key = v.key
  BY DEF Places
<1>8. CASE v.val = NoValue
  <2>1. AddValue(k, mem, v) = mem
    BY <1>8 DEF AddValue
  <2> QED BY <1>8, <2>1 DEF Taken
<1>6. CASE v.val # NoValue /\ Key(k, v.key).mult
  <2>1. CASE v.val \in Vals(mem, v.key)
    <3>1. AddValue(k, mem, v) = mem
      BY <1>6, <2>1 DEF AddValue
    <3>2. Taken(k, v.key, Vals(mem, v.key), v.val) = Vals(mem, v.key)
      BY <1>6, <2>1 DEF Taken
    <3> QED BY <3>1, <3>2
  <2>2. CASE v.val \notin Vals(mem, v.key)
    <3>1. AddValue(k, mem, v) = Append(mem, v)
      BY <1>6, <2>2 DEF AddValue
    <3>2. \A i \in DOMAIN mem : mem[i].key = v.key => Key(k, v.key).mult /\ mem[i].val # v.val
      BY <1>6, <2>2, ValsFact
    <3>3. /\ Sound(k, Append(mem, v))
          /\ \A n : Vals(Append(mem, v), n) = Vals(mem, n) \cup IF n = v.key THEN {v.val} ELSE {}
      BY <3>2, AppendFact
    <3> QED BY <1>6, <3>1, <3>3 DEF Taken
  <2> QED BY <2>1, <2>2
<1>7. CASE v.val # NoValue /\ ~Key(k, v.key).mult
  <2>1. CASE same = {}
    <3>1. AddValue(k, mem, v) = Append(mem, v)
      BY <1>7, <2>1 DEF AddValue
    <3>2. \A i \in DOMAIN mem : mem[i].key # v.key
      BY <1>5, <2>1
    <3>3. /\ Sound(k, Append(mem, v))
          /\ \A n : Vals(Append(mem, v), n) = Vals(mem, n) \cup IF n = v.key THEN {v.val} ELSE {}
      BY <3>2, AppendFact
    <3>4. Vals(mem, v.key) = {}
      BY <3>2, ValsFact
    <3>5. ~Protected(k, v.key)
      <4>1. \A j \in DOMAIN Given[k] : Given[k][j].key # v.key
        BY <3>2, GuardFact
      <4> QED BY <4>1 DEF Protected, Places
    <3> QED BY <1>7, <3>1, <3>3, <3>4, <3>5 DEF Taken
  <2>2. ASSUME same # {} PROVE first \in DOMAIN mem /\ mem[first].key = v.key
    <3>1. same \in SUBSET Nat
      BY <1>2, <1>5
    <3>2. first \in same
      BY <2>2, <3>1, FirstFact
    <3> QED BY <1>5, <3>2
  <2>3. CASE same # {} /\ mem[first].prot
    <3>1. AddValue(k, mem, v) = mem
      BY <1>7, <2>3 DEF AddValue
    <3>2. Protected(k, v.key)
      <4>1. \E j \in DOMAIN Given[k] : Given[k][j].key = v.key
        BY <2>2, <2>3, GuardFact
      <4> QED BY <1>7, <4>1 DEF Protected, Places
    <3> QED BY <1>7, <3>1, <3>2 DEF Taken
  <2>4. CASE same # {} /\ ~mem[first].prot
    <3> DEFINE cut == RemoveAt(mem, first)
    <3>1. AddValue(k, mem, v) = Append(cut, v)
      BY <1>7, <2>4 DEF AddValue
    <3>2. first \in DOMAIN mem /\ mem[first].key = v.key /\ ~mem[first].prot
      BY <2>2, <2>4
    <3>3. /\ Sound(k, cut)
          /\ \A j \in DOMAIN cut : cut[j].key # v.key
          /\ \A n : n # v.key => Vals(cut, n) = Vals(mem, n)
          /\ Vals(cut, v.key) = {}
      <4> DEFINE f == first
      <4>1. f \in DOMAIN mem /\ ~mem[f].prot
        BY <3>2
      <4> HIDE DEF f
      <4>2. /\ Sound(k, RemoveAt(mem, f))
            /\ \A j \in DOMAIN RemoveAt(mem, f) : RemoveAt(mem, f)[j].key = mem[f].key =>
                  Key(k, mem[f].key).mult /\ RemoveAt(mem, f)[j].val # mem[f].val
            /\ \A n : n # mem[f].key => Vals(RemoveAt(mem, f), n) = Vals(mem, n)
            /\ Vals(RemoveAt(mem, f), mem[f].key) =
                 IF Key(k, mem[f].key).mult THEN Vals(mem, mem[f].key) \ {mem[f].val} ELSE {}
        BY <4>1, CutFact
      <4>3. f = first /\ mem[f].key = v.key
        BY <3>2 DEF f
      <4> QED BY <1>7, <4>2, <4>3
    <3> HIDE DEF cut
    <3>4. /\ Sound(k, Append(cut, v))
          /\ \A n : Vals(Append(cut, v), n) = Vals(cut, n) \cup IF n = v.key THEN {v.val} ELSE {}
      BY <3>3, AppendFact
    <3>5. ~Protected(k, v.key)
      <4>1. ASSUME NEW j \in DOMAIN Given[k], Given[k][j].key = v.key PROVE FALSE
        <5>1. PICK i \in DOMAIN mem : mem[i].key = v.key /\ mem[i].prot
          BY <4>1, GuardFact
        <5>2. i = first
          BY <1>1, <1>7, <3>2, <5>1 DEF Once
        <5> QED BY <3>2, <5>1, <5>2
      <4> QED BY <4>1 DEF Protected, Places
    <3> QED BY <1>7, <3>1, <3>3, <3>4, <3>5 DEF Taken
  <2> QED BY <2>1, <2>3, <2>4
<1> QED BY <1>4, <1>6, <1>7, <1>8

\* Of a key that has one value a copy has what the config is protected with.
LEMMA ProtectedFact ==
  ASSUME NEW k \in Kinds, NEW mem, Sound(k, mem), NEW n
  PROVE  /\ Vals(Given[k], n) \subseteq Vals(mem, n)
         /\ Protected(k, n) => Vals(mem, n) = Vals(Given[k], n) /\ Vals(mem, n) # {}
         /\ ~Key(k, n).mult => \A x, y \in Vals(mem, n) : x = y
<1>1. mem \in Seq(Value(k)) /\ Once(k, mem)
  BY DEF Sound
<1>2. Vals(Given[k], n) \subseteq Vals(mem, n)
  <2> SUFFICES ASSUME NEW x \in Vals(Given[k], n) PROVE x \in Vals(mem, n)
    OBVIOUS
  <2>1. PICK j \in DOMAIN Given[k] : Given[k][j].key = n /\ Given[k][j].val = x
    BY ValsFact
  <2>2. PICK i \in DOMAIN mem : mem[i].key = n /\ mem[i].val = x
    BY <2>1, GuardFact
  <2> QED BY <2>2, ValsFact
<1>3. ASSUME ~Key(k, n).mult, NEW x \in Vals(mem, n), NEW y \in Vals(mem, n) PROVE x = y
  <2>1. PICK i \in DOMAIN mem : mem[i].key = n /\ mem[i].val = x
    BY ValsFact
  <2>2. PICK j \in DOMAIN mem : mem[j].key = n /\ mem[j].val = y
    BY ValsFact
  <2>3. i = j
    BY <1>1, <1>3, <2>1, <2>2 DEF Once
  <2> QED BY <2>1, <2>2, <2>3
<1>4. ASSUME Protected(k, n) PROVE Vals(mem, n) = Vals(Given[k], n) /\ Vals(mem, n) # {}
  <2>1. ~Key(k, n).mult /\ \E j \in DOMAIN Given[k] : Given[k][j].key = n
    BY <1>4 DEF Protected, Places
  <2>2. PICK x : x \in Vals(Given[k], n)
    BY <2>1, ValsFact
  <2> QED BY <1>2, <1>3, <2>1, <2>2
<1> QED BY <1>2, <1>3, <1>4

\* Config::delValue keeps a copy sound and takes at most this value of one key.
LEMMA DelFact ==
  ASSUME NEW k \in Kinds, NEW mem, Sound(k, mem), NEW n, NEW x
  PROVE  /\ Sound(k, DelValue(mem, n, x))
         /\ \A m : m # n => Vals(DelValue(mem, n, x), m) = Vals(mem, m)
         /\ \/ /\ Deletes(mem, n, x) = {} /\ DelValue(mem, n, x) = mem
               /\ x \in Vals(mem, n) => x \in Vals(Given[k], n)
            \/ /\ Deletes(mem, n, x) # {} /\ x \in Vals(mem, n)
               /\ Vals(DelValue(mem, n, x), n) = IF Key(k, n).mult THEN Vals(mem, n) \ {x} ELSE {}
<1> DEFINE dels  == Deletes(mem, n, x)
           first == FirstOf(dels)
<1>1. mem \in Seq(Value(k))
  BY DEF Sound
<1>2. Len(mem) \in Nat /\ DOMAIN mem = 1..Len(mem)
  BY <1>1, ItemFact
<1>3. /\ dels \in SUBSET DOMAIN mem
      /\ \A i \in DOMAIN mem : i \in dels <=> mem[i].key = n /\ mem[i].val = x /\ ~mem[i].prot
  BY DEF Deletes, Places
<1>4. CASE dels = {}
  <2>1. DelValue(mem, n, x) = mem
    BY <1>4 DEF DelValue
  <2>2. ASSUME x \in Vals(mem, n) PROVE x \in Vals(Given[k], n)
    <3>1. PICK i \in DOMAIN mem : mem[i].key = n /\ mem[i].val = x
      BY <2>2, ValsFact
    <3>2. mem[i].prot
      BY <1>3, <1>4, <3>1
    <3>3. \E j \in DOMAIN Given[k] : Given[k][j].key = n /\ Given[k][j].val = x
      BY <3>1, <3>2, GuardFact
    <3> QED BY <3>3, ValsFact
  <2> QED BY <1>4, <2>1, <2>2
<1>5. CASE dels # {}
  <2> DEFINE f == first
  <2>1. f \in DOMAIN mem /\ mem[f].key = n /\ mem[f].val = x /\ ~mem[f].prot
    <3>1. dels \in SUBSET Nat
      BY <1>2, <1>3
    <3>2. f \in dels
      BY <1>5, <3>1, FirstFact
    <3> QED BY <1>3, <3>2
  <2>2. DelValue(mem, n, x) = RemoveAt(mem, f)
    BY <1>5 DEF DelValue
  <2> HIDE DEF f
  <2>3. /\ Sound(k, RemoveAt(mem, f))
        /\ \A m : m # mem[f].key => Vals(RemoveAt(mem, f), m) = Vals(mem, m)
        /\ Vals(RemoveAt(mem, f), mem[f].key) =
             IF Key(k, mem[f].key).mult THEN Vals(mem, mem[f].key) \ {mem[f].val} ELSE {}
    BY <2>1, CutFact
  <2>4. x \in Vals(mem, n)
    BY <2>1, ValsFact
  <2> QED BY <1>5, <2>1, <2>2, <2>3, <2>4
<1> QED BY <1>4, <1>5

\* LDEL config succeeds without having deleted anything only when a value is protected.
LEMMA DelSucceedsFact ==
  ASSUME NEW k \in Kinds, NEW mem, Sound(k, mem), NEW n, NEW x, DelSucceeds(mem, n, x),
         ~Key(k, n).mult, Deletes(mem, n, x) = {}
  PROVE  Protected(k, n)
<1>1. mem \in Seq(Value(k))
  BY DEF Sound
<1>2. Len(mem) \in Nat /\ DOMAIN mem = 1..Len(mem)
  BY <1>1, ItemFact
<1>3. Places(mem, n) \in SUBSET (1..Len(mem))
  BY <1>2 DEF Places
<1>4. Places(mem, n) # {} /\ mem[LastOf(Places(mem, n))].prot
  BY DEF DelSucceeds
<1>5. PICK i : i = LastOf(Places(mem, n))
  OBVIOUS
<1>6. i \in Places(mem, n) /\ mem[i].prot
  BY <1>2, <1>3, <1>4, <1>5, LastFact
<1>7. i \in DOMAIN mem /\ mem[i].key = n
  BY <1>6 DEF Places
<1>8. \E j \in DOMAIN Given[k] : Given[k][j].key = n
  BY <1>6, <1>7, GuardFact
<1> QED BY <1>8 DEF Protected, Places

-----------------------------------------------------------------------------
(* What an edit does                                                       *)

\* What a copy means once it has been written and read again.
Back(k, mem, n) ==
  IF Key(k, n).mult THEN Vals(mem, n) \cup Default(k, n)
  ELSE IF Vals(mem, n) = {} THEN Default(k, n) ELSE Vals(mem, n)

Agree(k, mem, b) == \A n \in Names(k) : ~Key(k, n).temp => Back(k, mem, n) = b[n]

\* LADD config makes of the copy what the edit is meant to make of the config.
LEMMA AddAgrees ==
  ASSUME NEW k \in Kinds, NEW mem, Sound(k, mem), NEW b \in [Names(k) -> SUBSET Texts], Agree(k, mem, b),
         NEW e, e.op = "add", e.key \in Names(k), e.val \in Texts, e.val # NoValue
  PROVE  /\ Sound(k, AddValue(k, mem, Free(e)))
         /\ Agree(k, AddValue(k, mem, Free(e)), Edited(k, b, e))
<1> DEFINE v   == Free(e)
           new == AddValue(k, mem, v)
<1>1. v \in Value(k) /\ v.key = e.key /\ v.val = e.val /\ ~v.prot
  BY MakeFact DEF Free
<1> HIDE DEF v
<1>2. /\ Sound(k, new)
      /\ \A n : Vals(new, n) = IF n = e.key THEN Taken(k, n, Vals(mem, n), e.val) ELSE Vals(mem, n)
  BY <1>1, AddFact
<1> HIDE DEF new
<1>3. ASSUME NEW n \in Names(k), ~Key(k, n).temp PROVE Back(k, new, n) = Edited(k, b, e)[n]
  <2>1. Back(k, mem, n) = b[n]
    BY <1>3 DEF Agree
  <2>2. CASE n # e.key
    <3>1. Edited(k, b, e)[n] = b[n]
      BY <2>2 DEF Edited
    <3>2. Vals(new, n) = Vals(mem, n)
      BY <1>2, <2>2
    <3> QED BY <2>1, <3>1, <3>2 DEF Back
  <2>3. CASE n = e.key /\ Protected(k, n)
    <3>1. Edited(k, b, e) = b
      BY <2>3 DEF Edited
    <3>2. ~Key(k, n).mult
      BY <2>3 DEF Protected
    <3>3. Vals(new, n) = Vals(mem, n)
      BY <1>2, <2>3, <3>2 DEF Taken
    <3> QED BY <2>1, <3>1, <3>3 DEF Back
  <2>4. CASE n = e.key /\ ~Protected(k, n)
    <3>1. Edited(k, b, e)[n] = IF Key(k, n).mult THEN b[n] \cup {e.val} ELSE {e.val}
      BY <1>3, <2>4 DEF Edited
    <3>2. Vals(new, n) = IF Key(k, n).mult THEN Vals(mem, n) \cup {e.val} ELSE {e.val}
      BY <1>2, <2>4 DEF Taken
    <3>3. CASE Key(k, n).mult
      BY <2>1, <3>1, <3>2, <3>3 DEF Back
    <3>4. CASE ~Key(k, n).mult
      BY <3>1, <3>2, <3>4 DEF Back
    <3> QED BY <3>3, <3>4
  <2> QED BY <2>2, <2>3, <2>4
<1> QED BY <1>2, <1>3 DEF Agree, v, new

\* So does LDEL config, when it succeeds.
LEMMA DelAgrees ==
  ASSUME NEW k \in Kinds, NEW mem, Sound(k, mem), NEW b \in [Names(k) -> SUBSET Texts], Agree(k, mem, b),
         NEW e, e.op = "del", e.key \in Names(k), DelSucceeds(mem, e.key, e.val)
  PROVE  /\ Sound(k, DelValue(mem, e.key, e.val))
         /\ Agree(k, DelValue(mem, e.key, e.val), Edited(k, b, e))
<1> DEFINE new == DelValue(mem, e.key, e.val)
<1>1. /\ Sound(k, new)
      /\ \A m : m # e.key => Vals(new, m) = Vals(mem, m)
      /\ \/ /\ Deletes(mem, e.key, e.val) = {} /\ new = mem
            /\ e.val \in Vals(mem, e.key) => e.val \in Vals(Given[k], e.key)
         \/ /\ Deletes(mem, e.key, e.val) # {} /\ e.val \in Vals(mem, e.key)
            /\ Vals(new, e.key) = IF Key(k, e.key).mult THEN Vals(mem, e.key) \ {e.val} ELSE {}
  BY DelFact
<1> HIDE DEF new
<1>2. ASSUME NEW n \in Names(k), ~Key(k, n).temp PROVE Back(k, new, n) = Edited(k, b, e)[n]
  <2>1. Back(k, mem, n) = b[n]
    BY <1>2 DEF Agree
  <2>2. Key(k, n).mult \in BOOLEAN
    BY KeyFact
  <2>3. /\ Vals(Given[k], n) \subseteq Vals(mem, n) /\ Vals(Given[k], n) \subseteq Vals(new, n)
        /\ Protected(k, n) => Vals(new, n) = Vals(mem, n)
        /\ ~Key(k, n).mult => \A x, y \in Vals(mem, n) : x = y
    BY <1>1, ProtectedFact
  <2>4. CASE n # e.key
    <3>1. Edited(k, b, e)[n] = b[n]
      BY <2>4 DEF Edited
    <3>2. Vals(new, n) = Vals(mem, n)
      BY <1>1, <2>4
    <3> QED BY <2>1, <3>1, <3>2 DEF Back
  <2>5. CASE n = e.key /\ Protected(k, n)
    <3>1. Edited(k, b, e) = b
      BY <2>5 DEF Edited
    <3>2. Vals(new, n) = Vals(mem, n)
      BY <2>3, <2>5
    <3> QED BY <2>1, <3>1, <3>2 DEF Back
  <2>6. CASE n = e.key /\ ~Protected(k, n) /\ Key(k, n).mult
    <3>1. Edited(k, b, e)[n] = (b[n] \ {e.val}) \cup Default(k, n) \cup Vals(Given[k], n)
      BY <1>2, <2>6 DEF Edited
    <3>2. Back(k, new, n) = Vals(new, n) \cup Default(k, n) /\ b[n] = Vals(mem, n) \cup Default(k, n)
      BY <2>1, <2>6 DEF Back
    <3>3. CASE new = mem /\ (e.val \in Vals(mem, n) => e.val \in Vals(Given[k], n))
      BY <2>3, <3>1, <3>2, <3>3
    <3>4. CASE Vals(new, n) = Vals(mem, n) \ {e.val}
      BY <2>3, <3>1, <3>2, <3>4
    <3> QED BY <1>1, <2>6, <3>3, <3>4
  <2>7. CASE n = e.key /\ ~Protected(k, n) /\ ~Key(k, n).mult
    <3>1. e.val \in Vals(mem, n) /\ Vals(new, n) = {}
      BY <1>1, <2>7, DelSucceedsFact
    <3>2. Vals(mem, n) = {e.val}
      BY <2>3, <2>7, <3>1
    <3>3. b[n] = {e.val}
      BY <2>1, <2>7, <3>2 DEF Back
    <3>4. Back(k, new, n) = Default(k, n)
      BY <2>7, <3>1 DEF Back
    <3>5. Edited(k, b, e)[n] = LET rest == b[n] \ {e.val} IN IF rest = {} THEN Default(k, n) ELSE rest
      BY <1>2, <2>7 DEF Edited
    <3> QED BY <3>3, <3>4, <3>5
  <2> QED BY <2>2, <2>4, <2>5, <2>6, <2>7
<1> QED BY <1>1, <1>2 DEF Agree, new

-----------------------------------------------------------------------------
(* Adding many values, and what is written of them                         *)

\* The values of a key among the first ones of a sequence.
Upto(vs, j, n) == {vs[i].val : i \in {m \in 1..j : vs[m].key = n}}

\* What the values of a key may have become when some were added.
Mixed(k, n, old, news, found) ==
  IF Key(k, n).mult THEN found = old \cup news
  ELSE IF Protected(k, n) \/ news = {} THEN found = old
  ELSE found # {} /\ found \subseteq news

\* One copy after the other.
Adds(f, k, mem, vs, n) ==
  f = [i \in 0..n |-> IF i = 0 THEN mem ELSE AddValue(k, f[i - 1], vs[i])]

\* The recursive function of Added exists.
LEMMA AddsExist ==
  ASSUME NEW k, NEW mem, NEW vs, NEW n \in Nat
  PROVE  \E f : Adds(f, k, mem, vs, n)
<1> DEFINE T == {i \in Nat : ~\E f : Adds(f, k, mem, vs, i)}
<1>1. SUFFICES ASSUME T # {} PROVE FALSE
  OBVIOUS
<1>2. PICK m \in T : \A i \in T : m <= i
  BY <1>1, Smallest
<1>3. m # 0
  <2>1. Adds([i \in 0..0 |-> mem], k, mem, vs, 0)
    BY DEF Adds
  <2> QED BY <2>1
<1>4. PICK g : Adds(g, k, mem, vs, m - 1)
  <2>1. m - 1 \in Nat /\ ~(m <= m - 1)
    BY <1>3
  <2> QED BY <1>2, <2>1
<1> DEFINE f == [i \in 0..m |-> IF i < m THEN g[i] ELSE AddValue(k, g[m - 1], vs[m])]
<1>5. Adds(f, k, mem, vs, m)
  <2>1. \A i \in 0..(m - 1) : g[i] = IF i = 0 THEN mem ELSE AddValue(k, g[i - 1], vs[i])
    BY <1>3, <1>4, Zenon DEF Adds
  <2>2. \A i \in 0..m : f[i] = IF i = 0 THEN mem ELSE AddValue(k, f[i - 1], vs[i])
    <3> TAKE i \in 0..m
    <3>1. CASE i = m
      <4>1. f[i - 1] = g[m - 1] /\ f[i] = AddValue(k, g[m - 1], vs[m])
        BY <1>3, <3>1
      <4> QED BY <1>3, <3>1, <4>1
    <3>2. CASE i # m
      <4>1. f[i] = g[i] /\ i \in 0..(m - 1)
        BY <3>2
      <4>2. i # 0 => f[i - 1] = g[i - 1]
        BY <3>2
      <4> QED BY <2>1, <4>1, <4>2
    <3> QED BY <3>1, <3>2
  <2>3. f = [i \in 0..m |-> f[i]]
    OBVIOUS
  <2> HIDE DEF f
  <2> QED BY <2>2, <2>3 DEF Adds
<1> QED BY <1>5

\* After each value that is added, the values of a key are a mixture as above.
LEMMA AddsFact ==
  ASSUME NEW k \in Kinds, NEW mem, Sound(k, mem), NEW vs \in Seq(Value(k)),
         \A i \in DOMAIN vs : ~vs[i].prot,
         NEW f, Adds(f, k, mem, vs, Len(vs)), NEW j \in 0..Len(vs)
  PROVE  Sound(k, f[j]) /\ \A n : Mixed(k, n, Vals(mem, n), Upto(vs, j, n) \ {NoValue}, Vals(f[j], n))
<1> DEFINE P(i) == Sound(k, f[i]) /\ \A n : Mixed(k, n, Vals(mem, n), Upto(vs, i, n) \ {NoValue}, Vals(f[i], n))
           T == {i \in Nat : i \in 0..Len(vs) /\ ~P(i)}
<1>1. SUFFICES ASSUME T # {} PROVE FALSE
  OBVIOUS
<1>2. PICK m \in T : \A i \in T : m <= i
  BY <1>1, Smallest
<1>3. m \in 0..Len(vs) /\ ~P(m)
  BY <1>2
<1>4. /\ Len(vs) \in Nat /\ DOMAIN vs = 1..Len(vs)
      /\ \A i \in DOMAIN vs : vs[i] \in Value(k)
  BY ItemFact
<1>5. f[m] = IF m = 0 THEN mem ELSE AddValue(k, f[m - 1], vs[m])
  BY <1>3, Zenon DEF Adds
<1>6. CASE m = 0
  <2>1. f[m] = mem
    BY <1>5, <1>6
  <2>2. \A n : Upto(vs, m, n) = {}
    BY <1>6 DEF Upto
  <2>3. \A n : Mixed(k, n, Vals(mem, n), Upto(vs, m, n) \ {NoValue}, Vals(f[m], n))
    BY <2>1, <2>2 DEF Mixed
  <2> QED BY <1>3, <2>1, <2>3
<1>7. CASE m # 0
  <2>1. m - 1 \in Nat /\ m - 1 \in 0..Len(vs) /\ ~(m <= m - 1) /\ m \in DOMAIN vs
    BY <1>3, <1>4, <1>7
  <2>2. P(m - 1)
    BY <1>2, <2>1
  <2> DEFINE old == f[m - 1]
             v   == vs[m]
  <2>3. f[m] = AddValue(k, old, v)
    BY <1>5, <1>7
  <2>4. v \in Value(k) /\ ~v.prot /\ Sound(k, old)
    BY <1>4, <2>1, <2>2
  <2>5. \A n : Mixed(k, n, Vals(mem, n), Upto(vs, m - 1, n) \ {NoValue}, Vals(old, n))
    BY <2>2
  <2>6. \A n : Upto(vs, m, n) = Upto(vs, m - 1, n) \cup IF n = v.key THEN {v.val} ELSE {}
    <3> TAKE n
    <3>1. 1..m = (1..(m - 1)) \cup {m}
      BY <2>1
    <3> QED BY <3>1 DEF Upto
  <2> HIDE DEF old, v
  <2>7. /\ Sound(k, f[m])
        /\ \A n : Vals(f[m], n) = IF n = v.key THEN Taken(k, n, Vals(old, n), v.val) ELSE Vals(old, n)
    BY <2>3, <2>4, AddFact
  <2>8. ASSUME NEW n PROVE Mixed(k, n, Vals(mem, n), Upto(vs, m, n) \ {NoValue}, Vals(f[m], n))
    <3>1. Mixed(k, n, Vals(mem, n), Upto(vs, m - 1, n) \ {NoValue}, Vals(old, n))
      BY <2>5
    <3>2. CASE n # v.key
      <4>1. Vals(f[m], n) = Vals(old, n) /\ Upto(vs, m, n) = Upto(vs, m - 1, n)
        BY <2>6, <2>7, <3>2
      <4> QED BY <3>1, <4>1
    <3>3. CASE n = v.key
      <4>1. /\ Vals(f[m], n) = Taken(k, n, Vals(old, n), v.val)
            /\ Upto(vs, m, n) = Upto(vs, m - 1, n) \cup {v.val}
        BY <2>6, <2>7, <3>3
      <4>6. CASE v.val = NoValue
        <5>1. Upto(vs, m, n) \ {NoValue} = Upto(vs, m - 1, n) \ {NoValue}
          BY <4>1, <4>6
        <5> QED BY <3>1, <4>1, <4>6, <5>1 DEF Taken
      <4>7. CASE v.val # NoValue
       <5> DEFINE was == Upto(vs, m - 1, n) \ {NoValue}
       <5>1. /\ Mixed(k, n, Vals(mem, n), was, Vals(old, n))
             /\ Upto(vs, m, n) \ {NoValue} = was \cup {v.val}
             /\ Vals(f[m], n) = IF Key(k, n).mult THEN Vals(old, n) \cup {v.val}
                               ELSE IF Protected(k, n) THEN Vals(old, n) ELSE {v.val}
         BY <3>1, <4>1, <4>7 DEF Taken
       <5> HIDE DEF was
       <5>2. Key(k, n).mult \in BOOLEAN
         BY <2>4, <3>3, KeyFact DEF Value
       <5> QED BY <5>1, <5>2 DEF Mixed
      <4> QED BY <4>6, <4>7
    <3> QED BY <3>2, <3>3
  <2> QED BY <1>3, <2>7, <2>8
<1> QED BY <1>6, <1>7

\* So they are after all of them.
LEMMA AddedFact ==
  ASSUME NEW k \in Kinds, NEW mem, Sound(k, mem), NEW vs \in Seq(Value(k)),
         \A i \in DOMAIN vs : ~vs[i].prot
  PROVE  /\ Sound(k, Added(k, mem, vs))
         /\ \A n : Mixed(k, n, Vals(mem, n), Vals(vs, n) \ {NoValue}, Vals(Added(k, mem, vs), n))
<1> DEFINE f == CHOOSE g : Adds(g, k, mem, vs, Len(vs))
<1>1. Len(vs) \in Nat /\ DOMAIN vs = 1..Len(vs)
  BY ItemFact
<1>2. Added(k, mem, vs) = f[Len(vs)]
  BY DEF Added, Adds
<1>3. Adds(f, k, mem, vs, Len(vs))
  BY <1>1, AddsExist
<1> HIDE DEF f
<1>4. Len(vs) \in 0..Len(vs)
  BY <1>1
<1>5. /\ Sound(k, f[Len(vs)])
      /\ \A n : Mixed(k, n, Vals(mem, n), Upto(vs, Len(vs), n) \ {NoValue}, Vals(f[Len(vs)], n))
  BY <1>3, <1>4, AddsFact
<1>6. ASSUME NEW n PROVE Upto(vs, Len(vs), n) = Vals(vs, n)
  BY <1>1, ValsFact DEF Upto
<1> QED BY <1>2, <1>5, <1>6

\* The defaults are there, each under its key.
LEMMA DefaultsFact ==
  ASSUME NEW k \in Kinds
  PROVE  /\ Defaults(k) \in Seq(Value(k))
         /\ \A i \in DOMAIN Defaults(k) : ~Defaults(k)[i].prot
         /\ \A n \in Names(k) : Vals(Defaults(k), n) = Default(k, n)
         /\ \A n : NoValue \notin Default(k, n)
<1> DEFINE U     == {y \in Keys[k] : y.mand /\ y.default # NoValue}
           it(x) == [key |-> x.name, val |-> x.default, prot |-> FALSE]
           S     == {it(x) : x \in U}
           size  == Cardinality(S)
           s     == Defaults(k)
<1>1. IsFiniteSet(Keys[k])
  BY ConfigAssumption
<1>2. IsFiniteSet(U)
  <2>1. U \in SUBSET Keys[k]
    OBVIOUS
  <2> HIDE DEF U
  <2> QED BY <1>1, <2>1, FS_Subset
<1>3. IsFiniteSet(S)
  <2> DEFINE f == [x \in U |-> it(x)]
  <2>1. f \in Surjection(U, S)
    <3>1. f \in [U -> S]
      OBVIOUS
    <3>2. \A w \in S : \E x \in U : f[x] = w
      OBVIOUS
    <3> HIDE DEF f, U, S
    <3> QED BY <3>1, <3>2 DEF Surjection
  <2> HIDE DEF f, U, S
  <2> QED BY <1>2, <2>1, FS_Surjection
<1>4. \A x \in U : x.name \in Names(k) /\ x.default \in Texts
  <2> TAKE x \in U
  <2>1. x.name \in Names(k)
    BY DEF Names
  <2>2. x.default \in {y.default : y \in Keys[k]}
    OBVIOUS
  <2>3. x.default \in Texts
    BY <2>2 DEF Texts
  <2> QED BY <2>1, <2>3
<1>5. \A w \in S : w \in Value(k) /\ ~w.prot
  <2> TAKE w \in S
  <2>1. PICK x \in U : w = it(x)
    OBVIOUS
  <2>2. it(x) \in Value(k)
    BY <1>4, MakeFact
  <2> QED BY <2>1, <2>2
<1>6. size \in Nat /\ Bijection(1..size, S) # {}
  <2> HIDE DEF S
  <2> QED BY <1>3, FS_CardinalityType DEF ExistsBijection
<1>7. s \in [1..size -> S] /\ IsInjective(s)
  <2>1. PICK f : f \in Bijection(1..size, S)
    BY <1>6
  <2>2. f \in [1..size -> S] /\ IsInjective(f)
    BY <2>1 DEF Bijection, Injection
  <2>3. s = CHOOSE g \in [1..size -> S] : IsInjective(g)
    BY DEF Defaults, SetToSeq
  <2> HIDE DEF S, s
  <2> QED BY <2>2, <2>3, Zenon
<1>8. \A w \in S : \E i \in 1..size : s[i] = w
  <2>1. Cardinality(1..size) = size
    <3>1. size \in Int /\ 1 \in Int
      BY <1>6
    <3>2. Cardinality(1..size) = IF 1 > size THEN 0 ELSE size - 1 + 1
      BY <3>1, FS_Interval, Zenon
    <3> QED BY <1>6, <3>2
  <2>2. s \in Injection(1..size, S)
    BY <1>7 DEF Injection
  <2>3. s \in Surjection(1..size, S)
    <3> HIDE DEF S, s
    <3> QED BY <1>3, <2>1, <2>2, FS_Injection
  <2> QED BY <2>3 DEF Surjection
<1> HIDE DEF s, size
<1>9. s \in Seq(Value(k)) /\ DOMAIN s = 1..size
  <2>1. \A i \in 1..size : s[i] \in Value(k)
    BY <1>5, <1>7
  <2> HIDE DEF S
  <2> QED BY <1>6, <1>7, <2>1
<1>10. \A i \in DOMAIN s : ~s[i].prot
  BY <1>5, <1>7, <1>9
<1>11. ASSUME NEW n \in Names(k) PROVE Vals(s, n) = Default(k, n)
  <2>1. /\ Key(k, n) \in Keys[k] /\ Key(k, n).name = n
        /\ \A x \in Keys[k] : x.name = n => x = Key(k, n)
    BY KeyFact
  <2>2. ASSUME NEW y \in Vals(s, n) PROVE y \in Default(k, n)
    <3>1. PICK i \in DOMAIN s : s[i].key = n /\ s[i].val = y
      <4>1. y \in Vals(s, n)
        OBVIOUS
      <4>2. y \in Vals(s, n) <=> \E i \in DOMAIN s : s[i].key = n /\ s[i].val = y
        BY ValsFact
      <4> QED BY <4>1, <4>2
    <3>2. PICK x \in U : s[i] = it(x)
      BY <1>7, <1>9
    <3>3. x.name = n /\ x.default = y
      BY <3>1, <3>2
    <3>4. x = Key(k, n)
      BY <2>1, <3>3
    <3> QED BY <3>3, <3>4 DEF Default
  <2>3. ASSUME NEW y \in Default(k, n) PROVE y \in Vals(s, n)
    <3>1. Key(k, n) \in U /\ y = Key(k, n).default
      BY <2>1, <2>3 DEF Default
    <3>2. it(Key(k, n)) \in S
      BY <3>1
    <3>3. PICK i \in 1..size : s[i] = it(Key(k, n))
      BY <1>8, <3>2
    <3>4. s[i].key = n /\ s[i].val = y
      BY <2>1, <3>1, <3>3
    <3> QED BY <1>9, <3>4, ValsFact
  <2> QED BY <2>2, <2>3
<1>12. \A n : NoValue \notin Default(k, n)
  BY DEF Default
<1> QED BY <1>9, <1>10, <1>11, <1>12 DEF s

\* What the values of a key are after rows were read, of which news are its values.
Loaded(k, n, news, found) ==
  IF Key(k, n).mult THEN found = Vals(Given[k], n) \cup Default(k, n) \cup news
  ELSE IF Protected(k, n) THEN found = Vals(Given[k], n)
  ELSE IF news = {} THEN found = Default(k, n)
  ELSE found # {} /\ found \subseteq news

\* The values of a key in the storage, and where that is.
News(k, rows, n) == Vals(WithHome(k, rows), n) \ {NoValue}

\* The rows, and the name of the storage, are rows.
LEMMA HomeFact ==
  ASSUME NEW k \in Kinds, NEW rows \in Seq(Row(k))
  PROVE  /\ WithHome(k, rows) \in Seq(Row(k))
         /\ \A n : Vals(WithHome(k, rows), n) =
                 Vals(rows, n) \cup IF k = "list file" /\ n = Home[k].key THEN {Home[k].val} ELSE {}
<1>1. Home[k] \in Row(k)
  BY ConfigAssumption
<1>2. CASE k = "list file"
  <2> DEFINE home == Home[k]
             new  == Append(rows, home)
  <2>1. WithHome(k, rows) = new
    BY <1>2 DEF WithHome
  <2> HIDE DEF home
  <2>2. home \in Row(k)
    BY <1>1 DEF home
  <2>3. /\ new \in Seq(Row(k)) /\ DOMAIN new = 1..(Len(rows) + 1) /\ Len(rows) \in Nat
        /\ DOMAIN rows = 1..Len(rows)
        /\ \A i \in 1..Len(rows) : new[i] = rows[i]
        /\ new[Len(rows) + 1] = home
    BY <2>2, AppendProperties, LenProperties
  <2> HIDE DEF new
  <2>4. \A w : w \in ToSet(new) <=> w \in ToSet(rows) \/ w = home
    BY <2>3 DEF ToSet
  <2>5. \A n : Vals(new, n) = Vals(rows, n) \cup IF n = home.key THEN {home.val} ELSE {}
    BY <2>4 DEF Vals
  <2> QED BY <1>2, <2>1, <2>3, <2>5 DEF home
<1>3. CASE k # "list file"
  BY <1>3 DEF WithHome
<1> QED BY <1>2, <1>3

\* What a process that reads the storage gets is sound, and this under each key.
LEMMA LoadFact ==
  ASSUME NEW k \in Kinds, NEW rows \in Seq(Row(k))
  PROVE  /\ Sound(k, Load(k, rows))
         /\ \A n \in Names(k) : Loaded(k, n, News(k, rows, n), Vals(Load(k, rows), n))
<1> DEFINE safe  == Cleared(k)
           first == Added(k, safe, Defaults(k))
           full  == WithHome(k, rows)
           vs    == [i \in DOMAIN full |-> Free(full[i])]
           mem   == Added(k, first, vs)
<1>1. Sound(k, safe) /\ \A n : Vals(safe, n) = Vals(Given[k], n)
  BY ClearedFact
<1>2. /\ Defaults(k) \in Seq(Value(k)) /\ \A i \in DOMAIN Defaults(k) : ~Defaults(k)[i].prot
      /\ \A n \in Names(k) : Vals(Defaults(k), n) = Default(k, n)
      /\ \A n : NoValue \notin Default(k, n)
  BY DefaultsFact
<1>3. /\ Sound(k, first)
      /\ \A n : Mixed(k, n, Vals(safe, n), Vals(Defaults(k), n) \ {NoValue}, Vals(first, n))
  BY <1>1, <1>2, AddedFact
<1>4. /\ Len(full) \in Nat /\ DOMAIN full = 1..Len(full)
      /\ \A i \in DOMAIN full : full[i].key \in Names(k) /\ full[i].val \in Texts
  BY HomeFact, RowFact
<1>12. Load(k, rows) = mem
  BY DEF Load
<1>13. \A n : News(k, rows, n) = Vals(full, n) \ {NoValue}
  BY DEF News
<1> HIDE DEF safe, first, full, mem
<1>5. \A i \in DOMAIN full :
        vs[i] \in Value(k) /\ vs[i].key = full[i].key /\ vs[i].val = full[i].val /\ ~vs[i].prot
  <2> TAKE i \in DOMAIN full
  <2>1. vs[i] = [key |-> full[i].key, val |-> full[i].val, prot |-> FALSE]
    BY DEF Free
  <2>2. [key |-> full[i].key, val |-> full[i].val, prot |-> FALSE] \in Value(k)
    BY <1>4, MakeFact
  <2> HIDE DEF vs
  <2> QED BY <2>1, <2>2
<1>6. DOMAIN vs = DOMAIN full /\ vs = [i \in 1..Len(full) |-> vs[i]]
  BY <1>4
<1> HIDE DEF vs
<1>8. vs \in Seq(Value(k)) /\ \A i \in DOMAIN vs : ~vs[i].prot
  BY <1>4, <1>5, <1>6
<1>9. /\ Sound(k, mem)
      /\ \A n : Mixed(k, n, Vals(first, n), Vals(vs, n) \ {NoValue}, Vals(mem, n))
  BY <1>3, <1>8, AddedFact DEF mem
<1>10. ASSUME NEW n PROVE Vals(vs, n) = Vals(full, n)
  <2>1. ASSUME NEW x PROVE x \in Vals(vs, n) <=> x \in Vals(full, n)
    <3>1. x \in Vals(vs, n) <=> \E i \in DOMAIN vs : vs[i].key = n /\ vs[i].val = x
      BY ValsFact
    <3>2. x \in Vals(full, n) <=> \E i \in DOMAIN full : full[i].key = n /\ full[i].val = x
      BY ValsFact
    <3> QED BY <1>5, <1>6, <3>1, <3>2
  <2> QED BY <2>1
<1>11. ASSUME NEW n \in Names(k) PROVE Loaded(k, n, News(k, rows, n), Vals(mem, n))
  <2>1. Mixed(k, n, Vals(Given[k], n), Default(k, n), Vals(first, n))
    <3>1. Vals(Defaults(k), n) \ {NoValue} = Default(k, n)
      BY <1>2
    <3> QED BY <1>1, <1>3, <3>1
  <2>2. Mixed(k, n, Vals(first, n), News(k, rows, n), Vals(mem, n))
    <3>1. News(k, rows, n) = Vals(vs, n) \ {NoValue}
      BY <1>10, <1>13
    <3> QED BY <1>9, <3>1
  <2>3. Key(k, n).mult \in BOOLEAN
    BY KeyFact
  <2>4. CASE Key(k, n).mult
    BY <2>1, <2>2, <2>4 DEF Mixed, Loaded
  <2>5. CASE ~Key(k, n).mult /\ Protected(k, n)
    BY <2>1, <2>2, <2>5 DEF Mixed, Loaded
  <2>6. CASE ~Key(k, n).mult /\ ~Protected(k, n)
    <3>1. Vals(Given[k], n) = {}
      <4>1. \A i \in DOMAIN Given[k] : Given[k][i].key # n
        BY <2>6 DEF Protected, Places
      <4> QED BY <4>1, ValsFact
    <3>2. Vals(first, n) = Default(k, n)
      <4>1. \A x, y \in Default(k, n) : x = y
        BY DEF Default
      <4> QED BY <2>1, <2>6, <3>1, <4>1 DEF Mixed
    <3> QED BY <2>2, <2>6, <3>2 DEF Mixed, Loaded
  <2> QED BY <2>3, <2>4, <2>5, <2>6
<1> QED BY <1>9, <1>11, <1>12

\* What is in a set of one element is that set.
LEMMA Single ==
  ASSUME NEW S, NEW T, T # {}, T \subseteq S, \A x, y \in S : x = y
  PROVE  T = S
OBVIOUS

\* What is read after nothing of a key was written is what it is without any row; so it
\* is when the key is protected.
LEMMA VoidFact ==
  ASSUME NEW k \in Kinds, NEW rows \in Seq(Row(k)), NEW n \in Names(k),
         Vals(rows, n) = {} \/ Protected(k, n)
  PROVE  Meaning(k, rows)[n] = Meaning(k, <<>>)[n]
<1>1. <<>> \in Seq(Row(k)) /\ Vals(<<>>, n) = {}
  <2>1. DOMAIN <<>> = {}
    OBVIOUS
  <2>2. Vals(<<>>, n) = {}
    BY <2>1, ValsFact
  <2> QED BY <2>2
<1>2. /\ Loaded(k, n, News(k, rows, n), Vals(Load(k, rows), n))
      /\ Loaded(k, n, News(k, <<>>, n), Vals(Load(k, <<>>), n))
  BY <1>1, LoadFact
<1>3. Vals(Load(k, rows), n) = Vals(Load(k, <<>>), n)
  <2>1. CASE Protected(k, n)
    <3>1. ~Key(k, n).mult
      BY <2>1 DEF Protected
    <3> QED BY <1>2, <2>1, <3>1 DEF Loaded
  <2>2. CASE Vals(rows, n) = {}
    <3> DEFINE news == News(k, rows, n)
    <3>1. news = News(k, <<>>, n) /\ \A x, y \in news : x = y
      <4> DEFINE home == IF k = "list file" /\ n = Home[k].key THEN {Home[k].val} ELSE {}
      <4>1. Vals(WithHome(k, rows), n) = Vals(rows, n) \cup home
        BY HomeFact
      <4>2. Vals(WithHome(k, <<>>), n) = Vals(<<>>, n) \cup home
        BY <1>1, HomeFact
      <4>3. \A x, y \in home : x = y
        OBVIOUS
      <4> HIDE DEF home
      <4>4. Vals(WithHome(k, rows), n) = home /\ Vals(WithHome(k, <<>>), n) = home
        BY <1>1, <2>2, <4>1, <4>2
      <4> QED BY <4>3, <4>4 DEF News
    <3> HIDE DEF news
    <3>2. Loaded(k, n, news, Vals(Load(k, rows), n)) /\ Loaded(k, n, news, Vals(Load(k, <<>>), n))
      BY <1>2, <3>1 DEF news
    <3> DEFINE a == Vals(Load(k, rows), n)
               b == Vals(Load(k, <<>>), n)
    <3>3. Loaded(k, n, news, a) /\ Loaded(k, n, news, b)
      BY <3>2
    <3> HIDE DEF a, b
    <3>4. a = b
      <4>1. CASE Key(k, n).mult \/ Protected(k, n) \/ news = {}
        <5>1. CASE Key(k, n).mult
          BY <3>3, <5>1 DEF Loaded
        <5>2. CASE ~Key(k, n).mult /\ Protected(k, n)
          BY <3>3, <5>2 DEF Loaded
        <5>3. CASE ~Key(k, n).mult /\ ~Protected(k, n) /\ news = {}
          BY <3>3, <5>3 DEF Loaded
        <5> QED BY <4>1, <5>1, <5>2, <5>3
      <4>2. CASE ~Key(k, n).mult /\ ~Protected(k, n) /\ news # {}
        <5>1. a # {} /\ a \subseteq news /\ b # {} /\ b \subseteq news
          BY <3>3, <4>2 DEF Loaded
        <5> QED BY <3>1, <5>1, Single
      <4> QED BY <4>1, <4>2
    <3> QED BY <3>4 DEF a, b
  <2> QED BY <2>1, <2>2
<1> QED BY <1>3 DEF Meaning

\* A copy that was just read means what it will mean when it has been written.
LEMMA ReadAgrees ==
  ASSUME NEW k \in Kinds, NEW rows \in Seq(Row(k))
  PROVE  Agree(k, Load(k, rows), Meaning(k, rows))
<1> SUFFICES ASSUME NEW n \in Names(k) PROVE Back(k, Load(k, rows), n) = Vals(Load(k, rows), n)
  BY DEF Agree, Meaning
<1>1. Sound(k, Load(k, rows)) /\ Loaded(k, n, News(k, rows, n), Vals(Load(k, rows), n))
  BY LoadFact
<1>2. Protected(k, n) => Vals(Given[k], n) # {}
  BY <1>1, ProtectedFact
<1>3. CASE Key(k, n).mult
  BY <1>1, <1>3 DEF Loaded, Back
<1>4. CASE ~Key(k, n).mult
  <2>1. Vals(Load(k, rows), n) = {} => Default(k, n) = {}
    BY <1>1, <1>2, <1>4 DEF Loaded
  <2> QED BY <1>4, <2>1 DEF Back
<1>5. Key(k, n).mult \in BOOLEAN
  BY KeyFact
<1> QED BY <1>3, <1>4, <1>5

-----------------------------------------------------------------------------
(* What is written                                                         *)

\* What values are read back as.
ReadOf(k, vals) == {Reads[k][x] : x \in vals}

\* One row after the other.
Writes(f, k, mem, n) ==
  f = [i \in 0..n |-> IF i = 0 THEN <<>>
                      ELSE IF Temporary(k, mem[i].key) THEN f[i - 1]
                      ELSE Append(f[i - 1], ReadBack(k, mem[i]))]

\* The recursive function of Rows exists.
LEMMA WritesExist ==
  ASSUME NEW k, NEW mem, NEW n \in Nat
  PROVE  \E f : Writes(f, k, mem, n)
<1> DEFINE T == {i \in Nat : ~\E f : Writes(f, k, mem, i)}
<1>1. SUFFICES ASSUME T # {} PROVE FALSE
  OBVIOUS
<1>2. PICK m \in T : \A i \in T : m <= i
  BY <1>1, Smallest
<1>3. m # 0
  <2>1. Writes([i \in 0..0 |-> <<>>], k, mem, 0)
    BY DEF Writes
  <2> QED BY <2>1
<1>4. PICK g : Writes(g, k, mem, m - 1)
  <2>1. m - 1 \in Nat /\ ~(m <= m - 1)
    BY <1>3
  <2> QED BY <1>2, <2>1
<1> DEFINE Step(old, i) == IF Temporary(k, mem[i].key) THEN old ELSE Append(old, ReadBack(k, mem[i]))
           f == [i \in 0..m |-> IF i < m THEN g[i] ELSE Step(g[m - 1], m)]
<1>5. Writes(f, k, mem, m)
  <2>1. \A i \in 0..(m - 1) : g[i] = IF i = 0 THEN <<>> ELSE Step(g[i - 1], i)
    BY <1>3, <1>4, Zenon DEF Writes
  <2> HIDE DEF Step
  <2>2. \A i \in 0..m : f[i] = IF i = 0 THEN <<>> ELSE Step(f[i - 1], i)
    <3> TAKE i \in 0..m
    <3>1. CASE i = m
      <4>1. f[i - 1] = g[m - 1] /\ f[i] = Step(g[m - 1], m)
        BY <1>3, <3>1
      <4> QED BY <1>3, <3>1, <4>1
    <3>2. CASE i # m
      <4>1. f[i] = g[i] /\ i \in 0..(m - 1)
        BY <3>2
      <4>2. i # 0 => f[i - 1] = g[i - 1]
        BY <3>2
      <4> QED BY <2>1, <4>1, <4>2
    <3> QED BY <3>1, <3>2
  <2>3. f = [i \in 0..m |-> f[i]]
    OBVIOUS
  <2> HIDE DEF f
  <2>4. f = [i \in 0..m |-> IF i = 0 THEN <<>> ELSE Step(f[i - 1], i)]
    BY <2>2, <2>3
  <2> QED BY <2>4 DEF Writes, Step
<1> QED BY <1>5

\* The rows of the first values of a copy.
LEMMA WritesFact ==
  ASSUME NEW k \in Kinds, NEW mem \in Seq(Value(k)),
         NEW f, Writes(f, k, mem, Len(mem)), NEW j \in 0..Len(mem)
  PROVE  /\ f[j] \in Seq(Row(k))
         /\ \A i \in DOMAIN f[j] : ~Temporary(k, f[j][i].key)
         /\ \A n \in Names(k) : Vals(f[j], n) = IF Temporary(k, n) THEN {} ELSE ReadOf(k, Upto(mem, j, n))
<1> DEFINE P(i) == /\ f[i] \in Seq(Row(k))
                   /\ \A m \in DOMAIN f[i] : ~Temporary(k, f[i][m].key)
                   /\ \A n \in Names(k) : Vals(f[i], n) = IF Temporary(k, n) THEN {} ELSE ReadOf(k, Upto(mem, i, n))
           T == {i \in Nat : i \in 0..Len(mem) /\ ~P(i)}
<1>1. SUFFICES ASSUME T # {} PROVE FALSE
  OBVIOUS
<1>2. PICK m \in T : \A i \in T : m <= i
  BY <1>1, Smallest
<1>3. m \in 0..Len(mem) /\ ~P(m)
  BY <1>2
<1>4. /\ Len(mem) \in Nat /\ DOMAIN mem = 1..Len(mem)
      /\ \A i \in DOMAIN mem : mem[i].key \in Names(k) /\ mem[i].val \in Texts
  BY ItemFact
<1>5. f[m] = IF m = 0 THEN <<>>
             ELSE IF Temporary(k, mem[m].key) THEN f[m - 1]
             ELSE Append(f[m - 1], ReadBack(k, mem[m]))
  BY <1>3, Zenon DEF Writes
<1>6. CASE m = 0
  <2>1. f[m] = <<>>
    BY <1>5, <1>6
  <2>2. DOMAIN f[m] = {} /\ f[m] \in Seq(Row(k))
    BY <2>1
  <2>3. \A n : Vals(f[m], n) = {}
    BY <2>2, ValsFact
  <2>4. \A n : ReadOf(k, Upto(mem, m, n)) = {}
    BY <1>6 DEF Upto, ReadOf
  <2> QED BY <1>3, <2>2, <2>3, <2>4
<1>7. CASE m # 0
  <2>1. m - 1 \in Nat /\ m - 1 \in 0..Len(mem) /\ ~(m <= m - 1) /\ m \in DOMAIN mem
    BY <1>3, <1>4, <1>7
  <2>2. P(m - 1)
    BY <1>2, <2>1
  <2> DEFINE old == f[m - 1]
             v   == mem[m]
             grown == f[m]
  <2>3. /\ old \in Seq(Row(k))
        /\ \A i \in DOMAIN old : ~Temporary(k, old[i].key)
        /\ \A n \in Names(k) : Vals(old, n) = IF Temporary(k, n) THEN {} ELSE ReadOf(k, Upto(mem, m - 1, n))
    BY <2>2
  <2>4. grown = IF Temporary(k, v.key) THEN old ELSE Append(old, ReadBack(k, v))
    BY <1>5, <1>7
  <2>5. \A n : Upto(mem, m, n) = Upto(mem, m - 1, n) \cup IF n = v.key THEN {v.val} ELSE {}
    <3> TAKE n
    <3>1. 1..m = (1..(m - 1)) \cup {m}
      BY <2>1
    <3> QED BY <3>1 DEF Upto
  <2>6. v.key \in Names(k) /\ v.val \in Texts
    BY <1>4, <2>1
  <2>7. ReadBack(k, v) \in Row(k) /\ ReadBack(k, v).key = v.key /\ ReadBack(k, v).val = Reads[k][v.val]
    <3>1. Reads[k][v.val] \in Texts /\ Reads[k][Reads[k][v.val]] = Reads[k][v.val]
      BY <2>6, ReadsAssumed
    <3> QED BY <2>6, <3>1, MakeFact DEF ReadBack
  <2>8. /\ grown \in Seq(Row(k))
        /\ \A i \in DOMAIN grown : ~Temporary(k, grown[i].key)
        /\ \A n \in Names(k) : Vals(grown, n) = IF Temporary(k, n) THEN {} ELSE ReadOf(k, Upto(mem, m, n))
        => FALSE
    BY <1>3
  <2> HIDE DEF old, v, grown, P
  <2>9. CASE Temporary(k, v.key)
    <3>1. grown = old
      BY <2>4, <2>9
    <3>2. \A n \in Names(k) : ~Temporary(k, n) => Upto(mem, m, n) = Upto(mem, m - 1, n)
      BY <2>5, <2>9
    <3>3. ASSUME NEW n \in Names(k)
          PROVE  Vals(grown, n) = IF Temporary(k, n) THEN {} ELSE ReadOf(k, Upto(mem, m, n))
      BY <2>3, <3>1, <3>2
    <3> QED BY <2>3, <2>8, <3>1, <3>3
  <2>10. CASE ~Temporary(k, v.key)
    <3>1. grown = Append(old, ReadBack(k, v))
      BY <2>4, <2>10
    <3>2. /\ grown \in Seq(Row(k)) /\ DOMAIN grown = 1..(Len(old) + 1) /\ Len(old) \in Nat
          /\ DOMAIN old = 1..Len(old)
          /\ \A i \in 1..Len(old) : grown[i] = old[i]
          /\ grown[Len(old) + 1] = ReadBack(k, v)
      BY <2>3, <2>7, <3>1, AppendProperties, LenProperties
    <3>3. ASSUME NEW i \in DOMAIN grown PROVE ~Temporary(k, grown[i].key)
      <4>1. CASE i = Len(old) + 1
        BY <2>7, <2>10, <3>2, <4>1
      <4>2. CASE i # Len(old) + 1
        <5>1. i \in DOMAIN old
          BY <3>2, <4>2
        <5> QED BY <2>3, <3>2, <5>1
      <4> QED BY <4>1, <4>2
    <3>4. \A w : w \in ToSet(grown) <=> w \in ToSet(old) \/ w = ReadBack(k, v)
      BY <3>2 DEF ToSet
    <3>5. \A n : Vals(grown, n) = Vals(old, n) \cup IF n = v.key THEN {Reads[k][v.val]} ELSE {}
      BY <2>7, <3>4 DEF Vals
    <3>6. ASSUME NEW n \in Names(k)
          PROVE  Vals(grown, n) = IF Temporary(k, n) THEN {} ELSE ReadOf(k, Upto(mem, m, n))
      <4>1. ReadOf(k, Upto(mem, m, n)) =
              ReadOf(k, Upto(mem, m - 1, n)) \cup IF n = v.key THEN {Reads[k][v.val]} ELSE {}
        BY <2>5 DEF ReadOf
      <4> QED BY <2>3, <2>10, <3>5, <4>1
    <3> QED BY <2>8, <3>2, <3>3, <3>6
  <2> QED BY <2>9, <2>10
<1> QED BY <1>6, <1>7

\* No row is that of a temporary key.
Plain(k, rows) == \A i \in DOMAIN rows : ~Temporary(k, rows[i].key)

\* Config::write leaves out what is temporary and nothing else.
LEMMA RowsFact ==
  ASSUME NEW k \in Kinds, NEW mem \in Seq(Value(k))
  PROVE  /\ Rows(k, mem) \in Seq(Row(k)) /\ Plain(k, Rows(k, mem))
         /\ \A n \in Names(k) : Vals(Rows(k, mem), n) = IF Temporary(k, n) THEN {} ELSE ReadOf(k, Vals(mem, n))
<1> DEFINE f == CHOOSE g : Writes(g, k, mem, Len(mem))
<1>1. Len(mem) \in Nat /\ DOMAIN mem = 1..Len(mem)
  BY ItemFact
<1>2. Rows(k, mem) = f[Len(mem)]
  BY DEF Rows, Writes
<1>3. Writes(f, k, mem, Len(mem))
  BY <1>1, WritesExist
<1> HIDE DEF f
<1>4. Len(mem) \in 0..Len(mem)
  BY <1>1
<1> DEFINE r == f[Len(mem)]
<1>5. /\ r \in Seq(Row(k))
      /\ \A i \in DOMAIN r : ~Temporary(k, r[i].key)
      /\ \A n \in Names(k) : Vals(r, n) = IF Temporary(k, n) THEN {} ELSE ReadOf(k, Upto(mem, Len(mem), n))
  BY <1>3, <1>4, WritesFact
<1>6. ASSUME NEW n PROVE Upto(mem, Len(mem), n) = Vals(mem, n)
  BY <1>1, ValsFact DEF Upto
<1>7. Rows(k, mem) = r
  BY <1>2
<1> HIDE DEF r
<1> QED BY <1>5, <1>6, <1>7 DEF Plain

\* The values that are written are read back as they are, and none is empty.
Straight(k, mem) ==
  \A n \in Names(k) : ~Temporary(k, n) => \A x \in Vals(mem, n) : Reads[k][x] = x /\ x # NoValue

\* The copy of a list that has a file says that it is written there.
Here(k, mem) == k = "list file" => Vals(mem, Home[k].key) = {Home[k].val}

\* A value that is temporary by itself protects its key.
LEMMA PassingFact ==
  ASSUME NEW k \in Kinds, NEW n \in Names(k), Temporary(k, n), ~Key(k, n).temp
  PROVE  Protected(k, n)
<1>1. n \in Passing[k]
  BY DEF Temporary
<1>2. ~Key(k, n).mult /\ \E i \in DOMAIN Given[k] : Given[k][i].key = n
  BY <1>1, ConfigAssumption
<1> QED BY <1>2 DEF Protected, Places

\* Config::write and read: a copy whose values read back, and of a list in a file one that
\* is written there, loses nothing that is meant to stay when it is written and read again.
THEOREM RoundTrip ==
  ASSUME NEW k \in Kinds, NEW mem, Sound(k, mem), Straight(k, mem),
         Here(k, mem), NEW n \in Names(k)
  PROVE  Meaning(k, Rows(k, mem))[n] =
           IF Key(k, n).temp THEN Meaning(k, <<>>)[n] ELSE Back(k, mem, n)
<1> DEFINE rows == Rows(k, mem)
           found == Vals(Load(k, rows), n)
<1>1. mem \in Seq(Value(k))
  BY DEF Sound
<1>2. rows \in Seq(Row(k)) /\ Vals(rows, n) = IF Temporary(k, n) THEN {} ELSE ReadOf(k, Vals(mem, n))
  BY <1>1, RowsFact
<1>6. ~Temporary(k, n) => ReadOf(k, Vals(mem, n)) = Vals(mem, n) /\ NoValue \notin Vals(mem, n)
  BY DEF Straight, ReadOf
<1> HIDE DEF rows
<1>3. Key(k, n).mult \in BOOLEAN /\ Key(k, n).temp \in BOOLEAN
  BY KeyFact
<1>8. /\ Vals(Given[k], n) \subseteq Vals(mem, n)
      /\ Protected(k, n) => Vals(mem, n) = Vals(Given[k], n) /\ Vals(mem, n) # {}
      /\ ~Key(k, n).mult => \A x, y \in Vals(mem, n) : x = y
  BY ProtectedFact
<1>4. CASE Key(k, n).temp
  <2>1. Meaning(k, rows)[n] = Meaning(k, <<>>)[n]
    BY <1>2, <1>4, VoidFact DEF Temporary
  <2> QED BY <1>4, <2>1 DEF rows
<1>7. CASE Temporary(k, n) /\ ~Key(k, n).temp
  <2>1. Protected(k, n) /\ ~Key(k, n).mult
    BY <1>7, PassingFact DEF Protected
  <2>2. Loaded(k, n, News(k, rows, n), found)
    BY <1>2, LoadFact
  <2>3. found = Vals(Given[k], n)
    BY <2>1, <2>2 DEF Loaded
  <2>4. Meaning(k, rows)[n] = found
    BY DEF Meaning, found
  <2> QED BY <1>7, <1>8, <2>1, <2>3, <2>4 DEF rows, Back
<1>5. CASE ~Temporary(k, n)
  <2>1. News(k, rows, n) = Vals(mem, n)
    <3>1. Vals(rows, n) = Vals(mem, n) /\ NoValue \notin Vals(mem, n)
      BY <1>2, <1>5, <1>6
    <3>2. Vals(WithHome(k, rows), n) = Vals(mem, n)
      <4> DEFINE home == IF k = "list file" /\ n = Home[k].key THEN {Home[k].val} ELSE {}
      <4>1. Vals(WithHome(k, rows), n) = Vals(rows, n) \cup home
        BY <1>2, HomeFact
      <4>2. home \subseteq Vals(mem, n)
        BY DEF Here
      <4> HIDE DEF home
      <4> QED BY <3>1, <4>1, <4>2
    <3> QED BY <3>1, <3>2 DEF News
  <2>2. Loaded(k, n, Vals(mem, n), found)
    BY <1>2, <2>1, LoadFact
  <2> HIDE DEF found
  <2>3. found = Back(k, mem, n)
    <3>1. CASE Key(k, n).mult
      BY <2>2, <1>8, <3>1 DEF Loaded, Back
    <3>2. CASE ~Key(k, n).mult /\ Protected(k, n)
      BY <2>2, <1>8, <3>2 DEF Loaded, Back
    <3>3. CASE ~Key(k, n).mult /\ ~Protected(k, n)
      <4>1. CASE Vals(mem, n) = {}
        BY <2>2, <3>3, <4>1 DEF Loaded, Back
      <4>2. CASE Vals(mem, n) # {}
        <5>1. found # {} /\ found \subseteq Vals(mem, n)
          BY <2>2, <3>3, <4>2 DEF Loaded
        <5>2. found = Vals(mem, n)
          BY <1>8, <3>3, <5>1, Single
        <5> QED BY <3>3, <4>2, <5>2 DEF Back
      <4> QED BY <4>1, <4>2
    <3> QED BY <1>3, <3>1, <3>2, <3>3
  <2>4. Meaning(k, rows)[n] = found
    BY DEF Meaning, found
  <2> QED BY <1>5, <2>3, <2>4 DEF rows, Temporary
<1> QED BY <1>3, <1>4, <1>5, <1>7

\* What a process reads is read back when it is written again.
LEMMA LoadStraight ==
  ASSUME NEW k \in Kinds, NEW rows \in Seq(Row(k))
  PROVE  /\ Straight(k, Load(k, rows))
         /\ \A n : \A x \in News(k, rows, n) : Reads[k][x] = x /\ x # NoValue
<1>1. ASSUME NEW n, NEW x \in News(k, rows, n) PROVE Reads[k][x] = x /\ x # NoValue
  <2>1. x \in Vals(WithHome(k, rows), n) /\ x # NoValue
    BY DEF News
  <2>2. PICK i \in DOMAIN WithHome(k, rows) : WithHome(k, rows)[i].val = x
    BY <2>1, ValsFact
  <2>3. WithHome(k, rows) \in Seq(Row(k))
    BY HomeFact
  <2> QED BY <2>1, <2>2, <2>3, RowFact
<1>2. ASSUME NEW n \in Names(k), NEW x \in Vals(Load(k, rows), n) PROVE Reads[k][x] = x /\ x # NoValue
  <2>1. Loaded(k, n, News(k, rows, n), Vals(Load(k, rows), n))
    BY LoadFact
  <2>2. x \in Vals(Given[k], n) \/ x \in Default(k, n) \/ x \in News(k, rows, n)
    BY <2>1 DEF Loaded
  <2>3. CASE x \in Vals(Given[k], n)
    <3>1. PICK i \in DOMAIN Given[k] : Given[k][i].val = x
      BY <2>3, ValsFact
    <3>2. Given[k] \in Seq(Row(k)) /\ Given[k][i].val # NoValue
      BY ConfigAssumption
    <3> QED BY <3>1, <3>2, RowFact
  <2>4. CASE x \in Default(k, n)
    <3>1. x = Key(k, n).default /\ x # NoValue /\ Key(k, n) \in Keys[k]
      BY <2>4, KeyFact DEF Default
    <3> QED BY <3>1, ConfigAssumption
  <2> QED BY <1>1, <2>2, <2>3, <2>4
<1> QED BY <1>1, <1>2 DEF Straight

\* Adding a value that is read back, and deleting one, leaves the others.
LEMMA StraightKept ==
  ASSUME NEW k \in Kinds, NEW mem, Sound(k, mem), Straight(k, mem)
  PROVE  /\ \A v \in Value(k) : ~v.prot /\ Reads[k][v.val] = v.val => Straight(k, AddValue(k, mem, v))
         /\ \A n, x : Straight(k, DelValue(mem, n, x))
<1>1. ASSUME NEW v \in Value(k), ~v.prot, Reads[k][v.val] = v.val PROVE Straight(k, AddValue(k, mem, v))
  <2> SUFFICES ASSUME NEW n \in Names(k), ~Temporary(k, n), NEW x \in Vals(AddValue(k, mem, v), n)
               PROVE  Reads[k][x] = x /\ x # NoValue
    BY DEF Straight
  <2>1. Vals(AddValue(k, mem, v), n) = IF n = v.key THEN Taken(k, n, Vals(mem, n), v.val) ELSE Vals(mem, n)
    BY <1>1, AddFact
  <2>2. x \in Vals(mem, n) \/ (x = v.val /\ x # NoValue)
    BY <2>1 DEF Taken
  <2> QED BY <1>1, <2>2 DEF Straight
<1>2. ASSUME NEW m, NEW y PROVE Straight(k, DelValue(mem, m, y))
  <2> SUFFICES ASSUME NEW n \in Names(k), ~Temporary(k, n), NEW x \in Vals(DelValue(mem, m, y), n)
               PROVE  Reads[k][x] = x /\ x # NoValue
    BY DEF Straight
  <2>1. x \in Vals(mem, n)
    <3>1. n # m => Vals(DelValue(mem, m, y), n) = Vals(mem, n)
      BY DelFact
    <3>2. n = m => Vals(DelValue(mem, m, y), n) \subseteq Vals(mem, n)
      BY DelFact
    <3> QED BY <3>1, <3>2
  <2> QED BY <2>1 DEF Straight
<1> QED BY <1>1, <1>2

-----------------------------------------------------------------------------
(* The invariant                                                           *)

\* A process that has a copy, which is written here and read back, unless a value was added
\* that is not; when it has opened the storage it has all of it to write.
CopyOk(r) ==
  /\ r.base <= version
  /\ r.pc # "off" => Sound(kind, r.mem)
  /\ r.pc \in {"off", "idle"} => r.edit = NoEdit
  /\ r.edit.op = "none" \/ r.edit \in Edits[kind]
  /\ r.pc = "open" => r.rows = Rows(kind, r.mem)
  /\ r.pc # "off" /\ ~spoilt => Straight(kind, r.mem)
  /\ r.pc \in {"open", "rows"} => Here(kind, r.mem)

\* One process writes at a time, and the storage is on the way to what it writes.
OneWriter ==
  /\ \A p, q \in Procs : Writing(p) /\ Writing(q) => p = q
  /\ \A p \in Procs : Writing(p) =>
       /\ ~lost => proc[p].base = version
       /\ IF InTable THEN store \o proc[p].rows = Rows(kind, proc[p].mem)
          ELSE store = <<>> /\ proc[p].rows = Rows(kind, proc[p].mem)

\* A copy that is not out of date is what the edits so far, and its own, make of the config.
UpOk(r) ==
  r.pc # "off" /\ r.base = version => Agree(kind, r.mem, Edited(kind, book, r.edit))

\* So is the storage, when nobody writes; temporary keys are what they are at first.
UpToDate ==
  /\ (\A p \in Procs : ~Writing(p)) => Meaning(kind, store) = book
  /\ \A n \in Names(kind) : Key(kind, n).temp => book[n] = Meaning(kind, <<>>)[n]
  /\ \A p \in Procs : UpOk(proc[p])

ConfigInv ==
  /\ ConfigTypeOK
  /\ \A p \in Procs : CopyOk(proc[p])
  /\ ~spoilt => OneWriter
  /\ ~spoilt /\ ~lost => UpToDate

Change(k) == [op : {"add", "del", "none"}, key : Names(k) \cup {NoValue}, val : Texts]

\* No edit is an edit by its type.
LEMMA NoEditFact ==
  ASSUME NEW k
  PROVE  NoEdit \in Change(k) /\ NoEdit.op = "none"
<1>1. NoValue \in Texts
  BY DEF Texts
<1>2. NoEdit.op = "none" /\ NoEdit.key = NoValue /\ NoEdit.val = NoValue
  BY DEF NoEdit
<1>3. NoEdit \in Change(k)
  <2> HIDE DEF NoValue
  <2> QED BY <1>1 DEF NoEdit, Change
<1> QED BY <1>2, <1>3

\* What the administrator asks for is an edit by its type.
LEMMA EditFact ==
  ASSUME NEW k \in Kinds, NEW e \in Edits[k]
  PROVE  e \in Change(k) /\ e.op \in {"add", "del"} /\ e.key \in Names(k) /\ e.val \in Texts
<1>1. IsEdit(e) /\ e.key \in Names(k)
  BY ConfigAssumption
<1>2. e \in [op : {"add", "del"}, key : STRING, val : STRING]
  BY <1>1 DEF IsEdit
<1>3. e.val \in Texts
  <2>1. e.val \in {d.val : d \in Edits[k]}
    OBVIOUS
  <2> QED BY <2>1 DEF Texts
<1>4. e \in Change(k)
  BY <1>1, <1>2, <1>3 DEF Change
<1> QED BY <1>1, <1>2, <1>3, <1>4

\* A meaning gives a set of values to each key.
LEMMA MeaningFact ==
  ASSUME NEW k \in Kinds, NEW rows \in Seq(Row(k))
  PROVE  Meaning(k, rows) \in [Names(k) -> SUBSET Texts]
<1>1. ASSUME NEW n \in Names(k) PROVE Vals(Load(k, rows), n) \in SUBSET Texts
  <2>1. Load(k, rows) \in Seq(Value(k))
    BY LoadFact DEF Sound
  <2> HIDE DEF Load
  <2> QED BY <2>1, ItemFact, ValsFact
<1> QED BY <1>1 DEF Meaning

\* What an edit is meant to do has that type, and leaves temporary keys alone.
LEMMA EditedFact ==
  ASSUME NEW k \in Kinds, NEW b \in [Names(k) -> SUBSET Texts], NEW e,
         e.op = "none" \/ e \in Edits[k]
  PROVE  /\ Edited(k, b, e) \in [Names(k) -> SUBSET Texts]
         /\ e.op = "none" => Edited(k, b, e) = b
         /\ \A n \in Names(k) : Key(k, n).temp => Edited(k, b, e)[n] = b[n]
<1>1. CASE e.op = "none" \/ Key(k, e.key).temp \/ Protected(k, e.key)
  BY <1>1 DEF Edited
<1>2. CASE ~(e.op = "none" \/ Key(k, e.key).temp \/ Protected(k, e.key))
  <2>1. e.op \in {"add", "del"} /\ e.key \in Names(k) /\ e.val \in Texts
    BY <1>2, EditFact
  <2>2. PICK x : Edited(k, b, e) = [b EXCEPT ![e.key] = x] /\
                 x = CASE e.op = "add" -> IF Key(k, e.key).mult THEN b[e.key] \cup {e.val} ELSE {e.val}
                       [] e.op = "del" ->
                            LET rest == b[e.key] \ {e.val}
                            IN IF Key(k, e.key).mult THEN rest \cup Default(k, e.key) \cup Vals(Given[k], e.key)
                               ELSE IF rest = {} THEN Default(k, e.key) ELSE rest
    BY <1>2, <2>1 DEF Edited
  <2>3. Default(k, e.key) \in SUBSET Texts
    <3>1. Key(k, e.key).default \in Texts
      BY <2>1, KeyFact
    <3> QED BY <3>1 DEF Default
  <2>4. Vals(Given[k], e.key) \in SUBSET Texts
    <3>1. Given[k] \in Seq(Row(k))
      BY ConfigAssumption
    <3> QED BY <3>1, RowFact, ValsFact
  <2>5. x \in SUBSET Texts
    BY <2>1, <2>2, <2>3, <2>4
  <2> QED BY <1>2, <2>1, <2>2, <2>5
<1> QED BY <1>1, <1>2

\* Copies that a step of p leaves alone stay right.
LEMMA CopiesKept ==
  ASSUME ConfigInv, NEW p \in Procs, kind' = kind, version' \in Nat, version <= version', spoilt => spoilt',
         \A q \in Procs : q # p => proc'[q] = proc[q],
         CopyOk(proc[p])'
  PROVE  \A q \in Procs : CopyOk(proc[q])'
<1> TAKE q \in Procs
<1>1. CASE q = p
  BY <1>1
<1>2. CASE q # p
  <2>1. proc'[q] = proc[q] /\ CopyOk(proc[q])
    BY <1>2 DEF ConfigInv
  <2>2. proc[q].base \in Nat /\ version \in Nat
    BY DEF ConfigInv, ConfigTypeOK, ProcType
  <2>3. proc[q].base <= version'
    BY <2>1, <2>2 DEF CopyOk
  <2> QED BY <2>1, <2>3 DEF CopyOk
<1> QED BY <1>1, <1>2

\* A step of p that writes nothing.
LEMMA QuietStep ==
  ASSUME ConfigInv, NEW p \in Procs, ~Writing(p), proc'[p].pc # "rows",
         proc' \in [Procs -> ProcType(kind)],
         \A q \in Procs : q # p => proc'[q] = proc[q],
         UNCHANGED <<kind, store, faults, book, version>>,
         {lost', spoilt', dropped'} \subseteq BOOLEAN, lost => lost', spoilt => spoilt',
         CopyOk(proc[p])', ~spoilt' /\ ~lost' => UpOk(proc[p])'
  PROVE  ConfigInv'
<1>1. ConfigTypeOK'
  BY DEF ConfigInv, ConfigTypeOK
<1>2. \A q \in Procs : CopyOk(proc[q])'
  BY CopiesKept DEF ConfigInv, ConfigTypeOK
<1>3. \A q \in Procs : Writing(q)' <=> Writing(q)
  BY DEF Writing
<1>4. \A q \in Procs : Writing(q) => proc'[q] = proc[q]
  BY DEF Writing
<1>5. ASSUME ~spoilt' PROVE OneWriter'
  <2>1. OneWriter
    BY <1>5 DEF ConfigInv, ConfigTypeOK
  <2>2. \A q, r \in Procs : Writing(q)' /\ Writing(r)' => q = r
    BY <1>3, <2>1 DEF OneWriter
  <2>3. InTable' = InTable
    BY DEF InTable
  <2>4. ASSUME NEW q \in Procs, Writing(q)'
        PROVE  /\ ~lost' => proc'[q].base = version'
               /\ IF InTable' THEN store' \o proc'[q].rows = Rows(kind', proc'[q].mem)
                  ELSE store' = <<>> /\ proc'[q].rows = Rows(kind', proc'[q].mem)
    <3>1. Writing(q) /\ proc'[q] = proc[q]
      BY <1>3, <1>4, <2>4
    <3> QED BY <2>1, <2>3, <3>1 DEF OneWriter, ConfigInv, ConfigTypeOK
  <2> QED BY <2>2, <2>4 DEF OneWriter
<1>6. ASSUME ~spoilt', ~lost' PROVE UpToDate'
  <2>1. UpToDate
    BY <1>6 DEF ConfigInv, ConfigTypeOK
  <2>2. (\A q \in Procs : ~Writing(q)') => Meaning(kind', store') = book'
    BY <1>3, <2>1 DEF UpToDate
  <2>3. \A n \in Names(kind') : Key(kind', n).temp => book'[n] = Meaning(kind', <<>>)[n]
    BY <2>1 DEF UpToDate
  <2>4. ASSUME NEW q \in Procs PROVE UpOk(proc[q])'
    <3>1. CASE q = p
      BY <1>6, <3>1
    <3>2. CASE q # p
      <4>1. proc'[q] = proc[q] /\ UpOk(proc[q])
        BY <2>1, <3>2 DEF UpToDate
      <4> QED BY <4>1 DEF UpOk
    <3> QED BY <3>1, <3>2
  <2> QED BY <2>2, <2>3, <2>4 DEF UpToDate
<1> QED BY <1>1, <1>2, <1>5, <1>6 DEF ConfigInv

-----------------------------------------------------------------------------
(* Each step keeps it                                                      *)

\* A write that is complete.
LEMMA WrittenStep ==
  ASSUME ConfigInv, NEW p \in Procs, Writing(p), Done(p), UNCHANGED <<kind, lost, dropped>>,
         faults' \in 0..MaxFaults, spoilt' \in BOOLEAN, spoilt => spoilt',
         store' \in Seq(Row(kind)), ~spoilt' => store' = Rows(kind, proc[p].mem)
  PROVE  ConfigInv'
<1>1. kind \in Kinds /\ version \in Nat /\ proc \in [Procs -> ProcType(kind)]
      /\ book \in [Names(kind) -> SUBSET Texts] /\ spoilt \in BOOLEAN
  BY DEF ConfigInv, ConfigTypeOK
<1>2. CopyOk(proc[p]) /\ proc[p].pc = "rows"
  BY DEF ConfigInv, Writing
<1>3. Sound(kind, proc[p].mem) /\ (proc[p].edit.op = "none" \/ proc[p].edit \in Edits[kind])
  BY <1>2 DEF CopyOk
<1>4. NoEdit \in Change(kind) /\ NoEdit.op = "none"
  BY NoEditFact
<1>5. /\ proc'[p].pc = "idle" /\ proc'[p].mem = proc[p].mem /\ proc'[p].edit = NoEdit
      /\ proc'[p].base = version + 1
  BY <1>1 DEF Done, ProcType
<1>6. proc' \in [Procs -> ProcType(kind)]
  <2>1. <<>> \in Seq(Row(kind)) /\ version + 1 \in Nat
    BY <1>1
  <2>2. PICK R, M, W, C : R = ProcType(kind) /\ M = Seq(Value(kind)) /\ W = Seq(Row(kind)) /\ C = Change(kind)
    OBVIOUS
  <2>3. PICK none \in W, v \in Nat, e \in C : none = <<>> /\ v = version + 1 /\ e = NoEdit
    BY <1>4, <2>1, <2>2
  <2>4. proc' = [proc EXCEPT ![p].pc = "idle", ![p].base = v, ![p].rows = none, ![p].edit = e]
    BY <2>3 DEF Done
  <2>5. R = [pc : {"off", "idle", "open", "rows"}, mem : M, rows : W, base : Nat, edit : C]
    BY <2>2 DEF ProcType, Change
  <2>6. proc \in [Procs -> R]
    BY <1>1, <2>2
  <2>7. proc' \in [Procs -> R]
    BY <2>4, <2>5, <2>6
  <2> QED BY <2>2, <2>7
<1>7. \A q \in Procs : q # p => proc'[q] = proc[q]
  BY <1>1 DEF Done
<1>8. version' = version + 1 /\ book' = Edited(kind, book, proc[p].edit)
  BY DEF Done
<1>9. /\ book' \in [Names(kind) -> SUBSET Texts]
      /\ \A n \in Names(kind) : Key(kind, n).temp => book'[n] = book[n]
  BY <1>1, <1>3, <1>8, EditedFact
<1>10. ConfigTypeOK'
  BY <1>1, <1>6, <1>8, <1>9 DEF ConfigInv, ConfigTypeOK
<1>11. CopyOk(proc[p])'
  BY <1>1, <1>2, <1>3, <1>4, <1>5, <1>8 DEF CopyOk
<1>12. \A q \in Procs : CopyOk(proc[q])'
  BY <1>1, <1>7, <1>8, <1>11, CopiesKept
<1>13. ASSUME ~spoilt', NEW q \in Procs PROVE ~Writing(q)'
  <2>1. CASE q = p
    BY <1>5, <2>1 DEF Writing
  <2>2. CASE q # p
    <3>1. ~Writing(q)
      BY <1>13, <2>2 DEF ConfigInv, OneWriter
    <3> QED BY <1>7, <2>2, <3>1 DEF Writing
  <2> QED BY <2>1, <2>2
<1>14. ~spoilt' => OneWriter'
  BY <1>13 DEF OneWriter
<1>15. ASSUME ~spoilt', ~lost' PROVE UpToDate'
  <2>1. UpToDate /\ OneWriter
    BY <1>15 DEF ConfigInv
  <2>2. proc[p].base = version
    BY <1>15, <2>1 DEF OneWriter
  <2>3. Agree(kind, proc[p].mem, book')
    BY <1>2, <1>8, <2>1, <2>2 DEF UpToDate, UpOk
  <2>4. \A n \in Names(kind) : Key(kind, n).temp => book'[n] = Meaning(kind, <<>>)[n]
    BY <1>9, <2>1 DEF UpToDate
  <2>5. store' \in Seq(Row(kind)) /\ Meaning(kind, store') \in [Names(kind) -> SUBSET Texts]
    BY <1>1, MeaningFact
  <2>6. store' = Rows(kind, proc[p].mem)
    BY <1>15
  <2>7. ASSUME NEW n \in Names(kind) PROVE Meaning(kind, store')[n] = book'[n]
    <3>1. Straight(kind, proc[p].mem) /\ Here(kind, proc[p].mem)
      BY <1>2, <1>15 DEF CopyOk
    <3>2. Meaning(kind, Rows(kind, proc[p].mem))[n] =
            IF Key(kind, n).temp THEN Meaning(kind, <<>>)[n] ELSE Back(kind, proc[p].mem, n)
      BY <1>1, <1>3, <3>1, RoundTrip
    <3> QED BY <2>3, <2>4, <2>6, <3>2 DEF Agree
  <2>8. Meaning(kind, store') = book'
    BY <1>9, <2>5, <2>7
  <2>9. ASSUME NEW q \in Procs PROVE UpOk(proc[q])'
    <3>1. CASE q = p
      <4>1. Edited(kind, book', NoEdit) = book'
        BY <1>1, <1>4, <1>9, EditedFact
      <4>2. Agree(kind, proc'[p].mem, Edited(kind, book', proc'[p].edit))
        BY <1>5, <2>3, <4>1
      <4> QED BY <3>1, <4>2 DEF UpOk
    <3>2. CASE q # p
      <4>1. proc'[q] = proc[q] /\ CopyOk(proc[q])
        BY <1>7, <3>2 DEF ConfigInv
      <4>2. proc[q].base <= version /\ proc[q].base \in Nat
        BY <1>1, <4>1 DEF CopyOk, ProcType
      <4>3. proc'[q].base # version'
        BY <1>1, <1>8, <4>1, <4>2
      <4> QED BY <4>3 DEF UpOk
    <3> QED BY <3>1, <3>2
  <2> QED BY <2>4, <2>8, <2>9 DEF UpToDate
<1> QED BY <1>10, <1>12, <1>14, <1>15 DEF ConfigInv

\* What is written over an empty file is all there is.
LEMMA OverFact ==
  ASSUME NEW T, NEW new \in Seq(T), NEW old \in Seq(T)
  PROVE  Over(new, old) \in Seq(T) /\ Over(new, <<>>) = new
<1>1. Len(new) \in Nat /\ Len(old) \in Nat
  BY LenProperties
<1> DEFINE rest == SubSeq(old, Len(new) + 1, Len(old))
<1>2. rest \in Seq(T)
  BY <1>1
<1>3. new \o rest \in Seq(T)
  <2> HIDE DEF rest
  <2> QED BY <1>2, ConcatProperties
<1>4. SubSeq(<<>>, Len(new) + 1, Len(<<>>)) = <<>>
  <2>1. Len(<<>>) = 0
    OBVIOUS
  <2>2. SubSeq(<<>>, Len(new) + 1, 0) = <<>>
    BY <1>1, SubSeqProperties
  <2> QED BY <2>1, <2>2
<1>5. new \o <<>> = new
  BY ConcatEmptySeq
<1> QED BY <1>3, <1>4, <1>5 DEF Over

\* When some lines are written they are lines.
LEMMA PartlyFact ==
  ASSUME ConfigInv, NEW p \in Procs, Partly(p)
  PROVE  store' \in Seq(Row(kind)) /\ faults' \in 0..MaxFaults /\ spoilt' = TRUE
<1>1. /\ store \in Seq(Row(kind)) /\ proc \in [Procs -> ProcType(kind)]
      /\ faults \in 0..MaxFaults
  BY DEF ConfigInv, ConfigTypeOK
<1>2. faults' = faults + 1 /\ faults < MaxFaults /\ spoilt' = TRUE
  BY DEF Partly
<1>3. proc[p].rows \in Seq(Row(kind))
  BY <1>1 DEF ProcType
<1>4. Len(proc[p].rows) \in Nat
  BY <1>3, LenProperties
<1>5. PICK n \in 0..Len(proc[p].rows) : store' = Over(SubSeq(proc[p].rows, 1, n), store)
  BY <1>4 DEF Partly
<1>6. SubSeq(proc[p].rows, 1, n) \in Seq(Row(kind))
  BY <1>3, <1>4
<1>7. store' \in Seq(Row(kind))
  BY <1>1, <1>5, <1>6, OverFact
<1>8. faults' \in 0..MaxFaults
  BY <1>1, <1>2, BoundAssumed
<1> QED BY <1>2, <1>7, <1>8

\* The lines of a file are written when it is closed.
LEMMA CloseFileStep ==
  ASSUME ConfigInv, NEW p \in Procs, CloseFile(p)
  PROVE  ConfigInv'
<1>1. /\ store \in Seq(Row(kind)) /\ proc \in [Procs -> ProcType(kind)]
      /\ faults \in 0..MaxFaults /\ spoilt \in BOOLEAN
  BY DEF ConfigInv, ConfigTypeOK
<1>2. proc[p].rows \in Seq(Row(kind))
  BY <1>1 DEF ProcType
<1>3. Writing(p) /\ ~InTable /\ Done(p) /\ UNCHANGED <<kind, lost, dropped>>
  BY DEF CloseFile, At, Writing
<1>4. CASE store' = Over(proc[p].rows, store) /\ UNCHANGED <<faults, spoilt>>
  <2>1. store' \in Seq(Row(kind))
    BY <1>1, <1>2, <1>4, OverFact
  <2>2. ASSUME ~spoilt PROVE store' = Rows(kind, proc[p].mem)
    <3>1. store = <<>> /\ proc[p].rows = Rows(kind, proc[p].mem)
      BY <1>3, <2>2 DEF ConfigInv, OneWriter
    <3>2. Over(proc[p].rows, <<>>) = proc[p].rows
      BY <1>1, <1>2, OverFact
    <3> QED BY <1>4, <3>1, <3>2
  <2> QED BY <1>1, <1>3, <1>4, <2>1, <2>2, WrittenStep
<1>5. CASE Partly(p)
  <2>1. store' \in Seq(Row(kind)) /\ faults' \in 0..MaxFaults /\ spoilt' = TRUE
    BY <1>5, PartlyFact
  <2> QED BY <1>3, <2>1, WrittenStep
<1> QED BY <1>4, <1>5 DEF CloseFile

\* The last row of the table was inserted.
LEMMA InsertedStep ==
  ASSUME ConfigInv, NEW p \in Procs, Inserted(p)
  PROVE  ConfigInv'
<1>1. store \in Seq(Row(kind))
  BY DEF ConfigInv, ConfigTypeOK
<1>2. Writing(p) /\ InTable /\ Done(p) /\ store' = store /\ proc[p].rows = <<>>
  BY DEF Inserted, At, Writing
<1>3. ASSUME ~spoilt PROVE store' = Rows(kind, proc[p].mem)
  <2>1. store \o <<>> = Rows(kind, proc[p].mem)
    BY <1>2, <1>3 DEF ConfigInv, OneWriter
  <2>2. store \o <<>> = store
    BY <1>1, ConcatEmptySeq
  <2> QED BY <1>2, <2>1, <2>2
<1>4. faults \in 0..MaxFaults /\ spoilt \in BOOLEAN
  BY DEF ConfigInv, ConfigTypeOK
<1> QED BY <1>1, <1>2, <1>3, <1>4, WrittenStep DEF Inserted

\* A sequence is its head and its tail.
LEMMA HeadTailFact ==
  ASSUME NEW T, NEW s \in Seq(T), s # <<>>
  PROVE  s = <<Head(s)>> \o Tail(s)
<1> DEFINE one  == <<Head(s)>>
           tail == Tail(s)
<1>1. /\ Head(s) \in T /\ tail \in Seq(T) /\ Len(tail) = Len(s) - 1
      /\ \A i \in 1..Len(tail) : tail[i] = s[i + 1]
  BY HeadTailProperties
<1>2. Len(s) \in Nat /\ Len(s) # 0
  BY EmptySeq, LenProperties
<1>3. one \in Seq(T) /\ Len(one) = 1 /\ one[1] = s[1]
  BY <1>1
<1> HIDE DEF one, tail
<1>4. /\ one \o tail \in Seq(T) /\ Len(one \o tail) = Len(one) + Len(tail)
      /\ \A i \in 1..(Len(one) + Len(tail)) :
           (one \o tail)[i] = IF i <= Len(one) THEN one[i] ELSE tail[i - Len(one)]
  <2>1. one \in Seq(T)
    BY <1>3
  <2>2. tail \in Seq(T)
    BY <1>1
  <2> QED BY <2>1, <2>2, ConcatProperties
<1> DEFINE all == one \o tail
<1> HIDE DEF all
<1>5. Len(all) = Len(s)
  BY <1>1, <1>2, <1>3, <1>4 DEF all
<1>6. ASSUME NEW i \in 1..Len(s) PROVE all[i] = s[i]
  <2>1. all[i] = IF i <= 1 THEN one[i] ELSE tail[i - 1]
    BY <1>1, <1>2, <1>3, <1>4 DEF all
  <2>2. CASE i = 1
    BY <1>3, <2>1, <2>2
  <2>3. CASE i # 1
    <3>1. i - 1 \in 1..Len(tail) /\ (i - 1) + 1 = i /\ ~(i <= 1)
      BY <1>1, <1>2, <2>3
    <3> QED BY <1>1, <2>1, <3>1
  <2> QED BY <2>2, <2>3
<1>7. all = s
  BY <1>4, <1>5, <1>6, SeqEqual DEF all
<1> QED BY <1>7 DEF all, one, tail

\* A row goes from what is to be written to the table.
LEMMA InsertStep ==
  ASSUME ConfigInv, NEW p \in Procs, Insert(p)
  PROVE  ConfigInv'
<1>1. /\ kind \in Kinds /\ store \in Seq(Row(kind)) /\ proc \in [Procs -> ProcType(kind)]
      /\ version \in Nat
  BY DEF ConfigInv, ConfigTypeOK
<1>2. proc[p].rows \in Seq(Row(kind)) /\ proc[p].rows # <<>>
  BY <1>1 DEF ProcType, Insert
<1> DEFINE head == Head(proc[p].rows)
           tail == Tail(proc[p].rows)
<1>3. head \in Row(kind) /\ tail \in Seq(Row(kind))
  BY <1>2, HeadTailProperties
<1>4. UNCHANGED <<kind, faults, book, version, lost, spoilt, dropped>> /\ Writing(p) /\ InTable
  BY DEF Insert, At, Writing
<1>5. store' = Append(store, head) /\ proc' = [proc EXCEPT ![p].rows = tail]
  BY DEF Insert
<1>6. Append(store, head) \o tail = store \o proc[p].rows
  <2> DEFINE rows == proc[p].rows
  <2>1. rows \in Seq(Row(kind)) /\ rows # <<>>
    BY <1>2
  <2>2. Append(store, head) = store \o <<head>>
    BY <1>1, <1>3, AppendIsConcat
  <2>3. (store \o <<head>>) \o tail = store \o (<<head>> \o tail)
    <3>1. <<head>> \in Seq(Row(kind))
      BY <1>3
    <3> HIDE DEF head, tail
    <3> QED BY <1>1, <1>3, <3>1, ConcatAssociative
  <2>4. rows = <<head>> \o tail
    <3> HIDE DEF rows
    <3>1. rows = <<Head(rows)>> \o Tail(rows)
      BY <2>1, HeadTailFact
    <3> QED BY <3>1 DEF rows
  <2> QED BY <2>2, <2>3, <2>4
<1>7. store' \in Seq(Row(kind))
  BY <1>1, <1>3, <1>5
<1> HIDE DEF head, tail
<1>8. proc' \in [Procs -> ProcType(kind)]
  BY <1>1, <1>3, <1>5 DEF ProcType
<1>9. /\ proc'[p].pc = "rows" /\ proc[p].pc = "rows" /\ proc'[p].mem = proc[p].mem
      /\ proc'[p].base = proc[p].base /\ proc'[p].edit = proc[p].edit /\ proc'[p].rows = tail
  BY <1>1, <1>4, <1>5 DEF ProcType, Writing
<1>10. \A q \in Procs : q # p => proc'[q] = proc[q]
  BY <1>1, <1>5
<1>11. ConfigTypeOK'
  BY <1>4, <1>7, <1>8 DEF ConfigInv, ConfigTypeOK
<1>12. CopyOk(proc[p])'
  <2>1. CopyOk(proc[p])
    BY DEF ConfigInv
  <2> QED BY <1>4, <1>9, <2>1 DEF CopyOk
<1>13. \A q \in Procs : CopyOk(proc[q])'
  BY <1>1, <1>4, <1>10, <1>12, CopiesKept
<1>14. ASSUME ~spoilt' PROVE OneWriter'
  <2>1. OneWriter
    BY <1>4, <1>14 DEF ConfigInv
  <2>2. \A q \in Procs : Writing(q)' <=> q = p
    <3> TAKE q \in Procs
    <3>1. q # p => ~Writing(q)
      BY <1>4, <2>1 DEF OneWriter
    <3> QED BY <1>9, <1>10, <3>1 DEF Writing
  <2>3. InTable'
    BY <1>4 DEF InTable
  <2>4. ~lost' => proc'[p].base = version'
    BY <1>4, <1>9, <2>1 DEF OneWriter
  <2>5. store \o proc[p].rows = Rows(kind, proc[p].mem)
    BY <1>4, <2>1 DEF OneWriter
  <2>6. store' \o proc'[p].rows = Rows(kind', proc'[p].mem)
    BY <1>4, <1>5, <1>6, <1>9, <2>5
  <2> QED BY <2>2, <2>3, <2>4, <2>6 DEF OneWriter
<1>15. ASSUME ~spoilt', ~lost' PROVE UpToDate'
  <2>1. UpToDate
    BY <1>4, <1>15 DEF ConfigInv
  <2>2. Writing(p)'
    BY <1>9 DEF Writing
  <2>3. \A n \in Names(kind') : Key(kind', n).temp => book'[n] = Meaning(kind', <<>>)[n]
    BY <1>4, <2>1 DEF UpToDate
  <2>4. ASSUME NEW q \in Procs PROVE UpOk(proc[q])'
    <3>1. UpOk(proc[q])
      BY <2>1 DEF UpToDate
    <3>2. CASE q = p
      BY <1>4, <1>9, <3>1, <3>2 DEF UpOk
    <3>3. CASE q # p
      BY <1>4, <1>10, <3>1, <3>3 DEF UpOk
    <3> QED BY <3>2, <3>3
  <2> QED BY <2>2, <2>3, <2>4 DEF UpToDate
<1> QED BY <1>11, <1>13, <1>14, <1>15 DEF ConfigInv

\* A write begins; it finds out whether the copy is out of date.
LEMMA EmptyStep ==
  ASSUME ConfigInv, NEW p \in Procs, Empty(p)
  PROVE  ConfigInv'
<1>1. /\ kind \in Kinds /\ store \in Seq(Row(kind)) /\ proc \in [Procs -> ProcType(kind)]
      /\ version \in Nat /\ lost \in BOOLEAN /\ spoilt \in BOOLEAN /\ dropped \in BOOLEAN
  BY DEF ConfigInv, ConfigTypeOK
<1>2. /\ UNCHANGED <<kind, faults, book, version, dropped>> /\ proc[p].pc = "open" /\ store' = <<>>
      /\ proc' = [proc EXCEPT ![p].pc = "rows"]
      /\ spoilt' = (spoilt \/ \E q \in Procs : Writing(q))
      /\ lost' = (lost \/ proc[p].base # version)
  BY DEF Empty, At
<1>3. proc' \in [Procs -> ProcType(kind)]
  BY <1>1, <1>2 DEF ProcType
<1>4. /\ proc'[p].pc = "rows" /\ proc'[p].mem = proc[p].mem
      /\ proc'[p].base = proc[p].base /\ proc'[p].edit = proc[p].edit /\ proc'[p].rows = proc[p].rows
  BY <1>1, <1>2 DEF ProcType
<1>5. \A q \in Procs : q # p => proc'[q] = proc[q]
  BY <1>1, <1>2
<1>6. store' \in Seq(Row(kind)) /\ spoilt' \in BOOLEAN /\ lost' \in BOOLEAN
  BY <1>1, <1>2
<1>7. ConfigTypeOK'
  BY <1>2, <1>3, <1>6 DEF ConfigInv, ConfigTypeOK
<1>8. CopyOk(proc[p])
  BY DEF ConfigInv
<1>9. CopyOk(proc[p])'
  BY <1>2, <1>4, <1>8 DEF CopyOk
<1>13. version <= version' /\ (spoilt => spoilt')
  BY <1>1, <1>2
<1>10. \A q \in Procs : CopyOk(proc[q])'
  BY <1>1, <1>2, <1>5, <1>9, <1>13, CopiesKept
<1>11. ASSUME ~spoilt' PROVE OneWriter'
  <2>1. \A q \in Procs : Writing(q)' => q = p
    BY <1>2, <1>5, <1>11 DEF Writing
  <2>2. proc[p].rows = Rows(kind, proc[p].mem)
    BY <1>2, <1>8 DEF CopyOk
  <2>3. Rows(kind, proc[p].mem) \in Seq(Row(kind))
    BY <1>1, <2>2 DEF ProcType
  <2>4. <<>> \o Rows(kind, proc[p].mem) = Rows(kind, proc[p].mem)
    BY <2>3, ConcatEmptySeq
  <2>5. store' \o proc'[p].rows = Rows(kind', proc'[p].mem) /\ proc'[p].rows = Rows(kind', proc'[p].mem)
    BY <1>2, <1>4, <2>2, <2>4
  <2>6. ~lost' => proc'[p].base = version'
    BY <1>2, <1>4
  <2> QED BY <1>2, <2>1, <2>5, <2>6 DEF OneWriter
<1>12. ASSUME ~spoilt', ~lost' PROVE UpToDate'
  <2>1. UpToDate
    BY <1>1, <1>2, <1>12 DEF ConfigInv
  <2>2. Writing(p)'
    BY <1>4 DEF Writing
  <2>3. \A n \in Names(kind') : Key(kind', n).temp => book'[n] = Meaning(kind', <<>>)[n]
    BY <1>2, <2>1 DEF UpToDate
  <2>4. ASSUME NEW q \in Procs PROVE UpOk(proc[q])'
    <3>1. UpOk(proc[q])
      BY <2>1 DEF UpToDate
    <3>2. CASE q = p
      BY <1>2, <1>4, <3>1, <3>2 DEF UpOk
    <3>3. CASE q # p
      BY <1>2, <1>5, <3>1, <3>3 DEF UpOk
    <3> QED BY <3>2, <3>3
  <2> QED BY <2>2, <2>3, <2>4 DEF UpToDate
<1> QED BY <1>7, <1>10, <1>11, <1>12 DEF ConfigInv

\* A process that is not there has its type.
LEMMA OffFact ==
  Off \in ProcType(kind) /\ Off.pc = "off" /\ Off.base = 0 /\ Off.edit = NoEdit
<1>1. Off.pc = "off" /\ Off.base = 0 /\ Off.edit = NoEdit
  BY DEF Off
<1>2. NoEdit \in Change(kind)
  BY NoEditFact
<1>3. <<>> \in Seq(Value(kind)) /\ <<>> \in Seq(Row(kind))
  OBVIOUS
<1>4. PICK M, W, C : M = Seq(Value(kind)) /\ W = Seq(Row(kind)) /\ C = Change(kind)
  OBVIOUS
<1>5. PICK none : none = <<>>
  OBVIOUS
<1>6. Off = [pc |-> "off", mem |-> none, rows |-> none, base |-> 0, edit |-> NoEdit]
  BY <1>5 DEF Off
<1>7. none \in M /\ none \in W /\ NoEdit \in C
  BY <1>2, <1>3, <1>4, <1>5
<1>8. ProcType(kind) = [pc : {"off", "idle", "open", "rows"}, mem : M, rows : W, base : Nat, edit : C]
  BY <1>4 DEF ProcType, Change
<1>9. Off \in ProcType(kind)
  <2> HIDE DEF NoEdit
  <2> QED BY <1>6, <1>7, <1>8
<1> QED BY <1>1, <1>9

\* A process that has no copy any more is right.
LEMMA GoneFact ==
  ASSUME ConfigInv, NEW p \in Procs, proc' = [proc EXCEPT ![p] = Off], kind' = kind, version' = version
  PROVE  /\ proc' \in [Procs -> ProcType(kind)] /\ proc'[p] = Off
         /\ \A q \in Procs : q # p => proc'[q] = proc[q]
         /\ CopyOk(proc[p])' /\ UpOk(proc[p])' /\ proc'[p].pc # "rows"
<1>1. proc \in [Procs -> ProcType(kind)] /\ version \in Nat
  BY DEF ConfigInv, ConfigTypeOK
<1>2. Off \in ProcType(kind) /\ Off.pc = "off" /\ Off.base = 0 /\ Off.edit = NoEdit
  BY OffFact
<1>3. NoEdit.op = "none"
  BY NoEditFact
<1> HIDE DEF Off
<1>4. /\ proc' \in [Procs -> ProcType(kind)] /\ proc'[p] = Off
      /\ \A q \in Procs : q # p => proc'[q] = proc[q]
  BY <1>1, <1>2
<1>5. CopyOk(proc[p])' /\ UpOk(proc[p])'
  BY <1>1, <1>2, <1>3, <1>4 DEF CopyOk, UpOk
<1> QED BY <1>2, <1>4, <1>5

\* A write is cut short; nothing but the types is left to keep.
LEMMA BreaksStep ==
  ASSUME ConfigInv, NEW p \in Procs, Breaks(p)
  PROVE  ConfigInv'
<1>1. /\ kind \in Kinds /\ store \in Seq(Row(kind)) /\ proc \in [Procs -> ProcType(kind)]
      /\ version \in Nat /\ faults \in 0..MaxFaults
  BY DEF ConfigInv, ConfigTypeOK
<1>2. UNCHANGED <<kind, book, version, lost, dropped>> /\ proc' = [proc EXCEPT ![p] = Off]
  BY DEF Breaks
<1>3. store' \in Seq(Row(kind)) /\ faults' \in 0..MaxFaults /\ spoilt' = TRUE
  <2>1. CASE InTable
    <3>1. faults < MaxFaults /\ faults' = faults + 1 /\ spoilt' = TRUE /\ store' = store
      BY <2>1 DEF Breaks
    <3> QED BY <1>1, <3>1, BoundAssumed
  <2>2. CASE ~InTable
    BY <2>2, PartlyFact DEF Breaks
  <2> QED BY <2>1, <2>2
<1>9. /\ proc' \in [Procs -> ProcType(kind)]
      /\ \A q \in Procs : q # p => proc'[q] = proc[q]
      /\ CopyOk(proc[p])'
  BY <1>2, GoneFact
<1>10. ConfigTypeOK'
  BY <1>2, <1>3, <1>9 DEF ConfigInv, ConfigTypeOK
<1>11. \A q \in Procs : CopyOk(proc[q])'
  BY <1>1, <1>2, <1>3, <1>9, CopiesKept
<1> QED BY <1>3, <1>10, <1>11 DEF ConfigInv

\* A receiver exits.
LEMMA DisconnectStep ==
  ASSUME ConfigInv, NEW a \in Admins, Disconnect(a)
  PROVE  ConfigInv'
<1>1. a \in Procs /\ {lost, spoilt, dropped} \subseteq BOOLEAN
  BY DEF Procs, ConfigInv, ConfigTypeOK
<1>2. /\ UNCHANGED <<kind, store, faults, book, version, lost, spoilt, dropped>>
      /\ proc' = [proc EXCEPT ![a] = Off] /\ ~Writing(a)
  BY DEF Disconnect, At, Writing
<1>3. /\ proc' \in [Procs -> ProcType(kind)]
      /\ \A q \in Procs : q # a => proc'[q] = proc[q]
      /\ CopyOk(proc[a])' /\ UpOk(proc[a])' /\ proc'[a].pc # "rows"
  BY <1>1, <1>2, GoneFact
<1> QED BY <1>1, <1>2, <1>3, QuietStep

\* A receiver starts with the copy of the scheduler.
LEMMA ConnectStep ==
  ASSUME ConfigInv, NEW a \in Admins, Connect(a)
  PROVE  ConfigInv'
<1>1. /\ a \in Procs /\ Sched \in Procs /\ {lost, spoilt, dropped} \subseteq BOOLEAN
      /\ proc \in [Procs -> ProcType(kind)] /\ version \in Nat
  BY DEF Procs, ConfigInv, ConfigTypeOK
<1> DEFINE new == [Off EXCEPT !.pc = "idle", !.mem = proc[Sched].mem, !.base = proc[Sched].base]
<1>2. /\ UNCHANGED <<kind, store, faults, book, version, lost, spoilt, dropped>>
      /\ proc' = [proc EXCEPT ![a] = new] /\ ~Writing(a) /\ proc[Sched].pc = "idle"
  BY DEF Connect, At, Writing
<1>3. Off \in ProcType(kind) /\ Off.edit = NoEdit
  BY OffFact
<1>4. NoEdit.op = "none"
  BY NoEditFact
<1>5. proc[Sched].mem \in Seq(Value(kind)) /\ proc[Sched].base \in Nat
  BY <1>1 DEF ProcType
<1>6. /\ new \in ProcType(kind) /\ new.pc = "idle" /\ new.mem = proc[Sched].mem
      /\ new.base = proc[Sched].base /\ new.edit = NoEdit
  <2> HIDE DEF Off
  <2>1. new \in ProcType(kind)
    BY <1>3, <1>5 DEF ProcType
  <2>2. new.pc = "idle" /\ new.mem = proc[Sched].mem /\ new.base = proc[Sched].base /\ new.edit = Off.edit
    BY <1>3 DEF ProcType
  <2> QED BY <1>3, <2>1, <2>2
<1> HIDE DEF new
<1>7. /\ proc' \in [Procs -> ProcType(kind)] /\ proc'[a] = new
      /\ \A q \in Procs : q # a => proc'[q] = proc[q]
  BY <1>1, <1>2, <1>6
<1>8. CopyOk(proc[Sched]) /\ proc[Sched].edit = NoEdit
  BY <1>1, <1>2 DEF ConfigInv, CopyOk
<1>9. CopyOk(proc[a])'
  BY <1>2, <1>4, <1>6, <1>7, <1>8 DEF CopyOk
<1>10. ASSUME ~spoilt', ~lost' PROVE UpOk(proc[a])'
  <2>1. UpOk(proc[Sched])
    BY <1>1, <1>2, <1>10 DEF ConfigInv, UpToDate
  <2> QED BY <1>2, <1>6, <1>7, <1>8, <2>1 DEF UpOk
<1> QED BY <1>1, <1>2, <1>6, <1>7, <1>9, <1>10, QuietStep

\* The copy after an edit, and the edit.
NewCopy(a, e) ==
  IF e.op = "add" THEN AddValue(kind, proc[a].mem, Free(e)) ELSE DelValue(proc[a].mem, e.key, e.val)
Edits1(a, e) ==
  /\ IF e.op = "add" THEN e.val # NoValue ELSE DelSucceeds(proc[a].mem, e.key, e.val)
  /\ WriteTo(a, NewCopy(a, e), e)
  /\ spoilt' = (spoilt \/ (e.op = "add" /\ Reads[kind][e.val] # e.val))
  /\ dropped' = (dropped \/ \E n \in Needed(kind) : Vals(NewCopy(a, e), n) = {})

\* The administrator edits the copy of a receiver.
LEMMA EditStep ==
  ASSUME ConfigInv, NEW a \in Admins, Edit(a)
  PROVE  ConfigInv'
<1>1. /\ a \in Procs /\ {lost, spoilt, dropped} \subseteq BOOLEAN /\ kind \in Kinds
      /\ book \in [Names(kind) -> SUBSET Texts]
      /\ proc \in [Procs -> ProcType(kind)] /\ version \in Nat
  BY DEF Procs, ConfigInv, ConfigTypeOK
<1>2. UNCHANGED <<kind, store, faults, book, version>> /\ ~Writing(a) /\ proc[a].pc = "idle"
  BY DEF Edit, At, Writing
<1>3. CopyOk(proc[a]) /\ Sound(kind, proc[a].mem) /\ proc[a].edit = NoEdit
  BY <1>1, <1>2 DEF ConfigInv, CopyOk
<1>4. PICK e \in Edits[kind] : Edits1(a, e)
  BY DEF Edit, Edits1, NewCopy
<1>5. e \in Change(kind) /\ e.op \in {"add", "del"} /\ e.key \in Names(kind) /\ e.val \in Texts
  BY <1>1, EditFact
<1> DEFINE new == NewCopy(a, e)
<1>6. /\ WriteTo(a, new, e)
      /\ spoilt' = (spoilt \/ (e.op = "add" /\ Reads[kind][e.val] # e.val))
      /\ dropped' = (dropped \/ \E n \in Needed(kind) : Vals(new, n) = {})
      /\ \/ e.op = "add" /\ e.val # NoValue /\ new = AddValue(kind, proc[a].mem, Free(e))
         \/ e.op = "del" /\ DelSucceeds(proc[a].mem, e.key, e.val) /\ new = DelValue(proc[a].mem, e.key, e.val)
  BY <1>4, <1>5 DEF Edits1, NewCopy
<1> HIDE DEF new
<1>7. Sound(kind, new)
  <2>1. CASE new = AddValue(kind, proc[a].mem, Free(e))
    <3>1. Free(e) \in Value(kind) /\ ~Free(e).prot
      BY <1>5, MakeFact DEF Free
    <3> QED BY <1>1, <1>3, <2>1, <3>1, AddFact
  <2>2. CASE new = DelValue(proc[a].mem, e.key, e.val)
    BY <1>1, <1>3, <2>2, DelFact
  <2> QED BY <1>6, <2>1, <2>2
<1>8. ASSUME Agree(kind, proc[a].mem, book) PROVE Agree(kind, new, Edited(kind, book, e))
  <2>1. CASE e.op = "add" /\ e.val # NoValue /\ new = AddValue(kind, proc[a].mem, Free(e))
    BY <1>1, <1>3, <1>5, <1>8, <2>1, AddAgrees
  <2>2. CASE e.op = "del" /\ DelSucceeds(proc[a].mem, e.key, e.val) /\ new = DelValue(proc[a].mem, e.key, e.val)
    BY <1>1, <1>3, <1>5, <1>8, <2>2, DelAgrees
  <2> QED BY <1>6, <2>1, <2>2
<1>9. new \in Seq(Value(kind)) /\ Rows(kind, new) \in Seq(Row(kind))
  <2>1. new \in Seq(Value(kind))
    BY <1>7 DEF Sound
  <2> QED BY <1>1, <2>1, RowsFact
<1>13. {spoilt', dropped'} \subseteq BOOLEAN /\ (spoilt => spoilt')
  BY <1>1, <1>6
<1>14. ~spoilt' => Straight(kind, new)
  <2> SUFFICES ASSUME ~spoilt' PROVE Straight(kind, new)
    OBVIOUS
  <2>1. Straight(kind, proc[a].mem) /\ (e.op = "add" => Reads[kind][e.val] = e.val)
    BY <1>2, <1>3, <1>6 DEF CopyOk
  <2>2. CASE e.op = "add" /\ new = AddValue(kind, proc[a].mem, Free(e))
    <3>1. Free(e) \in Value(kind) /\ ~Free(e).prot /\ Free(e).val = e.val
      BY <1>5, MakeFact DEF Free
    <3> QED BY <1>1, <1>3, <2>1, <2>2, <3>1, StraightKept
  <2>3. CASE new = DelValue(proc[a].mem, e.key, e.val)
    BY <1>1, <1>3, <2>1, <2>3, StraightKept
  <2> QED BY <1>6, <2>2, <2>3
<1>15. CASE Vals(new, Home[kind].key) = {Home[kind].val} /\ StartWrite(a, new, e) /\ lost' = lost
  <2>1. /\ proc' \in [Procs -> ProcType(kind)]
        /\ proc'[a].pc = "open" /\ proc'[a].mem = new /\ proc'[a].edit = e
        /\ proc'[a].base = proc[a].base /\ proc'[a].rows = Rows(kind, new)
        /\ \A q \in Procs : q # a => proc'[q] = proc[q]
    BY <1>1, <1>15, <1>5, <1>9 DEF StartWrite, ProcType, Change
  <2>5. Here(kind, new)
    BY <1>15 DEF Here
  <2>2. CopyOk(proc[a])'
    BY <1>2, <1>3, <1>7, <1>14, <2>1, <2>5 DEF CopyOk
  <2>3. ASSUME ~spoilt', ~lost' PROVE UpOk(proc[a])'
    <3> SUFFICES ASSUME proc[a].base = version PROVE Agree(kind, new, Edited(kind, book, e))
      BY <1>2, <2>1 DEF UpOk
    <3>1. UpOk(proc[a])
      BY <1>1, <1>13, <1>15, <2>3 DEF ConfigInv, UpToDate
    <3>2. NoEdit.op = "none"
      BY NoEditFact
    <3>3. Edited(kind, book, NoEdit) = book
      BY <1>1, <3>2, EditedFact
    <3>4. Agree(kind, proc[a].mem, book)
      BY <1>2, <1>3, <3>1, <3>3 DEF UpOk
    <3> QED BY <1>8, <3>4
  <2>4. {lost', spoilt', dropped'} \subseteq BOOLEAN /\ (lost => lost') /\ proc'[a].pc # "rows"
    BY <1>1, <1>13, <1>15, <2>1
  <2> QED BY <1>1, <1>2, <1>13, <2>1, <2>2, <2>3, <2>4, QuietStep
<1>16. CASE proc' = [proc EXCEPT ![a] = Off] /\ lost' = lost
  <2>1. /\ proc' \in [Procs -> ProcType(kind)]
        /\ \A q \in Procs : q # a => proc'[q] = proc[q]
        /\ CopyOk(proc[a])' /\ UpOk(proc[a])' /\ proc'[a].pc # "rows"
    BY <1>1, <1>2, <1>16, GoneFact
  <2>2. {lost', spoilt', dropped'} \subseteq BOOLEAN /\ (lost => lost')
    BY <1>1, <1>13, <1>16
  <2> QED BY <1>1, <1>2, <1>13, <2>1, <2>2, QuietStep
<1>17. CASE proc' = [proc EXCEPT ![a].mem = new] /\ lost' = TRUE
  <2>1. /\ proc' \in [Procs -> ProcType(kind)]
        /\ proc'[a].pc = "idle" /\ proc'[a].mem = new /\ proc'[a].edit = NoEdit
        /\ proc'[a].base = proc[a].base
        /\ \A q \in Procs : q # a => proc'[q] = proc[q]
    BY <1>1, <1>2, <1>3, <1>17, <1>9 DEF ProcType
  <2>2. CopyOk(proc[a])'
    BY <1>2, <1>3, <1>7, <1>14, <2>1 DEF CopyOk
  <2>3. {lost', spoilt', dropped'} \subseteq BOOLEAN /\ lost' = TRUE /\ proc'[a].pc # "rows"
    BY <1>13, <1>17, <2>1
  <2> QED BY <1>1, <1>2, <1>13, <2>1, <2>2, <2>3, QuietStep
<1> QED BY <1>6, <1>15, <1>16, <1>17 DEF WriteTo

\* The scheduler reads the config; a copy that is fresh means what the storage means.
LEMMA ReadStep ==
  ASSUME ConfigInv, Read
  PROVE  ConfigInv'
<1> DEFINE mem == Load(kind, store)
           rows == Rows(kind, mem)
<1>1. /\ Sched \in Procs /\ {lost, spoilt, dropped} \subseteq BOOLEAN /\ kind \in Kinds /\ book \in [Names(kind) -> SUBSET Texts]
      /\ proc \in [Procs -> ProcType(kind)] /\ version \in Nat /\ store \in Seq(Row(kind))
  BY DEF Procs, ConfigInv, ConfigTypeOK
<1>2. /\ UNCHANGED <<kind, store, faults, book, version, lost, dropped>> /\ ~Writing(Sched)
      /\ proc[Sched].pc \in {"off", "idle"}
      /\ spoilt' = (spoilt \/ \E q \in Procs : Writing(q))
  BY DEF Read, At, Writing
<1>3. {lost', spoilt', dropped'} \subseteq BOOLEAN /\ (spoilt => spoilt')
  BY <1>1, <1>2
<1>4. proc[Sched].edit = NoEdit /\ NoEdit.op = "none"
  BY <1>1, <1>2, NoEditFact DEF ConfigInv, CopyOk
<1>5. Sound(kind, mem) /\ Agree(kind, mem, Meaning(kind, store)) /\ Straight(kind, mem)
  BY <1>1, LoadFact, ReadAgrees, LoadStraight
<1>6. mem \in Seq(Value(kind)) /\ rows \in Seq(Row(kind))
  <2>1. mem \in Seq(Value(kind))
    BY <1>5 DEF Sound
  <2> HIDE DEF mem
  <2> QED BY <1>1, <2>1, RowsFact
<1>7. \/ /\ proc' = [proc EXCEPT ![Sched].pc = "open", ![Sched].mem = mem, ![Sched].base = version, ![Sched].rows = rows]
         /\ Fills
      \/ proc' = [proc EXCEPT ![Sched].pc = "idle", ![Sched].mem = mem, ![Sched].base = version]
      \/ proc' = [proc EXCEPT ![Sched] = Off]
  BY DEF Read
<1> HIDE DEF mem, rows
<1>8. ASSUME ~spoilt', ~lost' PROVE Agree(kind, mem, Edited(kind, book, NoEdit))
  <2>1. ~spoilt /\ \A q \in Procs : ~Writing(q)
    BY <1>1, <1>2, <1>8
  <2>2. Meaning(kind, store) = book
    BY <1>2, <1>8, <2>1 DEF ConfigInv, UpToDate
  <2>3. Edited(kind, book, NoEdit) = book
    BY <1>1, <1>4, EditedFact
  <2> QED BY <1>5, <2>2, <2>3
<1>9. CASE /\ proc' = [proc EXCEPT ![Sched].pc = "open", ![Sched].mem = mem, ![Sched].base = version, ![Sched].rows = rows]
           /\ Fills
  <2>1. proc' \in [Procs -> ProcType(kind)]
    <3>1. PICK R, M, W, C : R = ProcType(kind) /\ M = Seq(Value(kind)) /\ W = Seq(Row(kind)) /\ C = Change(kind)
      OBVIOUS
    <3>2. R = [pc : {"off", "idle", "open", "rows"}, mem : M, rows : W, base : Nat, edit : C]
      BY <3>1 DEF ProcType, Change
    <3>3. proc \in [Procs -> R] /\ mem \in M /\ rows \in W
      BY <1>1, <1>6, <3>1
    <3>4. proc' \in [Procs -> R]
      BY <1>1, <1>9, <3>2, <3>3
    <3> QED BY <3>1, <3>4
  <2>2. /\ proc'[Sched].pc = "open" /\ proc'[Sched].mem = mem /\ proc'[Sched].base = version
        /\ proc'[Sched].rows = rows /\ proc'[Sched].edit = proc[Sched].edit
    BY <1>1, <1>9 DEF ProcType
  <2>3. \A q \in Procs : q # Sched => proc'[q] = proc[q]
    BY <1>1, <1>9
  <2>4. CopyOk(proc[Sched])'
    <3>1. Here(kind, mem)
      BY <1>9 DEF Here, Fills
    <3> QED BY <1>1, <1>2, <1>4, <1>5, <2>2, <3>1 DEF CopyOk, rows
  <2>5. ~spoilt' /\ ~lost' => UpOk(proc[Sched])'
    BY <1>2, <1>4, <1>8, <2>2 DEF UpOk
  <2> QED BY <1>1, <1>2, <1>3, <2>1, <2>2, <2>3, <2>4, <2>5, QuietStep
<1>10. CASE proc' = [proc EXCEPT ![Sched].pc = "idle", ![Sched].mem = mem, ![Sched].base = version]
  <2>1. proc' \in [Procs -> ProcType(kind)]
    <3>1. PICK R, M, W, C : R = ProcType(kind) /\ M = Seq(Value(kind)) /\ W = Seq(Row(kind)) /\ C = Change(kind)
      OBVIOUS
    <3>2. R = [pc : {"off", "idle", "open", "rows"}, mem : M, rows : W, base : Nat, edit : C]
      BY <3>1 DEF ProcType, Change
    <3>3. proc \in [Procs -> R] /\ mem \in M /\ rows \in W
      BY <1>1, <1>6, <3>1
    <3>4. proc' \in [Procs -> R]
      BY <1>1, <1>10, <3>2, <3>3
    <3> QED BY <3>1, <3>4
  <2>2. /\ proc'[Sched].pc = "idle" /\ proc'[Sched].mem = mem /\ proc'[Sched].base = version
        /\ proc'[Sched].edit = proc[Sched].edit
    BY <1>1, <1>10 DEF ProcType
  <2>3. \A q \in Procs : q # Sched => proc'[q] = proc[q]
    BY <1>1, <1>10
  <2>4. CopyOk(proc[Sched])'
    BY <1>1, <1>2, <1>4, <1>5, <2>2 DEF CopyOk
  <2>5. ~spoilt' /\ ~lost' => UpOk(proc[Sched])'
    BY <1>2, <1>4, <1>8, <2>2 DEF UpOk
  <2> QED BY <1>1, <1>2, <1>3, <2>1, <2>2, <2>3, <2>4, <2>5, QuietStep
<1>11. CASE proc' = [proc EXCEPT ![Sched] = Off]
  <2>1. /\ proc' \in [Procs -> ProcType(kind)]
        /\ \A q \in Procs : q # Sched => proc'[q] = proc[q]
        /\ CopyOk(proc[Sched])' /\ UpOk(proc[Sched])' /\ proc'[Sched].pc # "rows"
    BY <1>1, <1>2, <1>11, GoneFact
  <2> QED BY <1>1, <1>2, <1>3, <2>1, QuietStep
<1> QED BY <1>7, <1>9, <1>10, <1>11

\* The config starts inside the invariant.
LEMMA InitConfig == ConfigInit => ConfigInv
<1> SUFFICES ASSUME ConfigInit PROVE ConfigInv
  OBVIOUS
<1>1. /\ kind \in Kinds /\ store \in Initial[kind] /\ proc = [p \in Procs |-> Off]
      /\ faults = 0 /\ version = 0 /\ book = Meaning(kind, store) /\ lost = FALSE /\ spoilt = FALSE /\ dropped = FALSE
  BY DEF ConfigInit
<1>2. store \in Seq(Row(kind)) /\ \A i \in DOMAIN store : ~Key(kind, store[i].key).temp
  BY <1>1, ConfigAssumption
<1>3. Off \in ProcType(kind) /\ Off.pc = "off" /\ Off.base = 0 /\ Off.edit = NoEdit
  BY OffFact
<1>4. NoEdit.op = "none"
  BY NoEditFact
<1> HIDE DEF Off
<1>5. ConfigTypeOK
  <2>1. proc \in [Procs -> ProcType(kind)]
    BY <1>1, <1>3
  <2>2. book \in [Names(kind) -> SUBSET Texts]
    BY <1>1, <1>2, MeaningFact
  <2>3. faults \in 0..MaxFaults /\ version \in Nat
    BY <1>1, BoundAssumed
  <2> QED BY <1>1, <1>2, <2>1, <2>2, <2>3 DEF ConfigTypeOK
<1>6. \A p \in Procs : proc[p] = Off
  BY <1>1
<1>7. \A p \in Procs : CopyOk(proc[p])
  BY <1>1, <1>3, <1>4, <1>6 DEF CopyOk
<1>8. OneWriter
  BY <1>3, <1>6 DEF OneWriter, Writing
<1>9. UpToDate
  <2>1. \A p \in Procs : UpOk(proc[p])
    BY <1>3, <1>6 DEF UpOk
  <2>2. ASSUME NEW n \in Names(kind), Key(kind, n).temp PROVE book[n] = Meaning(kind, <<>>)[n]
    <3>1. Vals(store, n) = {}
      BY <1>2, <2>2, ValsFact
    <3> QED BY <1>1, <1>2, <3>1, VoidFact
  <2> QED BY <1>1, <2>1, <2>2 DEF UpToDate
<1> QED BY <1>5, <1>7, <1>8, <1>9 DEF ConfigInv

\* Steps of other parts leave the config as it is.
LEMMA StutterConfig == ConfigInv /\ UNCHANGED configVars => ConfigInv'
<1> SUFFICES ASSUME ConfigInv, UNCHANGED configVars PROVE ConfigInv'
  OBVIOUS
<1>1. UNCHANGED <<kind, store, proc, faults, book, version, lost, spoilt, dropped>>
  BY DEF configVars
<1>2. ConfigTypeOK'
  BY <1>1 DEF ConfigInv, ConfigTypeOK
<1>3. \A p \in Procs : CopyOk(proc[p])'
  BY <1>1 DEF ConfigInv, CopyOk
<1>4. ~spoilt' => OneWriter'
  BY <1>1 DEF ConfigInv, OneWriter, Writing, InTable
<1>5. ~spoilt' /\ ~lost' => UpToDate'
  BY <1>1 DEF ConfigInv, UpToDate, UpOk, Writing
<1> QED BY <1>2, <1>3, <1>4, <1>5 DEF ConfigInv

\* The config, in memory and in its storage, for any keys, values, edits and processes.
THEOREM ConfigInvariant == ConfigSpec => []ConfigInv
<1>1. ConfigInit => ConfigInv
  BY InitConfig
<1>2. ConfigInv /\ [ConfigNext]_configVars => ConfigInv'
  <2> SUFFICES ASSUME ConfigInv, [ConfigNext]_configVars PROVE ConfigInv'
    OBVIOUS
  <2>1. CASE Read
    BY <2>1, ReadStep
  <2>2. ASSUME NEW a \in Admins, Connect(a) \/ Edit(a) \/ Disconnect(a) PROVE ConfigInv'
    BY <2>2, ConnectStep, EditStep, DisconnectStep
  <2>3. ASSUME NEW p \in Procs, Empty(p) \/ CloseFile(p) \/ Insert(p) \/ Inserted(p) \/ Breaks(p)
        PROVE  ConfigInv'
    BY <2>3, EmptyStep, CloseFileStep, InsertStep, InsertedStep, BreaksStep
  <2>4. CASE UNCHANGED configVars
    BY <2>4, StutterConfig
  <2> QED BY <2>1, <2>2, <2>3, <2>4 DEF ConfigNext
<1> QED BY <1>1, <1>2, PTL DEF ConfigSpec

\* The variables of the config keep their types.
THEOREM ConfigTyping == ConfigSpec => []ConfigTypeOK
<1>1. ConfigInv => ConfigTypeOK
  BY DEF ConfigInv
<1> QED BY <1>1, ConfigInvariant, PTL

\* What was answered with 250 is what the next reload finds, when no write was cut short
\* or met another, no old copy was written back, none was written elsewhere and each value
\* that was added is one that is read back.
THEOREM EditsKeptHolds == ConfigSpec => []EditsKept
<1>1. ConfigInv => EditsKept
  BY DEF ConfigInv, UpToDate, EditsKept
<1> QED BY <1>1, ConfigInvariant, PTL

-----------------------------------------------------------------------------
(* Keys that must have a value                                             *)

\* A copy has a value for each key that needs one.
Has(k, mem) == \A n \in Needed(k) : Vals(mem, n) # {}

\* Lines that a reload does not end the server for.
Sane(k, rows) == Has(k, Load(k, rows)) /\ ~Exits(k, rows)

\* The storage is such, and the copies have those values; while a process writes, only
\* the copies have them.
Stocked ==
  /\ \A p \in Procs : proc[p].pc # "off" => Has(kind, proc[p].mem)
  /\ (\E p \in Procs : proc[p].pc # "off") /\ (\A p \in Procs : ~Writing(p)) => Sane(kind, store)

StockInv == ConfigInv /\ (~spoilt /\ ~dropped => Stocked)

\* Another config than that of a list in a file has them whatever was read, since it is
\* protected with them.
LEMMA GivenHas ==
  ASSUME NEW k \in Kinds, k # "list file", NEW mem, Sound(k, mem)
  PROVE  Has(k, mem)
<1> SUFFICES ASSUME NEW n \in Needed(k) PROVE Vals(mem, n) # {}
  BY DEF Has
<1>2. PICK i \in DOMAIN Given[k] : Given[k][i].key = n
  BY NeededAssumed
<1>3. Given[k][i].val \in Vals(Given[k], n)
  BY <1>2, ValsFact
<1>4. Vals(Given[k], n) \subseteq Vals(mem, n)
  BY ProtectedFact
<1> QED BY <1>3, <1>4

\* A config that has them is complete, and one that is complete has them.
LEMMA CompleteFact ==
  ASSUME NEW k \in Kinds, NEW rows \in Seq(Row(k))
  PROVE  Complete(k, Load(k, rows)) <=> Has(k, Load(k, rows))
<1> DEFINE mem == Load(k, rows)
<1>1. Sound(k, mem) /\ \A n \in Names(k) : Loaded(k, n, News(k, rows, n), Vals(mem, n))
  BY LoadFact
<1> HIDE DEF mem
<1>2. ASSUME NEW n \in Names(k), Default(k, n) # {} PROVE Vals(mem, n) # {}
  <2>1. Protected(k, n) => Vals(mem, n) # {}
    BY <1>1, ProtectedFact
  <2>2. Loaded(k, n, News(k, rows, n), Vals(mem, n))
    BY <1>1
  <2> QED BY <1>2, <2>1, <2>2 DEF Loaded
<1>3. ASSUME Has(k, mem), NEW x \in Keys[k], x.mand PROVE Vals(mem, x.name) # {}
  <2>1. x.name \in Names(k)
    BY DEF Names
  <2>2. x = Key(k, x.name)
    BY <2>1, KeyFact
  <2>3. CASE x.default = NoValue
    BY <1>3, <2>1, <2>2, <2>3 DEF Has, Needed
  <2>4. CASE x.default # NoValue
    <3>1. Default(k, x.name) # {}
      BY <1>3, <2>2, <2>4 DEF Default
    <3> QED BY <1>2, <2>1, <3>1
  <2> QED BY <2>3, <2>4
<1>4. ASSUME Complete(k, mem), NEW n \in Needed(k) PROVE Vals(mem, n) # {}
  <2>1. n \in Names(k) /\ Key(k, n).mand
    BY DEF Needed
  <2>2. Key(k, n) \in Keys[k] /\ Key(k, n).name = n
    BY <2>1, KeyFact
  <2> QED BY <1>4, <2>1, <2>2 DEF Complete
<1> QED BY <1>3, <1>4 DEF Complete, Has, mem

\* What is written from a copy that has them, and whose values are read back, is such.
LEMMA WrittenHas ==
  ASSUME NEW k \in Kinds, NEW mem, Sound(k, mem), Straight(k, mem), Has(k, mem)
  PROVE  Sane(k, Rows(k, mem))
<1> DEFINE rows == Rows(k, mem)
           new  == Load(k, rows)
<1>1. mem \in Seq(Value(k))
  BY DEF Sound
<1>2. /\ rows \in Seq(Row(k)) /\ Plain(k, rows)
      /\ \A n \in Names(k) : Vals(rows, n) = IF Temporary(k, n) THEN {} ELSE ReadOf(k, Vals(mem, n))
  BY <1>1, RowsFact
<1> HIDE DEF rows
<1>3. Sound(k, new) /\ \A n \in Names(k) : Loaded(k, n, News(k, rows, n), Vals(new, n))
  BY <1>2, LoadFact
<1> HIDE DEF new
<1>5. ASSUME NEW n \in Names(k), ~Temporary(k, n)
      PROVE  Vals(rows, n) = Vals(mem, n) /\ NoValue \notin Vals(mem, n)
  <2>1. \A x \in Vals(mem, n) : Reads[k][x] = x /\ x # NoValue
    BY <1>5 DEF Straight
  <2>2. Vals(rows, n) = {Reads[k][x] : x \in Vals(mem, n)}
    BY <1>2, <1>5 DEF ReadOf
  <2> DEFINE vals == Vals(mem, n)
  <2>3. {Reads[k][x] : x \in vals} = vals
    <3> HIDE DEF vals
    <3>1. \A x \in vals : Reads[k][x] = x
      BY <2>1 DEF vals
    <3> QED BY <3>1
  <2> QED BY <2>1, <2>2, <2>3
<1>4. ASSUME NEW n \in Needed(k) PROVE Vals(new, n) # {}
  <2>1. n \in Names(k) /\ ~Temporary(k, n) /\ Vals(mem, n) # {}
    BY NeededAssumed DEF Has
  <2>2. Vals(rows, n) # {} /\ NoValue \notin Vals(rows, n)
    BY <1>5, <2>1
  <2>5. News(k, rows, n) # {}
    <3> DEFINE home == IF k = "list file" /\ n = Home[k].key THEN {Home[k].val} ELSE {}
    <3>2. rows \in Seq(Row(k))
      BY <1>2
    <3>3. Vals(WithHome(k, rows), n) = Vals(rows, n) \cup home
      BY <3>2, HomeFact
    <3> HIDE DEF home
    <3>1. Vals(rows, n) \subseteq Vals(WithHome(k, rows), n)
      BY <3>3
    <3> QED BY <2>2, <3>1 DEF News
  <2>3. Protected(k, n) => Vals(new, n) # {}
    BY <1>3, ProtectedFact
  <2>4. Loaded(k, n, News(k, rows, n), Vals(new, n))
    BY <1>3, <2>1
  <2> QED BY <2>3, <2>4, <2>5 DEF Loaded
<1>6. ASSUME NEW i \in DOMAIN rows PROVE rows[i].val # NoValue
  <2>1. rows[i].key \in Names(k) /\ ~Temporary(k, rows[i].key)
    BY <1>2, RowFact DEF Plain
  <2>2. rows[i].val \in Vals(rows, rows[i].key)
    BY ValsFact
  <2> QED BY <1>5, <2>1, <2>2
<1> QED BY <1>4, <1>6 DEF Has, Sane, Exits, new, rows

\* A step of p after which its copy has them, and the storage too if nobody writes it.
LEMMA StockKept ==
  ASSUME StockInv, ConfigInv', NEW p \in Procs, kind' = kind, ~spoilt, ~dropped,
         \A q \in Procs : q # p => proc'[q] = proc[q],
         proc'[p].pc # "off" => Has(kind, proc'[p].mem),
         \/ Writing(p)'
         \/ store' = store /\ ~Writing(p) /\ (proc[p].pc # "off" \/ proc'[p].pc = "off")
         \/ Sane(kind, store')
  PROVE  StockInv'
<1>1. Stocked
  BY DEF StockInv
<1>2. \A q \in Procs : proc'[q].pc # "off" => Has(kind, proc'[q].mem)
  BY <1>1 DEF Stocked
<1>3. ASSUME \E q \in Procs : proc'[q].pc # "off", \A q \in Procs : ~Writing(q)'
      PROVE  Sane(kind, store')
  <2>1. CASE store' = store /\ ~Writing(p) /\ (proc[p].pc # "off" \/ proc'[p].pc = "off")
    <3>1. \E q \in Procs : proc[q].pc # "off"
      BY <1>3, <2>1
    <3>2. \A q \in Procs : ~Writing(q)
      BY <1>3, <2>1 DEF Writing
    <3> QED BY <1>1, <2>1, <3>1, <3>2 DEF Stocked
  <2> QED BY <1>3, <2>1
<1>4. Stocked'
  BY <1>2, <1>3 DEF Stocked
<1> QED BY <1>4 DEF StockInv

\* What the invariants say of a process that has a copy.
LEMMA StockFact ==
  ASSUME StockInv, ~spoilt, ~dropped
  PROVE  /\ kind \in Kinds /\ store \in Seq(Row(kind)) /\ Procs # {}
         /\ proc \in [Procs -> ProcType(kind)]
         /\ \A p \in Procs : proc[p].pc # "off" =>
              Sound(kind, proc[p].mem) /\ Has(kind, proc[p].mem) /\ Straight(kind, proc[p].mem)
<1>1. ConfigInv /\ Stocked
  BY DEF StockInv
<1>2. kind \in Kinds /\ store \in Seq(Row(kind)) /\ proc \in [Procs -> ProcType(kind)]
  BY <1>1 DEF ConfigInv, ConfigTypeOK
<1>3. \A p \in Procs : proc[p].pc # "off" =>
        Sound(kind, proc[p].mem) /\ Has(kind, proc[p].mem) /\ Straight(kind, proc[p].mem)
  BY <1>1 DEF ConfigInv, CopyOk, Stocked
<1> QED BY <1>2, <1>3 DEF Procs

\* The storage that is read is such, or the scheduler was not running.
LEMMA ReadStock ==
  ASSUME StockInv, ConfigInv', Read, ~spoilt', ~dropped
  PROVE  StockInv' /\ (At(Sched, "idle") => ~At(Sched, "off")')
<1> DEFINE mem == Load(kind, store)
<1>1. /\ Sched \in Procs /\ UNCHANGED <<kind, store, dropped>> /\ ~Writing(Sched)
      /\ spoilt' = (spoilt \/ \E q \in Procs : Writing(q))
  BY DEF Procs, Read, At, Writing
<1>2. ~spoilt /\ \A q \in Procs : ~Writing(q)
  BY <1>1 DEF StockInv, ConfigInv, ConfigTypeOK
<1>3. kind \in Kinds /\ store \in Seq(Row(kind)) /\ proc \in [Procs -> ProcType(kind)]
  BY <1>2, StockFact
<1>4. (Complete(kind, mem) <=> Has(kind, mem)) /\ Sound(kind, mem)
  BY <1>3, CompleteFact, LoadFact
<1>5. \/ /\ proc' = [proc EXCEPT ![Sched].pc = "open", ![Sched].mem = mem,
                               ![Sched].base = version, ![Sched].rows = Rows(kind, mem)]
         /\ Fills /\ ~Exits(kind, store)
      \/ /\ proc' = [proc EXCEPT ![Sched].pc = "idle", ![Sched].mem = mem, ![Sched].base = version]
         /\ Complete(kind, mem) /\ ~Exits(kind, store)
      \/ /\ proc' = [proc EXCEPT ![Sched] = Off]
         /\ ~Complete(kind, mem) \/ Exits(kind, store)
  BY DEF Read
<1>9. (Has(kind, mem) /\ ~Exits(kind, store)) <=> Sane(kind, store)
  BY DEF Sane
<1> HIDE DEF mem
<1>7. ASSUME NEW pc \in {"open", "idle"}, proc'[Sched].pc = pc, proc'[Sched].mem = mem,
             \A q \in Procs : q # Sched => proc'[q] = proc[q],
             Has(kind, mem), ~Exits(kind, store)
      PROVE  StockInv' /\ ~At(Sched, "off")'
  <2>1. Sane(kind, store')
    BY <1>1, <1>7, <1>9
  <2>2. StockInv'
    BY <1>1, <1>2, <1>7, <2>1, StockKept
  <2> QED BY <1>7, <2>2 DEF At
<1>10. CASE /\ proc' = [proc EXCEPT ![Sched].pc = "open", ![Sched].mem = mem,
                               ![Sched].base = version, ![Sched].rows = Rows(kind, mem)]
            /\ Fills /\ ~Exits(kind, store)
  <2>1. /\ proc'[Sched].pc = "open" /\ proc'[Sched].mem = mem
        /\ \A q \in Procs : q # Sched => proc'[q] = proc[q]
    BY <1>1, <1>3, <1>10 DEF ProcType
  <2>2. Has(kind, mem)
    BY <1>3, <1>4, <1>10, GivenHas DEF Fills
  <2> QED BY <1>7, <1>10, <2>1, <2>2
<1>11. CASE /\ proc' = [proc EXCEPT ![Sched].pc = "idle", ![Sched].mem = mem, ![Sched].base = version]
            /\ Complete(kind, mem) /\ ~Exits(kind, store)
  <2>1. /\ proc'[Sched].pc = "idle" /\ proc'[Sched].mem = mem
        /\ \A q \in Procs : q # Sched => proc'[q] = proc[q]
    BY <1>1, <1>3, <1>11 DEF ProcType
  <2> QED BY <1>4, <1>7, <1>11, <2>1
<1>8. CASE /\ proc' = [proc EXCEPT ![Sched] = Off]
           /\ ~Complete(kind, mem) \/ Exits(kind, store)
  <2>1. Off.pc = "off"
    BY OffFact
  <2>2. proc'[Sched].pc = "off" /\ \A q \in Procs : q # Sched => proc'[q] = proc[q]
    <3> HIDE DEF Off
    <3> QED BY <1>1, <1>3, <1>8, <2>1
  <2>3. ~Sane(kind, store)
    BY <1>4, <1>8, <1>9
  <2>4. \A q \in Procs : proc[q].pc = "off"
    BY <1>2, <2>3 DEF StockInv, Stocked
  <2>5. StockInv'
    BY <1>1, <1>2, <2>2, StockKept
  <2> QED BY <1>1, <2>4, <2>5 DEF At
<1> QED BY <1>5, <1>8, <1>10, <1>11

\* Receivers start, edit and exit without losing a value that each config needs.
LEMMA AdminStock ==
  ASSUME StockInv, ConfigInv', NEW a \in Admins, Connect(a) \/ Edit(a) \/ Disconnect(a),
         ~spoilt', ~dropped'
  PROVE  StockInv'
<1>1. a \in Procs /\ Sched \in Procs
  BY DEF Procs
<1>7. ~spoilt /\ ~dropped
  <2>1. {spoilt, dropped} \subseteq BOOLEAN
    BY DEF StockInv, ConfigInv, ConfigTypeOK
  <2>2. (spoilt => spoilt') /\ (dropped => dropped')
    BY <2>1 DEF Connect, Edit, Disconnect
  <2> QED BY <2>1, <2>2
<1>2. /\ kind \in Kinds /\ proc \in [Procs -> ProcType(kind)]
      /\ \A p \in Procs : proc[p].pc # "off" => Sound(kind, proc[p].mem) /\ Has(kind, proc[p].mem)
  BY <1>7, StockFact
<1>3. UNCHANGED <<kind, store>> /\ ~Writing(a)
  BY DEF Connect, Edit, Disconnect, At, Writing
<1>4. CASE Connect(a)
  <2> DEFINE new == [Off EXCEPT !.pc = "idle", !.mem = proc[Sched].mem, !.base = proc[Sched].base]
  <2>1. proc' = [proc EXCEPT ![a] = new] /\ proc[Sched].pc = "idle"
    BY <1>4 DEF Connect, At
  <2>2. new.mem = proc[Sched].mem
    <3>1. Off \in ProcType(kind)
      BY OffFact
    <3> HIDE DEF Off
    <3> QED BY <3>1 DEF ProcType
  <2> HIDE DEF new
  <2>3. proc'[a] = new /\ \A q \in Procs : q # a => proc'[q] = proc[q]
    BY <1>1, <1>2, <2>1
  <2>4. Has(kind, proc'[a].mem)
    BY <1>1, <1>2, <2>1, <2>2, <2>3
  <2>5. Sane(kind, store') \/ \E q \in Procs : Writing(q)
    <3>1. Stocked
      BY <1>7 DEF StockInv
    <3> QED BY <1>1, <1>3, <2>1, <3>1 DEF Stocked
  <2>6. CASE Sane(kind, store')
    BY <1>1, <1>3, <1>7, <2>3, <2>4, <2>6, StockKept
  <2>7. CASE \E q \in Procs : Writing(q)
    <3>1. \E q \in Procs : Writing(q)'
      BY <1>3, <2>3, <2>7 DEF Writing
    <3>2. Stocked'
      BY <1>3, <1>7, <2>3, <2>4, <3>1 DEF StockInv, Stocked
    <3> QED BY <3>2 DEF StockInv
  <2> QED BY <2>5, <2>6, <2>7
<1>8. ASSUME proc' = [proc EXCEPT ![a] = Off] PROVE StockInv'
  <2>2. Off.pc = "off"
    BY OffFact
  <2> HIDE DEF Off
  <2>3. proc'[a].pc = "off" /\ \A q \in Procs : q # a => proc'[q] = proc[q]
    BY <1>1, <1>2, <1>8, <2>2
  <2> QED BY <1>1, <1>3, <1>7, <2>3, StockKept
<1>5. CASE Disconnect(a)
  BY <1>5, <1>8 DEF Disconnect
<1>6. CASE Edit(a)
  <2>1. PICK e \in Edits[kind] : Edits1(a, e)
    BY <1>6 DEF Edit, Edits1, NewCopy
  <2> DEFINE new == NewCopy(a, e)
  <2>2. WriteTo(a, new, e) /\ dropped' = (dropped \/ \E n \in Needed(kind) : Vals(new, n) = {})
    BY <2>1 DEF Edits1
  <2> HIDE DEF new
  <2>3. proc[a].pc = "idle"
    BY <1>6 DEF Edit, At
  <2>4. Has(kind, new)
    BY <2>2 DEF Has
  <2>5. CASE StartWrite(a, new, e)
    <3>1. proc'[a].mem = new /\ \A q \in Procs : q # a => proc'[q] = proc[q]
      BY <1>1, <1>2, <2>5 DEF StartWrite, ProcType
    <3> QED BY <1>1, <1>3, <1>7, <2>3, <2>4, <3>1, StockKept
  <2>6. CASE proc' = [proc EXCEPT ![a].mem = new]
    <3>1. proc'[a].mem = new /\ \A q \in Procs : q # a => proc'[q] = proc[q]
      BY <1>1, <1>2, <2>6 DEF ProcType
    <3> QED BY <1>1, <1>3, <1>7, <2>3, <2>4, <3>1, StockKept
  <2> QED BY <1>8, <2>2, <2>5, <2>6 DEF WriteTo
<1> QED BY <1>4, <1>5, <1>6

\* So do those that write: the storage has what their copy has.
LEMMA WriterStock ==
  ASSUME StockInv, ConfigInv', NEW p \in Procs, Empty(p) \/ CloseFile(p) \/ Insert(p) \/ Inserted(p),
         ~spoilt', ~dropped'
  PROVE  StockInv'
<1>7. ~spoilt /\ ~dropped
  <2>1. {spoilt, dropped} \subseteq BOOLEAN
    BY DEF StockInv, ConfigInv, ConfigTypeOK
  <2>2. (spoilt => spoilt') /\ (dropped => dropped')
    BY <2>1 DEF Empty, CloseFile, Insert, Inserted, Partly
  <2> QED BY <2>1, <2>2
<1>1. /\ kind \in Kinds /\ store \in Seq(Row(kind)) /\ proc \in [Procs -> ProcType(kind)]
      /\ \A q \in Procs : proc[q].pc # "off" =>
           Sound(kind, proc[q].mem) /\ Has(kind, proc[q].mem) /\ Straight(kind, proc[q].mem)
  BY <1>7, StockFact
<1>8. ASSUME proc[p].pc = "rows", Done(p), kind' = kind, store' = Rows(kind, proc[p].mem)
      PROVE  StockInv'
  <2>1. proc' = [proc EXCEPT ![p].pc = "idle", ![p].base = version + 1,
                             ![p].rows = <<>>, ![p].edit = NoEdit]
    BY <1>8 DEF Done
  <2>2. /\ proc'[p].mem = proc[p].mem
        /\ \A q \in Procs : q # p => proc'[q] = proc[q]
    BY <1>1, <2>1 DEF ProcType
  <2>3. Sane(kind, store') /\ Has(kind, proc'[p].mem)
    BY <1>1, <1>8, <2>2, WrittenHas
  <2> QED BY <1>7, <1>8, <2>2, <2>3, StockKept
<1>2. CASE Empty(p)
  <2>1. proc' = [proc EXCEPT ![p].pc = "rows"] /\ kind' = kind /\ proc[p].pc = "open"
    BY <1>2 DEF Empty, At
  <2>2. /\ proc'[p].pc = "rows" /\ proc'[p].mem = proc[p].mem
        /\ \A q \in Procs : q # p => proc'[q] = proc[q]
    BY <1>1, <2>1 DEF ProcType
  <2>3. Writing(p)' /\ Has(kind, proc'[p].mem)
    BY <1>1, <2>1, <2>2 DEF Writing
  <2> QED BY <1>7, <2>1, <2>2, <2>3, StockKept
<1>3. CASE CloseFile(p)
  <2>1. /\ proc[p].pc = "rows" /\ kind' = kind /\ store' = Over(proc[p].rows, store)
        /\ Done(p) /\ ~InTable
    BY <1>3 DEF CloseFile, At, Partly
  <2>3. store = <<>> /\ proc[p].rows = Rows(kind, proc[p].mem)
    BY <1>7, <2>1 DEF StockInv, ConfigInv, OneWriter, Writing
  <2>4. proc[p].rows \in Seq(Row(kind))
    BY <1>1 DEF ProcType
  <2>5. store' = Rows(kind, proc[p].mem)
    BY <1>1, <2>1, <2>3, <2>4, OverFact
  <2> QED BY <1>8, <2>1, <2>5
<1>4. CASE Insert(p)
  <2>1. kind' = kind /\ proc[p].pc = "rows" /\ proc' = [proc EXCEPT ![p].rows = Tail(@)]
    BY <1>4 DEF Insert, At
  <2>2. /\ proc'[p].pc = "rows" /\ proc'[p].mem = proc[p].mem
        /\ \A q \in Procs : q # p => proc'[q] = proc[q]
    BY <1>1, <2>1 DEF ProcType
  <2>3. Writing(p)' /\ Has(kind, proc'[p].mem)
    BY <1>1, <2>1, <2>2 DEF Writing
  <2> QED BY <1>7, <2>1, <2>2, <2>3, StockKept
<1>5. CASE Inserted(p)
  <2>1. proc[p].pc = "rows" /\ UNCHANGED <<kind, store>> /\ Done(p) /\ InTable /\ proc[p].rows = <<>>
    BY <1>5 DEF Inserted, At
  <2>2. store \o <<>> = Rows(kind, proc[p].mem)
    BY <1>7, <2>1 DEF StockInv, ConfigInv, OneWriter, Writing
  <2>3. store \o <<>> = store
    BY <1>1, ConcatEmptySeq
  <2> QED BY <1>8, <2>1, <2>2, <2>3
<1> QED BY <1>2, <1>3, <1>4, <1>5

\* A step keeps it, and ends the scheduler only as KeepsRunning says.
LEMMA StockStep ==
  ASSUME StockInv, ConfigInv', [ConfigNext]_configVars
  PROVE  StockInv' /\ (At(Sched, "idle") /\ At(Sched, "off")' => spoilt' \/ dropped)
<1>1. /\ proc \in [Procs -> ProcType(kind)]
      /\ Sched \in Procs /\ {spoilt, dropped, spoilt', dropped'} \subseteq BOOLEAN
  BY DEF StockInv, ConfigInv, ConfigTypeOK, Procs
<1>8. spoilt' \/ dropped' => StockInv'
  BY DEF StockInv
<1>3. CASE Read
  <2>1. dropped' = dropped
    BY <1>3 DEF Read
  <2> QED BY <1>1, <1>3, <1>8, <2>1, ReadStock
<1>4. ASSUME NEW a \in Admins, Connect(a) \/ Edit(a) \/ Disconnect(a)
      PROVE  StockInv' /\ (At(Sched, "idle") => ~At(Sched, "off")')
  <2>1. a \in Procs /\ a # Sched
    BY <1>4, ConfigAssumption DEF Procs
  <2>2. \E r : proc' = [proc EXCEPT ![a] = r]
    BY <1>4 DEF Connect, Edit, Disconnect, WriteTo, StartWrite
  <2>3. proc'[Sched] = proc[Sched]
    BY <1>1, <2>1, <2>2
  <2>4. StockInv'
    BY <1>1, <1>4, <1>8, AdminStock
  <2> QED BY <2>3, <2>4 DEF At
<1>5. ASSUME NEW p \in Procs, Empty(p) \/ CloseFile(p) \/ Insert(p) \/ Inserted(p)
      PROVE  StockInv' /\ (At(Sched, "idle") => ~At(Sched, "off")')
  <2>2. proc[p].pc \in {"open", "rows"}
    BY <1>5 DEF Empty, CloseFile, Insert, Inserted, At
  <2>3. \A q \in Procs : q # p => proc'[q] = proc[q]
    BY <1>1, <1>5 DEF Empty, CloseFile, Insert, Inserted, Done
  <2>4. At(Sched, "idle") => ~At(Sched, "off")'
    BY <1>1, <2>2, <2>3 DEF At
  <2>5. StockInv'
    BY <1>1, <1>5, <1>8, WriterStock
  <2> QED BY <2>4, <2>5
<1>6. ASSUME NEW p \in Procs, Breaks(p) PROVE StockInv' /\ spoilt'
  <2>1. spoilt'
    BY <1>6 DEF Breaks, Partly
  <2> QED BY <1>8, <2>1
<1>7. CASE UNCHANGED configVars
  <2>1. UNCHANGED <<kind, store, proc, spoilt, dropped>>
    BY <1>7 DEF configVars
  <2>2. StockInv'
    BY <2>1 DEF StockInv, Stocked, Writing
  <2> QED BY <1>1, <2>1, <2>2 DEF At
<1> QED BY <1>3, <1>4, <1>5, <1>6, <1>7 DEF ConfigNext

\* KeepsRunning: however old the copies are that are written back, a reload ends the
\* scheduler only when a write was cut short or met something else, when a value was added
\* that is not read back, or when one was deleted that has no default.
THEOREM KeepsRunningHolds == ConfigSpec => KeepsRunning
<1> DEFINE Goes == At(Sched, "idle") /\ At(Sched, "off")' => spoilt' \/ dropped
<1>1. ConfigInit => StockInv
  <2> SUFFICES ASSUME ConfigInit PROVE StockInv
    OBVIOUS
  <2>1. proc = [p \in Procs |-> Off] /\ ConfigInv
    BY InitConfig DEF ConfigInit
  <2>2. Off.pc = "off"
    BY OffFact
  <2> HIDE DEF Off
  <2>3. \A p \in Procs : proc[p].pc = "off"
    BY <2>1, <2>2
  <2> QED BY <2>1, <2>3 DEF StockInv, Stocked
<1>2. ConfigInv' /\ StockInv /\ [ConfigNext]_configVars => StockInv' /\ [Goes]_configVars
  BY StockStep
<1>3. KeepsRunning <=> [][Goes]_configVars
  BY PTL DEF KeepsRunning
<1> QED BY <1>1, <1>2, <1>3, ConfigInvariant, PTL DEF ConfigSpec

=============================================================================
