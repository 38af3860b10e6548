------------------------------ MODULE MCSpool -------------------------------
(* Small instances of the spool for TLC. *)
EXTENDS Spool, TLC

CONSTANTS m1, m2, r1, n1, n2, c1, c2, a1

TwoManagers  == {m1, m2}
OneReceiver  == {r1}
OneMessage   == {n1}
TwoMessages  == {n1, n2}
NoNames      == {}
TwoClones    == {c1, c2}
OneMail      == {a1}

\* One thing goes wrong at most, with overlapping selections nothing, and a message is
\* put off once.  Limez writes no mails then, nor when a name ceases to resolve or a
\* message is split, and messages that were split off wait.
Troubles == crashes + Cardinality(dead) + Cardinality({n \in Names : book[n].lost > 0})
Splits   == \E n \in Incoming : book[n].asked > 1
OneTrouble ==
  /\ Troubles <= IF inTurn THEN 1 ELSE 0
  /\ \A n \in Names : conf[n].tries <= 1
  /\ ~inTurn \/ Splits \/ dead # {} => \A n \in MailNames : conf[n] = NoConf
  /\ Splits => inTurn
  /\ \A m \in Managers : proc[m].cand \notin CloneNames /\ proc[m].cur \notin CloneNames

\* Managers are alike; used in runs without liveness properties.
Alike == Permutations({m1, m2}) \cup Permutations({c1, c2})
=============================================================================
