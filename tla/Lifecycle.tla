----------------------------- MODULE Lifecycle ------------------------------
(***************************************************************************)
(* What the spool promises about one message, whoever handles it: each       *)
(* status that Message::queue writes into its config follows one that it has *)
(* had, and the message is put away once, with a final status.  A status may *)
(* follow an earlier one than the last, since a manager works from the config*)
(* it has read, and another one may have handled the message since.          *)
(***************************************************************************)
CONSTANT Names          \* message names

VARIABLES
  had,                  \* the statuses each message has had
  fate                  \* what it was put away as, or "none"

Final == {"splitted", "done", "rejected", "error", "sent", "failed"}

\* What a message may begin with, and what its handling may turn a status into.
First == {"received", "created", "spooled"}
Successors(s) ==
  CASE s = "received" -> {"splitted", "done", "rejected", "error", "approved"}
    [] s = "approved" -> {"sent", "failed"}
    [] s = "created"  -> {"sent", "spooled"}
    [] s = "spooled"  -> {"sent", "spooled", "failed"}
    [] OTHER          -> {}

Init == had = [n \in Names |-> {}] /\ fate = [n \in Names |-> "none"]

Advance(n) ==
  /\ \E s \in IF had[n] = {} THEN First ELSE UNION {Successors(t) : t \in had[n]} :
       had' = [had EXCEPT ![n] = @ \cup {s}]
  /\ UNCHANGED fate

PutAway(n) ==
  /\ fate[n] = "none"
  /\ \E s \in had[n] \cap Final : fate' = [fate EXCEPT ![n] = s]
  /\ UNCHANGED had

Next == \E n \in Names : Advance(n) \/ PutAway(n)

Spec == Init /\ [][Next]_<<had, fate>>
=============================================================================
