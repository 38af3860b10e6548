---------------------------- MODULE MCBroadcast -----------------------------
(* Small instances of a broadcast for TLC. *)
EXTENDS Broadcast, TLC

CONSTANTS u1, u2, u3, m1, m2

TwoUsers   == {u1, u2}
ThreeUsers == {u1, u2, u3}
NoFaults   == {}
TwoManagers == {m1, m2}
Nobody     == {}

\* The sender gets a transmitter where no copies are made, so that two users have copies.
Usual == [me_too |-> FALSE, auto_unsub |-> TRUE, disable_spool |-> FALSE, connect_only |-> FALSE]
Other == [Usual EXCEPT !.me_too = TRUE, !.auto_unsub = FALSE]
Setups == {Usual, [Other EXCEPT !.disable_spool = TRUE], [Other EXCEPT !.connect_only = TRUE]}
Defaults == {[Usual EXCEPT !.me_too = TRUE]}
=============================================================================
