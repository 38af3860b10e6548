----------------------------- MODULE MCReceiver -----------------------------
(* Small instances of the receiver session. *)
EXTENDS Receiver

=============================================================================
