----------------------------- MODULE MCUserTable -----------------------------
(* A small instance of the user table for TLC. *)
EXTENDS UserTable

CONSTANTS p1, p2, u1, u2, b1

TwoProcs == {p1, p2}
TwoUsers == {u1, u2, b1}
OneBad   == {b1}
=============================================================================
