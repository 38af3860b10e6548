---------------------------- MODULE MCUserFile ------------------------------
(* Small instances of the user file for TLC. *)
EXTENDS UserFile, TLC

CONSTANTS u1, u2, u3, a1, a2, r1, r2, c1

ThreeUsers  == {u1, u2, u3}
OneListed   == <<u1>>
TwoAdders   == {a1, a2}
TwoRemovers == {r1, r2}
OneCopier   == {c1}

\* Once two changes overlapped, or one failed, nothing but the types is claimed: such
\* a behaviour is followed only as long as a change has yet to begin.
Followed == harm => \E p \in Changers : At(p, "start")

Alike == Permutations(TwoAdders) \cup Permutations(TwoRemovers) \cup Permutations({u2, u3})
=============================================================================
