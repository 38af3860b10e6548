---------------------------- MODULE Exchangers -----------------------------
(***************************************************************************)
(* The choice Resolver::getExchanger makes in the answer of the name        *)
(* server: it reads the exchangers in the order in which they come, keeps   *)
(* those with the three lowest preference values, and gives their addresses. *)
(* The cache file in front of the name server is not modelled.              *)
(***************************************************************************)
EXTENDS Naturals, Sequences, FiniteSets

CONSTANTS
  Addresses,    \* IP addresses
  NoIp          \* 0: no address

\* The largest preference there is.
MaxPref == 65535

\* An answer is the sequence of the exchangers in it; the address of each is
\* looked up while the answer is read, and may be unknown.
Exchanger == [pref : 0..MaxPref, ip : Addresses \cup {NoIp}]

\* mxs and mip before any exchanger is read.  The fourth place of these arrays
\* takes what drops out, and is not read.
Unset == [i \in 1..3 |-> [pref |-> MaxPref, ip |-> NoIp]]

\* mx takes the first of some places, and the ones from there on move down.
Insert(slots, mx, places) ==
  IF places = {} THEN slots
  ELSE LET y == CHOOSE w \in places : \A v \in places : w <= v
       IN [i \in 1..3 |-> IF i < y THEN slots[i] ELSE IF i = y THEN mx ELSE slots[i - 1]]

\* An exchanger goes before the first one with a higher preference value.
Place(slots, mx) == Insert(slots, mx, {y \in 1..3 : mx.pref < slots[y].pref})

\* The places when an answer has been read, and the addresses in them.
Sorted(answer) ==
  LET slots[n \in 0..Len(answer)] == IF n = 0 THEN Unset ELSE Place(slots[n - 1], answer[n])
  IN slots[Len(answer)]

Best(answer) == [i \in 1..3 |-> Sorted(answer)[i].ip]

-----------------------------------------------------------------------------
(* What it should come to                                                  *)

\* Exchanger j of an answer goes before k.
Before(answer, j, k) ==
  answer[j].pref < answer[k].pref \/ (answer[j].pref = answer[k].pref /\ j < k)

\* Those that are chosen from: never one with the highest value there is.
RealOnes(answer) == {k \in DOMAIN answer : answer[k].pref < MaxPref}
Ahead(answer, k) == {j \in RealOnes(answer) : Before(answer, j, k)}

\* The exchanger that stands at a place, as a set of at most one.
Ith(answer, i) == {k \in RealOnes(answer) : Cardinality(Ahead(answer, k)) = i - 1}

\* The insertion of getExchanger sorts: each place holds the address of the exchanger
\* before which as many stand, those of one preference in the order of the answer, and
\* no address where there are fewer.
BestThree(answer) ==
  \A i \in 1..3 :
    Best(answer)[i] =
      IF Ith(answer, i) = {} THEN NoIp ELSE answer[CHOOSE k \in Ith(answer, i) : TRUE].ip

=============================================================================
