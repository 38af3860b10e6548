----------------------------- MODULE TaskQueue ------------------------------
(* What List promises to those who use it: the tasks in the order in which    *)
(* they were added, each of them once, until they are taken out.              *)
EXTENDS Naturals, Sequences, SequencesExt

VARIABLE queue

Init == queue = <<>>

\* Which element comes before which, or is it.
Order(s) == UNION {{<<s[m], s[n]>> : m \in 1..n} : n \in DOMAIN s}

\* What is left of the queue is in its order; tasks are taken out.
Leave(rest) == IsInjective(rest) /\ Order(rest) \subseteq Order(queue)

\* A task that is new joins behind it, in the same handler or alone.
Join ==
  /\ queue' # <<>>
  /\ Leave(Front(queue'))
  /\ Last(queue') \notin ToSet(Front(queue'))

Next == Leave(queue') \/ Join

Spec == Init /\ [][Next]_queue
=============================================================================
