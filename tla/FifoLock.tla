------------------------------ MODULE FifoLock ------------------------------
(***************************************************************************)
(* What a queue lock promises: threads are served one at a time and in the *)
(* order in which they arrived.  McsLock and QueueLocks implement it.      *)
(***************************************************************************)
EXTENDS Naturals, Sequences

CONSTANT Thread

VARIABLES
  queue,    \* the threads that have arrived and not left, in arrival order
  inside    \* the threads in the critical section

vars == <<queue, inside>>

InQueue(t) == \E i \in DOMAIN queue : queue[i] = t

Init == queue = << >> /\ inside = {}

(* The first to arrive at a free lock may enter at once.                   *)
Arrive(t) ==
  /\ ~ InQueue(t)
  /\ queue' = Append(queue, t)
  /\ inside' \in {inside, IF queue = << >> THEN {t} ELSE inside}

Enter(t) ==
  /\ queue # << >>
  /\ t = Head(queue)
  /\ inside = {}
  /\ inside' = {t}
  /\ UNCHANGED queue

Leave(t) ==
  /\ inside = {t}
  /\ queue' = Tail(queue)
  /\ inside' = {}

Next == \E t \in Thread : Arrive(t) \/ Enter(t) \/ Leave(t)

Spec == Init /\ [][Next]_vars
=============================================================================
