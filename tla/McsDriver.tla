------------------------------ MODULE McsDriver -----------------------------
(***************************************************************************)
(* The whole program of Layer1/2-DPDK.c: main starts two threads, passing  *)
(* each the ADDRESS of its loop variable i.  A thread reads *arg when it   *)
(* is first scheduled and chooses its queue node by the value it finds, so *)
(* the nodes the threads work with depend on how far main's loop has got.  *)
(***************************************************************************)
EXTENDS McsLock

CONSTANTS Main, Node1, Node2

ASSUME DriverAssumption == /\ Thread = {0, 1}
                           /\ Node = {Node1, Node2} /\ Node1 # Node2
                           /\ Main \notin Thread

VARIABLES mpc      \* main's statement

i == <<"i">>

dvars == <<vars, mpc>>

DThread == Thread \cup {Main}
DriverPC == LockPC \cup {"none", "start"}

DTypeOK ==
  /\ MemTypeOK(DThread, LockLoc \cup {i}, LockVal \cup {2})
  /\ pc \in [Thread -> DriverPC]
  /\ node \in [Thread -> Node]
  /\ prev \in [Thread -> Node \cup {NULL}]
  /\ arrivals \in Seq(Thread)
  /\ mpc \in {"create", "incr", "join", "exit"}

DInit ==
  /\ mem = [x \in LockLoc \cup {i} |-> IF x = i THEN 0 ELSE MemInit[x]]
  /\ buf = [t \in DThread |-> << >>]
  /\ pc = [t \in Thread |-> "none"]
  /\ node = [t \in Thread |-> Node1]
  /\ prev = [t \in Thread |-> NULL]
  /\ arrivals = << >>
  /\ mpc = "create"

-----------------------------------------------------------------------------
(* pthread_create(&threads[i], NULL, thread_func, &i), which publishes what *)
(* main has stored so far.                                                 *)
Create ==
  /\ mpc = "create"
  /\ Drained(Main)
  /\ pc' = [pc EXCEPT ![mem[i]] = "start"]
  /\ mpc' = "incr"
  /\ UNCHANGED <<mem, buf, node, prev, arrivals>>

(* Faulty variant: the loop runs once too often.                           *)
IncrementPast ==
  /\ mpc = "incr"
  /\ Store(Main, i, Load(Main, i) + 1)
  /\ mpc' = IF Load(Main, i) + 1 <= 2 THEN "create" ELSE "join"
  /\ UNCHANGED lockVars

(* i++ and the loop's test.                                                *)
Increment ==
  /\ mpc = "incr"
  /\ Store(Main, i, Load(Main, i) + 1)
  /\ mpc' = IF Load(Main, i) + 1 < 2 THEN "create" ELSE "join"
  /\ UNCHANGED lockVars

Join ==
  /\ mpc = "join"
  /\ AllOut
  /\ mpc' = "exit"
  /\ UNCHANGED vars

(* thread_func: thread_id = *arg decides the node.                 *)
Start(t) ==
  /\ At(t, "start")
  /\ node' = [node EXCEPT ![t] = IF Load(t, i) = 1 THEN Node1 ELSE Node2]
  /\ Goto(t, "init1")
  /\ UNCHANGED <<mem, buf, prev, arrivals, mpc>>

DFlush(t) == \E x \in DOMAIN mem : Commit(t, x) /\ UNCHANGED <<lockVars, mpc>>

DStep(t) == Start(t) \/ (Step(t) /\ UNCHANGED mpc)

MainStep == Create \/ Increment \/ Join

DNext ==
  \/ MainStep
  \/ \E t \in Thread : DStep(t)
  \/ \E t \in DThread : DFlush(t)

DSpec == DInit /\ [][DNext]_dvars

DFairness ==
  /\ \A t \in Thread : WF_dvars(DStep(t))
  /\ \A t \in DThread : WF_dvars(DFlush(t))
  /\ WF_dvars(MainStep)

DFairSpec == DSpec /\ DFairness

-----------------------------------------------------------------------------
Using(t) == pc[t] \notin {"none", "start", "out"}
Chosen(t) == pc[t] \notin {"none", "start"}

(* "Each CPU/thread acquiring the lock should use its 'own node'."         *)
OwnNode == \A t, u \in Thread : Using(t) /\ Using(u) /\ node[t] = node[u] => t = u

NodesShared ==
  \E t, u \in Thread : t # u /\ Chosen(t) /\ Chosen(u) /\ node[t] = node[u]

(* Whatever nodes the race hands out, the two threads are never in the     *)
(* critical section together.                                              *)
NeverTogether == \A t, u \in Thread : Inside(t) /\ Inside(u) => t = u

(* As long as the nodes differ, the token is never split and the tail      *)
(* names the last arrival, as for the lock alone.                          *)
OwnNodesSuffice == ~ NodesShared => OneToken /\ TailIsLast

(* On SC and TSO sharing a node is the only way to keep main waiting for   *)
(* its joins: both threads finish unless they picked the same node.        *)
ReturnsUnlessShared == <>(mpc = "exit" \/ NodesShared)
=============================================================================
