------------------------------- MODULE McsLock ------------------------------
(***************************************************************************)
(* Layer1/2-DPDK.c: the MCS queue lock of DPDK, rte_mcslock_lock and       *)
(* rte_mcslock_unlock, each thread taking the lock once with a node of its *)
(* own.  McsDriver adds the program's main, which does not hand the nodes  *)
(* out that way.                                                           *)
(*                                                                         *)
(* arrivals is a history variable: the threads in the order of their       *)
(* exchange on the tail pointer, until they release.                       *)
(***************************************************************************)
EXTENDS StoreBuffers

CONSTANTS Thread, Node, NULL

ASSUME NodeAssumption == NULL \notin Node

VARIABLES pc, node, prev, arrivals

lockVars == <<pc, node, prev, arrivals>>
vars     == <<mem, buf, lockVars>>

(* The words of memory: *msl, and the two fields of every node.            *)
msl       == <<"msl">>
next(n)   == <<"next", n>>
locked(n) == <<"locked", n>>

LockLoc == {msl} \cup {next(n) : n \in Node} \cup {locked(n) : n \in Node}
LockVal == {0, 1, NULL} \cup Node

LockPC == {"init1", "init2", "xchg", "link", "fence", "spin",
           "cs", "cas", "wait", "pass", "out"}

LockTypeOK ==
  /\ pc \in [Thread -> LockPC]
  /\ node \in [Thread -> Node]
  /\ prev \in [Thread -> Node \cup {NULL}]
  /\ arrivals \in Seq(Thread)

MemInit == [x \in LockLoc |-> IF x[1] = "locked" THEN 0 ELSE NULL]

Init ==
  /\ mem = MemInit
  /\ buf = [t \in Thread |-> << >>]
  /\ pc = [t \in Thread |-> "init1"]
  /\ node \in {g \in [Thread -> Node] : \A t, u \in Thread : g[t] = g[u] => t = u}
  /\ prev = [t \in Thread |-> NULL]
  /\ arrivals = << >>

At(t, l)   == pc[t] = l
Goto(t, l) == pc' = [pc EXCEPT ![t] = l]

-----------------------------------------------------------------------------
(* rte_mcslock_lock                                                        *)

(* Faulty variant: locked is initialised to 0.                             *)
Init1Unlocked(t) ==
  /\ At(t, "init1")
  /\ Store(t, locked(node[t]), 0)
  /\ Goto(t, "init2")
  /\ UNCHANGED <<node, prev, arrivals>>

(* Init me node: two relaxed stores.                                       *)
Init1(t) ==
  /\ At(t, "init1")
  /\ Store(t, locked(node[t]), 1)
  /\ Goto(t, "init2")
  /\ UNCHANGED <<node, prev, arrivals>>

Init2(t) ==
  /\ At(t, "init2")
  /\ Store(t, next(node[t]), NULL)
  /\ Goto(t, "xchg")
  /\ UNCHANGED <<node, prev, arrivals>>

(* Faulty variant: the predecessor is ignored.                             *)
ExchangeEnters(t) ==
  /\ At(t, "xchg")
  /\ CanRMW(t, msl)
  /\ prev' = [prev EXCEPT ![t] = mem[msl]]
  /\ SetMem(msl, node[t])
  /\ arrivals' = Append(arrivals, t)
  /\ Goto(t, "cs")
  /\ UNCHANGED node

(* __sync_lock_test_and_set(msl, me): an exchange that acquires only.      *)
Exchange(t) ==
  /\ At(t, "xchg")
  /\ CanRMW(t, msl)
  /\ prev' = [prev EXCEPT ![t] = mem[msl]]
  /\ SetMem(msl, node[t])
  /\ arrivals' = Append(arrivals, t)
  /\ Goto(t, IF mem[msl] = NULL THEN "cs" ELSE "link")
  /\ UNCHANGED node

(* Faulty variant: the node is never linked.                               *)
LinkForgotten(t) ==
  /\ At(t, "link")
  /\ Goto(t, "fence")
  /\ UNCHANGED <<mem, buf, node, prev, arrivals>>

(* prev->next = me: a plain store.                                         *)
Link(t) ==
  /\ At(t, "link")
  /\ Store(t, next(prev[t]), node[t])
  /\ Goto(t, "fence")
  /\ UNCHANGED <<node, prev, arrivals>>

(* __atomic_thread_fence(ACQ_REL): no instruction on x86; on ARM a dmb ish *)
(* that waits for the stores before it.                                    *)
Fence(t) ==
  /\ At(t, "fence")
  /\ StoresReorder => Drained(t)
  /\ Goto(t, "spin")
  /\ UNCHANGED <<mem, buf, node, prev, arrivals>>

(* Faulty variant: one look at locked, without waiting.                    *)
SpinOnce(t) ==
  /\ At(t, "spin")
  /\ Goto(t, "cs")
  /\ UNCHANGED <<mem, buf, node, prev, arrivals>>

Spin(t) ==
  /\ At(t, "spin")
  /\ Load(t, locked(node[t])) = 0
  /\ Goto(t, "cs")
  /\ UNCHANGED <<mem, buf, node, prev, arrivals>>

-----------------------------------------------------------------------------
(* rte_mcslock_unlock                                                      *)

(* Are there more nodes in the queue?                                      *)
CheckNext(t) ==
  /\ At(t, "cs")
  /\ Goto(t, IF Load(t, next(node[t])) = NULL THEN "cas" ELSE "pass")
  /\ UNCHANGED <<mem, buf, node, prev, arrivals>>

(* Faulty variant: a store of NULL in place of the compare-exchange.       *)
CasFreeBlind(t) ==
  /\ At(t, "cas")
  /\ CanRMWRelease(t, msl)
  /\ SetMem(msl, NULL)
  /\ arrivals' = Tail(arrivals)
  /\ Goto(t, "out")
  /\ UNCHANGED <<node, prev>>

(* The last in the queue frees the lock: compare-and-exchange of msl, a     *)
(* release when it succeeds.                                               *)
CasFree(t) ==
  /\ At(t, "cas")
  /\ mem[msl] = node[t]
  /\ CanRMWRelease(t, msl)
  /\ SetMem(msl, NULL)
  /\ arrivals' = Tail(arrivals)
  /\ Goto(t, "out")
  /\ UNCHANGED <<node, prev>>

(* Faulty variant: hands over without waiting for the next pointer.        *)
CasFailPasses(t) ==
  /\ At(t, "cas")
  /\ mem[msl] # node[t]
  /\ CanRMW(t, msl)
  /\ Goto(t, "pass")
  /\ UNCHANGED <<mem, buf, node, prev, arrivals>>

CasFail(t) ==
  /\ At(t, "cas")
  /\ mem[msl] # node[t]
  /\ CanRMW(t, msl)
  /\ Goto(t, "wait")
  /\ UNCHANGED <<mem, buf, node, prev, arrivals>>

(* Wait until the next pointer is set.                                     *)
WaitNext(t) ==
  /\ At(t, "wait")
  /\ Load(t, next(node[t])) # NULL
  /\ Goto(t, "pass")
  /\ UNCHANGED <<mem, buf, node, prev, arrivals>>

(* me->next->locked = 0, a release store, after loading me->next once more *)
Pass(t) ==
  /\ At(t, "pass")
  /\ StoreRelease(t, locked(Load(t, next(node[t]))), 0)
  /\ arrivals' = Tail(arrivals)
  /\ Goto(t, "out")
  /\ UNCHANGED <<node, prev>>

-----------------------------------------------------------------------------
LockStep(t) == Init1(t) \/ Init2(t) \/ Exchange(t) \/ Link(t) \/ Fence(t) \/ Spin(t)

UnlockStep(t) == CheckNext(t) \/ CasFree(t) \/ CasFail(t) \/ WaitNext(t) \/ Pass(t)

Flush(t) == \E x \in DOMAIN mem : Commit(t, x) /\ UNCHANGED lockVars

Step(t) == LockStep(t) \/ UnlockStep(t)

AllOut == \A t \in Thread : pc[t] = "out" /\ Drained(t)

Next ==
  \/ \E t \in Thread : Step(t) \/ Flush(t)
  \/ AllOut /\ UNCHANGED vars

Spec == Init /\ [][Next]_vars

(* Threads keep running and buffered stores become visible in the end.     *)
Fairness == \A t \in Thread : WF_vars(Step(t)) /\ WF_vars(Flush(t))

FairSpec == Spec /\ Fairness

-----------------------------------------------------------------------------
Inside(t)  == pc[t] \in {"cs", "cas", "wait", "pass"}
Waiting(t) == pc[t] \in {"link", "fence", "spin"}

(* Somebody has granted the lock to waiting thread t: the 0 is in memory,  *)
(* or in the buffer of the thread that hands over.                         *)
Granted(t) ==
  /\ Waiting(t)
  /\ \/ /\ mem[locked(node[t])] = 0
        /\ Pending(t, locked(node[t])) = {}
     \/ \E u \in Thread : u # t /\ Pending(u, locked(node[t])) # {}

(* The lock is a single token: at most one thread is inside or has been    *)
(* granted it.  More than mutual exclusion, it also counts grants still    *)
(* under way.                                                              *)
OneToken ==
  \A t, u \in Thread : (Inside(t) \/ Granted(t)) /\ (Inside(u) \/ Granted(u)) => t = u

(* The second load of me->next in "me->next->locked = 0" never finds the   *)
(* pointer that the test above it saw set gone again.                      *)
NextStaysSet == \A t \in Thread : At(t, "pass") => Load(t, next(node[t])) # NULL

(* The tail pointer names the node of the last thread to arrive, and is    *)
(* NULL exactly when nobody holds or waits.                                *)
TailIsLast ==
  mem[msl] = IF arrivals = << >> THEN NULL ELSE node[arrivals[Len(arrivals)]]

(* rte_mcslock_lock and _unlock serve their threads one at a time, in the  *)
(* order of their exchanges.                                               *)
Queue == INSTANCE FifoLock WITH queue <- arrivals,
                                inside <- {t \in Thread : Inside(t)}
ServesInOrder == Queue!Spec

(* "The store to me->next above should also complete before the node is    *)
(* visible to predecessor thread": once a node is linked behind its        *)
(* predecessor, its owner has no initialising store left in its buffer.    *)
InitBeforeLink ==
  \A t \in Thread :
    Waiting(t) /\ mem[next(prev[t])] = node[t] =>
      Pending(t, next(node[t])) = {} /\ Pending(t, locked(node[t])) = {}

(* Every thread gets the lock and gives it back.                           *)
EveryoneLeaves == \A t \in Thread : <>(pc[t] = "out")
=============================================================================
