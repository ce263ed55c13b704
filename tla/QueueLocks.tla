----------------------------- MODULE QueueLocks -----------------------------
(***************************************************************************)
(* Queue locks of Layer1 other than that of 2-DPDK:                        *)
(*   "clh"    3-sel4-dynamic.c: a CLH lock whose nodes come from malloc    *)
(*   "qspin"  1-Linuxeasy.c: the MCS lock of the kernel's qspinlock        *)
(*   "link"   23-mcs.c: one late link of an MCS queue, and the unlocker    *)
(*            that gives up waiting for it                                 *)
(***************************************************************************)
EXTENDS Machine, FiniteSets

CONSTANTS
  Contender,    \* the threads that take the lock; each source has two
  MaxCycles     \* the 10000000 polls after which 23-mcs.c gives up

ASSUME ContenderAssumption ==
  Contender \subseteq Nat \ {0} /\ IsFiniteSet(Contender) /\ Contender # {}
ASSUME CyclesAssumption    == MaxCycles \in Nat

tail      == <<"tail">>
locked(n) == <<"locked", n>>
next(n)   == <<"next", n>>

-----------------------------------------------------------------------------
(* "clh".  Each contender takes and releases the lock once; main joins     *)
(* them and destroys the lock.  env.heap is what malloc may return next,   *)
(* env.freed every node that was ever freed, env.spoilt the freed nodes    *)
(* that the allocator has written over or given out once more.             *)

ClhNode  == 1..(Cardinality(Contender) + 1)
ClhDummy == Cardinality(Contender) + 1

(* clh_lock_init has run.                                                  *)
ClhInit ==
  Boot("clh", {"TSO", "ARM"},
       [x \in {tail} \cup {locked(n) : n \in ClhNode} |-> IF x = tail THEN ClhDummy ELSE 0],
       [t \in Contender \cup {Main} |-> IF t = Main THEN "join" ELSE "malloc"],
       [t \in Contender \cup {Main} |-> [my |-> NULL, pred |-> NULL]],
       [arrivals |-> << >>, heap |-> ClhNode \ {ClhDummy},
        freed |-> {}, spoilt |-> {}])

(* clh_lock: a node of its own, locked, exchanged for the predecessor's.   *)
ClhMalloc(t) ==
  \E n \in env.heap :
    /\ Local(t, "malloc", "store")
    /\ reg' = [reg EXCEPT ![t].my = n]
    /\ env' = [env EXCEPT !.heap = @ \ {n}, !.spoilt = @ \cup ({n} \cap env.freed)]
ClhStore(t) == WriteSC(t, "store", locked(reg[t].my), 1, "xchg") /\ Keep
ClhExchange(t) ==
  /\ CanRMW(t, tail)
  /\ Go(t, "xchg", "spin")
  /\ SetMem(tail, reg[t].my)
  /\ reg' = [reg EXCEPT ![t].pred = mem[tail]]
  /\ env' = [env EXCEPT !.arrivals = Append(@, t)]
ClhSpin(t) == NoRelease(t) /\ Await(t, "spin", Load(t, locked(reg[t].pred)) = 0, "cs") /\ Keep

(* Faulty variant: the thread unlocks its predecessor's node.              *)
ClhUnlockPred(t) ==
  /\ WriteSC(t, "cs", locked(reg[t].pred), 0, "destructor")
  /\ env' = [env EXCEPT !.arrivals = Tail(@)]
  /\ UNCHANGED reg

(* clh_unlock                                                              *)
ClhUnlock(t) ==
  /\ WriteSC(t, "cs", locked(reg[t].my), 0, "destructor")
  /\ env' = [env EXCEPT !.arrivals = Tail(@)]
  /\ UNCHANGED reg

(* Faulty variant: the key has no destructor.                              *)
ClhDestructorMissing(t) == Local(t, "destructor", "ending") /\ Keep

(* The destructor of the key frees the node when the thread ends.  free    *)
(* may write its own links over the node.                                  *)
ClhDestructor(t) ==
  LET n == reg[t].my
  IN  /\ UNCHANGED reg
      /\ \/ /\ Local(t, "destructor", "ending")
            /\ env' = [env EXCEPT !.freed = @ \cup {n}]
         \/ /\ Write(t, "destructor", locked(n), 1, "ending")
            /\ env' = [env EXCEPT !.freed = @ \cup {n}, !.spoilt = @ \cup {n}]
(* The thread's free nodes go back to the heap that all share.             *)
ClhEnd(t) ==
  /\ FullFence(t, "ending", "done")
  /\ env' = [env EXCEPT !.heap = @ \cup ({reg[t].my} \cap env.freed)]
  /\ UNCHANGED reg

(* pthread_join, and clh_lock_destroy, which frees the node at the tail.   *)
ClhMain ==
  \/ Await(Main, "join", Joinable(Contender), "destroy") /\ Keep
  \/ /\ Local(Main, "destroy", "exit")
     /\ env' = [env EXCEPT !.heap = @ \cup {Load(Main, tail)}]
     /\ UNCHANGED reg

ClhStep(t) ==
  IF t = Main THEN ClhMain
  ELSE \/ ClhMalloc(t) \/ ClhStore(t) \/ ClhExchange(t) \/ ClhSpin(t)
       \/ ClhUnlock(t) \/ ClhDestructor(t) \/ ClhEnd(t)

-----------------------------------------------------------------------------
(* "qspin".  The node of a thread is on its stack and has its number.      *)

QspinInit ==
  Boot("qspin", {"TSO", "ARM"},
       [x \in {tail} \cup {next(t) : t \in Contender} \cup {locked(t) : t \in Contender} |-> 0],
       [t \in Contender \cup {Main} |-> IF t = Main THEN "join" ELSE "l_next"],
       [t \in Contender \cup {Main} |-> [prev |-> NULL]],
       [arrivals |-> << >>])

(* Faulty variant: locked is a plain int.                                  *)
QspinPrepareLocked(t) == Write(t, "l_locked", locked(t), 1, "l_xchg") /\ Keep

(* mynode->next = NULL, and mynode->locked = true, which is an atomic_bool *)
QspinPrepareNext(t)   == Write(t, "l_next", next(t), NULL, "l_locked") /\ Keep
QspinPrepare(t) == WriteSC(t, "l_locked", locked(t), 1, "l_xchg") /\ Keep

QspinExchange(t) ==
  /\ CanRMW(t, tail)
  /\ Go(t, "l_xchg", IF mem[tail] = NULL THEN "cs" ELSE "l_link")
  /\ SetMem(tail, t)
  /\ reg' = [reg EXCEPT ![t].prev = mem[tail]]
  /\ env' = [env EXCEPT !.arrivals = Append(@, t)]
QspinLink(t) == Write(t, "l_link", next(reg[t].prev), t, "l_spin") /\ Keep

(* Faulty variant: one look at locked.                                     *)
QspinSpinOnce(t) == Local(t, "l_spin", "cs") /\ Keep

QspinSpin(t) == NoRelease(t) /\ Await(t, "l_spin", Load(t, locked(t)) = 0, "cs") /\ Keep

QspinTest(t) == Local(t, "cs", IF Load(t, next(t)) = NULL THEN "u_cas" ELSE "u_fence") /\ Keep
QspinCas(t) ==
  \/ /\ mem[tail] = t
     /\ AtomicFull(t, "u_cas", tail, NULL, "done")
     /\ env' = [env EXCEPT !.arrivals = Tail(@)]
     /\ UNCHANGED reg
  \/ mem[tail] # t /\ FullFence(t, "u_cas", "u_wait") /\ Keep
QspinWait(t)  == Await(t, "u_wait", Load(t, next(t)) # NULL, "u_fence") /\ Keep
QspinFence(t) == ReleaseFence(t, "u_fence", "u_pass") /\ Keep
QspinPass(t) ==
  /\ WriteSC(t, "u_pass", locked(Load(t, next(t))), 0, "done")
  /\ env' = [env EXCEPT !.arrivals = Tail(@)]
  /\ UNCHANGED reg

QspinMain == Await(Main, "join", Joinable(Contender), "exit") /\ Keep

QspinStep(t) ==
  IF t = Main THEN QspinMain
  ELSE \/ QspinPrepareNext(t) \/ QspinPrepare(t) \/ QspinExchange(t) \/ QspinLink(t)
       \/ QspinSpin(t) \/ QspinTest(t) \/ QspinCas(t) \/ QspinWait(t)
       \/ QspinFence(t) \/ QspinPass(t)

-----------------------------------------------------------------------------
(* "link".  main is the predecessor, thread 1 the successor.               *)

nodePrev == 1
nodeMe   == 2

LinkInit ==
  Boot("link", {"TSO", "ARM"},
       [x \in {next(1), next(2), locked(2)} |-> 0],
       [t \in {Main, 1} |-> IF t = Main THEN "p_next" ELSE "none"],
       [t \in {Main, 1} |-> [cycles |-> 0]],
       << >>)

(* thread_successor_lock: three stores in no order.                        *)
LinkSuccessor ==
  \/ Write(1, "start", next(nodeMe), NULL, "s_locked") /\ Keep
  \/ Write(1, "s_locked", locked(nodeMe), 1, "s_link") /\ Keep
  \/ Write(1, "s_link", next(nodePrev), nodeMe, "done") /\ Keep

(* Faulty variant: the next pointer is cleared after the thread's creation *)
LinkPrepareLate ==
  \/ Create(Main, "p_next", {1}, "p_create") /\ Keep
  \/ Write(Main, "p_create", next(nodePrev), NULL, "p_poll") /\ Keep

LinkPrepare ==
  \/ Write(Main, "p_next", next(nodePrev), NULL, "p_create") /\ Keep
  \/ Create(Main, "p_create", {1}, "p_poll") /\ Keep

(* thread_predecessor_unlock polls; after so many cycles it reports a hang *)
(* and calls exit(1), at label "abort".                                    *)
LinkPoll ==
  LET seen == Load(Main, next(nodePrev)) # NULL
      c    == reg[Main].cycles + 1
  IN  /\ Local(Main, "p_poll", IF seen THEN "p_join"
                               ELSE IF c > MaxCycles THEN "abort" ELSE "p_poll")
      /\ reg' = [reg EXCEPT ![Main].cycles = IF seen THEN @ ELSE c]
      /\ UNCHANGED env
LinkJoin == Await(Main, "p_join", Joinable({1}), "exit") /\ Keep

LinkStep(t) == IF t = Main THEN LinkPrepare \/ LinkPoll \/ LinkJoin ELSE LinkSuccessor

-----------------------------------------------------------------------------
QueueLockPrograms == {"clh", "qspin", "link"}

QueueLockInit == ClhInit \/ QspinInit \/ LinkInit

QueueLockStep(t) ==
  \/ program = "clh"   /\ ClhStep(t)
  \/ program = "qspin" /\ QspinStep(t)
  \/ program = "link"  /\ LinkStep(t)

-----------------------------------------------------------------------------
InQueueLock == {"cs", "u_cas", "u_wait", "u_fence", "u_pass"}

(* Both queue locks serve their threads one at a time, in the order of     *)
(* their exchanges, although CLH nodes are reused while they are waited on *)
Queue == INSTANCE FifoLock WITH
  Thread <- Contender,
  queue  <- IF program \in {"clh", "qspin"} THEN env.arrivals ELSE << >>,
  inside <- IF program \in {"clh", "qspin"}
            THEN {t \in Contender : pc[t] \in InQueueLock} ELSE {}
QueueLocksServeInOrder == Queue!Spec

(* clh_lock_destroy (line 32) frees the node of the last thread, which the *)
(* destructor of the key has freed already, and never the dummy node the   *)
(* lock was created with.                                                  *)
ClhDestroyFreesTwice ==
  program = "clh" /\ pc[Main] \in {"destroy", "exit"} =>
    mem[tail] \in env.freed /\ ClhDummy \notin env.freed

(* main's joins return, with these exceptions.                             *)
(* 3: a thread spins for ever on a node that was freed and that the        *)
(*   allocator has written over or given out again: line 27 makes free the *)
(*   destructor of a node that the queue still refers to, and malloc may   *)
(*   even give a thread the node it is about to wait for.                  *)
(* 23: the poll limit, line 53, calls a link a hang that is never lost but *)
(*   still in the successor's buffer, or has not been executed.            *)
(* 1 has none, on ARM either, against its own comments: line 46 calls the  *)
(* lock the "Buggy version" and line 55 says that "1,2 may order", the     *)
(* stores of locked = true (line 49) and of the link (line 54), so that a  *)
(* grant would be overwritten and the waiter never leave.  But locked is   *)
(* an atomic_bool (line 15), its assignment a seq_cst store, which the     *)
(* exchange of line 51 and hence the link come after.  With a plain bool   *)
(* (QspinPrepareLocked) the comments are right and the property fails.     *)
ClhWaitsOnSpoilt ==
  program = "clh" /\ \E t \in Contender : pc[t] = "spin" /\ reg[t].pred \in env.spoilt
LinkDelayed ==
  /\ program = "link" /\ pc[Main] = "abort"
  /\ pc[1] # "done" \/ Pending(1, next(nodePrev)) # {}
QueueLocksReturn ==
  <>(program \in QueueLockPrograms => pc[Main] = "exit" \/ ClhWaitsOnSpoilt \/ LinkDelayed)
=============================================================================
