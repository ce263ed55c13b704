------------------------------- MODULE WakeUps ------------------------------
(***************************************************************************)
(* Programs in which a thread waits for another one, and may wait for ever *)
(*   "ompi"   6-ompi.c: a registration that waits for its callback         *)
(*   "jdk"    13-JDK.c: a monitor's waiter and the thread that leaves it   *)
(*   "relax"  27-mysql-ut-realx.c: a flag polled outside the lock          *)
(*   "lifo"   15-openmpi.c: a push and a pop that share a global pointer   *)
(* Thread 1 is the one that waits, or the first the source creates.        *)
(***************************************************************************)
EXTENDS Machine

CONSTANT Iterations    \* ITERATIONS, 2000000 in 27

ASSUME IterationsAssumption == Iterations \in Nat \ {0}

Two == {Main, 1, 2}

JoinTwo == Await(Main, "join", Joinable({1, 2}), "exit") /\ Keep

-----------------------------------------------------------------------------
(* "ompi".  OPAL_SUCCESS is 0.                                             *)

OmpiInit ==
  Boot("ompi", {"TSO", "ARM"},
       [x \in {"active", "status"} |-> 0],
       [t \in Two |-> CASE t = Main -> "join" [] t = 1 -> "declare" [] t = 2 -> "status"],
       [t \in Two |-> [status |-> -1]],
       << >>)

(* ompi_interlib_declare                                                   *)
OmpiDeclare ==
  \/ Write(1, "declare", "active", 1, "wait") /\ Keep
  \/ Await(1, "wait", Load(1, "active") = 0, "status") /\ Keep
  \/ Read(1, "status", "status", "status", "done") /\ UNCHANGED env

(* Faulty variant: the callback reports but does not clear active.         *)
OmpiCallbackSilent == Write(2, "status", "status", 0, "done") /\ Keep

(* model_registration_callback                                             *)
OmpiCallback ==
  \/ Write(2, "status", "status", 0, "active") /\ Keep
  \/ Write(2, "active", "active", 0, "done") /\ Keep

OmpiStep(t) == CASE t = Main -> JoinTwo [] t = 1 -> OmpiDeclare [] t = 2 -> OmpiCallback

-----------------------------------------------------------------------------
(* "jdk".  TS_ENTER is 0, TS_RUN 1.  node comes from malloc: its fields    *)
(* have any value at first.  The node is 1 in entryList.                   *)

JdkInit ==
  \E state \in BOOL, garbage \in {NULL, 2} :
    Boot("jdk", {"TSO", "ARM"},
         [x \in {"state", "next", "entryList", "semaphore"} |->
            CASE x = "state" -> state [] x = "next" -> garbage [] OTHER -> 0],
         [t \in Two |-> CASE t = Main -> "join" [] t = 1 -> "state" [] t = 2 -> "test"],
         [t \in Two |-> [list |-> NULL, w |-> NULL]],
         << >>)

(* SimpleEnter: queue the node, then wait while the state is TS_ENTER and  *)
(* the semaphore up.                                                       *)
JdkEnter ==
  \/ Write(1, "state", "state", 0, "list") /\ Keep
  \/ Read(1, "list", "list", "entryList", "next") /\ UNCHANGED env
  \/ Write(1, "next", "next", reg[1].list, "queue") /\ Keep
  \/ Write(1, "queue", "entryList", 1, "wait") /\ Keep
  \/ Local(1, "wait", IF Load(1, "state") = 0 THEN "semaphore" ELSE "done") /\ Keep
  \/ Local(1, "semaphore", IF Load(1, "semaphore") = 0 THEN "done" ELSE "wait") /\ Keep

(* Faulty variant: the waiter is taken off the list but not set running.   *)
JdkExitForgets ==
  \/ Local(2, "test", IF Load(2, "entryList") = NULL THEN "done" ELSE "take") /\ Keep
  \/ Read(2, "take", "w", "entryList", "unlink") /\ UNCHANGED env
  \/ Write(2, "unlink", "entryList", Load(2, "next"), "post") /\ Keep
  \/ Write(2, "post", "semaphore", 1, "done") /\ Keep

(* SimpleExit: take the waiter off the list, raise the semaphore, and let  *)
(* the waiter run.                                                         *)
JdkExit ==
  \/ Local(2, "test", IF Load(2, "entryList") = NULL THEN "done" ELSE "take") /\ Keep
  \/ Read(2, "take", "w", "entryList", "unlink") /\ UNCHANGED env
  \/ Write(2, "unlink", "entryList", Load(2, "next"), "post") /\ Keep
  \/ Write(2, "post", "semaphore", 1, "run") /\ Keep
  \/ Write(2, "run", "state", 1, "done") /\ Keep

JdkStep(t) == CASE t = Main -> JoinTwo [] t = 1 -> JdkEnter [] t = 2 -> JdkExit

-----------------------------------------------------------------------------
(* "relax".  main runs two tests; test 1 spins with the relaxation that is *)
(* a full barrier, test 2 with one that is none.  Thread 1 is the reader.  *)
(* env.overtaken: the writer has raised data_ready while the reader had    *)
(* not done with the time before.  reg[1].i, reg[2].i are the loops' i.    *)

RelaxLoc == {"lock_word", "data", "data_ready", "bug_detected", "start_flag"}

RelaxInit ==
  Boot("relax", {"TSO"},
       [x \in RelaxLoc |-> 0],
       [t \in Two |-> IF t = Main THEN "create" ELSE "none"],
       [t \in Two |-> [i |-> 0, val |-> 0]],
       [test |-> 1, overtaken |-> FALSE])

(* One test of main: the words are reset and the threads created, with no  *)
(* other thread about; start_flag; the joins; the second test.             *)
RelaxMain ==
  \/ /\ Drained(Main)
     /\ Create(Main, "create", {1, 2}, "start")
     /\ reg' = [t \in Two |-> [i |-> 0, val |-> 0]]
     /\ UNCHANGED env
  \/ Write(Main, "start", "start_flag", 1, "join") /\ Keep
  \/ /\ pc[Main] = "join"
     /\ Drained(Main)
     /\ Joinable({1, 2})
     /\ IF env.test = 1
        THEN /\ mem' = [x \in RelaxLoc |-> 0]
             /\ pc' = [pc EXCEPT ![Main] = "create"]
             /\ env' = [env EXCEPT !.test = 2]
        ELSE /\ pc' = [pc EXCEPT ![Main] = "exit"]
             /\ UNCHANGED <<mem, env>>
     /\ UNCHANGED <<buf, reg>>

(* Faulty variant: the writer makes one iteration less.                    *)
RelaxGoesOnLess(t) == reg[t].i < (IF t = 2 THEN Iterations - 1 ELSE Iterations)

(* The loops' test of i; that of bug_detected is made with it.             *)
RelaxGoesOn(t) == reg[t].i < Iterations

RelaxLoop(t, begin) ==
  \/ Await(t, "start", Load(t, "start_flag") = 1, "loop") /\ Keep
  \/ /\ Local(t, "loop", IF RelaxGoesOn(t) /\ Load(t, "bug_detected") = 0 THEN begin ELSE "done")
     /\ Keep

(* thread_writer with mutex_lock and mutex_unlock, which nobody contends.  *)
RelaxWriter ==
  \/ RelaxLoop(2, "lock")
  \/ MutexLock(2, "lock", "lock_word", "data") /\ Keep
  \/ Write(2, "data", "data", reg[2].i + 1, "ready") /\ Keep
  \/ /\ Write(2, "ready", "data_ready", 1, "unlock")
     /\ env' = [env EXCEPT !.overtaken =
                  @ \/ reg[1].i < reg[2].i \/ Pending(1, "data_ready") # {}]
     /\ UNCHANGED reg
  \/ /\ WriteRel(2, "unlock", "lock_word", 0, "loop")
     /\ reg' = [reg EXCEPT ![2].i = @ + 1]
     /\ UNCHANGED env

(* The data is read, then the flag cleared, without the lock.              *)
RelaxConsume ==
  \/ Read(1, "val", "val", "data", "clear") /\ UNCHANGED env
  \/ Write(1, "clear", "data_ready", 0, "check") /\ Keep

(* thread_reader: ut_relax_cpu, the load of data_ready, and what follows.  *)
RelaxReader ==
  \/ RelaxLoop(1, "spin")
  \/ Await(1, "spin", env.test = 1 => Drained(1), "ready") /\ Keep
  \/ Local(1, "ready", IF Load(1, "data_ready") = 1 THEN "val" ELSE "spin") /\ Keep
  \/ RelaxConsume
  \/ /\ Go(1, "check", "loop")
     /\ IF reg[1].val = 0 THEN Put(1, "bug_detected", 1, FALSE) ELSE Silent
     /\ reg' = [reg EXCEPT ![1].i = @ + 1]
     /\ UNCHANGED env

RelaxStep(t) == CASE t = Main -> RelaxMain [] t = 1 -> RelaxReader [] t = 2 -> RelaxWriter

-----------------------------------------------------------------------------
(* "lifo".  Thread 1 pushes, thread 2 pops.  item is one global pointer    *)
(* that both use.  The nodes are the ghost and the one malloc returned,    *)
(* whose next is garbage.                                                  *)

ghost   == 1
X       == 2
garbage == 3
item    == <<"item">>
head    == <<"opal_lifo_head">>
nxt(n)  == <<"opal_list_next", n>>
busy(n) == <<"item_free", n>>

LifoInit ==
  Boot("lifo", {"TSO", "ARM"},
       [x \in {item, head, nxt(ghost), nxt(X), busy(ghost), busy(X)} |->
          CASE x = item -> X [] x = head -> ghost [] x = nxt(X) -> garbage [] OTHER -> 0],
       [t \in Two |-> CASE t = Main -> "join" [] t = 1 -> "busy" [] t = 2 -> "load"],
       [t \in Two |-> [next |-> NULL, it |-> NULL]],
       << >>)

(* Faulty variant: the pushed item is not linked to the old head.          *)
LifoLinkMissing == Local(1, "link", "item") /\ Keep

(* item->opal_list_next = next                                             *)
LifoLink == Write(1, "link", nxt(Load(1, item)), reg[1].next, "item") /\ Keep

(* Faulty variant: the pushed item stays busy.                             *)
LifoFreeMissing == Local(1, "free", "done") /\ Keep

(* item->item_free = 0                                                     *)
LifoFree == WriteSC(1, "free", busy(Load(1, item)), 0, "done") /\ Keep

(* opal_lifo_push_atomic: each use of item loads the pointer again.        *)
LifoPush ==
  \/ WriteSC(1, "busy", busy(Load(1, item)), 1, "next") /\ Keep
  \/ ReadSC(1, "next", "next", head, "link") /\ UNCHANGED env
  \/ LifoLink
  \/ Read(1, "item", "it", item, "cas") /\ UNCHANGED env
  \/ /\ AtomicFull(1, "cas", head, IF mem[head] = reg[1].next THEN reg[1].it ELSE mem[head],
                   IF mem[head] = reg[1].next THEN "free" ELSE "next")
     /\ Keep
  \/ LifoFree

(* item->item_free == 1, a sequentially consistent load through item.      *)
LifoBusy == Load(2, busy(Load(2, item))) = 1

(* opal_lifo_pop_atomic.  A weak exchange that fails writes what it found  *)
(* into item; on ARM it may fail for no reason.                            *)
LifoPop ==
  \/ ReadSC(2, "load", "it", head, "item") /\ UNCHANGED env
  \/ /\ Write(2, "item", item, reg[2].it, IF reg[2].it = ghost THEN "done" ELSE "busy")
     /\ Keep
  \/ NoRelease(2) /\ Local(2, "busy", IF LifoBusy THEN "load" ELSE "next") /\ Keep
  \/ Read(2, "next", "next", nxt(Load(2, item)), "cas") /\ UNCHANGED env
  \/ /\ mem[head] = Load(2, item)
     /\ AtomicFull(2, "cas", head, reg[2].next, "done")
     /\ Keep
  \/ /\ mem[head] # Load(2, item) \/ model = "ARM"
     /\ AtomicFull(2, "cas", item, mem[head], "free")
     /\ Keep
  \/ WriteSC(2, "free", busy(Load(2, item)), 0, "load") /\ Keep

LifoStep(t) == CASE t = Main -> JoinTwo [] t = 1 -> LifoPush [] t = 2 -> LifoPop

-----------------------------------------------------------------------------
WakeUpPrograms == {"ompi", "jdk", "relax", "lifo"}

WakeUpInit == OmpiInit \/ JdkInit \/ RelaxInit \/ LifoInit

WakeUpStep(t) ==
  \/ program = "ompi"  /\ OmpiStep(t)
  \/ program = "jdk"   /\ JdkStep(t)
  \/ program = "relax" /\ RelaxStep(t)
  \/ program = "lifo"  /\ LifoStep(t)

-----------------------------------------------------------------------------
(* main's joins return, with these exceptions.                             *)
(* 6: the callback's active = false was visible before the active = true   *)
(*   of the thread that waits, which then covers it.                       *)
(* 13: only on ARM, the TS_RUN of the leaving thread is visible before the *)
(*   waiter's own TS_ENTER, which then covers it.                          *)
(* 27: the writer has raised the flag again before the reader was done     *)
(*   with the time before: it sends as many signals as the reader wants,   *)
(*   but two may count for one.                                            *)
(* 15 has none on TSO, although push and pop share a pointer and the push  *)
(* may clear the busy mark of another item than it set.  (On ARM a weak    *)
(* exchange may fail for ever.)                                            *)
OmpiEarly ==
  /\ program = "ompi"
  /\ pc[2] = "done" /\ Pending(2, "active") = {}
  /\ pc[1] = "declare" \/ Pending(1, "active") # {}
JdkCovered ==
  /\ program = "jdk" /\ model = "ARM"
  /\ pc[2] = "done" /\ Pending(2, "state") = {}
  /\ Pending(1, "state") # {}
RelaxOvertaken == program = "relax" /\ env.overtaken
WakeUpsEnd ==
  <>(program \in WakeUpPrograms =>
       \/ pc[Main] = "exit"
       \/ OmpiEarly \/ JdkCovered \/ RelaxOvertaken
       \/ program = "lifo" /\ model = "ARM")

(* 27:206 "On x86 (TSO): both tests pass, bug is hidden".                  *)
RelaxTestsPass == <>(program = "relax" /\ pc[Main] = "exit")

(* In 15 the pop may reassign the pointer that the push is working on, yet *)
(* the head of the list is always a node of the list, never what malloc    *)
(* left in the next field of the item.                                     *)
LifoHeadIsNode ==
  program = "lifo" => mem[head] \in {ghost, X} /\ mem[item] \in {ghost, X}
=============================================================================
