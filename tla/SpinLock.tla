------------------------------ MODULE SpinLock ------------------------------
(***************************************************************************)
(* Layer1/22-MariaDB.c: a test-and-set spinlock protects data and flag.    *)
(* The writer stores data = 42 and then flag = 1 in its critical section;  *)
(* the reader loads both in its own and asserts that flag = 1 implies      *)
(* data = 42.  main lets them run and then sets stop.                      *)
(*                                                                         *)
(* The program has one writer and one reader; here there is a set of each, *)
(* because nothing in the code depends on their number.                    *)
(***************************************************************************)
EXTENDS StoreBuffers

CONSTANTS Writer, Reader, Main

Worker == Writer \cup Reader
Thread == Worker \cup {Main}

ASSUME ThreadAssumption == /\ Writer \cap Reader = {}
                           /\ Main \notin Worker

VARIABLES
  pc,      \* pc[t]: the statement thread t executes next
  f, d     \* f[r], d[r]: the reader's locals; Unread until the load is done

vars == <<mem, buf, pc, f, d>>

Loc    == {"lock", "data", "flag", "stop"}
Val    == {0, 1, 42}
Unread == 99

WriterPC == {"w_test", "w_lock", "w_data", "w_flag", "w_unlock", "done"}
ReaderPC == {"r_test", "r_lock", "r_cs", "r_unlock", "r_check", "done", "abort"}
MainPC   == {"sleep", "join", "done"}

TypeOK ==
  /\ MemTypeOK(Thread, Loc, Val)
  /\ pc \in [Thread -> WriterPC \cup ReaderPC \cup MainPC]
  /\ \A w \in Writer : pc[w] \in WriterPC
  /\ \A r \in Reader : pc[r] \in ReaderPC
  /\ pc[Main] \in MainPC
  /\ f \in [Reader -> Val \cup {Unread}]
  /\ d \in [Reader -> Val \cup {Unread}]

Init ==
  /\ mem = [x \in Loc |-> 0]
  /\ buf = [t \in Thread |-> << >>]
  /\ pc  = [t \in Thread |-> IF t \in Writer THEN "w_test"
                             ELSE IF t \in Reader THEN "r_test" ELSE "sleep"]
  /\ f = [r \in Reader |-> Unread]
  /\ d = [r \in Reader |-> Unread]

Goto(t, l) == pc' = [pc EXCEPT ![t] = l]

-----------------------------------------------------------------------------
(* while (!stop): both threads test the same volatile.                     *)
Test(t, begin) ==
  /\ Goto(t, IF Load(t, "stop") = 0 THEN begin ELSE "done")
  /\ UNCHANGED <<mem, buf, f, d>>

(* Faulty variant: the test of the value returned is lost.                 *)
SpinLockUntested(t, inside) ==
  /\ CanRMW(t, "lock")
  /\ SetMem("lock", 1)
  /\ Goto(t, inside)
  /\ UNCHANGED <<f, d>>

(* Faulty variant: the exchange is a fetch-and-add, not tested.            *)
SpinLockAdds(t, inside) ==
  /\ CanRMW(t, "lock")
  /\ SetMem("lock", mem["lock"] + 1)
  /\ Goto(t, inside)
  /\ UNCHANGED <<f, d>>

(* spin_lock: one __sync_lock_test_and_set, repeated while it returns 1.   *)
SpinLock(t, inside) ==
  /\ CanRMW(t, "lock")
  /\ mem["lock"] = 0
  /\ SetMem("lock", 1)
  /\ Goto(t, inside)
  /\ UNCHANGED <<f, d>>

(* Faulty variant: a plain store instead of the release.                   *)
SpinUnlockPlain(t, after) ==
  /\ Store(t, "lock", 0)
  /\ Goto(t, after)
  /\ UNCHANGED <<f, d>>

(* Faulty variant: the lock is never released.                             *)
SpinUnlockForgotten(t, after) ==
  /\ Goto(t, after)
  /\ UNCHANGED <<mem, buf, f, d>>

(* spin_unlock: __sync_lock_release, a release store of 0.                 *)
SpinUnlock(t, after) ==
  /\ StoreRelease(t, "lock", 0)
  /\ Goto(t, after)
  /\ UNCHANGED <<f, d>>

WTest(w)   == pc[w] = "w_test"   /\ Test(w, "w_lock")
WLock(w)   == pc[w] = "w_lock"   /\ SpinLock(w, "w_data")
WData(w)   == /\ pc[w] = "w_data"
              /\ Store(w, "data", 42)
              /\ Goto(w, "w_flag")
              /\ UNCHANGED <<f, d>>
WFlag(w)   == /\ pc[w] = "w_flag"
              /\ Store(w, "flag", 1)
              /\ Goto(w, "w_unlock")
              /\ UNCHANGED <<f, d>>
WUnlock(w) == pc[w] = "w_unlock" /\ SpinUnlock(w, "w_test")

RTest(r)   == pc[r] = "r_test"   /\ Test(r, "r_lock")
RLock(r)   == pc[r] = "r_lock"   /\ SpinLock(r, "r_cs")

(* int f = flag; int d = data: in this order unless loads may be reordered *)
RFlag(r) ==
  /\ pc[r] = "r_cs"
  /\ f[r] = Unread
  /\ f' = [f EXCEPT ![r] = Load(r, "flag")]
  /\ Goto(r, IF d[r] = Unread THEN "r_cs" ELSE "r_unlock")
  /\ UNCHANGED <<mem, buf, d>>
RData(r) ==
  /\ pc[r] = "r_cs"
  /\ d[r] = Unread
  /\ LoadsReorder \/ f[r] # Unread
  /\ d' = [d EXCEPT ![r] = Load(r, "data")]
  /\ Goto(r, IF f[r] = Unread THEN "r_cs" ELSE "r_unlock")
  /\ UNCHANGED <<mem, buf, f>>

RUnlock(r) == pc[r] = "r_unlock" /\ SpinUnlock(r, "r_check")

(* The consistency check; a failure sets stop and hits assert(0).          *)
Inconsistent(r) == f[r] = 1 /\ d[r] # 42
RCheck(r) ==
  /\ pc[r] = "r_check"
  /\ f' = [f EXCEPT ![r] = Unread]
  /\ d' = [d EXCEPT ![r] = Unread]
  /\ IF Inconsistent(r)
     THEN Store(r, "stop", 1) /\ Goto(r, "abort")
     ELSE Goto(r, "r_test") /\ UNCHANGED <<mem, buf>>

(* main: sleep(5); stop = 1; then join both threads.                       *)
MStop ==
  /\ pc[Main] = "sleep"
  /\ Store(Main, "stop", 1)
  /\ Goto(Main, "join")
  /\ UNCHANGED <<f, d>>
MJoin ==
  /\ pc[Main] = "join"
  /\ \A t \in Worker : pc[t] = "done" /\ Drained(t)
  /\ Goto(Main, "done")
  /\ UNCHANGED <<mem, buf, f, d>>

Flush(t) == \E x \in Loc : Commit(t, x) /\ UNCHANGED <<pc, f, d>>

WStep(w) == WTest(w) \/ WLock(w) \/ WData(w) \/ WFlag(w) \/ WUnlock(w)
RStep(r) == \/ RTest(r) \/ RLock(r) \/ RFlag(r) \/ RData(r)
            \/ RUnlock(r) \/ RCheck(r)

Terminated == pc[Main] = "done" /\ UNCHANGED vars

Next ==
  \/ \E w \in Writer : WStep(w)
  \/ \E r \in Reader : RStep(r)
  \/ MStop
  \/ MJoin
  \/ \E t \in Thread : Flush(t)
  \/ Terminated

Spec == Init /\ [][Next]_vars

(* Every thread keeps running and every buffered store becomes visible.    *)
Fairness ==
  /\ \A w \in Writer : WF_vars(WStep(w))
  /\ \A r \in Reader : WF_vars(RStep(r))
  /\ WF_vars(MStop \/ MJoin)
  /\ \A t \in Thread : WF_vars(Flush(t))

FairSpec == Spec /\ Fairness

-----------------------------------------------------------------------------
(* A thread owns the lock from its successful exchange until its release   *)
(* store is visible in memory, which may be long after it has executed it. *)
Inside(t) == pc[t] \in {"w_data", "w_flag", "w_unlock", "r_cs", "r_unlock"}
Owns(t)   == Inside(t) \/ Pending(t, "lock") # {}

(* spin_lock and spin_unlock exclude: no two threads are between their     *)
(* exchange and the visibility of their release, whatever the memory does. *)
MutualExclusion == \A t, u \in Thread : Owns(t) /\ Owns(u) => t = u

(* When the lock is seen free, the critical section that released it is    *)
(* entirely visible: no store of data or flag lags behind the release.     *)
FreeMeansVisible ==
  mem["lock"] = 0 =>
    \A t \in Thread : Pending(t, "data") = {} /\ Pending(t, "flag") = {}

(* The reader's assert: having loaded both locations inside its critical   *)
(* section it never finds flag = 1 with data still unwritten.              *)
ReaderConsistent == \A r \in Reader : pc[r] = "r_check" => ~ Inconsistent(r)

(* After main sets stop every thread ends and both joins return.           *)
Termination == <>(pc[Main] = "done")
=============================================================================
