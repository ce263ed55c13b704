---------------------------- MODULE SharedLocks -----------------------------
(***************************************************************************)
(* Locks and allocations by a word that all threads test:                  *)
(*   "rwlock"   4-MySQL.c: the exclusive side of InnoDB's rw-lock          *)
(*   "event"    17-mysql.c: the event mutex, whose enter does not wait     *)
(*   "xen"      8-CVE-2020-11739-Xen.c: write_lock and write_unlock        *)
(*   "buffers"  7-OpenBLAS.c: the table of memory buffers                  *)
(***************************************************************************)
EXTENDS Machine, FiniteSets

CONSTANTS
  Taker,        \* the threads that take a lock or a buffer; each source has
                \* two, and 8 one
  Asker,        \* those of them that ask for the lock of "rwlock"
  Calls,        \* bound: how often a thread of "rwlock" asks for the lock
  NumBuffers    \* NUM_BUFFERS

ASSUME TakerAssumption   == Taker \subseteq Nat \ {0} /\ Asker \subseteq Taker
ASSUME BuffersAssumption == NumBuffers \in Nat \ {0} /\ Calls \in Nat

All == Taker \cup {Main}

(* main only joins: no program here has it do more than that.              *)
JoinTakers == Await(Main, "join", Joinable(Taker), "exit") /\ Keep

-----------------------------------------------------------------------------
(* "rwlock".  reg[t].left counts the calls still to make, thr is the       *)
(* threshold of the decrement under way, rec and who are the two fields    *)
(* read outside the mutex.  env.grants[t] counts the calls that returned 1 *)

X_LOCK_DECR      == 536870912
X_LOCK_HALF_DECR == 268435456

RwInit ==
  Boot("rwlock", {"TSO", "ARM"},
       [x \in {"mutex", "lock_word", "writer_thread", "recursive", "last_x"} |->
          IF x = "lock_word" THEN 3 * X_LOCK_HALF_DECR ELSE 0],
       [t \in All |-> IF t = Main THEN "join" ELSE IF t \in Asker THEN "call" ELSE "done"],
       [t \in All |-> [left |-> Calls, thr |-> 0, ok |-> FALSE,
                       rec |-> Unread, who |-> Unread, word |-> 0]],
       [grants |-> [t \in Taker |-> 0]])

(* Faulty variant: the first decrement, too, is allowed down from HALF.    *)
RwThresholdZero == 0

(* The threshold of the first decrement.                                   *)
RwThreshold == X_LOCK_HALF_DECR

RwCall(t) ==
  \/ /\ reg[t].left > 0
     /\ Local(t, "call", "d_lock")
     /\ reg' = [reg EXCEPT ![t].left = @ - 1, ![t].thr = RwThreshold]
     /\ UNCHANGED env
  \/ reg[t].left = 0 /\ Local(t, "call", "done") /\ Keep

(* rw_lock_lock_word_decr                                                  *)
RwDecr(t) ==
  \/ MutexLock(t, "d_lock", "mutex", "d_test") /\ Keep
  \/ LET w == Load(t, "lock_word")
     IN  /\ Go(t, "d_test", "d_unlock")
         /\ reg' = [reg EXCEPT ![t].ok = w > reg[t].thr]
         /\ IF w > reg[t].thr THEN Put(t, "lock_word", w - X_LOCK_DECR, FALSE) ELSE Silent
         /\ UNCHANGED env
  \/ /\ MutexUnlock(t, "d_unlock", "mutex",
                    CASE reg[t].ok /\ reg[t].thr = RwThreshold -> "s_lock"
                      [] reg[t].ok /\ reg[t].thr = 0           -> "last"
                      [] ~ reg[t].ok /\ reg[t].thr = 0         -> "again"
                      [] OTHER                                 -> "check")
     /\ Keep

(* rw_lock_set_writer_id_and_recursion_flag                                *)
RwSetWriter(t) ==
  \/ MutexLock(t, "s_lock", "mutex", "s_thread") /\ Keep
  \/ Write(t, "s_thread", "writer_thread", t, "s_rec") /\ Keep
  \/ Write(t, "s_rec", "recursive", 1, "s_unlock") /\ Keep
  \/ MutexUnlock(t, "s_unlock", "mutex", "last") /\ Keep

(* The two fields, read without the mutex, in either order on ARM; this    *)
(* thread's X lock, or return 0.                                           *)
RwCheck(t) ==
  \/ /\ reg[t].rec = Unread
     /\ Read(t, "check", "rec", "recursive", "check")
     /\ UNCHANGED env
  \/ /\ reg[t].who = Unread
     /\ LoadsReorder \/ reg[t].rec # Unread
     /\ Read(t, "check", "who", "writer_thread", "check")
     /\ UNCHANGED env
  \/ /\ reg[t].rec # Unread /\ reg[t].who # Unread
     /\ Local(t, "check", IF reg[t].rec = 1 /\ reg[t].who = t THEN "d_lock" ELSE "call")
     /\ reg' = [reg EXCEPT ![t].thr = 0, ![t].rec = Unread, ![t].who = Unread]
     /\ UNCHANGED env

(* Faulty variant: only 0 is taken for the second X lock.                  *)
RwAmountZeroOnly(w) == IF w = 0 THEN X_LOCK_DECR ELSE 1

(* One more X lock of the owner costs this much.                           *)
RwAmount(w) == IF w = 0 \/ w = -X_LOCK_HALF_DECR THEN X_LOCK_DECR ELSE 1

(* The recursive grant, outside the mutex: a load and a store.  The word   *)
(* is only the owner's to change by now, so that its loads are one.        *)
RwAgain(t) ==
  \/ Read(t, "again", "word", "lock_word", "again_w") /\ UNCHANGED env
  \/ Write(t, "again_w", "lock_word", reg[t].word - RwAmount(reg[t].word), "last") /\ Keep

(* last_x_file_name and last_x_line; return 1.                             *)
RwLast(t) ==
  /\ Write(t, "last", "last_x", t, "call")
  /\ env' = [env EXCEPT !.grants[t] = @ + 1]
  /\ UNCHANGED reg

RwStep(t) ==
  IF t = Main THEN JoinTakers
  ELSE RwCall(t) \/ RwDecr(t) \/ RwSetWriter(t) \/ RwCheck(t) \/ RwAgain(t) \/ RwLast(t)

-----------------------------------------------------------------------------
(* "event".  The mutex is one atomic int.  env counts what enter and       *)
(* myExit did: grants and failures of try_lock, exits that found the word  *)
(* locked, and calls of signal.                                            *)

Waiters == 2

EventInit ==
  Boot("event", {"ARM"},
       [x \in {"m_lock_word"} |-> 0],
       [t \in All |-> IF t = Main THEN "join" ELSE "enter"],
       [t \in All |-> [state |-> 0]],
       [granted |-> 0, failed |-> 0, clean |-> 0, signals |-> 0])

(* enter: a compare-and-exchange whose failure is ignored.                 *)
EventEnter(t) ==
  /\ AtomicFull(t, "enter", "m_lock_word", 1, "state")
  /\ env' = [env EXCEPT !.granted = IF mem["m_lock_word"] = 0 THEN @ + 1 ELSE @,
                        !.failed  = IF mem["m_lock_word"] = 0 THEN @ ELSE @ + 1]
  /\ UNCHANGED reg

(* myExit: state(), then the store or the exchange of 0, then signal()     *)
(* unless the exchange returned 1.  Nothing ever stores Waiters.           *)
EventState(t) == ReadSC(t, "state", "state", "m_lock_word", "unlock") /\ UNCHANGED env

(* Faulty variant: unlock acts on the state read before.                   *)
EventUnlockStale(t) ==
  LET clean == reg[t].state = 1
  IN  /\ AtomicFull(t, "unlock", "m_lock_word", 0, "done")
      /\ env' = [env EXCEPT !.clean   = IF clean THEN @ + 1 ELSE @,
                            !.signals = IF clean THEN @ ELSE @ + 1]
      /\ UNCHANGED reg

(* Faulty variant: the result of the exchange is tested the wrong way.     *)
EventUnlockInverted(t) ==
  LET clean == reg[t].state # Waiters /\ mem["m_lock_word"] = 1
  IN  /\ AtomicFull(t, "unlock", "m_lock_word", 0, "done")
      /\ env' = [env EXCEPT !.clean   = IF clean THEN @ + 1 ELSE @,
                            !.signals = IF clean THEN @ + 1 ELSE @]
      /\ UNCHANGED reg

EventUnlock(t) ==
  LET clean == reg[t].state # Waiters /\ mem["m_lock_word"] = 1
  IN  /\ AtomicFull(t, "unlock", "m_lock_word", 0, "done")
      /\ env' = [env EXCEPT !.clean   = IF clean THEN @ + 1 ELSE @,
                            !.signals = IF clean THEN @ ELSE @ + 1]
      /\ UNCHANGED reg

EventStep(t) ==
  IF t = Main THEN JoinTakers ELSE EventEnter(t) \/ EventState(t) \/ EventUnlock(t)

-----------------------------------------------------------------------------
(* "xen".  Takers call write_lock, one more thread calls write_unlock.     *)
(* env.taken counts the locks taken from a free lock.                      *)

_QW_LOCKED == 255
Unlocker == 1 + Cardinality(Taker)

ASSUME UnlockerAssumption == Unlocker \notin Taker

XenInit ==
  Boot("xen", {"TSO", "ARM"},
       [x \in {"cnts"} |-> 0],
       [t \in All \cup {Unlocker} |-> IF t = Main THEN "join"
                                      ELSE IF t = Unlocker THEN "unlock" ELSE "expect"],
       [t \in All \cup {Unlocker} |-> [expected |-> 0]],
       [taken |-> 0])

(* Faulty variant: the exchange does not compare.                          *)
XenExchangeBlind(t) ==
  /\ Go(t, "exchange", "done")
  /\ CanRMW(t, "cnts")
  /\ SetMem("cnts", _QW_LOCKED)
  /\ env' = [env EXCEPT !.taken = IF reg[t].expected = 0 THEN @ + 1 ELSE @]
  /\ UNCHANGED reg

(* write_lock: what it expects is what it finds; it returns either way.    *)
XenExpect(t) == Read(t, "expect", "expected", "cnts", "exchange") /\ UNCHANGED env
XenExchange(t) ==
  /\ Go(t, "exchange", "done")
  /\ CanRMW(t, "cnts")
  /\ IF mem["cnts"] = reg[t].expected THEN SetMem("cnts", _QW_LOCKED) ELSE Silent
  /\ env' = [env EXCEPT !.taken = IF mem["cnts"] = 0 /\ reg[t].expected = 0 THEN @ + 1 ELSE @]
  /\ UNCHANGED reg

(* write_unlock: a plain store.                                            *)
XenUnlock == Write(Unlocker, "unlock", "cnts", 0, "done") /\ Keep

XenMain == Await(Main, "join", Joinable(Taker \cup {Unlocker}), "exit") /\ Keep

XenStep(t) ==
  CASE t = Main     -> XenMain
    [] t = Unlocker -> XenUnlock
    [] OTHER        -> XenExpect(t) \/ XenExchange(t)

-----------------------------------------------------------------------------
(* "buffers".  reg[t].position is the loop variable and then the buffer,   *)
(* which the thread has from its test until its release is visible.        *)
(* env.shared: <<t, u>> when t was given a buffer that u had; env.late:    *)
(* those of them where u's mark was visible by then.                       *)

Position == 0..(NumBuffers - 1)

BuffersInit ==
  Boot("buffers", {"TSO", "ARM"},
       [p \in Position |-> 0],
       [t \in All |-> IF t = Main THEN "join" ELSE "test"],
       [t \in All |-> [position |-> 0]],
       [shared |-> {}, late |-> {}])

Holders(p) ==
  {t \in Taker : \/ pc[t] \in {"mark", "use", "fence", "free"} /\ reg[t].position = p
                 \/ Pending(t, p) # {}}

MarkVisible(t) == pc[t] # "mark" /\ \A i \in DOMAIN buf[t] : buf[t][i].val = 0

Take(t, p) ==
  env' = [shared |-> env.shared \cup ({t} \X Holders(p)),
          late   |-> env.late \cup ({t} \X {u \in Holders(p) : MarkVisible(u)})]

(* Faulty variant: a buffer is taken whatever its word says.               *)
BuffersTestNothing(t) ==
  /\ Local(t, "test", "mark")
  /\ Take(t, reg[t].position)
  /\ UNCHANGED reg

(* allocate_memory: the first buffer found unused is marked used, with     *)
(* nothing between the test and the mark but luck; -1 when there is none.  *)
BuffersTest(t) ==
  LET p    == reg[t].position
      free == Load(t, p) = 0
  IN  /\ Local(t, "test", IF free THEN "mark" ELSE IF p + 1 = NumBuffers THEN "done" ELSE "test")
      /\ reg' = [reg EXCEPT ![t].position = IF free \/ p + 1 = NumBuffers THEN p ELSE p + 1]
      /\ IF free THEN Take(t, p) ELSE UNCHANGED env

(* Faulty variant: the buffer is marked only when it is used.              *)
BuffersMarkMissing(t) == Local(t, "mark", "use") /\ Keep

BuffersMark(t) == Write(t, "mark", reg[t].position, 1, "use") /\ Keep
BuffersUse(t)  == Local(t, "use", "fence") /\ Keep

(* release_memory                                                          *)
BuffersRelease(t) ==
  \/ ReleaseFence(t, "fence", "free") /\ Keep
  \/ Write(t, "free", reg[t].position, 0, "done") /\ Keep

BuffersStep(t) ==
  IF t = Main THEN JoinTakers
  ELSE BuffersTest(t) \/ BuffersMark(t) \/ BuffersUse(t) \/ BuffersRelease(t)

-----------------------------------------------------------------------------
SharedLockPrograms == {"rwlock", "event", "xen", "buffers"}

SharedLockInit == RwInit \/ EventInit \/ XenInit \/ BuffersInit

SharedLockStep(t) ==
  \/ program = "rwlock"  /\ RwStep(t)
  \/ program = "event"   /\ EventStep(t)
  \/ program = "xen"     /\ XenStep(t)
  \/ program = "buffers" /\ BuffersStep(t)

-----------------------------------------------------------------------------
(* The X lock of 4-MySQL.c, which nothing releases, is only ever granted   *)
(* to one thread, although recursive and writer_thread are read without    *)
(* the mutex, on ARM in either order.                                      *)
RwOneOwner ==
  program = "rwlock" =>
    \A t, u \in Taker : env.grants[t] > 0 /\ env.grants[u] > 0 => t = u

RwGrants == LET granted == {t \in Taker : env.grants[t] > 0}
            IN  IF granted = {} THEN 0 ELSE env.grants[CHOOSE t \in granted : TRUE]

(* Whenever no call is under way, the lock word encodes how often the      *)
(* owner has the lock: a first grant and one that drops below 0 by DECR,   *)
(* one more by DECR from -HALF (line 116), each further one by 1.          *)
RwWordCountsGrants ==
  program = "rwlock" /\ (\A t \in Taker : pc[t] \in {"call", "done"} /\ Drained(t)) =>
    mem["lock_word"] = IF RwGrants <= 3
                       THEN 3 * X_LOCK_HALF_DECR - RwGrants * X_LOCK_DECR
                       ELSE 3 * X_LOCK_HALF_DECR - 3 * X_LOCK_DECR - (RwGrants - 3)

(* 17-mysql.c lets every thread into its section, with the mutex or        *)
(* without; the word and the exits keep exact account of it: the mutex is  *)
(* locked exactly when one more try_lock succeeded than exits found it     *)
(* locked, and in the end there was one signal for every failed enter.     *)
EventKeepsAccount ==
  program = "event" =>
    /\ mem["m_lock_word"] + env.clean = env.granted
    /\ pc[Main] = "exit" => env.signals = env.failed

(* In 8 the lock is taken from a free word at most once more than it has   *)
(* been released, however many failures write_lock takes for successes.    *)
XenTakenOnce ==
  program = "xen" =>
    env.taken <= IF pc[Unlocker] = "done" /\ Drained(Unlocker) THEN 2 ELSE 1

Sharers(t)  == {u \in Taker : <<t, u>> \in env.shared \/ <<u, t>> \in env.shared}
GaveBack(t) == pc[t] = "done" /\ Drained(t)

(* In 7 the pool goes wrong in one way only.  A thread loses its buffer,   *)
(* so that it reads the word as unused between its mark and its release,   *)
(* only when somebody who had the buffer along with it has given it back.  *)
(* And two threads share one because the second was given it before the    *)
(* mark of the first was visible, or, if it was visible, because a third   *)
(* who shared it with the first has given it back.                         *)
BufferLostToSharers ==
  program = "buffers" =>
    /\ \A t \in Taker :
         pc[t] \in {"use", "fence", "free"} /\ Load(t, reg[t].position) = 0 =>
           \E u \in Sharers(t) : GaveBack(u)
    /\ \A t, u \in Taker :
         <<t, u>> \in env.late => \E w \in Sharers(u) \ {t} : GaveBack(w)
=============================================================================
