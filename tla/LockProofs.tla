----------------------------- MODULE LockProofs ------------------------------
(***************************************************************************)
(* The lock programs of Native, for any number of threads, buffers and     *)
(* calls and on every memory that Native gives them: the event mutex of    *)
(* 17-mysql.c, write_lock of 8-CVE-2020-11739-Xen.c, the buffer table of   *)
(* 7-OpenBLAS.c, the exclusive lock of 4-MySQL.c, and the queue locks of   *)
(* 1-Linuxeasy.c and 3-sel4-dynamic.c.                                     *)
(***************************************************************************)
EXTENDS Native, MachineProofs, FiniteSetTheorems

(* main is no Taker.                                                       *)
LEMMA TakersAreNotMain == Main \notin Taker /\ Main \in All /\ Taker \subseteq All
  BY TakerAssumption DEF Main, All

-----------------------------------------------------------------------------
(* 17-mysql.c.  Every access is a full barrier or reads a word that nobody *)
(* buffers, so that there are no buffers to speak of.                      *)

EventLoc == {"m_lock_word"}

EventTypes ==
  /\ Weak
  /\ MemOK(All, EventLoc, {0, 1})
  /\ \A t \in All : Entries(t) = {}
  /\ pc \in [All -> {"enter", "state", "unlock", "done", "join", "exit"}]
  /\ reg \in [All -> [state : {0, 1}]]
  /\ env \in [granted : Int, failed : Int, clean : Int, signals : Int]

(* The threads that have entered and not left.                             *)
Entered == {t \in Taker : pc[t] \in {"state", "unlock"}}

(* The word tells the successful enters from the exits that found it       *)
(* locked, and is locked only while somebody is in; those who are in, the  *)
(* clean exits and the signals make up the enters.                         *)
EventInv ==
  /\ EventTypes
  /\ mem["m_lock_word"] = env.granted - env.clean
  /\ mem["m_lock_word"] = 1 => Entered # {}
  /\ IsFiniteSet(Entered)
  /\ Cardinality(Entered) = env.granted + env.failed - env.clean - env.signals
  /\ pc[Main] = "exit" => \A t \in Taker : pc[t] = "done"

(* The invariant holds when the threads start.                             *)
LEMMA EventInitInv == EventInit => EventInv
<1> SUFFICES ASSUME EventInit PROVE EventInv
  OBVIOUS
<1>1. /\ model = "ARM"
      /\ mem = [x \in EventLoc |-> 0]
      /\ buf = [t \in All |-> << >>]
      /\ pc = [t \in All |-> IF t = Main THEN "join" ELSE "enter"]
      /\ reg = [t \in All |-> [state |-> 0]]
      /\ env = [granted |-> 0, failed |-> 0, clean |-> 0, signals |-> 0]
  BY DEF EventInit, Boot, EventLoc
<1>2. EventTypes
  BY <1>1 DEF EventTypes, Weak, MemOK, Entries
<1>3. Entered = {} /\ pc[Main] = "join"
  BY <1>1, TakersAreNotMain DEF Entered
<1> QED BY <1>1, <1>2, <1>3, FS_EmptySet DEF EventInv, EventLoc

(* A full-barrier exchange of the lock word.                               *)
LEMMA EventExchange ==
  ASSUME EventInv, NEW t \in Taker, UNCHANGED rigid,
         NEW v \in {0, 1}, NEW from, NEW to \in {"state", "done"},
         AtomicFull(t, from, "m_lock_word", v, to), UNCHANGED reg,
         env' \in [granted : Int, failed : Int, clean : Int, signals : Int]
  PROVE  /\ EventTypes'
         /\ pc[t] = from
         /\ pc' = [pc EXCEPT ![t] = to]
         /\ mem'["m_lock_word"] = v
<1>1. "m_lock_word" \in EventLoc
  BY DEF EventLoc
<1>2. /\ MemOK(All, EventLoc, {0, 1})'
      /\ mem' = [mem EXCEPT !["m_lock_word"] = v]
      /\ \A u \in All : Entries(u)' = Entries(u)
  BY <1>1, SetMemEntries DEF EventInv, EventTypes, AtomicFull
<1>3. pc[t] = from /\ pc' = [pc EXCEPT ![t] = to]
  BY DEF AtomicFull, Go
<1>4. Weak'
  BY DEF EventInv, EventTypes, Weak, rigid
<1>5. mem'["m_lock_word"] = v
  BY <1>1, <1>2 DEF EventInv, EventTypes, MemOK
<1> QED BY <1>2, <1>3, <1>4, <1>5 DEF EventInv, EventTypes

(* The exchange on the lock word preserves the invariant.                  *)
LEMMA EventEnterStep ==
  ASSUME EventInv, NEW t \in Taker, UNCHANGED rigid, EventEnter(t)
  PROVE  EventInv'
<1> DEFINE w == mem["m_lock_word"]
<1>0. env \in [granted : Int, failed : Int, clean : Int, signals : Int]
  BY DEF EventInv, EventTypes
<1>1. /\ env' = [env EXCEPT !.granted = IF w = 0 THEN @ + 1 ELSE @,
                            !.failed  = IF w = 0 THEN @ ELSE @ + 1]
      /\ env \in [granted : Int, failed : Int, clean : Int, signals : Int]
      /\ w \in {0, 1}
  BY DEF EventInv, EventTypes, EventEnter, MemOK, EventLoc
<1>2. /\ env' \in [granted : Int, failed : Int, clean : Int, signals : Int]
      /\ env'.clean = env.clean /\ env'.signals = env.signals
      /\ w = 0 => env'.granted = env.granted + 1 /\ env'.failed = env.failed
      /\ w = 1 => env'.granted = env.granted /\ env'.failed = env.failed + 1
  <2>1. CASE w = 0
    <3>1. env' = [env EXCEPT !.granted = @ + 1, !.failed = @]
      BY <1>1, <2>1, Zenon
    <3>2. env' = [env EXCEPT !.granted = @ + 1]
      BY <1>0, <3>1
    <3> QED BY <1>0, <2>1, <3>2
  <2>2. CASE w = 1
    <3>1. w # 0
      BY <2>2
    <3>2. env' = [env EXCEPT !.granted = @, !.failed = @ + 1]
      BY <1>1, <3>1, Zenon
    <3>3. env' = [env EXCEPT !.failed = @ + 1]
      BY <1>0, <3>2
    <3> QED BY <1>0, <2>2, <3>3
  <2> QED BY <1>1, <2>1, <2>2
<1>3. /\ EventTypes'
      /\ pc[t] = "enter"
      /\ pc' = [pc EXCEPT ![t] = "state"]
      /\ mem'["m_lock_word"] = 1
  BY <1>2, EventExchange DEF EventEnter
<1>4. Entered' = Entered \cup {t} /\ t \notin Entered
  BY <1>3, TakersAreNotMain DEF EventInv, EventTypes, Entered
<1>5. /\ IsFiniteSet(Entered')
      /\ Cardinality(Entered') = Cardinality(Entered) + 1
  BY <1>4, FS_AddElement DEF EventInv
<1>6. mem'["m_lock_word"] = env'.granted - env'.clean
  BY <1>1, <1>2, <1>3 DEF EventInv
<1>7. Cardinality(Entered') = env'.granted + env'.failed - env'.clean - env'.signals
  BY <1>1, <1>2, <1>5 DEF EventInv
<1>8. pc'[Main] # "exit"
  BY <1>3, TakersAreNotMain DEF EventInv, EventTypes
<1> QED BY <1>3, <1>4, <1>5, <1>6, <1>7, <1>8 DEF EventInv

(* The read of the state preserves the invariant.                          *)
LEMMA EventStateStep ==
  ASSUME EventInv, NEW t \in Taker, UNCHANGED rigid, EventState(t)
  PROVE  EventInv'
<1> DEFINE w == Load(t, "m_lock_word")
<1>1. /\ pc[t] = "state" /\ pc' = [pc EXCEPT ![t] = "unlock"]
      /\ reg' = [reg EXCEPT ![t].state = w]
      /\ Silent /\ UNCHANGED env
  BY DEF EventState, ReadSC, Read, Go
<1>2. w \in {0, 1}
  BY LoadEntries, TakersAreNotMain DEF EventInv, EventTypes, EventLoc
<1>3. EventTypes'
  <2>1. /\ MemOK(All, EventLoc, {0, 1})'
        /\ mem' = mem
        /\ \A u \in All : Entries(u)' = Entries(u)
    BY <1>1, SilentEntries DEF EventInv, EventTypes
  <2>2. reg' \in [All -> [state : {0, 1}]]
    <3> HIDE DEF w
    <3> QED BY <1>1, <1>2 DEF EventInv, EventTypes
  <2>3. Weak' /\ env' = env
    BY <1>1 DEF EventInv, EventTypes, Weak, rigid
  <2> QED BY <1>1, <2>1, <2>2, <2>3 DEF EventInv, EventTypes
<1>4. Entered' = Entered
  BY <1>1, TakersAreNotMain DEF EventInv, EventTypes, Entered
<1>5. pc'[Main] # "exit"
  BY <1>1, TakersAreNotMain DEF EventInv, EventTypes
<1>6. mem' = mem /\ env' = env
  BY <1>1 DEF Silent
<1> QED BY <1>3, <1>4, <1>5, <1>6 DEF EventInv

(* The unlock preserves the invariant.                                     *)
LEMMA EventUnlockStep ==
  ASSUME EventInv, NEW t \in Taker, UNCHANGED rigid, EventUnlock(t)
  PROVE  EventInv'
<1> DEFINE w == mem["m_lock_word"]
           c == reg[t].state # Waiters /\ mem["m_lock_word"] = 1
<1>0. env \in [granted : Int, failed : Int, clean : Int, signals : Int]
  BY DEF EventInv, EventTypes
<1>1. /\ env' = [env EXCEPT !.clean   = IF c THEN @ + 1 ELSE @,
                            !.signals = IF c THEN @ ELSE @ + 1]
      /\ env \in [granted : Int, failed : Int, clean : Int, signals : Int]
      /\ w \in {0, 1}
  BY DEF EventInv, EventTypes, EventUnlock, MemOK, EventLoc
<1>2. c <=> w = 1
  <2>1. reg[t].state \in {0, 1}
    BY TakersAreNotMain DEF EventInv, EventTypes
  <2> QED BY <2>1 DEF Waiters
<1>3. /\ env' \in [granted : Int, failed : Int, clean : Int, signals : Int]
      /\ env'.granted = env.granted /\ env'.failed = env.failed
      /\ w = 1 => env'.clean = env.clean + 1 /\ env'.signals = env.signals
      /\ w = 0 => env'.clean = env.clean /\ env'.signals = env.signals + 1
  <2>1. CASE w = 1
    <3>1. env' = [env EXCEPT !.clean = @ + 1, !.signals = @]
      BY <1>1, <1>2, <2>1, Zenon
    <3>2. env' = [env EXCEPT !.clean = @ + 1]
      BY <1>0, <3>1
    <3> QED BY <1>0, <2>1, <3>2
  <2>2. CASE w = 0
    <3>1. ~ c
      BY <1>2, <2>2
    <3>2. env' = [env EXCEPT !.clean = @, !.signals = @ + 1]
      BY <1>1, <3>1, Zenon
    <3>3. env' = [env EXCEPT !.signals = @ + 1]
      BY <1>0, <3>2
    <3> QED BY <1>0, <2>2, <3>3
  <2> QED BY <1>1, <2>1, <2>2
<1>4. /\ EventTypes'
      /\ pc[t] = "unlock"
      /\ pc' = [pc EXCEPT ![t] = "done"]
      /\ mem'["m_lock_word"] = 0
  BY <1>3, EventExchange DEF EventUnlock
<1>5. Entered' = Entered \ {t} /\ t \in Entered
  BY <1>4, TakersAreNotMain DEF EventInv, EventTypes, Entered
<1>6. /\ IsFiniteSet(Entered')
      /\ Cardinality(Entered') = Cardinality(Entered) - 1
  BY <1>5, FS_RemoveElement DEF EventInv
<1>7. mem'["m_lock_word"] = env'.granted - env'.clean
  BY <1>1, <1>3, <1>4 DEF EventInv
<1>8. Cardinality(Entered') = env'.granted + env'.failed - env'.clean - env'.signals
  BY <1>1, <1>3, <1>6 DEF EventInv
<1>9. pc'[Main] # "exit"
  BY <1>4, TakersAreNotMain DEF EventInv, EventTypes
<1> QED BY <1>4, <1>6, <1>7, <1>8, <1>9 DEF EventInv

(* main's join preserves the invariant.                                    *)
LEMMA EventJoinStep ==
  ASSUME EventInv, JoinTakers, UNCHANGED rigid
  PROVE  EventInv'
<1>1. /\ pc' = [pc EXCEPT ![Main] = "exit"]
      /\ \A t \in Taker : pc[t] = "done"
      /\ Silent /\ reg' = reg /\ env' = env
  BY DEF JoinTakers, Await, Go, Keep, Joinable
<1>2. /\ MemOK(All, EventLoc, {0, 1})'
      /\ mem' = mem
      /\ \A u \in All : Entries(u)' = Entries(u)
  BY <1>1, SilentEntries DEF EventInv, EventTypes
<1>3. \A t \in Taker : pc'[t] = pc[t]
  BY <1>1, TakersAreNotMain DEF EventInv, EventTypes
<1>4. Entered' = Entered
  BY <1>3 DEF Entered
<1>5. EventTypes'
  BY <1>1, <1>2, TakersAreNotMain DEF EventInv, EventTypes, Weak, rigid
<1> QED BY <1>1, <1>2, <1>3, <1>4, <1>5 DEF EventInv

(* The word is free when all have left, so that every exit was clean or    *)
(* made good for an enter that failed.                                     *)
LEMMA EventAccount == EventInv /\ program = "event" => EventKeepsAccount
<1> SUFFICES ASSUME EventInv PROVE EventKeepsAccount
  OBVIOUS
<1>1. /\ env \in [granted : Int, failed : Int, clean : Int, signals : Int]
      /\ mem["m_lock_word"] \in {0, 1}
  BY DEF EventInv, EventTypes, MemOK, EventLoc
<1>2. ASSUME pc[Main] = "exit" PROVE env.signals = env.failed
  <2>1. Entered = {}
    BY <1>2 DEF EventInv, Entered
  <2>2. Cardinality(Entered) = 0 /\ mem["m_lock_word"] = 0
    BY <1>1, <2>1, FS_EmptySet DEF EventInv
  <2> QED BY <1>1, <2>2 DEF EventInv
<1> QED BY <1>1, <1>2 DEF EventInv, EventKeepsAccount

(* There is nothing to flush.                                              *)
LEMMA EventFlushStep ==
  ASSUME EventInv, NEW t \in All, NEW x \in DOMAIN mem
  PROVE  ~ Commit(t, x)
<1>1. /\ MemOK(All, EventLoc, {0, 1}) /\ Weak /\ x \in EventLoc
      /\ Entries(t) = {}
  BY DEF EventInv, EventTypes, MemOK
<1> SUFFICES ASSUME Commit(t, x) PROVE FALSE
  OBVIOUS
<1>2. \E e \in Entries(t) : e.loc = x
  BY <1>1, CommitEntries
<1> QED BY <1>1, <1>2

(* A stuttering step preserves the invariant.                              *)
LEMMA EventStutter == ASSUME EventInv, UNCHANGED vars PROVE EventInv'
<1>1. /\ mem' = mem /\ buf' = buf /\ model' = model
      /\ pc' = pc /\ reg' = reg /\ env' = env
  BY DEF vars
<1>2. Entered' = Entered /\ \A t : Entries(t)' = Entries(t)
  BY <1>1 DEF Entered, Entries
<1>3. EventTypes'
  BY <1>1, <1>2 DEF EventInv, EventTypes, Weak, MemOK
<1> QED BY <1>1, <1>2, <1>3 DEF EventInv

-----------------------------------------------------------------------------
(* 8-CVE-2020-11739-Xen.c.  The one store that is ever buffered is the     *)
(* unlocker's.                                                             *)

XenLoc    == {"cnts"}
XenThread == All \cup {Unlocker}

XenTypes ==
  /\ Weak
  /\ MemOK(XenThread, XenLoc, {0, _QW_LOCKED})
  /\ pc \in [XenThread -> {"expect", "exchange", "unlock", "done", "join", "exit"}]
  /\ reg \in [XenThread -> [expected : Int]]
  /\ env \in [taken : Int]

(* The store of write_unlock is in memory.                                 *)
XenReleased == pc[Unlocker] = "done" /\ Drained(Unlocker)

(* write_unlock stores once, and no other thread does.                     *)
XenBuffers ==
  /\ \A t \in XenThread \ {Unlocker} : buf[t] = << >>
  /\ pc[Unlocker] = "done" \/ Len(buf[Unlocker]) = 0
  /\ Len(buf[Unlocker]) <= 1
  /\ \A i \in 1..Len(buf[Unlocker]) : buf[Unlocker][i].val = 0

(* Only the release makes a taken lock free again.                         *)
XenInv ==
  /\ XenTypes
  /\ XenBuffers
  /\ env.taken <= (IF XenReleased THEN 1 ELSE 0) + (IF mem["cnts"] = 0 THEN 0 ELSE 1)

(* The locked byte is a positive number.                                   *)
LEMMA XenLocked == _QW_LOCKED \in Nat \ {0}
  BY DEF _QW_LOCKED

(* The threads of the program, which are different.                        *)
LEMMA XenThreads ==
  /\ Main \in XenThread /\ Unlocker \in XenThread /\ Taker \subseteq XenThread
  /\ Main \notin Taker /\ Unlocker \notin Taker
  BY TakersAreNotMain, UnlockerAssumption DEF XenThread, All

(* The invariant holds when the threads start.                             *)
LEMMA XenInitInv == XenInit => XenInv
<1> SUFFICES ASSUME XenInit PROVE XenInv
  OBVIOUS
<1>1. /\ model \in {"TSO", "ARM"}
      /\ mem = [x \in XenLoc |-> 0]
      /\ buf = [t \in XenThread |-> << >>]
      /\ pc = [t \in XenThread |-> IF t = Main THEN "join"
                                   ELSE IF t = Unlocker THEN "unlock" ELSE "expect"]
      /\ reg = [t \in XenThread |-> [expected |-> 0]]
      /\ env = [taken |-> 0]
  BY DEF XenInit, Boot, XenLoc, XenThread
<1>2. XenTypes
  BY <1>1 DEF XenTypes, Weak, MemOK
<1>3. XenBuffers
  BY <1>1, XenThreads DEF XenBuffers
<1>4. ~ XenReleased
  BY <1>1, XenThreads DEF XenReleased
<1> QED BY <1>1, <1>2, <1>3, <1>4 DEF XenInv, XenLoc

(* A step of one thread other than the unlocker's, which leaves the        *)
(* buffers alone.                                                          *)
LEMMA XenTakeStep ==
  ASSUME XenInv, NEW t \in Taker, UNCHANGED rigid, XenExchange(t)
  PROVE  XenInv'
<1> DEFINE w == mem["cnts"]
<1>1. /\ pc[t] = "exchange" /\ pc' = [pc EXCEPT ![t] = "done"]
      /\ IF w = reg[t].expected THEN SetMem("cnts", _QW_LOCKED) ELSE Silent
      /\ env' = [env EXCEPT !.taken = IF w = 0 /\ reg[t].expected = 0 THEN @ + 1 ELSE @]
      /\ UNCHANGED reg
  BY DEF XenExchange, Go
<1>2. /\ "cnts" \in XenLoc
      /\ w \in {0, _QW_LOCKED}
      /\ env \in [taken : Int]
      /\ mem \in [XenLoc -> {0, _QW_LOCKED}]
  BY DEF XenInv, XenTypes, MemOK, XenLoc
<1>3. /\ MemOK(XenThread, XenLoc, {0, _QW_LOCKED})'
      /\ buf' = buf
      /\ mem' = IF w = reg[t].expected THEN [mem EXCEPT !["cnts"] = _QW_LOCKED] ELSE mem
  <2>1. CASE w = reg[t].expected
    BY <1>1, <1>2, <2>1, SetMemEntries DEF XenInv, XenTypes, SetMem, SC!SetMem
  <2>2. CASE w # reg[t].expected
    BY <1>1, <2>2, SilentEntries DEF XenInv, XenTypes, Silent
  <2> QED BY <2>1, <2>2
<1>4. pc'[Unlocker] = pc[Unlocker] /\ (XenReleased' <=> XenReleased)
  BY <1>1, <1>3, XenThreads DEF XenInv, XenTypes, XenReleased, Drained, SC!Drained
<1>5. XenTypes'
  <2>1. env' \in [taken : Int]
    BY <1>1, <1>2
  <2>2. pc' \in [XenThread -> {"expect", "exchange", "unlock", "done", "join", "exit"}]
    BY <1>1 DEF XenInv, XenTypes
  <2>3. Weak' /\ reg' = reg
    BY <1>1 DEF XenInv, XenTypes, Weak, rigid
  <2> QED BY <1>3, <2>1, <2>2, <2>3 DEF XenInv, XenTypes
<1>6. \/ env'.taken = env.taken
      \/ env'.taken = env.taken + 1 /\ w = 0 /\ mem'["cnts"] = _QW_LOCKED
  <2>1. CASE w = 0 /\ reg[t].expected = 0
    <3>1. env' = [env EXCEPT !.taken = @ + 1]
      BY <1>1, <2>1, Zenon
    <3>2. mem'["cnts"] = _QW_LOCKED
      BY <1>2, <1>3, <2>1
    <3> QED BY <1>2, <2>1, <3>1, <3>2
  <2>2. CASE ~ (w = 0 /\ reg[t].expected = 0)
    <3>1. env' = [env EXCEPT !.taken = @]
      BY <1>1, <2>2, Zenon
    <3> QED BY <1>2, <3>1
  <2> QED BY <2>1, <2>2
<1>7. mem'["cnts"] = w \/ mem'["cnts"] = _QW_LOCKED
  BY <1>2, <1>3
<1>8. env'.taken \in Int /\ env.taken \in Int
  BY <1>2, <1>5 DEF XenTypes
<1>9. env'.taken <= (IF XenReleased' THEN 1 ELSE 0) + (IF mem'["cnts"] = 0 THEN 0 ELSE 1)
  <2> DEFINE r == IF XenReleased THEN 1 ELSE 0
  <2>1. env.taken <= r + (IF w = 0 THEN 0 ELSE 1) /\ r \in Int
    BY DEF XenInv
  <2> HIDE DEF r
  <2>2. env'.taken <= r + (IF mem'["cnts"] = 0 THEN 0 ELSE 1)
    BY <1>2, <1>6, <1>7, <1>8, <2>1, XenLocked
  <2> QED BY <1>4, <2>2 DEF r
<1>10. XenBuffers'
  BY <1>3, <1>4 DEF XenInv, XenBuffers
<1> QED BY <1>5, <1>9, <1>10 DEF XenInv

(* The load of the expected count preserves the invariant.                 *)
LEMMA XenExpectStep ==
  ASSUME XenInv, NEW t \in Taker, UNCHANGED rigid, XenExpect(t)
  PROVE  XenInv'
<1> DEFINE w == Load(t, "cnts")
<1>1. /\ pc' = [pc EXCEPT ![t] = "exchange"]
      /\ reg' = [reg EXCEPT ![t].expected = w]
      /\ Silent /\ UNCHANGED env
  BY DEF XenExpect, Read, Go
<1>2. w \in Int
  BY LoadEntries, XenThreads, XenLocked DEF XenInv, XenTypes, XenLoc
<1>3. /\ MemOK(XenThread, XenLoc, {0, _QW_LOCKED})'
      /\ mem' = mem /\ buf' = buf
  BY <1>1, SilentEntries DEF XenInv, XenTypes, Silent
<1>4. pc'[Unlocker] = pc[Unlocker] /\ (XenReleased' <=> XenReleased)
  BY <1>1, <1>3, XenThreads DEF XenInv, XenTypes, XenReleased, Drained, SC!Drained
<1>5. XenTypes'
  <2>1. reg' \in [XenThread -> [expected : Int]]
    <3> HIDE DEF w
    <3> QED BY <1>1, <1>2 DEF XenInv, XenTypes
  <2> QED BY <1>1, <1>3, <2>1 DEF XenInv, XenTypes, Weak, rigid
<1> QED BY <1>1, <1>3, <1>4, <1>5 DEF XenInv, XenBuffers

(* write_unlock, which runs once.                                          *)
LEMMA XenUnlockStep ==
  ASSUME XenInv, UNCHANGED rigid, XenUnlock
  PROVE  XenInv'
<1>1. /\ pc[Unlocker] = "unlock" /\ pc' = [pc EXCEPT ![Unlocker] = "done"]
      /\ Put(Unlocker, "cnts", 0, FALSE)
      /\ reg' = reg /\ env' = env
  BY DEF XenUnlock, Write, Go, Keep
<1>2. "cnts" \in XenLoc /\ 0 \in {0, _QW_LOCKED} /\ FALSE \in BOOLEAN
  BY DEF XenLoc
<1>3. /\ MemOK(XenThread, XenLoc, {0, _QW_LOCKED})'
      /\ mem' = mem
  BY <1>1, <1>2, PutEntries, XenThreads DEF XenInv, XenTypes
<1>4. /\ \A u \in XenThread : u # Unlocker => buf'[u] = buf[u]
      /\ Len(buf'[Unlocker]) = Len(buf[Unlocker]) + 1
      /\ \A j \in 1..Len(buf[Unlocker]) : buf'[Unlocker][j] = buf[Unlocker][j]
      /\ buf'[Unlocker][Len(buf[Unlocker]) + 1].val = 0
  <2>1. MemOK(XenThread, XenLoc, {0, _QW_LOCKED}) /\ Weak /\ Unlocker \in XenThread
    BY XenThreads DEF XenInv, XenTypes
  <2>2. Put(Unlocker, "cnts", 0, FALSE)
    BY <1>1
  <2>3. 0 \in {0, _QW_LOCKED}
    OBVIOUS
  <2>4. Appends(XenThread, Unlocker, "cnts", 0, FALSE)
    BY <1>2, <2>1, <2>2, <2>3, PutPosition, Zenon
  <2> QED BY <2>4 DEF Appends
<1>5. Len(buf[Unlocker]) = 0
  BY <1>1 DEF XenInv, XenBuffers
<1>6. XenTypes'
  BY <1>1, <1>3 DEF XenInv, XenTypes, Weak, rigid
<1>7. pc'[Unlocker] = "done"
  BY <1>1, XenThreads DEF XenInv, XenTypes
<1>8. XenBuffers'
  BY <1>4, <1>5, <1>7 DEF XenInv, XenBuffers
<1>9. ~ XenReleased /\ ~ XenReleased'
  BY <1>1, <1>4, <1>5 DEF XenReleased, Drained, SC!Drained
<1> QED BY <1>1, <1>3, <1>6, <1>8, <1>9 DEF XenInv

(* main's join preserves the invariant.                                    *)
LEMMA XenJoinStep ==
  ASSUME XenInv, UNCHANGED rigid, XenMain
  PROVE  XenInv'
<1>1. /\ pc[Main] = "join" /\ pc' = [pc EXCEPT ![Main] = "exit"]
      /\ pc[Unlocker] = "done"
      /\ Silent /\ reg' = reg /\ env' = env
  BY DEF XenMain, Await, Go, Keep, Joinable
<1>2. /\ MemOK(XenThread, XenLoc, {0, _QW_LOCKED})'
      /\ mem' = mem /\ buf' = buf
  BY <1>1, SilentEntries DEF XenInv, XenTypes, Silent
<1>3. pc'[Unlocker] = pc[Unlocker] /\ (XenReleased' <=> XenReleased)
  BY <1>1, <1>2, XenThreads DEF XenInv, XenTypes, XenReleased, Drained, SC!Drained
<1>4. XenTypes'
  BY <1>1, <1>2 DEF XenInv, XenTypes, Weak, rigid
<1> QED BY <1>1, <1>2, <1>3, <1>4 DEF XenInv, XenBuffers

(* The store of 0 becomes visible, once.                                   *)
LEMMA XenFlushStep ==
  ASSUME XenInv, NEW t \in XenThread, NEW x \in DOMAIN mem, Commit(t, x),
         UNCHANGED <<rigid, pc, reg, env>>
  PROVE  XenInv'
<1>1. mem \in [XenLoc -> {0, _QW_LOCKED}] /\ x \in XenLoc /\ x = "cnts"
  BY DEF XenInv, XenTypes, MemOK, XenLoc
<1>2. MemOK(XenThread, XenLoc, {0, _QW_LOCKED})'
  BY <1>1, CommitEntries DEF XenInv, XenTypes
<1>3. /\ \A u \in XenThread : u # t => buf'[u] = buf[u]
      /\ \E i \in 1..Len(buf[t]) :
           /\ mem' = [mem EXCEPT ![x] = buf[t][i].val]
           /\ Len(buf'[t]) = Len(buf[t]) - 1
  <2>1. MemOK(XenThread, XenLoc, {0, _QW_LOCKED}) /\ Weak
    BY DEF XenInv, XenTypes
  <2>2. Commits(XenThread, t, x)
    BY <1>1, <2>1, CommitPosition, Zenon
  <2> QED BY <2>2, Zenon DEF Commits
<1>4. PICK i \in 1..Len(buf[t]) :
           /\ mem' = [mem EXCEPT ![x] = buf[t][i].val]
           /\ Len(buf'[t]) = Len(buf[t]) - 1
  BY <1>3
<1>5. Len(buf[t]) \in Nat /\ Len(buf[t]) # 0
  BY <1>4 DEF XenInv, XenTypes, MemOK
<1>6. t = Unlocker /\ pc[Unlocker] = "done" /\ buf[t][i].val = 0 /\ Len(buf[t]) = 1
  <2>1. t = Unlocker
    <3> SUFFICES ASSUME t # Unlocker PROVE FALSE
      OBVIOUS
    <3>1. buf[t] = << >>
      BY DEF XenInv, XenBuffers
    <3> QED BY <1>5, <3>1
  <2>2. Len(buf[t]) <= 1 /\ (pc[Unlocker] = "done" \/ Len(buf[t]) = 0)
    BY <2>1 DEF XenInv, XenBuffers
  <2>3. buf[t][i].val = 0
    BY <2>1 DEF XenInv, XenBuffers
  <2>4. Len(buf[t]) = 1
    <3>1. \A n \in Nat : n # 0 /\ n <= 1 => n = 1
      OBVIOUS
    <3> QED BY <1>5, <2>2, <3>1, Zenon
  <2> QED BY <2>1, <2>2, <2>3, <2>4
<1>7. mem'["cnts"] = 0 /\ Len(buf'[Unlocker]) = 0
  BY <1>1, <1>4, <1>6
<1>8. XenTypes'
  BY <1>2 DEF XenInv, XenTypes, Weak, rigid
<1>9. XenBuffers'
  BY <1>3, <1>6, <1>7 DEF XenInv, XenBuffers
<1>10. ~ XenReleased
  BY <1>6 DEF XenReleased, Drained, SC!Drained
<1>11. XenReleased'
  <2>1. buf'[Unlocker] \in Seq(Entry(XenLoc, {0, _QW_LOCKED}))
    BY <1>2, XenThreads DEF MemOK
  <2>2. buf'[Unlocker] = << >>
    BY <1>7, <2>1
  <2> QED BY <1>6, <2>2 DEF XenReleased, Drained, SC!Drained
<1>12. env.taken \in Int /\ env.taken <= 1
  BY <1>10 DEF XenInv, XenTypes
<1> QED BY <1>7, <1>8, <1>9, <1>11, <1>12 DEF XenInv

(* A stuttering step preserves the invariant.                              *)
LEMMA XenStutter == ASSUME XenInv, UNCHANGED vars PROVE XenInv'
<1>1. /\ mem' = mem /\ buf' = buf /\ model' = model
      /\ pc' = pc /\ reg' = reg /\ env' = env
  BY DEF vars
<1> QED BY <1>1 DEF XenInv, XenTypes, XenBuffers, XenReleased, Drained, SC!Drained, Weak, MemOK
-----------------------------------------------------------------------------
(* 7-OpenBLAS.c.                                                           *)

BuffersTypes ==
  /\ Weak
  /\ MemOK(All, Position, {0, 1})
  /\ pc \in [All -> {"test", "mark", "use", "fence", "free", "done", "join", "exit"}]
  /\ reg \in [All -> [position : Position]]
  /\ env \in [shared : SUBSET (Taker \X Taker), late : SUBSET (Taker \X Taker)]

(* A thread stores to the buffer it was given only: its mark, and the      *)
(* release when it is done, which is its last store.                       *)
BuffersOrder ==
  \A t \in All : \A i \in 1..Len(buf[t]) :
    /\ t \in Taker /\ pc[t] \in {"use", "fence", "free", "done"}
    /\ buf[t][i].loc = reg[t].position
    /\ buf[t][i].val = IF pc[t] = "done" /\ i = Len(buf[t]) THEN 0 ELSE 1

(* t has the buffer at its position, from its test until its last store is *)
(* visible.                                                                *)
BuffersHas(t) == pc[t] \in {"mark", "use", "fence", "free"} \/ buf[t] # << >>

BuffersShare ==
  \A t, u \in Taker :
    t # u /\ BuffersHas(t) /\ BuffersHas(u) /\ reg[t].position = reg[u].position =>
      u \in Sharers(t)

(* A buffer that somebody has is marked, once his mark is visible, until a *)
(* sharer gives it back.                                                   *)
BuffersLost ==
  \A t \in Taker :
    BuffersHas(t) /\ MarkVisible(t) /\ mem[reg[t].position] = 0 =>
      \E u \in Sharers(t) : GaveBack(u)

BuffersLate ==
  \A t, u \in Taker : <<t, u>> \in env.late => \E w \in Sharers(u) \ {t} : GaveBack(w)

BuffersInv == BuffersTypes /\ BuffersOrder /\ BuffersShare /\ BuffersLost /\ BuffersLate

(* The positions are numbers.                                              *)
LEMMA BuffersFacts == 0 \in Position /\ Position \subseteq Int /\ NumBuffers \in Nat
  BY BuffersAssumption DEF Position

(* A sequence is empty when it has no places; a buffer is one.             *)
LEMMA EmptySeq ==
  ASSUME NEW S, NEW s \in Seq(S)
  PROVE  /\ Len(s) \in Nat /\ DOMAIN s = 1..Len(s)
         /\ s = << >> <=> Len(s) = 0
  OBVIOUS

LEMMA BuffersSeq ==
  ASSUME BuffersTypes, NEW t \in All
  PROVE  /\ Len(buf[t]) \in Nat /\ DOMAIN buf[t] = 1..Len(buf[t])
         /\ buf[t] = << >> <=> Len(buf[t]) = 0
<1>1. buf[t] \in Seq(Entry(Position, {0, 1}))
  BY DEF BuffersTypes, MemOK
<1> QED BY <1>1

(* The invariant holds when the threads start.                             *)
LEMMA BuffersInitInv == BuffersInit => BuffersInv
<1> SUFFICES ASSUME BuffersInit PROVE BuffersInv
  OBVIOUS
<1>1. /\ model \in {"TSO", "ARM"}
      /\ mem = [p \in Position |-> 0]
      /\ buf = [t \in All |-> << >>]
      /\ pc = [t \in All |-> IF t = Main THEN "join" ELSE "test"]
      /\ reg = [t \in All |-> [position |-> 0]]
      /\ env = [shared |-> {}, late |-> {}]
  BY DEF BuffersInit, Boot
<1>2. BuffersTypes
  <2>1. env \in [shared : SUBSET (Taker \X Taker), late : SUBSET (Taker \X Taker)]
    BY <1>1
  <2> QED BY <1>1, <2>1, BuffersFacts DEF BuffersTypes, Weak, MemOK
<1>3. \A t \in Taker : ~ BuffersHas(t)
  BY <1>1, TakersAreNotMain DEF BuffersHas
<1>4. BuffersOrder
  BY <1>1 DEF BuffersOrder
<1>5. BuffersLate
  BY <1>1 DEF BuffersLate
<1> QED BY <1>2, <1>3, <1>4, <1>5 DEF BuffersInv, BuffersShare, BuffersLost

(* What the model calls the holders of a buffer.                           *)
LEMMA BuffersHolders ==
  ASSUME BuffersInv, NEW p \in Position, NEW t \in Taker
  PROVE  t \in Holders(p) <=> BuffersHas(t) /\ reg[t].position = p
<1>1. Pending(t, p) = {i \in DOMAIN buf[t] : buf[t][i].loc = p}
  BY DEF Pending, SC!Pending
<1>2. /\ Len(buf[t]) \in Nat /\ DOMAIN buf[t] = 1..Len(buf[t])
      /\ buf[t] = << >> <=> Len(buf[t]) = 0
  BY BuffersSeq, TakersAreNotMain DEF BuffersInv
<1>3. \A i \in 1..Len(buf[t]) : buf[t][i].loc = reg[t].position
  BY TakersAreNotMain DEF BuffersInv, BuffersOrder
<1>4. Pending(t, p) # {} <=> buf[t] # << >> /\ reg[t].position = p
  <2>1. ASSUME Pending(t, p) # {} PROVE buf[t] # << >> /\ reg[t].position = p
    BY <1>1, <1>2, <1>3, <2>1
  <2>2. ASSUME buf[t] # << >>, reg[t].position = p PROVE Pending(t, p) # {}
    <3>1. 1 \in 1..Len(buf[t])
      BY <1>2, <2>2
    <3> QED BY <1>1, <1>2, <1>3, <2>2, <3>1
  <2> QED BY <2>1, <2>2
<1> QED BY <1>4 DEF Holders, BuffersHas

(* A step after which everybody who had given a buffer back still has, and *)
(* everybody who had shared one, leaves the late pairs accounted for.      *)
LEMMA BuffersLateKept ==
  ASSUME BuffersLate, env' = env, \A u \in Taker : GaveBack(u) => GaveBack(u)'
  PROVE  BuffersLate' /\ \A u \in Taker : Sharers(u)' = Sharers(u)
<1>1. \A u \in Taker : Sharers(u)' = Sharers(u) /\ Sharers(u) \subseteq Taker
  BY DEF Sharers
<1> QED BY <1>1 DEF BuffersLate

(* The buffer found unused is taken.  Those who have it share it from now  *)
(* on; if one of them has his mark in memory, it was a sharer of his who   *)
(* gave the buffer back.                                                   *)
LEMMA BuffersTakeStep ==
  ASSUME BuffersInv, NEW t \in Taker, UNCHANGED rigid, pc[t] = "test",
         NEW p \in Position, p = reg[t].position, Load(t, p) = 0,
         Silent, pc' = [pc EXCEPT ![t] = "mark"], reg' = [reg EXCEPT ![t].position = p],
         Take(t, p)
  PROVE  BuffersInv'
<1>1. /\ t \in All
      /\ env.shared \in SUBSET (Taker \X Taker) /\ env.late \in SUBSET (Taker \X Taker)
      /\ pc \in [All -> {"test", "mark", "use", "fence", "free", "done", "join", "exit"}]
      /\ reg \in [All -> [position : Position]]
      /\ Taker \subseteq All
  BY TakersAreNotMain DEF BuffersInv, BuffersTypes
<1>2. /\ mem' = mem /\ buf' = buf
      /\ MemOK(All, Position, {0, 1})'
  BY SilentEntries DEF BuffersInv, BuffersTypes, Silent
<1>3. reg' = reg
  BY <1>1
<1>4. pc'[t] = "mark" /\ \A u \in All : u # t => pc'[u] = pc[u]
  BY <1>1
<1>5. /\ env'.shared = env.shared \cup ({t} \X Holders(p))
      /\ env'.late = env.late \cup ({t} \X {u \in Holders(p) : MarkVisible(u)})
      /\ env' \in [shared : SUBSET (Taker \X Taker), late : SUBSET (Taker \X Taker)]
  <2>1. Holders(p) \subseteq Taker
    BY DEF Holders
  <2> QED BY <1>1, <2>1 DEF Take
<1>6. BuffersTypes'
  BY <1>1, <1>2, <1>3, <1>5 DEF BuffersInv, BuffersTypes, Weak, rigid
<1>7. \A i \in 1..Len(buf[t]) : FALSE
  BY <1>1 DEF BuffersInv, BuffersOrder
<1>8. BuffersOrder'
  BY <1>1, <1>2, <1>3, <1>4, <1>7 DEF BuffersInv, BuffersOrder
<1>9. \A u \in Taker : u # t => /\ (BuffersHas(u)' <=> BuffersHas(u))
                                /\ (MarkVisible(u)' <=> MarkVisible(u))
                                /\ (GaveBack(u)' <=> GaveBack(u))
  BY <1>1, <1>2, <1>4 DEF BuffersHas, MarkVisible, GaveBack, Drained, SC!Drained
<1>10. ~ GaveBack(t) /\ ~ MarkVisible(t)'
  BY <1>4 DEF GaveBack, MarkVisible
<1>11. \A u \in Taker : Sharers(u) \subseteq Sharers(u)' /\ Sharers(u) \subseteq Taker
  BY <1>5 DEF Sharers
<1>12. \A u \in Taker : BuffersHas(u) /\ reg[u].position = p =>
                          u \in Sharers(t)' /\ t \in Sharers(u)'
  <2> SUFFICES ASSUME NEW u \in Taker, BuffersHas(u), reg[u].position = p
               PROVE  <<t, u>> \in env'.shared
    BY DEF Sharers
  <2> QED BY <1>5, BuffersHolders
<1>13. BuffersShare'
  <2> SUFFICES ASSUME NEW u \in Taker, NEW v \in Taker, u # v, BuffersHas(u)', BuffersHas(v)',
                      reg[u].position = reg[v].position
               PROVE  v \in Sharers(u)'
    BY <1>3 DEF BuffersShare
  <2>1. CASE u = t
    BY <1>9, <1>12, <2>1
  <2>2. CASE v = t
    BY <1>9, <1>12, <2>2
  <2>3. CASE u # t /\ v # t
    BY <1>9, <1>11, <2>3 DEF BuffersInv, BuffersShare
  <2> QED BY <2>1, <2>2, <2>3
<1>14. BuffersLost'
  <2> SUFFICES ASSUME NEW u \in Taker, BuffersHas(u)', MarkVisible(u)', mem[reg[u].position] = 0
               PROVE  \E w \in Sharers(u)' : GaveBack(w)'
    BY <1>2, <1>3 DEF BuffersLost
  <2>1. u # t
    BY <1>10
  <2>2. PICK w \in Sharers(u) : GaveBack(w)
    BY <1>9, <2>1 DEF BuffersInv, BuffersLost
  <2> QED BY <1>9, <1>10, <1>11, <2>2
<1>15. BuffersLate'
  <2> SUFFICES ASSUME NEW u \in Taker, NEW v \in Taker, <<u, v>> \in env'.late
               PROVE  \E w \in Sharers(v)' \ {u} : GaveBack(w)'
    BY DEF BuffersLate
  <2>1. CASE <<u, v>> \in env.late
    <3>1. PICK w \in Sharers(v) \ {u} : GaveBack(w)
      BY <2>1 DEF BuffersInv, BuffersLate
    <3> QED BY <1>9, <1>10, <1>11, <3>1
  <2>2. CASE u = t /\ v \in Holders(p) /\ MarkVisible(v)
    <3>1. BuffersHas(v) /\ reg[v].position = p
      BY <2>2, BuffersHolders
    <3>2. mem[p] = 0
      <4>1. \A e \in Entries(t) : e.loc # p
        <5>1. Entries(t) = {}
          BY <1>1, <1>7, BuffersSeq DEF Entries, BuffersInv
        <5> QED BY <5>1
      <4>2. MemOK(All, Position, {0, 1})
        BY DEF BuffersInv, BuffersTypes
      <4> QED BY <1>1, <4>1, <4>2, LoadEntries
    <3>3. PICK w \in Sharers(v) : GaveBack(w)
      BY <2>2, <3>1, <3>2 DEF BuffersInv, BuffersLost
    <3> QED BY <1>9, <1>10, <1>11, <2>2, <3>3
  <2> QED BY <1>5, <2>1, <2>2
<1> QED BY <1>6, <1>8, <1>13, <1>14, <1>15 DEF BuffersInv

(* A step that neither stores nor takes.  The thread keeps what it has, or *)
(* has nothing before and after.                                           *)
LEMMA BuffersQuiet ==
  ASSUME BuffersInv, NEW t \in All, UNCHANGED <<rigid, env>>, Silent,
         reg' \in [All -> [position : Position]],
         \A u \in All : u # t => reg'[u] = reg[u],
         NEW to \in {"test", "fence", "free", "done", "exit"}, pc' = [pc EXCEPT ![t] = to],
         \/ pc[t] = "test" /\ to \in {"test", "done"}
         \/ pc[t] \in {"use", "fence"} /\ to \in {"fence", "free"} /\ reg' = reg
         \/ t = Main /\ reg' = reg
  PROVE  BuffersInv'
<1>1. /\ mem' = mem /\ buf' = buf
      /\ MemOK(All, Position, {0, 1})'
  BY SilentEntries DEF BuffersInv, BuffersTypes, Silent
<1>2. /\ pc \in [All -> {"test", "mark", "use", "fence", "free", "done", "join", "exit"}]
      /\ Taker \subseteq All /\ Main \notin Taker
  BY TakersAreNotMain DEF BuffersInv, BuffersTypes
<1>3. pc'[t] = to /\ \A u \in All : u # t => pc'[u] = pc[u]
  BY <1>2
<1>4. BuffersTypes'
  BY <1>1, <1>2 DEF BuffersInv, BuffersTypes, Weak, rigid
<1>5. pc[t] = "test" \/ t = Main => buf[t] = << >>
  <2>1. pc[t] = "test" \/ t = Main => \A i \in 1..Len(buf[t]) : FALSE
    BY <1>2 DEF BuffersInv, BuffersOrder
  <2> QED BY <2>1, BuffersSeq DEF BuffersInv
<1>6. BuffersOrder'
  <2> SUFFICES ASSUME NEW u \in All, NEW i \in 1..Len(buf[u])
               PROVE  /\ u \in Taker /\ pc'[u] \in {"use", "fence", "free", "done"}
                      /\ buf[u][i].loc = reg'[u].position
                      /\ buf[u][i].val = IF pc'[u] = "done" /\ i = Len(buf[u]) THEN 0 ELSE 1
    BY <1>1 DEF BuffersOrder
  <2>1. /\ u \in Taker /\ pc[u] \in {"use", "fence", "free", "done"}
        /\ buf[u][i].loc = reg[u].position
        /\ buf[u][i].val = IF pc[u] = "done" /\ i = Len(buf[u]) THEN 0 ELSE 1
    BY DEF BuffersInv, BuffersOrder
  <2>2. CASE u # t
    BY <1>3, <2>1, <2>2
  <2>3. CASE u = t
    <3>1. pc[t] \in {"use", "fence"} /\ to \in {"fence", "free"} /\ reg' = reg
      BY <1>2, <2>1, <2>3
    <3> QED BY <1>3, <2>1, <2>3, <3>1
  <2> QED BY <2>2, <2>3
<1>7. \A u \in Taker : BuffersHas(u)' => /\ BuffersHas(u) /\ reg'[u] = reg[u]
                                         /\ MarkVisible(u)' => MarkVisible(u)
  <2> SUFFICES ASSUME NEW u \in Taker, BuffersHas(u)'
               PROVE  /\ BuffersHas(u) /\ reg'[u] = reg[u]
                      /\ MarkVisible(u)' => MarkVisible(u)
    OBVIOUS
  <2>1. CASE u # t
    BY <1>1, <1>2, <1>3, <2>1 DEF BuffersHas, MarkVisible
  <2>2. CASE u = t
    <3>1. ~ (pc[t] = "test" /\ to \in {"test", "done"})
      BY <1>1, <1>3, <1>5, <2>2 DEF BuffersHas
    <3>2. pc[t] \in {"use", "fence"} /\ to \in {"fence", "free"} /\ reg' = reg
      BY <1>2, <2>2, <3>1
    <3> QED BY <1>1, <2>2, <3>2 DEF BuffersHas, MarkVisible
  <2> QED BY <2>1, <2>2
<1>8. \A u \in Taker : GaveBack(u) => GaveBack(u)'
  BY <1>1, <1>2, <1>3 DEF GaveBack, Drained, SC!Drained
<1>9. BuffersLate' /\ \A u \in Taker : Sharers(u)' = Sharers(u)
  BY <1>8, BuffersLateKept DEF BuffersInv
<1>10. BuffersShare'
  BY <1>7, <1>9 DEF BuffersInv, BuffersShare
<1>11. BuffersLost'
  <2> SUFFICES ASSUME NEW u \in Taker, BuffersHas(u)', MarkVisible(u)', mem'[reg'[u].position] = 0
               PROVE  \E w \in Sharers(u)' : GaveBack(w)'
    BY DEF BuffersLost
  <2>1. PICK w \in Sharers(u) : GaveBack(w)
    BY <1>1, <1>7 DEF BuffersInv, BuffersLost
  <2> QED BY <1>8, <1>9, <2>1 DEF Sharers
<1> QED BY <1>4, <1>6, <1>9, <1>10, <1>11 DEF BuffersInv

(* The first buffer found unused is taken.                                 *)
LEMMA BuffersTestStep ==
  ASSUME BuffersInv, NEW t \in Taker, UNCHANGED rigid, BuffersTest(t)
  PROVE  BuffersInv'
<1> DEFINE p    == reg[t].position
           free == Load(t, p) = 0
           to   == IF free THEN "mark" ELSE IF p + 1 = NumBuffers THEN "done" ELSE "test"
           q    == IF free \/ p + 1 = NumBuffers THEN p ELSE p + 1
<1>1. /\ p \in Position /\ t \in All
      /\ reg \in [All -> [position : Position]]
  BY TakersAreNotMain DEF BuffersInv, BuffersTypes
<1>2. /\ pc[t] = "test" /\ pc' = [pc EXCEPT ![t] = to]
      /\ reg' = [reg EXCEPT ![t].position = q]
      /\ Silent
      /\ IF free THEN Take(t, p) ELSE UNCHANGED env
  BY DEF BuffersTest, Local, Go
<1>3. q \in Position
  BY <1>1, BuffersFacts DEF Position
<1>4. CASE free
  <2>1. pc' = [pc EXCEPT ![t] = "mark"] /\ reg' = [reg EXCEPT ![t].position = p] /\ Take(t, p)
    BY <1>2, <1>4
  <2> HIDE DEF to, q
  <2> QED BY <1>1, <1>2, <1>4, <2>1, BuffersTakeStep
<1>5. CASE ~ free
  <2>1. to \in {"test", "done"} /\ env' = env
    BY <1>2, <1>5
  <2> HIDE DEF to, q, p, free
  <2>2. /\ reg' \in [All -> [position : Position]]
        /\ \A u \in All : u # t => reg'[u] = reg[u]
    BY <1>1, <1>2, <1>3
  <2>3. to \in {"test", "fence", "free", "done", "exit"}
    BY <2>1
  <2> QED BY <1>1, <1>2, <2>1, <2>2, <2>3, BuffersQuiet
<1> QED BY <1>4, <1>5

(* The mark, and the release: a store to the buffer that the thread has.   *)
LEMMA BuffersStore ==
  ASSUME BuffersInv, NEW t \in Taker, UNCHANGED <<rigid, reg, env>>,
         NEW v \in {0, 1}, NEW to \in {"use", "done"},
         Put(t, reg[t].position, v, FALSE), pc' = [pc EXCEPT ![t] = to],
         \/ pc[t] = "mark" /\ to = "use" /\ v = 1
         \/ pc[t] = "free" /\ to = "done" /\ v = 0
  PROVE  BuffersInv'
<1> DEFINE p == reg[t].position
           n == Len(buf[t])
<1>1. /\ p \in Position /\ t \in All /\ FALSE \in BOOLEAN
      /\ pc \in [All -> {"test", "mark", "use", "fence", "free", "done", "join", "exit"}]
      /\ MemOK(All, Position, {0, 1}) /\ Weak
      /\ Taker \subseteq All
  BY TakersAreNotMain DEF BuffersInv, BuffersTypes
<1>2. Put(t, p, v, FALSE) /\ reg' = reg /\ env' = env
  OBVIOUS
<1> HIDE DEF p
<1>3. MemOK(All, Position, {0, 1})' /\ mem' = mem
  <2>1. Adds(All, Position, {0, 1}, t, p, v)
    BY <1>1, <1>2, PutAdds, Zenon
  <2> QED BY <2>1 DEF Adds
<1>4. /\ \A u \in All : u # t => buf'[u] = buf[u]
      /\ Len(buf'[t]) = n + 1
      /\ \A j \in 1..n : buf'[t][j] = buf[t][j]
      /\ buf'[t][n + 1].loc = p /\ buf'[t][n + 1].val = v
  <2>1. /\ MemOK(All, Position, {0, 1}) /\ Weak /\ t \in All /\ p \in Position
        /\ v \in {0, 1} /\ FALSE \in BOOLEAN /\ Put(t, p, v, FALSE)
    BY <1>1, <1>2
  <2>2. Appends(All, t, p, v, FALSE)
    BY <2>1, PutPosition, Zenon
  <2> QED BY <2>2 DEF Appends
<1>5. pc'[t] = to /\ \A u \in All : u # t => pc'[u] = pc[u]
  BY <1>1
<1>6. BuffersTypes'
  BY <1>1, <1>2, <1>3 DEF BuffersInv, BuffersTypes, Weak, rigid
<1>7. n \in Nat /\ DOMAIN buf[t] = 1..n /\ (buf[t] = << >> <=> n = 0)
  BY <1>1, BuffersSeq DEF BuffersInv
<1>8. /\ pc[t] = "mark" => n = 0
      /\ \A i \in 1..n : buf[t][i].val = 1 /\ buf[t][i].loc = p
  <2>1. \A i \in 1..n : /\ pc[t] \in {"use", "fence", "free", "done"}
                        /\ buf[t][i].loc = p
                        /\ buf[t][i].val = IF pc[t] = "done" /\ i = n THEN 0 ELSE 1
    BY <1>1 DEF BuffersInv, BuffersOrder, p
  <2>2. pc[t] = "mark" => n = 0
    BY <1>7, <2>1
  <2> QED BY <2>1, <2>2
<1>9. \A i \in 1..(n + 1) : i \in 1..n \/ i = n + 1
  BY <1>7
<1>10. BuffersOrder'
  <2> SUFFICES ASSUME NEW u \in All, NEW i \in 1..Len(buf'[u])
               PROVE  /\ u \in Taker /\ pc'[u] \in {"use", "fence", "free", "done"}
                      /\ buf'[u][i].loc = reg[u].position
                      /\ buf'[u][i].val = IF pc'[u] = "done" /\ i = Len(buf'[u]) THEN 0 ELSE 1
    BY <1>2 DEF BuffersOrder
  <2>1. CASE u # t
    BY <1>4, <1>5, <2>1 DEF BuffersInv, BuffersOrder
  <2>2. CASE u = t
    <3>1. i \in 1..(n + 1) /\ pc'[t] = to
      BY <1>4, <1>5, <2>2
    <3>2. CASE i = n + 1
      <4>1. to = "done" => v = 0
        OBVIOUS
      <4>2. to # "done" => v = 1
        OBVIOUS
      <4> HIDE DEF n
      <4> QED BY <1>4, <1>5, <2>2, <3>2, <4>1, <4>2 DEF p
    <3>3. CASE i \in 1..n
      <4>1. i # n + 1
        BY <1>7, <3>3
      <4>2. buf'[t][i] = buf[t][i] /\ buf[t][i].val = 1 /\ buf[t][i].loc = p
        BY <1>4, <1>8, <3>3
      <4> HIDE DEF n
      <4> QED BY <1>4, <1>5, <2>2, <4>1, <4>2 DEF p
    <3> QED BY <1>9, <3>1, <3>2, <3>3
  <2> QED BY <2>1, <2>2
<1>11. BuffersTypes' /\ BuffersHas(t)
  BY <1>6 DEF BuffersHas
<1>12. \A u \in Taker : BuffersHas(u)' => BuffersHas(u)
  BY <1>1, <1>4, <1>5, <1>11 DEF BuffersHas
<1>13. \A u \in Taker : MarkVisible(u)' => MarkVisible(u)
  <2> SUFFICES ASSUME NEW u \in Taker, MarkVisible(u)' PROVE MarkVisible(u)
    OBVIOUS
  <2>1. CASE u # t
    BY <1>1, <1>4, <1>5, <2>1 DEF MarkVisible
  <2>2. CASE u = t
    <3>1. DOMAIN buf'[t] = 1..(n + 1)
      <4>1. DOMAIN buf'[t] = 1..Len(buf'[t])
        BY <1>1, <1>3 DEF MemOK
      <4> QED BY <1>4, <4>1
    <3>2. n + 1 \in 1..(n + 1) /\ \A i \in 1..n : i \in 1..(n + 1)
      BY <1>7
    <3>3. \A i \in 1..(n + 1) : buf'[t][i].val = 0
      BY <2>2, <3>1 DEF MarkVisible
    <3>4. v = 0 /\ pc[t] = "free"
      BY <1>4, <3>2, <3>3
    <3>5. \A i \in 1..n : buf[t][i].val = 0
      BY <1>4, <3>2, <3>3
    <3> QED BY <1>7, <2>2, <3>4, <3>5 DEF MarkVisible
  <2> QED BY <2>1, <2>2
<1>14. \A u \in Taker : GaveBack(u) => GaveBack(u)'
  BY <1>1, <1>4, <1>5 DEF GaveBack, Drained, SC!Drained
<1>15. BuffersLate' /\ \A u \in Taker : Sharers(u)' = Sharers(u)
  BY <1>2, <1>14, BuffersLateKept DEF BuffersInv
<1>16. BuffersShare'
  BY <1>2, <1>12, <1>15 DEF BuffersInv, BuffersShare
<1>17. BuffersLost'
  <2> SUFFICES ASSUME NEW u \in Taker, BuffersHas(u)', MarkVisible(u)', mem[reg[u].position] = 0
               PROVE  \E w \in Sharers(u)' : GaveBack(w)'
    BY <1>2, <1>3 DEF BuffersLost
  <2>1. PICK w \in Sharers(u) : GaveBack(w)
    BY <1>12, <1>13 DEF BuffersInv, BuffersLost
  <2> QED BY <1>14, <1>15, <2>1 DEF Sharers
<1> QED BY <1>6, <1>10, <1>15, <1>16, <1>17 DEF BuffersInv

(* Every statement of a thread that has a buffer.                          *)
LEMMA BuffersTakerStep ==
  ASSUME BuffersInv, NEW t \in Taker, UNCHANGED rigid,
         BuffersMark(t) \/ BuffersUse(t) \/ BuffersRelease(t)
  PROVE  BuffersInv'
<1>1. CASE BuffersMark(t)
  BY <1>1, BuffersStore DEF BuffersMark, Write, Go, Keep
<1>2. ASSUME NEW from \in {"use", "fence"}, NEW to \in {"fence", "free"},
             Go(t, from, to), Silent, Keep
      PROVE  BuffersInv'
  <2>1. /\ pc[t] \in {"use", "fence"} /\ pc' = [pc EXCEPT ![t] = to]
        /\ reg' = reg /\ env' = env
    BY <1>2 DEF Go, Keep
  <2>2. t \in All /\ reg' \in [All -> [position : Position]]
    BY <2>1, TakersAreNotMain DEF BuffersInv, BuffersTypes
  <2>3. to \in {"test", "fence", "free", "done", "exit"}
    OBVIOUS
  <2> QED BY <1>2, <2>1, <2>2, <2>3, BuffersQuiet
<1>3. CASE BuffersUse(t)
  BY <1>2, <1>3 DEF BuffersUse, Local
<1>4. CASE ReleaseFence(t, "fence", "free") /\ Keep
  BY <1>2, <1>4 DEF ReleaseFence, Await
<1>5. CASE Write(t, "free", reg[t].position, 0, "done") /\ Keep
  BY <1>5, BuffersStore DEF Write, Go, Keep
<1> QED BY <1>1, <1>3, <1>4, <1>5 DEF BuffersRelease

(* main's join preserves the invariant.                                    *)
LEMMA BuffersJoinStep ==
  ASSUME BuffersInv, JoinTakers, UNCHANGED rigid
  PROVE  BuffersInv'
<1>1. /\ pc' = [pc EXCEPT ![Main] = "exit"]
      /\ Silent /\ reg' = reg /\ env' = env
  BY DEF JoinTakers, Await, Go, Keep
<1>2. Main \in All /\ reg' \in [All -> [position : Position]]
  BY <1>1, TakersAreNotMain DEF BuffersInv, BuffersTypes
<1> QED BY <1>1, <1>2, BuffersQuiet

(* A mark or a release becomes visible, the mark first.  The release of    *)
(* one is the loss of those who share the buffer with him.                 *)
LEMMA BuffersFlushStep ==
  ASSUME BuffersInv, NEW t \in All, NEW x \in DOMAIN mem, Commit(t, x),
         UNCHANGED <<rigid, pc, reg, env>>
  PROVE  BuffersInv'
<1> DEFINE n == Len(buf[t])
<1>1. /\ mem \in [Position -> {0, 1}] /\ x \in Position
      /\ MemOK(All, Position, {0, 1}) /\ Weak /\ Taker \subseteq All
  BY TakersAreNotMain DEF BuffersInv, BuffersTypes, MemOK
<1>2. MemOK(All, Position, {0, 1})'
  BY <1>1, CommitEntries
<1>3. \A u \in All : u # t => buf'[u] = buf[u]
  BY <1>1, CommitPosition DEF Commits
<1>4. PICK k \in 1..n :
        /\ buf[t][k].loc = x
        /\ \A j \in 1..(k - 1) : buf[t][j].loc # x
        /\ mem' = [mem EXCEPT ![x] = buf[t][k].val]
        /\ Len(buf'[t]) = n - 1
        /\ \A j \in 1..(n - 1) : buf'[t][j] = IF j < k THEN buf[t][j] ELSE buf[t][j + 1]
  <2>1. Commits(All, t, x)
    BY <1>1, CommitPosition, Zenon
  <2> QED BY <2>1, Zenon DEF Commits
<1>5. n \in Nat /\ DOMAIN buf[t] = 1..n /\ (buf[t] = << >> <=> n = 0)
  BY BuffersSeq DEF BuffersInv
<1>6. BuffersTypes'
  BY <1>2 DEF BuffersInv, BuffersTypes, Weak, rigid
<1>7. /\ Len(buf'[t]) = n - 1 /\ DOMAIN buf'[t] = 1..(n - 1)
      /\ buf'[t] = << >> <=> n - 1 = 0
  <2>1. buf'[t] \in Seq(Entry(Position, {0, 1})) /\ Len(buf'[t]) = n - 1
    BY <1>2, <1>4 DEF MemOK
  <2>2. /\ DOMAIN buf'[t] = 1..Len(buf'[t])
        /\ buf'[t] = << >> <=> Len(buf'[t]) = 0
    BY <2>1, EmptySeq
  <2> HIDE DEF n
  <2> QED BY <2>1, <2>2
<1>8. \A i \in 1..n : /\ t \in Taker /\ pc[t] \in {"use", "fence", "free", "done"}
                      /\ buf[t][i].loc = reg[t].position
                      /\ buf[t][i].val = IF pc[t] = "done" /\ i = n THEN 0 ELSE 1
  BY DEF BuffersInv, BuffersOrder
<1> HIDE DEF n
<1>9. x = reg[t].position /\ k = 1 /\ t \in Taker
  <2>1. x = reg[t].position /\ t \in Taker
    BY <1>4, <1>8
  <2>2. ASSUME k # 1 PROVE FALSE
    <3>1. 1 \in 1..(k - 1) /\ 1 \in 1..n
      BY <1>4, <1>5, <2>2
    <3> QED BY <1>4, <1>8, <2>1, <3>1
  <2> QED BY <2>1, <2>2
<1>10. \A j \in 1..(n - 1) : j + 1 \in 1..n /\ buf'[t][j] = buf[t][j + 1] /\ (j + 1 = n <=> j = n - 1)
  <2> SUFFICES ASSUME NEW j \in 1..(n - 1)
               PROVE  j + 1 \in 1..n /\ buf'[t][j] = buf[t][j + 1] /\ (j + 1 = n <=> j = n - 1)
    OBVIOUS
  <2>1. j + 1 \in 1..n /\ ~ (j < k) /\ (j + 1 = n <=> j = n - 1)
    BY <1>5, <1>9
  <2> QED BY <1>4, <2>1
<1>11. BuffersOrder'
  <2> SUFFICES ASSUME NEW u \in All, NEW i \in 1..Len(buf'[u])
               PROVE  /\ u \in Taker /\ pc[u] \in {"use", "fence", "free", "done"}
                      /\ buf'[u][i].loc = reg[u].position
                      /\ buf'[u][i].val = IF pc[u] = "done" /\ i = Len(buf'[u]) THEN 0 ELSE 1
    BY DEF BuffersOrder
  <2>1. CASE u # t
    BY <1>3, <2>1 DEF BuffersInv, BuffersOrder
  <2>2. CASE u = t
    <3>1. i \in 1..(n - 1) /\ Len(buf'[t]) = n - 1
      BY <1>7, <2>2
    <3>2. i + 1 \in 1..n /\ buf'[t][i] = buf[t][i + 1] /\ (i + 1 = n <=> i = n - 1)
      BY <1>10, <3>1
    <3> QED BY <1>8, <2>2, <3>1, <3>2
  <2> QED BY <2>1, <2>2
<1>12. \A u \in Taker : BuffersHas(u)' => BuffersHas(u)
  <2>1. buf[t] # << >>
    BY <1>4, <1>5
  <2> QED BY <1>1, <1>3, <2>1 DEF BuffersHas
<1>13. \A u \in Taker : GaveBack(u) => GaveBack(u)'
  <2>1. ~ GaveBack(t)
    BY <1>4, <1>5 DEF GaveBack, Drained, SC!Drained
  <2> QED BY <1>1, <1>3, <2>1 DEF GaveBack, Drained, SC!Drained
<1>14. BuffersLate' /\ \A u \in Taker : Sharers(u)' = Sharers(u)
  BY <1>13, BuffersLateKept DEF BuffersInv
<1>15. BuffersShare'
  BY <1>12, <1>14 DEF BuffersInv, BuffersShare
<1>16. ASSUME buf[t][k].val = 0 PROVE GaveBack(t)' /\ buf'[t] = << >>
  <2>1. pc[t] = "done" /\ k = n
    BY <1>4, <1>8, <1>16
  <2>2. buf'[t] = << >>
    BY <1>5, <1>7, <1>9, <2>1
  <2> QED BY <2>1, <2>2 DEF GaveBack, Drained, SC!Drained
<1>17. BuffersLost'
  <2> SUFFICES ASSUME NEW u \in Taker, BuffersHas(u)', MarkVisible(u)', mem'[reg[u].position] = 0
               PROVE  \E w \in Sharers(u)' : GaveBack(w)'
    BY DEF BuffersLost
  <2>1. reg[u].position \in Position
    BY <1>1 DEF BuffersInv, BuffersTypes
  <2>2. CASE reg[u].position # x
    <3>1. u # t /\ mem[reg[u].position] = 0
      BY <1>1, <1>4, <1>9, <2>1, <2>2
    <3>2. MarkVisible(u)
      BY <1>1, <1>3, <3>1 DEF MarkVisible
    <3>3. PICK w \in Sharers(u) : GaveBack(w)
      BY <1>12, <3>1, <3>2 DEF BuffersInv, BuffersLost
    <3> QED BY <1>13, <1>14, <3>3 DEF Sharers
  <2>3. CASE reg[u].position = x
    <3>1. buf[t][k].val = 0
      BY <1>1, <1>4, <2>3
    <3>2. u # t
      <4>1. pc[t] = "done"
        BY <1>8, <3>1
      <4> QED BY <1>16, <3>1, <4>1 DEF BuffersHas
    <3>3. BuffersHas(t)
      BY <1>4, <1>5 DEF BuffersHas
    <3>4. t \in Sharers(u)
      BY <1>9, <1>12, <2>3, <3>2, <3>3 DEF BuffersInv, BuffersShare
    <3> QED BY <1>14, <1>16, <3>1, <3>4
  <2> QED BY <2>2, <2>3
<1> QED BY <1>6, <1>11, <1>14, <1>15, <1>17 DEF BuffersInv

(* A stuttering step preserves the invariant.                              *)
LEMMA BuffersStutter == ASSUME BuffersInv, UNCHANGED vars PROVE BuffersInv'
<1>1. /\ mem' = mem /\ buf' = buf /\ model' = model
      /\ pc' = pc /\ reg' = reg /\ env' = env
  BY DEF vars
<1>2. BuffersTypes' /\ BuffersOrder'
  BY <1>1 DEF BuffersInv, BuffersTypes, BuffersOrder, Weak, MemOK
<1>3. \A u \in Taker : /\ BuffersHas(u)' <=> BuffersHas(u)
                       /\ MarkVisible(u)' <=> MarkVisible(u)
                       /\ GaveBack(u)' <=> GaveBack(u)
  BY <1>1 DEF BuffersHas, MarkVisible, GaveBack, Drained, SC!Drained
<1>4. BuffersLate' /\ \A u \in Taker : Sharers(u)' = Sharers(u)
  BY <1>1, <1>3, BuffersLateKept DEF BuffersInv
<1>5. BuffersShare'
  BY <1>1, <1>3, <1>4 DEF BuffersInv, BuffersShare
<1>6. BuffersLost'
  <2> SUFFICES ASSUME NEW u \in Taker, BuffersHas(u), MarkVisible(u), mem[reg[u].position] = 0
               PROVE  \E w \in Sharers(u)' : GaveBack(w)'
    BY <1>1, <1>3 DEF BuffersLost
  <2>1. PICK w \in Sharers(u) : GaveBack(w)
    BY DEF BuffersInv, BuffersLost
  <2> QED BY <1>3, <1>4, <2>1 DEF Sharers
<1> QED BY <1>2, <1>4, <1>5, <1>6 DEF BuffersInv

(* A thread that reads its buffer as unused has its mark in memory, or it  *)
(* would read it from its own buffer.                                      *)
LEMMA BuffersRead == BuffersInv /\ program = "buffers" => BufferLostToSharers
<1> SUFFICES ASSUME BuffersInv, NEW t \in Taker, pc[t] \in {"use", "fence", "free"},
                    Load(t, reg[t].position) = 0
             PROVE  \E u \in Sharers(t) : GaveBack(u)
  BY DEF BufferLostToSharers, BuffersInv, BuffersLate
<1> DEFINE p == reg[t].position
<1>1. p \in Position /\ t \in All /\ MemOK(All, Position, {0, 1})
  BY TakersAreNotMain DEF BuffersInv, BuffersTypes
<1>2. /\ Len(buf[t]) \in Nat /\ DOMAIN buf[t] = 1..Len(buf[t])
      /\ \A i \in 1..Len(buf[t]) : buf[t][i].loc = p /\ buf[t][i].val = 1
  BY <1>1, BuffersSeq DEF BuffersInv, BuffersOrder
<1> HIDE DEF p
<1>3. \A e \in Entries(t) : e.loc = p /\ e.val = 1
  BY <1>2 DEF Entries
<1>4. Entries(t) = {}
  <2> SUFFICES ASSUME Entries(t) # {} PROVE FALSE
    OBVIOUS
  <2>1. \E e \in Entries(t) : e.loc = p
    BY <1>3
  <2>2. \E e \in Entries(t) : e.loc = p /\ e.val = Load(t, p)
    BY <1>1, <2>1, LoadOwnEntry
  <2> QED BY <1>3, <2>2 DEF p
<1>5. mem[p] = 0
  BY <1>1, <1>4, LoadEntries DEF p
<1>6. BuffersHas(t) /\ MarkVisible(t)
  BY <1>4 DEF BuffersHas, MarkVisible, Entries
<1> QED BY <1>5, <1>6 DEF BuffersInv, BuffersLost, p

-----------------------------------------------------------------------------
(* The three programs together.                                            *)

SharedInv ==
  /\ program = "event"   => EventInv
  /\ program = "xen"     => XenInv
  /\ program = "buffers" => BuffersInv

(* Whatever program runs, its invariant holds when the threads start.      *)
LEMMA SharedInit == Init => SharedInv
<1> SUFFICES ASSUME Init PROVE SharedInv
  OBVIOUS
<1>1. /\ program = "event"   => EventInit
      /\ program = "xen"     => XenInit
      /\ program = "buffers" => BuffersInit
  BY Zenon DEF Init, QueueLockInit, SharedLockInit, PublicationInit, WakeUpInit, ArenaInit,
     ClhInit, QspinInit, LinkInit, RwInit, EventInit, XenInit, BuffersInit,
     MpInit, SbInit, PackageInit, RingInit, SeqInit, ModeInit, PointsInit,
     MpPrograms, SbPrograms, OmpiInit, JdkInit, RelaxInit, LifoInit, Boot
<1> QED BY <1>1, EventInitInv, XenInitInv, BuffersInitInv DEF SharedInv

(* Which statements a step may be of.                                      *)
LEMMA SharedStep ==
  ASSUME NEW t, Step(t)
  PROVE  /\ t \in DOMAIN pc /\ UNCHANGED rigid
         /\ program = "event"   => EventStep(t)
         /\ program = "xen"     => XenStep(t)
         /\ program = "buffers" => BuffersStep(t)
  BY Zenon DEF Step, QueueLockStep, SharedLockStep, PublicationStep,
     MpPrograms, SbPrograms, WakeUpStep

(* Every step of Native preserves the invariant of the program that runs.  *)
LEMMA SharedNext == SharedInv /\ [Next]_vars => SharedInv'
<1> SUFFICES ASSUME SharedInv, [Next]_vars PROVE SharedInv'
  OBVIOUS
<1>1. program' = program
  BY DEF Next, Step, FlushStep, rigid, vars
<1>2. ASSUME program = "event" PROVE EventInv'
  <2>1. EventInv
    BY <1>2 DEF SharedInv
  <2>2. DOMAIN pc = All /\ DOMAIN mem = EventLoc
    BY <2>1 DEF EventInv, EventTypes, MemOK
  <2>3. ASSUME NEW t \in Thread, Step(t) PROVE EventInv'
    <3>1. t \in All /\ UNCHANGED rigid /\ EventStep(t)
      BY <1>2, <2>2, <2>3, SharedStep
    <3>2. CASE t = Main
      BY <2>1, <3>1, <3>2, EventJoinStep DEF EventStep
    <3>3. CASE t # Main
      <4>1. t \in Taker
        BY <3>1, <3>3 DEF All
      <4> QED BY <2>1, <3>1, <3>3, <4>1, EventEnterStep, EventStateStep, EventUnlockStep, Zenon
              DEF EventStep
    <3> QED BY <3>2, <3>3
  <2>4. ASSUME NEW t \in Thread, FlushStep(t) PROVE EventInv'
    BY <2>1, <2>2, <2>4, EventFlushStep, Zenon DEF FlushStep, Flush
  <2>5. CASE UNCHANGED vars
    BY <2>1, <2>5, EventStutter
  <2> QED BY <2>3, <2>4, <2>5 DEF Next
<1>3. ASSUME program = "xen" PROVE XenInv'
  <2>1. XenInv
    BY <1>3 DEF SharedInv
  <2>2. DOMAIN pc = XenThread
    BY <2>1 DEF XenInv, XenTypes
  <2>3. ASSUME NEW t \in Thread, Step(t) PROVE XenInv'
    <3>1. t \in XenThread /\ UNCHANGED rigid /\ XenStep(t)
      BY <1>3, <2>2, <2>3, SharedStep
    <3>2. \/ XenMain
          \/ XenUnlock
          \/ (t \in Taker /\ (XenExpect(t) \/ XenExchange(t)))
      <4>1. CASE t # Unlocker /\ t # Main
        <5>1. t \in Taker
          BY <3>1, <4>1 DEF XenThread, All
        <5> QED BY <3>1, <4>1, <5>1 DEF XenStep
      <4>2. CASE t = Main
        BY <3>1, <4>2 DEF XenStep
      <4>3. CASE t = Unlocker /\ t # Main
        BY <3>1, <4>3 DEF XenStep
      <4> QED BY <4>1, <4>2, <4>3
    <3> QED BY <2>1, <3>1, <3>2, XenJoinStep, XenUnlockStep, XenExpectStep, XenTakeStep
  <2>4. ASSUME NEW t \in Thread, FlushStep(t) PROVE XenInv'
    BY <2>1, <2>2, <2>4, XenFlushStep, Zenon DEF FlushStep, Flush, rigid
  <2>5. CASE UNCHANGED vars
    BY <2>1, <2>5, XenStutter
  <2> QED BY <2>3, <2>4, <2>5 DEF Next
<1>4. ASSUME program = "buffers" PROVE BuffersInv'
  <2>1. BuffersInv
    BY <1>4 DEF SharedInv
  <2>2. DOMAIN pc = All
    BY <2>1 DEF BuffersInv, BuffersTypes
  <2>3. ASSUME NEW t \in Thread, Step(t) PROVE BuffersInv'
    <3>1. t \in All /\ UNCHANGED rigid /\ BuffersStep(t)
      BY <1>4, <2>2, <2>3, SharedStep
    <3>2. CASE t = Main
      BY <2>1, <3>1, <3>2, BuffersJoinStep DEF BuffersStep
    <3>3. CASE t # Main
      <4>1. t \in Taker
        BY <3>1, <3>3 DEF All
      <4> QED BY <2>1, <3>1, <3>3, <4>1, BuffersTestStep, BuffersTakerStep, Zenon
              DEF BuffersStep
    <3> QED BY <3>2, <3>3
  <2>4. ASSUME NEW t \in Thread, FlushStep(t) PROVE BuffersInv'
    BY <2>1, <2>2, <2>4, BuffersFlushStep, Zenon DEF FlushStep, Flush, rigid
  <2>5. CASE UNCHANGED vars
    BY <2>1, <2>5, BuffersStutter
  <2> QED BY <2>3, <2>4, <2>5 DEF Next
<1> QED BY <1>1, <1>2, <1>3, <1>4 DEF SharedInv

(* 17-mysql.c, for any number of threads: the mutex word says how many     *)
(* successful enters have no clean exit yet, and when main has joined      *)
(* every failed enter has been made good by one needless signal.           *)
THEOREM Account == Spec => []EventKeepsAccount
<1>1. SharedInv => EventKeepsAccount
  BY EventAccount DEF SharedInv, EventKeepsAccount
<1> QED BY <1>1, SharedInit, SharedNext, PTL DEF Spec

(* 8-CVE-2020-11739-Xen.c, for any number of threads in write_lock: they   *)
(* take a free lock once before write_unlock's store is visible, and once  *)
(* more after.                                                             *)
THEOREM TakenOnce == Spec => []XenTakenOnce
<1>1. XenInv => XenTakenOnce
  <2> SUFFICES ASSUME XenInv
               PROVE  env.taken <= IF XenReleased THEN 2 ELSE 1
    BY DEF XenTakenOnce, XenReleased
  <2>1. env.taken \in Int
    BY DEF XenInv, XenTypes
  <2> QED BY <2>1 DEF XenInv
<1>2. SharedInv => XenTakenOnce
  BY <1>1 DEF SharedInv, XenTakenOnce
<1> QED BY <1>2, SharedInit, SharedNext, PTL DEF Spec

(* 7-OpenBLAS.c, for any number of threads and buffers, however late marks *)
(* and releases become visible: a buffer is lost between its mark and its  *)
(* release only after somebody who shared it gave it back, and so it is    *)
(* when it is given out although a mark of it was visible.                 *)
THEOREM LostToSharers == Spec => []BufferLostToSharers
<1>1. SharedInv => BufferLostToSharers
  BY BuffersRead DEF SharedInv, BufferLostToSharers
<1> QED BY <1>1, SharedInit, SharedNext, PTL DEF Spec

-----------------------------------------------------------------------------
(* 4-MySQL.c: the exclusive lock has one owner for ever, however many      *)
(* threads ask for it and however often, on TSO and on ARM.                *)
(*                                                                         *)
(* That recursive and writer_thread are read without the mutex is harmless *)
(* for one reason: no thread but t ever stores t into writer_thread, and t *)
(* does so only after its decrement of the lock word from above HALF has   *)
(* succeeded.  So a thread that reads its own name has the lock, however   *)
(* stale what it reads of recursive; and the first decrement succeeds once *)
(* because the mutex is left with an empty buffer.                         *)
(*                                                                         *)
(* The second part is about the word itself: what the owner reads there    *)
(* encodes how many grants it has made, those still to be counted          *)
(* included, and nobody else has a store to the word under way; so the     *)
(* recursive grants, which load and store the word outside the mutex, lose *)
(* nothing.                                                                *)

RwLoc == {"mutex", "lock_word", "writer_thread", "recursive", "last_x"}

RwPC == {"call", "d_lock", "d_test", "d_unlock", "s_lock", "s_thread", "s_rec",
         "s_unlock", "check", "again", "again_w", "last", "done", "join", "exit"}

RwReg == [left : Int, thr : {0, X_LOCK_HALF_DECR}, ok : BOOLEAN,
          rec : Int, who : Int, word : Int]

RwTypes ==
  /\ Weak
  /\ MemOK(All, RwLoc, Int)
  /\ pc \in [All -> RwPC]
  /\ reg \in [All -> RwReg]
  /\ env \in [grants : [Taker -> Int]]
  /\ Entries(Main) = {}

RwHolds(t) == pc[t] \in {"d_test", "d_unlock", "s_thread", "s_rec", "s_unlock"}

RwMutex ==
  \A t \in Taker :
    /\ RwHolds(t) => mem["mutex"] = 1
    /\ \A u \in Taker : RwHolds(t) /\ RwHolds(u) => t = u
    /\ \A e \in Entries(t) : e.loc # "mutex"

(* t has decremented the word from above HALF and not yet said so.         *)
FirstGrant(t) == pc[t] = "d_unlock" /\ reg[t].ok /\ reg[t].thr = X_LOCK_HALF_DECR

(* t has, or is about to have, its name in writer_thread.                  *)
RwOwns(t) ==
  \/ FirstGrant(t)
  \/ pc[t] \in {"s_lock", "s_thread"}
  \/ mem["writer_thread"] = t
  \/ \E e \in Entries(t) : e.loc = "writer_thread"

RwOwner ==
  \A t \in Taker :
    /\ \A u \in Taker : RwOwns(t) /\ RwOwns(u) => t = u
    /\ \A e \in Entries(t) : e.loc = "writer_thread" => e.val = t

(* Who has been granted the lock, is being granted it again, or has read   *)
(* its own name, owns it.                                                  *)
RwGranted(t) ==
  \/ pc[t] \in {"again", "again_w", "last", "s_rec", "s_unlock"}
  \/ pc[t] \in {"d_lock", "d_test", "d_unlock"} /\ reg[t].thr = 0
  \/ reg[t].who = t
  \/ env.grants[t] > 0
RwRights == \A t \in Taker : RwGranted(t) => RwOwns(t)

(* Once there is an owner the word is at most HALF, or will be when the    *)
(* owner leaves the mutex.                                                 *)
RwWord ==
  /\ mem["lock_word"] <= 3 * X_LOCK_HALF_DECR
  /\ \A t \in Taker :
       /\ \A e \in Entries(t) : e.loc = "lock_word" => e.val <= X_LOCK_HALF_DECR
       /\ RwOwns(t) =>
            \/ mem["lock_word"] <= X_LOCK_HALF_DECR
            \/ FirstGrant(t) /\ \E e \in Entries(t) : e.loc = "lock_word"
       /\ pc[t] = "again_w" => reg[t].word <= X_LOCK_HALF_DECR

RwInv == RwTypes /\ RwMutex /\ RwOwner /\ RwRights /\ RwWord

-----------------------------------------------------------------------------
(* All that matters of the two amounts.                                    *)
LEMMA RwAmounts ==
  /\ X_LOCK_HALF_DECR \in Nat \ {0}
  /\ X_LOCK_DECR = 2 * X_LOCK_HALF_DECR
  BY SMT DEF X_LOCK_DECR, X_LOCK_HALF_DECR

(* RwCall: the next call begins, or the thread ends.                       *)
LEMMA RwCallStep ==
  ASSUME RwInv, NEW t \in Taker, RwCall(t), UNCHANGED rigid
  PROVE  RwInv'
<1>1. /\ MemOK(All, RwLoc, Int)'
      /\ mem' = mem
      /\ \A u \in All : Entries(u)' = Entries(u)
  BY SilentEntries DEF RwInv, RwTypes, RwCall, Local
<1>2. RwTypes'
  <2>1. Weak'
    BY DEF RwInv, RwTypes, rigid, Weak
  <2>2. pc' \in [All -> RwPC]
    BY TakersAreNotMain DEF RwInv, RwTypes, RwCall, Local, Go, RwPC
  <2>3. reg' \in [All -> RwReg]
    BY TakersAreNotMain DEF RwInv, RwTypes, RwCall, Keep, RwReg, RwThreshold
  <2>4. env' \in [grants : [Taker -> Int]]
    BY TakersAreNotMain DEF RwInv, RwTypes, RwCall, Keep
  <2> QED BY <1>1, <2>1, <2>2, <2>3, <2>4, TakersAreNotMain DEF RwInv, RwTypes
<1>3. RwMutex'
  BY <1>1, TakersAreNotMain
  DEF RwInv, RwTypes, RwMutex, RwHolds, RwCall, Local, Go
<1>4. \A u \in Taker : RwOwns(u)' <=> RwOwns(u)
  BY <1>1, TakersAreNotMain
  DEF RwInv, RwTypes, RwOwns, FirstGrant, RwCall, Local, Go, Keep, RwThreshold
<1>5. RwOwner'
  BY <1>1, <1>4, TakersAreNotMain DEF RwInv, RwOwner
<1>6. RwRights'
  BY <1>1, <1>4, TakersAreNotMain, RwAmounts DEF RwInv, RwTypes, RwRights, RwGranted, RwCall, Local, Go, Keep, RwThreshold, RwReg
<1>7. RwWord'
  BY <1>1, <1>4, TakersAreNotMain
  DEF RwInv, RwTypes, RwWord, FirstGrant, RwCall, Local, Go, Keep
<1> QED BY <1>2, <1>3, <1>5, <1>6, <1>7 DEF RwInv

(* Taking and leaving the mutex changes nobody's ownership.                *)
LEMMA RwMutexStep ==
  ASSUME RwInv, NEW t \in Taker, UNCHANGED rigid, Keep,
         NEW v \in BOOL, SetMem("mutex", v)
  PROVE  /\ Weak'
         /\ MemOK(All, RwLoc, Int)'
         /\ mem' = [mem EXCEPT !["mutex"] = v]
         /\ \A u \in All : Entries(u)' = Entries(u)
         /\ reg' \in [All -> RwReg]
         /\ env' \in [grants : [Taker -> Int]]
         /\ Entries(Main)' = {}
<1>1. "mutex" \in RwLoc /\ v \in Int
  BY DEF RwLoc, BOOL
<1>2. /\ MemOK(All, RwLoc, Int)'
      /\ mem' = [mem EXCEPT !["mutex"] = v]
      /\ \A u \in All : Entries(u)' = Entries(u)
  BY <1>1, SetMemEntries DEF RwInv, RwTypes
<1> QED BY <1>2, TakersAreNotMain DEF RwInv, RwTypes, Weak, Keep, rigid

(* mutex_enter, at d_lock and at s_lock.                                   *)
LEMMA RwLockStep ==
  ASSUME RwInv, NEW t \in Taker, UNCHANGED rigid, Keep,
         \/ MutexLock(t, "d_lock", "mutex", "d_test")
         \/ MutexLock(t, "s_lock", "mutex", "s_thread")
  PROVE  RwInv'
<1>1. /\ mem["mutex"] = 0
      /\ SetMem("mutex", 1)
      /\ \/ pc[t] = "d_lock" /\ pc' = [pc EXCEPT ![t] = "d_test"]
         \/ pc[t] = "s_lock" /\ pc' = [pc EXCEPT ![t] = "s_thread"]
  BY DEF MutexLock, Go
<1>2. /\ Weak'
      /\ MemOK(All, RwLoc, Int)'
      /\ mem' = [mem EXCEPT !["mutex"] = 1]
      /\ \A u \in All : Entries(u)' = Entries(u)
      /\ reg' \in [All -> RwReg]
      /\ env' \in [grants : [Taker -> Int]]
      /\ Entries(Main)' = {}
  BY <1>1, RwMutexStep DEF BOOL
<1>3. mem \in [RwLoc -> Int] /\ pc \in [All -> RwPC]
  BY DEF RwInv, RwTypes, MemOK
<1>4. /\ mem'["mutex"] = 1
      /\ mem'["writer_thread"] = mem["writer_thread"]
      /\ mem'["lock_word"] = mem["lock_word"]
  BY <1>2, <1>3 DEF RwLoc
<1>5. RwTypes'
  <2>1. pc' \in [All -> RwPC]
    BY <1>1, <1>3 DEF RwPC
  <2> QED BY <1>2, <2>1 DEF RwTypes
<1>6. RwMutex'
  BY <1>1, <1>2, <1>3, <1>4, TakersAreNotMain DEF RwInv, RwMutex, RwHolds
<1>7. \A u \in Taker : RwOwns(u)' <=> RwOwns(u)
  BY <1>1, <1>2, <1>3, <1>4, TakersAreNotMain DEF RwOwns, FirstGrant, Keep
<1>8. RwOwner'
  BY <1>2, <1>7, TakersAreNotMain DEF RwInv, RwOwner
<1>9. RwRights'
  BY <1>1, <1>3, <1>7, TakersAreNotMain DEF RwInv, RwRights, RwGranted, Keep
<1>10. RwWord'
  BY <1>1, <1>2, <1>3, <1>4, <1>7, TakersAreNotMain DEF RwInv, RwWord, FirstGrant, Keep
<1> QED BY <1>5, <1>6, <1>8, <1>9, <1>10 DEF RwInv

(* mutex_exit, at d_unlock and at s_unlock.  The buffer is empty, so that  *)
(* what a first decrement wrote is in memory.                              *)
LEMMA RwUnlockStep ==
  ASSUME RwInv, NEW t \in Taker, UNCHANGED rigid, Keep,
         \/ MutexUnlock(t, "d_unlock", "mutex",
                        CASE reg[t].ok /\ reg[t].thr = RwThreshold -> "s_lock"
                          [] reg[t].ok /\ reg[t].thr = 0           -> "last"
                          [] ~ reg[t].ok /\ reg[t].thr = 0         -> "again"
                          [] OTHER                                 -> "check")
         \/ MutexUnlock(t, "s_unlock", "mutex", "last")
  PROVE  RwInv'
<1>0. reg[t] \in RwReg
  BY TakersAreNotMain DEF RwInv, RwTypes
<1>1. /\ Drained(t)
      /\ SetMem("mutex", 0)
      /\ \/ /\ pc[t] = "d_unlock"
            /\ \/ FirstGrant(t) /\ pc' = [pc EXCEPT ![t] = "s_lock"]
               \/ reg[t].thr = 0 /\ pc' = [pc EXCEPT ![t] = "last"]
               \/ reg[t].thr = 0 /\ pc' = [pc EXCEPT ![t] = "again"]
               \/ ~ FirstGrant(t) /\ pc' = [pc EXCEPT ![t] = "check"]
         \/ pc[t] = "s_unlock" /\ pc' = [pc EXCEPT ![t] = "last"]
  BY <1>0, RwAmounts DEF MutexUnlock, Go, FirstGrant, RwReg, RwThreshold
<1>2. /\ Weak'
      /\ MemOK(All, RwLoc, Int)'
      /\ mem' = [mem EXCEPT !["mutex"] = 0]
      /\ \A u \in All : Entries(u)' = Entries(u)
      /\ reg' \in [All -> RwReg]
      /\ env' \in [grants : [Taker -> Int]]
      /\ Entries(Main)' = {}
  BY <1>1, RwMutexStep DEF BOOL
<1>3. mem \in [RwLoc -> Int] /\ pc \in [All -> RwPC]
  BY DEF RwInv, RwTypes, MemOK
<1>4. /\ mem'["writer_thread"] = mem["writer_thread"]
      /\ mem'["lock_word"] = mem["lock_word"]
  BY <1>2, <1>3 DEF RwLoc
<1>5. Entries(t) = {}
  BY <1>1, DrainedEntries, TakersAreNotMain DEF RwInv, RwTypes
<1>6. RwTypes'
  <2>1. pc' \in [All -> RwPC]
    BY <1>1, <1>3 DEF RwPC
  <2> QED BY <1>2, <2>1 DEF RwTypes
<1>7. RwMutex'
  <2>1. RwHolds(t) /\ ~ RwHolds(t)'
    BY <1>1, <1>3, TakersAreNotMain DEF RwHolds
  <2>2. \A u \in Taker : u # t => ~ RwHolds(u) /\ RwHolds(u)' = RwHolds(u)
    BY <1>1, <1>3, <2>1, TakersAreNotMain DEF RwInv, RwMutex, RwHolds
  <2> QED BY <1>2, <2>1, <2>2, TakersAreNotMain DEF RwInv, RwMutex
<1>8. \A u \in Taker : RwOwns(u)' <=> RwOwns(u)
  <2>1. CASE FirstGrant(t)
    BY <1>1, <1>2, <1>3, <1>4, <2>1, TakersAreNotMain, RwAmounts DEF RwOwns, FirstGrant, Keep
  <2>2. CASE ~ FirstGrant(t)
    BY <1>1, <1>2, <1>3, <1>4, <2>2, TakersAreNotMain DEF RwOwns, FirstGrant, Keep
  <2> QED BY <2>1, <2>2
<1>9. RwOwner'
  BY <1>2, <1>8, TakersAreNotMain DEF RwInv, RwOwner
<1>10. RwRights'
  BY <1>1, <1>3, <1>8, TakersAreNotMain DEF RwInv, RwRights, RwGranted, Keep
<1>11. RwWord'
  BY <1>1, <1>2, <1>3, <1>4, <1>5, <1>8, TakersAreNotMain DEF RwInv, RwWord, FirstGrant, Keep
<1> QED BY <1>6, <1>7, <1>9, <1>10, <1>11 DEF RwInv

(* A store of t to a word other than these leaves the lock as it is.       *)
LEMMA RwPutStep ==
  ASSUME RwInv, NEW t \in Taker, UNCHANGED rigid,
         NEW x \in RwLoc, NEW v \in Int, Put(t, x, v, FALSE)
  PROVE  /\ Weak'
         /\ MemOK(All, RwLoc, Int)'
         /\ mem' = mem
         /\ \E e : e.loc = x /\ e.val = v /\ Entries(t)' = Entries(t) \cup {e}
         /\ \A u \in All : u # t => Entries(u)' = Entries(u)
         /\ Entries(Main)' = {}
<1>1. /\ MemOK(All, RwLoc, Int)'
      /\ mem' = mem
      /\ \E e : e.loc = x /\ e.val = v /\ Entries(t)' = Entries(t) \cup {e}
      /\ \A u \in All : u # t => Entries(u)' = Entries(u)
  <2>1. MemOK(All, RwLoc, Int) /\ Weak /\ t \in All
    BY TakersAreNotMain DEF RwInv, RwTypes
  <2>2. PICK rel \in BOOLEAN : Put(t, x, v, rel)
    BY Zenon
  <2> QED BY <2>1, <2>2, PutEntries
<1> QED BY <1>1, TakersAreNotMain DEF RwInv, RwTypes, Weak, rigid

(* The success flag changes, and nothing else of the locals.               *)
RwFlagged(t) ==
  /\ reg' \in [All -> RwReg]
  /\ \A u \in All : u # t => reg'[u] = reg[u]
  /\ reg'[t].thr = reg[t].thr
  /\ reg'[t].who = reg[t].who
  /\ reg'[t].word = reg[t].word

(* The result of an attempt goes to the thread's local.                    *)
LEMMA RwFlag ==
  ASSUME RwInv, NEW t \in Taker, NEW b \in BOOLEAN, reg' = [reg EXCEPT ![t].ok = b]
  PROVE  RwFlagged(t) /\ reg'[t].ok = b
<1>1. reg \in [All -> RwReg] /\ t \in All
  BY TakersAreNotMain DEF RwInv, RwTypes
<1>2. reg' = [reg EXCEPT ![t] = [reg[t] EXCEPT !.ok = b]]
  BY Zenon
<1> DEFINE r == [reg[t] EXCEPT !.ok = b]
<1>3. reg[t] \in RwReg
  BY <1>1, Zenon
<1>4. /\ r \in RwReg
      /\ r.ok = b /\ r.thr = reg[t].thr /\ r.who = reg[t].who /\ r.word = reg[t].word
  BY <1>3, Zenon DEF RwReg
<1>5. reg' = [reg EXCEPT ![t] = r]
  BY <1>2, Zenon
<1> HIDE DEF r
<1>6. reg'[t] = r /\ \A u \in All : u # t => reg'[u] = reg[u]
  BY <1>1, <1>5, Zenon
<1>7. reg' \in [All -> RwReg]
  BY <1>1, <1>4, <1>5, Zenon
<1> QED BY <1>4, <1>6, <1>7, Zenon DEF RwFlagged

(* lock_word > threshold fails: nothing is written.                        *)
LEMMA RwDecrFails ==
  ASSUME RwInv, NEW t \in Taker, UNCHANGED <<rigid, env>>,
         Go(t, "d_test", "d_unlock"), Silent,
         RwFlagged(t), ~ reg'[t].ok
  PROVE  RwInv'
<1>1. /\ MemOK(All, RwLoc, Int)'
      /\ mem' = mem
      /\ \A u \in All : Entries(u)' = Entries(u)
  BY SilentEntries DEF RwInv, RwTypes
<1>2. /\ pc \in [All -> RwPC] /\ reg \in [All -> RwReg] /\ t \in All
      /\ pc[t] = "d_test" /\ pc' = [pc EXCEPT ![t] = "d_unlock"]
  BY TakersAreNotMain DEF RwInv, RwTypes, Go, RwFlagged
<1>3. RwTypes'
  <2>1. Weak'
    BY DEF RwInv, RwTypes, Weak, rigid
  <2>2. pc' \in [All -> RwPC]
    BY <1>2 DEF RwPC
  <2>3. reg' \in [All -> RwReg]
    BY DEF RwFlagged
  <2> QED BY <1>1, <2>1, <2>2, <2>3, TakersAreNotMain DEF RwInv, RwTypes
<1>4. RwMutex'
  BY <1>1, <1>2, TakersAreNotMain DEF RwInv, RwMutex, RwHolds
<1>5. \A u \in Taker : RwOwns(u)' <=> RwOwns(u)
  BY <1>1, <1>2, TakersAreNotMain DEF RwOwns, FirstGrant, RwFlagged
<1>6. RwOwner'
  BY <1>1, <1>5, TakersAreNotMain DEF RwInv, RwOwner
<1>7. RwRights'
  BY <1>2, <1>5, TakersAreNotMain DEF RwInv, RwRights, RwGranted, RwFlagged
<1>8. RwWord'
  BY <1>1, <1>2, <1>5, TakersAreNotMain DEF RwInv, RwWord, FirstGrant, RwFlagged
<1> QED BY <1>3, <1>4, <1>6, <1>7, <1>8 DEF RwInv

(* What t finds in the word while it has the mutex: at most HALF as soon   *)
(* as anybody owns the lock.                                               *)
LEMMA RwWordRead ==
  ASSUME RwInv, NEW t \in Taker, ~ FirstGrant(t),
         RwHolds(t) \/ RwOwns(t)
  PROVE  /\ Load(t, "lock_word") \in Int
         /\ Load(t, "lock_word") <= 3 * X_LOCK_HALF_DECR
         /\ (\E u \in Taker : RwOwns(u)) => Load(t, "lock_word") <= X_LOCK_HALF_DECR
<1> DEFINE w == Load(t, "lock_word")
<1>1. /\ w \in Int
      /\ \/ w = mem["lock_word"]
         \/ \E e \in Entries(t) : e.loc = "lock_word" /\ e.val = w
  BY LoadEntries, TakersAreNotMain DEF RwInv, RwTypes, RwLoc
<1>2. w = mem["lock_word"] \/ w <= X_LOCK_HALF_DECR
  BY <1>1 DEF RwInv, RwWord
<1>3. mem["lock_word"] <= 3 * X_LOCK_HALF_DECR
  BY DEF RwInv, RwWord
<1>4. ASSUME NEW u \in Taker, RwOwns(u)
      PROVE  mem["lock_word"] <= X_LOCK_HALF_DECR
  <2>1. mem["lock_word"] <= X_LOCK_HALF_DECR \/ FirstGrant(u)
    BY <1>4 DEF RwInv, RwWord
  <2>2. FirstGrant(u) => u = t
    <3>1. FirstGrant(u) => RwHolds(u)
      BY DEF FirstGrant, RwHolds
    <3> QED BY <1>4, <3>1 DEF RwInv, RwMutex, RwOwner
  <2> QED BY <2>1, <2>2
<1> QED BY <1>1, <1>2, <1>3, <1>4, RwAmounts

(* lock_word -= X_LOCK_DECR, the first of them or, by the owner, another   *)
LEMMA RwDecrSucceeds ==
  ASSUME RwInv, NEW t \in Taker, UNCHANGED <<rigid, env>>,
         Go(t, "d_test", "d_unlock"),
         Load(t, "lock_word") > reg[t].thr,
         Put(t, "lock_word", Load(t, "lock_word") - X_LOCK_DECR, FALSE),
         RwFlagged(t), reg'[t].ok
  PROVE  RwInv'
<1> DEFINE w == Load(t, "lock_word")
<1>1. /\ pc \in [All -> RwPC] /\ reg \in [All -> RwReg] /\ t \in All
      /\ pc[t] = "d_test" /\ pc' = [pc EXCEPT ![t] = "d_unlock"]
      /\ RwHolds(t) /\ ~ FirstGrant(t)
  BY TakersAreNotMain DEF RwInv, RwTypes, Go, RwHolds, FirstGrant
<1>2. /\ w \in Int /\ w <= 3 * X_LOCK_HALF_DECR
      /\ (\E u \in Taker : RwOwns(u)) => w <= X_LOCK_HALF_DECR
  BY <1>1, RwWordRead
<1>3. /\ w - X_LOCK_DECR \in Int
      /\ w - X_LOCK_DECR <= X_LOCK_HALF_DECR
  <2> HIDE DEF w
  <2> QED BY <1>2, RwAmounts
<1>3a. /\ Weak'
       /\ MemOK(All, RwLoc, Int)'
       /\ mem' = mem
       /\ \E e : e.loc = "lock_word" /\ e.val = w - X_LOCK_DECR
                /\ Entries(t)' = Entries(t) \cup {e}
       /\ \A u \in All : u # t => Entries(u)' = Entries(u)
       /\ Entries(Main)' = {}
  BY <1>3, RwPutStep DEF RwLoc
<1>5. PICK e : /\ e.loc = "lock_word" /\ e.val <= X_LOCK_HALF_DECR
               /\ Entries(t)' = Entries(t) \cup {e}
  BY <1>3, <1>3a
<1>4. /\ Weak'
      /\ MemOK(All, RwLoc, Int)'
      /\ mem' = mem
      /\ Entries(t)' = Entries(t) \cup {e}
      /\ \A u \in All : u # t => Entries(u)' = Entries(u)
      /\ Entries(Main)' = {}
  BY <1>3a, <1>5
<1> HIDE DEF w
<1>6. RwTypes'
  <2>1. pc' \in [All -> RwPC]
    BY <1>1 DEF RwPC
  <2>2. reg' \in [All -> RwReg]
    BY DEF RwFlagged
  <2> QED BY <1>4, <2>1, <2>2, TakersAreNotMain DEF RwInv, RwTypes
<1>7. RwMutex'
  BY <1>1, <1>4, <1>5, TakersAreNotMain DEF RwInv, RwMutex, RwHolds
<1>8. \A u \in Taker : u # t => (RwOwns(u)' <=> RwOwns(u))
  BY <1>1, <1>4, TakersAreNotMain DEF RwOwns, FirstGrant, RwFlagged
<1>9. RwOwns(t) => RwOwns(t)'
  BY <1>1, <1>4 DEF RwOwns, FirstGrant, RwFlagged
<1>10. \/ reg[t].thr = X_LOCK_HALF_DECR /\ FirstGrant(t)'
       \/ reg[t].thr = 0 /\ ~ FirstGrant(t)'
  <2>1. reg[t].thr \in {0, X_LOCK_HALF_DECR}
    BY <1>1 DEF RwReg
  <2>2. pc'[t] = "d_unlock" /\ reg'[t].thr = reg[t].thr
    BY <1>1 DEF RwFlagged
  <2>3. X_LOCK_HALF_DECR # 0
    BY RwAmounts
  <2> QED BY <2>1, <2>2, <2>3, Zenon DEF FirstGrant
<1>11. RwOwner'
  <2>1. \A u \in Taker : u # t => ~ RwOwns(u)
    <3>1. CASE reg[t].thr = 0
      BY <1>1, <3>1 DEF RwInv, RwRights, RwGranted, RwOwner
    <3>2. CASE reg[t].thr = X_LOCK_HALF_DECR
      <4>1. w > X_LOCK_HALF_DECR
        BY <3>2 DEF w
      <4> QED BY <1>2, <4>1, RwAmounts
    <3> QED BY <1>10, <3>1, <3>2
  <2> QED BY <1>4, <1>5, <1>8, <2>1, TakersAreNotMain DEF RwInv, RwOwner
<1>12. RwRights'
  <2>1. CASE reg[t].thr = 0
    BY <1>1, <1>8, <1>9, <2>1, TakersAreNotMain DEF RwInv, RwRights, RwGranted, RwFlagged
  <2>2. CASE reg[t].thr = X_LOCK_HALF_DECR
    <3>1. RwOwns(t)'
      BY <1>10, <2>2, RwAmounts DEF RwOwns
    <3> QED BY <1>1, <1>8, <3>1, TakersAreNotMain DEF RwInv, RwRights, RwGranted, RwFlagged
  <2> QED BY <1>10, <2>1, <2>2
<1>13. RwWord'
  <2>1. ASSUME NEW u \in Taker
        PROVE  \A f \in Entries(u)' : f.loc = "lock_word" => f.val <= X_LOCK_HALF_DECR
    BY <1>4, <1>5, TakersAreNotMain DEF RwInv, RwWord
  <2>2. ASSUME NEW u \in Taker, RwOwns(u)'
        PROVE  \/ mem["lock_word"] <= X_LOCK_HALF_DECR
               \/ FirstGrant(u)' /\ \E f \in Entries(u)' : f.loc = "lock_word"
    <3>1. CASE u = t /\ FirstGrant(t)'
      BY <1>4, <1>5, <3>1
    <3>2. CASE u # t
      <4>1. RwOwns(u) /\ (FirstGrant(u)' <=> FirstGrant(u)) /\ Entries(u)' = Entries(u)
        BY <1>1, <1>4, <1>8, <2>2, <3>2, TakersAreNotMain DEF FirstGrant, RwFlagged
      <4> QED BY <4>1 DEF RwInv, RwWord
    <3>3. CASE u = t /\ ~ FirstGrant(t)'
      <4>1. RwOwns(t)
        BY <1>1, <1>10, <3>3 DEF RwInv, RwRights, RwGranted
      <4> QED BY <1>1, <4>1 DEF RwInv, RwWord
    <3> QED BY <3>1, <3>2, <3>3
  <2>3. \A u \in Taker : pc'[u] = "again_w" => reg'[u].word <= X_LOCK_HALF_DECR
    BY <1>1, TakersAreNotMain DEF RwInv, RwWord, RwFlagged
  <2> QED BY <1>4, <2>1, <2>2, <2>3 DEF RwInv, RwWord
<1> QED BY <1>6, <1>7, <1>11, <1>12, <1>13 DEF RwInv

(* lock->writer_thread = curr_thread, by the one that is being granted.    *)
LEMMA RwWriterStep ==
  ASSUME RwInv, NEW t \in Taker, UNCHANGED rigid, Keep,
         Write(t, "s_thread", "writer_thread", t, "s_rec")
  PROVE  RwInv'
<1>1. /\ pc \in [All -> RwPC] /\ reg \in [All -> RwReg] /\ t \in All /\ t \in Int
      /\ pc[t] = "s_thread" /\ pc' = [pc EXCEPT ![t] = "s_rec"]
      /\ RwOwns(t) /\ RwHolds(t) /\ ~ FirstGrant(t)
  BY TakersAreNotMain, TakerAssumption
  DEF RwInv, RwTypes, Write, Go, RwOwns, RwHolds, FirstGrant
<1>2. /\ Weak'
      /\ MemOK(All, RwLoc, Int)'
      /\ mem' = mem
      /\ \E e : e.loc = "writer_thread" /\ e.val = t /\ Entries(t)' = Entries(t) \cup {e}
      /\ \A u \in All : u # t => Entries(u)' = Entries(u)
      /\ Entries(Main)' = {}
  BY <1>1, RwPutStep DEF Write, RwLoc
<1>3. PICK e : e.loc = "writer_thread" /\ e.val = t /\ Entries(t)' = Entries(t) \cup {e}
  BY <1>2
<1>4. RwTypes'
  <2>1. pc' \in [All -> RwPC]
    BY <1>1 DEF RwPC
  <2> QED BY <1>2, <2>1 DEF RwInv, RwTypes, Keep
<1>5. RwMutex'
  BY <1>1, <1>2, <1>3, TakersAreNotMain DEF RwInv, RwMutex, RwHolds
<1>6. \A u \in Taker : RwOwns(u)' <=> RwOwns(u)
  <2>1. RwOwns(t)'
    BY <1>3 DEF RwOwns
  <2>2. \A u \in Taker : u # t => (RwOwns(u)' <=> RwOwns(u))
    BY <1>1, <1>2, TakersAreNotMain DEF RwOwns, FirstGrant, Keep
  <2> QED BY <1>1, <2>1, <2>2
<1>7. RwOwner'
  BY <1>2, <1>3, <1>6, TakersAreNotMain DEF RwInv, RwOwner
<1>8. RwRights'
  BY <1>1, <1>6, TakersAreNotMain DEF RwInv, RwRights, RwGranted, Keep
<1>9. RwWord'
  BY <1>1, <1>2, <1>3, <1>6, TakersAreNotMain DEF RwInv, RwWord, FirstGrant, Keep
<1> QED BY <1>4, <1>5, <1>7, <1>8, <1>9 DEF RwInv

(* A store of the owner to the rest of the lock: recursive, last_x, and    *)
(* the further grants in lock_word.                                        *)
LEMMA RwOwnerStore ==
  ASSUME RwInv, NEW t \in Taker, UNCHANGED <<rigid, reg>>,
         NEW x \in {"recursive", "last_x", "lock_word"}, NEW v \in Int,
         Put(t, x, v, FALSE),
         x = "lock_word" => v <= X_LOCK_HALF_DECR,
         \/ pc[t] = "s_rec" /\ pc' = [pc EXCEPT ![t] = "s_unlock"]
         \/ pc[t] = "again_w" /\ pc' = [pc EXCEPT ![t] = "last"]
         \/ pc[t] = "last" /\ pc' = [pc EXCEPT ![t] = "call"],
         \/ UNCHANGED env
         \/ env' = [env EXCEPT !.grants[t] = @ + 1]
  PROVE  RwInv'
<1>1. /\ pc \in [All -> RwPC] /\ reg \in [All -> RwReg] /\ t \in All
      /\ RwOwns(t)
  BY TakersAreNotMain DEF RwInv, RwTypes, RwRights, RwGranted
<1>2. /\ Weak'
      /\ MemOK(All, RwLoc, Int)'
      /\ mem' = mem
      /\ \E e : e.loc = x /\ e.val = v /\ Entries(t)' = Entries(t) \cup {e}
      /\ \A u \in All : u # t => Entries(u)' = Entries(u)
      /\ Entries(Main)' = {}
  <2>1. x \in RwLoc /\ UNCHANGED rigid
    BY DEF RwLoc
  <2> QED BY <2>1, RwPutStep
<1>3. PICK e : e.loc = x /\ e.val = v /\ Entries(t)' = Entries(t) \cup {e}
  BY <1>2
<1>4. /\ env' \in [grants : [Taker -> Int]]
      /\ \A u \in Taker : u # t => env'.grants[u] = env.grants[u]
  BY DEF RwInv, RwTypes
<1>5. RwTypes'
  <2>1. pc' \in [All -> RwPC]
    BY <1>1 DEF RwPC
  <2> QED BY <1>1, <1>2, <1>4, <2>1 DEF RwTypes
<1>6. RwMutex'
  BY <1>1, <1>2, <1>3, TakersAreNotMain DEF RwInv, RwMutex, RwHolds
<1>7. \A u \in Taker : RwOwns(u)' <=> RwOwns(u)
  BY <1>1, <1>2, <1>3, TakersAreNotMain DEF RwOwns, FirstGrant
<1>8. RwOwner'
  BY <1>2, <1>3, <1>7, TakersAreNotMain DEF RwInv, RwOwner
<1>9. RwRights'
  BY <1>1, <1>4, <1>7, TakersAreNotMain DEF RwInv, RwRights, RwGranted
<1>10. RwWord'
  BY <1>1, <1>2, <1>3, <1>7, TakersAreNotMain DEF RwInv, RwWord, FirstGrant
<1> QED BY <1>5, <1>6, <1>8, <1>9, <1>10 DEF RwInv

(* A step that touches no memory, keeps t outside the mutex and gives it   *)
(* no locals that claim the lock.                                          *)
LEMMA RwSilentStep ==
  ASSUME RwInv, NEW t \in Taker, UNCHANGED <<rigid, env>>, Silent,
         ~ RwHolds(t), pc[t] \notin {"s_lock", "s_thread"},
         NEW to \in {"check", "call", "d_lock", "again_w"},
         pc' = [pc EXCEPT ![t] = to],
         NEW r \in RwReg, reg' = [reg EXCEPT ![t] = r],
         r.who = t => RwOwns(t),
         to = "d_lock" /\ r.thr = 0 => RwOwns(t),
         to = "again_w" => RwOwns(t) /\ r.word <= X_LOCK_HALF_DECR
  PROVE  RwInv'
<1>1. /\ pc \in [All -> RwPC] /\ reg \in [All -> RwReg] /\ t \in All
      /\ ~ FirstGrant(t) /\ ~ RwHolds(t)'
  BY TakersAreNotMain DEF RwInv, RwTypes, RwHolds, FirstGrant
<1>2. /\ MemOK(All, RwLoc, Int)'
      /\ mem' = mem
      /\ \A u \in All : Entries(u)' = Entries(u)
  BY SilentEntries DEF RwInv, RwTypes
<1>3. RwTypes'
  <2>1. Weak'
    BY DEF RwInv, RwTypes, Weak, rigid
  <2>2. pc' \in [All -> RwPC] /\ reg' \in [All -> RwReg]
    BY <1>1 DEF RwPC
  <2> QED BY <1>2, <2>1, <2>2, TakersAreNotMain DEF RwInv, RwTypes
<1>4. RwMutex'
  BY <1>1, <1>2, TakersAreNotMain DEF RwInv, RwMutex, RwHolds
<1>5. \A u \in Taker : RwOwns(u)' <=> RwOwns(u)
  BY <1>1, <1>2, TakersAreNotMain DEF RwOwns, FirstGrant
<1>6. RwOwner'
  BY <1>2, <1>5, TakersAreNotMain DEF RwInv, RwOwner
<1>7. RwRights'
  BY <1>1, <1>5, TakersAreNotMain DEF RwInv, RwRights, RwGranted
<1>8. RwWord'
  BY <1>1, <1>2, <1>5, TakersAreNotMain DEF RwInv, RwWord, FirstGrant
<1> QED BY <1>3, <1>4, <1>6, <1>7, <1>8 DEF RwInv

(* A thread that reads its own name in writer_thread owns the lock.        *)
LEMMA RwNameRead ==
  ASSUME RwInv, NEW t \in Taker
  PROVE  /\ Load(t, "writer_thread") \in Int
         /\ Load(t, "writer_thread") = t => RwOwns(t)
<1>1. "writer_thread" \in RwLoc
  BY DEF RwLoc
<1> QED BY <1>1, LoadEntries, TakersAreNotMain DEF RwInv, RwTypes, RwOwns

(* RwCheck: the two loads, and the decision.                               *)
LEMMA RwCheckStep ==
  ASSUME RwInv, NEW t \in Taker, UNCHANGED rigid, RwCheck(t)
  PROVE  RwInv'
<1>1. /\ reg \in [All -> RwReg] /\ t \in All /\ reg[t] \in RwReg
      /\ pc[t] = "check" /\ ~ RwHolds(t) /\ UNCHANGED <<rigid, env>> /\ Silent
  BY TakersAreNotMain DEF RwInv, RwTypes, RwHolds, RwCheck, Read, Local, Go
<1>2. reg[t].who = t => RwOwns(t)
  BY DEF RwInv, RwRights, RwGranted
<1>3. CASE Read(t, "check", "rec", "recursive", "check")
  <2> DEFINE v == Load(t, "recursive")
             r == [reg[t] EXCEPT !.rec = v]
  <2>1. v \in Int
    BY LoadEntries, <1>1 DEF RwInv, RwTypes, RwLoc
  <2>2. r \in RwReg /\ r.who = reg[t].who
    BY <1>1, <2>1 DEF RwReg
  <2>3. reg' = [reg EXCEPT ![t] = r] /\ pc' = [pc EXCEPT ![t] = "check"]
    BY <1>1, <1>3 DEF Read, Go
  <2> HIDE DEF r
  <2> QED BY <1>1, <1>2, <2>2, <2>3, RwSilentStep
<1>4. CASE Read(t, "check", "who", "writer_thread", "check")
  <2> DEFINE v == Load(t, "writer_thread")
             r == [reg[t] EXCEPT !.who = v]
  <2>1. v \in Int /\ (v = t => RwOwns(t))
    BY RwNameRead
  <2>2. r \in RwReg /\ r.who = v
    BY <1>1, <2>1 DEF RwReg
  <2>3. reg' = [reg EXCEPT ![t] = r] /\ pc' = [pc EXCEPT ![t] = "check"]
    BY <1>1, <1>4 DEF Read, Go
  <2> HIDE DEF r, v
  <2> QED BY <1>1, <2>1, <2>2, <2>3, RwSilentStep
<1>5. CASE /\ Local(t, "check", IF reg[t].rec = 1 /\ reg[t].who = t THEN "d_lock" ELSE "call")
           /\ reg' = [reg EXCEPT ![t].thr = 0, ![t].rec = Unread, ![t].who = Unread]
  <2> DEFINE r  == [reg[t] EXCEPT !.thr = 0, !.rec = Unread, !.who = Unread]
             to == IF reg[t].rec = 1 /\ reg[t].who = t THEN "d_lock" ELSE "call"
  <2>1. Unread \in Int /\ Unread # t
    BY TakerAssumption DEF Unread
  <2>2. r \in RwReg /\ r.who = Unread
    BY <1>1, <2>1 DEF RwReg
  <2>3. reg' = [reg EXCEPT ![t] = r] /\ pc' = [pc EXCEPT ![t] = to]
    BY <1>1, <1>5 DEF Local, Go
  <2>4. to \in {"d_lock", "call"} /\ (to = "d_lock" => RwOwns(t))
    BY <1>2
  <2> HIDE DEF r, to
  <2> QED BY <1>1, <2>1, <2>2, <2>3, <2>4, RwSilentStep
<1> QED BY <1>3, <1>4, <1>5 DEF RwCheck

(* RwAgain: a further grant, by the owner outside the mutex.               *)
LEMMA RwAgainStep ==
  ASSUME RwInv, NEW t \in Taker, UNCHANGED rigid, RwAgain(t)
  PROVE  RwInv'
<1>1. /\ reg \in [All -> RwReg] /\ t \in All /\ reg[t] \in RwReg
  BY TakersAreNotMain DEF RwInv, RwTypes
<1>2. CASE Read(t, "again", "word", "lock_word", "again_w") /\ UNCHANGED env
  <2> DEFINE v == Load(t, "lock_word")
             r == [reg[t] EXCEPT !.word = v]
  <2>1. /\ pc[t] = "again" /\ ~ FirstGrant(t) /\ ~ RwHolds(t) /\ RwOwns(t)
        /\ Silent
    BY <1>2 DEF RwInv, RwRights, RwGranted, Read, Go, FirstGrant, RwHolds
  <2>2. v \in Int /\ v <= X_LOCK_HALF_DECR
    BY <2>1, RwWordRead
  <2>3. r \in RwReg /\ r.word = v
    BY <1>1, <2>2 DEF RwReg
  <2>4. reg' = [reg EXCEPT ![t] = r] /\ pc' = [pc EXCEPT ![t] = "again_w"]
    BY <1>1, <1>2 DEF Read, Go
  <2>5. UNCHANGED <<rigid, env>>
    BY <1>2
  <2> HIDE DEF r, v
  <2> QED BY <2>1, <2>2, <2>3, <2>4, <2>5, RwSilentStep
<1>3. CASE Write(t, "again_w", "lock_word", reg[t].word - RwAmount(reg[t].word), "last") /\ Keep
  <2> DEFINE v == reg[t].word - RwAmount(reg[t].word)
  <2>1. pc[t] = "again_w" /\ pc' = [pc EXCEPT ![t] = "last"] /\ Put(t, "lock_word", v, FALSE)
    BY <1>3 DEF Write, Go
  <2>2. reg[t].word \in Int /\ reg[t].word <= X_LOCK_HALF_DECR
    BY <1>1, <2>1 DEF RwInv, RwWord, RwReg
  <2>3. v \in Int /\ v <= X_LOCK_HALF_DECR
    BY <2>2, RwAmounts DEF RwAmount
  <2>4. UNCHANGED <<rigid, reg>> /\ UNCHANGED env
    BY <1>3 DEF Keep
  <2> HIDE DEF v
  <2> QED BY <2>1, <2>3, <2>4, RwOwnerStore
<1> QED BY <1>2, <1>3 DEF RwAgain

(* rw_lock_lock_word_decr: enter the mutex, test and decrement, leave.     *)
LEMMA RwDecrStep ==
  ASSUME RwInv, NEW t \in Taker, UNCHANGED rigid, RwDecr(t)
  PROVE  RwInv'
<1> DEFINE w == Load(t, "lock_word")
<1>1. CASE MutexLock(t, "d_lock", "mutex", "d_test") /\ Keep
  BY <1>1, RwLockStep
<1>2. CASE /\ Go(t, "d_test", "d_unlock")
           /\ reg' = [reg EXCEPT ![t].ok = w > reg[t].thr]
           /\ IF w > reg[t].thr THEN Put(t, "lock_word", w - X_LOCK_DECR, FALSE) ELSE Silent
           /\ UNCHANGED env
  <2>1. UNCHANGED <<rigid, env>>
    BY <1>2
  <2>2. CASE w > reg[t].thr
    <3>1. reg' = [reg EXCEPT ![t].ok = TRUE]
      BY <1>2, <2>2, Zenon
    <3>2. RwFlagged(t) /\ reg'[t].ok
      BY <3>1, RwFlag, Zenon
    <3>3. Put(t, "lock_word", w - X_LOCK_DECR, FALSE)
      BY <1>2, <2>2, Zenon
    <3> QED BY <1>2, <2>1, <2>2, <3>2, <3>3, RwDecrSucceeds, Zenon
  <2>3. CASE ~ (w > reg[t].thr)
    <3>1. (w > reg[t].thr) \in BOOLEAN
      OBVIOUS
    <3>2. RwFlagged(t) /\ reg'[t].ok = (w > reg[t].thr)
      BY <1>2, <3>1, RwFlag, Zenon
    <3>4. ~ reg'[t].ok
      BY <2>3, <3>2, Zenon
    <3>3. Silent
      BY <1>2, <2>3, Zenon
    <3> QED BY <1>2, <2>1, <3>2, <3>3, <3>4, RwDecrFails, Zenon
  <2> QED BY <2>2, <2>3
<1>3. CASE /\ MutexUnlock(t, "d_unlock", "mutex",
                          CASE reg[t].ok /\ reg[t].thr = RwThreshold -> "s_lock"
                            [] reg[t].ok /\ reg[t].thr = 0           -> "last"
                            [] ~ reg[t].ok /\ reg[t].thr = 0         -> "again"
                            [] OTHER                                 -> "check")
           /\ Keep
  BY <1>3, RwUnlockStep
<1> QED BY <1>1, <1>2, <1>3, Zenon DEF RwDecr

(* rw_lock_set_writer_id_and_recursion_flag                                *)
LEMMA RwSetWriterStep ==
  ASSUME RwInv, NEW t \in Taker, UNCHANGED rigid, RwSetWriter(t)
  PROVE  RwInv'
<1>1. CASE MutexLock(t, "s_lock", "mutex", "s_thread") /\ Keep
  BY <1>1, RwLockStep
<1>2. CASE Write(t, "s_thread", "writer_thread", t, "s_rec") /\ Keep
  BY <1>2, RwWriterStep
<1>3. CASE Write(t, "s_rec", "recursive", 1, "s_unlock") /\ Keep
  <2>1. pc[t] = "s_rec" /\ pc' = [pc EXCEPT ![t] = "s_unlock"] /\ Put(t, "recursive", 1, FALSE)
    BY <1>3 DEF Write, Go
  <2>2. UNCHANGED <<rigid, reg>> /\ UNCHANGED env
    BY <1>3 DEF Keep
  <2>3. "recursive" \in {"recursive", "last_x", "lock_word"} /\ "recursive" # "lock_word" /\ 1 \in Int
    OBVIOUS
  <2> QED BY <2>1, <2>2, <2>3, RwOwnerStore
<1>4. CASE MutexUnlock(t, "s_unlock", "mutex", "last") /\ Keep
  BY <1>4, RwUnlockStep
<1> QED BY <1>1, <1>2, <1>3, <1>4 DEF RwSetWriter

(* The call returns 1.                                                     *)
LEMMA RwLastStep ==
  ASSUME RwInv, NEW t \in Taker, UNCHANGED rigid, RwLast(t)
  PROVE  RwInv'
<1>1. /\ pc[t] = "last" /\ pc' = [pc EXCEPT ![t] = "call"]
      /\ Put(t, "last_x", t, FALSE)
      /\ UNCHANGED <<rigid, reg>>
      /\ env' = [env EXCEPT !.grants[t] = @ + 1]
  BY DEF RwLast, Write, Go
<1>2. t \in Int
  BY TakerAssumption
<1> QED BY <1>1, <1>2, RwOwnerStore

(* A buffered store becomes visible.  Only the owner's name is ever on its *)
(* way to writer_thread, and only values up to HALF to lock_word.          *)
LEMMA RwFlushStep ==
  ASSUME RwInv, NEW t \in All, NEW x \in DOMAIN mem, Commit(t, x),
         UNCHANGED <<rigid, pc, reg, env>>
  PROVE  RwInv'
<1>1. /\ mem \in [RwLoc -> Int] /\ x \in RwLoc
      /\ {"mutex", "writer_thread", "lock_word"} \subseteq RwLoc
  BY DEF RwInv, RwTypes, MemOK, RwLoc
<1>2. /\ MemOK(All, RwLoc, Int)'
      /\ \A u \in All : u # t => Entries(u)' = Entries(u)
      /\ Entries(t)' \subseteq Entries(t)
      /\ \E e \in Entries(t) :
           /\ e.loc = x
           /\ mem' = [mem EXCEPT ![x] = e.val]
           /\ \A f \in Entries(t) : f # e => f \in Entries(t)'
  BY <1>1, CommitEntries DEF RwInv, RwTypes
<1>3. PICK e \in Entries(t) :
        /\ e.loc = x
        /\ mem' = [mem EXCEPT ![x] = e.val]
        /\ \A f \in Entries(t) : f # e => f \in Entries(t)'
  BY <1>2
<1>4. t \in Taker
  BY <1>3 DEF RwInv, RwTypes, All
<1>5. /\ x # "mutex"
      /\ x = "writer_thread" => e.val = t /\ RwOwns(t)
      /\ x = "lock_word" => e.val <= X_LOCK_HALF_DECR
  BY <1>3, <1>4 DEF RwInv, RwMutex, RwOwner, RwWord, RwOwns
<1>6. /\ mem'["mutex"] = mem["mutex"]
      /\ mem'["writer_thread"] = IF x = "writer_thread" THEN t ELSE mem["writer_thread"]
      /\ mem'["lock_word"] = IF x = "lock_word" THEN e.val ELSE mem["lock_word"]
  BY <1>1, <1>3, <1>5
<1>7. RwTypes'
  BY <1>2, <1>4, TakersAreNotMain DEF RwInv, RwTypes, Weak, rigid
<1>8. RwMutex'
  BY <1>2, <1>4, <1>6, TakersAreNotMain DEF RwInv, RwMutex, RwHolds
<1>9. \A u \in Taker : RwOwns(u)' <=> RwOwns(u)
  <2>1. ASSUME NEW u \in Taker, RwOwns(u)' PROVE RwOwns(u)
    BY <1>2, <1>4, <1>5, <1>6, <2>1, TakersAreNotMain DEF RwOwns, FirstGrant
  <2>2. ASSUME NEW u \in Taker, RwOwns(u) PROVE RwOwns(u)'
    <3>1. CASE mem["writer_thread"] = u
      BY <1>4, <1>5, <1>6, <2>2, <3>1 DEF RwInv, RwOwner, RwOwns
    <3>2. CASE \E f \in Entries(u) : f.loc = "writer_thread"
      BY <1>2, <1>3, <1>4, <1>5, <1>6, <3>2, TakersAreNotMain DEF RwOwns
    <3>3. CASE FirstGrant(u) \/ pc[u] \in {"s_lock", "s_thread"}
      BY <3>3 DEF RwOwns, FirstGrant
    <3> QED BY <2>2, <3>1, <3>2, <3>3 DEF RwOwns
  <2> QED BY <2>1, <2>2
<1>10. RwOwner'
  BY <1>2, <1>4, <1>9, TakersAreNotMain DEF RwInv, RwOwner
<1>11. RwRights'
  BY <1>9 DEF RwInv, RwRights, RwGranted
<1>12. RwWord'
  <2>1. mem'["lock_word"] <= 3 * X_LOCK_HALF_DECR
    <3>1. e.val \in Int
      BY <1>1, <1>2, <1>3 DEF MemOK
    <3> QED BY <1>5, <1>6, <3>1, RwAmounts DEF RwInv, RwWord
  <2>2. ASSUME NEW u \in Taker, RwOwns(u)
        PROVE  \/ mem'["lock_word"] <= X_LOCK_HALF_DECR
               \/ FirstGrant(u)' /\ \E f \in Entries(u)' : f.loc = "lock_word"
    <3>1. CASE x = "lock_word"
      BY <1>5, <1>6, <3>1
    <3>2. CASE x # "lock_word"
      BY <1>2, <1>3, <1>6, <2>2, <3>2, TakersAreNotMain DEF RwInv, RwWord, FirstGrant
    <3> QED BY <3>1, <3>2
  <2>3. \A u \in Taker : \A f \in Entries(u)' : f.loc = "lock_word" => f.val <= X_LOCK_HALF_DECR
    BY <1>2, <1>4, TakersAreNotMain DEF RwInv, RwWord
  <2> QED BY <1>9, <2>1, <2>2, <2>3 DEF RwInv, RwWord
<1> QED BY <1>7, <1>8, <1>10, <1>11, <1>12 DEF RwInv

-----------------------------------------------------------------------------
(* The other programs of a behaviour's family have nothing to say here.    *)
RwSafe == program = "rwlock" => RwInv

(* The invariant holds when the threads start.                             *)
LEMMA RwInitInv == RwInit => RwInv
<1> SUFFICES ASSUME RwInit PROVE RwInv
  OBVIOUS
<1>1. /\ model \in {"TSO", "ARM"}
      /\ mem = [x \in RwLoc |-> IF x = "lock_word" THEN 3 * X_LOCK_HALF_DECR ELSE 0]
      /\ buf = [t \in All |-> << >>]
      /\ pc = [t \in All |-> IF t = Main THEN "join" ELSE IF t \in Asker THEN "call" ELSE "done"]
      /\ reg = [t \in All |-> [left |-> Calls, thr |-> 0, ok |-> FALSE,
                               rec |-> Unread, who |-> Unread, word |-> 0]]
      /\ env = [grants |-> [t \in Taker |-> 0]]
  BY DEF RwInit, Boot, RwLoc
<1>2. \A t \in All : Entries(t) = {}
  BY <1>1 DEF Entries
<1>3. /\ mem \in [RwLoc -> Int]
      /\ mem["writer_thread"] = 0
      /\ mem["lock_word"] = 3 * X_LOCK_HALF_DECR
  BY <1>1, RwAmounts DEF RwLoc
<1>4. reg \in [All -> RwReg]
  <2> DEFINE r == [left |-> Calls, thr |-> 0, ok |-> FALSE,
                   rec |-> Unread, who |-> Unread, word |-> 0]
  <2>1. Calls \in Int /\ Unread \in Int /\ 0 \in Int /\ 0 \in {0, X_LOCK_HALF_DECR}
    BY BuffersAssumption DEF Unread
  <2>2. r \in RwReg
    BY <2>1, Zenon DEF RwReg
  <2>3. reg = [t \in All |-> r]
    BY <1>1
  <2> HIDE DEF r
  <2> QED BY <2>2, <2>3
<1>5. RwTypes
  <2>1. buf \in [All -> Seq(Entry(RwLoc, Int))]
    BY <1>1
  <2>2. pc \in [All -> RwPC]
    BY <1>1 DEF RwPC
  <2>3. env \in [grants : [Taker -> Int]]
    BY <1>1
  <2> QED BY <1>1, <1>2, <1>3, <1>4, <2>1, <2>2, <2>3, TakersAreNotMain
          DEF RwTypes, Weak, MemOK
<1>6. \A t \in Taker : t # Main /\ pc[t] \in {"call", "done"} /\ t # 0
  BY <1>1, TakersAreNotMain DEF Main
<1>7. \A t \in Taker : ~ RwOwns(t)
  BY <1>2, <1>3, <1>6, TakersAreNotMain DEF RwOwns, FirstGrant
<1>8. \A t \in Taker : reg[t].who = Unread /\ env.grants[t] = 0 /\ Unread # t
  BY <1>1, TakersAreNotMain, TakerAssumption DEF Unread
<1>9. RwMutex
  BY <1>2, <1>6, TakersAreNotMain DEF RwMutex, RwHolds
<1>10. RwOwner
  BY <1>2, <1>7, TakersAreNotMain DEF RwOwner
<1>11. RwRights
  BY <1>6, <1>8 DEF RwRights, RwGranted
<1>12. RwWord
  BY <1>2, <1>3, <1>6, <1>7, TakersAreNotMain, RwAmounts DEF RwWord
<1> QED BY <1>5, <1>9, <1>10, <1>11, <1>12 DEF RwInv

(* Whatever program runs, the invariant holds at first if it is this one.  *)
LEMMA RwSafeInit == Init => RwSafe
<1> SUFFICES ASSUME Init, program = "rwlock" PROVE RwInv
  BY DEF RwSafe
<1>1. RwInit
  BY Zenon DEF Init, QueueLockInit, SharedLockInit, PublicationInit, WakeUpInit, ArenaInit,
     ClhInit, QspinInit, LinkInit, EventInit, XenInit, BuffersInit,
     MpInit, SbInit, PackageInit, RingInit, SeqInit, ModeInit, PointsInit,
     MpPrograms, SbPrograms, OmpiInit, JdkInit, RelaxInit, LifoInit, Boot
<1> QED BY <1>1, RwInitInv

(* main joins the threads and returns.                                     *)
LEMMA RwJoinStep ==
  ASSUME RwInv, JoinTakers, UNCHANGED rigid
  PROVE  RwInv'
<1>1. /\ MemOK(All, RwLoc, Int)'
      /\ mem' = mem
      /\ \A u \in All : Entries(u)' = Entries(u)
  BY SilentEntries DEF RwInv, RwTypes, JoinTakers, Await
<1>2. /\ pc' = [pc EXCEPT ![Main] = "exit"]
      /\ reg' = reg /\ env' = env
  BY DEF JoinTakers, Await, Go, Keep
<1>3. \A u \in Taker : pc'[u] = pc[u]
  BY <1>2, TakersAreNotMain DEF RwInv, RwTypes
<1>4. RwTypes'
  <2>1. Weak'
    BY DEF RwInv, RwTypes, rigid, Weak
  <2>2. pc' \in [All -> RwPC]
    BY <1>2, TakersAreNotMain DEF RwInv, RwTypes, RwPC
  <2> QED BY <1>1, <1>2, <2>1, <2>2, TakersAreNotMain DEF RwInv, RwTypes
<1>5. \A u \in Taker : RwOwns(u)' <=> RwOwns(u)
  BY <1>1, <1>2, <1>3, TakersAreNotMain DEF RwOwns, FirstGrant
<1>6. RwMutex'
  BY <1>1, <1>3, TakersAreNotMain DEF RwInv, RwMutex, RwHolds
<1>7. RwOwner'
  BY <1>1, <1>5, TakersAreNotMain DEF RwInv, RwOwner
<1>8. RwRights'
  BY <1>2, <1>3, <1>5 DEF RwInv, RwRights, RwGranted
<1>9. RwWord'
  BY <1>1, <1>2, <1>3, <1>5, TakersAreNotMain DEF RwInv, RwWord, FirstGrant
<1> QED BY <1>4, <1>6, <1>7, <1>8, <1>9 DEF RwInv

(* A step that changes no variable.                                        *)
LEMMA RwStutter ==
  ASSUME RwInv, UNCHANGED vars
  PROVE  RwInv'
<1>1. /\ mem' = mem /\ buf' = buf /\ model' = model
      /\ pc' = pc /\ reg' = reg /\ env' = env
  BY DEF vars
<1>2. \A u : Entries(u)' = Entries(u)
  BY <1>1 DEF Entries
<1>3. \A u \in Taker : RwOwns(u)' <=> RwOwns(u)
  BY <1>1, <1>2 DEF RwOwns, FirstGrant
<1>4. RwTypes'
  BY <1>1, <1>2 DEF RwInv, RwTypes, Weak, MemOK
<1>5. RwMutex'
  BY <1>1, <1>2 DEF RwInv, RwMutex, RwHolds
<1>6. RwOwner'
  BY <1>1, <1>2, <1>3 DEF RwInv, RwOwner
<1>7. RwRights'
  BY <1>1, <1>3 DEF RwInv, RwRights, RwGranted
<1>8. RwWord'
  BY <1>1, <1>2, <1>3 DEF RwInv, RwWord, FirstGrant
<1> QED BY <1>4, <1>5, <1>6, <1>7, <1>8 DEF RwInv

(* Every step of Native preserves the invariant of this program.           *)
LEMMA RwSafeNext == RwSafe /\ [Next]_vars => RwSafe'
<1> SUFFICES ASSUME RwSafe, [Next]_vars, program' = "rwlock" PROVE RwInv'
  BY DEF RwSafe
<1>1. program = "rwlock"
  BY DEF Next, Step, FlushStep, rigid, vars
<1>2. RwInv
  BY <1>1 DEF RwSafe
<1>3. DOMAIN pc = All
  BY <1>2 DEF RwInv, RwTypes
<1>4. ASSUME NEW t \in Thread, Step(t) PROVE RwInv'
  <2>1. t \in All /\ UNCHANGED rigid
    BY <1>3, <1>4 DEF Step
  <2>2. RwStep(t)
    BY <1>1, <1>4, Zenon DEF Step, QueueLockStep, SharedLockStep, PublicationStep,
       MpPrograms, SbPrograms, WakeUpStep
  <2>3. CASE t = Main
    BY <1>2, <2>1, <2>2, <2>3, RwJoinStep DEF RwStep
  <2>4. CASE t # Main
    <3>1. t \in Taker
      BY <2>1, <2>4 DEF All
    <3> QED BY <1>2, <2>1, <2>2, <2>4, <3>1, RwCallStep, RwDecrStep, RwSetWriterStep,
               RwCheckStep, RwAgainStep, RwLastStep, Zenon DEF RwStep
  <2> QED BY <2>3, <2>4
<1>5. ASSUME NEW t \in Thread, FlushStep(t) PROVE RwInv'
  BY <1>2, <1>3, <1>5, RwFlushStep, Zenon DEF FlushStep, Flush, rigid
<1>6. CASE UNCHANGED vars
  BY <1>2, <1>6, RwStutter
<1> QED BY <1>4, <1>5, <1>6 DEF Next

(* Of all the threads of 4-MySQL.c that call rw_lock_x_lock_low, in any    *)
(* number and any order, on TSO and on ARM, one at most is ever given the  *)
(* lock; whoever else reads recursive and writer_thread, outside the       *)
(* mutex, is turned away.                                                  *)
THEOREM OneOwner == Spec => []RwOneOwner
<1>1. RwSafe => RwOneOwner
  BY DEF RwSafe, RwInv, RwRights, RwGranted, RwOwner, RwOneOwner
<1> QED BY <1>1, RwSafeInit, RwSafeNext, PTL DEF Spec

-----------------------------------------------------------------------------
(* The account of the grants in lock_word, outside any call and within.    *)

(* t has changed the word for a grant that is not counted yet.             *)
RwGrantDue(t) ==
  \/ pc[t] \in {"s_lock", "s_thread", "s_rec", "s_unlock", "last"}
  \/ pc[t] = "d_unlock" /\ reg[t].ok

RwMade(t) == IF RwGrantDue(t) THEN env.grants[t] + 1 ELSE env.grants[t]

(* The word after n grants.                                                *)
RwCount(n) ==
  IF n <= 3
  THEN 3 * X_LOCK_HALF_DECR - n * X_LOCK_DECR
  ELSE 3 * X_LOCK_HALF_DECR - 3 * X_LOCK_DECR - (n - 3)

(* t is on its way to a grant after the second.                            *)
RwFurther(t) ==
  \/ pc[t] \in {"again", "again_w"}
  \/ pc[t] = "d_unlock" /\ ~ reg[t].ok /\ reg[t].thr = 0

RwCounted ==
  /\ \A t \in Taker :
       /\ env.grants[t] \in Nat
       /\ RwOwns(t) => RwMade(t) > 0
       /\ RwMade(t) > 0 => Load(t, "lock_word") = RwCount(RwMade(t))
       /\ RwMade(t) = 0 => \A e \in Entries(t) : e.loc # "lock_word"
       /\ RwFurther(t) => RwMade(t) >= 2
       /\ pc[t] = "again_w" => reg[t].word = Load(t, "lock_word")
  /\ (\A t \in Taker : RwMade(t) = 0) => mem["lock_word"] = 3 * X_LOCK_HALF_DECR

(* The word after any number of grants, in arithmetic.                     *)
LEMMA RwCountFacts ==
  /\ RwCount(0) = 3 * X_LOCK_HALF_DECR /\ RwCount(1) = X_LOCK_HALF_DECR
  /\ RwCount(1) = RwCount(0) - X_LOCK_DECR /\ RwCount(2) = RwCount(1) - X_LOCK_DECR
  /\ \A n \in Nat : /\ RwCount(n) \in Int
                    /\ n >= 1 => RwCount(n) <= X_LOCK_HALF_DECR
                    /\ n >= 2 => RwCount(n) <= 0
                    /\ n >= 2 => RwCount(n) - RwAmount(RwCount(n)) = RwCount(n + 1)
<1>1. \A n \in Nat : RwCount(n) = IF n <= 3 THEN 805306368 - n * 536870912
                                            ELSE -805306368 - (n - 3)
  BY SMT DEF RwCount, X_LOCK_DECR, X_LOCK_HALF_DECR
<1>2. RwCount(0) = 805306368 /\ RwCount(1) = 268435456 /\ RwCount(2) = -268435456
      /\ RwCount(3) = -805306368
  BY <1>1
<1>3. \A n \in Nat : n >= 4 => RwCount(n) = -805306368 - (n - 3)
  BY <1>1
<1>4. X_LOCK_DECR = 536870912 /\ X_LOCK_HALF_DECR = 268435456
  BY SMT DEF X_LOCK_DECR, X_LOCK_HALF_DECR
<1>5. ASSUME NEW n \in Nat
      PROVE  /\ RwCount(n) \in Int
             /\ n >= 1 => RwCount(n) <= X_LOCK_HALF_DECR
             /\ n >= 2 => RwCount(n) <= 0
             /\ n >= 2 => RwCount(n) - RwAmount(RwCount(n)) = RwCount(n + 1)
  <2>1. n \in {0, 1, 2, 3} \/ n >= 4
    OBVIOUS
  <2>2. CASE n >= 4
    <3>1. n + 1 \in Nat /\ n + 1 >= 4
      BY <2>2
    <3>2. RwCount(n) = -805306368 - (n - 3) /\ RwCount(n + 1) = -805306368 - (n + 1 - 3)
      BY <1>3, <2>2, <3>1
    <3> QED BY <1>4, <2>2, <3>2 DEF RwAmount
  <2>3. CASE n = 0 \/ n = 1
    BY <1>2, <1>4, <2>3
  <2>4. CASE n = 2
    BY <1>2, <1>4, <2>4 DEF RwAmount
  <2>5. CASE n = 3
    <3>1. RwCount(n + 1) = -805306368 - 1
      BY <1>3, <2>5
    <3> QED BY <1>2, <1>4, <2>5, <3>1 DEF RwAmount
  <2> QED BY <2>1, <2>2, <2>3, <2>4, <2>5
<1> QED BY <1>2, <1>4, <1>5

(* Whoever has made a grant owns the lock, and the owner has made one.     *)
LEMMA RwMadeOwns ==
  ASSUME RwInv, RwCounted, NEW t \in Taker
  PROVE  /\ env.grants[t] \in Nat /\ RwMade(t) \in Nat
         /\ RwMade(t) > 0 <=> RwOwns(t)
         /\ RwOwns(t) => \A u \in Taker : u # t => ~ RwOwns(u)
<1>1. env.grants[t] \in Nat
  BY DEF RwCounted
<1>2. RwMade(t) \in Nat
  BY <1>1 DEF RwMade
<1>3. RwGranted(t) => RwOwns(t)
  BY DEF RwInv, RwRights
<1>4. ASSUME RwGrantDue(t) PROVE RwOwns(t)
  <2>1. CASE pc[t] \in {"s_lock", "s_thread", "s_rec", "s_unlock", "last"}
    BY <1>3, <2>1 DEF RwOwns, RwGranted
  <2>2. CASE pc[t] = "d_unlock" /\ reg[t].ok
    <3>1. reg[t].thr \in {0, X_LOCK_HALF_DECR}
      BY TakersAreNotMain DEF RwInv, RwTypes, RwReg
    <3>2. reg[t].thr = 0 => RwGranted(t)
      BY <2>2 DEF RwGranted
    <3>3. reg[t].thr = X_LOCK_HALF_DECR => FirstGrant(t)
      BY <2>2, Zenon DEF FirstGrant
    <3> QED BY <1>3, <3>1, <3>2, <3>3 DEF RwOwns
  <2> QED BY <1>4, <2>1, <2>2, Zenon DEF RwGrantDue
<1>5. RwMade(t) > 0 => RwOwns(t)
  <2>1. RwMade(t) > 0 => RwGrantDue(t) \/ env.grants[t] > 0
    BY DEF RwMade
  <2> QED BY <1>3, <1>4, <2>1 DEF RwGranted
<1>6. RwOwns(t) => RwMade(t) > 0
  BY DEF RwCounted
<1>7. RwOwns(t) => \A u \in Taker : u # t => ~ RwOwns(u)
  BY DEF RwInv, RwOwner
<1> QED BY <1>1, <1>2, <1>5, <1>6, <1>7

(* A step of t that changes neither the buffers nor what memory says of    *)
(* the lock, and makes no grant.                                           *)
LEMMA RwMoveCount ==
  ASSUME RwInv, RwCounted, NEW t \in Taker, env' = env, buf' = buf,
         mem'["lock_word"] = mem["lock_word"],
         mem'["writer_thread"] = mem["writer_thread"],
         \A u \in Taker : u # t => pc'[u] = pc[u] /\ reg'[u] = reg[u],
         RwGrantDue(t)' <=> RwGrantDue(t),
         FirstGrant(t)' \/ pc'[t] \in {"s_lock", "s_thread"} => RwOwns(t),
         RwFurther(t)' => RwMade(t) >= 2,
         pc'[t] = "again_w" => reg'[t].word = Load(t, "lock_word")
  PROVE  RwCounted'
<1>1. \A u \in Taker : Entries(u)' = Entries(u)
  BY DEF Entries
<1>2. \A u \in Taker : Load(u, "lock_word")' = Load(u, "lock_word")
  <2> SUFFICES ASSUME NEW u \in Taker PROVE Load(u, "lock_word")' = Load(u, "lock_word")
    OBVIOUS
  <2>1. /\ Load(u, "lock_word") = Newest(buf[u], mem, "lock_word")
        /\ Load(u, "lock_word")' = Newest(buf'[u], mem', "lock_word")
    BY LoadIsNewest
  <2>2. Newest(buf'[u], mem', "lock_word") = Newest(buf[u], mem, "lock_word")
    BY DEF Newest
  <2> QED BY <2>1, <2>2
<1>3. \A u \in Taker : RwGrantDue(u)' <=> RwGrantDue(u)
  <2>1. ASSUME NEW u \in Taker, u # t PROVE RwGrantDue(u)' <=> RwGrantDue(u)
    <3>1. pc'[u] = pc[u] /\ reg'[u] = reg[u]
      BY <2>1
    <3> QED BY <3>1, Zenon DEF RwGrantDue
  <2> QED BY <2>1
<1>4. \A u \in Taker : RwMade(u)' = RwMade(u)
  BY <1>3 DEF RwMade
<1>5. ASSUME NEW u \in Taker, RwOwns(u)' PROVE RwOwns(u)
  <2>1. CASE u = t
    BY <1>1, <1>5, <2>1 DEF RwOwns
  <2>2. CASE u # t
    <3>1. pc'[u] = pc[u] /\ reg'[u] = reg[u]
      BY <2>2
    <3>2. FirstGrant(u)' <=> FirstGrant(u)
      BY <3>1, Zenon DEF FirstGrant
    <3> QED BY <1>1, <1>5, <3>1, <3>2 DEF RwOwns
  <2> QED BY <2>1, <2>2
<1>6. ASSUME NEW u \in Taker, RwFurther(u)' PROVE RwMade(u) >= 2
  <2>1. CASE u = t
    BY <1>6, <2>1
  <2>2. CASE u # t
    <3>1. pc'[u] = pc[u] /\ reg'[u] = reg[u]
      BY <2>2
    <3>2. RwFurther(u)
      BY <1>6, <3>1, Zenon DEF RwFurther
    <3> QED BY <3>2 DEF RwCounted
  <2> QED BY <2>1, <2>2
<1>7. \A u \in Taker : pc'[u] = "again_w" => reg'[u].word = Load(u, "lock_word")
  BY DEF RwCounted
<1> QED BY <1>1, <1>2, <1>4, <1>5, <1>6, <1>7 DEF RwCounted

(* A store of the owner, or of the thread that becomes the owner.          *)
LEMMA RwPutCount ==
  ASSUME RwInv, RwCounted, NEW t \in Taker, NEW x \in RwLoc, NEW v \in Int,
         Put(t, x, v, FALSE),
         \A u \in Taker : u # t => /\ pc'[u] = pc[u] /\ reg'[u] = reg[u]
                                   /\ env'.grants[u] = env.grants[u] /\ ~ RwOwns(u),
         env'.grants[t] \in Nat, RwMade(t)' > 0,
         ~ RwFurther(t)', pc'[t] # "again_w",
         x = "lock_word" => v = RwCount(RwMade(t)'),
         x # "lock_word" => RwMade(t)' = RwMade(t)
  PROVE  RwCounted'
<1>1. /\ mem' = mem
      /\ \A u \in All : u # t => Entries(u)' = Entries(u)
  <2>1. MemOK(All, RwLoc, Int) /\ Weak /\ t \in All
    BY TakersAreNotMain DEF RwInv, RwTypes
  <2>2. Adds(All, RwLoc, Int, t, x, v)
    <3>1. FALSE \in BOOLEAN
      OBVIOUS
    <3> QED BY <2>1, <3>1, PutAdds, Zenon
  <2> QED BY <2>2 DEF Adds
<1>2. /\ Load(t, x)' = v
      /\ \A y \in RwLoc : y # x => Load(t, y)' = Load(t, y)
  <2>1. MemOK(All, RwLoc, Int) /\ Weak /\ t \in All /\ FALSE \in BOOLEAN
    BY TakersAreNotMain DEF RwInv, RwTypes
  <2>2. ReadsBack(RwLoc, t, x, v)
    BY <2>1, LoadAfterPut, Zenon
  <2> QED BY <2>2 DEF ReadsBack
<1>3. ASSUME NEW u \in Taker, u # t
      PROVE  /\ ~ RwOwns(u)' /\ RwMade(u)' = 0 /\ RwMade(u) = 0
             /\ ~ RwFurther(u)' /\ pc'[u] # "again_w"
             /\ env'.grants[u] \in Nat
             /\ \A e \in Entries(u)' : e.loc # "lock_word"
  <2>1. /\ pc'[u] = pc[u] /\ reg'[u] = reg[u] /\ env'.grants[u] = env.grants[u]
        /\ ~ RwOwns(u) /\ Entries(u)' = Entries(u)
    BY <1>1, <1>3, TakersAreNotMain
  <2>2. (FirstGrant(u)' <=> FirstGrant(u)) /\ (RwGrantDue(u)' <=> RwGrantDue(u))
        /\ (RwFurther(u)' <=> RwFurther(u))
    BY <2>1, Zenon DEF FirstGrant, RwGrantDue, RwFurther
  <2>3. ~ RwOwns(u)'
    BY <1>1, <2>1, <2>2 DEF RwOwns
  <2>4. RwMade(u) = 0 /\ env.grants[u] \in Nat
    BY <2>1, RwMadeOwns
  <2>5. RwMade(u)' = RwMade(u)
    BY <2>1, <2>2 DEF RwMade
  <2>6. ~ RwFurther(u) /\ \A e \in Entries(u) : e.loc # "lock_word"
    BY <2>4 DEF RwCounted
  <2>7. pc[u] # "again_w"
    BY <2>6 DEF RwFurther
  <2> QED BY <2>1, <2>2, <2>3, <2>4, <2>5, <2>6, <2>7
<1>4. Load(t, "lock_word")' = RwCount(RwMade(t)')
  <2>1. CASE x = "lock_word"
    BY <1>2, <2>1
  <2>2. CASE x # "lock_word"
    <3>1. Load(t, "lock_word")' = Load(t, "lock_word")
      BY <1>2, <2>2 DEF RwLoc
    <3> QED BY <2>2, <3>1 DEF RwCounted
  <2> QED BY <2>1, <2>2
<1> QED BY <1>3, <1>4 DEF RwCounted

(* The call changes no count.                                              *)
LEMMA RwCallCount ==
  ASSUME RwInv, RwCounted, NEW t \in Taker, RwCall(t), UNCHANGED rigid
  PROVE  RwCounted'
<1>1. /\ env' = env /\ buf' = buf /\ mem' = mem
      /\ pc[t] = "call" /\ \E to \in {"d_lock", "done"} : pc' = [pc EXCEPT ![t] = to]
      /\ \A u \in Taker : u # t => reg'[u] = reg[u]
  BY TakersAreNotMain DEF RwCall, Local, Go, Keep, Silent, RwInv, RwTypes
<1>2. /\ pc'[t] \in {"d_lock", "done"}
      /\ \A u \in Taker : u # t => pc'[u] = pc[u]
  BY <1>1, TakersAreNotMain DEF RwInv, RwTypes
<1>3. /\ ~ RwGrantDue(t) /\ ~ RwGrantDue(t)' /\ ~ RwFurther(t)' /\ ~ FirstGrant(t)'
  BY <1>1, <1>2, Zenon DEF RwGrantDue, RwFurther, FirstGrant
<1> QED BY <1>1, <1>2, <1>3, RwMoveCount

(* Taking the mutex changes no count.                                      *)
LEMMA RwLockCount ==
  ASSUME RwInv, RwCounted, NEW t \in Taker, Keep,
         \/ MutexLock(t, "d_lock", "mutex", "d_test")
         \/ MutexLock(t, "s_lock", "mutex", "s_thread")
  PROVE  RwCounted'
<1>1. /\ env' = env /\ reg' = reg /\ buf' = buf /\ mem' = [mem EXCEPT !["mutex"] = 1]
      /\ \/ pc[t] = "d_lock" /\ pc' = [pc EXCEPT ![t] = "d_test"]
         \/ pc[t] = "s_lock" /\ pc' = [pc EXCEPT ![t] = "s_thread"]
  BY DEF MutexLock, Go, Keep, SetMem, SC!SetMem
<1>2. /\ \/ pc[t] = "d_lock" /\ pc'[t] = "d_test"
         \/ pc[t] = "s_lock" /\ pc'[t] = "s_thread"
      /\ \A u \in Taker : u # t => pc'[u] = pc[u]
      /\ mem'["lock_word"] = mem["lock_word"]
      /\ mem'["writer_thread"] = mem["writer_thread"]
  BY <1>1, TakersAreNotMain DEF RwInv, RwTypes, MemOK, RwLoc
<1>3. /\ RwGrantDue(t)' <=> RwGrantDue(t)
      /\ ~ RwFurther(t)' /\ ~ FirstGrant(t)' /\ pc'[t] # "again_w"
      /\ pc'[t] \in {"s_lock", "s_thread"} => RwOwns(t)
  BY <1>2, Zenon DEF RwGrantDue, RwFurther, FirstGrant, RwOwns
<1> QED BY <1>1, <1>2, <1>3, RwMoveCount

(* Releasing the mutex changes no count.                                   *)
LEMMA RwUnlockCount ==
  ASSUME RwInv, RwCounted, NEW t \in Taker, Keep,
         \/ MutexUnlock(t, "d_unlock", "mutex",
                        CASE reg[t].ok /\ reg[t].thr = RwThreshold -> "s_lock"
                          [] reg[t].ok /\ reg[t].thr = 0           -> "last"
                          [] ~ reg[t].ok /\ reg[t].thr = 0         -> "again"
                          [] OTHER                                 -> "check")
         \/ MutexUnlock(t, "s_unlock", "mutex", "last")
  PROVE  RwCounted'
<1>1. PICK ok \in BOOLEAN, thr \in {0, X_LOCK_HALF_DECR} : reg[t].ok = ok /\ reg[t].thr = thr
  <2>1. reg[t] \in RwReg
    BY TakersAreNotMain DEF RwInv, RwTypes
  <2> QED BY <2>1, Zenon DEF RwReg
<1>2. /\ env' = env /\ reg' = reg /\ buf' = buf /\ mem' = [mem EXCEPT !["mutex"] = 0]
      /\ \/ /\ pc[t] = "d_unlock"
            /\ \/ ok /\ thr = X_LOCK_HALF_DECR /\ pc' = [pc EXCEPT ![t] = "s_lock"]
               \/ ok /\ thr = 0 /\ pc' = [pc EXCEPT ![t] = "last"]
               \/ ~ ok /\ thr = 0 /\ pc' = [pc EXCEPT ![t] = "again"]
               \/ ~ ok /\ pc' = [pc EXCEPT ![t] = "check"]
         \/ pc[t] = "s_unlock" /\ pc' = [pc EXCEPT ![t] = "last"]
  BY <1>1, RwAmounts DEF MutexUnlock, Go, Keep, SetMem, SC!SetMem, RwThreshold
<1>3. /\ \A u \in Taker : u # t => pc'[u] = pc[u]
      /\ mem'["lock_word"] = mem["lock_word"]
      /\ mem'["writer_thread"] = mem["writer_thread"]
      /\ \/ /\ pc[t] = "d_unlock"
            /\ \/ ok /\ thr = X_LOCK_HALF_DECR /\ pc'[t] = "s_lock"
               \/ ok /\ thr = 0 /\ pc'[t] = "last"
               \/ ~ ok /\ thr = 0 /\ pc'[t] = "again"
               \/ ~ ok /\ pc'[t] = "check"
         \/ pc[t] = "s_unlock" /\ pc'[t] = "last"
  BY <1>2, TakersAreNotMain DEF RwInv, RwTypes, MemOK, RwLoc
<1>4. RwGrantDue(t)' <=> RwGrantDue(t)
  BY <1>1, <1>3, Zenon DEF RwGrantDue
<1>5. pc'[t] # "again_w" /\ ~ FirstGrant(t)' /\ pc'[t] # "s_thread"
  BY <1>3, Zenon DEF FirstGrant
<1>6. pc'[t] = "s_lock" => RwOwns(t)
  BY <1>1, <1>3, Zenon DEF RwOwns, FirstGrant
<1>7. RwFurther(t)' => RwMade(t) >= 2
  <2>1. RwFurther(t)' => RwFurther(t)
    BY <1>1, <1>3, Zenon DEF RwFurther
  <2> QED BY <2>1 DEF RwCounted
<1> QED BY <1>2, <1>3, <1>4, <1>5, <1>6, <1>7, RwMoveCount

(* lock_word > threshold, and what follows from the answer.                *)
LEMMA RwTestCount ==
  ASSUME RwInv, RwCounted, NEW t \in Taker, UNCHANGED env,
         Go(t, "d_test", "d_unlock"), RwFlagged(t),
         NEW w, w = Load(t, "lock_word"),
         \/ w > reg[t].thr /\ reg'[t].ok /\ Put(t, "lock_word", w - X_LOCK_DECR, FALSE)
         \/ ~ (w > reg[t].thr) /\ ~ reg'[t].ok /\ Silent
  PROVE  RwCounted'
<1>1. /\ pc[t] = "d_test" /\ pc'[t] = "d_unlock" /\ RwHolds(t) /\ ~ FirstGrant(t)
      /\ ~ RwGrantDue(t)
      /\ \A u \in Taker : u # t => pc'[u] = pc[u] /\ reg'[u] = reg[u]
  BY TakersAreNotMain DEF Go, RwInv, RwTypes, RwHolds, FirstGrant, RwFlagged, RwGrantDue
<1>2. /\ w \in Int
      /\ (\E u \in Taker : RwOwns(u)) => w <= X_LOCK_HALF_DECR
  BY <1>1, RwWordRead
<1>3. reg'[t].thr = reg[t].thr /\ reg[t].thr \in {0, X_LOCK_HALF_DECR}
  BY TakersAreNotMain DEF RwFlagged, RwInv, RwTypes, RwReg
<1>4. PICK g \in Nat : g = env.grants[t] /\ RwMade(t) = g
  BY <1>1 DEF RwCounted, RwMade
<1>5. reg[t].thr = 0 => RwOwns(t) /\ g >= 1 /\ w = RwCount(g)
  <2>1. reg[t].thr = 0 => RwOwns(t)
    BY <1>1 DEF RwInv, RwRights, RwGranted
  <2> QED BY <1>4, <2>1 DEF RwCounted
<1>6. CASE w > reg[t].thr /\ reg'[t].ok /\ Put(t, "lock_word", w - X_LOCK_DECR, FALSE)
  <2>1. RwGrantDue(t)' /\ ~ RwFurther(t)'
    BY <1>1, <1>6, Zenon DEF RwGrantDue, RwFurther
  <2>2. RwMade(t)' = g + 1
    BY <1>4, <2>1 DEF RwMade
  <2>3. /\ \A u \in Taker : u # t => ~ RwOwns(u)
        /\ w - X_LOCK_DECR = RwCount(g + 1)
    <3>1. CASE reg[t].thr = 0
      <4>1. g = 1
        BY <1>3, <1>5, <1>6, <3>1, RwCountFacts
      <4> QED BY <1>5, <3>1, <4>1, RwMadeOwns, RwCountFacts
    <3>2. CASE reg[t].thr = X_LOCK_HALF_DECR
      <4>1. \A u \in Taker : ~ RwOwns(u)
        <5>1. ~ (w <= X_LOCK_HALF_DECR)
          BY <1>2, <1>6, <3>2, RwAmounts
        <5> QED BY <1>2, <5>1
      <4>2. \A u \in Taker : RwMade(u) = 0
        BY <4>1, RwMadeOwns
      <4>3. mem["lock_word"] = 3 * X_LOCK_HALF_DECR /\ \A e \in Entries(t) : e.loc # "lock_word"
        BY <4>2 DEF RwCounted
      <4>4. w = mem["lock_word"]
        <5>1. MemOK(All, RwLoc, Int) /\ t \in All /\ "lock_word" \in RwLoc
          BY TakersAreNotMain DEF RwInv, RwTypes, RwLoc
        <5> QED BY <4>3, <5>1, LoadEntries
      <4>5. g = 0
        BY <1>4, <4>2
      <4> QED BY <4>1, <4>3, <4>4, <4>5, RwCountFacts
    <3> QED BY <1>3, <3>1, <3>2
  <2>4. PICK v \in Int, x \in RwLoc :
          v = w - X_LOCK_DECR /\ x = "lock_word" /\ Put(t, x, v, FALSE)
    <3>1. w - X_LOCK_DECR \in Int /\ "lock_word" \in RwLoc
      BY <1>2, RwAmounts DEF RwLoc
    <3> QED BY <1>6, <3>1, Zenon
  <2>5. env'.grants[t] \in Nat /\ \A u \in Taker : env'.grants[u] = env.grants[u]
    BY <1>4
  <2>6. g + 1 > 0 /\ pc'[t] # "again_w"
    BY <1>1
  <2> QED BY <1>1, <2>1, <2>2, <2>3, <2>4, <2>5, <2>6, RwPutCount
<1>7. CASE ~ (w > reg[t].thr) /\ ~ reg'[t].ok /\ Silent
  <2>1. ~ RwGrantDue(t)' /\ ~ FirstGrant(t)' /\ pc'[t] # "again_w"
    BY <1>1, <1>7, Zenon DEF RwGrantDue, FirstGrant
  <2>2. RwFurther(t)' => RwMade(t) >= 2
    <3>1. RwFurther(t)' => reg[t].thr = 0
      BY <1>1, <1>3, Zenon DEF RwFurther
    <3>2. reg[t].thr = 0 => g # 1
      BY <1>5, <1>7, RwCountFacts, RwAmounts
    <3> QED BY <1>4, <1>5, <3>1, <3>2
  <2>3. mem' = mem /\ buf' = buf /\ pc'[t] \notin {"s_lock", "s_thread"}
    BY <1>1, <1>7 DEF Silent
  <2> QED BY <1>1, <2>1, <2>2, <2>3, RwMoveCount
<1> QED BY <1>6, <1>7

(* The decrement of the word is counted when it is granted.                *)
LEMMA RwDecrCount ==
  ASSUME RwInv, RwCounted, NEW t \in Taker, UNCHANGED rigid, RwDecr(t)
  PROVE  RwCounted'
<1>1. CASE MutexLock(t, "d_lock", "mutex", "d_test") /\ Keep
  BY <1>1, RwLockCount
<1>2. CASE /\ Go(t, "d_test", "d_unlock")
           /\ reg' = [reg EXCEPT ![t].ok = Load(t, "lock_word") > reg[t].thr]
           /\ IF Load(t, "lock_word") > reg[t].thr
              THEN Put(t, "lock_word", Load(t, "lock_word") - X_LOCK_DECR, FALSE) ELSE Silent
           /\ UNCHANGED env
  <2>1. PICK w : w = Load(t, "lock_word")
    OBVIOUS
  <2>2. CASE w > reg[t].thr
    <3>1. reg' = [reg EXCEPT ![t].ok = TRUE]
      BY <1>2, <2>1, <2>2, Zenon
    <3>2. RwFlagged(t) /\ reg'[t].ok
      BY <3>1, RwFlag, Zenon
    <3>3. Put(t, "lock_word", w - X_LOCK_DECR, FALSE)
      BY <1>2, <2>1, <2>2, Zenon
    <3> QED BY <1>2, <2>1, <2>2, <3>2, <3>3, RwTestCount, Zenon
  <2>3. CASE ~ (w > reg[t].thr)
    <3>1. (w > reg[t].thr) \in BOOLEAN
      OBVIOUS
    <3>2. RwFlagged(t) /\ reg'[t].ok = (w > reg[t].thr)
      BY <1>2, <2>1, <3>1, RwFlag, Zenon
    <3>3. ~ reg'[t].ok
      BY <2>3, <3>2, Zenon
    <3>4. Silent
      BY <1>2, <2>1, <2>3, Zenon
    <3> QED BY <1>2, <2>1, <2>3, <3>2, <3>3, <3>4, RwTestCount, Zenon
  <2> QED BY <2>2, <2>3
<1>3. CASE /\ MutexUnlock(t, "d_unlock", "mutex",
                          CASE reg[t].ok /\ reg[t].thr = RwThreshold -> "s_lock"
                            [] reg[t].ok /\ reg[t].thr = 0           -> "last"
                            [] ~ reg[t].ok /\ reg[t].thr = 0         -> "again"
                            [] OTHER                                 -> "check")
           /\ Keep
  BY <1>3, RwUnlockCount
<1> QED BY <1>1, <1>2, <1>3, Zenon DEF RwDecr

(* A store by the one that is being granted the lock, to another word.     *)
LEMMA RwOwnerCount ==
  ASSUME RwInv, RwCounted, NEW t \in Taker, UNCHANGED <<reg, env>>,
         NEW x \in RwLoc, x # "lock_word", NEW v \in Int, Put(t, x, v, FALSE),
         \/ pc[t] = "s_thread" /\ pc' = [pc EXCEPT ![t] = "s_rec"]
         \/ pc[t] = "s_rec" /\ pc' = [pc EXCEPT ![t] = "s_unlock"]
  PROVE  RwCounted'
<1>1. /\ pc[t] \in {"s_thread", "s_rec"} /\ pc'[t] \in {"s_rec", "s_unlock"}
      /\ \A u \in Taker : u # t => pc'[u] = pc[u]
  BY TakersAreNotMain DEF RwInv, RwTypes
<1>2. RwGrantDue(t) /\ RwGrantDue(t)' /\ ~ RwFurther(t)' /\ pc'[t] # "again_w"
  BY <1>1, Zenon DEF RwGrantDue, RwFurther
<1>3. RwMade(t)' = RwMade(t) /\ RwMade(t) > 0 /\ env.grants[t] \in Nat
  BY <1>2 DEF RwMade, RwCounted
<1>4. \A u \in Taker : u # t => ~ RwOwns(u)
  BY <1>3, RwMadeOwns
<1>5. env'.grants[t] \in Nat /\ RwMade(t)' > 0
      /\ \A u \in Taker : u # t => /\ pc'[u] = pc[u] /\ reg'[u] = reg[u]
                                   /\ env'.grants[u] = env.grants[u] /\ ~ RwOwns(u)
  BY <1>1, <1>3, <1>4
<1> QED BY <1>2, <1>3, <1>5, RwPutCount

(* The statements that name the writer change no count.                    *)
LEMMA RwSetWriterCount ==
  ASSUME RwInv, RwCounted, NEW t \in Taker, RwSetWriter(t)
  PROVE  RwCounted'
<1>1. CASE MutexLock(t, "s_lock", "mutex", "s_thread") /\ Keep
  BY <1>1, RwLockCount
<1>2. CASE Write(t, "s_thread", "writer_thread", t, "s_rec") /\ Keep
  <2>1. PICK x \in RwLoc, v \in Int : x = "writer_thread" /\ v = t /\ Put(t, x, v, FALSE)
    <3>1. "writer_thread" \in RwLoc /\ t \in Int
      BY TakerAssumption DEF RwLoc
    <3> QED BY <1>2, <3>1, Zenon DEF Write
  <2>2. /\ pc[t] = "s_thread" /\ pc' = [pc EXCEPT ![t] = "s_rec"]
        /\ UNCHANGED <<reg, env>> /\ x # "lock_word"
    BY <1>2, <2>1 DEF Write, Go, Keep
  <2> QED BY <2>1, <2>2, RwOwnerCount
<1>3. CASE Write(t, "s_rec", "recursive", 1, "s_unlock") /\ Keep
  <2>1. PICK x \in RwLoc, v \in Int : x = "recursive" /\ v = 1 /\ Put(t, x, v, FALSE)
    <3>1. "recursive" \in RwLoc /\ 1 \in Int
      BY DEF RwLoc
    <3> QED BY <1>3, <3>1, Zenon DEF Write
  <2>2. /\ pc[t] = "s_rec" /\ pc' = [pc EXCEPT ![t] = "s_unlock"]
        /\ UNCHANGED <<reg, env>> /\ x # "lock_word"
    BY <1>3, <2>1 DEF Write, Go, Keep
  <2> QED BY <2>1, <2>2, RwOwnerCount
<1>4. CASE MutexUnlock(t, "s_unlock", "mutex", "last") /\ Keep
  BY <1>4, RwUnlockCount
<1> QED BY <1>1, <1>2, <1>3, <1>4 DEF RwSetWriter

(* The call returns 1: the grant is counted.                               *)
LEMMA RwLastCount ==
  ASSUME RwInv, RwCounted, NEW t \in Taker, RwLast(t)
  PROVE  RwCounted'
<1>1. PICK x \in RwLoc, v \in Int : x = "last_x" /\ v = t /\ Put(t, x, v, FALSE)
  <2>1. "last_x" \in RwLoc /\ t \in Int
    BY TakerAssumption DEF RwLoc
  <2> QED BY <2>1, Zenon DEF RwLast, Write
<1>2. /\ pc[t] = "last" /\ pc' = [pc EXCEPT ![t] = "call"]
      /\ reg' = reg /\ env' = [env EXCEPT !.grants[t] = @ + 1] /\ x # "lock_word"
  BY <1>1 DEF RwLast, Write, Go
<1>3. /\ pc'[t] = "call" /\ env'.grants[t] = env.grants[t] + 1
      /\ \A u \in Taker : u # t => pc'[u] = pc[u] /\ env'.grants[u] = env.grants[u]
  BY <1>2, TakersAreNotMain DEF RwInv, RwTypes
<1>4. RwGrantDue(t) /\ ~ RwGrantDue(t)' /\ ~ RwFurther(t)' /\ pc'[t] # "again_w"
  BY <1>2, <1>3, Zenon DEF RwGrantDue, RwFurther
<1>5. /\ RwMade(t)' = RwMade(t) /\ RwMade(t)' > 0 /\ RwMade(t) > 0
      /\ env'.grants[t] \in Nat
  BY <1>3, <1>4 DEF RwMade, RwCounted
<1>6. \A u \in Taker : u # t => ~ RwOwns(u)
  BY <1>5, RwMadeOwns
<1>7. \A u \in Taker : u # t => /\ pc'[u] = pc[u] /\ reg'[u] = reg[u]
                                /\ env'.grants[u] = env.grants[u] /\ ~ RwOwns(u)
  BY <1>2, <1>3, <1>6
<1> QED BY <1>1, <1>2, <1>4, <1>5, <1>7, RwPutCount

(* Nor does the look at what the attempt returned.                         *)
LEMMA RwCheckCount ==
  ASSUME RwInv, RwCounted, NEW t \in Taker, RwCheck(t)
  PROVE  RwCounted'
<1>1. /\ env' = env /\ buf' = buf /\ mem' = mem
      /\ pc[t] = "check"
      /\ \E to \in {"check", "d_lock", "call"} : pc' = [pc EXCEPT ![t] = to]
      /\ \A u \in Taker : u # t => reg'[u] = reg[u]
  BY TakersAreNotMain DEF RwCheck, Read, Local, Go, Silent, RwInv, RwTypes
<1>2. /\ pc'[t] \in {"check", "d_lock", "call"}
      /\ \A u \in Taker : u # t => pc'[u] = pc[u]
  BY <1>1, TakersAreNotMain DEF RwInv, RwTypes
<1>3. ~ RwGrantDue(t) /\ ~ RwGrantDue(t)' /\ ~ RwFurther(t)' /\ ~ FirstGrant(t)'
      /\ pc'[t] \notin {"s_lock", "s_thread", "again_w"}
  BY <1>1, <1>2, Zenon DEF RwGrantDue, RwFurther, FirstGrant
<1> QED BY <1>1, <1>2, <1>3, RwMoveCount

(* A further grant: the store is of the word that the load found.          *)
LEMMA RwAgainCount ==
  ASSUME RwInv, RwCounted, NEW t \in Taker, RwAgain(t)
  PROVE  RwCounted'
<1>1. pc \in [All -> RwPC] /\ reg \in [All -> RwReg] /\ t \in All /\ reg[t] \in RwReg
  BY TakersAreNotMain DEF RwInv, RwTypes
<1>2. CASE Read(t, "again", "word", "lock_word", "again_w") /\ UNCHANGED env
  <2> DEFINE w == Load(t, "lock_word")
  <2>1. /\ pc[t] = "again" /\ pc' = [pc EXCEPT ![t] = "again_w"]
        /\ reg' = [reg EXCEPT ![t] = [reg[t] EXCEPT !.word = w]]
        /\ env' = env /\ mem' = mem /\ buf' = buf
    BY <1>1, <1>2 DEF Read, Go, Silent
  <2>2. reg'[t].word = w /\ \A u \in Taker : u # t => reg'[u] = reg[u]
    <3>1. [reg[t] EXCEPT !.word = w].word = w
      BY <1>1 DEF RwReg
    <3> QED BY <1>1, <2>1, <3>1, TakersAreNotMain
  <2> HIDE DEF w
  <2>3. pc'[t] = "again_w" /\ \A u \in Taker : u # t => pc'[u] = pc[u]
    BY <1>1, <2>1, TakersAreNotMain
  <2>4. ~ RwGrantDue(t) /\ ~ RwGrantDue(t)' /\ ~ FirstGrant(t)' /\ RwFurther(t)
    BY <2>1, <2>3, Zenon DEF RwGrantDue, RwFurther, FirstGrant
  <2>5. RwMade(t) >= 2
    BY <2>4 DEF RwCounted
  <2>6. reg'[t].word = Load(t, "lock_word")
    BY <2>2 DEF w
  <2> QED BY <2>1, <2>2, <2>3, <2>4, <2>5, <2>6, RwMoveCount
<1>3. CASE Write(t, "again_w", "lock_word", reg[t].word - RwAmount(reg[t].word), "last") /\ Keep
  <2>1. /\ pc[t] = "again_w" /\ pc' = [pc EXCEPT ![t] = "last"]
        /\ reg' = reg /\ env' = env
    BY <1>3 DEF Write, Go, Keep
  <2>2. pc'[t] = "last" /\ \A u \in Taker : u # t => pc'[u] = pc[u]
    BY <1>1, <2>1, TakersAreNotMain
  <2>3. ~ RwGrantDue(t) /\ RwGrantDue(t)' /\ ~ RwFurther(t)' /\ RwFurther(t)
        /\ pc'[t] # "again_w"
    BY <2>1, <2>2, Zenon DEF RwGrantDue, RwFurther
  <2>4. PICK n \in Nat : n = env.grants[t] /\ RwMade(t) = n /\ n >= 2
    BY <2>3 DEF RwCounted, RwMade
  <2>5. RwMade(t)' = n + 1 /\ env'.grants[t] \in Nat /\ RwMade(t)' > 0
    BY <2>1, <2>3, <2>4 DEF RwMade
  <2>6. reg[t].word = RwCount(n)
    BY <2>1, <2>4 DEF RwCounted
  <2>7. reg[t].word - RwAmount(reg[t].word) = RwCount(n + 1) /\ RwCount(n + 1) \in Int
    BY <2>4, <2>6, RwCountFacts
  <2>8. PICK x \in RwLoc, v \in Int :
          x = "lock_word" /\ v = RwCount(n + 1) /\ Put(t, x, v, FALSE)
    <3>1. "lock_word" \in RwLoc
      BY DEF RwLoc
    <3> QED BY <1>3, <2>7, <3>1, Zenon DEF Write
  <2>9. \A u \in Taker : u # t => /\ pc'[u] = pc[u] /\ reg'[u] = reg[u]
                                  /\ env'.grants[u] = env.grants[u] /\ ~ RwOwns(u)
    BY <2>1, <2>2, <2>4, RwMadeOwns
  <2> QED BY <2>3, <2>5, <2>8, <2>9, RwPutCount
<1> QED BY <1>2, <1>3 DEF RwAgain

(* A commit changes nothing that a thread reads of its own stores.         *)
LEMMA RwFlushCount ==
  ASSUME RwInv, RwCounted, NEW t \in All, NEW x \in DOMAIN mem, Commit(t, x),
         UNCHANGED <<rigid, pc, reg, env>>
  PROVE  RwCounted'
<1>1. /\ MemOK(All, RwLoc, Int) /\ Weak /\ x \in RwLoc
      /\ mem \in [RwLoc -> Int]
      /\ {"mutex", "writer_thread", "lock_word"} \subseteq RwLoc
  BY DEF RwInv, RwTypes, MemOK, RwLoc
<1>2. /\ MemOK(All, RwLoc, Int)'
      /\ \A u \in All : u # t => Entries(u)' = Entries(u)
      /\ Entries(t)' \subseteq Entries(t)
      /\ \E e \in Entries(t) : e.loc = x /\ mem' = [mem EXCEPT ![x] = e.val]
  <2>1. /\ MemOK(All, RwLoc, Int)'
        /\ \A u \in All : u # t => Entries(u)' = Entries(u)
        /\ Entries(t)' \subseteq Entries(t)
        /\ \E e \in Entries(t) :
             /\ e.loc = x
             /\ mem' = [mem EXCEPT ![x] = e.val]
             /\ \A f \in Entries(t) : f # e => f \in Entries(t)'
    BY <1>1, CommitEntries
  <2> QED BY <2>1
<1>3. PICK e \in Entries(t) : e.loc = x /\ mem' = [mem EXCEPT ![x] = e.val]
  BY <1>2
<1>4. t \in Taker
  BY <1>3 DEF RwInv, RwTypes, All
<1>5. x = "writer_thread" => e.val = t /\ RwOwns(t)
  BY <1>3, <1>4 DEF RwInv, RwOwner, RwOwns
<1>6. x = "lock_word" => RwMade(t) > 0
  <2>1. RwMade(t) \in Nat /\ (RwMade(t) = 0 => \A f \in Entries(t) : f.loc # "lock_word")
    BY <1>4, RwMadeOwns DEF RwCounted
  <2> QED BY <1>3, <2>1
<1>7. /\ mem'["writer_thread"] = IF x = "writer_thread" THEN t ELSE mem["writer_thread"]
      /\ x # "lock_word" => mem'["lock_word"] = mem["lock_word"]
  BY <1>1, <1>3, <1>5
<1>8. \A u \in Taker : RwMade(u)' = RwMade(u) /\ (RwFurther(u)' <=> RwFurther(u))
  <2>1. \A u \in Taker : (RwGrantDue(u)' <=> RwGrantDue(u)) /\ (RwFurther(u)' <=> RwFurther(u))
    BY Zenon DEF RwGrantDue, RwFurther
  <2> QED BY <2>1 DEF RwMade
<1>9. ASSUME NEW u \in Taker, RwOwns(u)' PROVE RwOwns(u)
  BY <1>2, <1>4, <1>5, <1>7, <1>9, TakersAreNotMain DEF RwOwns, FirstGrant
<1>10. ASSUME NEW u \in Taker, RwMade(u) > 0
       PROVE  Load(u, "lock_word")' = Load(u, "lock_word")
  <2>1. CASE u = t
    <3>1. \A y \in RwLoc : Load(t, y)' = Load(t, y)
      BY <1>1, LoadAfterCommit
    <3> QED BY <1>1, <2>1, <3>1
  <2>2. CASE u # t
    <3>1. x # "lock_word"
      <4>1. RwOwns(u) /\ (RwMade(t) > 0 => RwOwns(t))
        BY <1>4, <1>10, RwMadeOwns
      <4> QED BY <1>4, <1>6, <2>2, <4>1 DEF RwInv, RwOwner
    <3>2. buf'[u] = buf[u]
      <4>1. Commits(All, t, x)
        BY <1>1, CommitPosition, Zenon
      <4> QED BY <2>2, <4>1, TakersAreNotMain DEF Commits
    <3>3. /\ Load(u, "lock_word") = Newest(buf[u], mem, "lock_word")
          /\ Load(u, "lock_word")' = Newest(buf'[u], mem', "lock_word")
      BY LoadIsNewest
    <3>4. Newest(buf'[u], mem', "lock_word") = Newest(buf[u], mem, "lock_word")
      BY <1>7, <3>1, <3>2 DEF Newest
    <3> QED BY <3>3, <3>4
  <2> QED BY <2>1, <2>2
<1>11. ASSUME NEW u \in Taker
       PROVE  /\ env'.grants[u] \in Nat
              /\ RwOwns(u)' => RwMade(u)' > 0
              /\ RwMade(u)' > 0 => Load(u, "lock_word")' = RwCount(RwMade(u)')
              /\ RwMade(u)' = 0 => \A f \in Entries(u)' : f.loc # "lock_word"
              /\ RwFurther(u)' => RwMade(u)' >= 2
              /\ pc'[u] = "again_w" => reg'[u].word = Load(u, "lock_word")'
  <2>1. RwOwns(u)' => RwMade(u)' > 0
    BY <1>8, <1>9 DEF RwCounted
  <2>2. RwMade(u)' > 0 => Load(u, "lock_word")' = RwCount(RwMade(u)')
    BY <1>8, <1>10 DEF RwCounted
  <2>3. RwMade(u)' = 0 => \A f \in Entries(u)' : f.loc # "lock_word"
    BY <1>2, <1>8, TakersAreNotMain DEF RwCounted
  <2>4. RwFurther(u)' => RwMade(u)' >= 2
    BY <1>8 DEF RwCounted
  <2>5. pc'[u] = "again_w" => reg'[u].word = Load(u, "lock_word")'
    <3>1. pc[u] = "again_w" => RwMade(u) >= 2 /\ reg[u].word = Load(u, "lock_word")
      BY DEF RwCounted, RwFurther
    <3> QED BY <1>10, <3>1, RwMadeOwns
  <2> QED BY <2>1, <2>2, <2>3, <2>4, <2>5 DEF RwCounted
<1>12. (\A u \in Taker : RwMade(u)' = 0) => mem'["lock_word"] = 3 * X_LOCK_HALF_DECR
  BY <1>4, <1>6, <1>7, <1>8 DEF RwCounted
<1> QED BY <1>11, <1>12 DEF RwCounted

(* main joins the threads, or nothing changes.                             *)
LEMMA RwRestCount ==
  ASSUME RwInv, RwCounted, \/ JoinTakers
                           \/ UNCHANGED vars
  PROVE  RwCounted'
<1>1. /\ mem' = mem /\ buf' = buf /\ reg' = reg /\ env' = env
      /\ \A u \in Taker : pc'[u] = pc[u]
  <2>1. CASE JoinTakers
    <3>1. mem' = mem /\ buf' = buf /\ reg' = reg /\ env' = env
      BY <2>1 DEF JoinTakers, Await, Keep, Silent
    <3>2. pc' = [pc EXCEPT ![Main] = "exit"]
      BY <2>1 DEF JoinTakers, Await, Go
    <3> QED BY <3>1, <3>2, TakersAreNotMain DEF RwInv, RwTypes
  <2>2. CASE UNCHANGED vars
    BY <2>2 DEF vars
  <2> QED BY <2>1, <2>2
<1>2. \A u \in Taker : /\ RwGrantDue(u)' <=> RwGrantDue(u)
                       /\ RwFurther(u)' <=> RwFurther(u)
                       /\ FirstGrant(u)' <=> FirstGrant(u)
  BY <1>1, Zenon DEF RwGrantDue, RwFurther, FirstGrant
<1>3. \A u \in Taker : Entries(u)' = Entries(u)
  BY <1>1 DEF Entries
<1>4. \A u \in Taker : (RwOwns(u)' <=> RwOwns(u)) /\ RwMade(u)' = RwMade(u)
  BY <1>1, <1>2, <1>3 DEF RwOwns, RwMade
<1>5. \A u \in Taker : Load(u, "lock_word")' = Load(u, "lock_word")
  <2> SUFFICES ASSUME NEW u \in Taker PROVE Load(u, "lock_word")' = Load(u, "lock_word")
    OBVIOUS
  <2>1. /\ Load(u, "lock_word") = Newest(buf[u], mem, "lock_word")
        /\ Load(u, "lock_word")' = Newest(buf'[u], mem', "lock_word")
    BY LoadIsNewest
  <2> QED BY <1>1, <2>1
<1> QED BY <1>1, <1>2, <1>3, <1>4, <1>5 DEF RwCounted

(* At first nothing is granted.                                            *)
LEMMA RwInitCounted == RwInit => RwCounted
<1> SUFFICES ASSUME RwInit PROVE RwCounted
  OBVIOUS
<1>1. /\ mem["lock_word"] = 3 * X_LOCK_HALF_DECR /\ mem["writer_thread"] = 0
      /\ buf = [t \in All |-> << >>]
      /\ pc = [t \in All |-> IF t = Main THEN "join" ELSE IF t \in Asker THEN "call" ELSE "done"]
      /\ env = [grants |-> [t \in Taker |-> 0]]
  BY DEF RwInit, Boot
<1>2. \A t \in Taker : /\ pc[t] \in {"call", "done"} /\ env.grants[t] = 0
                       /\ Entries(t) = {} /\ t # 0
  BY <1>1, TakersAreNotMain DEF Entries, Main
<1>3. \A t \in Taker : ~ RwGrantDue(t) /\ ~ RwFurther(t) /\ ~ FirstGrant(t)
  BY <1>2, Zenon DEF RwGrantDue, RwFurther, FirstGrant
<1>4. \A t \in Taker : ~ RwOwns(t) /\ RwMade(t) = 0
  BY <1>1, <1>2, <1>3 DEF RwOwns, RwMade
<1>5. \A t \in Taker : ~ RwOwns(t) /\ RwMade(t) = 0 /\ env.grants[t] = 0 /\ ~ RwFurther(t)
                      /\ pc[t] # "again_w" /\ \A e \in Entries(t) : e.loc # "lock_word"
  BY <1>2, <1>3, <1>4
<1>6. ASSUME NEW t \in Taker
      PROVE  /\ env.grants[t] \in Nat
             /\ RwOwns(t) => RwMade(t) > 0
             /\ RwMade(t) > 0 => Load(t, "lock_word") = RwCount(RwMade(t))
             /\ RwMade(t) = 0 => \A e \in Entries(t) : e.loc # "lock_word"
             /\ RwFurther(t) => RwMade(t) >= 2
             /\ pc[t] = "again_w" => reg[t].word = Load(t, "lock_word")
  <2>1. ~ (0 > 0) /\ 0 \in Nat
    OBVIOUS
  <2> QED BY <1>5, <2>1, Zenon
<1>7. mem["lock_word"] = 3 * X_LOCK_HALF_DECR
  BY <1>1
<1> QED BY <1>6, <1>7, Zenon DEF RwCounted

RwAccount == program = "rwlock" => RwInv /\ RwCounted

(* Whatever program runs, the account is right at first if it is this one. *)
LEMMA RwAccountInit == Init => RwAccount
<1> SUFFICES ASSUME Init, program = "rwlock" PROVE RwInv /\ RwCounted
  BY DEF RwAccount
<1>1. RwInit
  BY Zenon DEF Init, QueueLockInit, SharedLockInit, PublicationInit, WakeUpInit, ArenaInit,
     ClhInit, QspinInit, LinkInit, EventInit, XenInit, BuffersInit,
     MpInit, SbInit, PackageInit, RingInit, SeqInit, ModeInit, PointsInit,
     MpPrograms, SbPrograms, OmpiInit, JdkInit, RelaxInit, LifoInit, Boot
<1> QED BY <1>1, RwInitInv, RwInitCounted

(* Every step of Native keeps the account of this program.                 *)
LEMMA RwAccountNext == RwAccount /\ [Next]_vars => RwAccount'
<1> SUFFICES ASSUME RwAccount, [Next]_vars, program' = "rwlock" PROVE RwInv' /\ RwCounted'
  BY DEF RwAccount
<1>1. program = "rwlock"
  BY DEF Next, Step, FlushStep, rigid, vars
<1>2. RwInv /\ RwCounted
  BY <1>1 DEF RwAccount
<1>3. RwInv'
  <2>1. RwSafe
    BY <1>2 DEF RwSafe
  <2>2. RwSafe'
    BY <2>1, RwSafeNext
  <2> QED BY <2>2 DEF RwSafe
<1>4. DOMAIN pc = All
  BY <1>2 DEF RwInv, RwTypes
<1>5. ASSUME NEW t \in Thread, Step(t) PROVE RwCounted'
  <2>1. t \in All /\ UNCHANGED rigid
    BY <1>4, <1>5 DEF Step
  <2>2. RwStep(t)
    BY <1>1, <1>5, Zenon DEF Step, QueueLockStep, SharedLockStep, PublicationStep,
       MpPrograms, SbPrograms, WakeUpStep
  <2>3. CASE t = Main
    BY <1>2, <2>2, <2>3, RwRestCount, Zenon DEF RwStep
  <2>4. CASE t # Main
    <3>1. t \in Taker
      BY <2>1, <2>4 DEF All
    <3> QED BY <1>2, <2>1, <2>2, <2>4, <3>1, RwCallCount, RwDecrCount, RwSetWriterCount,
               RwCheckCount, RwAgainCount, RwLastCount, Zenon DEF RwStep
  <2> QED BY <2>3, <2>4
<1>6. ASSUME NEW t \in Thread, FlushStep(t) PROVE RwCounted'
  BY <1>2, <1>4, <1>6, RwFlushCount, Zenon DEF FlushStep, Flush, rigid
<1>7. CASE UNCHANGED vars
  BY <1>2, <1>3, <1>7, RwRestCount, Zenon
<1> QED BY <1>3, <1>5, <1>6, <1>7 DEF Next

(* Whenever no call is under way and no store is pending, lock_word of     *)
(* 4-MySQL.c is the encoding of how often its one owner has been granted   *)
(* the lock, whatever that number and whatever the grants came from: the   *)
(* first under the mutex, the second by the decrement with threshold 0,    *)
(* the further ones by a load and a store outside any mutex.               *)
THEOREM WordCounts == Spec => []RwWordCountsGrants
<1>1. RwAccount => RwWordCountsGrants
  <2> SUFFICES ASSUME RwInv, RwCounted,
                      \A t \in Taker : pc[t] \in {"call", "done"} /\ Drained(t)
               PROVE  mem["lock_word"] = RwCount(RwGrants)
    BY DEF RwAccount, RwWordCountsGrants, RwCount
  <2>1. \A t \in Taker : RwMade(t) = env.grants[t] /\ env.grants[t] \in Nat
    <3>1. \A t \in Taker : ~ RwGrantDue(t)
      BY Zenon DEF RwGrantDue
    <3> QED BY <3>1 DEF RwMade, RwCounted
  <2> DEFINE granted == {t \in Taker : env.grants[t] > 0}
  <2>2. CASE granted = {}
    <3>1. \A t \in Taker : RwMade(t) = 0
      BY <2>1, <2>2
    <3>2. mem["lock_word"] = 3 * X_LOCK_HALF_DECR
      BY <3>1 DEF RwCounted
    <3>3. RwGrants = 0
      BY <2>2 DEF RwGrants
    <3> QED BY <3>2, <3>3, RwCountFacts
  <2>3. CASE granted # {}
    <3> DEFINE o == CHOOSE t \in granted : TRUE
    <3>1. o \in granted
      BY <2>3
    <3>2. RwGrants = env.grants[o]
      BY <2>3 DEF RwGrants
    <3> HIDE DEF o
    <3>3. o \in Taker /\ RwMade(o) = env.grants[o] /\ RwMade(o) > 0
      BY <2>1, <3>1
    <3>4. Load(o, "lock_word") = RwCount(RwGrants)
      BY <3>2, <3>3 DEF RwCounted
    <3>5. Entries(o) = {}
      BY <3>3, DrainedEntries, TakersAreNotMain DEF RwInv, RwTypes
    <3>6. Load(o, "lock_word") = mem["lock_word"]
      <4>1. MemOK(All, RwLoc, Int) /\ o \in All /\ "lock_word" \in RwLoc
        BY <3>3, TakersAreNotMain DEF RwInv, RwTypes, RwLoc
      <4> QED BY <3>5, <4>1, LoadEntries
    <3> QED BY <3>4, <3>6
  <2> QED BY <2>2, <2>3
<1> QED BY <1>1, RwAccountInit, RwAccountNext, PTL DEF Spec

-----------------------------------------------------------------------------
(* The queue locks of 1-Linuxeasy.c and 3-sel4-dynamic.c.                  *)

Locker == Contender \cup {Main}

Holds(t, x, v) == \E e \in Entries(t) : e.loc = x /\ e.val = v

InLock(t)  == pc[t] \in InQueueLock
Behind(u, t) == Follows(env.arrivals, u, t)
IsFirst(t) == First(env.arrivals, t)

(* What the refinement needs of either: the line holds different threads,  *)
(* a thread is in it from its exchange to its unlock, and who is inside is *)
(* at its front.                                                           *)
LineOK(waiting) ==
  /\ Distinct(env.arrivals)
  /\ \A t \in Contender : InLine(env.arrivals, t) <=> InLock(t) \/ pc[t] \in waiting
  /\ \A t \in Contender : InLock(t) => IsFirst(t)

-----------------------------------------------------------------------------
(* 1-Linuxeasy.c: the MCS lock of the kernel's qspinlock.                  *)

QspinLoc == {tail} \cup {next(t) : t \in Contender} \cup {locked(t) : t \in Contender}
QspinVal == Contender \cup {NULL, 1}

QspinWaiting == {"l_link", "l_spin"}

QspinTypes ==
  /\ Weak
  /\ MemOK(Locker, QspinLoc, QspinVal)
  /\ Entries(Main) = {}
  /\ pc \in [Locker -> {"l_next", "l_locked", "l_xchg", "l_link", "l_spin", "cs", "u_cas",
                        "u_wait", "u_fence", "u_pass", "done", "join", "exit"}]
  /\ pc[Main] \in {"join", "exit"}
  /\ reg \in [Locker -> [prev : Contender \cup {NULL}]]
  /\ env \in [arrivals : Seq(Contender)]

(* The thread behind has found its predecessor in the tail pointer, and    *)
(* links itself to it.                                                     *)
QspinBehind ==
  /\ \A u, t \in Contender : Behind(u, t) => reg[t].prev = u
  /\ \A t \in Contender : pc[t] = "l_link" => ~ IsFirst(t)

Linked(u, t) == Behind(u, t) /\ pc[t] # "l_link"

(* The next pointer of a thread in the line names the thread behind it.    *)
QspinNext ==
  \A u \in Contender : mem[next(u)] # NULL =>
    \/ pc[u] = "done"
    \/ \E t \in Contender : Linked(u, t) /\ mem[next(u)] = t

QspinNextStores ==
  \A t, u \in Contender : \A v : Holds(t, next(u), v) =>
    IF t = u THEN v = NULL ELSE v = t /\ (pc[u] = "done" \/ Linked(u, t))

(* Only the first of the line is let in, by another thread's store.        *)
QspinLockedStores ==
  \A u, t \in Contender : \A v : Holds(u, locked(t), v) =>
    IF u = t THEN v = 1
    ELSE /\ v = 0
         /\ pc[t] \notin {"l_next", "l_locked", "l_xchg"}
         /\ pc[t] \in QspinWaiting => IsFirst(t)

QspinLocked ==
  \A t \in Contender :
    pc[t] = "l_xchg" \/ (pc[t] \in QspinWaiting /\ ~ IsFirst(t)) =>
      mem[locked(t)] = 1 \/ Holds(t, locked(t), 1)

QspinPassReady ==
  \A t \in Contender : pc[t] \in {"u_fence", "u_pass"} =>
    mem[next(t)] # NULL /\ \A v : ~ Holds(t, next(t), v)

(* The tail pointer, which nobody buffers, names the last of the line.     *)
QspinTail ==
  /\ \A t \in Contender : \A v : ~ Holds(t, tail, v)
  /\ env.arrivals = << >> => mem[tail] = NULL
  /\ \A t \in Contender : Final(env.arrivals, t) => mem[tail] = t

QspinInv ==
  /\ QspinTypes
  /\ LineOK(QspinWaiting)
  /\ QspinBehind
  /\ QspinNext
  /\ QspinNextStores
  /\ QspinLockedStores
  /\ QspinLocked
  /\ QspinPassReady
  /\ QspinTail

-----------------------------------------------------------------------------
(* The words of the locks are different; main is not a contender.          *)
LEMMA LockWords ==
  /\ \A m, n : /\ next(m) # tail /\ locked(m) # tail
               /\ next(m) # locked(n)
               /\ next(m) = next(n) => m = n
               /\ locked(m) = locked(n) => m = n
  /\ Main \notin Contender /\ Main \in Locker /\ Contender \subseteq Locker
  /\ \A t \in Contender : t # NULL /\ t \in Nat
  BY ContenderAssumption DEF next, locked, tail, Locker, Main, NULL

(* What a store does, whether it is in memory or under way.                *)
Stored(Loc, t, x, v) ==
  /\ \A y \in Loc : y # x => mem'[y] = mem[y]
  /\ mem'[x] = v \/ (mem'[x] = mem[x] /\ Holds(t, x, v)')
  /\ \A u \in Locker : u # t => Entries(u)' = Entries(u)
  /\ \A u \in Locker : \A y, w :
       Holds(u, y, w)' => Holds(u, y, w) \/ (u = t /\ y = x /\ w = v)
  /\ \A u \in Locker : \A y, w : Holds(u, y, w) => Holds(u, y, w)'

(* A store that enters the buffer, and one that is in memory at once, have *)
(* the effect Stored.                                                      *)
LEMMA AddStored ==
  ASSUME NEW Loc, NEW Val, MemOK(Locker, Loc, Val), NEW t \in Locker, NEW x \in Loc, NEW v,
         mem' = mem, NEW e, e.loc = x, e.val = v, Entries(t)' = Entries(t) \cup {e},
         \A u \in Locker : u # t => Entries(u)' = Entries(u)
  PROVE  Stored(Loc, t, x, v)
<1>1. \A u \in Locker : \A y, w :
        Holds(u, y, w)' => Holds(u, y, w) \/ (u = t /\ y = x /\ w = v)
  <2> SUFFICES ASSUME NEW u \in Locker, NEW y, NEW w, NEW f \in Entries(u)',
                      f.loc = y, f.val = w
               PROVE  Holds(u, y, w) \/ (u = t /\ y = x /\ w = v)
    BY DEF Holds
  <2> QED BY DEF Holds
<1>2. \A u \in Locker : \A y, w : Holds(u, y, w) => Holds(u, y, w)'
  BY DEF Holds
<1>3. Holds(t, x, v)'
  BY DEF Holds
<1> QED BY <1>1, <1>2, <1>3 DEF Stored

(* A store that is in memory at once has the effect Stored.                *)
LEMMA SetStored ==
  ASSUME NEW Loc, NEW Val, MemOK(Locker, Loc, Val), NEW t \in Locker, NEW x \in Loc, NEW v,
         mem' = [mem EXCEPT ![x] = v], \A u \in Locker : Entries(u)' = Entries(u)
  PROVE  Stored(Loc, t, x, v)
<1>1. \A u \in Locker : \A y, w : Holds(u, y, w)' <=> Holds(u, y, w)
  BY DEF Holds
<1> QED BY <1>1 DEF Stored, MemOK

(* A plain store has the effect Stored.                                    *)
LEMMA WriteStored ==
  ASSUME NEW Loc, NEW Val, MemOK(Locker, Loc, Val), Weak, NEW t \in Locker,
         NEW x \in Loc, NEW v \in Val, NEW from, NEW to, Write(t, from, x, v, to)
  PROVE  MemOK(Locker, Loc, Val)' /\ Stored(Loc, t, x, v)
<1>1. Adds(Locker, Loc, Val, t, x, v)
  <2>1. Put(t, x, v, FALSE) /\ FALSE \in BOOLEAN
    BY DEF Write
  <2> QED BY <2>1, PutAdds, Zenon
<1>2. PICK e : e.loc = x /\ e.val = v /\ Entries(t)' = Entries(t) \cup {e}
  BY <1>1 DEF Adds
<1> QED BY <1>1, <1>2, AddStored DEF Adds

(* A sequentially consistent store has it too.                             *)
LEMMA WriteSCStored ==
  ASSUME NEW Loc, NEW Val, MemOK(Locker, Loc, Val), Weak, NEW t \in Locker,
         NEW x \in Loc, NEW v \in Val, NEW from, NEW to, WriteSC(t, from, x, v, to)
  PROVE  MemOK(Locker, Loc, Val)' /\ Stored(Loc, t, x, v)
<1>1. CASE AddsRelease(Locker, Loc, Val, t, x, v)
  <2>1. PICK e : e.loc = x /\ e.val = v /\ Entries(t)' = Entries(t) \cup {e}
    BY <1>1, Zenon DEF AddsRelease
  <2>2. /\ MemOK(Locker, Loc, Val)' /\ mem' = mem
        /\ \A u \in Locker : u # t => Entries(u)' = Entries(u)
    BY <1>1, Zenon DEF AddsRelease
  <2> QED BY <2>1, <2>2, AddStored
<1>2. CASE StoresAtOnce(Locker, Loc, Val, t, x, v)
  BY <1>2, SetStored DEF StoresAtOnce
<1> QED BY <1>1, <1>2, WriteSCStores, Zenon

(* The oldest store to some word becomes visible.                          *)
LEMMA CommitHeld ==
  ASSUME NEW Loc, NEW Val, MemOK(Locker, Loc, Val), Weak, NEW t \in Locker,
         NEW x \in Loc, Commit(t, x)
  PROVE  /\ MemOK(Locker, Loc, Val)'
         /\ \A u \in Locker : Entries(u)' \subseteq Entries(u)
         /\ \A u \in Locker : \A y, w : Holds(u, y, w)' => Holds(u, y, w)
         /\ \E v : /\ Holds(t, x, v)
                   /\ mem'[x] = v /\ \A y \in Loc : y # x => mem'[y] = mem[y]
                   /\ \A u \in Locker : \A y, w :
                        Holds(u, y, w) /\ (u # t \/ y # x \/ w # v) => Holds(u, y, w)'
<1>1. /\ MemOK(Locker, Loc, Val)'
      /\ \A u \in Locker : u # t => Entries(u)' = Entries(u)
      /\ Entries(t)' \subseteq Entries(t)
  BY CommitEntries
<1>2. PICK e \in Entries(t) :
        /\ e.loc = x
        /\ mem' = [mem EXCEPT ![x] = e.val]
        /\ \A f \in Entries(t) : f # e => f \in Entries(t)'
  BY CommitEntries
<1>3. \A u \in Locker : \A y, w : Holds(u, y, w)' => Holds(u, y, w)
  BY <1>1 DEF Holds
<1>4. \A u \in Locker : \A y, w :
        Holds(u, y, w) /\ (u # t \/ y # x \/ w # e.val) => Holds(u, y, w)'
  BY <1>1, <1>2 DEF Holds
<1>5. mem'[x] = e.val /\ \A y \in Loc : y # x => mem'[y] = mem[y]
  BY <1>2 DEF MemOK
<1>6. Holds(t, x, e.val)
  BY <1>2 DEF Holds
<1> QED BY <1>1, <1>3, <1>4, <1>5, <1>6

(* A load of a word that the thread does not buffer, or buffers.           *)
LEMMA LoadHeld ==
  ASSUME NEW Loc, NEW Val, MemOK(Locker, Loc, Val), NEW t \in Locker, NEW x \in Loc
  PROVE  /\ (\A v : ~ Holds(t, x, v)) => Load(t, x) = mem[x]
         /\ (\E v : Holds(t, x, v)) => Holds(t, x, Load(t, x))
  BY LoadEntries, LoadOwnEntry DEF Holds

-----------------------------------------------------------------------------
(* A thread joins the line, or the first leaves it.                        *)
LEMMA JoinLineOK ==
  ASSUME NEW S, LineOK(S), S \cap InQueueLock = {},
         env.arrivals \in Seq(Contender), NEW t \in Contender,
         ~ InLock(t), pc[t] \notin S,
         env'.arrivals = Append(env.arrivals, t),
         NEW to, to \in S \/ (env.arrivals = << >> /\ to \in InQueueLock),
         \A u \in Contender : pc'[u] = IF u = t THEN to ELSE pc[u]
  PROVE  /\ LineOK(S)'
         /\ env'.arrivals \in Seq(Contender) /\ env'.arrivals # << >>
         /\ ~ InLine(env.arrivals, t)
         /\ \A u \in Contender : ~ Behind(u, t)
         /\ \A u \in Contender : IsFirst(u)' <=> IsFirst(u) \/ (env.arrivals = << >> /\ u = t)
         /\ \A u \in Contender : Final(env'.arrivals, u) <=> u = t
         /\ \A u, w \in Contender : Behind(u, w)' <=>
                                      Behind(u, w) \/ (Final(env.arrivals, u) /\ w = t)
<1>1. ~ InLine(env.arrivals, t)
  BY DEF LineOK
<1>2. /\ Distinct(env'.arrivals) /\ env'.arrivals \in Seq(Contender) /\ env'.arrivals # << >>
      /\ \A u \in Contender : InLine(env'.arrivals, u) <=> InLine(env.arrivals, u) \/ u = t
      /\ \A u \in Contender : First(env'.arrivals, u) <=>
                                First(env.arrivals, u) \/ (env.arrivals = << >> /\ u = t)
      /\ \A u \in Contender : Final(env'.arrivals, u) <=> u = t
      /\ \A u, w \in Contender : Follows(env'.arrivals, u, w) <=>
             Follows(env.arrivals, u, w) \/ (Final(env.arrivals, u) /\ w = t)
  BY <1>1, JoinLine DEF LineOK
<1>3. ASSUME NEW u \in Contender, InLock(u)'
      PROVE  First(env'.arrivals, u)
  <2>1. CASE u # t
    BY <1>2, <1>3, <2>1 DEF LineOK, InLock, IsFirst
  <2>2. CASE u = t
    BY <1>2, <1>3, <2>2 DEF InLock
  <2> QED BY <2>1, <2>2
<1>4. \A u \in Contender : InLine(env'.arrivals, u) <=> InLock(u)' \/ pc'[u] \in S
  BY <1>2 DEF LineOK, InLock
<1>5. \A u \in Contender : ~ Behind(u, t)
  BY <1>1, LineFacts DEF LineOK, Behind
<1> QED BY <1>1, <1>2, <1>3, <1>4, <1>5 DEF LineOK, IsFirst, Behind

(* The first of the line leaves it, and everybody moves up.                *)
LEMMA LeaveLineOK ==
  ASSUME NEW S, LineOK(S), S \cap InQueueLock = {},
         env.arrivals \in Seq(Contender), NEW t \in Contender, InLock(t),
         env'.arrivals = Tail(env.arrivals),
         NEW to, to \notin S, to \notin InQueueLock,
         \A u \in Contender : pc'[u] = IF u = t THEN to ELSE pc[u]
  PROVE  /\ LineOK(S)'
         /\ env'.arrivals \in Seq(Contender) /\ env.arrivals # << >>
         /\ IsFirst(t)
         /\ \A u \in Contender : u # t => ~ InLock(u) /\ ~ InLock(u)' /\ ~ IsFirst(u)
         /\ ~ InLock(t)'
         /\ \A u \in Contender : IsFirst(u)' <=> Behind(t, u)
         /\ \A u, w \in Contender : Behind(u, w)' <=> Behind(u, w) /\ u # t
         /\ env'.arrivals = << >> <=> Final(env.arrivals, t)
         /\ \A u \in Contender : Final(env'.arrivals, u) => Final(env.arrivals, u)
<1>1. First(env.arrivals, t)
  BY DEF LineOK, IsFirst
<1>2. /\ env'.arrivals \in Seq(Contender)
      /\ Distinct(env'.arrivals)
      /\ \A u \in Contender : InLine(env'.arrivals, u) <=> InLine(env.arrivals, u) /\ u # t
      /\ \A u \in Contender : First(env'.arrivals, u) <=> Follows(env.arrivals, t, u)
      /\ \A u, w \in Contender : Follows(env'.arrivals, u, w) <=>
                                   Follows(env.arrivals, u, w) /\ u # t
      /\ env'.arrivals = << >> <=> Final(env.arrivals, t)
      /\ env'.arrivals # << >> =>
           env'.arrivals[Len(env'.arrivals)] = env.arrivals[Len(env.arrivals)]
  BY <1>1, LeaveLine DEF LineOK
<1>3. env.arrivals # << >>
  BY <1>1 DEF First
<1>4. \A u \in Contender : u # t => ~ First(env.arrivals, u)
  BY <1>1, LineFacts DEF LineOK
<1>5. \A u \in Contender : u # t => ~ InLock(u) /\ ~ InLock(u)'
  BY <1>4 DEF LineOK, IsFirst, InLock
<1>6. ~ InLock(t)'
  BY DEF InLock
<1>7. \A u \in Contender : InLine(env'.arrivals, u) <=> InLock(u)' \/ pc'[u] \in S
  <2>1. pc[t] \notin S
    BY DEF InLock
  <2> QED BY <1>2, <1>5, <1>6, <2>1 DEF LineOK, InLock
<1>8. \A u \in Contender : Final(env'.arrivals, u) => Final(env.arrivals, u)
  BY <1>2, <1>3 DEF Final
<1> QED BY <1>1, <1>2, <1>3, <1>4, <1>5, <1>6, <1>7, <1>8 DEF LineOK, IsFirst, Behind

(* A step that leaves the line alone, and lets nobody in but the first.    *)
LEMMA SameLineOK ==
  ASSUME NEW S, LineOK(S), S \cap InQueueLock = {},
         NEW t \in Contender, NEW to,
         env'.arrivals = env.arrivals,
         \A u \in Contender : pc'[u] = IF u = t THEN to ELSE pc[u],
         to \in InQueueLock => (InLock(t) \/ pc[t] \in S) /\ IsFirst(t),
         to \in S => InLock(t) \/ pc[t] \in S,
         to \notin InQueueLock \cup S => ~ InLock(t) /\ pc[t] \notin S
  PROVE  /\ LineOK(S)'
         /\ \A u \in Contender : IsFirst(u)' <=> IsFirst(u)
         /\ \A u, w \in Contender : Behind(u, w)' <=> Behind(u, w)
<1>1. \A u \in Contender : InLine(env.arrivals, u) <=> InLock(u)' \/ pc'[u] \in S
  BY DEF LineOK, InLock
<1>2. \A u \in Contender : InLock(u)' => First(env.arrivals, u)
  BY DEF LineOK, InLock, IsFirst
<1> QED BY <1>1, <1>2 DEF LineOK, IsFirst, Behind

-----------------------------------------------------------------------------
(* What the invariant says of the types, for the steps.                    *)
LEMMA QspinFacts ==
  ASSUME QspinInv
  PROVE  /\ Weak /\ MemOK(Locker, QspinLoc, QspinVal) /\ mem \in [QspinLoc -> QspinVal]
         /\ env.arrivals \in Seq(Contender) /\ Distinct(env.arrivals)
         /\ LineOK(QspinWaiting) /\ QspinWaiting \cap InQueueLock = {}
         /\ NULL \in QspinVal /\ 1 \in QspinVal /\ 0 \in QspinVal
         /\ tail \in QspinLoc
         /\ \A t \in Contender : /\ t \in Locker /\ t # Main /\ t # NULL /\ t \in QspinVal
                                 /\ next(t) \in QspinLoc /\ locked(t) \in QspinLoc
  BY LockWords DEF QspinInv, QspinTypes, QspinLoc, QspinVal, QspinWaiting, InQueueLock, LineOK,
     MemOK, NULL

(* The invariant holds when the threads start.                             *)
LEMMA QspinInitInv == QspinInit => QspinInv
<1> SUFFICES ASSUME QspinInit PROVE QspinInv
  OBVIOUS
<1>1. /\ Weak
      /\ mem = [x \in QspinLoc |-> 0]
      /\ buf = [t \in Locker |-> << >>]
      /\ pc = [t \in Locker |-> IF t = Main THEN "join" ELSE "l_next"]
      /\ reg = [t \in Locker |-> [prev |-> NULL]]
      /\ env = [arrivals |-> << >>]
  BY DEF QspinInit, Boot, Weak, QspinLoc, Locker
<1>2. env.arrivals = << >> /\ env \in [arrivals : Seq(Contender)]
  BY <1>1
<1>3. \A t \in Locker : Entries(t) = {}
  BY <1>1 DEF Entries
<1>4. \A t \in Locker : \A x, v : ~ Holds(t, x, v)
  BY <1>3 DEF Holds
<1>5. \A t \in Contender : pc[t] = "l_next"
  BY <1>1, LockWords
<1>6. QspinTypes
  <2>1. MemOK(Locker, QspinLoc, QspinVal)
    BY <1>1 DEF MemOK, QspinVal, NULL
  <2>2. reg \in [Locker -> [prev : Contender \cup {NULL}]]
    BY <1>1
  <2>3. pc \in [Locker -> {"l_next", "l_locked", "l_xchg", "l_link", "l_spin", "cs", "u_cas",
                           "u_wait", "u_fence", "u_pass", "done", "join", "exit"}]
    BY <1>1
  <2>4. pc[Main] = "join" /\ Entries(Main) = {}
    BY <1>1, <1>3, LockWords
  <2> QED BY <1>1, <1>2, <2>1, <2>2, <2>3, <2>4 DEF QspinTypes
<1>7. LineOK(QspinWaiting)
  BY <1>2, <1>5, EmptyLine DEF LineOK, InLock, InQueueLock, QspinWaiting
<1>8. QspinBehind
  BY <1>2, <1>5, EmptyLine DEF QspinBehind, Behind
<1>9. QspinNext /\ QspinTail
  <2>1. mem[tail] = NULL /\ \A u \in Contender : mem[next(u)] = NULL
    BY <1>1 DEF QspinLoc, NULL
  <2> QED BY <1>2, <1>4, <2>1, EmptyLine, LockWords DEF QspinNext, QspinTail
<1>10. QspinNextStores /\ QspinLockedStores
  BY <1>4, LockWords DEF QspinNextStores, QspinLockedStores
<1>11. QspinLocked /\ QspinPassReady
  BY <1>5 DEF QspinLocked, QspinPassReady, QspinWaiting
<1> QED BY <1>6, <1>7, <1>8, <1>9, <1>10, <1>11 DEF QspinInv

(* How a statement moves the program counter.                              *)
LEMMA QspinGo ==
  ASSUME QspinInv, NEW t \in Contender, NEW from, NEW to, Go(t, from, to),
         to \in {"l_locked", "l_xchg", "l_link", "l_spin", "cs", "u_cas",
                 "u_wait", "u_fence", "u_pass", "done"}
  PROVE  /\ pc[t] = from
         /\ pc' \in [Locker -> {"l_next", "l_locked", "l_xchg", "l_link", "l_spin", "cs", "u_cas",
                                "u_wait", "u_fence", "u_pass", "done", "join", "exit"}]
         /\ pc'[Main] = pc[Main]
         /\ \A u \in Contender : pc'[u] = IF u = t THEN to ELSE pc[u]
  BY QspinFacts, LockWords DEF QspinInv, QspinTypes, Go

(* The statements that only look.                                          *)
LEMMA QspinQuietStep ==
  ASSUME QspinInv, UNCHANGED rigid, NEW t \in Contender, NEW from, NEW to, Go(t, from, to),
         Silent, Keep,
         from \in {"l_spin", "cs", "u_cas", "u_wait", "u_fence"},
         to \in {"cs", "u_cas", "u_wait", "u_fence", "u_pass"},
         IsFirst(t),
         to \in {"u_fence", "u_pass"} =>
           mem[next(t)] # NULL /\ \A v : ~ Holds(t, next(t), v)
  PROVE  QspinInv'
<1>1. /\ pc[t] = from
      /\ pc' \in [Locker -> {"l_next", "l_locked", "l_xchg", "l_link", "l_spin", "cs", "u_cas",
                             "u_wait", "u_fence", "u_pass", "done", "join", "exit"}]
      /\ pc'[Main] = pc[Main]
      /\ \A u \in Contender : pc'[u] = IF u = t THEN to ELSE pc[u]
  BY QspinGo
<1>2. /\ MemOK(Locker, QspinLoc, QspinVal)' /\ mem' = mem
      /\ \A u \in Locker : Entries(u)' = Entries(u)
      /\ reg' = reg /\ env' = env /\ Weak'
  BY QspinFacts, SilentEntries DEF Keep, rigid, Weak
<1>3. \A u \in Contender : \A x, v : Holds(u, x, v)' <=> Holds(u, x, v)
  BY <1>2, QspinFacts DEF Holds
<1>4. /\ LineOK(QspinWaiting)'
      /\ \A u \in Contender : IsFirst(u)' <=> IsFirst(u)
      /\ \A u, w \in Contender : Behind(u, w)' <=> Behind(u, w)
  <2>1. InLock(t) \/ pc[t] \in QspinWaiting
    BY <1>1 DEF InLock, InQueueLock, QspinWaiting
  <2>2. to \in InQueueLock /\ to \notin QspinWaiting
    BY DEF InQueueLock, QspinWaiting
  <2> QED BY <1>1, <1>2, <2>1, <2>2, QspinFacts, SameLineOK
<1>5. /\ \A u \in Contender : pc'[u] \in QspinWaiting => pc[u] \in QspinWaiting
      /\ \A u \in Contender : pc'[u] = "l_link" <=> pc[u] = "l_link"
      /\ \A u \in Contender : pc'[u] = "done" <=> pc[u] = "done"
      /\ \A u \in Contender : pc'[u] \in {"l_next", "l_locked", "l_xchg"} <=>
                              pc[u] \in {"l_next", "l_locked", "l_xchg"}
      /\ \A u \in Contender : pc'[u] = "l_xchg" <=> pc[u] = "l_xchg"
  BY <1>1 DEF QspinWaiting
<1>6. \A u, w \in Contender : Linked(u, w)' <=> Linked(u, w)
  BY <1>4, <1>5 DEF Linked
<1>7. QspinTypes'
  BY <1>1, <1>2, LockWords DEF QspinInv, QspinTypes
<1>8. QspinBehind'
  BY <1>2, <1>4, <1>5 DEF QspinInv, QspinBehind
<1>9. QspinNext' /\ QspinNextStores'
  BY <1>2, <1>3, <1>5, <1>6 DEF QspinInv, QspinNext, QspinNextStores
<1>10. QspinLockedStores' /\ QspinLocked'
  BY <1>2, <1>3, <1>4, <1>5 DEF QspinInv, QspinLockedStores, QspinLocked
<1>11. QspinPassReady'
  BY <1>1, <1>2, <1>3 DEF QspinInv, QspinPassReady
<1>12. QspinTail'
  BY <1>2, <1>3 DEF QspinInv, QspinTail
<1> QED BY <1>4, <1>7, <1>8, <1>9, <1>10, <1>11, <1>12 DEF QspinInv

(* A spin that ends, ends at the front of the line; a next pointer that is *)
(* seen set is set in memory.                                              *)
LEMMA QspinSees ==
  ASSUME QspinInv, NEW t \in Contender
  PROVE  /\ pc[t] = "l_spin" /\ Load(t, locked(t)) = 0 => IsFirst(t)
         /\ Load(t, next(t)) # NULL =>
              mem[next(t)] # NULL /\ \A v : ~ Holds(t, next(t), v)
         /\ (\A v : ~ Holds(t, next(t), v)) => Load(t, next(t)) = mem[next(t)]
<1>1. /\ (\A v : ~ Holds(t, locked(t), v)) => Load(t, locked(t)) = mem[locked(t)]
      /\ (\E v : Holds(t, locked(t), v)) => Holds(t, locked(t), Load(t, locked(t)))
      /\ (\A v : ~ Holds(t, next(t), v)) => Load(t, next(t)) = mem[next(t)]
      /\ (\E v : Holds(t, next(t), v)) => Holds(t, next(t), Load(t, next(t)))
  BY QspinFacts, LoadHeld
<1>2. \A v : Holds(t, locked(t), v) => v = 1
  BY DEF QspinInv, QspinLockedStores
<1>3. \A v : Holds(t, next(t), v) => v = NULL
  BY DEF QspinInv, QspinNextStores
<1>4. pc[t] = "l_spin" /\ ~ IsFirst(t) => mem[locked(t)] = 1 \/ Holds(t, locked(t), 1)
  BY DEF QspinInv, QspinLocked, QspinWaiting
<1> QED BY <1>1, <1>2, <1>3, <1>4

(* The spin, the test of next, the failed compare-and-exchange, the wait   *)
(* and the fence.                                                          *)
LEMMA QspinLookStep ==
  ASSUME QspinInv, UNCHANGED rigid, NEW t \in Contender,
         \/ QspinSpin(t) \/ QspinTest(t) \/ QspinWait(t) \/ QspinFence(t)
         \/ mem[tail] # t /\ FullFence(t, "u_cas", "u_wait") /\ Keep
  PROVE  QspinInv'
<1>1. pc[t] \in InQueueLock => IsFirst(t)
  BY DEF QspinInv, LineOK, InLock
<1>2. CASE QspinSpin(t)
  <2>1. Go(t, "l_spin", "cs") /\ Silent /\ Keep /\ Load(t, locked(t)) = 0 /\ pc[t] = "l_spin"
    BY <1>2 DEF QspinSpin, Await, Go
  <2>2. IsFirst(t)
    BY <2>1, QspinSees
  <2> QED BY <2>1, <2>2, QspinQuietStep
<1>3. CASE QspinTest(t)
  <2>1. PICK to \in {"u_cas", "u_fence"} :
          /\ Go(t, "cs", to) /\ Silent /\ Keep /\ pc[t] = "cs"
          /\ to = "u_fence" => Load(t, next(t)) # NULL
    BY <1>3 DEF QspinTest, Local, Go
  <2>2. IsFirst(t)
    BY <1>1, <2>1 DEF InQueueLock
  <2>3. to = "u_fence" => mem[next(t)] # NULL /\ \A v : ~ Holds(t, next(t), v)
    BY <2>1, QspinSees
  <2> QED BY <2>1, <2>2, <2>3, QspinQuietStep
<1>4. CASE QspinWait(t)
  <2>1. Go(t, "u_wait", "u_fence") /\ Silent /\ Keep /\ Load(t, next(t)) # NULL /\ pc[t] = "u_wait"
    BY <1>4 DEF QspinWait, Await, Go
  <2>2. IsFirst(t)
    BY <1>1, <2>1 DEF InQueueLock
  <2>3. mem[next(t)] # NULL /\ \A v : ~ Holds(t, next(t), v)
    BY <2>1, QspinSees
  <2> QED BY <2>1, <2>2, <2>3, QspinQuietStep
<1>5. CASE QspinFence(t)
  <2>1. Go(t, "u_fence", "u_pass") /\ Silent /\ Keep /\ pc[t] = "u_fence"
    BY <1>5 DEF QspinFence, ReleaseFence, Await, Go
  <2>2. IsFirst(t)
    BY <1>1, <2>1 DEF InQueueLock
  <2>3. mem[next(t)] # NULL /\ \A v : ~ Holds(t, next(t), v)
    BY <2>1 DEF QspinInv, QspinPassReady
  <2> QED BY <2>1, <2>2, <2>3, QspinQuietStep
<1>6. CASE mem[tail] # t /\ FullFence(t, "u_cas", "u_wait") /\ Keep
  <2>1. Go(t, "u_cas", "u_wait") /\ Silent /\ Keep /\ pc[t] = "u_cas"
    BY <1>6 DEF FullFence, Await, Go
  <2>2. IsFirst(t)
    BY <1>1, <2>1 DEF InQueueLock
  <2> QED BY <2>1, <2>2, QspinQuietStep
<1> QED BY <1>2, <1>3, <1>4, <1>5, <1>6

-----------------------------------------------------------------------------
(* A thread outside the line prepares its node.                            *)
LEMMA QspinPrepareStep ==
  ASSUME QspinInv, UNCHANGED rigid, NEW t \in Contender,
         QspinPrepareNext(t) \/ QspinPrepare(t)
  PROVE  QspinInv'
<1>1. PICK x \in QspinLoc, v \in QspinVal, from \in {"l_next", "l_locked"},
           to \in {"l_locked", "l_xchg"} :
        /\ Go(t, from, to) /\ Keep
        /\ \/ from = "l_next" /\ to = "l_locked" /\ x = next(t) /\ v = NULL
           \/ from = "l_locked" /\ to = "l_xchg" /\ x = locked(t) /\ v = 1
        /\ Write(t, from, x, v, to) \/ WriteSC(t, from, x, v, to)
  <2>1. CASE QspinPrepareNext(t)
    <3>1. Write(t, "l_next", next(t), NULL, "l_locked") /\ Keep
      BY <2>1 DEF QspinPrepareNext
    <3>2. Go(t, "l_next", "l_locked")
      BY <3>1 DEF Write
    <3> QED BY <3>1, <3>2, QspinFacts, Zenon
  <2>2. CASE QspinPrepare(t)
    <3>1. WriteSC(t, "l_locked", locked(t), 1, "l_xchg") /\ Keep
      BY <2>2 DEF QspinPrepare
    <3>2. Go(t, "l_locked", "l_xchg")
      BY <3>1 DEF WriteSC
    <3> QED BY <3>1, <3>2, QspinFacts, Zenon
  <2> QED BY <2>1, <2>2
<1>2. MemOK(Locker, QspinLoc, QspinVal)' /\ Stored(QspinLoc, t, x, v)
  BY <1>1, QspinFacts, WriteStored, WriteSCStored
<1>3. /\ \A y \in QspinLoc : y # x => mem'[y] = mem[y]
      /\ mem'[x] = v \/ (mem'[x] = mem[x] /\ Holds(t, x, v)')
      /\ \A u \in Locker : u # t => Entries(u)' = Entries(u)
      /\ \A u \in Locker : \A y, w :
           Holds(u, y, w)' => Holds(u, y, w) \/ (u = t /\ y = x /\ w = v)
      /\ \A u \in Locker : \A y, w : Holds(u, y, w) => Holds(u, y, w)'
  BY <1>2 DEF Stored
<1>4. /\ pc[t] = from
      /\ pc' \in [Locker -> {"l_next", "l_locked", "l_xchg", "l_link", "l_spin", "cs", "u_cas",
                             "u_wait", "u_fence", "u_pass", "done", "join", "exit"}]
      /\ pc'[Main] = pc[Main]
      /\ \A u \in Contender : pc'[u] = IF u = t THEN to ELSE pc[u]
  BY <1>1, QspinGo
<1>5. reg' = reg /\ env' = env /\ Weak'
  BY <1>1, QspinFacts DEF Keep, rigid, Weak
<1>6. /\ LineOK(QspinWaiting)'
      /\ \A u \in Contender : IsFirst(u)' <=> IsFirst(u)
      /\ \A u, w \in Contender : Behind(u, w)' <=> Behind(u, w)
  <2>1. ~ InLock(t) /\ pc[t] \notin QspinWaiting
    BY <1>4 DEF InLock, InQueueLock, QspinWaiting
  <2>2. to \notin InQueueLock /\ to \notin QspinWaiting
    BY DEF InQueueLock, QspinWaiting
  <2> QED BY <1>4, <1>5, <2>1, <2>2, QspinFacts, SameLineOK
<1>7. /\ \A u \in Contender : pc'[u] \in QspinWaiting <=> pc[u] \in QspinWaiting
      /\ \A u \in Contender : pc'[u] = "l_link" <=> pc[u] = "l_link"
      /\ \A u \in Contender : pc'[u] = "done" <=> pc[u] = "done"
      /\ \A u \in Contender : pc'[u] \in {"l_next", "l_locked", "l_xchg"} <=>
                              pc[u] \in {"l_next", "l_locked", "l_xchg"}
      /\ \A u \in Contender : pc'[u] \in {"u_fence", "u_pass"} => pc[u] \in {"u_fence", "u_pass"} /\ u # t
      /\ ~ pc[t] \in QspinWaiting
  BY <1>4 DEF QspinWaiting
<1>8. \A u, w \in Contender : Linked(u, w)' <=> Linked(u, w)
  BY <1>6, <1>7 DEF Linked
<1>9. QspinTypes'
  BY <1>2, <1>3, <1>4, <1>5, LockWords DEF QspinInv, QspinTypes
<1>10. QspinBehind'
  BY <1>5, <1>6, <1>7 DEF QspinInv, QspinBehind
<1>11. QspinNext'
  <2>1. \A u \in Contender : mem'[next(u)] = mem[next(u)] \/ mem'[next(u)] = NULL
    BY <1>1, <1>3, QspinFacts, LockWords
  <2> QED BY <1>7, <1>8, <2>1 DEF QspinInv, QspinNext
<1>12. QspinNextStores'
  <2> SUFFICES ASSUME NEW u \in Contender, NEW p \in Contender, NEW w, Holds(u, next(p), w)'
               PROVE  IF u = p THEN w = NULL ELSE w = u /\ (pc'[p] = "done" \/ Linked(p, u)')
    BY DEF QspinNextStores
  <2>1. CASE Holds(u, next(p), w)
    BY <1>7, <1>8, <2>1 DEF QspinInv, QspinNextStores
  <2>2. CASE u = t /\ next(p) = x /\ w = v
    BY <1>1, <2>2, LockWords
  <2> QED BY <1>3, <2>1, <2>2, QspinFacts
<1>13. QspinLockedStores'
  <2> SUFFICES ASSUME NEW u \in Contender, NEW p \in Contender, NEW w, Holds(u, locked(p), w)'
               PROVE  IF u = p THEN w = 1
                      ELSE /\ w = 0
                           /\ pc'[p] \notin {"l_next", "l_locked", "l_xchg"}
                           /\ pc'[p] \in QspinWaiting => IsFirst(p)'
    BY DEF QspinLockedStores
  <2>1. CASE Holds(u, locked(p), w)
    BY <1>6, <1>7, <2>1 DEF QspinInv, QspinLockedStores
  <2>2. CASE u = t /\ locked(p) = x /\ w = v
    BY <1>1, <2>2, LockWords
  <2> QED BY <1>3, <2>1, <2>2, QspinFacts
<1>14. QspinLocked'
  <2> SUFFICES ASSUME NEW u \in Contender,
                      pc'[u] = "l_xchg" \/ (pc'[u] \in QspinWaiting /\ ~ IsFirst(u)')
               PROVE  mem'[locked(u)] = 1 \/ Holds(u, locked(u), 1)'
    BY DEF QspinLocked
  <2>1. CASE u = t
    <3>1. x = locked(t) /\ v = 1
      BY <1>1, <1>4, <1>7, <2>1
    <3> QED BY <1>3, <2>1, <3>1
  <2>2. CASE u # t
    <3>1. mem[locked(u)] = 1 \/ Holds(u, locked(u), 1)
      BY <1>4, <1>6, <2>2 DEF QspinInv, QspinLocked
    <3>2. locked(u) # x
      BY <1>1, <2>2, LockWords
    <3> QED BY <1>3, <3>1, <3>2, QspinFacts
  <2> QED BY <2>1, <2>2
<1>15. QspinPassReady'
  <2> SUFFICES ASSUME NEW u \in Contender, pc[u] \in {"u_fence", "u_pass"}, u # t
               PROVE  mem'[next(u)] # NULL /\ \A w : ~ Holds(u, next(u), w)'
    BY <1>7 DEF QspinPassReady
  <2>1. next(u) # x
    BY <1>1, LockWords
  <2>2. mem[next(u)] # NULL /\ \A w : ~ Holds(u, next(u), w)
    BY DEF QspinInv, QspinPassReady
  <2> QED BY <1>3, <2>1, <2>2, QspinFacts
<1>16. QspinTail'
  <2>1. x # tail
    BY <1>1, LockWords
  <2> QED BY <1>3, <1>5, <2>1, QspinFacts DEF QspinInv, QspinTail
<1> QED BY <1>6, <1>9, <1>10, <1>11, <1>12, <1>13, <1>14, <1>15, <1>16 DEF QspinInv

(* prev->next = mynode                                                     *)
LEMMA QspinLinkStep ==
  ASSUME QspinInv, UNCHANGED rigid, NEW t \in Contender, QspinLink(t)
  PROVE  QspinInv'
<1>1. Write(t, "l_link", next(reg[t].prev), t, "l_spin") /\ Go(t, "l_link", "l_spin") /\ Keep
  BY DEF QspinLink, Write
<1>2. /\ pc[t] = "l_link"
      /\ pc' \in [Locker -> {"l_next", "l_locked", "l_xchg", "l_link", "l_spin", "cs", "u_cas",
                             "u_wait", "u_fence", "u_pass", "done", "join", "exit"}]
      /\ pc'[Main] = pc[Main]
      /\ \A u \in Contender : pc'[u] = IF u = t THEN "l_spin" ELSE pc[u]
  BY <1>1, QspinGo
<1>3. PICK h \in Contender : Behind(h, t)
  <2>1. InLine(env.arrivals, t) /\ ~ IsFirst(t)
    BY <1>2 DEF QspinInv, LineOK, QspinBehind, QspinWaiting
  <2> QED BY <2>1, QspinFacts, LineFacts DEF IsFirst, Behind
<1>4. reg[t].prev = h /\ h # t
  BY <1>3, QspinFacts, LineFacts DEF QspinInv, QspinBehind, Behind
<1>5. PICK x \in QspinLoc : x = next(h)
  BY QspinFacts
<1>6. MemOK(Locker, QspinLoc, QspinVal)' /\ Stored(QspinLoc, t, x, t)
  BY <1>1, <1>4, <1>5, QspinFacts, WriteStored
<1>7. /\ \A y \in QspinLoc : y # x => mem'[y] = mem[y]
      /\ mem'[x] = t \/ (mem'[x] = mem[x] /\ Holds(t, x, t)')
      /\ \A u \in Locker : u # t => Entries(u)' = Entries(u)
      /\ \A u \in Locker : \A y, w :
           Holds(u, y, w)' => Holds(u, y, w) \/ (u = t /\ y = x /\ w = t)
      /\ \A u \in Locker : \A y, w : Holds(u, y, w) => Holds(u, y, w)'
  BY <1>6 DEF Stored
<1>8. reg' = reg /\ env' = env /\ Weak'
  BY <1>1, QspinFacts DEF Keep, rigid, Weak
<1>9. /\ LineOK(QspinWaiting)'
      /\ \A u \in Contender : IsFirst(u)' <=> IsFirst(u)
      /\ \A u, w \in Contender : Behind(u, w)' <=> Behind(u, w)
  <2>1. pc[t] \in QspinWaiting /\ "l_spin" \in QspinWaiting /\ "l_spin" \notin InQueueLock
    BY <1>2 DEF InQueueLock, QspinWaiting
  <2> QED BY <1>2, <1>8, <2>1, QspinFacts, SameLineOK
<1>10. /\ \A u \in Contender : pc'[u] \in QspinWaiting <=> pc[u] \in QspinWaiting
       /\ \A u \in Contender : pc'[u] = "l_link" <=> pc[u] = "l_link" /\ u # t
       /\ \A u \in Contender : pc'[u] = "done" <=> pc[u] = "done"
       /\ \A u \in Contender : pc'[u] \in {"l_next", "l_locked", "l_xchg"} <=>
                               pc[u] \in {"l_next", "l_locked", "l_xchg"}
       /\ \A u \in Contender : pc'[u] = "l_xchg" <=> pc[u] = "l_xchg"
       /\ \A u \in Contender : pc'[u] \in {"u_fence", "u_pass"} => pc[u] \in {"u_fence", "u_pass"} /\ u # t
  BY <1>2 DEF QspinWaiting
<1>11. /\ \A u, w \in Contender : Linked(u, w) => Linked(u, w)'
       /\ Linked(h, t)'
  BY <1>3, <1>9, <1>10 DEF Linked
<1>12. QspinTypes'
  BY <1>2, <1>6, <1>7, <1>8, LockWords DEF QspinInv, QspinTypes
<1>13. QspinBehind'
  BY <1>8, <1>9, <1>10 DEF QspinInv, QspinBehind
<1>14. QspinNext'
  <2> SUFFICES ASSUME NEW u \in Contender, mem'[next(u)] # NULL
               PROVE  \/ pc[u] = "done"
                      \/ \E w \in Contender : Linked(u, w)' /\ mem'[next(u)] = w
    BY <1>10 DEF QspinNext
  <2>1. CASE mem'[next(u)] = mem[next(u)]
    BY <1>11, <2>1 DEF QspinInv, QspinNext
  <2>2. CASE mem'[next(u)] # mem[next(u)]
    <3>1. next(u) = x /\ mem'[next(u)] = t
      BY <1>7, <2>2, QspinFacts
    <3>2. u = h
      BY <1>5, <3>1, LockWords
    <3> QED BY <1>11, <3>1, <3>2
  <2> QED BY <2>1, <2>2
<1>15. QspinNextStores'
  <2> SUFFICES ASSUME NEW u \in Contender, NEW p \in Contender, NEW w, Holds(u, next(p), w)'
               PROVE  IF u = p THEN w = NULL ELSE w = u /\ (pc'[p] = "done" \/ Linked(p, u)')
    BY DEF QspinNextStores
  <2>1. CASE Holds(u, next(p), w)
    BY <1>10, <1>11, <2>1 DEF QspinInv, QspinNextStores
  <2>2. CASE u = t /\ next(p) = x /\ w = t
    <3>1. p = h
      BY <1>5, <2>2, LockWords
    <3> QED BY <1>4, <1>11, <2>2, <3>1
  <2> QED BY <1>7, <2>1, <2>2, QspinFacts
<1>16. /\ \A u, p \in Contender : \A w : Holds(u, locked(p), w)' <=> Holds(u, locked(p), w)
       /\ \A p \in Contender : mem'[locked(p)] = mem[locked(p)]
  BY <1>5, <1>7, QspinFacts, LockWords
<1>17. QspinLockedStores' /\ QspinLocked'
  BY <1>9, <1>10, <1>16 DEF QspinInv, QspinLockedStores, QspinLocked
<1>18. QspinPassReady'
  <2> SUFFICES ASSUME NEW u \in Contender, pc[u] \in {"u_fence", "u_pass"}, u # t
               PROVE  mem'[next(u)] # NULL /\ \A w : ~ Holds(u, next(u), w)'
    BY <1>10 DEF QspinPassReady
  <2>1. mem[next(u)] # NULL /\ \A w : ~ Holds(u, next(u), w)
    BY DEF QspinInv, QspinPassReady
  <2> QED BY <1>7, <2>1, QspinFacts
<1>19. QspinTail'
  <2>1. x # tail
    BY <1>5, LockWords
  <2> QED BY <1>7, <1>8, <2>1, QspinFacts DEF QspinInv, QspinTail
<1> QED BY <1>9, <1>12, <1>13, <1>14, <1>15, <1>17, <1>18, <1>19 DEF QspinInv

-----------------------------------------------------------------------------
(* The exchange on the tail: the thread joins the line, behind the one the *)
(* exchange returns.                                                       *)
LEMMA QspinExchangeStep ==
  ASSUME QspinInv, UNCHANGED rigid, NEW t \in Contender, QspinExchange(t)
  PROVE  /\ QspinInv'
         /\ ~ InLock(t) /\ ~ InLine(env.arrivals, t)
         /\ env'.arrivals = Append(env.arrivals, t)
         /\ \E to : /\ \A u \in Contender : pc'[u] = IF u = t THEN to ELSE pc[u]
                    /\ to \in InQueueLock => env.arrivals = << >>
<1>1. /\ env.arrivals = << >> => mem[tail] = NULL
      /\ \A u \in Contender : Final(env.arrivals, u) => mem[tail] = u
      /\ mem[tail] \in Contender \cup {NULL}
      /\ mem[tail] = NULL => env.arrivals = << >>
  <2>1. env.arrivals # << >> => \E u \in Contender : Final(env.arrivals, u)
    BY QspinFacts, LineFacts
  <2> QED BY <2>1, QspinFacts DEF QspinInv, QspinTail
<1>2. PICK to \in {"cs", "l_link"} :
        /\ Go(t, "l_xchg", to)
        /\ to = "cs" <=> mem[tail] = NULL
  BY DEF QspinExchange
<1>3. /\ SetMem(tail, t)
      /\ reg' = [reg EXCEPT ![t].prev = mem[tail]]
      /\ env' = [env EXCEPT !.arrivals = Append(@, t)]
  BY DEF QspinExchange
<1>4. /\ pc[t] = "l_xchg"
      /\ pc' \in [Locker -> {"l_next", "l_locked", "l_xchg", "l_link", "l_spin", "cs", "u_cas",
                             "u_wait", "u_fence", "u_pass", "done", "join", "exit"}]
      /\ pc'[Main] = pc[Main]
      /\ \A u \in Contender : pc'[u] = IF u = t THEN to ELSE pc[u]
  BY <1>2, QspinGo
<1>5. /\ MemOK(Locker, QspinLoc, QspinVal)'
      /\ mem' = [mem EXCEPT ![tail] = t]
      /\ \A u \in Locker : Entries(u)' = Entries(u)
  BY <1>3, QspinFacts, SetMemEntries
<1>6. /\ \A y \in QspinLoc : y # tail => mem'[y] = mem[y]
      /\ mem'[tail] = t
      /\ \A u \in Contender : \A x, v : Holds(u, x, v)' <=> Holds(u, x, v)
  BY <1>5, QspinFacts DEF Holds
<1>7. /\ env' \in [arrivals : Seq(Contender)] /\ env'.arrivals = Append(env.arrivals, t)
      /\ reg' \in [Locker -> [prev : Contender \cup {NULL}]]
      /\ reg'[t].prev = mem[tail] /\ \A u \in Contender : u # t => reg'[u] = reg[u]
      /\ Weak'
  <2>1. env \in [arrivals : Seq(Contender)] /\ reg \in [Locker -> [prev : Contender \cup {NULL}]]
    BY DEF QspinInv, QspinTypes
  <2>2. env' \in [arrivals : Seq(Contender)] /\ env'.arrivals = Append(env.arrivals, t)
    <3>1. Append(env.arrivals, t) \in Seq(Contender)
      BY <2>1
    <3> QED BY <1>3, <2>1, <3>1
  <2>3. Weak'
    BY QspinFacts DEF rigid, Weak
  <2> QED BY <1>1, <1>3, <2>1, <2>2, <2>3, QspinFacts
<1>8. /\ LineOK(QspinWaiting)'
      /\ env'.arrivals \in Seq(Contender) /\ env'.arrivals # << >>
      /\ ~ InLine(env.arrivals, t)
      /\ \A u \in Contender : ~ Behind(u, t)
      /\ \A u \in Contender : IsFirst(u)' <=> IsFirst(u) \/ (env.arrivals = << >> /\ u = t)
      /\ \A u \in Contender : Final(env'.arrivals, u) <=> u = t
      /\ \A u, w \in Contender : Behind(u, w)' <=>
                                   Behind(u, w) \/ (Final(env.arrivals, u) /\ w = t)
  <2>1. ~ InLock(t) /\ pc[t] \notin QspinWaiting
    BY <1>4 DEF InLock, InQueueLock, QspinWaiting
  <2>2. to \in QspinWaiting \/ (env.arrivals = << >> /\ to \in InQueueLock)
    BY <1>1, <1>2 DEF QspinWaiting, InQueueLock
  <2>3. /\ LineOK(QspinWaiting) /\ QspinWaiting \cap InQueueLock = {}
        /\ env.arrivals \in Seq(Contender)
        /\ env'.arrivals = Append(env.arrivals, t)
        /\ \A u \in Contender : pc'[u] = IF u = t THEN to ELSE pc[u]
    BY <1>4, <1>7, QspinFacts
  <2> QED BY <2>1, <2>2, <2>3, JoinLineOK
<1>9. /\ \A u \in Contender : u # t => (pc'[u] = pc[u])
      /\ pc'[t] = to /\ to \notin {"l_next", "l_locked", "l_xchg", "u_fence", "u_pass", "done"}
      /\ ~ pc[t] \in QspinWaiting /\ pc[t] # "l_link"
  BY <1>4 DEF QspinWaiting
<1>10. \A u, w \in Contender : Linked(u, w) => Linked(u, w)'
  BY <1>8, <1>9 DEF Linked
<1>11. QspinTypes'
  BY <1>4, <1>5, <1>7, LockWords DEF QspinInv, QspinTypes
<1>12. QspinBehind'
  <2>1. \A u, w \in Contender : Behind(u, w)' => reg'[w].prev = u
    <3> SUFFICES ASSUME NEW u \in Contender, NEW w \in Contender, Behind(u, w)'
                 PROVE  reg'[w].prev = u
      OBVIOUS
    <3>1. CASE Behind(u, w)
      <4>1. w # t
        BY <1>8, <3>1
      <4> QED BY <1>7, <3>1, <4>1 DEF QspinInv, QspinBehind
    <3>2. CASE Final(env.arrivals, u) /\ w = t
      BY <1>1, <1>7, <3>2
    <3> QED BY <1>8, <3>1, <3>2
  <2>2. \A u \in Contender : pc'[u] = "l_link" => ~ IsFirst(u)'
    <3> SUFFICES ASSUME NEW u \in Contender, pc'[u] = "l_link" PROVE ~ IsFirst(u)'
      OBVIOUS
    <3>1. CASE u = t
      <4>1. env.arrivals # << >>
        BY <1>1, <1>2, <1>9, <3>1
      <4>2. ~ IsFirst(t)
        BY <1>8, QspinFacts, LineFacts DEF IsFirst
      <4> QED BY <1>8, <3>1, <4>1, <4>2
    <3>2. CASE u # t
      BY <1>8, <1>9, <3>2 DEF QspinInv, QspinBehind
    <3> QED BY <3>1, <3>2
  <2> QED BY <2>1, <2>2 DEF QspinBehind
<1>13. QspinNext'
  <2>1. \A u \in Contender : mem'[next(u)] = mem[next(u)]
    BY <1>6, QspinFacts, LockWords
  <2>2. \A u \in Contender : pc[u] = "done" => pc'[u] = "done"
    BY <1>4
  <2> QED BY <1>10, <2>1, <2>2 DEF QspinInv, QspinNext
<1>14. QspinNextStores'
  <2>1. \A u \in Contender : pc[u] = "done" => pc'[u] = "done"
    BY <1>4
  <2> QED BY <1>6, <1>10, <2>1 DEF QspinInv, QspinNextStores
<1>15. QspinLockedStores'
  <2>1. \A u \in Contender : u # t => \A v : ~ Holds(u, locked(t), v)
    BY <1>4 DEF QspinInv, QspinLockedStores
  <2> QED BY <1>6, <1>8, <1>9, <2>1 DEF QspinInv, QspinLockedStores
<1>16. QspinLocked'
  <2>1. \A u \in Contender : mem'[locked(u)] = mem[locked(u)]
    BY <1>6, QspinFacts, LockWords
  <2>2. mem[locked(t)] = 1 \/ Holds(t, locked(t), 1)
    BY <1>4 DEF QspinInv, QspinLocked
  <2> QED BY <1>6, <1>8, <1>9, <2>1, <2>2 DEF QspinInv, QspinLocked
<1>17. QspinPassReady'
  <2>1. \A u \in Contender : mem'[next(u)] = mem[next(u)]
    BY <1>6, QspinFacts, LockWords
  <2> QED BY <1>6, <1>9, <2>1 DEF QspinInv, QspinPassReady
<1>18. QspinTail'
  BY <1>6, <1>8 DEF QspinInv, QspinTail
<1>19. QspinInv'
  BY <1>8, <1>11, <1>12, <1>13, <1>14, <1>15, <1>16, <1>17, <1>18 DEF QspinInv
<1>20. ~ InLock(t)
  BY <1>4 DEF InLock, InQueueLock
<1>21. to \in InQueueLock => env.arrivals = << >>
  BY <1>1, <1>2 DEF InQueueLock
<1> QED BY <1>4, <1>7, <1>8, <1>19, <1>20, <1>21

(* What a thread that leaves at its unlock leaves behind.                  *)
LEMMA QspinLeaves ==
  ASSUME QspinInv, UNCHANGED rigid, NEW t \in Contender, NEW from,
         from \in {"u_cas", "u_pass"}, Go(t, from, "done"),
         env' = [env EXCEPT !.arrivals = Tail(@)], UNCHANGED reg
  PROVE  /\ InLock(t) /\ env'.arrivals = Tail(env.arrivals)
         /\ env' \in [arrivals : Seq(Contender)]
         /\ pc[t] = from
         /\ pc' \in [Locker -> {"l_next", "l_locked", "l_xchg", "l_link", "l_spin", "cs", "u_cas",
                                "u_wait", "u_fence", "u_pass", "done", "join", "exit"}]
         /\ pc'[Main] = pc[Main]
         /\ \A u \in Contender : pc'[u] = IF u = t THEN "done" ELSE pc[u]
         /\ LineOK(QspinWaiting)'
         /\ \A u, w \in Contender : Behind(u, w)' => reg'[w].prev = u
         /\ env.arrivals # << >> /\ IsFirst(t)
         /\ \A u \in Contender : IsFirst(u)' <=> Behind(t, u)
         /\ \A u, w \in Contender : Behind(u, w)' <=> Behind(u, w) /\ u # t
         /\ env'.arrivals = << >> <=> Final(env.arrivals, t)
         /\ \A u \in Contender : Final(env'.arrivals, u) => Final(env.arrivals, u)
         /\ \A u \in Contender : pc[u] \in QspinWaiting => ~ IsFirst(u) /\ u # t
         /\ \A u \in Contender : pc'[u] \notin {"u_fence", "u_pass"}
         /\ \A u, w \in Contender : u # t /\ Linked(u, w) => Linked(u, w)'
<1>1. /\ pc[t] = from
      /\ pc' \in [Locker -> {"l_next", "l_locked", "l_xchg", "l_link", "l_spin", "cs", "u_cas",
                             "u_wait", "u_fence", "u_pass", "done", "join", "exit"}]
      /\ pc'[Main] = pc[Main]
      /\ \A u \in Contender : pc'[u] = IF u = t THEN "done" ELSE pc[u]
  BY QspinGo
<1>2. /\ InLock(t) /\ pc[t] \notin QspinWaiting
      /\ "done" \notin InQueueLock /\ "done" \notin QspinWaiting
  BY <1>1 DEF InLock, InQueueLock, QspinWaiting
<1>3. env'.arrivals = Tail(env.arrivals)
  BY DEF QspinInv, QspinTypes
<1>4. /\ LineOK(QspinWaiting)'
      /\ env'.arrivals \in Seq(Contender) /\ env.arrivals # << >>
      /\ IsFirst(t)
      /\ \A u \in Contender : u # t => ~ InLock(u) /\ ~ InLock(u)' /\ ~ IsFirst(u)
      /\ ~ InLock(t)'
      /\ \A u \in Contender : IsFirst(u)' <=> Behind(t, u)
      /\ \A u, w \in Contender : Behind(u, w)' <=> Behind(u, w) /\ u # t
      /\ env'.arrivals = << >> <=> Final(env.arrivals, t)
      /\ \A u \in Contender : Final(env'.arrivals, u) => Final(env.arrivals, u)
  BY <1>1, <1>2, <1>3, QspinFacts, LeaveLineOK
<1>5. \A u \in Contender : pc[u] \in QspinWaiting => ~ IsFirst(u) /\ u # t
  BY <1>2, <1>4
<1>6. \A u \in Contender : pc'[u] \notin {"u_fence", "u_pass"}
  BY <1>4 DEF InLock, InQueueLock
<1>7. \A u, w \in Contender : u # t /\ Linked(u, w) => Linked(u, w)'
  BY <1>1, <1>4 DEF Linked
<1>8. env' \in [arrivals : Seq(Contender)]
  BY <1>3, <1>4 DEF QspinInv, QspinTypes
<1>9. \A u, w \in Contender : Behind(u, w)' => reg'[w].prev = u
  BY <1>4 DEF QspinInv, QspinBehind
<1> QED BY <1>1, <1>2, <1>3, <1>4, <1>5, <1>6, <1>7, <1>8, <1>9

(* The last of the line frees the lock.                                    *)
LEMMA QspinCasStep ==
  ASSUME QspinInv, UNCHANGED rigid, NEW t \in Contender, mem[tail] = t,
         AtomicFull(t, "u_cas", tail, NULL, "done"),
         env' = [env EXCEPT !.arrivals = Tail(@)], UNCHANGED reg
  PROVE  QspinInv'
<1>1. Go(t, "u_cas", "done") /\ SetMem(tail, NULL)
  BY DEF AtomicFull
<1>2. /\ env' \in [arrivals : Seq(Contender)]
      /\ pc' \in [Locker -> {"l_next", "l_locked", "l_xchg", "l_link", "l_spin", "cs", "u_cas",
                             "u_wait", "u_fence", "u_pass", "done", "join", "exit"}]
      /\ pc'[Main] = pc[Main]
      /\ \A u \in Contender : pc'[u] = IF u = t THEN "done" ELSE pc[u]
      /\ pc[t] = "u_cas"
      /\ LineOK(QspinWaiting)'
      /\ \A u, w \in Contender : Behind(u, w)' => reg'[w].prev = u
      /\ env.arrivals # << >> /\ IsFirst(t)
      /\ env'.arrivals = << >> <=> Final(env.arrivals, t)
      /\ \A u \in Contender : pc[u] \in QspinWaiting => ~ IsFirst(u) /\ u # t
      /\ \A u \in Contender : pc'[u] \notin {"u_fence", "u_pass"}
      /\ \A u, w \in Contender : u # t /\ Linked(u, w) => Linked(u, w)'
  BY <1>1, QspinLeaves
<1>3. Final(env.arrivals, t)
  <2>1. PICK u \in Contender : Final(env.arrivals, u)
    BY <1>2, QspinFacts, LineFacts
  <2>2. mem[tail] = u
    BY <2>1 DEF QspinInv, QspinTail
  <2> QED BY <2>1, <2>2
<1>4. env'.arrivals = << >>
  BY <1>2, <1>3
<1>5. \A u \in Contender : pc[u] \notin QspinWaiting
  <2>1. \A u \in Contender : ~ InLine(env'.arrivals, u)
    BY <1>4, EmptyLine
  <2>2. \A u \in Contender : pc'[u] \notin QspinWaiting
    BY <1>2, <2>1 DEF LineOK
  <2> QED BY <1>2, <2>2
<1>6. /\ MemOK(Locker, QspinLoc, QspinVal)'
      /\ mem' = [mem EXCEPT ![tail] = NULL]
      /\ \A u \in Locker : Entries(u)' = Entries(u)
  BY <1>1, QspinFacts, SetMemEntries
<1>7. /\ \A y \in QspinLoc : y # tail => mem'[y] = mem[y]
      /\ mem'[tail] = NULL
      /\ \A u \in Contender : \A x, v : Holds(u, x, v)' <=> Holds(u, x, v)
      /\ \A u \in Contender : /\ mem'[next(u)] = mem[next(u)]
                              /\ mem'[locked(u)] = mem[locked(u)]
  BY <1>6, QspinFacts, LockWords DEF Holds
<1>8. Weak'
  BY QspinFacts DEF rigid, Weak
<1>9. \A u \in Contender : pc'[u] \in QspinWaiting => pc[u] \in QspinWaiting
  BY <1>2 DEF QspinWaiting
<1>10. QspinTypes'
  BY <1>2, <1>6, <1>8, LockWords DEF QspinInv, QspinTypes
<1>11. QspinBehind'
  BY <1>2, <1>5, <1>9 DEF QspinBehind, QspinWaiting
<1>12. QspinNext'
  <2> SUFFICES ASSUME NEW u \in Contender, mem[next(u)] # NULL, u # t, pc[u] # "done"
               PROVE  \E w \in Contender : Linked(u, w)' /\ mem[next(u)] = w
    BY <1>2, <1>7 DEF QspinNext
  <2> QED BY <1>2 DEF QspinInv, QspinNext
<1>13. QspinNextStores'
  BY <1>2, <1>7 DEF QspinInv, QspinNextStores
<1>14. QspinLockedStores'
  BY <1>2, <1>5, <1>7, <1>9 DEF QspinInv, QspinLockedStores
<1>15. QspinLocked'
  BY <1>2, <1>5, <1>7, <1>9 DEF QspinInv, QspinLocked
<1>16. QspinPassReady'
  BY <1>2 DEF QspinPassReady
<1>17. QspinTail'
  <2>1. \A u \in Contender : ~ Final(env'.arrivals, u)
    BY <1>4, EmptyLine
  <2> QED BY <1>4, <1>7, <2>1 DEF QspinInv, QspinTail
<1> QED BY <1>2, <1>10, <1>11, <1>12, <1>13, <1>14, <1>15, <1>16, <1>17 DEF QspinInv

(* The lock is handed to the thread that the next pointer names.           *)
LEMMA QspinPassStep ==
  ASSUME QspinInv, UNCHANGED rigid, NEW t \in Contender, QspinPass(t)
  PROVE  QspinInv'
<1>1. /\ WriteSC(t, "u_pass", locked(Load(t, next(t))), 0, "done")
      /\ Go(t, "u_pass", "done")
      /\ env' = [env EXCEPT !.arrivals = Tail(@)] /\ UNCHANGED reg
  BY DEF QspinPass, WriteSC
<1>2. /\ env' \in [arrivals : Seq(Contender)]
      /\ pc' \in [Locker -> {"l_next", "l_locked", "l_xchg", "l_link", "l_spin", "cs", "u_cas",
                             "u_wait", "u_fence", "u_pass", "done", "join", "exit"}]
      /\ pc'[Main] = pc[Main]
      /\ \A u \in Contender : pc'[u] = IF u = t THEN "done" ELSE pc[u]
      /\ pc[t] = "u_pass"
      /\ LineOK(QspinWaiting)'
      /\ \A u, w \in Contender : Behind(u, w)' => reg'[w].prev = u
      /\ env.arrivals # << >> /\ IsFirst(t)
      /\ \A u \in Contender : IsFirst(u)' <=> Behind(t, u)
      /\ env'.arrivals = << >> <=> Final(env.arrivals, t)
      /\ \A u \in Contender : Final(env'.arrivals, u) => Final(env.arrivals, u)
      /\ \A u \in Contender : pc[u] \in QspinWaiting => ~ IsFirst(u) /\ u # t
      /\ \A u \in Contender : pc'[u] \notin {"u_fence", "u_pass"}
      /\ \A u, w \in Contender : u # t /\ Linked(u, w) => Linked(u, w)'
  BY <1>1, QspinLeaves
<1>3. mem[next(t)] # NULL /\ Load(t, next(t)) = mem[next(t)]
  BY <1>2, QspinSees DEF QspinInv, QspinPassReady
<1>4. PICK s \in Contender : Linked(t, s) /\ mem[next(t)] = s
  BY <1>2, <1>3 DEF QspinInv, QspinNext
<1>5. /\ Behind(t, s) /\ pc[s] # "l_link"
      /\ s # t /\ ~ Final(env.arrivals, t)
      /\ pc[s] \in QspinWaiting
      /\ \A u \in Contender : Behind(t, u) => u = s
  <2>1. Behind(t, s) /\ pc[s] # "l_link"
    BY <1>4 DEF Linked
  <2>2. s # t /\ ~ Final(env.arrivals, t) /\ ~ IsFirst(s) /\ InLine(env.arrivals, s)
    BY <2>1, QspinFacts, LineFacts DEF Behind, IsFirst
  <2>3. \A u \in Contender : Behind(t, u) => u = s
    BY <2>1, QspinFacts, LineFacts DEF Behind
  <2> QED BY <2>1, <2>2, <2>3 DEF QspinInv, LineOK
<1>6. PICK x \in QspinLoc, v \in QspinVal :
        x = locked(s) /\ v = 0 /\ WriteSC(t, "u_pass", x, v, "done")
  BY <1>1, <1>3, <1>4, QspinFacts
<1>7. MemOK(Locker, QspinLoc, QspinVal)' /\ Stored(QspinLoc, t, x, v)
  BY <1>6, QspinFacts, WriteSCStored
<1>8. /\ \A y \in QspinLoc : y # x => mem'[y] = mem[y]
      /\ \A u \in Locker : u # t => Entries(u)' = Entries(u)
      /\ \A u \in Locker : \A y, w :
           Holds(u, y, w)' => Holds(u, y, w) \/ (u = t /\ y = x /\ w = v)
      /\ \A u \in Locker : \A y, w : Holds(u, y, w) => Holds(u, y, w)'
  BY <1>7 DEF Stored
<1>9. Weak'
  BY QspinFacts DEF rigid, Weak
<1>10. /\ \A u \in Contender : pc'[u] \in QspinWaiting <=> pc[u] \in QspinWaiting
       /\ \A u \in Contender : mem'[next(u)] = mem[next(u)]
       /\ mem'[tail] = mem[tail]
  BY <1>2, <1>6, <1>8, QspinFacts, LockWords DEF QspinWaiting
<1>11. QspinTypes'
  BY <1>1, <1>2, <1>7, <1>8, <1>9, LockWords DEF QspinInv, QspinTypes
<1>12. QspinBehind'
  BY <1>2, <1>5 DEF QspinBehind
<1>13. QspinNext'
  <2> SUFFICES ASSUME NEW u \in Contender, mem[next(u)] # NULL, u # t, pc[u] # "done"
               PROVE  \E w \in Contender : Linked(u, w)' /\ mem[next(u)] = w
    BY <1>2, <1>10 DEF QspinNext
  <2> QED BY <1>2 DEF QspinInv, QspinNext
<1>14. QspinNextStores'
  <2> SUFFICES ASSUME NEW u \in Contender, NEW p \in Contender, NEW w, Holds(u, next(p), w)'
               PROVE  IF u = p THEN w = NULL ELSE w = u /\ (pc'[p] = "done" \/ Linked(p, u)')
    BY DEF QspinNextStores
  <2>1. Holds(u, next(p), w)
    BY <1>6, <1>8, QspinFacts, LockWords
  <2> QED BY <1>2, <2>1 DEF QspinInv, QspinNextStores
<1>15. QspinLockedStores'
  <2> SUFFICES ASSUME NEW u \in Contender, NEW p \in Contender, NEW w, Holds(u, locked(p), w)'
               PROVE  IF u = p THEN w = 1
                      ELSE /\ w = 0
                           /\ pc'[p] \notin {"l_next", "l_locked", "l_xchg"}
                           /\ pc'[p] \in QspinWaiting => IsFirst(p)'
    BY DEF QspinLockedStores
  <2>1. CASE Holds(u, locked(p), w)
    BY <1>2, <1>10, <2>1 DEF QspinInv, QspinLockedStores
  <2>2. CASE u = t /\ locked(p) = x /\ w = v
    <3>1. p = s
      BY <1>6, <2>2, LockWords
    <3>2. pc'[p] = pc[p] /\ pc[p] \notin {"l_next", "l_locked", "l_xchg"}
      BY <1>2, <1>5, <3>1 DEF QspinWaiting
    <3> QED BY <1>2, <1>5, <1>6, <2>2, <3>1, <3>2
  <2> QED BY <1>8, <2>1, <2>2, QspinFacts
<1>16. QspinLocked'
  <2> SUFFICES ASSUME NEW u \in Contender,
                      pc'[u] = "l_xchg" \/ (pc'[u] \in QspinWaiting /\ ~ IsFirst(u)')
               PROVE  mem'[locked(u)] = 1 \/ Holds(u, locked(u), 1)'
    BY DEF QspinLocked
  <2>1. u # s /\ (pc[u] = "l_xchg" \/ (pc[u] \in QspinWaiting /\ ~ IsFirst(u)))
    BY <1>2, <1>5, <1>10 DEF QspinWaiting
  <2>2. mem[locked(u)] = 1 \/ Holds(u, locked(u), 1)
    BY <2>1 DEF QspinInv, QspinLocked
  <2>3. locked(u) # x
    BY <1>6, <2>1, LockWords
  <2> QED BY <1>8, <2>2, <2>3, QspinFacts
<1>17. QspinPassReady'
  BY <1>2 DEF QspinPassReady
<1>18. QspinTail'
  <2>1. \A u \in Contender : \A w : ~ Holds(u, tail, w)'
    BY <1>6, <1>8, QspinFacts, LockWords DEF QspinInv, QspinTail
  <2> QED BY <1>2, <1>5, <1>10, <2>1 DEF QspinInv, QspinTail
<1> QED BY <1>2, <1>11, <1>12, <1>13, <1>14, <1>15, <1>16, <1>17, <1>18 DEF QspinInv

(* A buffered store becomes visible.                                       *)
LEMMA QspinFlushStep ==
  ASSUME QspinInv, UNCHANGED rigid, NEW t \in Locker, NEW x \in DOMAIN mem, Commit(t, x),
         UNCHANGED <<pc, reg, env>>
  PROVE  QspinInv'
<1>1. x \in QspinLoc /\ pc' = pc /\ reg' = reg /\ env' = env /\ Weak'
  BY QspinFacts DEF rigid, Weak
<1>2. /\ MemOK(Locker, QspinLoc, QspinVal)'
      /\ \A u \in Locker : Entries(u)' \subseteq Entries(u)
      /\ \A u \in Locker : \A y, w : Holds(u, y, w)' => Holds(u, y, w)
  BY <1>1, QspinFacts, CommitHeld
<1>3. PICK v : /\ Holds(t, x, v)
               /\ mem'[x] = v /\ \A y \in QspinLoc : y # x => mem'[y] = mem[y]
               /\ \A u \in Locker : \A y, w :
                    Holds(u, y, w) /\ (u # t \/ y # x \/ w # v) => Holds(u, y, w)'
  BY <1>1, QspinFacts, CommitHeld
<1>4. t \in Contender
  BY <1>3 DEF QspinInv, QspinTypes, Holds, Locker
<1>5. /\ LineOK(QspinWaiting)'
      /\ \A u \in Contender : IsFirst(u)' <=> IsFirst(u)
      /\ \A u, w \in Contender : /\ Behind(u, w)' <=> Behind(u, w)
                                 /\ Linked(u, w)' <=> Linked(u, w)
  BY <1>1 DEF QspinInv, LineOK, InLock, IsFirst, Behind, Linked
<1>6. QspinTypes'
  BY <1>1, <1>2, LockWords DEF QspinInv, QspinTypes
<1>7. QspinBehind'
  BY <1>1, <1>5 DEF QspinInv, QspinBehind
<1>8. QspinNext'
  <2> SUFFICES ASSUME NEW u \in Contender, mem'[next(u)] # NULL
               PROVE  \/ pc[u] = "done"
                      \/ \E w \in Contender : Linked(u, w) /\ mem'[next(u)] = w
    BY <1>1, <1>5 DEF QspinNext
  <2>1. CASE next(u) # x
    BY <1>3, <2>1, QspinFacts DEF QspinInv, QspinNext
  <2>2. CASE next(u) = x
    BY <1>3, <1>4, <2>2 DEF QspinInv, QspinNextStores
  <2> QED BY <2>1, <2>2
<1>9. QspinNextStores'
  BY <1>1, <1>2, <1>5, QspinFacts DEF QspinInv, QspinNextStores
<1>10. QspinLockedStores'
  BY <1>1, <1>2, <1>5, QspinFacts DEF QspinInv, QspinLockedStores
<1>11. QspinLocked'
  <2> SUFFICES ASSUME NEW u \in Contender,
                      pc[u] = "l_xchg" \/ (pc[u] \in QspinWaiting /\ ~ IsFirst(u))
               PROVE  mem'[locked(u)] = 1 \/ Holds(u, locked(u), 1)'
    BY <1>1, <1>5 DEF QspinLocked
  <2>1. mem[locked(u)] = 1 \/ Holds(u, locked(u), 1)
    BY DEF QspinInv, QspinLocked
  <2>2. CASE locked(u) # x
    BY <1>3, <2>1, <2>2, QspinFacts
  <2>3. CASE locked(u) = x /\ t = u
    <3>1. v = 1
      BY <1>3, <1>4, <2>3 DEF QspinInv, QspinLockedStores
    <3> QED BY <1>3, <2>3, <3>1
  <2>4. CASE locked(u) = x /\ t # u
    BY <1>3, <1>4, <2>4 DEF QspinInv, QspinLockedStores
  <2> QED BY <2>2, <2>3, <2>4
<1>12. QspinPassReady'
  <2> SUFFICES ASSUME NEW u \in Contender, pc[u] \in {"u_fence", "u_pass"}
               PROVE  mem'[next(u)] # NULL /\ \A w : ~ Holds(u, next(u), w)'
    BY <1>1 DEF QspinPassReady
  <2>1. mem[next(u)] # NULL /\ \A w : ~ Holds(u, next(u), w)
    BY DEF QspinInv, QspinPassReady
  <2>2. CASE next(u) # x
    BY <1>2, <1>3, <2>1, <2>2, QspinFacts
  <2>3. CASE next(u) = x
    <3>1. t # u
      BY <1>3, <2>1, <2>3
    <3>2. v = t
      BY <1>3, <1>4, <2>3, <3>1 DEF QspinInv, QspinNextStores
    <3> QED BY <1>2, <1>3, <1>4, <2>1, <2>3, <3>2, QspinFacts
  <2> QED BY <2>2, <2>3
<1>13. QspinTail'
  <2>1. x # tail
    BY <1>3, <1>4 DEF QspinInv, QspinTail
  <2> QED BY <1>1, <1>2, <1>3, <2>1, QspinFacts DEF QspinInv, QspinTail
<1> QED BY <1>5, <1>6, <1>7, <1>8, <1>9, <1>10, <1>11, <1>12, <1>13 DEF QspinInv

(* main joins, or nothing changes.                                         *)
LEMMA QspinRestStep ==
  ASSUME QspinInv, \/ QspinMain /\ UNCHANGED rigid
                   \/ UNCHANGED vars
  PROVE  /\ QspinInv'
         /\ env' = env /\ \A u \in Contender : pc'[u] = pc[u]
<1>1. /\ mem' = mem /\ buf' = buf /\ reg' = reg /\ env' = env /\ model' = model
      /\ \A u \in Contender : pc'[u] = pc[u]
      /\ pc' \in [Locker -> {"l_next", "l_locked", "l_xchg", "l_link", "l_spin", "cs", "u_cas",
                             "u_wait", "u_fence", "u_pass", "done", "join", "exit"}]
      /\ pc'[Main] \in {"join", "exit"}
  <2>1. CASE QspinMain /\ UNCHANGED rigid
    <3>1. /\ mem' = mem /\ buf' = buf /\ reg' = reg /\ env' = env /\ model' = model
          /\ pc' = [pc EXCEPT ![Main] = "exit"]
      BY <2>1 DEF QspinMain, Await, Go, Silent, Keep, rigid
    <3> QED BY <3>1, LockWords DEF QspinInv, QspinTypes
  <2>2. CASE UNCHANGED vars
    BY <2>2 DEF vars, QspinInv, QspinTypes
  <2> QED BY <2>1, <2>2
<1>2. /\ \A u : Entries(u)' = Entries(u)
      /\ \A u, x, v : Holds(u, x, v)' <=> Holds(u, x, v)
  BY <1>1 DEF Entries, Holds
<1>3. /\ \A u \in Contender : IsFirst(u)' <=> IsFirst(u)
      /\ \A u, w \in Contender : /\ Behind(u, w)' <=> Behind(u, w)
                                 /\ Linked(u, w)' <=> Linked(u, w)
  BY <1>1 DEF IsFirst, Behind, Linked
<1>4. LineOK(QspinWaiting)'
  BY <1>1, <1>3 DEF QspinInv, LineOK, InLock
<1>5. QspinTypes'
  BY <1>1, <1>2 DEF QspinInv, QspinTypes, Weak, MemOK
<1>6. QspinBehind' /\ QspinNext'
  BY <1>1, <1>3 DEF QspinInv, QspinBehind, QspinNext
<1>7. QspinNextStores' /\ QspinLockedStores'
  BY <1>1, <1>2, <1>3 DEF QspinInv, QspinNextStores, QspinLockedStores
<1>8. QspinLocked' /\ QspinPassReady' /\ QspinTail'
  BY <1>1, <1>2, <1>3 DEF QspinInv, QspinLocked, QspinPassReady, QspinTail
<1> QED BY <1>1, <1>4, <1>5, <1>6, <1>7, <1>8 DEF QspinInv

-----------------------------------------------------------------------------
(* 3-sel4-dynamic.c: the CLH lock.                                         *)

ClhLoc == {tail} \cup {locked(n) : n \in ClhNode}
ClhVal == ClhNode \cup {0, 1}

(* From malloc to the end of the thread it has a node of its own.          *)
ClhHasNode == {"store", "xchg", "spin", "cs", "destructor", "ending"}

ClhTypes ==
  /\ Weak
  /\ MemOK(Locker, ClhLoc, ClhVal)
  /\ Entries(Main) = {}
  /\ pc \in [Locker -> ClhHasNode \cup {"malloc", "done", "join", "destroy", "exit"}]
  /\ pc[Main] \in {"join", "destroy", "exit"}
  /\ \A t \in Contender : pc[t] \notin {"join", "destroy", "exit"}
  /\ reg \in [Locker -> [my : ClhNode \cup {NULL}, pred : ClhNode \cup {NULL}]]
  /\ env \in [arrivals : Seq(Contender), heap : SUBSET ClhNode,
              freed : SUBSET ClhNode, spoilt : SUBSET ClhNode]

(* Every node has one owner: a thread, the allocator, or nobody; the dummy *)
(* never has one.                                                          *)
ClhNodes ==
  /\ env.heap \subseteq ClhNode \ {ClhDummy}
  /\ ClhDummy \notin env.freed
  /\ \A t \in Contender : pc[t] \in ClhHasNode =>
       reg[t].my \in ClhNode \ ({ClhDummy} \cup env.heap)
  /\ \A t, u \in Contender :
       pc[t] \in ClhHasNode /\ pc[u] \in ClhHasNode /\ reg[t].my = reg[u].my => t = u
  /\ \A t \in Contender : pc[t] = "ending" => reg[t].my \in env.freed

(* A thread buffers stores to its own node only, and an exchange waits for *)
(* the one before it, which is a release.                                  *)
ClhStores ==
  \A t \in Contender :
    /\ pc[t] \in {"malloc", "store", "spin", "cs", "done"} => Entries(t) = {}
    /\ pc[t] = "xchg" => \A e \in Entries(t) : e.rel /\ e.val = 1
    /\ \A e \in Entries(t) : e.loc = locked(reg[t].my)

ClhLocked ==
  \A t \in Contender :
    /\ pc[t] = "xchg" => mem[locked(reg[t].my)] = 1 \/ Entries(t) # {}
    /\ pc[t] \in {"spin", "cs"} => mem[locked(reg[t].my)] = 1

(* The thread behind waits on the node of the one before it.               *)
ClhBehind ==
  /\ \A u, t \in Contender : Behind(u, t) => reg[t].pred = reg[u].my
  /\ \A t \in Contender : pc[t] = "spin" => reg[t].pred \in ClhNode
  /\ \A t \in Contender : Final(env.arrivals, t) => mem[tail] = reg[t].my

(* The node at the tail has a thread in the line or about to be freed, or  *)
(* has been freed; at first it is the dummy.                               *)
ClhTail ==
  \/ mem[tail] = ClhDummy /\ \A t \in Contender : pc[t] \in {"malloc", "store", "xchg"}
  \/ mem[tail] \in env.freed /\ mem[tail] \in ClhNode
  \/ \E t \in Contender : pc[t] \in {"spin", "cs", "destructor"} /\ mem[tail] = reg[t].my

ClhJoined == pc[Main] \in {"destroy", "exit"} => \A t \in Contender : pc[t] = "done"

ClhInv ==
  /\ ClhTypes
  /\ LineOK({"spin"})
  /\ ClhNodes
  /\ ClhStores
  /\ ClhLocked
  /\ ClhBehind
  /\ ClhTail
  /\ ClhJoined

-----------------------------------------------------------------------------
ClhPC == ClhHasNode \cup {"malloc", "done", "join", "destroy", "exit"}

(* The nodes are numbers, and their words are words of the memory.         *)
LEMMA ClhNodeNumbers ==
  /\ Cardinality(Contender) \in Nat
  /\ ClhDummy \in ClhNode
  /\ \A n \in ClhNode : n \in ClhVal /\ n # NULL /\ locked(n) \in ClhLoc /\ locked(n) # tail
  /\ tail \in ClhLoc /\ 0 \in ClhVal /\ 1 \in ClhVal
<1>1. Cardinality(Contender) \in Nat
  BY ContenderAssumption, FS_CardinalityType
<1>2. \A n \in ClhNode : locked(n) # tail
  BY LockWords
<1> QED BY <1>1, <1>2 DEF ClhNode, ClhDummy, ClhVal, ClhLoc, NULL

(* What the invariant says of the types and of the line, for the steps.    *)
LEMMA ClhFacts ==
  ASSUME ClhInv
  PROVE  /\ Weak /\ MemOK(Locker, ClhLoc, ClhVal) /\ mem \in [ClhLoc -> ClhVal]
         /\ pc \in [Locker -> ClhPC]
         /\ env.arrivals \in Seq(Contender) /\ Distinct(env.arrivals)
         /\ LineOK({"spin"}) /\ {"spin"} \cap InQueueLock = {}
         /\ \A t \in Contender : t \in Locker /\ t # Main /\ reg[t].my \in ClhNode \cup {NULL}
         /\ \A t \in Contender : InLock(t) <=> pc[t] = "cs"
         /\ \A u, w \in Contender : Behind(u, w) =>
              pc[u] \in {"spin", "cs"} /\ pc[w] = "spin" /\ u # w /\ ~ IsFirst(w)
         /\ \A u \in Contender : Final(env.arrivals, u) => pc[u] \in {"spin", "cs"}
         /\ \A u \in Contender : pc[u] = "spin" /\ ~ IsFirst(u) =>
              \E w \in Contender : Behind(w, u)
         /\ mem[tail] \in ClhNode
<1>1. /\ Weak /\ MemOK(Locker, ClhLoc, ClhVal) /\ mem \in [ClhLoc -> ClhVal]
      /\ pc \in [Locker -> ClhPC]
      /\ env.arrivals \in Seq(Contender) /\ Distinct(env.arrivals)
      /\ LineOK({"spin"}) /\ {"spin"} \cap InQueueLock = {}
  BY DEF ClhInv, ClhTypes, LineOK, MemOK, InQueueLock, ClhPC
<1>2. \A t \in Contender : t \in Locker /\ t # Main /\ reg[t].my \in ClhNode \cup {NULL}
  BY LockWords DEF ClhInv, ClhTypes
<1>3. \A t \in Contender : InLock(t) <=> pc[t] = "cs"
  BY <1>1, <1>2 DEF InLock, InQueueLock, ClhPC, ClhHasNode
<1>4. \A u \in Contender : InLine(env.arrivals, u) <=> pc[u] \in {"spin", "cs"}
  BY <1>1, <1>3 DEF LineOK
<1>5. \A u, w \in Contender : Behind(u, w) =>
        pc[u] \in {"spin", "cs"} /\ pc[w] = "spin" /\ u # w /\ ~ IsFirst(w)
  <2> SUFFICES ASSUME NEW u \in Contender, NEW w \in Contender, Behind(u, w)
               PROVE  pc[u] \in {"spin", "cs"} /\ pc[w] = "spin" /\ u # w /\ ~ IsFirst(w)
    OBVIOUS
  <2>1. /\ ~ IsFirst(w) /\ u # w
        /\ InLine(env.arrivals, w) /\ InLine(env.arrivals, u)
    BY <1>1, LineFacts DEF Behind, IsFirst
  <2> QED BY <1>1, <1>3, <1>4, <2>1 DEF LineOK
<1>6. \A u \in Contender : Final(env.arrivals, u) => pc[u] \in {"spin", "cs"}
  BY <1>1, <1>4, LineFacts
<1>7. \A u \in Contender : pc[u] = "spin" /\ ~ IsFirst(u) => \E w \in Contender : Behind(w, u)
  BY <1>1, <1>4, LineFacts DEF Behind, IsFirst
<1>8. mem[tail] \in ClhNode
  BY ClhNodeNumbers DEF ClhInv, ClhTail, ClhNodes, ClhHasNode
<1> QED BY <1>1, <1>2, <1>3, <1>5, <1>6, <1>7, <1>8

(* The invariant holds when clh_lock_init has run.                         *)
LEMMA ClhInitInv == ClhInit => ClhInv
<1> SUFFICES ASSUME ClhInit PROVE ClhInv
  OBVIOUS
<1>1. /\ Weak
      /\ mem = [x \in ClhLoc |-> IF x = tail THEN ClhDummy ELSE 0]
      /\ buf = [t \in Locker |-> << >>]
      /\ pc = [t \in Locker |-> IF t = Main THEN "join" ELSE "malloc"]
      /\ reg = [t \in Locker |-> [my |-> NULL, pred |-> NULL]]
      /\ env = [arrivals |-> << >>, heap |-> ClhNode \ {ClhDummy}, freed |-> {}, spoilt |-> {}]
  BY DEF ClhInit, Boot, Weak, ClhLoc, Locker
<1>2. /\ env.arrivals = << >> /\ env.heap = ClhNode \ {ClhDummy} /\ env.freed = {}
      /\ env \in [arrivals : Seq(Contender), heap : SUBSET ClhNode,
                  freed : SUBSET ClhNode, spoilt : SUBSET ClhNode]
  BY <1>1
<1>3. \A t \in Locker : Entries(t) = {}
  BY <1>1 DEF Entries
<1>4. \A t \in Contender : pc[t] = "malloc" /\ t \in Locker
  BY <1>1, LockWords
<1>5. ClhTypes
  <2>1. MemOK(Locker, ClhLoc, ClhVal)
    BY <1>1, ClhNodeNumbers DEF MemOK
  <2>2. reg \in [Locker -> [my : ClhNode \cup {NULL}, pred : ClhNode \cup {NULL}]]
    BY <1>1
  <2>3. pc \in [Locker -> ClhPC]
    BY <1>1 DEF ClhPC
  <2>4. pc[Main] = "join" /\ Entries(Main) = {}
    BY <1>1, <1>3, LockWords
  <2> QED BY <1>1, <1>2, <1>4, <2>1, <2>2, <2>3, <2>4 DEF ClhTypes, ClhPC
<1>6. LineOK({"spin"})
  BY <1>2, <1>4, EmptyLine DEF LineOK, InLock, InQueueLock
<1>7. ClhNodes
  BY <1>2, <1>4 DEF ClhNodes, ClhHasNode
<1>8. ClhStores /\ ClhLocked
  BY <1>3, <1>4 DEF ClhStores, ClhLocked
<1>9. ClhBehind
  BY <1>2, <1>4, EmptyLine DEF ClhBehind, Behind
<1>10. ClhTail
  BY <1>1, <1>4, ClhNodeNumbers DEF ClhTail
<1>11. ClhJoined
  BY <1>1, LockWords DEF ClhJoined
<1> QED BY <1>5, <1>6, <1>7, <1>8, <1>9, <1>10, <1>11 DEF ClhInv

(* How a statement of a thread moves the program counter; main has not     *)
(* joined it yet.                                                          *)
LEMMA ClhGo ==
  ASSUME ClhInv, NEW t \in Contender, NEW from, NEW to, Go(t, from, to), from # "done",
         to \in ClhHasNode \cup {"done"}
  PROVE  /\ pc[t] = from
         /\ pc' \in [Locker -> ClhPC]
         /\ pc'[Main] = pc[Main] /\ pc[Main] = "join"
         /\ \A u \in Contender : pc'[u] \notin {"join", "destroy", "exit"}
         /\ \A u \in Contender : pc'[u] = IF u = t THEN to ELSE pc[u]
         /\ ClhJoined'
<1>1. /\ pc[t] = from
      /\ pc' \in [Locker -> ClhPC]
      /\ pc'[Main] = pc[Main]
      /\ \A u \in Contender : pc'[u] = IF u = t THEN to ELSE pc[u]
  BY ClhFacts, LockWords DEF Go, ClhPC
<1>2. pc[Main] = "join"
  BY <1>1 DEF ClhInv, ClhTypes, ClhJoined
<1>3. \A u \in Contender : pc'[u] \notin {"join", "destroy", "exit"}
  BY <1>1 DEF ClhInv, ClhTypes, ClhHasNode
<1> QED BY <1>1, <1>2, <1>3 DEF ClhJoined

(* malloc                                                                  *)
LEMMA ClhMallocStep ==
  ASSUME ClhInv, UNCHANGED rigid, NEW t \in Contender, ClhMalloc(t)
  PROVE  ClhInv'
<1>1. PICK n \in env.heap :
        /\ Go(t, "malloc", "store") /\ Silent
        /\ reg' = [reg EXCEPT ![t].my = n]
        /\ env' = [env EXCEPT !.heap = @ \ {n}, !.spoilt = @ \cup ({n} \cap env.freed)]
  BY DEF ClhMalloc, Local
<1>2. n \in ClhNode \ {ClhDummy}
  BY DEF ClhInv, ClhNodes
<1>3. /\ pc[t] = "malloc"
      /\ pc' \in [Locker -> ClhPC]
      /\ pc'[Main] = pc[Main] /\ pc[Main] = "join"
      /\ \A u \in Contender : pc'[u] \notin {"join", "destroy", "exit"}
      /\ \A u \in Contender : pc'[u] = IF u = t THEN "store" ELSE pc[u]
      /\ ClhJoined'
  BY <1>1, ClhGo DEF ClhHasNode
<1>4. /\ MemOK(Locker, ClhLoc, ClhVal)' /\ mem' = mem /\ Weak'
      /\ \A u \in Locker : Entries(u)' = Entries(u)
  BY <1>1, ClhFacts, SilentEntries DEF rigid, Weak
<1>5. /\ env' \in [arrivals : Seq(Contender), heap : SUBSET ClhNode,
                   freed : SUBSET ClhNode, spoilt : SUBSET ClhNode]
      /\ env'.arrivals = env.arrivals /\ env'.heap = env.heap \ {n} /\ env'.freed = env.freed
  <2> DEFINE h == env.heap \ {n}
             s == env.spoilt \cup ({n} \cap env.freed)
  <2>1. env \in [arrivals : Seq(Contender), heap : SUBSET ClhNode,
                 freed : SUBSET ClhNode, spoilt : SUBSET ClhNode]
    BY DEF ClhInv, ClhTypes
  <2>2. h \in SUBSET ClhNode /\ s \in SUBSET ClhNode
    BY <1>2, <2>1
  <2>3. env' = [env EXCEPT !.heap = h, !.spoilt = s]
    BY <1>1
  <2>4. h = env.heap \ {n}
    OBVIOUS
  <2> HIDE DEF h, s
  <2>5. /\ env' \in [arrivals : Seq(Contender), heap : SUBSET ClhNode,
                     freed : SUBSET ClhNode, spoilt : SUBSET ClhNode]
        /\ env'.arrivals = env.arrivals /\ env'.heap = h /\ env'.freed = env.freed
    BY <2>1, <2>2, <2>3
  <2> QED BY <2>4, <2>5
<1>6. /\ reg' \in [Locker -> [my : ClhNode \cup {NULL}, pred : ClhNode \cup {NULL}]]
      /\ reg'[t].my = n /\ \A u \in Contender : u # t => reg'[u] = reg[u]
  <2>1. reg \in [Locker -> [my : ClhNode \cup {NULL}, pred : ClhNode \cup {NULL}]]
    BY DEF ClhInv, ClhTypes
  <2> QED BY <1>1, <1>2, <2>1, ClhFacts
<1>7. /\ LineOK({"spin"})'
      /\ \A u, w \in Contender : Behind(u, w)' <=> Behind(u, w)
  <2>1. "store" \notin InQueueLock /\ pc[t] \notin InQueueLock
    BY <1>3 DEF InQueueLock
  <2> QED BY <1>3, <1>5, <2>1, ClhFacts, SameLineOK DEF InLock
<1>8. ClhTypes'
  BY <1>3, <1>4, <1>5, <1>6, LockWords DEF ClhInv, ClhTypes, ClhPC
<1>9. ClhNodes'
  <2>1. \A u \in Contender : u # t /\ pc[u] \in ClhHasNode => reg[u].my # n
    BY DEF ClhInv, ClhNodes
  <2>2. env'.heap \subseteq ClhNode \ {ClhDummy} /\ ClhDummy \notin env'.freed
    BY <1>5 DEF ClhInv, ClhNodes
  <2>3. \A u \in Contender : pc'[u] \in ClhHasNode =>
          reg'[u].my \in ClhNode \ ({ClhDummy} \cup env'.heap)
    BY <1>2, <1>3, <1>5, <1>6, <2>1 DEF ClhInv, ClhNodes
  <2>4. \A u, w \in Contender :
          pc'[u] \in ClhHasNode /\ pc'[w] \in ClhHasNode /\ reg'[u].my = reg'[w].my => u = w
    BY <1>3, <1>6, <2>1 DEF ClhInv, ClhNodes
  <2>5. \A u \in Contender : pc'[u] = "ending" => reg'[u].my \in env'.freed
    BY <1>3, <1>5, <1>6 DEF ClhInv, ClhNodes
  <2> QED BY <2>2, <2>3, <2>4, <2>5 DEF ClhNodes
<1>10. ClhStores'
  <2> SUFFICES ASSUME NEW u \in Contender
               PROVE  /\ pc'[u] \in {"malloc", "store", "spin", "cs", "done"} => Entries(u)' = {}
                      /\ pc'[u] = "xchg" => \A e \in Entries(u)' : e.rel /\ e.val = 1
                      /\ \A e \in Entries(u)' : e.loc = locked(reg'[u].my)
    BY DEF ClhStores
  <2>1. CASE u = t
    BY <1>3, <1>4, <2>1, ClhFacts DEF ClhInv, ClhStores
  <2>2. CASE u # t
    <3>1. pc'[u] = pc[u] /\ Entries(u)' = Entries(u) /\ reg'[u].my = reg[u].my
      BY <1>3, <1>4, <1>6, <2>2, ClhFacts
    <3> QED BY <3>1, Zenon DEF ClhInv, ClhStores
  <2> QED BY <2>1, <2>2
<1>11. ClhLocked'
  BY <1>3, <1>4, <1>6, ClhFacts DEF ClhInv, ClhLocked
<1>12. ClhBehind'
  <2>1. \A u, w \in Contender : Behind(u, w) => u # t /\ w # t
    BY <1>3, ClhFacts
  <2>2. \A u \in Contender : Final(env.arrivals, u) => u # t
    BY <1>3, ClhFacts
  <2> QED BY <1>3, <1>4, <1>5, <1>6, <1>7, <2>1, <2>2 DEF ClhInv, ClhBehind
<1>13. ClhTail'
  BY <1>3, <1>4, <1>5, <1>6 DEF ClhInv, ClhTail
<1> QED BY <1>3, <1>7, <1>8, <1>9, <1>10, <1>11, <1>12, <1>13 DEF ClhInv

(* The threads that have a node keep theirs.                               *)
LEMMA ClhSameNodes ==
  ASSUME ClhInv, NEW t \in Contender, NEW to, to # "ending", pc[t] \in ClhHasNode,
         \A u \in Contender : pc'[u] = IF u = t THEN to ELSE pc[u],
         \A u \in Contender : reg'[u].my = reg[u].my,
         env'.heap = env.heap, env'.freed = env.freed
  PROVE  ClhNodes'
<1>1. \A u \in Contender : pc'[u] \in ClhHasNode => pc[u] \in ClhHasNode
  OBVIOUS
<1>2. \A u \in Contender : pc'[u] = "ending" => pc[u] = "ending"
  OBVIOUS
<1> QED BY <1>1, <1>2 DEF ClhInv, ClhNodes

(* What the other threads hold, and their nodes, when t only stores to its *)
(* own node.                                                               *)
ClhOthers(t) ==
  \A u \in Contender : u # t =>
    /\ pc'[u] = pc[u] /\ reg'[u] = reg[u] /\ Entries(u)' = Entries(u)
    /\ pc[u] \in ClhHasNode => mem'[locked(reg[u].my)] = mem[locked(reg[u].my)]

(* The invariant of the other threads' buffers and nodes stays.            *)
LEMMA ClhOthersStores ==
  ASSUME ClhInv, NEW t \in Contender, ClhOthers(t)
  PROVE  \A u \in Contender : u # t =>
           /\ pc'[u] \in {"malloc", "store", "spin", "cs", "done"} => Entries(u)' = {}
           /\ pc'[u] = "xchg" => \A e \in Entries(u)' : e.rel /\ e.val = 1
           /\ \A e \in Entries(u)' : e.loc = locked(reg'[u].my)
           /\ pc'[u] = "xchg" => mem'[locked(reg'[u].my)] = 1 \/ Entries(u)' # {}
           /\ pc'[u] \in {"spin", "cs"} => mem'[locked(reg'[u].my)] = 1
<1> SUFFICES ASSUME NEW u \in Contender, u # t
             PROVE  /\ pc'[u] \in {"malloc", "store", "spin", "cs", "done"} => Entries(u)' = {}
                    /\ pc'[u] = "xchg" => \A e \in Entries(u)' : e.rel /\ e.val = 1
                    /\ \A e \in Entries(u)' : e.loc = locked(reg'[u].my)
                    /\ pc'[u] = "xchg" => mem'[locked(reg'[u].my)] = 1 \/ Entries(u)' # {}
                    /\ pc'[u] \in {"spin", "cs"} => mem'[locked(reg'[u].my)] = 1
  OBVIOUS
<1>1. /\ pc'[u] = pc[u] /\ reg'[u] = reg[u] /\ Entries(u)' = Entries(u)
      /\ pc[u] \in {"xchg", "spin", "cs"} => mem'[locked(reg[u].my)] = mem[locked(reg[u].my)]
  BY DEF ClhOthers, ClhHasNode
<1>2. /\ pc[u] \in {"malloc", "store", "spin", "cs", "done"} => Entries(u) = {}
      /\ pc[u] = "xchg" => \A e \in Entries(u) : e.rel /\ e.val = 1
      /\ \A e \in Entries(u) : e.loc = locked(reg[u].my)
  BY Zenon DEF ClhInv, ClhStores
<1>3. /\ pc[u] = "xchg" => mem[locked(reg[u].my)] = 1 \/ Entries(u) # {}
      /\ pc[u] \in {"spin", "cs"} => mem[locked(reg[u].my)] = 1
  BY DEF ClhInv, ClhLocked
<1>4. /\ pc'[u] \in {"malloc", "store", "spin", "cs", "done"} => Entries(u)' = {}
      /\ pc'[u] = "xchg" => \A e \in Entries(u)' : e.rel /\ e.val = 1
      /\ \A e \in Entries(u)' : e.loc = locked(reg'[u].my)
  BY <1>1, <1>2, Zenon
<1>5. /\ pc'[u] = "xchg" => mem'[locked(reg'[u].my)] = 1 \/ Entries(u)' # {}
      /\ pc'[u] \in {"spin", "cs"} => mem'[locked(reg'[u].my)] = 1
  BY <1>1, <1>3
<1> QED BY <1>4, <1>5

(* A store to its own node changes no other thread's.                      *)
LEMMA ClhOwnStore ==
  ASSUME ClhInv, NEW t \in Contender, pc[t] \in ClhHasNode, NEW x, x = locked(reg[t].my),
         \A y \in ClhLoc : y # x => mem'[y] = mem[y],
         \A u \in Locker : u # t => Entries(u)' = Entries(u),
         \A u \in Contender : u # t => pc'[u] = pc[u] /\ reg'[u] = reg[u]
  PROVE  ClhOthers(t) /\ mem'[tail] = mem[tail] /\ Entries(Main)' = {}
<1>1. \A u \in Contender : pc[u] \in ClhHasNode => reg[u].my \in ClhNode
  BY DEF ClhInv, ClhNodes
<1>2. \A u \in Contender : u # t /\ pc[u] \in ClhHasNode => reg[u].my # reg[t].my
  BY DEF ClhInv, ClhNodes
<1>3. \A u \in Contender : u # t /\ pc[u] \in ClhHasNode =>
        locked(reg[u].my) \in ClhLoc /\ locked(reg[u].my) # x
  BY <1>1, <1>2, ClhNodeNumbers, LockWords
<1>4. mem'[tail] = mem[tail]
  BY <1>1, ClhNodeNumbers
<1>5. Entries(Main)' = {}
  BY LockWords DEF ClhInv, ClhTypes
<1> QED BY <1>3, <1>4, <1>5, ClhFacts DEF ClhOthers

(* What a sequentially consistent store of a thread to its own node does.  *)
ClhWritten(t, v) ==
  /\ MemOK(Locker, ClhLoc, ClhVal)'
  /\ ClhOthers(t) /\ mem'[tail] = mem[tail] /\ Entries(Main)' = {}
  /\ \/ mem'[locked(reg[t].my)] = v /\ Entries(t)' = {}
     \/ /\ Entries(t)' # {}
        /\ \A e \in Entries(t)' : e.rel /\ e.val = v /\ e.loc = locked(reg[t].my)

(* The two stores to the thread's own locked, of 1 and of 0.               *)
LEMMA ClhWriteSC ==
  ASSUME ClhInv, NEW t \in Contender, NEW from \in {"store", "cs"}, NEW to,
         NEW v \in {0, 1}, WriteSC(t, from, locked(reg[t].my), v, to),
         UNCHANGED reg
  PROVE  ClhWritten(t, v)
<1>1. Go(t, from, to) /\ pc[t] = from
  BY DEF WriteSC, Go
<1>2. Entries(t) = {} /\ pc[t] \in ClhHasNode
  BY <1>1 DEF ClhInv, ClhStores, ClhHasNode
<1>3. PICK x \in ClhLoc, w \in ClhVal :
        x = locked(reg[t].my) /\ w = v /\ WriteSC(t, from, x, w, to)
  BY <1>2, ClhNodeNumbers DEF ClhInv, ClhNodes
<1>4. AddsRelease(Locker, ClhLoc, ClhVal, t, x, w) \/ StoresAtOnce(Locker, ClhLoc, ClhVal, t, x, w)
  BY <1>3, ClhFacts, WriteSCStores
<1>5. \A u \in Contender : u # t => pc'[u] = pc[u] /\ reg'[u] = reg[u]
  BY <1>1, ClhFacts DEF Go
<1>6. CASE AddsRelease(Locker, ClhLoc, ClhVal, t, x, w)
  <2>1. /\ MemOK(Locker, ClhLoc, ClhVal)' /\ mem' = mem
        /\ \A u \in Locker : u # t => Entries(u)' = Entries(u)
    BY <1>6, Zenon DEF AddsRelease
  <2>2. PICK e : e.loc = x /\ e.val = w /\ e.rel /\ Entries(t)' = Entries(t) \cup {e}
    BY <1>6, Zenon DEF AddsRelease
  <2>3. ClhOthers(t) /\ mem'[tail] = mem[tail] /\ Entries(Main)' = {}
    BY <1>2, <1>3, <1>5, <2>1, ClhOwnStore
  <2>4. Entries(t)' = {e}
    BY <1>2, <2>2
  <2>5. Entries(t)' # {} /\ \A f \in Entries(t)' : f = e
    BY <2>4
  <2>6. \A f \in Entries(t)' : f.rel /\ f.val = v /\ f.loc = locked(reg[t].my)
    BY <1>3, <2>2, <2>5, Zenon
  <2> QED BY <2>1, <2>3, <2>5, <2>6, Zenon DEF ClhWritten
<1>7. CASE StoresAtOnce(Locker, ClhLoc, ClhVal, t, x, w)
  <2>1. /\ MemOK(Locker, ClhLoc, ClhVal)' /\ mem' = [mem EXCEPT ![x] = w]
        /\ \A u \in Locker : Entries(u)' = Entries(u)
    BY <1>7, Zenon DEF StoresAtOnce
  <2>2. mem'[x] = w /\ \A y \in ClhLoc : y # x => mem'[y] = mem[y]
    BY <2>1, ClhFacts
  <2>3. ClhOthers(t) /\ mem'[tail] = mem[tail] /\ Entries(Main)' = {}
    BY <1>2, <1>3, <1>5, <2>1, <2>2, ClhOwnStore
  <2>4. Entries(t)' = {}
    BY <1>2, <2>1, ClhFacts
  <2> QED BY <1>3, <2>1, <2>2, <2>3, <2>4 DEF ClhWritten
<1> QED BY <1>4, <1>6, <1>7

(* mynode->locked = true                                                   *)
LEMMA ClhStoreStep ==
  ASSUME ClhInv, UNCHANGED rigid, NEW t \in Contender, ClhStore(t)
  PROVE  ClhInv'
<1>1. /\ WriteSC(t, "store", locked(reg[t].my), 1, "xchg")
      /\ Go(t, "store", "xchg") /\ reg' = reg /\ env' = env
  BY DEF ClhStore, WriteSC, Keep
<1>2. /\ pc[t] = "store"
      /\ pc' \in [Locker -> ClhPC]
      /\ pc'[Main] = pc[Main] /\ pc[Main] = "join"
      /\ \A u \in Contender : pc'[u] \notin {"join", "destroy", "exit"}
      /\ \A u \in Contender : pc'[u] = IF u = t THEN "xchg" ELSE pc[u]
      /\ ClhJoined'
  BY <1>1, ClhGo DEF ClhHasNode
<1>3. ClhWritten(t, 1)
  BY <1>1, ClhWriteSC
<1>4. MemOK(Locker, ClhLoc, ClhVal)' /\ ClhOthers(t) /\ mem'[tail] = mem[tail] /\ Entries(Main)' = {}
  BY <1>3 DEF ClhWritten
<1>5. /\ mem'[locked(reg[t].my)] = 1 \/ Entries(t)' # {}
      /\ \A e \in Entries(t)' : e.rel /\ e.val = 1 /\ e.loc = locked(reg[t].my)
  BY <1>3, Zenon DEF ClhWritten
<1>6. /\ LineOK({"spin"})'
      /\ \A u, w \in Contender : Behind(u, w)' <=> Behind(u, w)
  <2>1. "xchg" \notin InQueueLock /\ pc[t] \notin InQueueLock
    BY <1>2 DEF InQueueLock
  <2> QED BY <1>1, <1>2, <2>1, ClhFacts, SameLineOK DEF InLock
<1>7. ClhTypes'
  BY <1>1, <1>2, <1>4, ClhFacts DEF ClhInv, ClhTypes, ClhPC, Weak, rigid
<1>8. ClhNodes'
  BY <1>1, <1>2, ClhSameNodes DEF ClhHasNode
<1>9. ClhStores'
  <2> SUFFICES ASSUME NEW u \in Contender
               PROVE  /\ pc'[u] \in {"malloc", "store", "spin", "cs", "done"} => Entries(u)' = {}
                      /\ pc'[u] = "xchg" => \A e \in Entries(u)' : e.rel /\ e.val = 1
                      /\ \A e \in Entries(u)' : e.loc = locked(reg'[u].my)
    BY DEF ClhStores
  <2>1. CASE u = t
    <3>1. pc'[u] = "xchg" /\ reg'[u].my = reg[t].my
      BY <1>1, <1>2, <2>1
    <3> QED BY <1>5, <2>1, <3>1, Zenon
  <2>2. CASE u # t
    BY <1>4, <2>2, ClhOthersStores, Zenon
  <2> QED BY <2>1, <2>2
<1>10. ClhLocked'
  BY <1>1, <1>2, <1>4, <1>5, ClhOthersStores DEF ClhLocked
<1>11. ClhBehind'
  BY <1>1, <1>2, <1>4, <1>6 DEF ClhInv, ClhBehind
<1>12. ClhTail'
  BY <1>1, <1>2, <1>4 DEF ClhInv, ClhTail
<1> QED BY <1>2, <1>6, <1>7, <1>8, <1>9, <1>10, <1>11, <1>12 DEF ClhInv

(* The exchange on the tail: the thread joins the line.                    *)
LEMMA ClhExchangeStep ==
  ASSUME ClhInv, UNCHANGED rigid, NEW t \in Contender, ClhExchange(t)
  PROVE  /\ ClhInv'
         /\ ~ InLock(t) /\ ~ InLine(env.arrivals, t)
         /\ env'.arrivals = Append(env.arrivals, t)
         /\ \E to : /\ \A u \in Contender : pc'[u] = IF u = t THEN to ELSE pc[u]
                    /\ to \in InQueueLock => env.arrivals = << >>
<1>1. /\ CanRMW(t, tail) /\ Go(t, "xchg", "spin") /\ SetMem(tail, reg[t].my)
      /\ reg' = [reg EXCEPT ![t].pred = mem[tail]]
      /\ env' = [env EXCEPT !.arrivals = Append(@, t)]
  BY DEF ClhExchange
<1>2. /\ pc[t] = "xchg"
      /\ pc' \in [Locker -> ClhPC]
      /\ pc'[Main] = pc[Main] /\ pc[Main] = "join"
      /\ \A u \in Contender : pc'[u] \notin {"join", "destroy", "exit"}
      /\ \A u \in Contender : pc'[u] = IF u = t THEN "spin" ELSE pc[u]
      /\ ClhJoined'
  BY <1>1, ClhGo DEF ClhHasNode
<1>3. reg[t].my \in ClhNode /\ reg[t].my \in ClhVal /\ tail \in ClhLoc
  BY <1>2, ClhNodeNumbers DEF ClhInv, ClhNodes, ClhHasNode
<1>4. /\ MemOK(Locker, ClhLoc, ClhVal)'
      /\ mem' = [mem EXCEPT ![tail] = reg[t].my]
      /\ \A u \in Locker : Entries(u)' = Entries(u)
  BY <1>1, <1>3, ClhFacts, SetMemEntries
<1>5. /\ mem'[tail] = reg[t].my
      /\ \A n \in ClhNode : mem'[locked(n)] = mem[locked(n)]
  BY <1>3, <1>4, ClhFacts, ClhNodeNumbers
<1>6. /\ env' \in [arrivals : Seq(Contender), heap : SUBSET ClhNode,
                   freed : SUBSET ClhNode, spoilt : SUBSET ClhNode]
      /\ env'.arrivals = Append(env.arrivals, t)
      /\ env'.heap = env.heap /\ env'.freed = env.freed
  <2> DEFINE a == Append(env.arrivals, t)
  <2>1. env \in [arrivals : Seq(Contender), heap : SUBSET ClhNode,
                 freed : SUBSET ClhNode, spoilt : SUBSET ClhNode]
    BY DEF ClhInv, ClhTypes
  <2>2. a \in Seq(Contender)
    BY <2>1
  <2>3. env' = [env EXCEPT !.arrivals = a]
    BY <1>1
  <2>4. a = Append(env.arrivals, t)
    OBVIOUS
  <2> HIDE DEF a
  <2> QED BY <2>1, <2>2, <2>3, <2>4
<1>7. /\ reg' \in [Locker -> [my : ClhNode \cup {NULL}, pred : ClhNode \cup {NULL}]]
      /\ reg'[t].pred = mem[tail] /\ reg'[t].my = reg[t].my
      /\ \A u \in Contender : u # t => reg'[u] = reg[u]
  <2>1. reg \in [Locker -> [my : ClhNode \cup {NULL}, pred : ClhNode \cup {NULL}]]
    BY DEF ClhInv, ClhTypes
  <2> QED BY <1>1, <2>1, ClhFacts
<1>8. /\ LineOK({"spin"})'
      /\ ~ InLine(env.arrivals, t)
      /\ \A u \in Contender : ~ Behind(u, t)
      /\ \A u \in Contender : Final(env'.arrivals, u) <=> u = t
      /\ \A u, w \in Contender : Behind(u, w)' <=>
                                   Behind(u, w) \/ (Final(env.arrivals, u) /\ w = t)
  <2>1. ~ InLock(t) /\ pc[t] \notin {"spin"} /\ "spin" \in {"spin"}
    BY <1>2, ClhFacts
  <2>2. /\ LineOK({"spin"}) /\ {"spin"} \cap InQueueLock = {}
        /\ env.arrivals \in Seq(Contender)
        /\ env'.arrivals = Append(env.arrivals, t)
        /\ \A u \in Contender : pc'[u] = IF u = t THEN "spin" ELSE pc[u]
    BY <1>2, <1>6, ClhFacts
  <2> QED BY <2>1, <2>2, JoinLineOK
<1>9. Entries(t) = {}
  <2>1. \A e \in Entries(t) : e.rel
    BY <1>2, Zenon DEF ClhInv, ClhStores
  <2>2. CASE model = "TSO"
    <3>1. Drained(t)
      BY <1>1, <2>2 DEF CanRMW, TSO!CanRMW, TSO!Drained, Drained, SC!Drained
    <3> QED BY <3>1, ClhFacts, DrainedEntries
  <2>3. CASE model = "ARM"
    <3>1. \A i \in DOMAIN buf[t] : ~ buf[t][i].rel
      BY <1>1, <2>3 DEF CanRMW, NoRelease
    <3>2. \A e \in Entries(t) : ~ e.rel
      BY <3>1, Zenon DEF Entries
    <3>3. \A e \in Entries(t) : FALSE
      BY <2>1, <3>2, Zenon
    <3> QED BY <3>3
  <2> QED BY <2>2, <2>3, ClhFacts DEF Weak
<1>10. mem[locked(reg[t].my)] = 1
  BY <1>2, <1>9 DEF ClhInv, ClhLocked
<1>11. ClhOthers(t)
  BY <1>2, <1>4, <1>5, <1>7, ClhFacts DEF ClhOthers, ClhInv, ClhNodes
<1>12. ClhTypes'
  BY <1>2, <1>4, <1>6, <1>7, LockWords DEF ClhInv, ClhTypes, ClhPC, Weak, rigid
<1>13. ClhNodes'
  <2>1. \A u \in Contender : reg'[u].my = reg[u].my
    BY <1>7
  <2> QED BY <1>2, <1>6, <2>1, ClhSameNodes DEF ClhHasNode
<1>14. ClhStores'
  <2> SUFFICES ASSUME NEW u \in Contender
               PROVE  /\ pc'[u] \in {"malloc", "store", "spin", "cs", "done"} => Entries(u)' = {}
                      /\ pc'[u] = "xchg" => \A e \in Entries(u)' : e.rel /\ e.val = 1
                      /\ \A e \in Entries(u)' : e.loc = locked(reg'[u].my)
    BY DEF ClhStores
  <2>1. CASE u = t
    BY <1>2, <1>4, <1>9, <2>1, ClhFacts
  <2>2. CASE u # t
    BY <1>11, <2>2, ClhOthersStores, Zenon
  <2> QED BY <2>1, <2>2
<1>15. ClhLocked'
  BY <1>2, <1>3, <1>5, <1>7, <1>10, <1>11, ClhOthersStores DEF ClhLocked
<1>16. ClhBehind'
  <2>1. \A u, w \in Contender : Behind(u, w)' => reg'[w].pred = reg'[u].my
    <3> SUFFICES ASSUME NEW u \in Contender, NEW w \in Contender, Behind(u, w)'
                 PROVE  reg'[w].pred = reg'[u].my
      OBVIOUS
    <3>1. CASE Behind(u, w)
      BY <1>7, <1>8, <3>1 DEF ClhInv, ClhBehind
    <3>2. CASE Final(env.arrivals, u) /\ w = t
      <4>1. mem[tail] = reg[u].my /\ u # t
        BY <1>2, <3>2, ClhFacts DEF ClhInv, ClhBehind
      <4> QED BY <1>7, <3>2, <4>1
    <3> QED BY <1>8, <3>1, <3>2
  <2>2. \A u \in Contender : pc'[u] = "spin" => reg'[u].pred \in ClhNode
    BY <1>2, <1>7, ClhFacts DEF ClhInv, ClhBehind
  <2>3. \A u \in Contender : Final(env'.arrivals, u) => mem'[tail] = reg'[u].my
    BY <1>5, <1>7, <1>8
  <2> QED BY <2>1, <2>2, <2>3 DEF ClhBehind
<1>17. ClhTail'
  BY <1>2, <1>5, <1>7 DEF ClhTail
<1>18. ClhInv'
  BY <1>2, <1>8, <1>12, <1>13, <1>14, <1>15, <1>16, <1>17 DEF ClhInv
<1>19. ~ InLock(t) /\ "spin" \notin InQueueLock
  BY <1>2, ClhFacts DEF InQueueLock
<1> QED BY <1>2, <1>6, <1>8, <1>18, <1>19

(* The node before it is unlocked: the thread is the first of the line.    *)
LEMMA ClhSpinStep ==
  ASSUME ClhInv, UNCHANGED rigid, NEW t \in Contender, ClhSpin(t)
  PROVE  ClhInv' /\ IsFirst(t) /\ env'.arrivals = env.arrivals
         /\ \A u \in Contender : pc'[u] = IF u = t THEN "cs" ELSE pc[u]
<1>1. /\ Load(t, locked(reg[t].pred)) = 0
      /\ Go(t, "spin", "cs") /\ Silent /\ reg' = reg /\ env' = env
  BY DEF ClhSpin, Await, Keep
<1>2. /\ pc[t] = "spin"
      /\ pc' \in [Locker -> ClhPC]
      /\ pc'[Main] = pc[Main] /\ pc[Main] = "join"
      /\ \A u \in Contender : pc'[u] \notin {"join", "destroy", "exit"}
      /\ \A u \in Contender : pc'[u] = IF u = t THEN "cs" ELSE pc[u]
      /\ ClhJoined'
  BY <1>1, ClhGo DEF ClhHasNode
<1>3. /\ MemOK(Locker, ClhLoc, ClhVal)' /\ mem' = mem
      /\ \A u \in Locker : Entries(u)' = Entries(u)
  BY <1>1, ClhFacts, SilentEntries
<1>4. mem[locked(reg[t].pred)] = 0
  <2>1. Entries(t) = {} /\ reg[t].pred \in ClhNode
    BY <1>2 DEF ClhInv, ClhStores, ClhBehind
  <2> QED BY <1>1, <2>1, ClhFacts, ClhNodeNumbers, LoadEntries
<1>5. IsFirst(t)
  <2> SUFFICES ASSUME ~ IsFirst(t) PROVE FALSE
    OBVIOUS
  <2>1. PICK w \in Contender : Behind(w, t)
    BY <1>2, ClhFacts
  <2>2. reg[t].pred = reg[w].my /\ pc[w] \in {"spin", "cs"}
    BY <2>1, ClhFacts DEF ClhInv, ClhBehind
  <2>3. mem[locked(reg[w].my)] = 1
    BY <2>2 DEF ClhInv, ClhLocked
  <2> QED BY <1>4, <2>2, <2>3
<1>6. /\ LineOK({"spin"})'
      /\ \A u, w \in Contender : Behind(u, w)' <=> Behind(u, w)
  <2>1. "cs" \in InQueueLock /\ "cs" \notin {"spin"} /\ pc[t] \in {"spin"}
    BY <1>2 DEF InQueueLock
  <2>2. LineOK({"spin"}) /\ {"spin"} \cap InQueueLock = {} /\ env'.arrivals = env.arrivals
    BY <1>1, ClhFacts
  <2> QED BY <1>2, <1>5, <2>1, <2>2, SameLineOK
<1>7. ClhTypes'
  BY <1>1, <1>2, <1>3, ClhFacts, LockWords DEF ClhInv, ClhTypes, ClhPC, Weak, rigid
<1>8. ClhNodes'
  BY <1>1, <1>2, ClhSameNodes DEF ClhHasNode
<1>9. ClhOthers(t)
  BY <1>1, <1>2, <1>3, ClhFacts DEF ClhOthers
<1>10. Entries(t)' = {} /\ mem'[locked(reg[t].my)] = 1
  BY <1>2, <1>3, ClhFacts DEF ClhInv, ClhStores, ClhLocked
<1>11. ClhStores'
  <2> SUFFICES ASSUME NEW u \in Contender
               PROVE  /\ pc'[u] \in {"malloc", "store", "spin", "cs", "done"} => Entries(u)' = {}
                      /\ pc'[u] = "xchg" => \A e \in Entries(u)' : e.rel /\ e.val = 1
                      /\ \A e \in Entries(u)' : e.loc = locked(reg'[u].my)
    BY DEF ClhStores
  <2>1. CASE u = t
    BY <1>2, <1>10, <2>1
  <2>2. CASE u # t
    BY <1>9, <2>2, ClhOthersStores, Zenon
  <2> QED BY <2>1, <2>2
<1>12. ClhLocked'
  BY <1>1, <1>2, <1>9, <1>10, ClhOthersStores DEF ClhLocked
<1>13. ClhBehind'
  BY <1>1, <1>2, <1>3, <1>6 DEF ClhInv, ClhBehind
<1>14. ClhTail'
  BY <1>1, <1>2, <1>3 DEF ClhInv, ClhTail
<1>15. ClhInv'
  BY <1>2, <1>6, <1>7, <1>8, <1>11, <1>12, <1>13, <1>14 DEF ClhInv
<1> QED BY <1>1, <1>2, <1>5, <1>15

(* clh_unlock: the first of the line leaves it.                            *)
LEMMA ClhUnlockStep ==
  ASSUME ClhInv, UNCHANGED rigid, NEW t \in Contender, ClhUnlock(t)
  PROVE  ClhInv' /\ InLock(t) /\ env'.arrivals = Tail(env.arrivals)
         /\ \A u \in Contender : pc'[u] = IF u = t THEN "destructor" ELSE pc[u]
<1>1. /\ WriteSC(t, "cs", locked(reg[t].my), 0, "destructor")
      /\ Go(t, "cs", "destructor") /\ reg' = reg
      /\ env' = [env EXCEPT !.arrivals = Tail(@)]
  BY DEF ClhUnlock, WriteSC
<1>2. /\ pc[t] = "cs"
      /\ pc' \in [Locker -> ClhPC]
      /\ pc'[Main] = pc[Main] /\ pc[Main] = "join"
      /\ \A u \in Contender : pc'[u] \notin {"join", "destroy", "exit"}
      /\ \A u \in Contender : pc'[u] = IF u = t THEN "destructor" ELSE pc[u]
      /\ ClhJoined'
  BY <1>1, ClhGo DEF ClhHasNode
<1>3. ClhWritten(t, 0)
  BY <1>1, ClhWriteSC
<1>4. MemOK(Locker, ClhLoc, ClhVal)' /\ ClhOthers(t) /\ mem'[tail] = mem[tail] /\ Entries(Main)' = {}
  BY <1>3 DEF ClhWritten
<1>5. \A e \in Entries(t)' : e.loc = locked(reg[t].my)
  BY <1>3, Zenon DEF ClhWritten
<1>6. InLock(t)
  BY <1>2, ClhFacts
<1>7. env'.arrivals = Tail(env.arrivals) /\ env'.heap = env.heap /\ env'.freed = env.freed
      /\ env'.spoilt = env.spoilt
  BY <1>1 DEF ClhInv, ClhTypes
<1>8. /\ LineOK({"spin"})'
      /\ env'.arrivals \in Seq(Contender)
      /\ \A u, w \in Contender : Behind(u, w)' => Behind(u, w)
      /\ \A u \in Contender : Final(env'.arrivals, u) => Final(env.arrivals, u)
  <2>1. "destructor" \notin {"spin"} /\ "destructor" \notin InQueueLock
    BY DEF InQueueLock
  <2> QED BY <1>2, <1>6, <1>7, <2>1, ClhFacts, LeaveLineOK
<1>9. env' \in [arrivals : Seq(Contender), heap : SUBSET ClhNode,
                freed : SUBSET ClhNode, spoilt : SUBSET ClhNode]
  <2> DEFINE a == Tail(env.arrivals)
  <2>1. env \in [arrivals : Seq(Contender), heap : SUBSET ClhNode,
                 freed : SUBSET ClhNode, spoilt : SUBSET ClhNode]
    BY DEF ClhInv, ClhTypes
  <2>2. a \in Seq(Contender)
    BY <1>7, <1>8
  <2>3. env' = [env EXCEPT !.arrivals = a]
    BY <1>1
  <2> HIDE DEF a
  <2> QED BY <2>1, <2>2, <2>3
<1>10. ClhTypes'
  BY <1>1, <1>2, <1>4, <1>9, ClhFacts DEF ClhInv, ClhTypes, ClhPC, Weak, rigid
<1>11. ClhNodes'
  BY <1>1, <1>2, <1>7, ClhSameNodes DEF ClhHasNode
<1>12. ClhStores'
  <2> SUFFICES ASSUME NEW u \in Contender
               PROVE  /\ pc'[u] \in {"malloc", "store", "spin", "cs", "done"} => Entries(u)' = {}
                      /\ pc'[u] = "xchg" => \A e \in Entries(u)' : e.rel /\ e.val = 1
                      /\ \A e \in Entries(u)' : e.loc = locked(reg'[u].my)
    BY DEF ClhStores
  <2>1. CASE u = t
    BY <1>1, <1>2, <1>5, <2>1
  <2>2. CASE u # t
    BY <1>4, <2>2, ClhOthersStores, Zenon
  <2> QED BY <2>1, <2>2
<1>13. ClhLocked'
  BY <1>1, <1>2, <1>4, ClhOthersStores DEF ClhLocked
<1>14. ClhBehind'
  BY <1>1, <1>2, <1>4, <1>8 DEF ClhInv, ClhBehind
<1>15. ClhTail'
  BY <1>1, <1>2, <1>4, <1>7 DEF ClhInv, ClhTail
<1>16. ClhInv'
  BY <1>2, <1>8, <1>10, <1>11, <1>12, <1>13, <1>14, <1>15 DEF ClhInv
<1> QED BY <1>2, <1>6, <1>7, <1>16

(* The destructor frees the node, and may write over it.                   *)
LEMMA ClhDestructorStep ==
  ASSUME ClhInv, UNCHANGED rigid, NEW t \in Contender, ClhDestructor(t)
  PROVE  ClhInv' /\ env'.arrivals = env.arrivals
         /\ \A u \in Contender : InLock(u)' <=> InLock(u)
<1> DEFINE n == reg[t].my
<1>1. /\ Go(t, "destructor", "ending") /\ reg' = reg
      /\ Silent \/ Write(t, "destructor", locked(n), 1, "ending")
      /\ \E s \in SUBSET {n} : env' = [env EXCEPT !.freed = @ \cup {n}, !.spoilt = @ \cup s]
  <2>1. CASE Local(t, "destructor", "ending") /\ env' = [env EXCEPT !.freed = @ \cup {n}]
    <3>1. env' = [env EXCEPT !.freed = @ \cup {n}, !.spoilt = @ \cup {}]
      BY <2>1 DEF ClhInv, ClhTypes
    <3> QED BY <2>1, <3>1 DEF ClhDestructor, Local
  <2>2. CASE /\ Write(t, "destructor", locked(n), 1, "ending")
             /\ env' = [env EXCEPT !.freed = @ \cup {n}, !.spoilt = @ \cup {n}]
    BY <2>2 DEF ClhDestructor, Write
  <2> QED BY <2>1, <2>2 DEF ClhDestructor
<1>2. /\ pc[t] = "destructor"
      /\ pc' \in [Locker -> ClhPC]
      /\ pc'[Main] = pc[Main] /\ pc[Main] = "join"
      /\ \A u \in Contender : pc'[u] \notin {"join", "destroy", "exit"}
      /\ \A u \in Contender : pc'[u] = IF u = t THEN "ending" ELSE pc[u]
      /\ ClhJoined'
  BY <1>1, ClhGo DEF ClhHasNode
<1>3. n \in ClhNode \ ({ClhDummy} \cup env.heap)
  BY <1>2 DEF ClhInv, ClhNodes, ClhHasNode
<1>4. \A e \in Entries(t) : e.loc = locked(n)
  BY DEF ClhInv, ClhStores
<1>5. /\ env' \in [arrivals : Seq(Contender), heap : SUBSET ClhNode,
                   freed : SUBSET ClhNode, spoilt : SUBSET ClhNode]
      /\ env'.arrivals = env.arrivals /\ env'.heap = env.heap
      /\ env'.freed = env.freed \cup {n}
  <2>1. PICK s \in SUBSET {n} : env' = [env EXCEPT !.freed = @ \cup {n}, !.spoilt = @ \cup s]
    BY <1>1
  <2> DEFINE f == env.freed \cup {n}
             p == env.spoilt \cup s
  <2>2. env \in [arrivals : Seq(Contender), heap : SUBSET ClhNode,
                 freed : SUBSET ClhNode, spoilt : SUBSET ClhNode]
    BY DEF ClhInv, ClhTypes
  <2>3. f \in SUBSET ClhNode /\ p \in SUBSET ClhNode
    BY <1>3, <2>2
  <2>4. env' = [env EXCEPT !.freed = f, !.spoilt = p]
    BY <2>1
  <2>5. f = env.freed \cup {n}
    OBVIOUS
  <2> HIDE DEF f, p
  <2>6. /\ env' \in [arrivals : Seq(Contender), heap : SUBSET ClhNode,
                     freed : SUBSET ClhNode, spoilt : SUBSET ClhNode]
        /\ env'.arrivals = env.arrivals /\ env'.heap = env.heap /\ env'.freed = f
    BY <2>2, <2>3, <2>4
  <2> QED BY <2>5, <2>6
<1>6. /\ MemOK(Locker, ClhLoc, ClhVal)' /\ ClhOthers(t)
      /\ mem'[tail] = mem[tail] /\ Entries(Main)' = {}
      /\ \A e \in Entries(t)' : e.loc = locked(n)
  <2>1. CASE Silent
    <3>1. /\ MemOK(Locker, ClhLoc, ClhVal)' /\ mem' = mem
          /\ \A u \in Locker : Entries(u)' = Entries(u)
      BY <2>1, ClhFacts, SilentEntries
    <3>2. ClhOthers(t)
      BY <1>1, <1>2, <3>1, ClhFacts DEF ClhOthers
    <3>3. Entries(Main)' = {}
      BY <3>1, LockWords DEF ClhInv, ClhTypes
    <3> QED BY <1>4, <3>1, <3>2, <3>3, ClhFacts
  <2>2. CASE Write(t, "destructor", locked(n), 1, "ending")
    <3>1. PICK x \in ClhLoc, v \in ClhVal :
            x = locked(n) /\ v = 1 /\ Put(t, x, v, FALSE) /\ FALSE \in BOOLEAN
      BY <1>3, <2>2, ClhNodeNumbers DEF Write
    <3>2. Adds(Locker, ClhLoc, ClhVal, t, x, v)
      BY <3>1, ClhFacts, PutAdds, Zenon
    <3>3. /\ MemOK(Locker, ClhLoc, ClhVal)' /\ mem' = mem
          /\ \A u \in Locker : u # t => Entries(u)' = Entries(u)
      BY <3>2 DEF Adds
    <3>4. PICK e : e.loc = x /\ Entries(t)' = Entries(t) \cup {e}
      BY <3>2 DEF Adds
    <3>5. ClhOthers(t) /\ mem'[tail] = mem[tail] /\ Entries(Main)' = {}
      <4>1. pc[t] \in ClhHasNode
        BY <1>2 DEF ClhHasNode
      <4>2. \A u \in Contender : u # t => pc'[u] = pc[u] /\ reg'[u] = reg[u]
        BY <1>1, <1>2
      <4> QED BY <3>1, <3>3, <4>1, <4>2, ClhOwnStore
    <3>6. \A f \in Entries(t)' : f.loc = locked(n)
      BY <1>4, <3>1, <3>4
    <3> QED BY <3>3, <3>5, <3>6
  <2> QED BY <1>1, <2>1, <2>2
<1>7. /\ LineOK({"spin"})'
      /\ \A u, w \in Contender : Behind(u, w)' <=> Behind(u, w)
  <2>1. "ending" \notin InQueueLock /\ pc[t] \notin InQueueLock /\ "ending" \notin {"spin"}
        /\ pc[t] \notin {"spin"}
    BY <1>2 DEF InQueueLock
  <2> QED BY <1>2, <1>5, <2>1, ClhFacts, SameLineOK DEF InLock
<1>8. ClhTypes'
  BY <1>1, <1>2, <1>5, <1>6, ClhFacts DEF ClhInv, ClhTypes, ClhPC, Weak, rigid
<1>9. ClhNodes'
  <2>1. \A u \in Contender : pc'[u] \in ClhHasNode => pc[u] \in ClhHasNode
    BY <1>2 DEF ClhHasNode
  <2>2. env'.heap \subseteq ClhNode \ {ClhDummy} /\ ClhDummy \notin env'.freed
    BY <1>3, <1>5 DEF ClhInv, ClhNodes
  <2>3. \A u \in Contender : pc'[u] = "ending" => reg'[u].my \in env'.freed
    BY <1>1, <1>2, <1>5 DEF ClhInv, ClhNodes
  <2> QED BY <1>1, <1>5, <2>1, <2>2, <2>3 DEF ClhInv, ClhNodes
<1>10. ClhStores'
  <2> SUFFICES ASSUME NEW u \in Contender
               PROVE  /\ pc'[u] \in {"malloc", "store", "spin", "cs", "done"} => Entries(u)' = {}
                      /\ pc'[u] = "xchg" => \A e \in Entries(u)' : e.rel /\ e.val = 1
                      /\ \A e \in Entries(u)' : e.loc = locked(reg'[u].my)
    BY DEF ClhStores
  <2>1. CASE u = t
    BY <1>1, <1>2, <1>6, <2>1
  <2>2. CASE u # t
    BY <1>6, <2>2, ClhOthersStores, Zenon
  <2> QED BY <2>1, <2>2
<1>11. ClhLocked'
  BY <1>1, <1>2, <1>6, ClhOthersStores DEF ClhLocked
<1>12. ClhBehind'
  BY <1>1, <1>2, <1>5, <1>6, <1>7 DEF ClhInv, ClhBehind
<1>13. ClhTail'
  <2>1. CASE \E u \in Contender : pc[u] \in {"spin", "cs", "destructor"} /\ mem[tail] = reg[u].my
    <3>1. PICK u \in Contender : pc[u] \in {"spin", "cs", "destructor"} /\ mem[tail] = reg[u].my
      BY <2>1
    <3>2. CASE u = t
      BY <1>3, <1>5, <1>6, <3>1, <3>2 DEF ClhTail
    <3>3. CASE u # t
      BY <1>1, <1>2, <1>6, <3>1, <3>3 DEF ClhTail
    <3> QED BY <3>2, <3>3
  <2>2. CASE mem[tail] \in env.freed /\ mem[tail] \in ClhNode
    BY <1>5, <1>6, <2>2 DEF ClhTail
  <2>3. CASE mem[tail] = ClhDummy /\ \A u \in Contender : pc[u] \in {"malloc", "store", "xchg"}
    BY <1>2, <2>3
  <2> QED BY <2>1, <2>2, <2>3 DEF ClhInv, ClhTail
<1>14. ClhInv'
  BY <1>2, <1>7, <1>8, <1>9, <1>10, <1>11, <1>12, <1>13 DEF ClhInv
<1>15. \A u \in Contender : InLock(u)' <=> InLock(u)
  BY <1>2, <1>14, ClhFacts DEF InLock, InQueueLock
<1> QED BY <1>5, <1>14, <1>15

(* The thread ends, when its stores are in memory; the allocator may give  *)
(* its node to another.                                                    *)
LEMMA ClhEndStep ==
  ASSUME ClhInv, UNCHANGED rigid, NEW t \in Contender, ClhEnd(t)
  PROVE  ClhInv' /\ env'.arrivals = env.arrivals
         /\ \A u \in Contender : InLock(u)' <=> InLock(u)
<1> DEFINE n == reg[t].my
<1>1. /\ Drained(t) /\ Go(t, "ending", "done") /\ Silent /\ reg' = reg
      /\ env' = [env EXCEPT !.heap = @ \cup ({n} \cap env.freed)]
  BY DEF ClhEnd, FullFence, Await
<1>2. /\ pc[t] = "ending"
      /\ pc' \in [Locker -> ClhPC]
      /\ pc'[Main] = pc[Main] /\ pc[Main] = "join"
      /\ \A u \in Contender : pc'[u] \notin {"join", "destroy", "exit"}
      /\ \A u \in Contender : pc'[u] = IF u = t THEN "done" ELSE pc[u]
      /\ ClhJoined'
  BY <1>1, ClhGo
<1>3. n \in ClhNode \ {ClhDummy} /\ n \in env.freed
  BY <1>2 DEF ClhInv, ClhNodes, ClhHasNode
<1>4. /\ MemOK(Locker, ClhLoc, ClhVal)' /\ mem' = mem
      /\ \A u \in Locker : Entries(u)' = Entries(u)
      /\ Entries(t) = {}
  BY <1>1, ClhFacts, SilentEntries, DrainedEntries
<1>5. /\ env' \in [arrivals : Seq(Contender), heap : SUBSET ClhNode,
                   freed : SUBSET ClhNode, spoilt : SUBSET ClhNode]
      /\ env'.arrivals = env.arrivals /\ env'.heap = env.heap \cup {n}
      /\ env'.freed = env.freed
  <2> DEFINE h == env.heap \cup ({n} \cap env.freed)
  <2>1. env \in [arrivals : Seq(Contender), heap : SUBSET ClhNode,
                 freed : SUBSET ClhNode, spoilt : SUBSET ClhNode]
    BY DEF ClhInv, ClhTypes
  <2>2. h \in SUBSET ClhNode /\ h = env.heap \cup {n}
    BY <1>3, <2>1
  <2>3. env' = [env EXCEPT !.heap = h]
    BY <1>1
  <2> HIDE DEF h
  <2> QED BY <2>1, <2>2, <2>3
<1>6. ClhOthers(t)
  BY <1>1, <1>2, <1>4, ClhFacts DEF ClhOthers
<1>7. /\ LineOK({"spin"})'
      /\ \A u, w \in Contender : Behind(u, w)' <=> Behind(u, w)
  <2>1. "done" \notin InQueueLock /\ pc[t] \notin InQueueLock /\ "done" \notin {"spin"}
        /\ pc[t] \notin {"spin"}
    BY <1>2 DEF InQueueLock
  <2> QED BY <1>2, <1>5, <2>1, ClhFacts, SameLineOK DEF InLock
<1>8. ClhTypes'
  BY <1>1, <1>2, <1>4, <1>5, ClhFacts, LockWords DEF ClhInv, ClhTypes, ClhPC, Weak, rigid
<1>9. ClhNodes'
  <2>1. \A u \in Contender : pc'[u] \in ClhHasNode =>
          u # t /\ pc'[u] = pc[u] /\ reg[u].my # n
    BY <1>2 DEF ClhHasNode, ClhInv, ClhNodes
  <2>2. env'.heap \subseteq ClhNode \ {ClhDummy} /\ ClhDummy \notin env'.freed
    BY <1>3, <1>5 DEF ClhInv, ClhNodes
  <2>3. \A u \in Contender : pc'[u] = "ending" => reg'[u].my \in env'.freed
    BY <1>1, <1>2, <1>5 DEF ClhInv, ClhNodes
  <2> QED BY <1>1, <1>5, <2>1, <2>2, <2>3 DEF ClhInv, ClhNodes
<1>10. ClhStores'
  <2> SUFFICES ASSUME NEW u \in Contender
               PROVE  /\ pc'[u] \in {"malloc", "store", "spin", "cs", "done"} => Entries(u)' = {}
                      /\ pc'[u] = "xchg" => \A e \in Entries(u)' : e.rel /\ e.val = 1
                      /\ \A e \in Entries(u)' : e.loc = locked(reg'[u].my)
    BY DEF ClhStores
  <2>1. CASE u = t
    BY <1>4, <2>1, ClhFacts
  <2>2. CASE u # t
    BY <1>6, <2>2, ClhOthersStores, Zenon
  <2> QED BY <2>1, <2>2
<1>11. ClhLocked'
  BY <1>1, <1>2, <1>6, ClhOthersStores DEF ClhLocked
<1>12. ClhBehind'
  BY <1>1, <1>2, <1>4, <1>5, <1>7 DEF ClhInv, ClhBehind
<1>13. ClhTail'
  BY <1>1, <1>2, <1>4, <1>5 DEF ClhInv, ClhTail
<1>14. ClhInv'
  BY <1>2, <1>7, <1>8, <1>9, <1>10, <1>11, <1>12, <1>13 DEF ClhInv
<1>15. \A u \in Contender : InLock(u)' <=> InLock(u)
  BY <1>2, <1>14, ClhFacts DEF InLock, InQueueLock
<1> QED BY <1>5, <1>14, <1>15

(* When the threads have ended, the node at the tail has been freed.       *)
LEMMA ClhAllDone ==
  ASSUME ClhInv, \A u \in Contender : pc[u] = "done"
  PROVE  mem[tail] \in env.freed /\ mem[tail] # ClhDummy
  BY ContenderAssumption DEF ClhInv, ClhTail, ClhNodes

(* main: nothing that the threads know of changes.                         *)
LEMMA ClhQuiet ==
  ASSUME ClhInv, UNCHANGED rigid, mem' = mem, buf' = buf, reg' = reg,
         pc' \in [Locker -> ClhPC], pc'[Main] \in {"join", "destroy", "exit"},
         \A u \in Contender : pc'[u] = pc[u],
         env' \in [arrivals : Seq(Contender), heap : SUBSET ClhNode,
                   freed : SUBSET ClhNode, spoilt : SUBSET ClhNode],
         env'.arrivals = env.arrivals, env'.freed = env.freed,
         env'.heap \subseteq ClhNode \ {ClhDummy},
         env'.heap # env.heap => \A u \in Contender : pc[u] = "done",
         ClhJoined'
  PROVE  ClhInv'
<1>1. \A u \in Locker : Entries(u)' = Entries(u)
  BY DEF Entries
<1>2. ClhTypes'
  BY <1>1, LockWords DEF ClhInv, ClhTypes, ClhPC, MemOK, Weak, rigid
<1>3. ClhNodes'
  BY DEF ClhInv, ClhNodes, ClhHasNode
<1>4. ClhStores'
  <2> SUFFICES ASSUME NEW u \in Contender
               PROVE  /\ pc'[u] \in {"malloc", "store", "spin", "cs", "done"} => Entries(u)' = {}
                      /\ pc'[u] = "xchg" => \A e \in Entries(u)' : e.rel /\ e.val = 1
                      /\ \A e \in Entries(u)' : e.loc = locked(reg'[u].my)
    BY DEF ClhStores
  <2>1. pc'[u] = pc[u] /\ Entries(u)' = Entries(u) /\ reg'[u] = reg[u]
    BY <1>1, ClhFacts
  <2> QED BY <2>1, Zenon DEF ClhInv, ClhStores
<1>5. ClhLocked' /\ ClhBehind' /\ ClhTail'
  BY <1>1, ClhFacts DEF ClhInv, ClhLocked, ClhBehind, ClhTail, Behind
<1>6. LineOK({"spin"})'
  BY DEF ClhInv, LineOK, InLock, IsFirst
<1> QED BY <1>2, <1>3, <1>4, <1>5, <1>6 DEF ClhInv

(* pthread_join, and clh_lock_destroy.                                     *)
LEMMA ClhMainStep ==
  ASSUME ClhInv, UNCHANGED rigid, ClhMain
  PROVE  ClhInv' /\ env'.arrivals = env.arrivals /\ \A u \in Contender : pc'[u] = pc[u]
<1>1. CASE Await(Main, "join", Joinable(Contender), "destroy") /\ Keep
  <2>1. /\ \A u \in Contender : pc[u] = "done"
        /\ mem' = mem /\ buf' = buf /\ reg' = reg /\ env' = env
        /\ pc[Main] = "join" /\ pc' = [pc EXCEPT ![Main] = "destroy"]
    BY <1>1 DEF Await, Joinable, Keep, Go, Silent
  <2>2. /\ pc' \in [Locker -> ClhPC] /\ pc'[Main] = "destroy"
        /\ \A u \in Contender : pc'[u] = pc[u]
    BY <2>1, ClhFacts, LockWords DEF ClhPC
  <2>3. ClhJoined'
    BY <2>1, <2>2 DEF ClhJoined
  <2>4. /\ env' \in [arrivals : Seq(Contender), heap : SUBSET ClhNode,
                     freed : SUBSET ClhNode, spoilt : SUBSET ClhNode]
        /\ env'.arrivals = env.arrivals /\ env'.freed = env.freed /\ env'.heap = env.heap
        /\ env'.heap \subseteq ClhNode \ {ClhDummy}
    BY <2>1 DEF ClhInv, ClhTypes, ClhNodes
  <2> QED BY <2>1, <2>2, <2>3, <2>4, ClhQuiet
<1>2. CASE /\ Local(Main, "destroy", "exit")
           /\ env' = [env EXCEPT !.heap = @ \cup {Load(Main, tail)}]
           /\ UNCHANGED reg
  <2>1. /\ mem' = mem /\ buf' = buf /\ reg' = reg
        /\ pc[Main] = "destroy" /\ pc' = [pc EXCEPT ![Main] = "exit"]
        /\ env' = [env EXCEPT !.heap = @ \cup {Load(Main, tail)}]
    BY <1>2 DEF Local, Go, Silent
  <2>2. \A u \in Contender : pc[u] = "done"
    BY <2>1 DEF ClhInv, ClhJoined
  <2>3. /\ pc' \in [Locker -> ClhPC] /\ pc'[Main] = "exit"
        /\ \A u \in Contender : pc'[u] = pc[u]
    BY <2>1, ClhFacts, LockWords DEF ClhPC
  <2>4. ClhJoined'
    BY <2>2, <2>3 DEF ClhJoined
  <2>5. Load(Main, tail) = mem[tail] /\ mem[tail] \in ClhNode \ {ClhDummy}
    BY <2>2, ClhAllDone, ClhFacts, ClhNodeNumbers, LoadEntries, LockWords
    DEF ClhInv, ClhTypes
  <2>6. /\ env' \in [arrivals : Seq(Contender), heap : SUBSET ClhNode,
                     freed : SUBSET ClhNode, spoilt : SUBSET ClhNode]
        /\ env'.arrivals = env.arrivals /\ env'.freed = env.freed
        /\ env'.heap \subseteq ClhNode \ {ClhDummy}
    <3> DEFINE h == env.heap \cup {Load(Main, tail)}
    <3>1. env \in [arrivals : Seq(Contender), heap : SUBSET ClhNode,
                   freed : SUBSET ClhNode, spoilt : SUBSET ClhNode]
      BY DEF ClhInv, ClhTypes
    <3>2. h \in SUBSET ClhNode /\ h \subseteq ClhNode \ {ClhDummy}
      BY <2>5, <3>1 DEF ClhInv, ClhNodes
    <3>3. env' = [env EXCEPT !.heap = h]
      BY <2>1
    <3> HIDE DEF h
    <3> QED BY <3>1, <3>2, <3>3
  <2> QED BY <2>1, <2>2, <2>3, <2>4, <2>6, ClhQuiet
<1> QED BY <1>1, <1>2 DEF ClhMain

(* A store of a thread to its own node becomes visible.                    *)
LEMMA ClhFlushStep ==
  ASSUME ClhInv, UNCHANGED rigid, NEW t \in Locker, NEW x \in DOMAIN mem, Commit(t, x),
         UNCHANGED <<pc, reg, env>>
  PROVE  ClhInv'
<1>1. pc' = pc /\ reg' = reg /\ env' = env /\ x \in ClhLoc
  BY ClhFacts
<1>2. /\ MemOK(Locker, ClhLoc, ClhVal)'
      /\ \A u \in Locker : u # t => Entries(u)' = Entries(u)
      /\ Entries(t)' \subseteq Entries(t)
  BY <1>1, ClhFacts, CommitEntries
<1>3. PICK e \in Entries(t) : e.loc = x /\ mem' = [mem EXCEPT ![x] = e.val]
  BY <1>1, ClhFacts, CommitEntries
<1>4. t \in Contender /\ pc[t] \notin {"malloc", "store", "spin", "cs", "done"}
  <2>1. Entries(t) # {}
    OBVIOUS
  <2>2. t \in Contender
    BY <2>1 DEF ClhInv, ClhTypes, Locker
  <2> QED BY <2>1, <2>2 DEF ClhInv, ClhStores
<1>5. pc[t] \in {"xchg", "destructor", "ending"} /\ pc[t] \in ClhHasNode
  BY <1>4, ClhFacts DEF ClhPC, ClhHasNode, ClhInv, ClhTypes
<1>6. x = locked(reg[t].my)
  BY <1>3, <1>4 DEF ClhInv, ClhStores
<1>7. ClhOthers(t) /\ mem'[tail] = mem[tail] /\ Entries(Main)' = {}
  <2>1. \A y \in ClhLoc : y # x => mem'[y] = mem[y]
    BY <1>3, ClhFacts
  <2> QED BY <1>1, <1>2, <1>4, <1>5, <1>6, <2>1, ClhOwnStore
<1>8. /\ \A f \in Entries(t)' : f.loc = locked(reg[t].my)
      /\ pc[t] = "xchg" => \A f \in Entries(t)' : f.rel /\ f.val = 1
  BY <1>2, <1>4, Zenon DEF ClhInv, ClhStores
<1>9. pc[t] = "xchg" => mem'[locked(reg[t].my)] = 1
  <2>1. pc[t] = "xchg" => e.val = 1
    BY <1>3, <1>4, Zenon DEF ClhInv, ClhStores
  <2> QED BY <1>1, <1>3, <1>6, <2>1, ClhFacts
<1>10. ClhTypes'
  BY <1>1, <1>2, <1>7 DEF ClhInv, ClhTypes, Weak, rigid
<1>11. ClhNodes' /\ ClhJoined'
  BY <1>1 DEF ClhInv, ClhNodes, ClhJoined
<1>12. LineOK({"spin"})' /\ \A u, w \in Contender : Behind(u, w)' <=> Behind(u, w)
  BY <1>1 DEF ClhInv, LineOK, InLock, IsFirst, Behind
<1>13. ClhStores'
  <2> SUFFICES ASSUME NEW u \in Contender
               PROVE  /\ pc'[u] \in {"malloc", "store", "spin", "cs", "done"} => Entries(u)' = {}
                      /\ pc'[u] = "xchg" => \A f \in Entries(u)' : f.rel /\ f.val = 1
                      /\ \A f \in Entries(u)' : f.loc = locked(reg'[u].my)
    BY DEF ClhStores
  <2>1. CASE u = t
    <3>1. pc'[u] = pc[t] /\ reg'[u].my = reg[t].my
      BY <1>1, <2>1
    <3> QED BY <1>4, <1>8, <2>1, <3>1, Zenon
  <2>2. CASE u # t
    BY <1>4, <1>7, <2>2, ClhOthersStores, Zenon
  <2> QED BY <2>1, <2>2
<1>14. ClhLocked'
  BY <1>1, <1>4, <1>5, <1>7, <1>9, ClhOthersStores DEF ClhLocked
<1>15. ClhBehind' /\ ClhTail'
  BY <1>1, <1>7, <1>12 DEF ClhInv, ClhBehind, ClhTail
<1> QED BY <1>10, <1>11, <1>12, <1>13, <1>14, <1>15 DEF ClhInv

-----------------------------------------------------------------------------
(* Both queues implement FifoLock: a thread arrives with its exchange,     *)
(* enters when its spin ends or with the exchange, and leaves with the     *)
(* store or the compare-and-exchange of its unlock.                        *)

QueueRuns == program \in {"clh", "qspin"} /\ program' = program

Served == Queue!Next \/ UNCHANGED Queue!vars

(* An exchange is an arrival, and an entry too if the line was empty.      *)
LEMMA LineArrive ==
  ASSUME QueueRuns, NEW S, LineOK(S), NEW t \in Contender,
         ~ InLock(t), ~ InLine(env.arrivals, t),
         env'.arrivals = Append(env.arrivals, t),
         NEW to, to \in InQueueLock => env.arrivals = << >>,
         \A u \in Contender : pc'[u] = IF u = t THEN to ELSE pc[u]
  PROVE  Served
<1> DEFINE inside  == {u \in Contender : InLock(u)}
           inside1 == {u \in Contender : pc'[u] \in InQueueLock}
<1>1. ~ Queue!InQueue(t)
  BY DEF Queue!InQueue, InLine, QueueRuns
<1>2. CASE to \in InQueueLock
  <2>1. env.arrivals = << >> /\ \A u \in Contender : ~ InLock(u)
    BY <1>2, EmptyLine DEF LineOK, IsFirst
  <2>2. inside1 = {t}
    BY <1>2, <2>1 DEF InLock
  <2> QED BY <1>1, <2>1, <2>2 DEF Served, Queue!Next, Queue!Arrive, QueueRuns
<1>3. CASE to \notin InQueueLock
  <2>1. inside1 = inside
    BY <1>3 DEF InLock
  <2> QED BY <1>1, <2>1 DEF Served, Queue!Next, Queue!Arrive, QueueRuns, InLock
<1> QED BY <1>2, <1>3

(* The first of the line goes in: nobody is inside.                        *)
LEMMA LineEnter ==
  ASSUME QueueRuns, NEW S, LineOK(S), NEW t \in Contender, env.arrivals \in Seq(Contender),
         IsFirst(t), ~ InLock(t), env'.arrivals = env.arrivals,
         NEW to \in InQueueLock,
         \A u \in Contender : pc'[u] = IF u = t THEN to ELSE pc[u]
  PROVE  Served
<1>1. env.arrivals # << >> /\ t = Head(env.arrivals)
  BY DEF IsFirst, First
<1>2. \A u \in Contender : ~ InLock(u)
  <2> SUFFICES ASSUME NEW u \in Contender, InLock(u) PROVE FALSE
    OBVIOUS
  <2>1. IsFirst(u)
    BY DEF LineOK
  <2>2. u = t
    BY <2>1 DEF IsFirst, First
  <2> QED BY <2>2
<1>3. /\ {u \in Contender : pc[u] \in InQueueLock} = {}
      /\ {u \in Contender : pc'[u] \in InQueueLock} = {t}
  BY <1>2 DEF InLock
<1> QED BY <1>1, <1>3 DEF Served, Queue!Next, Queue!Enter, QueueRuns

(* Who is inside leaves the line: nobody else is inside.                   *)
LEMMA LineLeave ==
  ASSUME QueueRuns, NEW S, LineOK(S), NEW t \in Contender,
         InLock(t), env'.arrivals = Tail(env.arrivals),
         NEW to, to \notin InQueueLock,
         \A u \in Contender : pc'[u] = IF u = t THEN to ELSE pc[u]
  PROVE  Served
<1>1. \A u \in Contender : InLock(u) => u = t
  <2> SUFFICES ASSUME NEW u \in Contender, InLock(u) PROVE u = t
    OBVIOUS
  <2>1. IsFirst(u) /\ IsFirst(t)
    BY DEF LineOK
  <2> QED BY <2>1 DEF IsFirst, First
<1>2. /\ {u \in Contender : pc[u] \in InQueueLock} = {t}
      /\ {u \in Contender : pc'[u] \in InQueueLock} = {}
  BY <1>1 DEF InLock
<1> QED BY <1>2 DEF Served, Queue!Next, Queue!Leave, QueueRuns

(* Every other step is a stutter of the queue.                             *)
LEMMA LineStays ==
  ASSUME QueueRuns, env'.arrivals = env.arrivals,
         \A u \in Contender : InLock(u)' <=> InLock(u)
  PROVE  Served
<1>1. {u \in Contender : pc'[u] \in InQueueLock} = {u \in Contender : pc[u] \in InQueueLock}
  BY DEF InLock
<1> QED BY <1>1 DEF Served, Queue!vars, QueueRuns

(* Every step of Native, running the CLH lock, preserves its invariant and *)
(* is a step of the queue or a stutter.                                    *)
LEMMA ClhNext ==
  ASSUME ClhInv, program = "clh", [Next]_vars
  PROVE  ClhInv' /\ Served
<1>1. UNCHANGED rigid /\ QueueRuns
  BY DEF Next, Step, FlushStep, rigid, vars, QueueRuns
<1>2. DOMAIN pc = Locker
  BY DEF ClhInv, ClhTypes
<1>3. ASSUME NEW t \in Thread, Step(t) PROVE ClhInv' /\ Served
  <2>1. t \in Locker
    BY <1>2, <1>3 DEF Step
  <2>2. ClhStep(t)
    BY <1>3, Zenon DEF Step, QueueLockStep, SharedLockStep, PublicationStep,
       MpPrograms, SbPrograms, WakeUpStep
  <2>3. CASE t = Main
    <3>1. ClhMain
      BY <2>2, <2>3 DEF ClhStep
    <3>2. ClhInv' /\ env'.arrivals = env.arrivals /\ \A u \in Contender : pc'[u] = pc[u]
      BY <1>1, <3>1, ClhMainStep
    <3> QED BY <1>1, <3>2, LineStays DEF InLock
  <2>4. CASE t # Main
    <3> USE <2>1, <2>4 DEF Locker
    <3>1. \/ ClhMalloc(t) \/ ClhStore(t) \/ ClhExchange(t) \/ ClhSpin(t)
          \/ ClhUnlock(t) \/ ClhDestructor(t) \/ ClhEnd(t)
      BY <2>2, <2>4 DEF ClhStep
    <3>2. CASE ClhMalloc(t) \/ ClhStore(t)
      <4>1. ClhInv'
        BY <1>1, <3>2, ClhMallocStep, ClhStoreStep
      <4>2. PICK from \in {"malloc", "store"}, to \in {"store", "xchg"} : Go(t, from, to)
        BY <3>2 DEF ClhMalloc, ClhStore, WriteSC, Local
      <4>3. env'.arrivals = env.arrivals
        BY <3>2 DEF ClhMalloc, ClhStore, Keep, ClhInv, ClhTypes
      <4>4. \A u \in Contender : InLock(u)' <=> InLock(u)
        BY <4>2, ClhFacts DEF Go, InLock, InQueueLock
      <4> QED BY <1>1, <4>1, <4>3, <4>4, LineStays
    <3>3. CASE ClhExchange(t)
      BY <1>1, <3>3, ClhExchangeStep, ClhFacts, LineArrive
    <3>4. CASE ClhSpin(t)
      <4>1. ClhInv' /\ IsFirst(t) /\ env'.arrivals = env.arrivals
            /\ \A u \in Contender : pc'[u] = IF u = t THEN "cs" ELSE pc[u]
        BY <1>1, <3>4, ClhSpinStep
      <4>2. ~ InLock(t) /\ "cs" \in InQueueLock
        BY <3>4 DEF ClhSpin, Await, Go, InLock, InQueueLock
      <4> QED BY <1>1, <4>1, <4>2, ClhFacts, LineEnter
    <3>5. CASE ClhUnlock(t)
      <4>1. "destructor" \notin InQueueLock
        BY DEF InQueueLock
      <4> QED BY <1>1, <3>5, <4>1, ClhUnlockStep, ClhFacts, LineLeave
    <3>6. CASE ClhDestructor(t) \/ ClhEnd(t)
      BY <1>1, <3>6, ClhDestructorStep, ClhEndStep, LineStays
    <3> QED BY <3>1, <3>2, <3>3, <3>4, <3>5, <3>6
  <2> QED BY <2>3, <2>4
<1>4. ASSUME NEW t \in Thread, FlushStep(t) PROVE ClhInv' /\ Served
  <2>1. t \in Locker /\ (\E x \in DOMAIN mem : Commit(t, x)) /\ UNCHANGED <<pc, reg, env>>
    BY <1>2, <1>4 DEF FlushStep, Flush
  <2>2. ClhInv'
    BY <1>1, <2>1, ClhFlushStep
  <2> QED BY <1>1, <2>1, <2>2, LineStays DEF InLock
<1>5. CASE UNCHANGED vars
  <2>1. /\ mem' = mem /\ buf' = buf /\ reg' = reg /\ pc' = pc /\ env' = env
        /\ env \in [arrivals : Seq(Contender), heap : SUBSET ClhNode,
                    freed : SUBSET ClhNode, spoilt : SUBSET ClhNode]
        /\ env.heap \subseteq ClhNode \ {ClhDummy}
    BY <1>5 DEF vars, ClhInv, ClhTypes, ClhNodes
  <2>2. pc[Main] \in {"join", "destroy", "exit"} /\ ClhJoined'
    BY <2>1 DEF ClhInv, ClhTypes, ClhJoined
  <2>3. ClhInv'
    BY <1>1, <2>1, <2>2, ClhFacts, ClhQuiet
  <2> QED BY <1>1, <2>1, <2>3, LineStays DEF InLock
<1> QED BY <1>3, <1>4, <1>5 DEF Next

(* The same for the qspinlock.                                             *)
LEMMA QspinNextStep ==
  ASSUME QspinInv, program = "qspin", [Next]_vars
  PROVE  QspinInv' /\ Served
<1>1. UNCHANGED rigid /\ QueueRuns
  BY DEF Next, Step, FlushStep, rigid, vars, QueueRuns
<1>2. DOMAIN pc = Locker
  BY DEF QspinInv, QspinTypes
<1>3. ASSUME NEW t \in Thread, Step(t) PROVE QspinInv' /\ Served
  <2>1. t \in Locker
    BY <1>2, <1>3 DEF Step
  <2>2. QspinStep(t)
    BY <1>3, Zenon DEF Step, QueueLockStep, SharedLockStep, PublicationStep,
       MpPrograms, SbPrograms, WakeUpStep
  <2>3. CASE t = Main
    <3>1. QspinMain
      BY <2>2, <2>3 DEF QspinStep
    <3>2. QspinInv' /\ env' = env /\ \A u \in Contender : pc'[u] = pc[u]
      BY <1>1, <3>1, QspinRestStep
    <3> QED BY <1>1, <3>2, LineStays DEF InLock
  <2>4. CASE t # Main
    <3> USE <2>1, <2>4 DEF Locker
    <3>1. \/ QspinPrepareNext(t) \/ QspinPrepare(t) \/ QspinExchange(t) \/ QspinLink(t)
          \/ QspinSpin(t) \/ QspinTest(t) \/ QspinCas(t) \/ QspinWait(t)
          \/ QspinFence(t) \/ QspinPass(t)
      BY <2>2, <2>4 DEF QspinStep
    <3>2. CASE QspinPrepareNext(t) \/ QspinPrepare(t) \/ QspinLink(t)
      <4>1. QspinInv'
        BY <1>1, <3>2, QspinPrepareStep, QspinLinkStep
      <4>2. PICK from \in {"l_next", "l_locked", "l_link"}, to \in {"l_locked", "l_xchg", "l_spin"} :
              Go(t, from, to)
        BY <3>2 DEF QspinPrepareNext, QspinPrepare, QspinLink, WriteSC, Write
      <4>3. env' = env
        BY <3>2 DEF QspinPrepareNext, QspinPrepare, QspinLink, Keep
      <4>4. \A u \in Contender : InLock(u)' <=> InLock(u)
        BY <4>2, QspinGo DEF InLock, InQueueLock
      <4> QED BY <1>1, <4>1, <4>3, <4>4, LineStays
    <3>3. CASE QspinExchange(t)
      BY <1>1, <3>3, QspinExchangeStep, QspinFacts, LineArrive
    <3>4. CASE QspinSpin(t)
      <4>1. /\ Go(t, "l_spin", "cs") /\ env' = env
            /\ Load(t, locked(t)) = 0
        BY <3>4 DEF QspinSpin, Await, Keep
      <4>2. pc[t] = "l_spin" /\ \A u \in Contender : pc'[u] = IF u = t THEN "cs" ELSE pc[u]
        BY <4>1, QspinGo
      <4>3. IsFirst(t)
        BY <4>1, <4>2, QspinSees
      <4>4. ~ InLock(t) /\ "cs" \in InQueueLock
        BY <4>2 DEF InLock, InQueueLock
      <4>5. QspinInv'
        BY <1>1, <3>4, QspinLookStep
      <4> QED BY <1>1, <4>1, <4>2, <4>3, <4>4, <4>5, QspinFacts, LineEnter
    <3>5. CASE \/ QspinTest(t) \/ QspinWait(t) \/ QspinFence(t)
               \/ mem[tail] # t /\ FullFence(t, "u_cas", "u_wait") /\ Keep
      <4>1. QspinInv'
        BY <1>1, <3>5, QspinLookStep
      <4>2. PICK from \in InQueueLock, to \in {"u_cas", "u_fence", "u_wait", "u_pass"} :
              Go(t, from, to)
        BY <3>5 DEF QspinTest, QspinWait, QspinFence, FullFence, ReleaseFence, Await, Local,
                    InQueueLock
      <4>3. env' = env
        BY <3>5 DEF QspinTest, QspinWait, QspinFence, Keep
      <4>4. \A u \in Contender : InLock(u)' <=> InLock(u)
        BY <4>2, QspinGo DEF InLock, InQueueLock
      <4> QED BY <1>1, <4>1, <4>3, <4>4, LineStays
    <3>6. CASE /\ mem[tail] = t
               /\ AtomicFull(t, "u_cas", tail, NULL, "done")
               /\ env' = [env EXCEPT !.arrivals = Tail(@)]
               /\ UNCHANGED reg
      <4>1. QspinInv'
        BY <1>1, <3>6, QspinCasStep
      <4>2. /\ InLock(t) /\ env'.arrivals = Tail(env.arrivals)
            /\ \A u \in Contender : pc'[u] = IF u = t THEN "done" ELSE pc[u]
        BY <1>1, <3>6, QspinLeaves DEF AtomicFull
      <4>3. "done" \notin InQueueLock
        BY DEF InQueueLock
      <4> QED BY <1>1, <4>1, <4>2, <4>3, QspinFacts, LineLeave
    <3>7. CASE QspinPass(t)
      <4>1. QspinInv'
        BY <1>1, <3>7, QspinPassStep
      <4>2. /\ InLock(t) /\ env'.arrivals = Tail(env.arrivals)
            /\ \A u \in Contender : pc'[u] = IF u = t THEN "done" ELSE pc[u]
        BY <1>1, <3>7, QspinLeaves DEF QspinPass, WriteSC
      <4>3. "done" \notin InQueueLock
        BY DEF InQueueLock
      <4> QED BY <1>1, <4>1, <4>2, <4>3, QspinFacts, LineLeave
    <3> QED BY <3>1, <3>2, <3>3, <3>4, <3>5, <3>6, <3>7 DEF QspinCas
  <2> QED BY <2>3, <2>4
<1>4. ASSUME NEW t \in Thread, FlushStep(t) PROVE QspinInv' /\ Served
  <2>1. t \in Locker /\ (\E x \in DOMAIN mem : Commit(t, x)) /\ UNCHANGED <<pc, reg, env>>
    BY <1>2, <1>4 DEF FlushStep, Flush
  <2>2. QspinInv'
    BY <1>1, <2>1, QspinFlushStep
  <2> QED BY <1>1, <2>1, <2>2, LineStays DEF InLock
<1>5. CASE UNCHANGED vars
  <2>1. QspinInv' /\ env' = env /\ \A u \in Contender : pc'[u] = pc[u]
    BY <1>5, QspinRestStep
  <2> QED BY <1>1, <2>1, LineStays DEF InLock
<1> QED BY <1>3, <1>4, <1>5 DEF Next

QueuesOnly ==
  /\ program = "clh"   => ClhInv
  /\ program = "qspin" => QspinInv

(* Both locks start with an empty queue.                                   *)
LEMMA QueuesInit == Init => QueuesOnly /\ Queue!Init
<1> SUFFICES ASSUME Init PROVE QueuesOnly /\ Queue!Init
  OBVIOUS
<1>1. program = "clh" => ClhInit
  BY Zenon DEF Init, QueueLockInit, SharedLockInit, PublicationInit, WakeUpInit, ArenaInit,
     QspinInit, LinkInit, RwInit, EventInit, XenInit, BuffersInit,
     MpInit, SbInit, PackageInit, RingInit, SeqInit, ModeInit, PointsInit,
     MpPrograms, SbPrograms, OmpiInit, JdkInit, RelaxInit, LifoInit, Boot
<1>2. program = "qspin" => QspinInit
  BY Zenon DEF Init, QueueLockInit, SharedLockInit, PublicationInit, WakeUpInit, ArenaInit,
     ClhInit, LinkInit, RwInit, EventInit, XenInit, BuffersInit,
     MpInit, SbInit, PackageInit, RingInit, SeqInit, ModeInit, PointsInit,
     MpPrograms, SbPrograms, OmpiInit, JdkInit, RelaxInit, LifoInit, Boot
<1>3. QueuesOnly
  BY <1>1, <1>2, ClhInitInv, QspinInitInv DEF QueuesOnly
<1>4. program = "clh" => env.arrivals = << >> /\ \A t \in Contender : pc[t] \notin InQueueLock
  <2> SUFFICES ASSUME program = "clh"
               PROVE  env.arrivals = << >> /\ \A t \in Contender : pc[t] \notin InQueueLock
    OBVIOUS
  <2>1. /\ pc = [t \in Locker |-> IF t = Main THEN "join" ELSE "malloc"]
        /\ env.arrivals = << >>
    BY <1>1 DEF ClhInit, Boot, Locker
  <2> QED BY <2>1, LockWords DEF InQueueLock
<1>5. program = "qspin" => env.arrivals = << >> /\ \A t \in Contender : pc[t] \notin InQueueLock
  <2> SUFFICES ASSUME program = "qspin"
               PROVE  env.arrivals = << >> /\ \A t \in Contender : pc[t] \notin InQueueLock
    OBVIOUS
  <2>1. /\ pc = [t \in Locker |-> IF t = Main THEN "join" ELSE "l_next"]
        /\ env.arrivals = << >>
    BY <1>2 DEF QspinInit, Boot, Locker
  <2> QED BY <2>1, LockWords DEF InQueueLock
<1>6. Queue!Init
  BY <1>4, <1>5 DEF Queue!Init
<1> QED BY <1>3, <1>6

(* Whatever program runs, its steps are steps of the queue or stutters.    *)
LEMMA QueuesNext == QueuesOnly /\ [Next]_vars => QueuesOnly' /\ [Queue!Next]_(Queue!vars)
<1> SUFFICES ASSUME QueuesOnly, [Next]_vars
             PROVE  QueuesOnly' /\ [Queue!Next]_(Queue!vars)
  OBVIOUS
<1>1. program' = program
  BY DEF Next, Step, FlushStep, rigid, vars
<1>2. CASE program = "clh"
  BY <1>1, <1>2, ClhNext DEF QueuesOnly, Served
<1>3. CASE program = "qspin"
  BY <1>1, <1>3, QspinNextStep DEF QueuesOnly, Served
<1>4. CASE program \notin {"clh", "qspin"}
  BY <1>1, <1>4 DEF QueuesOnly, Queue!vars
<1> QED BY <1>2, <1>3, <1>4

(* 3-sel4-dynamic.c frees one node twice and another never: when main has  *)
(* joined its threads, the node that clh_lock_destroy is about to free has *)
(* been freed by the destructor of the key, and the dummy node that the    *)
(* lock was created with has not.                                          *)
THEOREM DestroyFreesTwice == Spec => []ClhDestroyFreesTwice
<1>1. QueuesOnly => ClhDestroyFreesTwice
  BY ClhAllDone DEF QueuesOnly, ClhDestroyFreesTwice, ClhInv, ClhJoined, ClhNodes
<1>2. Init => QueuesOnly
  BY QueuesInit
<1>3. QueuesOnly /\ [Next]_vars => QueuesOnly'
  BY QueuesNext
<1> QED BY <1>1, <1>2, <1>3, PTL DEF Spec

(* The CLH lock of 3-sel4-dynamic.c and the qspinlock of 1-Linuxeasy.c     *)
(* serve any number of threads one at a time and in the order of their     *)
(* exchanges on the tail pointer, on TSO and on ARM; the CLH lock although *)
(* its nodes are freed, and given out again, while they are waited on.     *)
THEOREM QueueLocksFifo == Spec => QueueLocksServeInOrder
<1>1. Init => QueuesOnly /\ Queue!Init
  BY QueuesInit
<1>2. QueuesOnly /\ [Next]_vars => QueuesOnly' /\ [Queue!Next]_(Queue!vars)
  BY QueuesNext
<1> QED BY <1>1, <1>2, PTL DEF Spec, QueueLocksServeInOrder, Queue!Spec
=============================================================================
