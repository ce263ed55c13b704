--------------------------- MODULE SpinLockProofs ---------------------------
(***************************************************************************)
(* For every set of writers and readers and under every memory model of    *)
(* StoreBuffers, the spinlock of Layer1/22-MariaDB.c excludes and its      *)
(* reader never sees flag ahead of data.                                   *)
(***************************************************************************)
EXTENDS SpinLock, StoreBuffersProofs

(* The inductive strengthening.  Its parts, in order: a release waits at    *)
(* the end of its buffer; an owner keeps the lock word at 1; data and flag  *)
(* are only ever buffered by a writer that owns the lock; flag never gets   *)
(* ahead of data in memory while nobody owns the lock; what a reader has    *)
(* loaded inside its critical section is what memory holds.                 *)
NothingBufferedUnderSC == Model = "SC" => \A t \in Thread : Drained(t)

ReleaseIsLast ==
  \A t \in Thread : \A i \in DOMAIN buf[t] :
    buf[t][i].loc = "lock" =>
      buf[t][i].rel /\ buf[t][i].val = 0 /\ i = Len(buf[t]) /\ ~ Inside(t)

OwnerKeepsLock ==
  /\ mem["lock"] \in {0, 1}
  /\ \A t \in Thread : Owns(t) => mem["lock"] = 1

OwnerBuffers ==
  \A t \in Thread : \A i \in DOMAIN buf[t] :
    /\ buf[t][i].loc = "data" => t \in Writer /\ buf[t][i].val = 42
                                 /\ (pc[t] \in {"w_flag", "w_unlock"} \/ Has(t, "lock"))
    /\ buf[t][i].loc = "flag" => t \in Writer /\ (pc[t] = "w_unlock" \/ Has(t, "lock"))
    /\ buf[t][i].loc = "lock" => t \in Worker
    /\ buf[t][i].loc = "stop" => t = Main

DataBeforeFlag ==
  /\ mem["flag"] = 1 =>
       mem["data"] = 42 \/ \E w \in Writer : Has(w, "data")
  /\ \A w \in Writer : Has(w, "flag") \/ pc[w] = "w_flag" =>
       mem["data"] = 42 \/ Has(w, "data")

ReaderSnapshot ==
  \A r \in Reader :
    /\ pc[r] \in {"r_test", "r_lock"} => f[r] = Unread /\ d[r] = Unread
    /\ Inside(r) => /\ f[r] # Unread => f[r] = mem["flag"]
                    /\ d[r] # Unread => d[r] = mem["data"]
    /\ pc[r] = "r_unlock" => f[r] # Unread /\ d[r] # Unread

NoAbort == \A r \in Reader : pc[r] # "abort"

IInv ==
  /\ TypeOK
  /\ NothingBufferedUnderSC
  /\ ReleaseIsLast
  /\ OwnerKeepsLock
  /\ MutualExclusion
  /\ OwnerBuffers
  /\ DataBeforeFlag
  /\ ReaderSnapshot
  /\ ReaderConsistent
  /\ NoAbort

-----------------------------------------------------------------------------
(* The invariant holds at first.                                           *)
LEMMA InitIInv == Init => IInv
<1> SUFFICES ASSUME Init PROVE IInv
  OBVIOUS
<1> USE ThreadAssumption DEF Thread, Worker, Loc
<1>1. /\ \A t \in Thread : buf[t] = << >> /\ Drained(t)
      /\ \A t \in Thread, x \in Loc : Pending(t, x) = {} /\ ~ Has(t, x)
  BY DEF Init, Drained, Pending, Has
<1>2. TypeOK
  BY DEF Init, TypeOK, MemTypeOK, Entries, Val, WriterPC, ReaderPC, MainPC
<1>3. \A t \in Thread : ~ Inside(t) /\ ~ Owns(t)
  BY <1>1 DEF Init, Inside, Owns
<1>4. NothingBufferedUnderSC /\ ReleaseIsLast /\ OwnerBuffers
  BY <1>1 DEF NothingBufferedUnderSC, ReleaseIsLast, OwnerBuffers
<1>5. OwnerKeepsLock /\ MutualExclusion
  BY <1>3 DEF OwnerKeepsLock, MutualExclusion, Init
<1>6. DataBeforeFlag
  BY <1>1 DEF DataBeforeFlag, Init
<1>7. ReaderSnapshot /\ ReaderConsistent /\ NoAbort
  BY DEF ReaderSnapshot, ReaderConsistent, NoAbort, Inside, Init
<1> QED BY <1>2, <1>4, <1>5, <1>6, <1>7 DEF IInv

(* While a thread is inside, nobody has a store to the shared data in      *)
(* flight except itself, and a reader has none at all.                     *)
LEMMA InsideIsAlone ==
  ASSUME IInv, NEW r \in Reader, Inside(r)
  PROVE  /\ \A t \in Thread : ~ Has(t, "data") /\ ~ Has(t, "flag") /\ ~ Has(t, "lock")
         /\ Load(r, "data") = mem["data"]
         /\ Load(r, "flag") = mem["flag"]
         /\ mem["flag"] = 1 => mem["data"] = 42
<1> USE ThreadAssumption DEF Thread, Worker
<1>1. ASSUME NEW t \in Thread, Has(t, "data") \/ Has(t, "flag") \/ Has(t, "lock")
      PROVE  FALSE
  <2>1. Owns(t)
    BY <1>1 DEF IInv, OwnerBuffers, Has, Pending, Owns, Inside
  <2>2. t = r
    BY <2>1 DEF IInv, MutualExclusion, Owns
  <2>3. ~ Has(r, "lock")
    BY DEF IInv, ReleaseIsLast, Has, Pending
  <2>4. ~ Has(r, "data") /\ ~ Has(r, "flag")
    BY DEF IInv, OwnerBuffers, Has, Pending
  <2> QED BY <1>1, <2>2, <2>3, <2>4
<1> QED BY <1>1 DEF Load, Has, IInv, DataBeforeFlag

(* A step that leaves the buffers alone keeps what is in them.             *)
LEMMA SameBuffers ==
  ASSUME UNCHANGED buf
  PROVE  \A t, x : /\ Pending(t, x)' = Pending(t, x)
                   /\ Has(t, x)' <=> Has(t, x)
                   /\ Drained(t)' <=> Drained(t)
  BY DEF Pending, Has, Drained

(* A step of thread t that touches neither memory nor the buffers and does *)
(* not enter or leave a critical section.                                  *)
LEMMA LocalStep ==
  ASSUME IInv, TypeOK', UNCHANGED <<mem, buf>>, NEW t \in Thread,
         \A u \in Thread : u # t => pc'[u] = pc[u],
         Inside(t)' <=> Inside(t),
         t \in Writer => pc[t] # "w_flag" /\ pc[t] # "w_unlock" /\ pc'[t] # "w_flag",
         ReaderSnapshot', ReaderConsistent', NoAbort'
  PROVE  IInv'
<1> USE ThreadAssumption, SameBuffers DEF Thread, Worker
<1>1. \A u \in Thread : (Inside(u)' <=> Inside(u)) /\ (Owns(u)' <=> Owns(u))
  BY DEF Inside, Owns
<1>2. NothingBufferedUnderSC'
  BY DEF IInv, NothingBufferedUnderSC
<1>3. ReleaseIsLast'
  BY <1>1 DEF IInv, ReleaseIsLast
<1>4. OwnerKeepsLock' /\ MutualExclusion'
  BY <1>1 DEF IInv, OwnerKeepsLock, MutualExclusion
<1>5. OwnerBuffers'
  BY DEF IInv, OwnerBuffers
<1>6. DataBeforeFlag'
  BY DEF IInv, DataBeforeFlag
<1> QED BY <1>2, <1>3, <1>4, <1>5, <1>6 DEF IInv

(* A load of the spin.                                                     *)
LEMMA TestStep ==
  ASSUME IInv,
         \/ \E w \in Writer : WTest(w)
         \/ \E r \in Reader : RTest(r)
  PROVE  IInv'
<1> USE ThreadAssumption DEF Thread, Worker
<1>1. PICK t \in Worker : /\ pc[t] \in {"w_test", "r_test"}
                          /\ t \in Writer => pc[t] = "w_test" /\ Test(t, "w_lock")
                          /\ t \in Reader => pc[t] = "r_test" /\ Test(t, "r_lock")
  BY DEF WTest, RTest
<1>2. /\ UNCHANGED <<mem, buf, f, d>>
      /\ \A u \in Thread : u # t => pc'[u] = pc[u]
      /\ pc'[t] \in {"done", "w_lock", "r_lock"}
      /\ t \in Writer => pc'[t] \in {"w_lock", "done"}
      /\ t \in Reader => pc'[t] \in {"r_lock", "done"}
      /\ pc' \in [Thread -> WriterPC \cup ReaderPC \cup MainPC]
  BY <1>1 DEF Test, Goto, IInv, TypeOK, WriterPC, ReaderPC
<1>3. TypeOK'
  BY <1>1, <1>2 DEF IInv, TypeOK, MemTypeOK, WriterPC, ReaderPC
<1>4. Inside(t)' <=> Inside(t)
  BY <1>1, <1>2 DEF Inside
<1>5. ReaderSnapshot' /\ ReaderConsistent' /\ NoAbort'
  BY <1>1, <1>2 DEF IInv, ReaderSnapshot, ReaderConsistent, NoAbort, Inside, Inconsistent
<1> QED BY <1>1, <1>2, <1>3, <1>4, <1>5, LocalStep

(* A load of the reader.                                                   *)
LEMMA ReaderLoadStep ==
  ASSUME IInv, NEW r \in Reader, RFlag(r) \/ RData(r)
  PROVE  IInv'
<1> USE ThreadAssumption DEF Thread, Worker
<1>1. Inside(r) /\ pc[r] = "r_cs"
  BY DEF RFlag, RData, Inside
<1>2. /\ Load(r, "data") = mem["data"]
      /\ Load(r, "flag") = mem["flag"]
      /\ mem["flag"] = 1 => mem["data"] = 42
  BY <1>1, InsideIsAlone
<1>3. mem["data"] \in Val /\ mem["flag"] \in Val /\ Unread \notin Val
  BY DEF IInv, TypeOK, MemTypeOK, Loc, Val, Unread
<1>4. /\ UNCHANGED <<mem, buf>>
      /\ \A u \in Thread : u # r => pc'[u] = pc[u]
      /\ \A u \in Reader : u # r => f'[u] = f[u] /\ d'[u] = d[u]
      /\ pc'[r] \in {"r_cs", "r_unlock"}
      /\ pc' \in [Thread -> WriterPC \cup ReaderPC \cup MainPC]
      /\ f' \in [Reader -> Val \cup {Unread}]
      /\ d' \in [Reader -> Val \cup {Unread}]
  BY <1>2, <1>3 DEF RFlag, RData, Goto, IInv, TypeOK, ReaderPC
<1>5. /\ f'[r] # Unread => f'[r] = mem["flag"]
      /\ d'[r] # Unread => d'[r] = mem["data"]
      /\ pc'[r] = "r_unlock" => f'[r] # Unread /\ d'[r] # Unread
  BY <1>1, <1>2, <1>3 DEF RFlag, RData, Goto, IInv, TypeOK, ReaderSnapshot
<1>6. TypeOK'
  BY <1>1, <1>4 DEF IInv, TypeOK, MemTypeOK, WriterPC, ReaderPC
<1>7. Inside(r)' <=> Inside(r)
  BY <1>1, <1>4 DEF Inside
<1>8. ReaderSnapshot'
  BY <1>4, <1>5 DEF IInv, ReaderSnapshot, Inside
<1>9. ReaderConsistent' /\ NoAbort'
  BY <1>4 DEF IInv, ReaderConsistent, NoAbort, Inconsistent
<1> QED BY <1>1, <1>4, <1>6, <1>7, <1>8, <1>9, LocalStep

(* The check of what was loaded.                                           *)
LEMMA CheckStep ==
  ASSUME IInv, NEW r \in Reader, RCheck(r)
  PROVE  IInv'
<1> USE ThreadAssumption DEF Thread, Worker
<1>1. /\ pc[r] = "r_check"
      /\ UNCHANGED <<mem, buf>>
      /\ pc' = [pc EXCEPT ![r] = "r_test"]
      /\ f' = [f EXCEPT ![r] = Unread]
      /\ d' = [d EXCEPT ![r] = Unread]
  BY DEF RCheck, Goto, IInv, ReaderConsistent
<1>2. TypeOK'
  BY <1>1 DEF IInv, TypeOK, MemTypeOK, WriterPC, ReaderPC
<1>3. Inside(r)' <=> Inside(r)
  BY <1>1 DEF Inside, IInv, TypeOK
<1>4. ReaderSnapshot' /\ ReaderConsistent' /\ NoAbort'
  BY <1>1 DEF IInv, TypeOK, ReaderSnapshot, ReaderConsistent, NoAbort, Inside, Inconsistent
<1> QED BY <1>1, <1>2, <1>3, <1>4, LocalStep DEF IInv, TypeOK

(* main's join preserves the invariant.                                    *)
LEMMA JoinStep == IInv /\ MJoin => IInv'
<1> SUFFICES ASSUME IInv, MJoin PROVE IInv'
  OBVIOUS
<1> USE ThreadAssumption DEF Thread, Worker
<1>1. /\ pc[Main] = "join"
      /\ UNCHANGED <<mem, buf, f, d>>
      /\ pc' = [pc EXCEPT ![Main] = "done"]
  BY DEF MJoin, Goto
<1>2. TypeOK'
  BY <1>1 DEF IInv, TypeOK, MemTypeOK, WriterPC, ReaderPC, MainPC
<1>3. Inside(Main)' <=> Inside(Main)
  BY <1>1 DEF Inside, IInv, TypeOK
<1>4. ReaderSnapshot' /\ ReaderConsistent' /\ NoAbort'
  BY <1>1 DEF IInv, TypeOK, ReaderSnapshot, ReaderConsistent, NoAbort, Inside, Inconsistent
<1> QED BY <1>1, <1>2, <1>3, <1>4, LocalStep DEF IInv, TypeOK

(* A stuttering step preserves the invariant.                              *)
LEMMA StutterStep == IInv /\ UNCHANGED vars => IInv'
<1> SUFFICES ASSUME IInv, UNCHANGED vars PROVE IInv'
  OBVIOUS
<1> USE SameBuffers DEF vars
<1>1. TypeOK' /\ NothingBufferedUnderSC'
  BY DEF IInv, TypeOK, MemTypeOK, NothingBufferedUnderSC
<1>2. \A u : (Inside(u)' <=> Inside(u)) /\ (Owns(u)' <=> Owns(u))
  BY DEF Inside, Owns
<1>3. ReleaseIsLast' /\ OwnerBuffers' /\ DataBeforeFlag'
  BY <1>2 DEF IInv, ReleaseIsLast, OwnerBuffers, DataBeforeFlag
<1>4. OwnerKeepsLock' /\ MutualExclusion'
  BY <1>2 DEF IInv, OwnerKeepsLock, MutualExclusion
<1>5. ReaderSnapshot' /\ ReaderConsistent' /\ NoAbort'
  BY DEF IInv, ReaderSnapshot, ReaderConsistent, NoAbort, Inside, Inconsistent
<1> QED BY <1>1, <1>3, <1>4, <1>5 DEF IInv

(* A successful exchange: the lock word was 0, so nobody owned the lock.   *)
LEMMA LockStep ==
  ASSUME IInv,
         \/ \E w \in Writer : WLock(w)
         \/ \E r \in Reader : RLock(r)
  PROVE  IInv'
<1> USE ThreadAssumption DEF Thread, Worker
<1>1. PICK t \in Worker :
        /\ Pending(t, "lock") = {}
        /\ t \in Writer => pc[t] = "w_lock" /\ pc' = [pc EXCEPT ![t] = "w_data"]
        /\ t \in Reader => pc[t] = "r_lock" /\ pc' = [pc EXCEPT ![t] = "r_cs"]
        /\ mem["lock"] = 0
        /\ mem' = [mem EXCEPT !["lock"] = 1]
        /\ UNCHANGED <<buf, f, d>>
  BY DEF WLock, RLock, SpinLock, CanRMW, SetMem, Goto
<1>2. /\ \A u \in Thread : u # t => pc'[u] = pc[u]
      /\ t \in Writer => pc'[t] = "w_data"
      /\ t \in Reader => pc'[t] = "r_cs"
      /\ pc' \in [Thread -> WriterPC \cup ReaderPC \cup MainPC]
      /\ mem'["lock"] = 1 /\ mem'["data"] = mem["data"] /\ mem'["flag"] = mem["flag"]
      /\ mem' \in [Loc -> Val]
  BY <1>1 DEF IInv, TypeOK, MemTypeOK, Loc, Val, WriterPC, ReaderPC
<1>3. TypeOK'
  BY <1>1, <1>2 DEF IInv, TypeOK, MemTypeOK, WriterPC, ReaderPC
<1>4. \A u \in Thread : ~ Owns(u) /\ (u # t => ~ Owns(u)')
  BY <1>1, <1>2, SameBuffers DEF IInv, OwnerKeepsLock, Owns, Inside
<1>5. NothingBufferedUnderSC'
  BY <1>1, SameBuffers DEF IInv, NothingBufferedUnderSC
<1>6. ReleaseIsLast'
  <2>1. \A u \in Thread : \A i \in DOMAIN buf[u] : buf[u][i].loc # "lock"
    BY <1>4 DEF Owns, Pending
  <2> QED BY <1>1, <2>1 DEF ReleaseIsLast
<1>7. OwnerKeepsLock' /\ MutualExclusion'
  BY <1>2, <1>4 DEF OwnerKeepsLock, MutualExclusion
<1>8. OwnerBuffers'
  <2>1. \A u \in Thread : \A i \in DOMAIN buf[u] :
          buf[u][i].loc # "data" /\ buf[u][i].loc # "flag"
    BY <1>4 DEF IInv, OwnerBuffers, Owns, Inside, Has
  <2> QED BY <1>1, <2>1 DEF IInv, OwnerBuffers
<1>9. DataBeforeFlag'
  BY <1>1, <1>2, SameBuffers DEF IInv, DataBeforeFlag
<1>10. ReaderSnapshot' /\ ReaderConsistent' /\ NoAbort'
  BY <1>1, <1>2 DEF IInv, TypeOK, ReaderSnapshot, ReaderConsistent, NoAbort, Inside, Inconsistent
<1> QED BY <1>3, <1>5, <1>6, <1>7, <1>8, <1>9, <1>10 DEF IInv

(* The four stores: data, flag and the release of the lock, and main's     *)
(* stop.  l is where the thread goes.  Under SC the store is in memory at  *)
(* once, and otherwise it is one more entry at the end of t's buffer.      *)
StoreTo(t, x, v, rel, l) ==
  \/ x = "data" /\ v = 42 /\ t \in Writer /\ pc[t] = "w_data"   /\ rel = FALSE /\ l = "w_flag"
  \/ x = "flag" /\ v = 1  /\ t \in Writer /\ pc[t] = "w_flag"   /\ rel = FALSE /\ l = "w_unlock"
  \/ x = "lock" /\ v = 0  /\ t \in Writer /\ pc[t] = "w_unlock" /\ rel = TRUE  /\ l = "w_test"
  \/ x = "lock" /\ v = 0  /\ t \in Reader /\ pc[t] = "r_unlock" /\ rel = TRUE  /\ l = "r_check"
  \/ x = "stop" /\ v = 1  /\ t = Main      /\ pc[t] = "sleep"    /\ rel = FALSE /\ l = "join"

(* A store keeps the types.                                                *)
LEMMA StoreType ==
  ASSUME IInv, NEW t \in Thread, NEW x \in Loc, NEW v \in Val,
         NEW rel \in BOOLEAN, NEW l,
         StoreTo(t, x, v, rel, l), Put(t, x, v, rel), Goto(t, l),
         UNCHANGED <<f, d>>
  PROVE  /\ TypeOK'
         /\ NothingBufferedUnderSC'
         /\ \A u \in Thread : u # t => pc'[u] = pc[u] /\ buf'[u] = buf[u]
         /\ pc'[t] = l
<1> USE ThreadAssumption DEF Thread, Worker
<1>1. MemTypeOK(Thread, Loc, Val)'
  BY PutType DEF IInv, TypeOK
<1>2. /\ pc' \in [Thread -> WriterPC \cup ReaderPC \cup MainPC]
      /\ \A u \in Thread : u # t => pc'[u] = pc[u]
      /\ pc'[t] = l
      /\ t \in Writer => l \in WriterPC
      /\ t \in Reader => l \in ReaderPC
      /\ t = Main => l \in MainPC
  BY DEF StoreTo, Goto, IInv, TypeOK, WriterPC, ReaderPC, MainPC
<1>3. TypeOK'
  BY <1>1, <1>2 DEF IInv, TypeOK
<1>4. \A u \in Thread : u # t => buf'[u] = buf[u]
  BY DEF Put, IInv, TypeOK, MemTypeOK
<1>5. NothingBufferedUnderSC'
  BY DEF Put, IInv, NothingBufferedUnderSC, Drained
<1> QED BY <1>2, <1>3, <1>4, <1>5

(* A store of the writer changes nothing the reader holds.                 *)
LEMMA StoreReader ==
  ASSUME IInv, TypeOK', NEW t \in Thread, NEW x \in Loc, NEW v \in Val,
         NEW rel \in BOOLEAN, NEW l,
         StoreTo(t, x, v, rel, l), Put(t, x, v, rel),
         \A u \in Thread : u # t => pc'[u] = pc[u],
         pc'[t] = l, UNCHANGED <<f, d>>
  PROVE  ReaderSnapshot' /\ ReaderConsistent' /\ NoAbort'
<1> USE ThreadAssumption DEF Thread, Worker
<1>1. NoAbort'
  BY DEF StoreTo, IInv, NoAbort
<1>2. ASSUME NEW r \in Reader, pc'[r] = "r_check"
      PROVE  ~ Inconsistent(r)'
  <2>1. CASE r # t
    BY <1>2, <2>1 DEF IInv, ReaderConsistent, Inconsistent
  <2>2. CASE r = t
    <3>1. pc[r] = "r_unlock"
      BY <1>2, <2>2 DEF StoreTo
    <3>2. Inside(r) /\ (mem["flag"] = 1 => mem["data"] = 42)
      BY <3>1, InsideIsAlone DEF Inside
    <3> QED BY <3>1, <3>2 DEF IInv, ReaderSnapshot, Inconsistent
  <2> QED BY <2>1, <2>2
<1>3. ASSUME NEW r \in Reader
      PROVE  /\ pc'[r] \in {"r_test", "r_lock"} => f'[r] = Unread /\ d'[r] = Unread
             /\ Inside(r)' => /\ f'[r] # Unread => f'[r] = mem'["flag"]
                              /\ d'[r] # Unread => d'[r] = mem'["data"]
             /\ pc'[r] = "r_unlock" => f'[r] # Unread /\ d'[r] # Unread
  <2>1. CASE r = t
    BY <2>1 DEF StoreTo, Inside
  <2>2. CASE r # t
    <3>1. ASSUME Inside(r)
          PROVE  mem'["flag"] = mem["flag"] /\ mem'["data"] = mem["data"]
      <4>1. ~ Inside(t)
        BY <2>2, <3>1 DEF IInv, MutualExclusion, Owns
      <4>2. x = "stop"
        BY <4>1 DEF StoreTo, Inside
      <4> QED BY <4>2 DEF Put, IInv, TypeOK, MemTypeOK, Loc
    <3>2. Inside(r)' <=> Inside(r)
      BY <2>2 DEF Inside
    <3> QED BY <2>2, <3>1, <3>2 DEF IInv, ReaderSnapshot
  <2> QED BY <2>1, <2>2
<1> QED BY <1>1, <1>2, <1>3 DEF ReaderSnapshot, ReaderConsistent

(* On SC a store is in memory at once.                                     *)
LEMMA StoreUnderSC ==
  ASSUME IInv, TypeOK', NEW t \in Thread, NEW x \in Loc, NEW v \in Val,
         NEW rel \in BOOLEAN, NEW l,
         StoreTo(t, x, v, rel, l), Put(t, x, v, rel), Model = "SC",
         \A u \in Thread : u # t => pc'[u] = pc[u], pc'[t] = l
  PROVE  /\ ReleaseIsLast' /\ OwnerKeepsLock' /\ MutualExclusion'
         /\ OwnerBuffers' /\ DataBeforeFlag'
<1> USE ThreadAssumption DEF Thread, Worker
<1>1. /\ mem' = [mem EXCEPT ![x] = v] /\ UNCHANGED buf
      /\ mem \in [Loc -> Val]
  BY DEF Put, IInv, TypeOK, MemTypeOK
<1>2. \A u \in Thread : buf[u] = << >> /\ buf'[u] = << >>
  BY <1>1 DEF IInv, NothingBufferedUnderSC, Drained
<1>3. \A u \in Thread : \A y : ~ Has(u, y) /\ ~ Has(u, y)'
  BY <1>2 DEF Has, Pending
<1>4. \A u \in Thread : (Owns(u) <=> Inside(u)) /\ (Owns(u)' <=> Inside(u)')
  BY <1>2 DEF Owns, Pending
<1>5. ReleaseIsLast' /\ OwnerBuffers'
  BY <1>2 DEF ReleaseIsLast, OwnerBuffers
<1>6. \A u \in Thread : Inside(u)' => Inside(u) /\ (u = t => x # "lock")
  BY DEF StoreTo, Inside
<1>7. OwnerKeepsLock' /\ MutualExclusion'
  <2>1. MutualExclusion'
    BY <1>4, <1>6 DEF IInv, MutualExclusion
  <2>2. CASE x = "lock"
    <3>1. \A u \in Thread : ~ Owns(u)'
      BY <1>4, <1>6, <2>2 DEF StoreTo, Inside, IInv, MutualExclusion
    <3> QED BY <1>1, <2>1, <2>2, <3>1 DEF OwnerKeepsLock, Loc, StoreTo
  <2>3. CASE x # "lock"
    BY <1>1, <1>4, <1>6, <2>1, <2>3 DEF IInv, OwnerKeepsLock, Loc
  <2> QED BY <2>2, <2>3
<1>8. DataBeforeFlag'
  <2>1. \A w \in Writer : pc[w] = "w_flag" => mem["data"] = 42
    BY <1>3 DEF IInv, DataBeforeFlag
  <2>2. mem["flag"] = 1 => mem["data"] = 42
    BY <1>3 DEF IInv, DataBeforeFlag
  <2>3. mem["data"] = 42 => mem'["data"] = 42
    BY <1>1 DEF StoreTo, Loc
  <2>4. x # "flag" => mem'["flag"] = mem["flag"]
    BY <1>1 DEF Loc
  <2>5. x = "data" => mem'["data"] = 42
    BY <1>1 DEF StoreTo, Loc
  <2>6. x = "flag" => mem["data"] = 42
    BY <2>1 DEF StoreTo
  <2>7. mem'["flag"] = 1 => mem'["data"] = 42
    BY <2>2, <2>3, <2>4, <2>6
  <2>8. ASSUME NEW w \in Writer, pc'[w] = "w_flag" PROVE mem'["data"] = 42
    BY <2>1, <2>3, <2>5, <2>8 DEF StoreTo
  <2> QED BY <1>3, <2>7, <2>8 DEF DataBeforeFlag
<1> QED BY <1>5, <1>7, <1>8

(* On the other memories it enters the buffer.                             *)
LEMMA StoreBuffered ==
  ASSUME IInv, TypeOK', NEW t \in Thread, NEW x \in Loc, NEW v \in Val,
         NEW rel \in BOOLEAN, NEW l,
         StoreTo(t, x, v, rel, l), Put(t, x, v, rel), Model # "SC",
         \A u \in Thread : u # t => pc'[u] = pc[u], pc'[t] = l
  PROVE  /\ ReleaseIsLast' /\ OwnerKeepsLock' /\ MutualExclusion'
         /\ OwnerBuffers' /\ DataBeforeFlag'
<1> USE ThreadAssumption DEF Thread, Worker
<1> DEFINE n == Len(buf[t])
<1>1. /\ mem' = mem
      /\ \A u \in Thread : u # t => buf'[u] = buf[u]
      /\ DOMAIN buf[t] = 1..n
      /\ n \in Nat
      /\ Len(buf'[t]) = n + 1
      /\ DOMAIN buf'[t] = 1..(n + 1)
      /\ buf'[t][n + 1] = [loc |-> x, val |-> v, rel |-> rel]
      /\ \A i \in DOMAIN buf[t] : buf'[t][i] = buf[t][i]
      /\ \A u \in Thread, y \in Loc : Has(u, y)' <=> Has(u, y) \/ (u = t /\ y = x)
  <2>1. MemTypeOK(Thread, Loc, Val)
    BY DEF IInv, TypeOK
  <2> HIDE DEF Thread
  <2> QED BY <2>1, PutShape
<1>2. \A u \in Thread : Owns(u)' => Owns(u)
  <2>1. \A u \in Thread : Owns(u) <=> Inside(u) \/ Has(u, "lock")
    BY DEF Owns, Has
  <2>2. \A u \in Thread : Owns(u)' <=> Inside(u)' \/ Has(u, "lock")'
    BY DEF Owns, Has
  <2>3. \A u \in Thread : Inside(u)' => Inside(u)
    BY DEF StoreTo, Inside
  <2>4. x = "lock" => Inside(t)
    BY DEF StoreTo, Inside
  <2> QED BY <1>1, <2>1, <2>2, <2>3, <2>4 DEF Loc
<1>3. OwnerKeepsLock' /\ MutualExclusion'
  BY <1>1, <1>2 DEF IInv, OwnerKeepsLock, MutualExclusion
<1>4. x # "stop" => ~ Has(t, "lock") /\ Inside(t)
  <2>1. x # "stop" => Inside(t)
    BY DEF StoreTo, Inside
  <2> QED BY <2>1 DEF IInv, ReleaseIsLast, Has, Pending
<1>5. ReleaseIsLast'
  <2> SUFFICES ASSUME NEW u \in Thread, NEW i \in DOMAIN buf'[u], buf'[u][i].loc = "lock"
               PROVE  buf'[u][i].rel /\ buf'[u][i].val = 0 /\ i = Len(buf'[u]) /\ ~ Inside(u)'
    BY DEF ReleaseIsLast
  <2>1. CASE u # t
    BY <1>1, <2>1 DEF IInv, ReleaseIsLast, Inside
  <2>2. CASE u = t /\ i = n + 1
    <3>1. x = "lock" /\ v = 0 /\ rel = TRUE
      BY <1>1, <2>2 DEF StoreTo
    <3>2. ~ Inside(t)'
      BY <3>1 DEF StoreTo, Inside
    <3>3. buf'[t][n + 1].rel /\ buf'[t][n + 1].val = 0
      BY <1>1, <3>1
    <3> QED BY <1>1, <2>2, <3>2, <3>3
  <2>3. CASE u = t /\ i # n + 1
    <3>1. i \in DOMAIN buf[t] /\ buf[t][i].loc = "lock"
      BY <1>1, <2>3
    <3>2. Has(t, "lock") /\ t # Main
      BY <3>1 DEF Has, Pending, IInv, OwnerBuffers
    <3> QED BY <1>4, <3>2 DEF StoreTo
  <2> QED BY <2>1, <2>2, <2>3
<1>6. OwnerBuffers'
  <2> SUFFICES ASSUME NEW u \in Thread, NEW i \in DOMAIN buf'[u]
               PROVE  /\ buf'[u][i].loc = "data" => u \in Writer /\ buf'[u][i].val = 42
                            /\ (pc'[u] \in {"w_flag", "w_unlock"} \/ Has(u, "lock")')
                      /\ buf'[u][i].loc = "flag" => u \in Writer
                            /\ (pc'[u] = "w_unlock" \/ Has(u, "lock")')
                      /\ buf'[u][i].loc = "lock" => u \in Worker
                      /\ buf'[u][i].loc = "stop" => u = Main
    BY DEF OwnerBuffers
  <2>1. CASE u # t
    BY <1>1, <2>1 DEF IInv, OwnerBuffers, Loc
  <2>2. CASE u = t /\ i = n + 1
    BY <1>1, <2>2 DEF StoreTo
  <2>3. CASE u = t /\ i # n + 1
    <3>1. i \in DOMAIN buf[t] /\ buf'[t][i] = buf[t][i]
      BY <1>1, <2>3
    <3>2. Has(t, "lock") => Has(t, "lock")'
      BY <1>1 DEF Loc
    <3>3. x = "lock" => Has(t, "lock")'
      BY <1>1 DEF Loc
    <3> QED BY <2>3, <3>1, <3>2, <3>3 DEF IInv, OwnerBuffers, StoreTo
  <2> QED BY <2>1, <2>2, <2>3
<1>7. DataBeforeFlag'
  <2>1. \A w \in Writer : Has(w, "data") => Has(w, "data")'
    BY <1>1 DEF Loc
  <2>2. mem'["flag"] = 1 => mem'["data"] = 42 \/ \E w \in Writer : Has(w, "data")'
    BY <1>1, <2>1 DEF IInv, DataBeforeFlag
  <2>3. ASSUME NEW w \in Writer, Has(w, "flag")' \/ pc'[w] = "w_flag"
        PROVE  mem'["data"] = 42 \/ Has(w, "data")'
    <3>1. CASE Has(w, "flag") \/ pc[w] = "w_flag"
      BY <1>1, <2>1, <3>1 DEF IInv, DataBeforeFlag
    <3>2. CASE ~ (Has(w, "flag") \/ pc[w] = "w_flag")
      <4>1. w = t /\ (x = "flag" \/ l = "w_flag")
        BY <1>1, <2>3, <3>2 DEF Loc
      <4>2. x = "data"
        BY <3>2, <4>1 DEF StoreTo
      <4> QED BY <1>1, <4>1, <4>2
    <3> QED BY <3>1, <3>2
  <2> QED BY <2>2, <2>3 DEF DataBeforeFlag
<1> QED BY <1>3, <1>5, <1>6, <1>7

(* Every store preserves the invariant.                                    *)
LEMMA StoreStep ==
  ASSUME IInv, NEW t \in Thread, NEW x \in Loc, NEW v \in Val,
         NEW rel \in BOOLEAN, NEW l,
         StoreTo(t, x, v, rel, l), Put(t, x, v, rel), Goto(t, l),
         UNCHANGED <<f, d>>
  PROVE  IInv'
<1>1. /\ TypeOK' /\ NothingBufferedUnderSC'
      /\ \A u \in Thread : u # t => pc'[u] = pc[u]
      /\ pc'[t] = l
  BY StoreType
<1>2. ReaderSnapshot' /\ ReaderConsistent' /\ NoAbort'
  BY <1>1, StoreReader
<1>3. /\ ReleaseIsLast' /\ OwnerKeepsLock' /\ MutualExclusion'
      /\ OwnerBuffers' /\ DataBeforeFlag'
  BY <1>1, StoreUnderSC, StoreBuffered
<1> QED BY <1>1, <1>2, <1>3 DEF IInv

(* A store becomes visible.  The release of the lock is the last entry of  *)
(* its buffer and commits only as the first, so it leaves it empty.        *)
LEMMA CommitStep ==
  ASSUME IInv, NEW t \in Thread, NEW x \in Loc, Commit(t, x), UNCHANGED <<pc, f, d>>
  PROVE  IInv'
<1> USE ThreadAssumption DEF Thread, Worker
<1> DEFINE b == buf[t]
           n == Len(buf[t])
<1>1. PICK i \in Pending(t, x) : CommitAt(t, i)
  BY DEF Commit
<1>2. /\ MemTypeOK(Thread, Loc, Val)'
      /\ i \in DOMAIN b
      /\ b[i] \in Entries(Loc, Val)
      /\ b[i].loc = x
      /\ mem' = [mem EXCEPT ![x] = b[i].val]
      /\ \A u \in Thread : u # t => buf'[u] = buf[u]
      /\ DOMAIN b = 1..n
      /\ n \in Nat \ {0}
      /\ Len(buf'[t]) = n - 1
      /\ DOMAIN buf'[t] = 1..(n - 1)
      /\ \A j \in DOMAIN buf'[t] : buf'[t][j] = IF j < i THEN b[j] ELSE b[j + 1]
      /\ \A u \in Thread, y \in Loc : Has(u, y)' => Has(u, y)
      /\ \A u \in Thread, y \in Loc :
           y # x \/ u # t => (Has(u, y)' <=> Has(u, y))
  <2>1. MemTypeOK(Thread, Loc, Val)
    BY DEF IInv, TypeOK
  <2> HIDE DEF Thread
  <2> QED BY <1>1, <2>1, CommitShape
<1>3. TypeOK'
  BY <1>2 DEF IInv, TypeOK
<1>4. NothingBufferedUnderSC'
  BY <1>2 DEF IInv, NothingBufferedUnderSC, Drained
<1>5. \A u \in Thread : /\ Inside(u)' <=> Inside(u)
                        /\ Owns(u)' => Owns(u)
                        /\ x # "lock" => (Owns(u)' <=> Owns(u))
  BY <1>2 DEF Inside, Owns, Has, Loc
<1>6. x = "lock" => /\ n = 1 /\ b[i].val = 0 /\ ~ Inside(t)
                    /\ \A y : ~ Has(t, y)'
  <2> SUFFICES ASSUME x = "lock"
               PROVE  n = 1 /\ b[i].val = 0 /\ ~ Inside(t) /\ \A y : ~ Has(t, y)'
    OBVIOUS
  <2>1. b[i].rel /\ b[i].val = 0 /\ i = n /\ ~ Inside(t)
    BY <1>2 DEF IInv, ReleaseIsLast
  <2>2. Ready(b, i) /\ b \in Seq(Entries(Loc, Val))
    BY <1>1 DEF CommitAt, IInv, TypeOK, MemTypeOK
  <2>3. i = 1
    BY <1>2, <2>1, <2>2, ReleaseIsFirst
  <2>4. DOMAIN buf'[t] = {}
    BY <1>2, <2>1, <2>3
  <2> QED BY <2>1, <2>3, <2>4 DEF Has, Pending
<1>7. MutualExclusion'
  BY <1>5 DEF IInv, MutualExclusion
<1>8. OwnerKeepsLock'
  <2>1. CASE x = "lock"
    <3>1. Owns(t)
      BY <1>1, <2>1 DEF Owns
    <3>2. \A u \in Thread : ~ Owns(u)'
      BY <1>5, <1>6, <2>1, <3>1 DEF IInv, MutualExclusion, Owns, Has
    <3> QED BY <1>2, <1>6, <2>1, <3>2 DEF OwnerKeepsLock, IInv, TypeOK, MemTypeOK
  <2>2. CASE x # "lock"
    <3>1. mem'["lock"] = mem["lock"]
      BY <1>2, <2>2 DEF IInv, TypeOK, MemTypeOK, Loc
    <3> QED BY <1>5, <2>2, <3>1 DEF IInv, OwnerKeepsLock
  <2> QED BY <2>1, <2>2
<1>9. ReleaseIsLast'
  <2> SUFFICES ASSUME NEW u \in Thread, NEW j \in DOMAIN buf'[u], buf'[u][j].loc = "lock"
               PROVE  buf'[u][j].rel /\ buf'[u][j].val = 0 /\ j = Len(buf'[u]) /\ ~ Inside(u)'
    BY DEF ReleaseIsLast
  <2>1. CASE u # t
    BY <1>2, <1>5, <2>1 DEF IInv, ReleaseIsLast
  <2>2. CASE u = t
    <3>1. x # "lock"
      BY <1>2, <1>6, <2>2
    <3>2. PICK k \in DOMAIN b : /\ buf'[t][j] = b[k]
                                /\ k = IF j < i THEN j ELSE j + 1
      BY <1>2, <2>2
    <3>3. b[k].rel /\ b[k].val = 0 /\ k = n /\ ~ Inside(t)
      BY <2>2, <3>2 DEF IInv, ReleaseIsLast
    <3>4. j = n - 1
      BY <1>2, <2>2, <3>2, <3>3
    <3> QED BY <1>2, <1>5, <2>2, <3>2, <3>3, <3>4
  <2> QED BY <2>1, <2>2
<1>10. OwnerBuffers'
  <2> SUFFICES ASSUME NEW u \in Thread, NEW j \in DOMAIN buf'[u]
               PROVE  /\ buf'[u][j].loc = "data" => u \in Writer /\ buf'[u][j].val = 42
                            /\ (pc'[u] \in {"w_flag", "w_unlock"} \/ Has(u, "lock")')
                      /\ buf'[u][j].loc = "flag" => u \in Writer
                            /\ (pc'[u] = "w_unlock" \/ Has(u, "lock")')
                      /\ buf'[u][j].loc = "lock" => u \in Worker
                      /\ buf'[u][j].loc = "stop" => u = Main
    BY DEF OwnerBuffers
  <2>1. CASE u # t
    BY <1>2, <2>1 DEF IInv, OwnerBuffers, Loc
  <2>2. CASE u = t
    <3>1. x # "lock"
      BY <1>2, <1>6, <2>2
    <3>2. Has(t, "lock")' <=> Has(t, "lock")
      BY <1>2, <3>1 DEF Loc
    <3>3. PICK k \in DOMAIN b : buf'[t][j] = b[k]
      <4>1. j \in 1..(n - 1) /\ n \in Nat
        BY <1>2, <2>2
      <4>2. j \in DOMAIN b /\ j + 1 \in DOMAIN b
        BY <1>2, <4>1
      <4> QED BY <1>2, <2>2, <4>2
    <3> QED BY <2>2, <3>2, <3>3 DEF IInv, OwnerBuffers
  <2> QED BY <2>1, <2>2
<1>11. /\ x = "data" => t \in Writer /\ mem'["data"] = 42
       /\ x # "data" => mem'["data"] = mem["data"]
       /\ x # "flag" => mem'["flag"] = mem["flag"]
       /\ x = "flag" => t \in Writer
  BY <1>2 DEF IInv, OwnerBuffers, TypeOK, MemTypeOK, Loc
<1>12. DataBeforeFlag'
  <2>1. CASE x = "data"
    BY <1>11, <2>1 DEF DataBeforeFlag
  <2>2. CASE x # "data"
    <3>1. \A w \in Writer : Has(w, "data")' <=> Has(w, "data")
      BY <1>2, <2>2 DEF Loc
    <3>2. \A w \in Writer : Has(w, "flag")' => Has(w, "flag")
      BY <1>2 DEF Loc
    <3>3. x = "flag" => mem["data"] = 42 \/ \E w \in Writer : Has(w, "data")
      BY <1>1, <1>11 DEF IInv, DataBeforeFlag, Has
    <3> QED BY <1>11, <2>2, <3>1, <3>2, <3>3 DEF IInv, DataBeforeFlag
  <2> QED BY <2>1, <2>2
<1>13. ReaderSnapshot'
  <2>1. ASSUME NEW r \in Reader, Inside(r)
        PROVE  mem'["data"] = mem["data"] /\ mem'["flag"] = mem["flag"]
    <3>1. ~ Has(t, "data") /\ ~ Has(t, "flag")
      BY <2>1, InsideIsAlone
    <3>2. x # "data" /\ x # "flag"
      BY <1>1, <3>1 DEF Has
    <3> QED BY <1>11, <3>2
  <2> QED BY <1>5, <2>1 DEF IInv, ReaderSnapshot
<1>14. ReaderConsistent' /\ NoAbort'
  BY DEF IInv, ReaderConsistent, NoAbort, Inconsistent
<1> QED BY <1>3, <1>4, <1>7, <1>8, <1>9, <1>10, <1>12, <1>13, <1>14 DEF IInv

-----------------------------------------------------------------------------
(* Every step preserves the invariant.                                     *)
LEMMA NextIInv == IInv /\ [Next]_vars => IInv'
<1> SUFFICES ASSUME IInv, [Next]_vars PROVE IInv'
  OBVIOUS
<1> USE ThreadAssumption DEF Thread, Worker
<1>1. ASSUME NEW w \in Writer, WStep(w) PROVE IInv'
  <2>1. CASE WTest(w)
    BY <2>1, TestStep
  <2>2. CASE WLock(w)
    BY <2>2, LockStep
  <2>3. CASE WData(w)
    BY <2>3, StoreStep DEF WData, Store, StoreTo, Loc, Val
  <2>4. CASE WFlag(w)
    BY <2>4, StoreStep DEF WFlag, Store, StoreTo, Loc, Val
  <2>5. CASE WUnlock(w)
    BY <2>5, StoreStep DEF WUnlock, SpinUnlock, StoreRelease, StoreTo, Loc, Val
  <2> QED BY <1>1, <2>1, <2>2, <2>3, <2>4, <2>5 DEF WStep
<1>2. ASSUME NEW r \in Reader, RStep(r) PROVE IInv'
  <2>1. CASE RTest(r)
    BY <2>1, TestStep
  <2>2. CASE RLock(r)
    BY <2>2, LockStep
  <2>3. CASE RFlag(r) \/ RData(r)
    BY <2>3, ReaderLoadStep
  <2>4. CASE RUnlock(r)
    BY <2>4, StoreStep DEF RUnlock, SpinUnlock, StoreRelease, StoreTo, Loc, Val
  <2>5. CASE RCheck(r)
    BY <2>5, CheckStep
  <2> QED BY <1>2, <2>1, <2>2, <2>3, <2>4, <2>5 DEF RStep
<1>3. CASE MStop
  BY <1>3, StoreStep DEF MStop, Store, StoreTo, Loc, Val
<1>4. CASE MJoin
  BY <1>4, JoinStep
<1>5. ASSUME NEW t \in Thread, Flush(t) PROVE IInv'
  BY <1>5, CommitStep DEF Flush
<1>6. CASE Terminated \/ UNCHANGED vars
  BY <1>6, StutterStep DEF Terminated
<1> QED BY <1>1, <1>2, <1>3, <1>4, <1>5, <1>6 DEF Next

(* The strengthened invariant holds in every reachable state.              *)
THEOREM Invariance == Spec => []IInv
<1> QED BY InitIInv, NextIInv, PTL DEF Spec

(* Every location, buffer and local keeps its type, for all threads.       *)
THEOREM TypeCorrectness == Spec => []TypeOK
<1>1. IInv => TypeOK
  BY DEF IInv
<1> QED BY <1>1, Invariance, PTL

(* spin_lock and spin_unlock of 22-MariaDB.c exclude, the release included *)
(* until it is visible, for any number of threads and any memory model.    *)
THEOREM Exclusion == Spec => []MutualExclusion
<1>1. IInv => MutualExclusion
  BY DEF IInv
<1> QED BY <1>1, Invariance, PTL

(* A lock word of 0 means the last critical section is wholly in memory.   *)
THEOREM Visibility == Spec => []FreeMeansVisible
<1>1. IInv => FreeMeansVisible
  BY DEF IInv, FreeMeansVisible, OwnerKeepsLock, OwnerBuffers, Owns, Inside, Has, Pending
<1> QED BY <1>1, Invariance, PTL

(* The reader's assert of 22-MariaDB.c:59-62 never fires, although the     *)
(* comments of the file expect it to on a machine with weak ordering.      *)
THEOREM AssertHolds == Spec => []ReaderConsistent
<1>1. IInv => ReaderConsistent
  BY DEF IInv
<1> QED BY <1>1, Invariance, PTL
=============================================================================
