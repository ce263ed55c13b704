------------------------- MODULE PublicationsProofs --------------------------
(***************************************************************************)
(* What the programs of Publications, the arena of 31-unsafe_publish.c and *)
(* the stack of 15-openmpi.c promise on the memories that Native gives     *)
(* them, and the reset handshakes of 24 and 25 on theirs, for every bound  *)
(* of the model; and last the types of every program of Native.            *)
(***************************************************************************)
EXTENDS LockProofs, ResetHandshake

(* The threads of a program with a writer and a reader.                    *)
LEMMA DuoFacts ==
  /\ Main = 0 /\ A = 1 /\ B = 2 /\ Duo = {0, 1, 2}
  /\ Main \in Duo /\ A \in Duo /\ B \in Duo
  /\ Main # A /\ Main # B /\ A # B
  BY DEF Main, A, B, Duo

-----------------------------------------------------------------------------
(* 26-mysql-99556.c on TSO.                                                *)

ModeLoc == {"mode", "counter", "running"}

ModeTypes ==
  /\ model = "TSO"
  /\ MemOK(Duo, ModeLoc, Int)
  /\ pc \in [Duo -> {"update", "count", "stop", "test", "load", "cache", "mark",
                     "done", "join", "exit"}]
  /\ pc[A] \in {"update", "count", "stop", "done"}
  /\ reg \in [Duo -> [i : Int, cur : Int, cachedMode : Int, cachedCounter : Int]]

(* The update under way is buffered or in memory before it is counted.     *)
ModeUpdate ==
  /\ \A t \in Duo : t # A => Entries(t) = {}
  /\ pc[A] = "update" => Entries(A) = {}
  /\ pc[A] \in {"stop", "done"} => \A e \in Entries(A) : e.loc = "running"
  /\ pc[A] = "count" => /\ \A e \in Entries(A) : e.loc = "mode" /\ e.val = reg[A].i
                        /\ mem["mode"] = reg[A].i \/ Entries(A) # {}

(* In memory the mode is as new as the counter, and what the reader has of *)
(* the counter is no newer.                                                *)
ModeNewest ==
  /\ mem["counter"] = reg[A].i - 1
  /\ mem["mode"] >= mem["counter"]
  /\ mem["counter"] >= reg[B].cur
  /\ mem["counter"] >= reg[B].cachedCounter
  /\ pc[B] = "mark" => reg[B].cachedMode >= reg[B].cur
  /\ reg[B].cachedMode >= reg[B].cachedCounter

ModeInv == ModeTypes /\ ModeUpdate /\ ModeNewest

(* The invariant holds when the threads start.                             *)
LEMMA ModeInitInv == ModeInit /\ model = "TSO" => ModeInv
<1> SUFFICES ASSUME ModeInit, model = "TSO" PROVE ModeInv
  OBVIOUS
<1>1. /\ mem = [x \in ModeLoc |-> IF x = "running" THEN 1 ELSE 0]
      /\ buf = [t \in Duo |-> << >>]
      /\ pc = [t \in Duo |-> IF t = Main THEN "join" ELSE IF t = A THEN "update" ELSE "test"]
      /\ reg = [t \in Duo |-> [i |-> 1, cur |-> -1, cachedMode |-> -1, cachedCounter |-> -1]]
  BY DEF ModeInit, Boot, ModeLoc
<1>2. \A t \in Duo : Entries(t) = {}
  BY <1>1 DEF Entries
<1>3. ModeTypes
  BY <1>1, DuoFacts DEF ModeTypes, MemOK
<1>4. pc[A] = "update" /\ pc[B] = "test" /\ mem["counter"] = 0 /\ mem["mode"] = 0
  BY <1>1, DuoFacts DEF ModeLoc
<1> QED BY <1>1, <1>2, <1>3, <1>4, DuoFacts DEF ModeInv, ModeUpdate, ModeNewest

(* A step that leaves memory, the buffers and the writer's locals alone,   *)
(* and of the writer's labels at most the end of its loop.                 *)
LEMMA ModeSilentStep ==
  ASSUME ModeInv, UNCHANGED rigid, Silent,
         pc' \in [Duo -> {"update", "count", "stop", "test", "load", "cache", "mark",
                          "done", "join", "exit"}],
         pc'[A] = pc[A] \/ (pc[A] = "update" /\ pc'[A] = "stop"),
         reg' \in [Duo -> [i : Int, cur : Int, cachedMode : Int, cachedCounter : Int]],
         reg'[A] = reg[A],
         mem["counter"] >= reg'[B].cur,
         mem["counter"] >= reg'[B].cachedCounter,
         pc'[B] = "mark" => reg'[B].cachedMode >= reg'[B].cur,
         reg'[B].cachedMode >= reg'[B].cachedCounter
  PROVE  ModeInv'
<1>1. /\ MemOK(Duo, ModeLoc, Int)'
      /\ mem' = mem
      /\ \A u \in Duo : Entries(u)' = Entries(u)
  BY SilentEntries DEF ModeInv, ModeTypes
<1>2. ModeTypes'
  BY <1>1 DEF ModeInv, ModeTypes, rigid
<1>3. ModeUpdate'
  BY <1>1, DuoFacts DEF ModeInv, ModeTypes, ModeUpdate
<1>4. ModeNewest'
  BY <1>1, DuoFacts DEF ModeInv, ModeNewest
<1> QED BY <1>2, <1>3, <1>4 DEF ModeInv

(* The reader has no stores of its own.                                    *)
LEMMA ModeLoads ==
  ASSUME ModeInv, NEW x \in ModeLoc
  PROVE  Load(B, x) = mem[x] /\ Load(B, x) \in Int
<1>1. MemOK(Duo, ModeLoc, Int) /\ B \in Duo /\ Entries(B) = {}
  BY DuoFacts DEF ModeInv, ModeTypes, ModeUpdate
<1> QED BY <1>1, LoadEntries

(* Every statement of the reader preserves the invariant.                  *)
LEMMA ModeReaderStep ==
  ASSUME ModeInv, UNCHANGED rigid, ModeReader
  PROVE  ModeInv'
<1>1. /\ "counter" \in ModeLoc /\ "mode" \in ModeLoc
      /\ mem \in [ModeLoc -> Int] /\ reg[B] \in [i : Int, cur : Int, cachedMode : Int, cachedCounter : Int]
      /\ reg \in [Duo -> [i : Int, cur : Int, cachedMode : Int, cachedCounter : Int]]
      /\ pc \in [Duo -> {"update", "count", "stop", "test", "load", "cache", "mark",
                         "done", "join", "exit"}]
      /\ mem["counter"] \in Int /\ mem["mode"] \in Int
  BY DuoFacts DEF ModeInv, ModeTypes, MemOK, ModeLoc
<1>2. /\ mem["mode"] >= mem["counter"]
      /\ mem["counter"] >= reg[B].cur
      /\ mem["counter"] >= reg[B].cachedCounter
      /\ pc[B] = "mark" => reg[B].cachedMode >= reg[B].cur
      /\ reg[B].cachedMode >= reg[B].cachedCounter
  BY DEF ModeInv, ModeNewest
<1>3. CASE Local(B, "test", IF Load(B, "running") = 1 THEN "load" ELSE "done") /\ Keep
  BY <1>1, <1>2, <1>3, DuoFacts, ModeSilentStep DEF Local, Go, Keep
<1>4. CASE LET c == Load(B, "counter")
           IN  /\ Local(B, "load", IF c # reg[B].cachedCounter THEN "cache" ELSE "test")
               /\ reg' = [reg EXCEPT ![B].cur = c]
               /\ UNCHANGED env
  <2>1. Load(B, "counter") = mem["counter"]
    BY <1>1, ModeLoads
  <2>2. reg' = [reg EXCEPT ![B].cur = mem["counter"]]
    BY <1>4, <2>1
  <2>3. /\ reg' \in [Duo -> [i : Int, cur : Int, cachedMode : Int, cachedCounter : Int]]
        /\ reg'[A] = reg[A] /\ reg'[B].cur = mem["counter"]
        /\ reg'[B].cachedMode = reg[B].cachedMode /\ reg'[B].cachedCounter = reg[B].cachedCounter
    BY <1>1, <2>2, DuoFacts
  <2>4. /\ pc' \in [Duo -> {"update", "count", "stop", "test", "load", "cache", "mark",
                            "done", "join", "exit"}]
        /\ pc'[A] = pc[A] /\ pc'[B] # "mark" /\ Silent
    BY <1>1, <1>4, DuoFacts DEF Local, Go
  <2> QED BY <1>1, <1>2, <2>3, <2>4, ModeSilentStep
<1>5. CASE Read(B, "cache", "cachedMode", "mode", "mark") /\ UNCHANGED env
  <2>1. reg' = [reg EXCEPT ![B].cachedMode = mem["mode"]]
    BY <1>1, <1>5, ModeLoads DEF Read
  <2>2. /\ reg' \in [Duo -> [i : Int, cur : Int, cachedMode : Int, cachedCounter : Int]]
        /\ reg'[A] = reg[A] /\ reg'[B].cur = reg[B].cur
        /\ reg'[B].cachedMode = mem["mode"] /\ reg'[B].cachedCounter = reg[B].cachedCounter
    BY <1>1, <2>1, DuoFacts
  <2>3. /\ pc' \in [Duo -> {"update", "count", "stop", "test", "load", "cache", "mark",
                            "done", "join", "exit"}]
        /\ pc'[A] = pc[A] /\ Silent
    BY <1>1, <1>5, DuoFacts DEF Read, Go
  <2>4. mem["mode"] >= reg[B].cur /\ mem["mode"] >= reg[B].cachedCounter
    <3>1. reg[B].cur \in Int /\ reg[B].cachedCounter \in Int
      BY <1>1
    <3> QED BY <1>1, <1>2, <3>1
  <2> QED BY <1>1, <1>2, <2>2, <2>3, <2>4, ModeSilentStep
<1>6. CASE /\ Local(B, "mark", "test")
           /\ reg' = [reg EXCEPT ![B].cachedCounter = reg[B].cur]
           /\ UNCHANGED env
  <2>1. /\ reg' \in [Duo -> [i : Int, cur : Int, cachedMode : Int, cachedCounter : Int]]
        /\ reg'[A] = reg[A] /\ reg'[B].cur = reg[B].cur
        /\ reg'[B].cachedMode = reg[B].cachedMode /\ reg'[B].cachedCounter = reg[B].cur
    BY <1>1, <1>6, DuoFacts
  <2>2. /\ pc' \in [Duo -> {"update", "count", "stop", "test", "load", "cache", "mark",
                            "done", "join", "exit"}]
        /\ pc'[A] = pc[A] /\ pc[B] = "mark" /\ pc'[B] # "mark" /\ Silent
    BY <1>1, <1>6, DuoFacts DEF Local, Go
  <2> QED BY <1>1, <1>2, <2>1, <2>2, ModeSilentStep
<1> QED BY <1>3, <1>4, <1>5, <1>6 DEF ModeReader

(* The mode, or the end of the test, joins the writer's empty buffer.      *)
LEMMA ModeStore ==
  ASSUME ModeInv, UNCHANGED <<rigid, reg>>, NEW x \in {"mode", "running"}, NEW v \in Int,
         Put(A, x, v, FALSE), NEW to, pc' = [pc EXCEPT ![A] = to],
         \/ pc[A] = "update" /\ to = "count" /\ x = "mode" /\ v = reg[A].i
         \/ pc[A] = "stop" /\ to = "done" /\ x = "running"
  PROVE  ModeInv'
<1>1. /\ MemOK(Duo, ModeLoc, Int) /\ Weak /\ x \in ModeLoc /\ A \in Duo /\ FALSE \in BOOLEAN
      /\ Put(A, x, v, FALSE) /\ reg' = reg
  BY DuoFacts DEF ModeInv, ModeTypes, Weak, ModeLoc
<1>2. Adds(Duo, ModeLoc, Int, A, x, v)
  BY <1>1, PutAdds, Zenon
<1>3. /\ MemOK(Duo, ModeLoc, Int)'
      /\ mem' = mem
      /\ \E e : e.loc = x /\ e.val = v /\ Entries(A)' = Entries(A) \cup {e}
      /\ \A u \in Duo : u # A => Entries(u)' = Entries(u)
  BY <1>2 DEF Adds
<1>4. /\ pc' \in [Duo -> {"update", "count", "stop", "test", "load", "cache", "mark",
                          "done", "join", "exit"}]
      /\ pc'[A] = to /\ pc'[B] = pc[B] /\ to \in {"count", "done"}
  BY DuoFacts DEF ModeInv, ModeTypes
<1>5. ModeTypes'
  BY <1>1, <1>3, <1>4 DEF ModeInv, ModeTypes, rigid
<1>6. ModeUpdate'
  BY <1>1, <1>3, <1>4, DuoFacts DEF ModeInv, ModeUpdate
<1>7. ModeNewest'
  BY <1>1, <1>3, <1>4 DEF ModeInv, ModeNewest
<1> QED BY <1>5, <1>6, <1>7 DEF ModeInv

(* The increment: a locked instruction, which finds the mode in memory.    *)
LEMMA ModeCount ==
  ASSUME ModeInv, UNCHANGED rigid, Go(A, "count", "update"), CanRMW(A, "counter"),
         SetMem("counter", mem["counter"] + 1), reg' = [reg EXCEPT ![A].i = @ + 1]
  PROVE  ModeInv'
<1>1. /\ MemOK(Duo, ModeLoc, Int) /\ "counter" \in ModeLoc /\ A \in Duo
      /\ mem \in [ModeLoc -> Int] /\ mem["counter"] \in Int
      /\ reg \in [Duo -> [i : Int, cur : Int, cachedMode : Int, cachedCounter : Int]]
  BY DuoFacts DEF ModeInv, ModeTypes, ModeLoc, MemOK
<1>2. Drained(A)
  BY DEF ModeInv, ModeTypes, CanRMW, TSO!CanRMW, TSO!Drained, Drained, SC!Drained
<1>3. Entries(A) = {}
  BY <1>1, <1>2, DrainedEntries
<1>4. /\ MemOK(Duo, ModeLoc, Int)'
      /\ mem' = [mem EXCEPT !["counter"] = mem["counter"] + 1]
      /\ \A u \in Duo : Entries(u)' = Entries(u)
  <2>1. mem["counter"] + 1 \in Int
    BY <1>1
  <2> QED BY <1>1, <2>1, SetMemEntries
<1>5. mem'["counter"] = mem["counter"] + 1 /\ mem'["mode"] = mem["mode"]
  BY <1>1, <1>4 DEF ModeLoc
<1>6. /\ reg' \in [Duo -> [i : Int, cur : Int, cachedMode : Int, cachedCounter : Int]]
      /\ reg'[A].i = reg[A].i + 1 /\ reg'[B] = reg[B]
  BY <1>1, DuoFacts
<1>7. /\ pc' \in [Duo -> {"update", "count", "stop", "test", "load", "cache", "mark",
                          "done", "join", "exit"}]
      /\ pc[A] = "count" /\ pc'[A] = "update" /\ pc'[B] = pc[B]
  BY DuoFacts DEF ModeInv, ModeTypes, Go
<1>8. ModeTypes'
  BY <1>4, <1>6, <1>7 DEF ModeInv, ModeTypes, rigid
<1>9. ModeUpdate'
  BY <1>3, <1>4, <1>7, DuoFacts DEF ModeInv, ModeUpdate
<1>10. ModeNewest'
  <2>1. mem["mode"] = reg[A].i
    BY <1>3, <1>7 DEF ModeInv, ModeUpdate
  <2>2. /\ reg[A].i \in Int /\ reg[B].cur \in Int /\ reg[B].cachedCounter \in Int
    BY <1>1, DuoFacts
  <2> QED BY <1>1, <1>5, <1>6, <1>7, <2>1, <2>2 DEF ModeInv, ModeNewest
<1> QED BY <1>8, <1>9, <1>10 DEF ModeInv

(* Every statement of the writer preserves the invariant.                  *)
LEMMA ModeWriterStep ==
  ASSUME ModeInv, UNCHANGED rigid, ModeWriter
  PROVE  ModeInv'
<1>1. /\ reg[A].i \in Int /\ 0 \in Int
      /\ pc \in [Duo -> {"update", "count", "stop", "test", "load", "cache", "mark",
                         "done", "join", "exit"}]
  BY DuoFacts DEF ModeInv, ModeTypes
<1>2. CASE Local(A, "update", "stop") /\ Keep
  <2>1. /\ pc' \in [Duo -> {"update", "count", "stop", "test", "load", "cache", "mark",
                            "done", "join", "exit"}]
        /\ pc[A] = "update" /\ pc'[A] = "stop" /\ pc'[B] = pc[B] /\ Silent /\ reg' = reg
    BY <1>1, <1>2, DuoFacts DEF Local, Go, Keep
  <2> QED BY <2>1, ModeSilentStep DEF ModeInv, ModeTypes, ModeNewest
<1>3. CASE Write(A, "update", "mode", reg[A].i, "count") /\ Keep
  BY <1>1, <1>3, ModeStore DEF Write, Go, Keep
<1>4. CASE /\ Go(A, "count", "update")
           /\ CanRMW(A, "counter")
           /\ SetMem("counter", mem["counter"] + 1)
           /\ reg' = [reg EXCEPT ![A].i = @ + 1]
  BY <1>4, ModeCount
<1>5. CASE Write(A, "stop", "running", 0, "done") /\ Keep
  BY <1>1, <1>5, ModeStore DEF Write, Go, Keep
<1> QED BY <1>2, <1>3, <1>4, <1>5 DEF ModeWriter

(* main's join preserves the invariant.                                    *)
LEMMA ModeJoinStep ==
  ASSUME ModeInv, UNCHANGED rigid, JoinBoth
  PROVE  ModeInv'
<1>1. /\ pc' \in [Duo -> {"update", "count", "stop", "test", "load", "cache", "mark",
                          "done", "join", "exit"}]
      /\ pc'[A] = pc[A] /\ pc'[B] = pc[B] /\ Silent /\ reg' = reg
  BY DuoFacts DEF ModeInv, ModeTypes, JoinBoth, Await, Go, Keep
<1> QED BY <1>1, ModeSilentStep DEF ModeInv, ModeTypes, ModeNewest

(* The mode becomes visible, no older than the counter.                    *)
LEMMA ModeFlushStep ==
  ASSUME ModeInv, NEW t \in Duo, NEW x \in DOMAIN mem, Commit(t, x),
         UNCHANGED <<rigid, pc, reg, env>>
  PROVE  ModeInv'
<1>1. mem \in [ModeLoc -> Int] /\ x \in ModeLoc /\ Weak /\ MemOK(Duo, ModeLoc, Int)
  BY DEF ModeInv, ModeTypes, MemOK, Weak
<1>2. /\ MemOK(Duo, ModeLoc, Int)'
      /\ \A u \in Duo : u # t => Entries(u)' = Entries(u)
      /\ Entries(t)' \subseteq Entries(t)
      /\ \E e \in Entries(t) :
           /\ e.loc = x
           /\ mem' = [mem EXCEPT ![x] = e.val]
           /\ \A f \in Entries(t) : f # e => f \in Entries(t)'
  BY <1>1, CommitEntries
<1>3. PICK e \in Entries(t) : e.loc = x /\ mem' = [mem EXCEPT ![x] = e.val]
  BY <1>2
<1>4. t = A /\ pc' = pc /\ reg' = reg
  BY <1>3 DEF ModeInv, ModeUpdate
<1>5. \/ (pc[A] = "count" /\ x = "mode" /\ e.val = reg[A].i)
      \/ (pc[A] \in {"stop", "done"} /\ x = "running")
  BY <1>3, <1>4 DEF ModeInv, ModeTypes, ModeUpdate
<1>6. /\ mem'["counter"] = mem["counter"]
      /\ mem'["mode"] = IF x = "mode" THEN e.val ELSE mem["mode"]
  BY <1>1, <1>3, <1>5 DEF ModeLoc
<1>7. ModeTypes'
  BY <1>2, <1>4 DEF ModeInv, ModeTypes, rigid
<1>8. ModeUpdate'
  BY <1>2, <1>4, <1>5, <1>6, DuoFacts DEF ModeInv, ModeUpdate
<1>9. ModeNewest'
  <2>1. mem["counter"] \in Int /\ reg[A].i \in Int
    BY <1>1, DuoFacts DEF ModeInv, ModeTypes, ModeLoc
  <2>2. mem'["mode"] >= mem'["counter"]
    BY <1>5, <1>6, <2>1 DEF ModeInv, ModeNewest
  <2> QED BY <1>4, <1>6, <2>2 DEF ModeInv, ModeNewest
<1> QED BY <1>7, <1>8, <1>9 DEF ModeInv

(* A stuttering step preserves the invariant.                              *)
LEMMA ModeStutter == ModeInv /\ UNCHANGED vars => ModeInv'
<1> SUFFICES ASSUME ModeInv, UNCHANGED vars PROVE ModeInv'
  OBVIOUS
<1> QED BY ModeSilentStep DEF ModeInv, ModeTypes, ModeNewest, vars, rigid, Silent

-----------------------------------------------------------------------------
(* 21-crossbeam.c on TSO.                                                  *)

SeqLoc == {"state", "shared"}

SeqTypes ==
  /\ model = "TSO"
  /\ MemOK(Duo, SeqLoc, {0, 1})
  /\ pc \in [Duo -> {"write", "shared", "stamp", "read", "done", "join", "exit"}]
  /\ reg \in [Duo -> [stamp : Int, val : Int, new : Int]]

(* The value is written after the stamp, and read before it.               *)
SeqOrder ==
  /\ \A t \in Duo : t # A => Entries(t) = {}
  /\ pc[A] = "write" => Entries(A) = {} /\ mem["shared"] = 0
  /\ pc[A] # "write" => mem["state"] = 1
  /\ \A e \in Entries(A) : e.loc = "shared"
  /\ pc[B] = "stamp" => reg[B].val = Unread /\ reg[B].new = Unread
  /\ reg[B].new # Unread => reg[B].val # Unread
  /\ reg[B].val = 1 => pc[A] # "write"
  /\ reg[B].new # Unread /\ reg[B].val = 1 => reg[B].new = 1
  /\ pc[B] = "done" /\ reg[B].stamp = 0 => reg[B].new # Unread

SeqInv == SeqTypes /\ SeqOrder

SeqLabel == {"write", "shared", "stamp", "read", "done", "join", "exit"}

(* The invariant holds when the threads start.                             *)
LEMMA SeqInitInv == SeqInit /\ model = "TSO" => SeqInv
<1> SUFFICES ASSUME SeqInit, model = "TSO" PROVE SeqInv
  OBVIOUS
<1>1. /\ mem = [x \in SeqLoc |-> 0]
      /\ buf = [t \in Duo |-> << >>]
      /\ pc = [t \in Duo |-> IF t = Main THEN "join" ELSE IF t = A THEN "write" ELSE "stamp"]
      /\ reg = [t \in Duo |-> [stamp |-> 0, val |-> Unread, new |-> Unread]]
  BY DEF SeqInit, Boot, SeqLoc
<1>2. \A t \in Duo : Entries(t) = {}
  BY <1>1 DEF Entries
<1>3. SeqTypes
  BY <1>1, DuoFacts DEF SeqTypes, MemOK, Unread
<1>4. mem["shared"] = 0
  BY <1>1 DEF SeqLoc
<1> QED BY <1>1, <1>2, <1>3, <1>4, DuoFacts DEF SeqInv, SeqOrder, Unread

(* A step that leaves memory, the buffers and the writer alone.            *)
LEMMA SeqSilentStep ==
  ASSUME SeqInv, UNCHANGED rigid, Silent,
         pc' \in [Duo -> SeqLabel], pc'[A] = pc[A],
         reg' \in [Duo -> [stamp : Int, val : Int, new : Int]],
         pc'[B] = "stamp" => reg'[B].val = Unread /\ reg'[B].new = Unread,
         reg'[B].new # Unread => reg'[B].val # Unread,
         reg'[B].val = 1 => pc[A] # "write",
         reg'[B].new # Unread /\ reg'[B].val = 1 => reg'[B].new = 1,
         pc'[B] = "done" /\ reg'[B].stamp = 0 => reg'[B].new # Unread
  PROVE  SeqInv'
<1>1. /\ MemOK(Duo, SeqLoc, {0, 1})'
      /\ mem' = mem
      /\ \A u \in Duo : Entries(u)' = Entries(u)
  BY SilentEntries DEF SeqInv, SeqTypes
<1>2. SeqTypes'
  BY <1>1 DEF SeqInv, SeqTypes, rigid, SeqLabel
<1>3. SeqOrder'
  BY <1>1, DuoFacts DEF SeqInv, SeqOrder
<1> QED BY <1>2, <1>3 DEF SeqInv

(* What the reader sees of the words.                                      *)
LEMMA SeqLoads ==
  ASSUME SeqInv, NEW x \in SeqLoc
  PROVE  Load(B, x) = mem[x] /\ Load(B, x) \in {0, 1}
<1>1. MemOK(Duo, SeqLoc, {0, 1}) /\ B \in Duo /\ Entries(B) = {}
  BY DuoFacts DEF SeqInv, SeqTypes, SeqOrder
<1> QED BY <1>1, LoadEntries

(* The reader's load of the stamp.                                         *)
LEMMA SeqStampStep ==
  ASSUME SeqInv, UNCHANGED rigid, SeqStamp
  PROVE  SeqInv'
<1>1. "state" \in SeqLoc /\ Load(B, "state") \in {0, 1}
  BY SeqLoads DEF SeqLoc
<1> DEFINE l == Load(B, "state")
<1>2. /\ Silent /\ reg' = [reg EXCEPT ![B].stamp = l]
      /\ pc[B] = "stamp"
      /\ pc' = [pc EXCEPT ![B] = IF l = 0 THEN "read" ELSE "done"]
  BY DEF SeqStamp, Go
<1>3. /\ reg \in [Duo -> [stamp : Int, val : Int, new : Int]] /\ pc \in [Duo -> SeqLabel]
  BY DEF SeqInv, SeqTypes, SeqLabel
<1>4. l \in {0, 1}
  BY <1>1
<1> HIDE DEF l
<1>5. /\ reg' \in [Duo -> [stamp : Int, val : Int, new : Int]]
      /\ reg'[B].stamp = l /\ reg'[B].val = reg[B].val /\ reg'[B].new = reg[B].new
  BY <1>2, <1>3, <1>4, DuoFacts
<1>6. /\ pc' \in [Duo -> SeqLabel] /\ pc'[A] = pc[A]
      /\ pc'[B] = IF l = 0 THEN "read" ELSE "done"
  BY <1>2, <1>3, DuoFacts DEF SeqLabel
<1>7. reg[B].val = Unread /\ reg[B].new = Unread
  BY <1>2 DEF SeqInv, SeqOrder
<1> QED BY <1>2, <1>4, <1>5, <1>6, <1>7, SeqSilentStep DEF Unread

(* The value, before the second stamp: if it is the writer's, the state    *)
(* that the writer set before it is in memory.                             *)
LEMMA SeqReadStep ==
  ASSUME SeqInv, UNCHANGED rigid, SeqRead
  PROVE  SeqInv'
<1>1. /\ "shared" \in SeqLoc /\ "state" \in SeqLoc
      /\ reg \in [Duo -> [stamp : Int, val : Int, new : Int]] /\ pc \in [Duo -> SeqLabel]
      /\ ~ LoadsReorder
  BY DEF SeqInv, SeqTypes, SeqLabel, SeqLoc, LoadsReorder
<1>2. CASE /\ reg[B].val = Unread
           /\ Read(B, "read", "val", "shared", IF reg[B].new = Unread THEN "read" ELSE "done")
           /\ UNCHANGED env
  <2>1. Load(B, "shared") = mem["shared"] /\ mem["shared"] \in {0, 1}
    BY <1>1, SeqLoads
  <2>2. reg' = [reg EXCEPT ![B].val = mem["shared"]] /\ Silent
    BY <1>2, <2>1 DEF Read
  <2>3. /\ reg' \in [Duo -> [stamp : Int, val : Int, new : Int]]
        /\ reg'[B].val = mem["shared"] /\ reg'[B].new = reg[B].new
    BY <1>1, <2>1, <2>2, DuoFacts
  <2>4. reg[B].new = Unread
    BY <1>2 DEF SeqInv, SeqOrder
  <2>5. /\ pc' \in [Duo -> SeqLabel] /\ pc'[A] = pc[A] /\ pc'[B] = "read"
    BY <1>1, <1>2, <2>4, DuoFacts DEF Read, Go, SeqLabel
  <2>6. mem["shared"] = 1 => pc[A] # "write"
    BY DEF SeqInv, SeqOrder
  <2> QED BY <2>2, <2>3, <2>4, <2>5, <2>6, SeqSilentStep
<1>3. CASE /\ reg[B].new = Unread
           /\ LoadsReorder \/ reg[B].val # Unread
           /\ Read(B, "read", "new", "state", IF reg[B].val = Unread THEN "read" ELSE "done")
           /\ UNCHANGED env
  <2>1. Load(B, "state") = mem["state"] /\ mem["state"] \in {0, 1}
    BY <1>1, SeqLoads
  <2>2. reg' = [reg EXCEPT ![B].new = mem["state"]] /\ Silent
    BY <1>3, <2>1 DEF Read
  <2>3. /\ reg' \in [Duo -> [stamp : Int, val : Int, new : Int]]
        /\ reg'[B].new = mem["state"] /\ reg'[B].val = reg[B].val
        /\ reg'[B].stamp = reg[B].stamp
    BY <1>1, <2>1, <2>2, DuoFacts
  <2>4. reg[B].val # Unread
    BY <1>1, <1>3
  <2>5. /\ pc' \in [Duo -> SeqLabel] /\ pc'[A] = pc[A] /\ pc'[B] = "done"
    BY <1>1, <1>3, <2>4, DuoFacts DEF Read, Go, SeqLabel
  <2>6. reg[B].val = 1 => pc[A] # "write" /\ mem["state"] = 1
    BY DEF SeqInv, SeqOrder
  <2>7. mem["state"] # Unread
    BY <2>1 DEF Unread
  <2> QED BY <2>2, <2>3, <2>4, <2>5, <2>6, <2>7, SeqSilentStep
<1> QED BY <1>2, <1>3 DEF SeqRead

(* Every statement of the writer preserves the invariant.                  *)
LEMMA SeqWriterStep ==
  ASSUME SeqInv, UNCHANGED rigid, SeqWriter
  PROVE  SeqInv'
<1>1. /\ MemOK(Duo, SeqLoc, {0, 1}) /\ Weak /\ "shared" \in SeqLoc /\ "state" \in SeqLoc
      /\ A \in Duo /\ pc \in [Duo -> SeqLabel] /\ mem \in [SeqLoc -> {0, 1}]
      /\ 1 \in {0, 1} /\ FALSE \in BOOLEAN
  BY DuoFacts DEF SeqInv, SeqTypes, SeqLabel, SeqLoc, Weak, MemOK
<1>2. CASE Go(A, "write", "shared") /\ CanRMW(A, "state") /\ SetMem("state", 1) /\ Keep
  <2>1. /\ pc[A] = "write" /\ pc' = [pc EXCEPT ![A] = "shared"] /\ reg' = reg
        /\ SetMem("state", 1)
    BY <1>2 DEF Go, Keep
  <2>2. /\ MemOK(Duo, SeqLoc, {0, 1})'
        /\ mem' = [mem EXCEPT !["state"] = 1]
        /\ \A u \in Duo : Entries(u)' = Entries(u)
    BY <1>1, <2>1, SetMemEntries
  <2>3. mem'["state"] = 1
    BY <1>1, <2>2
  <2>4. /\ pc' \in [Duo -> SeqLabel] /\ pc'[A] = "shared" /\ pc'[B] = pc[B]
    BY <1>1, <2>1, DuoFacts DEF SeqLabel
  <2>5. SeqTypes'
    BY <2>1, <2>2, <2>4 DEF SeqInv, SeqTypes, rigid, SeqLabel
  <2>6. SeqOrder'
    BY <2>1, <2>2, <2>3, <2>4, DuoFacts DEF SeqInv, SeqOrder
  <2> QED BY <2>5, <2>6 DEF SeqInv
<1>3. CASE Write(A, "shared", "shared", 1, "done") /\ Keep
  <2>1. /\ pc[A] = "shared" /\ pc' = [pc EXCEPT ![A] = "done"] /\ reg' = reg
        /\ Put(A, "shared", 1, FALSE)
    BY <1>3 DEF Write, Go, Keep
  <2>2. Adds(Duo, SeqLoc, {0, 1}, A, "shared", 1)
    BY <1>1, <2>1, PutAdds, Zenon
  <2>3. /\ MemOK(Duo, SeqLoc, {0, 1})'
        /\ mem' = mem
        /\ \E e : e.loc = "shared" /\ e.val = 1 /\ Entries(A)' = Entries(A) \cup {e}
        /\ \A u \in Duo : u # A => Entries(u)' = Entries(u)
    BY <2>2 DEF Adds
  <2>4. /\ pc' \in [Duo -> SeqLabel] /\ pc'[A] = "done" /\ pc'[B] = pc[B]
    BY <1>1, <2>1, DuoFacts DEF SeqLabel
  <2>5. SeqTypes'
    BY <2>1, <2>3, <2>4 DEF SeqInv, SeqTypes, rigid, SeqLabel
  <2>6. SeqOrder'
    BY <2>1, <2>3, <2>4, DuoFacts DEF SeqInv, SeqOrder
  <2> QED BY <2>5, <2>6 DEF SeqInv
<1> QED BY <1>2, <1>3 DEF SeqWriter

(* main's join preserves the invariant.                                    *)
LEMMA SeqJoinStep ==
  ASSUME SeqInv, UNCHANGED rigid, JoinBoth
  PROVE  SeqInv'
<1>1. /\ pc' \in [Duo -> SeqLabel]
      /\ pc'[A] = pc[A] /\ pc'[B] = pc[B] /\ Silent /\ reg' = reg
  BY DuoFacts DEF SeqInv, SeqTypes, SeqLabel, JoinBoth, Await, Go, Keep
<1> QED BY <1>1, SeqSilentStep DEF SeqInv, SeqTypes, SeqOrder

(* A store that becomes visible preserves the invariant.                   *)
LEMMA SeqFlushStep ==
  ASSUME SeqInv, NEW t \in Duo, NEW x \in DOMAIN mem, Commit(t, x),
         UNCHANGED <<rigid, pc, reg, env>>
  PROVE  SeqInv'
<1>1. mem \in [SeqLoc -> {0, 1}] /\ x \in SeqLoc /\ Weak /\ MemOK(Duo, SeqLoc, {0, 1})
  BY DEF SeqInv, SeqTypes, MemOK, Weak
<1>2. /\ MemOK(Duo, SeqLoc, {0, 1})'
      /\ \A u \in Duo : u # t => Entries(u)' = Entries(u)
      /\ Entries(t)' \subseteq Entries(t)
      /\ \E e \in Entries(t) :
           /\ e.loc = x
           /\ mem' = [mem EXCEPT ![x] = e.val]
           /\ \A f \in Entries(t) : f # e => f \in Entries(t)'
  BY <1>1, CommitEntries
<1>3. PICK e \in Entries(t) : e.loc = x /\ mem' = [mem EXCEPT ![x] = e.val]
  BY <1>2
<1>4. t = A /\ pc' = pc /\ reg' = reg
  BY <1>3 DEF SeqInv, SeqOrder
<1>5. x = "shared" /\ pc[A] # "write"
  BY <1>3, <1>4 DEF SeqInv, SeqOrder
<1>6. mem'["state"] = mem["state"]
  BY <1>1, <1>3, <1>5 DEF SeqLoc
<1>7. SeqTypes'
  BY <1>2, <1>4 DEF SeqInv, SeqTypes, rigid
<1>8. SeqOrder'
  BY <1>2, <1>4, <1>5, <1>6, DuoFacts DEF SeqInv, SeqOrder
<1> QED BY <1>7, <1>8 DEF SeqInv

(* A stuttering step preserves the invariant.                              *)
LEMMA SeqStutter == SeqInv /\ UNCHANGED vars => SeqInv'
<1> SUFFICES ASSUME SeqInv, UNCHANGED vars PROVE SeqInv'
  OBVIOUS
<1> QED BY SeqSilentStep DEF SeqInv, SeqTypes, SeqLabel, SeqOrder, vars, rigid, Silent

-----------------------------------------------------------------------------
(* 12-DragonWell8Easy.cpp.                                                 *)

PackageLoc    == {table, tblLock} \cup {built(n) : n \in Requester}
PackageThread == Requester \cup {Main}
PackageLabel  == {"look", "lock", "recheck", "build", "publish", "unlock", "return",
                  "done", "join", "exit"}

PackageTypes ==
  /\ Weak
  /\ MemOK(PackageThread, PackageLoc, Nat)
  /\ pc \in [PackageThread -> PackageLabel]
  /\ reg \in [PackageThread -> [result : Nat]]
  /\ env \in [created : Nat]

PackageHolds(t) == pc[t] \in {"recheck", "build", "publish", "unlock"}

(* One thread at a time is in the mutex, and only there are stores left    *)
(* behind, to the thread's own table and to the pointer.                   *)
PackageMutex ==
  \A t \in PackageThread :
    /\ PackageHolds(t) => t \in Requester /\ mem[tblLock] = 1
    /\ \A u \in PackageThread : PackageHolds(t) /\ PackageHolds(u) => t = u
    /\ pc[t] \notin {"publish", "unlock"} => Entries(t) = {}
    /\ pc[t] = "publish" => \A e \in Entries(t) : e.loc # table
    /\ \A e \in Entries(t) :
         /\ e.loc = built(t) \/ e.loc = table
         /\ e.loc = built(t) => e.val = 1
         /\ e.loc = table => e.val = t

HasTable(t) == mem[table] # NULL \/ \E e \in Entries(t) : e.loc = table

(* Who leaves the mutex leaves a table, and a table that was created is    *)
(* there for the next, or will be when its creator leaves.                 *)
PackageTable ==
  /\ mem[table] \in Requester \cup {NULL}
  /\ env.created <= 1
  /\ \A t \in Requester :
       /\ pc[t] \in {"unlock", "return"} => HasTable(t)
       /\ pc[t] = "build" => env.created = 0
       /\ pc[t] = "done" => reg[t].result # NULL
  /\ env.created = 1 => \/ mem[table] # NULL
                        \/ \E t \in Requester : pc[t] \in {"publish", "unlock"}

(* On TSO the buckets are there before the pointer is.                     *)
BucketsFirst(t, i) ==
  mem[built(t)] = 1 \/ \E j \in 1..(i - 1) : buf[t][j].loc = built(t)

PackageBuckets ==
  /\ mem[table] # NULL => mem[built(mem[table])] = 1
  /\ \A t \in Requester :
       /\ pc[t] = "publish" => BucketsFirst(t, Len(buf[t]) + 1)
       /\ \A i \in 1..Len(buf[t]) : buf[t][i].loc = table => BucketsFirst(t, i)

PackageInv ==
  PackageTypes /\ PackageMutex /\ PackageTable /\ (model = "TSO" => PackageBuckets)

(* The threads and the words, which are different.                         *)
LEMMA PackageFacts ==
  /\ Main \notin Requester /\ NULL = 0 /\ NULL \notin Requester /\ Requester \subseteq Nat
  /\ table \in PackageLoc /\ tblLock \in PackageLoc /\ table # tblLock
  /\ \A n \in Requester : /\ built(n) \in PackageLoc
                          /\ built(n) # table /\ built(n) # tblLock
                          /\ \A k \in Requester : built(n) = built(k) => n = k
<1>1. table # tblLock
  BY DEF table, tblLock
<1>2. \A n \in Requester : built(n) # table /\ built(n) # tblLock
  <2> SUFFICES ASSUME NEW n \in Requester PROVE built(n) # table /\ built(n) # tblLock
    OBVIOUS
  <2>1. Len(built(n)) = 2 /\ Len(table) = 1 /\ Len(tblLock) = 1
    BY DEF built, table, tblLock
  <2> QED BY <2>1
<1>3. \A n, k \in Requester : built(n) = built(k) => n = k
  BY DEF built
<1> QED BY <1>1, <1>2, <1>3, PublicationAssumption DEF PackageLoc, Main, NULL

(* The invariant holds when the threads start.                             *)
LEMMA PackageInitInv == PackageInit => PackageInv
<1> SUFFICES ASSUME PackageInit PROVE PackageInv
  OBVIOUS
<1>1. /\ model \in {"TSO", "ARM"}
      /\ mem = [x \in PackageLoc |-> 0]
      /\ buf = [t \in PackageThread |-> << >>]
      /\ pc = [t \in PackageThread |-> IF t = Main THEN "join" ELSE "look"]
      /\ reg = [t \in PackageThread |-> [result |-> NULL]]
      /\ env = [created |-> 0]
  BY DEF PackageInit, Boot, PackageLoc, PackageThread
<1>2. PackageTypes
  BY <1>1, PackageFacts DEF PackageTypes, PackageLabel, MemOK, Weak
<1>3. PackageMutex
  BY <1>1 DEF PackageMutex, PackageHolds, Entries
<1>4. PackageTable
  BY <1>1, PackageFacts DEF PackageTable, PackageThread
<1>5. PackageBuckets
  <2>1. \A t \in Requester : Len(buf[t]) = 0 /\ pc[t] = "look"
    BY <1>1, PackageFacts DEF PackageThread
  <2> QED BY <1>1, <2>1, PackageFacts DEF PackageBuckets
<1> QED BY <1>2, <1>3, <1>4, <1>5 DEF PackageInv

(* Outside publish and unlock a thread reads the table that is in memory.  *)
LEMMA PackageLoads ==
  ASSUME PackageInv, NEW t \in Requester, pc[t] \notin {"publish", "unlock"}
  PROVE  Load(t, table) = mem[table] /\ mem[table] \in Nat
<1>1. /\ MemOK(PackageThread, PackageLoc, Nat) /\ t \in PackageThread /\ table \in PackageLoc
      /\ Entries(t) = {}
  BY PackageFacts DEF PackageInv, PackageTypes, PackageMutex, PackageThread
<1>2. Load(t, table) \in Nat /\ Load(t, table) = mem[table]
  BY <1>1, LoadEntries
<1> QED BY <1>2

(* A step that touches neither memory nor the buffers.                     *)
LEMMA PackageSilentStep ==
  ASSUME PackageInv, UNCHANGED <<rigid, env>>, Silent,
         NEW t \in PackageThread, NEW to \in PackageLabel, pc' = [pc EXCEPT ![t] = to],
         reg' \in [PackageThread -> [result : Nat]],
         \A u \in Requester : u # t => reg'[u] = reg[u],
         \/ /\ ~ PackageHolds(t)
            /\ to \in {"lock", "return", "done", "exit"}
            /\ to = "return" => mem[table] # NULL
            /\ to = "done" => reg'[t].result # NULL
         \/ /\ pc[t] = "recheck"
            /\ \/ to = "build" /\ env.created = 0
               \/ to = "unlock" /\ mem[table] # NULL
  PROVE  PackageInv'
<1>1. /\ MemOK(PackageThread, PackageLoc, Nat)'
      /\ mem' = mem /\ buf' = buf /\ env' = env /\ rigid' = rigid
      /\ \A u \in PackageThread : Entries(u)' = Entries(u)
  BY SilentEntries DEF PackageInv, PackageTypes, Silent
<1>2. /\ pc \in [PackageThread -> PackageLabel]
      /\ pc' \in [PackageThread -> PackageLabel]
      /\ pc'[t] = to /\ \A u \in PackageThread : u # t => pc'[u] = pc[u]
      /\ Requester \subseteq PackageThread
  BY DEF PackageInv, PackageTypes, PackageThread
<1>3. PackageTypes'
  BY <1>1, <1>2 DEF PackageInv, PackageTypes, Weak, rigid
<1>4. PackageMutex'
  BY <1>1, <1>2 DEF PackageInv, PackageMutex, PackageHolds
<1>5. PackageTable'
  BY <1>1, <1>2 DEF PackageInv, PackageTable, HasTable, PackageHolds
<1>6. (model = "TSO" => PackageBuckets)'
  BY <1>1, <1>2 DEF PackageInv, PackageBuckets, BucketsFirst, rigid
<1> QED BY <1>3, <1>4, <1>5, <1>6 DEF PackageInv

(* Who is between lock and unlock has the mutex.                           *)
LEMMA PackageMutexIsFree ==
  ASSUME PackageInv, mem[tblLock] = 0
  PROVE  \A u \in PackageThread : ~ PackageHolds(u)
  BY DEF PackageInv, PackageMutex

(* The looks at the table, without the mutex and with it.                  *)
LEMMA PackageLookStep ==
  ASSUME PackageInv, UNCHANGED rigid, NEW t \in Requester, PackageLook(t) \/ PackageRecheck(t)
  PROVE  PackageInv'
<1>1. /\ t \in PackageThread /\ UNCHANGED <<rigid, env>> /\ reg' = reg /\ Silent
      /\ reg' \in [PackageThread -> [result : Nat]]
      /\ pc[t] \in {"look", "recheck"}
  BY DEF PackageInv, PackageTypes, PackageThread, PackageLook, PackageRecheck, Local, Go, Keep
<1>2. Load(t, table) = mem[table]
  BY <1>1, PackageLoads
<1>3. CASE PackageLook(t)
  <2>1. /\ pc[t] = "look"
        /\ pc' = [pc EXCEPT ![t] = IF mem[table] = NULL THEN "lock" ELSE "return"]
    BY <1>2, <1>3 DEF PackageLook, Local, Go
  <2>2. ~ PackageHolds(t)
    BY <2>1 DEF PackageHolds
  <2>3. PICK to \in {"lock", "return"} :
          pc' = [pc EXCEPT ![t] = to] /\ (to = "return" => mem[table] # NULL)
    BY <2>1
  <2>4. to \in PackageLabel
    BY DEF PackageLabel
  <2> QED BY <1>1, <2>2, <2>3, <2>4, PackageSilentStep
<1>4. CASE PackageRecheck(t)
  <2>1. /\ pc[t] = "recheck"
        /\ pc' = [pc EXCEPT ![t] = IF mem[table] = NULL THEN "build" ELSE "unlock"]
    BY <1>2, <1>4 DEF PackageRecheck, Local, Go
  <2>2. mem[table] = NULL => env.created = 0
    <3>1. ~ \E u \in Requester : pc[u] \in {"publish", "unlock"}
      BY <1>1, <2>1 DEF PackageInv, PackageMutex, PackageHolds, PackageThread
    <3>2. env.created \in Nat
      BY DEF PackageInv, PackageTypes
    <3> QED BY <3>1, <3>2 DEF PackageInv, PackageTable
  <2>3. PICK to \in {"build", "unlock"} :
          /\ pc' = [pc EXCEPT ![t] = to]
          /\ \/ to = "build" /\ env.created = 0
             \/ to = "unlock" /\ mem[table] # NULL
    BY <2>1, <2>2
  <2>4. to \in PackageLabel
    BY DEF PackageLabel
  <2> QED BY <1>1, <2>1, <2>3, <2>4, PackageSilentStep
<1> QED BY <1>3, <1>4

(* The return with what was found.                                         *)
LEMMA PackageReturnStep ==
  ASSUME PackageInv, UNCHANGED rigid, NEW t \in Requester, PackageReturn(t)
  PROVE  PackageInv'
<1>1. /\ t \in PackageThread /\ UNCHANGED <<rigid, env>> /\ Silent
      /\ reg \in [PackageThread -> [result : Nat]]
      /\ pc[t] = "return" /\ pc' = [pc EXCEPT ![t] = "done"]
      /\ reg' = [reg EXCEPT ![t].result = Load(t, table)]
  BY DEF PackageInv, PackageTypes, PackageThread, PackageReturn, Read, Go
<1>2. Load(t, table) = mem[table] /\ mem[table] \in Nat
  BY <1>1, PackageLoads
<1>3. mem[table] # NULL
  <2>1. Entries(t) = {}
    BY <1>1 DEF PackageInv, PackageMutex
  <2> QED BY <1>1, <2>1 DEF PackageInv, PackageTable, HasTable
<1>4. /\ reg' \in [PackageThread -> [result : Nat]]
      /\ reg'[t].result = mem[table]
      /\ \A u \in PackageThread : u # t => reg'[u] = reg[u]
  BY <1>1, <1>2
<1>5. ~ PackageHolds(t) /\ "done" \in PackageLabel /\ Requester \subseteq PackageThread
  BY <1>1 DEF PackageHolds, PackageLabel, PackageThread
<1> QED BY <1>1, <1>3, <1>4, <1>5, PackageSilentStep

(* main's join preserves the invariant.                                    *)
LEMMA PackageJoinStep ==
  ASSUME PackageInv, UNCHANGED rigid,
         Await(Main, "join", Joinable(Requester), "exit") /\ Keep
  PROVE  PackageInv'
<1>1. /\ Main \in PackageThread /\ UNCHANGED <<rigid, env>> /\ Silent /\ reg' = reg
      /\ reg \in [PackageThread -> [result : Nat]]
      /\ pc[Main] = "join" /\ pc' = [pc EXCEPT ![Main] = "exit"]
  BY DEF PackageInv, PackageTypes, PackageThread, Await, Go, Keep
<1>2. ~ PackageHolds(Main) /\ "exit" \in PackageLabel
  BY <1>1 DEF PackageHolds, PackageLabel
<1> QED BY <1>1, <1>2, PackageSilentStep

(* Taking the mutex.                                                       *)
LEMMA PackageLockStep ==
  ASSUME PackageInv, UNCHANGED rigid, NEW t \in Requester, PackageLock(t)
  PROVE  PackageInv'
<1>1. /\ t \in PackageThread /\ pc \in [PackageThread -> PackageLabel]
      /\ reg' = reg /\ env' = env /\ rigid' = rigid
      /\ MemOK(PackageThread, PackageLoc, Nat) /\ tblLock \in PackageLoc /\ 1 \in Nat
      /\ mem \in [PackageLoc -> Nat]
      /\ pc[t] = "lock" /\ pc' = [pc EXCEPT ![t] = "recheck"]
      /\ mem[tblLock] = 0 /\ SetMem(tblLock, 1)
  BY PackageFacts DEF PackageInv, PackageTypes, PackageThread, PackageLock, MutexLock, Go, Keep,
     MemOK
<1>2. /\ MemOK(PackageThread, PackageLoc, Nat)'
      /\ mem' = [mem EXCEPT ![tblLock] = 1]
      /\ \A u \in PackageThread : Entries(u)' = Entries(u)
  BY <1>1, SetMemEntries
<1>3. /\ mem'[tblLock] = 1 /\ mem'[table] = mem[table]
      /\ \A n \in Requester : mem'[built(n)] = mem[built(n)]
  BY <1>1, <1>2, PackageFacts
<1>4. /\ pc' \in [PackageThread -> PackageLabel]
      /\ pc'[t] = "recheck" /\ \A u \in PackageThread : u # t => pc'[u] = pc[u]
      /\ Requester \subseteq PackageThread
  BY <1>1 DEF PackageLabel, PackageThread
<1>5. PackageTypes'
  BY <1>1, <1>2, <1>4 DEF PackageInv, PackageTypes, Weak, rigid
<1>6. PackageMutex'
  <2>1. \A u \in PackageThread : ~ PackageHolds(u)
    BY <1>1, PackageMutexIsFree
  <2> QED BY <1>1, <1>2, <1>3, <1>4, <2>1 DEF PackageInv, PackageMutex, PackageHolds
<1>7. PackageTable'
  BY <1>1, <1>2, <1>3, <1>4 DEF PackageInv, PackageTable, HasTable
<1>8. (model = "TSO" => PackageBuckets)'
  <2>1. buf' = buf
    BY <1>1 DEF SetMem, SC!SetMem
  <2>2. mem[table] \in Requester \cup {NULL}
    BY DEF PackageInv, PackageTable
  <2> QED BY <1>1, <1>3, <1>4, <2>1, <2>2 DEF PackageInv, PackageBuckets, BucketsFirst, rigid
<1> QED BY <1>5, <1>6, <1>7, <1>8 DEF PackageInv

(* Who leaves the mutex has drained its buffer: its table is there.        *)
LEMMA PackageUnlockStep ==
  ASSUME PackageInv, UNCHANGED rigid, NEW t \in Requester, PackageUnlock(t)
  PROVE  PackageInv'
<1>1. /\ t \in PackageThread /\ pc \in [PackageThread -> PackageLabel]
      /\ reg' = reg /\ env' = env /\ rigid' = rigid
      /\ MemOK(PackageThread, PackageLoc, Nat) /\ tblLock \in PackageLoc /\ 0 \in Nat
      /\ mem \in [PackageLoc -> Nat]
      /\ pc[t] = "unlock" /\ pc' = [pc EXCEPT ![t] = "return"]
      /\ Drained(t) /\ SetMem(tblLock, 0)
  BY PackageFacts DEF PackageInv, PackageTypes, PackageThread, PackageUnlock, MutexUnlock, Go,
     Keep, MemOK
<1>2. /\ MemOK(PackageThread, PackageLoc, Nat)'
      /\ mem' = [mem EXCEPT ![tblLock] = 0]
      /\ \A u \in PackageThread : Entries(u)' = Entries(u)
  BY <1>1, SetMemEntries
<1>3. Entries(t) = {} /\ mem[table] # NULL
  <2>1. Entries(t) = {}
    BY <1>1, DrainedEntries
  <2> QED BY <1>1, <2>1 DEF PackageInv, PackageTable, HasTable
<1>4. /\ mem'[table] = mem[table]
      /\ \A n \in Requester : mem'[built(n)] = mem[built(n)]
  BY <1>1, <1>2, PackageFacts
<1>5. /\ pc' \in [PackageThread -> PackageLabel]
      /\ pc'[t] = "return" /\ \A u \in PackageThread : u # t => pc'[u] = pc[u]
      /\ Requester \subseteq PackageThread
  BY <1>1 DEF PackageLabel, PackageThread
<1>6. PackageTypes'
  BY <1>1, <1>2, <1>5 DEF PackageInv, PackageTypes, Weak, rigid
<1>7. PackageMutex'
  <2>1. PackageHolds(t) /\ ~ PackageHolds(t)'
    BY <1>1, <1>5 DEF PackageHolds
  <2>2. \A u \in PackageThread : ~ PackageHolds(u)'
    BY <1>1, <1>5, <2>1 DEF PackageInv, PackageMutex, PackageHolds
  <2> QED BY <1>1, <1>2, <1>3, <1>5, <2>2 DEF PackageInv, PackageMutex
<1>8. PackageTable'
  BY <1>1, <1>2, <1>3, <1>4, <1>5 DEF PackageInv, PackageTable, HasTable
<1>9. (model = "TSO" => PackageBuckets)'
  <2>1. buf' = buf
    BY <1>1 DEF SetMem, SC!SetMem
  <2>2. mem[table] \in Requester \cup {NULL}
    BY DEF PackageInv, PackageTable
  <2> QED BY <1>1, <1>4, <1>5, <2>1, <2>2 DEF PackageInv, PackageBuckets, BucketsFirst, rigid
<1> QED BY <1>6, <1>7, <1>8, <1>9 DEF PackageInv

(* A store of a thread enters its buffer.                                  *)
LEMMA PackagePut ==
  ASSUME PackageInv, NEW t \in Requester, NEW x \in PackageLoc, NEW v \in Nat,
         Put(t, x, v, FALSE)
  PROVE  Adds(PackageThread, PackageLoc, Nat, t, x, v) /\ Appends(PackageThread, t, x, v, FALSE)
<1>1. /\ MemOK(PackageThread, PackageLoc, Nat) /\ Weak /\ t \in PackageThread
      /\ FALSE \in BOOLEAN
  BY DEF PackageInv, PackageTypes, PackageThread
<1>2. Adds(PackageThread, PackageLoc, Nat, t, x, v)
  BY <1>1, PutAdds, Zenon
<1>3. Appends(PackageThread, t, x, v, FALSE)
  BY <1>1, PutPosition, Zenon
<1> QED BY <1>2, <1>3

(* The constructor: the thread's buffer was empty.                         *)
LEMMA PackageConstruct ==
  ASSUME PackageInv, UNCHANGED rigid, NEW t \in Requester,
         Write(t, "build", built(t), 1, "publish"),
         env' = [env EXCEPT !.created = @ + 1], reg' = reg
  PROVE  PackageInv'
<1>1. /\ t \in PackageThread /\ pc \in [PackageThread -> PackageLabel] /\ rigid' = rigid
      /\ Requester \subseteq PackageThread
      /\ pc[t] = "build" /\ pc' = [pc EXCEPT ![t] = "publish"]
      /\ Put(t, built(t), 1, FALSE)
      /\ built(t) \in PackageLoc /\ 1 \in Nat
      /\ PackageHolds(t) /\ Entries(t) = {} /\ env.created = 0
      /\ env' = [created |-> 1]
      /\ MemOK(PackageThread, PackageLoc, Nat)
  <2>1. pc[t] = "build"
    BY DEF Write, Go
  <2>2. env.created = 0 /\ env \in [created : Nat]
    BY <2>1 DEF PackageInv, PackageTypes, PackageTable
  <2>3. env' = [created |-> 1]
    BY <2>2
  <2> QED BY <2>1, <2>2, <2>3, PackageFacts
          DEF PackageInv, PackageTypes, PackageMutex, PackageThread, PackageHolds, Write, Go
<1>2. /\ Adds(PackageThread, PackageLoc, Nat, t, built(t), 1)
      /\ Appends(PackageThread, t, built(t), 1, FALSE)
  BY <1>1, PackagePut
<1>3. /\ MemOK(PackageThread, PackageLoc, Nat)' /\ mem' = mem
      /\ \A u \in PackageThread : u # t => Entries(u)' = Entries(u)
  BY <1>2 DEF Adds
<1>4. PICK e : e.loc = built(t) /\ e.val = 1 /\ Entries(t)' = {e}
  BY <1>1, <1>2 DEF Adds
<1>5. /\ pc' \in [PackageThread -> PackageLabel]
      /\ pc'[t] = "publish" /\ \A u \in PackageThread : u # t => pc'[u] = pc[u]
  BY <1>1 DEF PackageLabel
<1>6. \A u \in PackageThread : u # t => ~ PackageHolds(u)
  BY <1>1 DEF PackageInv, PackageMutex
<1>7. PackageTypes'
  BY <1>1, <1>3, <1>5 DEF PackageInv, PackageTypes, Weak, rigid
<1>8. PackageMutex'
  <2>1. \A u \in PackageThread : u # t => ~ PackageHolds(u)'
    BY <1>5, <1>6 DEF PackageHolds
  <2> QED BY <1>1, <1>3, <1>4, <1>5, <2>1, PackageFacts DEF PackageInv, PackageMutex
<1>9. PackageTable'
  <2>1. env'.created = 1
    BY <1>1
  <2>2. \A u \in Requester : u # t => pc[u] \notin {"build", "publish", "unlock"}
    BY <1>1, <1>6 DEF PackageHolds
  <2> QED BY <1>1, <1>3, <1>5, <2>1, <2>2 DEF PackageInv, PackageTable, HasTable
<1>10. (model = "TSO" => PackageBuckets)'
  <2> SUFFICES ASSUME model = "TSO" PROVE PackageBuckets'
    BY <1>1 DEF rigid
  <2>1. Len(buf[t]) = 0
    <3>1. buf[t] \in Seq(Entry(PackageLoc, Nat))
      BY <1>1 DEF MemOK
    <3>2. DOMAIN buf[t] = 1..Len(buf[t]) /\ Len(buf[t]) \in Nat
      BY <3>1
    <3>3. ASSUME Len(buf[t]) # 0 PROVE FALSE
      <4>1. 1 \in DOMAIN buf[t]
        BY <3>2, <3>3
      <4>2. buf[t][1] \in Entries(t)
        BY <4>1 DEF Entries
      <4> QED BY <1>1, <4>2
    <3> QED BY <3>3
  <2>2. /\ \A u \in PackageThread : u # t => buf'[u] = buf[u]
        /\ Len(buf'[t]) = 1 /\ buf'[t][1].loc = built(t)
    BY <1>2, <2>1 DEF Appends
  <2>3. BucketsFirst(t, Len(buf[t]) + 1)'
    BY <2>2 DEF BucketsFirst
  <2>4. \A i \in 1..Len(buf'[t]) : buf'[t][i].loc # table
    BY <2>2, PackageFacts
  <2>5. \A u \in Requester : u # t => buf'[u] = buf[u] /\ pc'[u] = pc[u]
    BY <1>1, <1>5, <2>2
  <2>6. PackageBuckets
    BY DEF PackageInv
  <2> QED BY <1>3, <2>3, <2>4, <2>5, <2>6 DEF PackageBuckets, BucketsFirst
<1> QED BY <1>7, <1>8, <1>9, <1>10 DEF PackageInv

(* The pointer goes behind the buckets.                                    *)
LEMMA PackagePublish ==
  ASSUME PackageInv, UNCHANGED <<rigid, env, reg>>, NEW t \in Requester,
         Write(t, "publish", table, t, "unlock")
  PROVE  PackageInv'
<1>1. /\ t \in PackageThread /\ pc \in [PackageThread -> PackageLabel] /\ rigid' = rigid
      /\ env' = env /\ reg' = reg
      /\ Requester \subseteq PackageThread
      /\ pc[t] = "publish" /\ pc' = [pc EXCEPT ![t] = "unlock"]
      /\ Put(t, table, t, FALSE)
      /\ table \in PackageLoc /\ t \in Nat
      /\ PackageHolds(t)
      /\ MemOK(PackageThread, PackageLoc, Nat)
  BY PackageFacts DEF PackageInv, PackageTypes, PackageThread, PackageHolds, Write, Go
<1>2. /\ Adds(PackageThread, PackageLoc, Nat, t, table, t)
      /\ Appends(PackageThread, t, table, t, FALSE)
  BY <1>1, PackagePut
<1>3. /\ MemOK(PackageThread, PackageLoc, Nat)' /\ mem' = mem
      /\ \A u \in PackageThread : u # t => Entries(u)' = Entries(u)
  BY <1>2 DEF Adds
<1>4. PICK e : e.loc = table /\ e.val = t /\ Entries(t)' = Entries(t) \cup {e}
  BY <1>2 DEF Adds
<1>5. /\ pc' \in [PackageThread -> PackageLabel]
      /\ pc'[t] = "unlock" /\ \A u \in PackageThread : u # t => pc'[u] = pc[u]
  BY <1>1 DEF PackageLabel
<1>6. \A u \in PackageThread : u # t => ~ PackageHolds(u)
  BY <1>1 DEF PackageInv, PackageMutex
<1>7. PackageTypes'
  BY <1>1, <1>3, <1>5 DEF PackageInv, PackageTypes, Weak, rigid
<1>8. PackageMutex'
  <2>1. \A u \in PackageThread : u # t => ~ PackageHolds(u)'
    BY <1>5, <1>6 DEF PackageHolds
  <2> QED BY <1>1, <1>3, <1>4, <1>5, <2>1, PackageFacts DEF PackageInv, PackageMutex
<1>9. PackageTable'
  BY <1>1, <1>3, <1>4, <1>5 DEF PackageInv, PackageTable, HasTable
<1>10. (model = "TSO" => PackageBuckets)'
  <2> SUFFICES ASSUME model = "TSO" PROVE PackageBuckets'
    BY <1>1 DEF rigid
  <2>1. PackageBuckets /\ Len(buf[t]) \in Nat
    BY <1>1 DEF PackageInv, MemOK
  <2>2. /\ \A u \in PackageThread : u # t => buf'[u] = buf[u]
        /\ Len(buf'[t]) = Len(buf[t]) + 1
        /\ \A j \in 1..Len(buf[t]) : buf'[t][j] = buf[t][j]
    BY <1>2 DEF Appends
  <2>3. ASSUME NEW i \in 1..(Len(buf[t]) + 1), BucketsFirst(t, i) PROVE BucketsFirst(t, i)'
    <3>1. CASE mem[built(t)] = 1
      BY <1>3, <3>1 DEF BucketsFirst
    <3>2. CASE \E j \in 1..(i - 1) : buf[t][j].loc = built(t)
      <4>1. PICK j \in 1..(i - 1) : buf[t][j].loc = built(t)
        BY <3>2
      <4>2. j \in 1..Len(buf[t])
        BY <2>1
      <4>3. buf'[t][j].loc = built(t)
        BY <2>2, <4>1, <4>2
      <4> QED BY <4>3 DEF BucketsFirst
    <3> QED BY <2>3, <3>1, <3>2 DEF BucketsFirst
  <2>4. ASSUME NEW i \in 1..Len(buf'[t]), buf'[t][i].loc = table PROVE BucketsFirst(t, i)'
    <3>1. i \in 1..(Len(buf[t]) + 1)
      BY <2>2
    <3>2. BucketsFirst(t, i)
      <4>1. CASE i \in 1..Len(buf[t])
        BY <2>1, <2>2, <2>4, <4>1 DEF PackageBuckets
      <4>2. CASE i = Len(buf[t]) + 1
        BY <1>1, <2>1, <4>2 DEF PackageBuckets
      <4> QED BY <2>1, <3>1, <4>1, <4>2
    <3> QED BY <2>3, <3>1, <3>2
  <2>5. \A u \in Requester : u # t => buf'[u] = buf[u] /\ pc'[u] = pc[u]
    BY <1>1, <1>5, <2>2
  <2>6. (\A i \in 1..Len(buf[t]) : buf[t][i].loc = table => BucketsFirst(t, i))'
    BY <2>4
  <2>7. ASSUME NEW u \in Requester
        PROVE  /\ pc'[u] = "publish" => BucketsFirst(u, Len(buf[u]) + 1)'
               /\ (\A i \in 1..Len(buf[u]) : buf[u][i].loc = table => BucketsFirst(u, i))'
    <3>1. CASE u = t
      BY <1>5, <2>6, <3>1
    <3>2. CASE u # t
      BY <1>3, <2>1, <2>5, <3>2 DEF PackageBuckets, BucketsFirst
    <3> QED BY <3>1, <3>2
  <2>8. mem'[table] # NULL => mem'[built(mem'[table])] = 1
    BY <1>3, <2>1 DEF PackageBuckets
  <2> QED BY <2>7, <2>8 DEF PackageBuckets
<1> QED BY <1>7, <1>8, <1>9, <1>10 DEF PackageInv

(* What becomes visible is buckets, or the pointer to a table; on TSO the  *)
(* first entry, so that the buckets of this table are visible then.        *)
LEMMA PackageFlushStep ==
  ASSUME PackageInv, NEW t \in PackageThread, NEW x \in DOMAIN mem, Commit(t, x),
         UNCHANGED <<rigid, pc, reg, env>>
  PROVE  PackageInv'
<1>1. /\ mem \in [PackageLoc -> Nat] /\ x \in PackageLoc /\ Weak
      /\ MemOK(PackageThread, PackageLoc, Nat)
      /\ rigid' = rigid /\ pc' = pc /\ reg' = reg /\ env' = env
      /\ Requester \subseteq PackageThread
  BY DEF PackageInv, PackageTypes, MemOK, PackageThread
<1>2. /\ MemOK(PackageThread, PackageLoc, Nat)'
      /\ \A u \in PackageThread : u # t => Entries(u)' = Entries(u)
      /\ Entries(t)' \subseteq Entries(t)
      /\ \E e \in Entries(t) :
           /\ e.loc = x
           /\ mem' = [mem EXCEPT ![x] = e.val]
           /\ \A f \in Entries(t) : f # e => f \in Entries(t)'
  BY <1>1, CommitEntries
<1>3. PICK e \in Entries(t) : /\ e.loc = x
                              /\ mem' = [mem EXCEPT ![x] = e.val]
                              /\ \A f \in Entries(t) : f # e => f \in Entries(t)'
  BY <1>2
<1>4. /\ pc[t] \in {"publish", "unlock"} /\ t \in Requester
      /\ \/ x = built(t) /\ e.val = 1
         \/ x = table /\ e.val = t
  BY <1>3 DEF PackageInv, PackageMutex, PackageHolds
<1>5. t \in Nat /\ t # NULL /\ built(t) # table /\ built(t) # tblLock /\ table # tblLock
      /\ built(t) \in PackageLoc /\ table \in PackageLoc /\ tblLock \in PackageLoc
  BY <1>4, PackageFacts
<1>6. /\ mem'[tblLock] = mem[tblLock]
      /\ x = table => mem'[table] = t /\ \A n \in Requester : mem'[built(n)] = mem[built(n)]
      /\ x = built(t) => /\ mem'[table] = mem[table] /\ mem'[built(t)] = 1
                         /\ \A n \in Requester : n # t => mem'[built(n)] = mem[built(n)]
  BY <1>1, <1>3, <1>4, <1>5, PackageFacts
<1>7. PackageTypes'
  BY <1>1, <1>2 DEF PackageInv, PackageTypes, Weak, rigid
<1>8. PackageMutex'
  BY <1>1, <1>2, <1>6 DEF PackageInv, PackageMutex, PackageHolds
<1>9. PackageTable'
  <2>1. mem'[table] \in Requester \cup {NULL} /\ (mem[table] # NULL => mem'[table] # NULL)
    BY <1>4, <1>5, <1>6 DEF PackageInv, PackageTable
  <2>2. \A u \in Requester : HasTable(u) => HasTable(u)'
    <3> SUFFICES ASSUME NEW u \in Requester, HasTable(u) PROVE HasTable(u)'
      OBVIOUS
    <3>1. CASE mem[table] # NULL
      BY <2>1, <3>1 DEF HasTable
    <3>2. CASE \E f \in Entries(u) : f.loc = table
      <4>1. CASE x = table
        BY <1>5, <1>6, <4>1 DEF HasTable
      <4>2. CASE x # table
        <5>1. PICK f \in Entries(u) : f.loc = table
          BY <3>2
        <5>2. f \in Entries(u)'
          BY <1>1, <1>2, <1>3, <4>2, <5>1
        <5> QED BY <5>1, <5>2 DEF HasTable
      <4> QED BY <4>1, <4>2
    <3> QED BY <3>1, <3>2 DEF HasTable
  <2> QED BY <1>1, <2>1, <2>2 DEF PackageInv, PackageTable
<1>10. (model = "TSO" => PackageBuckets)'
  <2> SUFFICES ASSUME model = "TSO" PROVE PackageBuckets'
    BY <1>1 DEF rigid
  <2>1. PackageBuckets /\ mem[table] \in Requester \cup {NULL}
    BY DEF PackageInv, PackageTable
  <2>2. /\ \A u \in PackageThread : u # t => buf'[u] = buf[u]
        /\ \E i \in 1..Len(buf[t]) :
             /\ buf[t][i].loc = x
             /\ model = "TSO" \/ buf[t][i].rel => i = 1
             /\ \A j \in 1..(i - 1) : buf[t][j].loc # x
             /\ mem' = [mem EXCEPT ![x] = buf[t][i].val]
             /\ Len(buf'[t]) = Len(buf[t]) - 1
             /\ \A j \in 1..(Len(buf[t]) - 1) :
                  buf'[t][j] = IF j < i THEN buf[t][j] ELSE buf[t][j + 1]
    <3>1. Commits(PackageThread, t, x)
      BY <1>1, CommitPosition, Zenon
    <3> QED BY <3>1, Zenon DEF Commits
  <2>3. 1 \in 1..Len(buf[t]) /\ buf[t][1].loc = x
    BY <2>2
  <2>4. mem'[built(t)] = 1
    <3>1. CASE x = table
      <4>1. BucketsFirst(t, 1)
        BY <1>4, <2>1, <2>3, <3>1 DEF PackageBuckets
      <4> QED BY <1>4, <1>6, <3>1, <4>1 DEF BucketsFirst
    <3> QED BY <1>4, <1>6, <3>1
  <2>5. \A i : BucketsFirst(t, i)'
    BY <2>4 DEF BucketsFirst
  <2>6. \A u \in Requester : u # t => buf'[u] = buf[u] /\ mem'[built(u)] = mem[built(u)]
    BY <1>1, <1>4, <1>6, <2>2
  <2>7. mem'[table] # NULL => mem'[built(mem'[table])] = 1
    BY <1>4, <1>6, <2>1, <2>4, <2>6 DEF PackageBuckets
  <2>8. ASSUME NEW u \in Requester
        PROVE  /\ pc'[u] = "publish" => BucketsFirst(u, Len(buf[u]) + 1)'
               /\ (\A i \in 1..Len(buf[u]) : buf[u][i].loc = table => BucketsFirst(u, i))'
    <3>1. CASE u = t
      BY <2>5, <3>1
    <3>2. CASE u # t
      BY <1>1, <2>1, <2>6, <3>2 DEF PackageBuckets, BucketsFirst
    <3> QED BY <3>1, <3>2
  <2> QED BY <2>7, <2>8 DEF PackageBuckets
<1> QED BY <1>7, <1>8, <1>9, <1>10 DEF PackageInv

(* A stuttering step preserves the invariant.                              *)
LEMMA PackageStutter == PackageInv /\ UNCHANGED vars => PackageInv'
<1> SUFFICES ASSUME PackageInv, UNCHANGED vars PROVE PackageInv'
  OBVIOUS
<1>1. /\ mem' = mem /\ buf' = buf /\ pc' = pc /\ reg' = reg /\ env' = env /\ model' = model
      /\ \A u \in PackageThread : Entries(u)' = Entries(u)
  BY DEF vars, Entries
<1>2. PackageTypes'
  BY <1>1 DEF PackageInv, PackageTypes, MemOK, Weak
<1>3. PackageMutex'
  BY <1>1 DEF PackageInv, PackageMutex, PackageHolds
<1>4. PackageTable'
  BY <1>1 DEF PackageInv, PackageTable, HasTable, PackageThread
<1>5. (model = "TSO" => PackageBuckets)'
  BY <1>1 DEF PackageInv, PackageBuckets, BucketsFirst
<1> QED BY <1>2, <1>3, <1>4, <1>5 DEF PackageInv

-----------------------------------------------------------------------------
(* 9, 10, 20, 28 and 32.                                                   *)

MpLoc   == {"data", "flag"}
MpLabel == {"start", "flag", "done", "join", "exit"}

(* The writer's stores stay in order, as on SC and TSO, or in 20.          *)
MpOrdered == model # "ARM" \/ program = "barrier"

MpTypes ==
  /\ MpOrdered /\ model \in {"SC", "TSO", "ARM"}
  /\ MemOK(Duo, MpLoc, Int)
  /\ pc \in [Duo -> MpLabel]
  /\ reg \in [Duo -> [f : Int, d : Int]]
  /\ env \in [round : Int, dataFirst : BOOLEAN]

(* The data is in memory, or ahead of place i of the writer's buffer.      *)
DataFirst(i) == mem["data"] = 1 \/ \E j \in 1..(i - 1) : buf[A][j].loc = "data"

MpEntry(i) ==
  /\ buf[A][i].loc = "data" => buf[A][i].val = 1
  /\ buf[A][i].loc = "flag" => /\ DataFirst(i)
                               /\ program = "barrier" => buf[A][i].rel

MpStores ==
  /\ \A t \in Duo : model = "SC" \/ t # A => buf[t] = << >>
  /\ \A i \in 1..Len(buf[A]) : MpEntry(i)
  /\ pc[A] = "flag" => DataFirst(Len(buf[A]) + 1)
  /\ mem["flag"] # 0 => mem["data"] = 1

(* Who has the flag finds the data in memory.                              *)
MpLoads ==
  /\ reg[B].f = 1 => mem["data"] = 1
  /\ reg[B].f = 1 /\ reg[B].d # Unread /\ ~ env.dataFirst => reg[B].d = 1
  /\ reg[B].f = Unread /\ reg[B].d # Unread => env.dataFirst
  /\ env.dataFirst => model = "ARM"

MpInv == MpTypes /\ MpStores /\ MpLoads

(* The invariant holds when the threads start.                             *)
LEMMA MpInitInv == MpInit /\ MpOrdered => MpInv
<1> SUFFICES ASSUME MpInit, MpOrdered PROVE MpInv
  OBVIOUS
<1>1. /\ mem = [x \in MpLoc |-> 0]
      /\ buf = [t \in Duo |-> << >>]
      /\ pc = [t \in Duo |-> IF t = Main THEN "join" ELSE "start"]
      /\ reg = [t \in Duo |-> [f |-> Unread, d |-> Unread]]
      /\ env = [round |-> 1, dataFirst |-> FALSE]
      /\ model \in {"SC", "TSO", "ARM"}
  BY DEF MpInit, Boot, MpLoc
<1>2. env.dataFirst = FALSE /\ env \in [round : Int, dataFirst : BOOLEAN]
  BY <1>1
<1>3. MpTypes
  BY <1>1, <1>2, DuoFacts DEF MpTypes, MemOK, Unread, MpLabel
<1>4. Len(buf[A]) = 0 /\ mem["flag"] = 0 /\ pc[A] = "start"
  BY <1>1, DuoFacts DEF MpLoc
<1>5. MpStores
  BY <1>1, <1>4, DuoFacts DEF MpStores
<1>6. MpLoads
  BY <1>1, <1>2, DuoFacts DEF MpLoads, Unread
<1> QED BY <1>3, <1>5, <1>6 DEF MpInv

(* A step that leaves memory, the buffers and the writer alone.            *)
LEMMA MpSilentStep ==
  ASSUME MpInv, UNCHANGED rigid, Silent,
         pc' \in [Duo -> MpLabel], pc'[A] = pc[A],
         reg' \in [Duo -> [f : Int, d : Int]],
         env' \in [round : Int, dataFirst : BOOLEAN],
         MpLoads'
  PROVE  MpInv'
<1>1. MpTypes'
  BY DEF MpInv, MpTypes, MpOrdered, MemOK, Silent, rigid
<1>2. MpStores'
  BY DEF MpInv, MpStores, MpEntry, DataFirst, Silent, rigid
<1> QED BY <1>1, <1>2 DEF MpInv

(* Every statement of the reader preserves the invariant.                  *)
LEMMA MpReaderStep ==
  ASSUME MpInv, UNCHANGED rigid, MpReader
  PROVE  MpInv'
<1>1. /\ MemOK(Duo, MpLoc, Int) /\ B \in Duo /\ Entries(B) = {}
      /\ "data" \in MpLoc /\ "flag" \in MpLoc
      /\ reg \in [Duo -> [f : Int, d : Int]] /\ pc \in [Duo -> MpLabel]
      /\ env \in [round : Int, dataFirst : BOOLEAN]
      /\ rigid' = rigid
  BY DuoFacts DEF MpInv, MpTypes, MpStores, Entries, MpLoc
<1>2. CASE /\ reg[B].f = Unread
           /\ Read(B, "start", "f", "flag", "start")
           /\ UNCHANGED env
  <2>1. Load(B, "flag") = mem["flag"] /\ mem["flag"] \in Int
    BY <1>1, LoadEntries
  <2>2. /\ reg' = [reg EXCEPT ![B].f = mem["flag"]] /\ Silent /\ env' = env
        /\ pc' \in [Duo -> MpLabel] /\ pc'[A] = pc[A]
    BY <1>1, <1>2, <2>1, DuoFacts DEF Read, Go, MpLabel
  <2>3. /\ reg' \in [Duo -> [f : Int, d : Int]]
        /\ reg'[B].f = mem["flag"] /\ reg'[B].d = reg[B].d
    BY <1>1, <2>1, <2>2
  <2>4. MpLoads'
    <3>1. mem' = mem /\ model' = model /\ env' = env
      BY <1>1, <2>2 DEF Silent, rigid
    <3>2. reg[B].d # Unread => env.dataFirst
      BY <1>2 DEF MpInv, MpLoads
    <3>3. mem["flag"] = 1 => mem["data"] = 1
      BY DEF MpInv, MpStores
    <3> QED BY <2>3, <3>1, <3>2, <3>3 DEF MpInv, MpLoads
  <2> QED BY <1>1, <2>2, <2>3, <2>4, MpSilentStep
<1>3. CASE /\ reg[B].d = Unread
           /\ LoadsReorder \/ reg[B].f # Unread
           /\ Read(B, "start", "d", "data", "start")
           /\ env' = [env EXCEPT !.dataFirst = reg[B].f = Unread]
  <2>1. Load(B, "data") = mem["data"] /\ mem["data"] \in Int
    BY <1>1, LoadEntries
  <2>2. /\ reg' = [reg EXCEPT ![B].d = mem["data"]] /\ Silent
        /\ pc' \in [Duo -> MpLabel] /\ pc'[A] = pc[A]
    BY <1>1, <1>3, <2>1, DuoFacts DEF Read, Go, MpLabel
  <2>3. /\ reg' \in [Duo -> [f : Int, d : Int]]
        /\ reg'[B].d = mem["data"] /\ reg'[B].f = reg[B].f
    BY <1>1, <2>1, <2>2
  <2>4. env' \in [round : Int, dataFirst : BOOLEAN] /\ env'.dataFirst = (reg[B].f = Unread)
    <3> DEFINE first == reg[B].f = Unread
    <3>1. first \in BOOLEAN /\ env' = [env EXCEPT !.dataFirst = first]
      BY <1>3
    <3> HIDE DEF first
    <3>2. env' \in [round : Int, dataFirst : BOOLEAN] /\ env'.dataFirst = first
      BY <1>1, <3>1
    <3> QED BY <3>2 DEF first
  <2>5. MpLoads'
    <3>1. mem' = mem /\ model' = model
      BY <1>1, <2>2 DEF Silent, rigid
    <3>2. reg[B].f = Unread => model = "ARM"
      BY <1>3 DEF LoadsReorder
    <3>3. reg[B].f = 1 => mem["data"] = 1
      BY DEF MpInv, MpLoads
    <3> QED BY <2>3, <2>4, <3>1, <3>2, <3>3 DEF MpLoads
  <2> QED BY <1>1, <2>2, <2>3, <2>4, <2>5, MpSilentStep
<1>4. CASE reg[B].f # Unread /\ reg[B].d # Unread /\ Local(B, "start", "done") /\ Keep
  <2>1. /\ reg' = reg /\ env' = env /\ Silent
        /\ pc' \in [Duo -> MpLabel] /\ pc'[A] = pc[A]
    BY <1>1, <1>4, DuoFacts DEF Local, Go, Keep, MpLabel
  <2>2. MpLoads'
    BY <1>1, <2>1 DEF MpInv, MpLoads, Silent, rigid
  <2> QED BY <1>1, <2>1, <2>2, MpSilentStep
<1> QED BY <1>2, <1>3, <1>4 DEF MpReader

(* A store of the writer enters its buffer.                                *)
LEMMA MpPut ==
  ASSUME MemOK(Duo, MpLoc, Int), Weak,
         NEW x \in MpLoc, NEW v \in Int, NEW rel \in BOOLEAN, Put(A, x, v, rel)
  PROVE  Adds(Duo, MpLoc, Int, A, x, v) /\ Appends(Duo, A, x, v, rel)
<1>1. A \in Duo
  BY DuoFacts
<1>2. Adds(Duo, MpLoc, Int, A, x, v)
  BY <1>1, PutAdds, Zenon
<1>3. Appends(Duo, A, x, v, rel)
  BY <1>1, PutPosition, Zenon
<1> QED BY <1>2, <1>3

(* The data goes ahead of the flag.                                        *)
LEMMA MpStore ==
  ASSUME MpInv, UNCHANGED <<rigid, reg, env>>,
         NEW x \in MpLoc, NEW v \in Int, NEW rel \in BOOLEAN, Put(A, x, v, rel),
         NEW to \in MpLabel, pc' = [pc EXCEPT ![A] = to],
         \/ x = "data" /\ v = 1 /\ to = "flag"
         \/ x = "flag" /\ pc[A] = "flag" /\ to = "done" /\ (program = "barrier" => rel)
  PROVE  MpInv'
<1>1. /\ MemOK(Duo, MpLoc, Int) /\ A \in Duo /\ mem \in [MpLoc -> Int]
      /\ buf[A] \in Seq(Entry(MpLoc, Int)) /\ Len(buf[A]) \in Nat
      /\ pc \in [Duo -> MpLabel] /\ "data" \in MpLoc /\ "flag" \in MpLoc
      /\ rigid' = rigid /\ reg' = reg /\ env' = env
  BY DuoFacts DEF MpInv, MpTypes, MemOK, MpLoc
<1>2. pc' \in [Duo -> MpLabel] /\ pc'[A] = to
  BY <1>1
<1>3. CASE model = "SC"
  <2>1. MemOK(Duo, MpLoc, Int)' /\ mem' = [mem EXCEPT ![x] = v] /\ buf' = buf
    BY <1>1, <1>3, PutInMemory
  <2>2. Len(buf[A]) = 0 /\ Len(buf'[A]) = 0
    BY <1>1, <1>3, <2>1 DEF MpInv, MpStores
  <2>3. x = "flag" => mem["data"] = 1
    BY <2>2 DEF MpInv, MpStores, DataFirst
  <2>4. mem'["data"] = 1
    BY <1>1, <2>1, <2>3
  <2>5. MpTypes'
    BY <1>1, <1>2, <2>1 DEF MpInv, MpTypes, MpOrdered, rigid
  <2>6. MpStores'
    <3>1. \A i \in 1..Len(buf'[A]) : MpEntry(i)'
      BY <2>2
    <3> QED BY <1>1, <2>1, <2>4, <3>1 DEF MpInv, MpStores, DataFirst, rigid
  <2>7. MpLoads'
    BY <1>1, <2>4 DEF MpInv, MpLoads, rigid
  <2> QED BY <2>5, <2>6, <2>7 DEF MpInv
<1>4. CASE model # "SC"
  <2>1. Weak
    BY <1>4 DEF MpInv, MpTypes, Weak
  <2>2. /\ Adds(Duo, MpLoc, Int, A, x, v)
        /\ Appends(Duo, A, x, v, rel)
    BY <1>1, <2>1, MpPut
  <2>3. MemOK(Duo, MpLoc, Int)' /\ mem' = mem
    BY <2>2 DEF Adds
  <2>4. /\ \A u \in Duo : u # A => buf'[u] = buf[u]
        /\ Len(buf'[A]) = Len(buf[A]) + 1
        /\ \A j \in 1..Len(buf[A]) : buf'[A][j] = buf[A][j]
        /\ buf'[A][Len(buf[A]) + 1].loc = x
        /\ buf'[A][Len(buf[A]) + 1].val = v
        /\ rel => buf'[A][Len(buf[A]) + 1].rel
    BY <2>2 DEF Appends
  <2>5. ASSUME NEW i \in 1..(Len(buf[A]) + 1), DataFirst(i) PROVE DataFirst(i)'
    <3>1. CASE mem["data"] = 1
      BY <2>3, <3>1 DEF DataFirst
    <3>2. CASE \E j \in 1..(i - 1) : buf[A][j].loc = "data"
      <4>1. PICK j \in 1..(i - 1) : buf[A][j].loc = "data"
        BY <3>2
      <4>2. j \in 1..Len(buf[A])
        BY <1>1
      <4>3. buf'[A][j].loc = "data"
        BY <2>4, <4>1, <4>2
      <4> QED BY <4>3 DEF DataFirst
    <3> QED BY <2>5, <3>1, <3>2 DEF DataFirst
  <2>6. MpTypes'
    BY <1>1, <1>2, <2>3 DEF MpInv, MpTypes, MpOrdered, rigid
  <2>7. MpStores'
    <3>1. \A t \in Duo : t # A => buf'[t] = << >>
      BY <2>4 DEF MpInv, MpStores
    <3>2. ASSUME NEW i \in 1..Len(buf'[A]) PROVE MpEntry(i)'
      <4>1. CASE i \in 1..Len(buf[A])
        <5>1. MpEntry(i) /\ i \in 1..(Len(buf[A]) + 1)
          BY <1>1, <4>1 DEF MpInv, MpStores
        <5> QED BY <1>1, <2>4, <2>5, <4>1, <5>1 DEF MpEntry, rigid
      <4>2. CASE i = Len(buf[A]) + 1
        <5>1. x = "flag" => DataFirst(i) /\ i \in 1..(Len(buf[A]) + 1)
          BY <1>1, <4>2 DEF MpInv, MpStores
        <5> QED BY <1>1, <2>4, <2>5, <4>2, <5>1 DEF MpEntry, rigid
      <4>3. i \in 1..Len(buf[A]) \/ i = Len(buf[A]) + 1
        BY <1>1, <2>4
      <4> QED BY <4>1, <4>2, <4>3
    <3>3. (pc[A] = "flag" => DataFirst(Len(buf[A]) + 1))'
      <4>1. CASE x = "data"
        <5>1. Len(buf[A]) + 1 \in 1..(Len(buf'[A]) + 1 - 1)
          BY <1>1, <2>4
        <5> QED BY <2>4, <4>1, <5>1 DEF DataFirst
      <4>2. CASE x # "data"
        BY <1>2, <4>2
      <4> QED BY <4>1, <4>2
    <3>4. mem'["flag"] # 0 => mem'["data"] = 1
      BY <2>3 DEF MpInv, MpStores
    <3>5. \A t \in Duo : model' = "SC" \/ t # A => buf'[t] = << >>
      BY <1>1, <1>4, <3>1 DEF rigid
    <3> QED BY <3>2, <3>3, <3>4, <3>5 DEF MpStores
  <2>8. MpLoads'
    BY <1>1, <2>3 DEF MpInv, MpLoads, rigid
  <2> QED BY <2>6, <2>7, <2>8 DEF MpInv
<1> QED BY <1>3, <1>4

(* Every statement of the writer preserves the invariant.                  *)
LEMMA MpWriterStep ==
  ASSUME MpInv, UNCHANGED rigid, MpWriter
  PROVE  MpInv'
<1>1. /\ "data" \in MpLoc /\ "flag" \in MpLoc /\ "flag" \in MpLabel /\ "done" \in MpLabel
      /\ 1 \in Int /\ FALSE \in BOOLEAN /\ TRUE \in BOOLEAN
      /\ MemOK(Duo, MpLoc, Int) /\ A \in Duo
  BY DuoFacts DEF MpInv, MpTypes, MpLoc, MpLabel
<1>2. Load(A, "flag") + 1 \in Int
  <2>1. Load(A, "flag") \in Int
    BY <1>1, LoadEntries
  <2> QED BY <2>1
<1>3. CASE Write(A, "start", "data", 1, "flag") /\ Keep
  <2>1. /\ Put(A, "data", 1, FALSE) /\ pc' = [pc EXCEPT ![A] = "flag"]
        /\ UNCHANGED <<rigid, reg, env>>
    BY <1>3 DEF Write, Go, Keep
  <2> QED BY <1>1, <2>1, MpStore
<1>4. CASE /\ IF program = "barrier" THEN WriteRel(A, "flag", "flag", 1, "done")
              ELSE Write(A, "flag", "flag", Load(A, "flag") + 1, "done")
           /\ Keep
  <2>1. /\ pc[A] = "flag" /\ pc' = [pc EXCEPT ![A] = "done"]
        /\ UNCHANGED <<rigid, reg, env>>
    BY <1>4 DEF WriteRel, Write, Go, Keep
  <2>2. PICK v \in Int, rel \in BOOLEAN :
          Put(A, "flag", v, rel) /\ (program = "barrier" => rel)
    BY <1>1, <1>2, <1>4 DEF WriteRel, Write
  <2> QED BY <1>1, <2>1, <2>2, MpStore
<1> QED BY <1>3, <1>4 DEF MpWriter

(* The next round of 28 begins as the first, with the buffers drained.     *)
LEMMA MpMainStep ==
  ASSUME MpInv, UNCHANGED rigid, MpMain
  PROVE  MpInv'
<1>1. /\ MemOK(Duo, MpLoc, Int) /\ pc \in [Duo -> MpLabel] /\ rigid' = rigid
      /\ reg \in [Duo -> [f : Int, d : Int]]
      /\ env \in [round : Int, dataFirst : BOOLEAN]
  BY DEF MpInv, MpTypes
<1>2. CASE program = "pso" /\ ~ MpDetected /\ env.round < Rounds
  <2>1. /\ buf[A] = << >>
        /\ pc' = [pc EXCEPT ![A] = "start", ![B] = "start"]
        /\ mem' = [x \in MpLoc |-> 0]
        /\ reg' = [reg EXCEPT ![B] = [f |-> Unread, d |-> Unread]]
        /\ env' = [round |-> env.round + 1, dataFirst |-> FALSE]
        /\ buf' = buf
    BY <1>2 DEF MpMain, Joinable, Drained, SC!Drained, MpLoc
  <2>2. env' \in [round : Int, dataFirst : BOOLEAN] /\ env'.dataFirst = FALSE
    BY <1>1, <2>1
  <2>3. MpTypes'
    <3>1. MemOK(Duo, MpLoc, Int)'
      BY <1>1, <2>1 DEF MemOK
    <3>2. [f |-> Unread, d |-> Unread] \in [f : Int, d : Int]
      BY DEF Unread
    <3>3. reg' \in [Duo -> [f : Int, d : Int]] /\ pc' \in [Duo -> MpLabel]
      <4> DEFINE r == [f |-> Unread, d |-> Unread]
      <4>1. r \in [f : Int, d : Int] /\ reg' = [reg EXCEPT ![B] = r]
        BY <2>1, <3>2
      <4> HIDE DEF r
      <4>2. reg' \in [Duo -> [f : Int, d : Int]]
        BY <1>1, <4>1
      <4>3. pc' \in [Duo -> MpLabel]
        BY <1>1, <2>1 DEF MpLabel
      <4> QED BY <4>2, <4>3
    <3> QED BY <1>1, <2>2, <3>1, <3>3 DEF MpInv, MpTypes, MpOrdered, rigid
  <2>4. MpStores'
    <3>1. Len(buf'[A]) = 0 /\ mem'["flag"] = 0 /\ pc'[A] = "start"
      BY <1>1, <2>1, DuoFacts DEF MpLoc
    <3> QED BY <1>1, <2>1, <3>1 DEF MpInv, MpStores, rigid
  <2>5. MpLoads'
    <3>1. reg'[B].f = Unread /\ reg'[B].d = Unread
      BY <1>1, <2>1, DuoFacts
    <3> QED BY <2>2, <3>1 DEF MpLoads, Unread
  <2> QED BY <2>3, <2>4, <2>5 DEF MpInv
<1>3. CASE ~ (program = "pso" /\ ~ MpDetected /\ env.round < Rounds)
  <2>1. JoinBoth
    BY <1>3 DEF MpMain
  <2>2. /\ reg' = reg /\ env' = env /\ Silent
        /\ pc' \in [Duo -> MpLabel] /\ pc'[A] = pc[A]
    BY <1>1, <2>1, DuoFacts DEF JoinBoth, Await, Go, Keep, MpLabel
  <2>3. MpLoads'
    BY <1>1, <2>2 DEF MpInv, MpLoads, Silent, rigid
  <2> QED BY <1>1, <2>2, <2>3, MpSilentStep
<1> QED BY <1>2, <1>3

(* Whatever becomes visible, the data is in memory then: it is the data,   *)
(* or a flag that could leave the buffer no earlier.                       *)
LEMMA MpFlushStep ==
  ASSUME MpInv, NEW t \in Duo, NEW x \in DOMAIN mem, Commit(t, x),
         UNCHANGED <<rigid, pc, reg, env>>
  PROVE  MpInv'
<1>1. /\ mem \in [MpLoc -> Int] /\ x \in MpLoc /\ MemOK(Duo, MpLoc, Int)
      /\ rigid' = rigid /\ pc' = pc /\ reg' = reg /\ env' = env
      /\ "data" \in MpLoc /\ "flag" \in MpLoc
  BY DEF MpInv, MpTypes, MemOK, MpLoc
<1>2. model # "SC" /\ t = A
  <2> SUFFICES ASSUME model = "SC" \/ t # A PROVE FALSE
    OBVIOUS
  <2>1. buf[t] = << >>
    BY DEF MpInv, MpStores
  <2>2. SC!Pending(t, x) = {} /\ TSO!Pending(t, x) = {} /\ ARM!Pending(t, x) = {}
    BY <2>1 DEF SC!Pending, TSO!Pending, ARM!Pending
  <2>3. model \in {"SC", "TSO", "ARM"}
    BY DEF MpInv, MpTypes
  <2> QED BY <2>2, <2>3 DEF Commit, SC!Commit, TSO!Commit, ARM!Commit
<1>3. Weak /\ A \in Duo
  BY <1>2, DuoFacts DEF MpInv, MpTypes, Weak
<1>4. MemOK(Duo, MpLoc, Int)'
  BY <1>1, <1>3, CommitEntries
<1>5. /\ \A u \in Duo : u # A => buf'[u] = buf[u]
      /\ \E i \in 1..Len(buf[A]) :
           /\ buf[A][i].loc = x
           /\ model = "TSO" \/ buf[A][i].rel => i = 1
           /\ \A j \in 1..(i - 1) : buf[A][j].loc # x
           /\ mem' = [mem EXCEPT ![x] = buf[A][i].val]
           /\ Len(buf'[A]) = Len(buf[A]) - 1
           /\ \A j \in 1..(Len(buf[A]) - 1) :
                buf'[A][j] = IF j < i THEN buf[A][j] ELSE buf[A][j + 1]
  <2>1. Commit(A, x)
    BY <1>2
  <2>2. Commits(Duo, A, x)
    BY <1>1, <1>3, <2>1, CommitPosition, Zenon
  <2> QED BY <2>2, Zenon DEF Commits
<1>6. PICK i \in 1..Len(buf[A]) :
        /\ buf[A][i].loc = x
        /\ model = "TSO" \/ buf[A][i].rel => i = 1
        /\ mem' = [mem EXCEPT ![x] = buf[A][i].val]
        /\ Len(buf'[A]) = Len(buf[A]) - 1
        /\ \A j \in 1..(Len(buf[A]) - 1) :
             buf'[A][j] = IF j < i THEN buf[A][j] ELSE buf[A][j + 1]
  BY <1>5
<1>7. MpEntry(i) /\ Len(buf[A]) \in Nat
  BY <1>1, <1>3 DEF MpInv, MpStores, MemOK
<1>8. mem'["data"] = 1
  <2>1. CASE x = "data"
    BY <1>1, <1>6, <1>7, <2>1 DEF MpEntry
  <2>2. CASE x = "flag"
    <3>1. DataFirst(i) /\ i = 1
      BY <1>3, <1>6, <1>7, <2>2 DEF MpEntry, MpInv, MpTypes, MpOrdered, Weak
    <3>2. mem["data"] = 1
      BY <3>1 DEF DataFirst
    <3> QED BY <1>1, <1>6, <2>2, <3>2
  <2> QED BY <1>1, <2>1, <2>2 DEF MpLoc
<1>9. MpTypes'
  BY <1>1, <1>4 DEF MpInv, MpTypes, MpOrdered, rigid
<1>10. MpStores'
  <2>1. ASSUME NEW j \in 1..Len(buf'[A]) PROVE MpEntry(j)'
    <3>1. j \in 1..Len(buf[A]) /\ j + 1 \in 1..Len(buf[A]) /\ j \in 1..(Len(buf[A]) - 1)
      BY <1>6, <1>7
    <3>2. MpEntry(j) /\ MpEntry(j + 1) /\ (buf'[A][j] = buf[A][j] \/ buf'[A][j] = buf[A][j + 1])
      BY <1>6, <3>1 DEF MpInv, MpStores
    <3> QED BY <1>1, <1>8, <3>2 DEF MpEntry, DataFirst, rigid
  <2> QED BY <1>1, <1>2, <1>5, <1>8, <2>1 DEF MpInv, MpStores, DataFirst, rigid
<1>11. MpLoads'
  BY <1>1, <1>8 DEF MpInv, MpLoads, rigid
<1> QED BY <1>9, <1>10, <1>11 DEF MpInv

(* A stuttering step preserves the invariant.                              *)
LEMMA MpStutter == MpInv /\ UNCHANGED vars => MpInv'
<1> SUFFICES ASSUME MpInv, UNCHANGED vars PROVE MpInv'
  OBVIOUS
<1>1. MpLoads'
  BY DEF MpInv, MpLoads, vars
<1> QED BY <1>1, MpSilentStep DEF MpInv, MpTypes, vars, rigid, Silent

-----------------------------------------------------------------------------
(* 18, 29 and 30 on SC.                                                    *)

SbTypes ==
  /\ model = "SC"
  /\ MemOK(Duo, {A, B}, {0, 1})
  /\ pc \in [Duo -> {"store", "load", "done", "join", "exit", "abort"}]
  /\ reg \in [Duo -> [seen : {0, 1}]]

SbSeen ==
  /\ \A t \in Duo : buf[t] = << >>
  /\ \A t \in {A, B} : pc[t] \in {"load", "done"} => mem[t] = 1
  /\ pc[A] = "done" /\ pc[B] = "done" => reg[A].seen = 1 \/ reg[B].seen = 1
  /\ pc[Main] \in {"exit", "abort"} => pc[A] = "done" /\ pc[B] = "done"

SbInv == SbTypes /\ SbSeen

SbLabel == {"store", "load", "done", "join", "exit", "abort"}

(* The invariant holds when the threads start.                             *)
LEMMA SbInitInv == SbInit /\ model = "SC" => SbInv
<1> SUFFICES ASSUME SbInit, model = "SC" PROVE SbInv
  OBVIOUS
<1>1. /\ mem = [t \in {A, B} |-> 0]
      /\ buf = [t \in Duo |-> << >>]
      /\ pc = [t \in Duo |-> IF t = Main THEN "join" ELSE "store"]
      /\ reg = [t \in Duo |-> [seen |-> 0]]
  BY DEF SbInit, Boot
<1>2. SbTypes
  BY <1>1, DuoFacts DEF SbTypes, MemOK
<1> QED BY <1>1, <1>2, DuoFacts DEF SbInv, SbSeen

(* On SC a store is in memory, and a load reads memory.                    *)
LEMMA SbThreadStep ==
  ASSUME SbInv, UNCHANGED rigid, NEW t \in {A, B}, SbThread(t)
  PROVE  SbInv'
<1>1. /\ MemOK(Duo, {A, B}, {0, 1}) /\ model = "SC" /\ t \in Duo
      /\ mem \in [{A, B} -> {0, 1}] /\ \A u \in Duo : buf[u] = << >>
      /\ pc \in [Duo -> SbLabel] /\ reg \in [Duo -> [seen : {0, 1}]]
  BY DuoFacts DEF SbInv, SbTypes, SbSeen, MemOK, SbLabel
<1>2. Other(t) \in {A, B} /\ Other(t) # t /\ {t, Other(t)} = {A, B}
  BY DuoFacts DEF Other
<1>3. CASE /\ IF program = "sofa" THEN WriteRel(t, "store", t, 1, "load")
                                  ELSE Write(t, "store", t, 1, "load")
           /\ Keep
  <2>1. PICK rel \in BOOLEAN : Put(t, t, 1, rel)
    BY <1>3 DEF WriteRel, Write
  <2>2. MemOK(Duo, {A, B}, {0, 1})' /\ mem' = [mem EXCEPT ![t] = 1] /\ buf' = buf
    <3>1. 1 \in {0, 1} /\ t \in {A, B}
      OBVIOUS
    <3> QED BY <1>1, <2>1, <3>1, PutInMemory
  <2>3. pc[t] = "store" /\ pc' = [pc EXCEPT ![t] = "load"] /\ reg' = reg
    BY <1>3 DEF WriteRel, Write, Go, Keep
  <2>4. SbTypes'
    BY <1>1, <2>2, <2>3 DEF SbInv, SbTypes, rigid, SbLabel
  <2>5. SbSeen'
    BY <1>1, <1>2, <2>2, <2>3, DuoFacts DEF SbInv, SbSeen
  <2> QED BY <2>4, <2>5 DEF SbInv
<1>4. CASE Read(t, "load", "seen", Other(t), "done") /\ UNCHANGED env
  <2>1. MemOK(Duo, {A, B}, {0, 1})' /\ mem' = mem /\ buf' = buf
    BY <1>1, <1>4 DEF Read, Silent, MemOK
  <2>2. Load(t, Other(t)) = mem[Other(t)] /\ Load(t, Other(t)) \in {0, 1}
    <3>1. Entries(t) = {}
      BY <1>1 DEF Entries
    <3> QED BY <1>1, <1>2, <3>1, LoadEntries
  <2>3. reg' = [reg EXCEPT ![t].seen = mem[Other(t)]]
    BY <1>4, <2>2 DEF Read
  <2>4. /\ reg' \in [Duo -> [seen : {0, 1}]]
        /\ reg'[t].seen = mem[Other(t)] /\ \A u \in Duo : u # t => reg'[u] = reg[u]
    BY <1>1, <2>2, <2>3
  <2>5. pc[t] = "load" /\ pc' = [pc EXCEPT ![t] = "done"]
    BY <1>4 DEF Read, Go
  <2>6. SbTypes'
    BY <1>1, <2>1, <2>4, <2>5 DEF SbInv, SbTypes, rigid, SbLabel
  <2>7. pc'[Other(t)] = pc[Other(t)] /\ pc'[t] = "done" /\ pc'[Main] = pc[Main]
        /\ Other(t) \in Duo
    BY <1>1, <1>2, <2>5, DuoFacts
  <2>8. SbSeen'
    <3>1. pc'[Other(t)] = "done" => reg'[t].seen = 1
      BY <1>2, <2>4, <2>7 DEF SbInv, SbSeen
    <3> QED BY <1>1, <1>2, <2>1, <2>4, <2>5, <2>7, <3>1, DuoFacts DEF SbInv, SbSeen
  <2> QED BY <2>6, <2>8 DEF SbInv
<1> QED BY <1>3, <1>4 DEF SbThread

(* main joins its threads, and may begin another round.                    *)
LEMMA SbMainStep ==
  ASSUME SbInv, UNCHANGED rigid, SbMain
  PROVE  SbInv'
<1>1. /\ MemOK(Duo, {A, B}, {0, 1}) /\ pc \in [Duo -> SbLabel]
      /\ pc[Main] = "join" /\ pc[A] = "done" /\ pc[B] = "done"
  BY DEF SbInv, SbTypes, SbMain, Joinable, SbLabel
<1>2. CASE program # "sb" /\ ~ SbMissed /\ env.round < Rounds
  <2>1. /\ pc' = [pc EXCEPT ![A] = "store", ![B] = "store"]
        /\ mem' = [t \in {A, B} |-> 0]
        /\ buf' = buf /\ reg' = reg
    BY <1>2 DEF SbMain
  <2>2. MemOK(Duo, {A, B}, {0, 1})'
    BY <1>1, <2>1 DEF MemOK
  <2>3. SbTypes'
    BY <1>1, <2>1, <2>2 DEF SbInv, SbTypes, rigid, SbLabel
  <2>4. SbSeen'
    BY <1>1, <2>1, DuoFacts DEF SbInv, SbSeen
  <2> QED BY <2>3, <2>4 DEF SbInv
<1>3. CASE ~ (program # "sb" /\ ~ SbMissed /\ env.round < Rounds)
  <2>1. PICK to \in {"exit", "abort"} :
          pc' = [pc EXCEPT ![Main] = to] /\ mem' = mem /\ buf' = buf /\ reg' = reg
    <3>1. Local(Main, "join", IF program = "sofa" /\ SbMissed THEN "abort" ELSE "exit") /\ Keep
      BY <1>3 DEF SbMain
    <3> QED BY <3>1 DEF Local, Go, Keep, Silent
  <2>2. MemOK(Duo, {A, B}, {0, 1})'
    BY <1>1, <2>1 DEF MemOK
  <2>3. SbTypes'
    BY <1>1, <2>1, <2>2 DEF SbInv, SbTypes, rigid, SbLabel
  <2>4. SbSeen'
    BY <1>1, <2>1, DuoFacts DEF SbInv, SbSeen
  <2> QED BY <2>3, <2>4 DEF SbInv
<1> QED BY <1>2, <1>3

(* There is nothing to commit.                                             *)
LEMMA SbNoFlush ==
  ASSUME SbInv, NEW t \in Duo, NEW x
  PROVE  ~ Commit(t, x)
<1>1. buf[t] = << >> /\ model = "SC"
  BY DEF SbInv, SbTypes, SbSeen
<1>2. SC!Pending(t, x) = {}
  BY <1>1 DEF SC!Pending
<1> QED BY <1>1, <1>2 DEF Commit, SC!Commit

(* A stuttering step preserves the invariant.                              *)
LEMMA SbStutter == SbInv /\ UNCHANGED vars => SbInv'
  BY DEF SbInv, SbTypes, SbSeen, MemOK, vars

-----------------------------------------------------------------------------
(* 16-includeos.c.                                                         *)

RingLoc   == {product, consumed} \cup {desc(i) : i \in 0..(NumDesc - 1)}
RingLabel == {"test", "fill", "count", "refill", "done", "join", "exit"}

RingTypes ==
  /\ Weak
  /\ MemOK(Duo, RingLoc, Nat)
  /\ pc \in [Duo -> RingLabel]
  /\ pc[A] # "refill" /\ pc[B] # "fill"

(* What the producer writes, and both sides only raise.                    *)
Produced == RingLoc \ {consumed}

(* Each side has its counter, and a descriptor is only ever filled.        *)
RingWords ==
  /\ Entries(Main) = {}
  /\ \A e \in Entries(A) : e.loc # consumed
  /\ \A e \in Entries(B) : e.loc # product
  /\ \A t \in Duo : \A e \in Entries(t) : e.loc \notin {product, consumed} => e.val = 1
  /\ \A x \in RingLoc \ {product, consumed} : mem[x] \in {0, 1}
  /\ Rising(A, Produced)

(* The consumer's counter, in memory, in its buffer and after the next     *)
(* step, does not pass what the producer has made visible.                 *)
RingBehind ==
  /\ mem[consumed] <= mem[product]
  /\ \A e \in Entries(B) : e.loc = consumed => e.val <= mem[product]
  /\ pc[B] \in {"refill", "count"} => Load(B, consumed) < mem[product]

(* Packet n is in its descriptor before the counter passes n.              *)
RingPackets ==
  \A n \in Nat :
    /\ Ahead(A, product, {k \in Nat : k > n}, desc(Slot(n)), 1)
    /\ pc[A] = "count" /\ n = Load(A, product) =>
         Reached(A, desc(Slot(n)), 1, Len(buf[A]) + 1)

RingInv ==
  RingTypes /\ RingWords /\ RingBehind /\ (model = "TSO" => RingPackets)

(* The words are different words of the memory.                            *)
LEMMA RingFacts ==
  /\ product \in RingLoc /\ consumed \in RingLoc /\ product # consumed
  /\ product \in Produced /\ Produced \in SUBSET RingLoc
  /\ \A n \in Nat : /\ desc(Slot(n)) \in RingLoc /\ desc(Slot(n)) \in Produced
                    /\ desc(Slot(n)) # product /\ desc(Slot(n)) # consumed
<1>1. product # consumed
  BY DEF product, consumed
<1>2. \A k : desc(k) # product /\ desc(k) # consumed
  <2> SUFFICES ASSUME NEW k PROVE desc(k) # product /\ desc(k) # consumed
    OBVIOUS
  <2>1. Len(desc(k)) = 2 /\ Len(product) = 1 /\ Len(consumed) = 1
    BY DEF desc, product, consumed
  <2> QED BY <2>1
<1>3. \A n \in Nat : Slot(n) \in 0..(NumDesc - 1)
  BY PublicationAssumption DEF Slot
<1> QED BY <1>1, <1>2, <1>3 DEF RingLoc, Produced

(* The invariant holds when the threads start.                             *)
LEMMA RingInitInv == RingInit => RingInv
<1> SUFFICES ASSUME RingInit PROVE RingInv
  OBVIOUS
<1>1. /\ model \in {"TSO", "ARM"}
      /\ mem = [x \in RingLoc |-> 0]
      /\ buf = [t \in Duo |-> << >>]
      /\ pc = [t \in Duo |-> IF t = Main THEN "join" ELSE "test"]
  BY DEF RingInit, Boot, RingLoc
<1>2. /\ \A t \in Duo : buf[t] = << >> /\ Entries(t) = {}
      /\ Len(buf[A]) = 0
      /\ mem[product] = 0 /\ mem[consumed] = 0
      /\ pc[A] = "test" /\ pc[B] = "test"
  BY <1>1, DuoFacts, RingFacts DEF Entries
<1>3. RingTypes
  BY <1>1, DuoFacts DEF RingTypes, RingLabel, MemOK, Weak
<1>4. Rising(A, Produced)
  BY <1>2 DEF Rising
<1>5. RingWords /\ RingBehind
  BY <1>1, <1>2, <1>4, DuoFacts DEF RingWords, RingBehind
<1>6. RingPackets
  BY <1>2 DEF RingPackets, Ahead
<1> QED BY <1>3, <1>5, <1>6 DEF RingInv

(* The counters as each side reads them.                                   *)
LEMMA RingLoads ==
  ASSUME RingInv
  PROVE  /\ Load(A, product) \in Nat /\ Load(B, consumed) \in Nat
         /\ Load(B, product) = mem[product]
         /\ mem[product] \in Nat /\ mem[consumed] \in Nat
         /\ mem[product] <= Load(A, product)
<1>1. /\ MemOK(Duo, RingLoc, Nat) /\ A \in Duo /\ B \in Duo /\ Nat \subseteq Int
      /\ product \in RingLoc /\ consumed \in RingLoc
      /\ product \in Produced /\ Produced \in SUBSET RingLoc /\ Rising(A, Produced)
      /\ \A e \in Entries(B) : e.loc # product
  BY DuoFacts, RingFacts DEF RingInv, RingTypes, RingWords
<1>2. /\ Load(A, product) \in Nat /\ Load(B, consumed) \in Nat
      /\ Load(B, product) = mem[product]
  BY <1>1, LoadEntries
<1>3. mem[product] \in Nat /\ mem[consumed] \in Nat
  BY <1>1 DEF MemOK
<1>4. mem[product] <= Load(A, product)
  BY <1>1, RisingLoad
<1> QED BY <1>2, <1>3, <1>4

(* A step of the tests and of main.                                        *)
LEMMA RingSilentStep ==
  ASSUME RingInv, UNCHANGED rigid, Silent,
         pc' \in [Duo -> RingLabel], pc'[A] # "refill", pc'[B] # "fill",
         pc'[A] # "count" \/ pc'[A] = pc[A],
         pc'[B] \in {"refill", "count"} => Load(B, consumed) < mem[product]
  PROVE  RingInv'
<1>1. /\ MemOK(Duo, RingLoc, Nat)'
      /\ mem' = mem /\ buf' = buf /\ model' = model
      /\ \A u \in Duo : Entries(u)' = Entries(u)
  BY SilentEntries DEF RingInv, RingTypes, Silent, rigid
<1>2. Load(A, product)' = Load(A, product) /\ Load(B, consumed)' = Load(B, consumed)
  BY <1>1, LoadIsNewest
<1>3. RingTypes'
  BY <1>1 DEF RingInv, RingTypes, Weak
<1>4. RingWords'
  BY <1>1, DuoFacts DEF RingInv, RingWords, Rising
<1>5. RingBehind'
  BY <1>1, <1>2, DuoFacts DEF RingInv, RingBehind
<1>6. (model = "TSO" => RingPackets)'
  BY <1>1, <1>2 DEF RingInv, RingPackets, Ahead, Reached
<1> QED BY <1>3, <1>4, <1>5, <1>6 DEF RingInv

(* A store of either thread enters its buffer.                             *)
LEMMA RingPut ==
  ASSUME RingInv, NEW t \in {A, B}, NEW x \in RingLoc, NEW v \in Nat, Put(t, x, v, FALSE)
  PROVE  /\ Adds(Duo, RingLoc, Nat, t, x, v) /\ Appends(Duo, t, x, v, FALSE)
         /\ Load(t, x)' = v
         /\ \A y \in RingLoc : y # x => Load(t, y)' = Load(t, y)
         /\ \A u \in Duo, y \in RingLoc : u # t => Load(u, y)' = Load(u, y)
<1>1. MemOK(Duo, RingLoc, Nat) /\ Weak /\ t \in Duo /\ FALSE \in BOOLEAN
  BY DuoFacts DEF RingInv, RingTypes
<1>2. Adds(Duo, RingLoc, Nat, t, x, v)
  BY <1>1, PutAdds, Zenon
<1>3. Appends(Duo, t, x, v, FALSE)
  BY <1>1, PutPosition, Zenon
<1>4. Load(t, x)' = v /\ \A y \in RingLoc : y # x => Load(t, y)' = Load(t, y)
  <2>1. ReadsBack(RingLoc, t, x, v)
    BY <1>1, LoadAfterPut, Zenon
  <2> QED BY <2>1 DEF ReadsBack
<1>5. mem' = mem /\ \A u \in Duo : u # t => buf'[u] = buf[u]
  BY <1>2, <1>3 DEF Adds, Appends
<1>6. \A u \in Duo, y \in RingLoc : u # t => Load(u, y)' = Load(u, y)
  BY <1>5, LoadIsNewest
<1> QED BY <1>2, <1>3, <1>4, <1>6

(* A store of the producer: a descriptor, or the counter after it.         *)
LEMMA RingStore ==
  ASSUME RingInv, UNCHANGED rigid, NEW x \in RingLoc, NEW v \in Nat, Put(A, x, v, FALSE),
         NEW to \in RingLabel, pc' = [pc EXCEPT ![A] = to],
         \/ x = desc(Slot(Load(A, product))) /\ v = 1 /\ to = "count"
         \/ x = product /\ v = Load(A, product) + 1 /\ pc[A] = "count" /\ to = "test"
  PROVE  RingInv'
<1>1. /\ MemOK(Duo, RingLoc, Nat) /\ A \in Duo /\ B \in Duo /\ A # B /\ A \in {A, B}
      /\ pc \in [Duo -> RingLabel] /\ model' = model /\ Nat \subseteq Int
      /\ product \in RingLoc /\ consumed \in RingLoc
      /\ product # consumed
      /\ product \in Produced /\ Produced \in SUBSET RingLoc /\ Rising(A, Produced)
  BY DuoFacts, RingFacts DEF RingInv, RingTypes, RingWords, rigid
<1>2. Load(A, product) \in Nat /\ mem[product] \in Nat
  BY RingLoads
<1>3. x = desc(Slot(Load(A, product))) => x # product /\ x # consumed
  BY <1>2, RingFacts
<1>4. /\ Adds(Duo, RingLoc, Nat, A, x, v) /\ Appends(Duo, A, x, v, FALSE)
      /\ Load(A, x)' = v
      /\ \A y \in RingLoc : y # x => Load(A, y)' = Load(A, y)
      /\ \A u \in Duo, y \in RingLoc : u # A => Load(u, y)' = Load(u, y)
  BY <1>1, RingPut, Zenon
<1>5. /\ MemOK(Duo, RingLoc, Nat)' /\ mem' = mem
      /\ \E e : e.loc = x /\ e.val = v /\ Entries(A)' = Entries(A) \cup {e}
      /\ \A u \in Duo : u # A => Entries(u)' = Entries(u)
  BY <1>4 DEF Adds
<1>6. pc'[A] = to /\ pc'[B] = pc[B] /\ to # "refill" /\ to # "fill"
  BY <1>1
<1>7. Load(A, x) <= v
  <2>1. CASE x = product
    BY <1>2, <1>3, <2>1
  <2>2. CASE x # product
    <3>1. v = 1 /\ x \notin {product, consumed}
      BY <1>3, <2>2
    <3>2. Load(A, x) = mem[x] \/ \E e \in Entries(A) : e.loc = x /\ e.val = Load(A, x)
      BY <1>1, LoadEntries
    <3> QED BY <1>1, <3>1, <3>2 DEF RingInv, RingWords
  <2> QED BY <2>1, <2>2
<1>8. /\ Rising(A, Produced)'
      /\ \A y, w : \A i \in 1..(Len(buf[A]) + 1) :
           Reached(A, y, w, i) => Reached(A, y, w, i)'
  BY <1>1, <1>4, <1>5, <1>7, RisingPut
<1>9. RingTypes'
  BY <1>1, <1>5, <1>6 DEF RingInv, RingTypes, Weak
<1>10. RingWords'
  BY <1>1, <1>3, <1>5, <1>8, DuoFacts DEF RingInv, RingWords
<1>11. RingBehind'
  BY <1>1, <1>4, <1>5, <1>6 DEF RingInv, RingBehind
<1>12. ASSUME model = "TSO", NEW n \in Nat
       PROVE  /\ Ahead(A, product, {k \in Nat : k > n}, desc(Slot(n)), 1)'
              /\ (pc[A] = "count" /\ n = Load(A, product) =>
                    Reached(A, desc(Slot(n)), 1, Len(buf[A]) + 1))'
  <2> DEFINE S == {k \in Nat : k > n}
             d == desc(Slot(n))
  <2>1. /\ Ahead(A, product, S, d, 1)
        /\ pc[A] = "count" /\ n = Load(A, product) => Reached(A, d, 1, Len(buf[A]) + 1)
    BY <1>12 DEF RingInv, RingPackets
  <2>2. d \in Produced /\ d # product /\ 1 \in Int
    BY RingFacts
  <2>3. x = product /\ v \in S => Load(A, d) >= 1
    <3>1. CASE n < Load(A, product)
      <4>1. Load(A, product) \in S
        BY <1>2, <3>1
      <4> HIDE DEF S, d
      <4> QED BY <1>1, <2>1, <2>2, <4>1, AheadLoad
    <3>2. CASE x = product /\ n = Load(A, product)
      <4>1. Reached(A, d, 1, Len(buf[A]) + 1)
        BY <1>3, <2>1, <3>2
      <4>2. PICK k \in Nat : k = Len(buf[A]) /\ buf[A] \in Seq(Entry(RingLoc, Nat))
        <5>1. buf[A] \in Seq(Entry(RingLoc, Nat))
          BY <1>1 DEF MemOK
        <5> QED BY <5>1
      <4>3. mem[d] >= 1 \/ \E j \in 1..k : buf[A][j].loc = d /\ buf[A][j].val >= 1
        BY <4>1, <4>2 DEF Reached
      <4>4. \A j \in 1..k : buf[A][j].val \in Nat
        <5>1. \A j \in 1..k : buf[A][j] \in Entry(RingLoc, Nat)
          BY <4>2
        <5> QED BY <5>1 DEF Entry
      <4> HIDE DEF d
      <4>5. /\ Load(A, d) \in Nat /\ mem[d] \in Nat /\ mem[d] <= Load(A, d)
            /\ \A j \in 1..k : buf[A][j].loc = d => buf[A][j].val <= Load(A, d)
        BY <1>1, <2>2, <4>2, RisingLoad
      <4> QED BY <4>3, <4>4, <4>5
    <3>3. x = product /\ v \in S => n < Load(A, product) \/ n = Load(A, product)
      BY <1>2, <1>3
    <3> QED BY <3>1, <3>2, <3>3
  <2>4. Ahead(A, product, S, d, 1)'
    <3> HIDE DEF S, d
    <3>1. /\ product \in RingLoc /\ Appends(Duo, A, x, v, FALSE) /\ mem' = mem
          /\ x \in Produced => Load(A, x) <= v
          /\ x = product /\ v \in S => Load(A, d) >= 1
          /\ Ahead(A, product, S, d, 1)
      BY <1>1, <1>4, <1>5, <1>7, <2>1, <2>3
    <3> QED BY <1>1, <2>2, <3>1, AheadPut
  <2>5. ASSUME pc'[A] = "count", n = Load(A, product)'
        PROVE  Reached(A, d, 1, Len(buf[A]) + 1)'
    <3>1. x = d /\ v = 1
      BY <1>1, <1>3, <1>4, <1>6, <2>5
    <3>2. Len(buf[A]) + 1 \in 1..(Len(buf'[A]) + 1 - 1)
      <4>1. buf[A] \in Seq(Entry(RingLoc, Nat))
        BY <1>1 DEF MemOK
      <4>2. Len(buf[A]) \in Nat /\ Len(buf'[A]) = Len(buf[A]) + 1
        BY <1>4, <4>1 DEF Appends
      <4> QED BY <4>2
    <3>3. /\ buf'[A][Len(buf[A]) + 1].loc = d
          /\ buf'[A][Len(buf[A]) + 1].val >= 1
      BY <1>4, <3>1 DEF Appends
    <3> QED BY <3>2, <3>3 DEF Reached
  <2> QED BY <2>4, <2>5
<1>13. (model = "TSO" => RingPackets)'
  BY <1>1, <1>12 DEF RingPackets
<1> QED BY <1>9, <1>10, <1>11, <1>13 DEF RingInv

(* Every statement of the producer.                                        *)
LEMMA RingProduceStep ==
  ASSUME RingInv, UNCHANGED rigid, RingProduce
  PROVE  RingInv'
<1>1. /\ pc \in [Duo -> RingLabel] /\ A \in Duo /\ B \in Duo /\ A # B
      /\ pc[A] # "refill" /\ pc[B] # "fill"
      /\ pc[B] \in {"refill", "count"} => Load(B, consumed) < mem[product]
      /\ {"test", "fill", "count", "done"} \subseteq RingLabel
  BY DuoFacts DEF RingInv, RingTypes, RingBehind, RingLabel
<1>2. Load(A, product) \in Nat /\ Load(A, product) + 1 \in Nat /\ 1 \in Nat
  BY RingLoads
<1>3. product \in RingLoc /\ desc(Slot(Load(A, product))) \in RingLoc
  BY <1>2, RingFacts
<1>4. CASE Local(A, "test", IF Load(A, product) < Fill THEN "fill" ELSE "done")
  <2>1. PICK to \in {"fill", "done"} : pc' = [pc EXCEPT ![A] = to]
    BY <1>4 DEF Local, Go
  <2>2. pc' \in [Duo -> RingLabel] /\ pc'[A] = to /\ pc'[B] = pc[B]
    BY <1>1, <2>1
  <2> QED BY <1>1, <1>4, <2>2, RingSilentStep DEF Local
<1>5. CASE Write(A, "fill", desc(Slot(Load(A, product))), 1, "count")
  <2> DEFINE x == desc(Slot(Load(A, product)))
  <2>1. Put(A, x, 1, FALSE) /\ pc' = [pc EXCEPT ![A] = "count"]
    BY <1>5 DEF Write, Go
  <2>2. PICK v \in Nat, to \in RingLabel :
          v = 1 /\ to = "count" /\ Put(A, x, v, FALSE) /\ pc' = [pc EXCEPT ![A] = to]
    BY <1>1, <1>2, <2>1, Zenon
  <2> QED BY <1>3, <2>2, RingStore
<1>6. CASE Write(A, "count", product, Load(A, product) + 1, "test")
  <2>1. PICK v \in Nat, to \in RingLabel :
          /\ v = Load(A, product) + 1 /\ to = "test" /\ pc[A] = "count"
          /\ Put(A, product, v, FALSE) /\ pc' = [pc EXCEPT ![A] = to]
    BY <1>1, <1>2, <1>6, Zenon DEF Write, Go
  <2> QED BY <1>3, <2>1, RingStore
<1> QED BY <1>4, <1>5, <1>6 DEF RingProduce

(* A store of the consumer: a descriptor, or its counter.                  *)
LEMMA RingBack ==
  ASSUME RingInv, UNCHANGED rigid, NEW x \in RingLoc, NEW v \in Nat, Put(B, x, v, FALSE),
         NEW to \in RingLabel, pc' = [pc EXCEPT ![B] = to],
         pc[B] \in {"refill", "count"},
         \/ x = desc(Slot(Load(B, consumed))) /\ v = 1 /\ to = "count"
         \/ x = consumed /\ v = Load(B, consumed) + 1 /\ to = "test"
  PROVE  RingInv'
<1>1. /\ MemOK(Duo, RingLoc, Nat) /\ A \in Duo /\ B \in Duo /\ A # B
      /\ pc \in [Duo -> RingLabel] /\ model' = model
      /\ product \in RingLoc /\ consumed \in RingLoc
      /\ product # consumed
  BY DuoFacts, RingFacts DEF RingInv, RingTypes, rigid
<1>2. /\ Load(B, consumed) \in Nat /\ mem[product] \in Nat
      /\ Load(B, consumed) < mem[product]
  BY RingLoads DEF RingInv, RingBehind
<1>3. x # product /\ (x # consumed => v = 1)
  BY <1>1, <1>2, RingFacts
<1>4. B \in {A, B}
  OBVIOUS
<1>5. /\ Adds(Duo, RingLoc, Nat, B, x, v) /\ Appends(Duo, B, x, v, FALSE)
      /\ \A y \in RingLoc : y # x => Load(B, y)' = Load(B, y)
      /\ \A u \in Duo, y \in RingLoc : u # B => Load(u, y)' = Load(u, y)
  BY <1>4, RingPut, Zenon
<1>6. /\ MemOK(Duo, RingLoc, Nat)' /\ mem' = mem
      /\ \E e : e.loc = x /\ e.val = v /\ Entries(B)' = Entries(B) \cup {e}
      /\ \A u \in Duo : u # B => Entries(u)' = Entries(u)
  BY <1>5 DEF Adds
<1>7. buf'[A] = buf[A] /\ Load(A, product)' = Load(A, product)
  BY <1>1, <1>5 DEF Appends
<1>8. pc'[B] = to /\ pc'[A] = pc[A] /\ to # "refill" /\ to # "fill"
  BY <1>1
<1>9. RingTypes'
  BY <1>1, <1>6, <1>8 DEF RingInv, RingTypes, Weak
<1>10. RingWords'
  <2>1. Rising(A, Produced)'
    BY <1>6, <1>7 DEF RingInv, RingWords, Rising
  <2> QED BY <1>1, <1>3, <1>6, <2>1, DuoFacts DEF RingInv, RingWords
<1>11. RingBehind'
  <2>1. \A e \in Entries(B)' : e.loc = consumed => e.val <= mem[product]
    BY <1>1, <1>2, <1>6, RingFacts DEF RingInv, RingBehind
  <2>2. to = "count" => Load(B, consumed)' = Load(B, consumed)
    BY <1>1, <1>2, <1>5, RingFacts
  <2> QED BY <1>2, <1>6, <1>8, <2>1, <2>2 DEF RingInv, RingBehind
<1>12. (model = "TSO" => RingPackets)'
  BY <1>1, <1>6, <1>7, <1>8 DEF RingInv, RingPackets, Ahead, Reached
<1> QED BY <1>9, <1>10, <1>11, <1>12 DEF RingInv

(* Every statement of the consumer.                                        *)
LEMMA RingConsumeStep ==
  ASSUME RingInv, UNCHANGED rigid, RingConsume
  PROVE  RingInv'
<1>1. /\ pc \in [Duo -> RingLabel] /\ A \in Duo /\ B \in Duo /\ A # B
      /\ pc[A] # "refill" /\ pc[B] # "fill"
      /\ {"test", "refill", "count", "done"} \subseteq RingLabel
  BY DuoFacts DEF RingInv, RingTypes, RingBehind, RingLabel
<1>2. /\ Load(B, consumed) \in Nat /\ Load(B, consumed) + 1 \in Nat /\ 1 \in Nat
      /\ Load(B, product) = mem[product]
  BY RingLoads
<1>3. consumed \in RingLoc /\ desc(Slot(Load(B, consumed))) \in RingLoc
  BY <1>2, RingFacts
<1>4. CASE Local(B, "test", IF Load(B, consumed) < Load(B, product) THEN "refill" ELSE "done")
  <2>1. PICK to \in {"refill", "done"} :
          pc' = [pc EXCEPT ![B] = to] /\ (to = "refill" => Load(B, consumed) < mem[product])
    BY <1>2, <1>4 DEF Local, Go
  <2>2. pc' \in [Duo -> RingLabel] /\ pc'[B] = to /\ pc'[A] = pc[A]
    BY <1>1, <2>1
  <2> QED BY <1>1, <1>4, <2>1, <2>2, RingSilentStep DEF Local
<1>5. CASE Write(B, "refill", desc(Slot(Load(B, consumed))), 1, "count")
  <2> DEFINE x == desc(Slot(Load(B, consumed)))
  <2>1. Put(B, x, 1, FALSE) /\ pc' = [pc EXCEPT ![B] = "count"] /\ pc[B] = "refill"
    BY <1>5 DEF Write, Go
  <2>2. PICK v \in Nat, to \in RingLabel :
          v = 1 /\ to = "count" /\ Put(B, x, v, FALSE) /\ pc' = [pc EXCEPT ![B] = to]
    BY <1>1, <1>2, <2>1, Zenon
  <2> QED BY <1>3, <2>1, <2>2, RingBack
<1>6. CASE Write(B, "count", consumed, Load(B, consumed) + 1, "test")
  <2>1. PICK v \in Nat, to \in RingLabel :
          /\ v = Load(B, consumed) + 1 /\ to = "test" /\ pc[B] = "count"
          /\ Put(B, consumed, v, FALSE) /\ pc' = [pc EXCEPT ![B] = to]
    BY <1>1, <1>2, <1>6, Zenon DEF Write, Go
  <2> QED BY <1>3, <2>1, RingBack
<1> QED BY <1>4, <1>5, <1>6 DEF RingConsume

(* main's join preserves the invariant.                                    *)
LEMMA RingJoinStep ==
  ASSUME RingInv, UNCHANGED rigid, JoinBoth
  PROVE  RingInv'
<1>1. /\ Silent /\ pc' = [pc EXCEPT ![Main] = "exit"]
  BY DEF JoinBoth, Await, Go
<1>2. /\ pc' \in [Duo -> RingLabel] /\ pc'[A] = pc[A] /\ pc'[B] = pc[B]
      /\ pc[A] # "refill" /\ pc[B] # "fill"
      /\ pc[B] \in {"refill", "count"} => Load(B, consumed) < mem[product]
  BY <1>1, DuoFacts DEF RingInv, RingTypes, RingBehind, RingLabel
<1> QED BY <1>1, <1>2, RingSilentStep

(* What is common to a commit of either side.                              *)
LEMMA RingCommit ==
  ASSUME RingInv, NEW t \in Duo, NEW x \in RingLoc, Commit(t, x)
  PROVE  /\ MemOK(Duo, RingLoc, Nat)'
         /\ t # Main /\ (t = A => x # consumed) /\ (t = B => x # product)
         /\ \A u \in Duo : Entries(u)' \subseteq Entries(u)
         /\ \A u \in Duo : u # t => buf'[u] = buf[u]
         /\ \E e \in Entries(t) : e.loc = x /\ e.val \in Nat /\ mem' = [mem EXCEPT ![x] = e.val]
         /\ x \notin {product, consumed} => mem'[x] = 1
         /\ \A u \in Duo, y \in RingLoc : u = t \/ y # x => Load(u, y)' = Load(u, y)
<1>1. MemOK(Duo, RingLoc, Nat) /\ Weak /\ mem \in [RingLoc -> Nat]
  BY DEF RingInv, RingTypes, MemOK
<1>2. /\ MemOK(Duo, RingLoc, Nat)'
      /\ \A u \in Duo : u # t => Entries(u)' = Entries(u)
      /\ Entries(t)' \subseteq Entries(t)
      /\ \E e \in Entries(t) : e.loc = x /\ mem' = [mem EXCEPT ![x] = e.val]
  BY <1>1, CommitEntries
<1>3. Commits(Duo, t, x)
  BY <1>1, CommitPosition, Zenon
<1>4. PICK e \in Entries(t) : e.loc = x /\ mem' = [mem EXCEPT ![x] = e.val]
  BY <1>2
<1>5. e.val \in Nat
  <2>1. buf[t] \in Seq(Entry(RingLoc, Nat))
    BY <1>1 DEF MemOK
  <2>2. \A i \in DOMAIN buf[t] : buf[t][i] \in Entry(RingLoc, Nat)
    BY <2>1
  <2> QED BY <2>2 DEF Entries, Entry
<1>6. t # Main /\ (t = A => x # consumed) /\ (t = B => x # product)
  BY <1>4 DEF RingInv, RingWords
<1>7. x \notin {product, consumed} => mem'[x] = 1
  BY <1>1, <1>4 DEF RingInv, RingWords
<1>8. \A u \in Duo, y \in RingLoc : u = t \/ y # x => Load(u, y)' = Load(u, y)
  <2>1. \A y \in RingLoc : Load(t, y)' = Load(t, y)
    BY <1>1, LoadAfterCommit
  <2>2. ASSUME NEW u \in Duo, NEW y \in RingLoc, u # t, y # x PROVE Load(u, y)' = Load(u, y)
    <3>1. buf'[u] = buf[u]
      BY <1>3, <2>2 DEF Commits
    <3>2. mem'[y] = mem[y]
      BY <1>1, <1>4, <2>2
    <3>3. Newest(buf'[u], mem', y) = Newest(buf[u], mem, y)
      BY <3>1, <3>2 DEF Newest
    <3> QED BY <3>3, LoadIsNewest
  <2> QED BY <2>1, <2>2
<1>9. \A u \in Duo : u # t => buf'[u] = buf[u]
  BY <1>3 DEF Commits
<1> QED BY <1>2, <1>4, <1>5, <1>6, <1>7, <1>8, <1>9

(* A store of the consumer becomes visible.                                *)
LEMMA RingFlushB ==
  ASSUME RingInv, NEW x \in RingLoc, Commit(B, x), UNCHANGED <<rigid, pc, reg, env>>
  PROVE  RingInv'
<1>1. /\ A \in Duo /\ B \in Duo /\ A # B /\ product \in RingLoc /\ consumed \in RingLoc
      /\ model' = model /\ pc' = pc
  BY DuoFacts, RingFacts DEF rigid
<1>2. /\ MemOK(Duo, RingLoc, Nat)' /\ x # product
      /\ \A u \in Duo : Entries(u)' \subseteq Entries(u)
      /\ \A u \in Duo : u # B => buf'[u] = buf[u]
      /\ \E e \in Entries(B) : e.loc = x /\ e.val \in Nat /\ mem' = [mem EXCEPT ![x] = e.val]
      /\ x \notin {product, consumed} => mem'[x] = 1
      /\ \A u \in Duo, y \in RingLoc : u = B \/ y # x => Load(u, y)' = Load(u, y)
  BY <1>1, RingCommit, Zenon
<1>3. PICK e \in Entries(B) : e.loc = x /\ e.val \in Nat /\ mem' = [mem EXCEPT ![x] = e.val]
  BY <1>2
<1>4. mem \in [RingLoc -> Nat]
  BY DEF RingInv, RingTypes, MemOK
<1>5. mem'[product] = mem[product] /\ mem'[consumed] <= mem[product]
  BY <1>1, <1>2, <1>3, <1>4 DEF RingInv, RingBehind
<1>6. /\ buf'[A] = buf[A] /\ Load(A, product)' = Load(A, product)
      /\ Load(B, consumed)' = Load(B, consumed)
  BY <1>1, <1>2
<1>7. \A y \in Produced : mem[y] <= mem'[y] /\ (mem'[y] = mem[y] \/ (mem'[y] = 1 /\ y # product))
  <2> SUFFICES ASSUME NEW y \in Produced
               PROVE  mem[y] <= mem'[y] /\ (mem'[y] = mem[y] \/ (mem'[y] = 1 /\ y # product))
    OBVIOUS
  <2>1. CASE y = x
    <3>1. y \notin {product, consumed} /\ y \in RingLoc
      BY <1>2, <2>1 DEF Produced
    <3> QED BY <1>2, <2>1, <3>1 DEF RingInv, RingWords
  <2>2. CASE y # x
    <3>1. y \in RingLoc
      BY DEF Produced
    <3> QED BY <1>3, <1>4, <2>2, <3>1
  <2> QED BY <2>1, <2>2
<1>8. RingTypes'
  BY <1>1, <1>2 DEF RingInv, RingTypes, Weak
<1>9. RingWords'
  <2>1. Rising(A, Produced)'
    <3> SUFFICES ASSUME NEW i \in 1..Len(buf[A]), buf[A][i].loc \in Produced
                 PROVE  mem'[buf[A][i].loc] <= buf[A][i].val
      BY <1>6 DEF RingInv, RingWords, Rising
    <3>1. mem[buf[A][i].loc] <= buf[A][i].val
      BY DEF RingInv, RingWords, Rising
    <3>2. buf[A][i].loc # product => buf[A][i].val = 1
      <4>1. buf[A] \in Seq(Entry(RingLoc, Nat))
        BY <1>1 DEF RingInv, RingTypes, MemOK
      <4>2. buf[A][i] \in Entries(A)
        BY <4>1 DEF Entries
      <4> QED BY <1>1, <4>2 DEF RingInv, RingWords, Produced
    <3> QED BY <1>7, <3>1, <3>2
  <2>2. \A y \in RingLoc \ {product, consumed} : mem'[y] \in {0, 1}
    BY <1>7 DEF RingInv, RingWords, Produced
  <2> QED BY <1>1, <1>2, <2>1, <2>2, DuoFacts DEF RingInv, RingWords
<1>10. RingBehind'
  BY <1>1, <1>2, <1>5, <1>6 DEF RingInv, RingBehind
<1>11. (model = "TSO" => RingPackets)'
  <2> SUFFICES ASSUME model = "TSO", NEW n \in Nat
               PROVE  /\ Ahead(A, product, {k \in Nat : k > n}, desc(Slot(n)), 1)'
                      /\ (pc[A] = "count" /\ n = Load(A, product) =>
                            Reached(A, desc(Slot(n)), 1, Len(buf[A]) + 1))'
    BY <1>1 DEF RingPackets
  <2>1. mem[desc(Slot(n))] >= 1 => mem'[desc(Slot(n))] >= 1
    <3>1. desc(Slot(n)) \in Produced /\ desc(Slot(n)) \in RingLoc
      BY RingFacts
    <3> QED BY <1>4, <1>7, <3>1
  <2>2. /\ Ahead(A, product, {k \in Nat : k > n}, desc(Slot(n)), 1)
        /\ pc[A] = "count" /\ n = Load(A, product) =>
             Reached(A, desc(Slot(n)), 1, Len(buf[A]) + 1)
    BY DEF RingInv, RingPackets
  <2>3. \A i : Reached(A, desc(Slot(n)), 1, i) => Reached(A, desc(Slot(n)), 1, i)'
    BY <1>6, <2>1 DEF Reached
  <2>4. Ahead(A, product, {k \in Nat : k > n}, desc(Slot(n)), 1)'
    BY <1>5, <1>6, <2>1, <2>2, <2>3 DEF Ahead
  <2>5. Reached(A, desc(Slot(n)), 1, Len(buf[A]) + 1)
          => Reached(A, desc(Slot(n)), 1, Len(buf[A]) + 1)'
    BY <1>6, <2>1 DEF Reached
  <2> QED BY <1>1, <1>6, <2>2, <2>4, <2>5
<1> QED BY <1>8, <1>9, <1>10, <1>11 DEF RingInv

(* A store of the producer becomes visible.                                *)
LEMMA RingFlushA ==
  ASSUME RingInv, NEW x \in RingLoc, Commit(A, x), UNCHANGED <<rigid, pc, reg, env>>
  PROVE  RingInv'
<1>1. /\ A \in Duo /\ B \in Duo /\ A # B /\ product \in RingLoc /\ consumed \in RingLoc
      /\ model' = model /\ pc' = pc /\ Weak
      /\ MemOK(Duo, RingLoc, Nat) /\ Nat \subseteq Int
      /\ product \in Produced /\ Produced \in SUBSET RingLoc /\ Rising(A, Produced)
  BY DuoFacts, RingFacts DEF RingInv, RingTypes, RingWords, rigid
<1>2. /\ MemOK(Duo, RingLoc, Nat)' /\ x # consumed
      /\ \A u \in Duo : Entries(u)' \subseteq Entries(u)
      /\ \A u \in Duo : u # A => buf'[u] = buf[u]
      /\ \E e \in Entries(A) : e.loc = x /\ e.val \in Nat /\ mem' = [mem EXCEPT ![x] = e.val]
      /\ x \notin {product, consumed} => mem'[x] = 1
      /\ \A u \in Duo, y \in RingLoc : u = A \/ y # x => Load(u, y)' = Load(u, y)
  BY <1>1, RingCommit, Zenon
<1>3. /\ Rising(A, Produced)'
      /\ \A y \in Produced : mem[y] <= mem'[y] /\ mem[y] \in Int /\ mem'[y] \in Int
      /\ model = "TSO" =>
           \A y \in Produced, w \in Int : \A i \in 1..Len(buf[A]) :
             Reached(A, y, w, i + 1) => Reached(A, y, w, i)'
  BY <1>1, RisingCommit
<1>4. mem \in [RingLoc -> Nat] /\ mem' \in [RingLoc -> Nat]
  BY <1>1, <1>2 DEF MemOK
<1>5. Load(A, product)' = Load(A, product) /\ Load(B, consumed)' = Load(B, consumed)
  BY <1>1, <1>2
<1>6. mem'[consumed] = mem[consumed] /\ mem[product] <= mem'[product]
  BY <1>1, <1>2, <1>3, <1>4
<1>7. RingTypes'
  BY <1>1, <1>2 DEF RingInv, RingTypes, Weak
<1>8. RingWords'
  <2>1. \A y \in RingLoc \ {product, consumed} : mem'[y] \in {0, 1}
    BY <1>2, <1>4 DEF RingInv, RingWords
  <2> QED BY <1>1, <1>2, <1>3, <2>1, DuoFacts DEF RingInv, RingWords
<1>9. RingBehind'
  <2>1. \A e \in Entries(B) : e.loc = consumed => e.val \in Nat
    <3>1. buf[B] \in Seq(Entry(RingLoc, Nat))
      BY <1>1 DEF MemOK
    <3>2. \A j \in DOMAIN buf[B] : buf[B][j] \in Entry(RingLoc, Nat)
      BY <3>1
    <3> QED BY <3>2 DEF Entries, Entry
  <2>2. Load(B, consumed) \in Nat
    BY RingLoads
  <2>3. mem[product] \in Nat /\ mem'[product] \in Nat /\ mem[consumed] \in Nat
    BY <1>1, <1>4
  <2> QED BY <1>1, <1>2, <1>5, <1>6, <2>1, <2>2, <2>3 DEF RingInv, RingBehind
<1>10. (model = "TSO" => RingPackets)'
  <2> SUFFICES ASSUME model = "TSO", NEW n \in Nat
               PROVE  /\ Ahead(A, product, {k \in Nat : k > n}, desc(Slot(n)), 1)'
                      /\ (pc[A] = "count" /\ n = Load(A, product) =>
                            Reached(A, desc(Slot(n)), 1, Len(buf[A]) + 1))'
    BY <1>1 DEF RingPackets
  <2> DEFINE S == {k \in Nat : k > n}
             d == desc(Slot(n))
  <2>1. /\ Ahead(A, product, S, d, 1)
        /\ pc[A] = "count" /\ n = Load(A, product) => Reached(A, d, 1, Len(buf[A]) + 1)
    BY DEF RingInv, RingPackets
  <2>2. d \in Produced /\ 1 \in Int
    BY RingFacts
  <2>3. Ahead(A, product, S, d, 1)'
    <3> HIDE DEF S, d
    <3> QED BY <1>1, <2>1, <2>2, AheadCommit
  <2>4. Reached(A, d, 1, Len(buf[A]) + 1) => Reached(A, d, 1, Len(buf[A]) + 1)'
    <3> HIDE DEF d
    <3>1. CommitsFirst(Duo, A, x)
      BY <1>1, CommitFirst, Zenon
    <3>2. PICK k \in Nat \ {0} : k = Len(buf[A]) /\ Len(buf'[A]) + 1 = k
      BY <3>1 DEF CommitsFirst
    <3>3. Reached(A, d, 1, k + 1) => Reached(A, d, 1, k)'
      <4>1. k \in 1..k
        OBVIOUS
      <4> QED BY <1>3, <2>2, <3>2, <4>1
    <3> QED BY <3>2, <3>3 DEF Reached
  <2> QED BY <1>1, <1>5, <2>1, <2>3, <2>4
<1> QED BY <1>7, <1>8, <1>9, <1>10 DEF RingInv

(* A store that becomes visible preserves the invariant.                   *)
LEMMA RingFlushStep ==
  ASSUME RingInv, NEW t \in Duo, NEW x \in DOMAIN mem, Commit(t, x),
         UNCHANGED <<rigid, pc, reg, env>>
  PROVE  RingInv'
<1>1. x \in RingLoc
  BY DEF RingInv, RingTypes, MemOK
<1>2. t = A \/ t = B
  <2>1. t # Main
    BY <1>1, RingCommit, Zenon
  <2> QED BY <2>1, DuoFacts
<1> QED BY <1>1, <1>2, RingFlushA, RingFlushB

(* A stuttering step preserves the invariant.                              *)
LEMMA RingStutter == RingInv /\ UNCHANGED vars => RingInv'
<1> SUFFICES ASSUME RingInv, UNCHANGED vars PROVE RingInv'
  OBVIOUS
<1>1. /\ UNCHANGED rigid /\ Silent /\ pc' = pc
      /\ pc \in [Duo -> RingLabel] /\ pc[A] # "refill" /\ pc[B] # "fill"
      /\ pc[B] \in {"refill", "count"} => Load(B, consumed) < mem[product]
  BY DEF vars, rigid, Silent, RingInv, RingTypes, RingBehind
<1> QED BY <1>1, RingSilentStep

-----------------------------------------------------------------------------
(* 5: the points, on TSO.                                                  *)

PointsLoc ==
  {currentPos} \cup {px(n) : n \in 1..NumPoints} \cup {py(n) : n \in 1..NumPoints}
PointsLabel ==
  {"malloc", "x", "y", "publish", "loop", "p", "q", "check", "done", "abort", "join", "exit"}
PointsReg == [addr : 1..NumPoints, p : Nat, q : Nat, x : Nat, y : Nat]

PointsTypes ==
  /\ model = "TSO"
  /\ MemOK(Duo, PointsLoc, Nat)
  /\ pc \in [Duo -> PointsLabel]
  /\ pc[A] \in {"malloc", "x", "y", "publish"}
  /\ reg \in [Duo -> PointsReg]

(* Every word is stored by the writer alone, in growing order; the words   *)
(* of a point have its numbers at last.                                    *)
PointsWords ==
  /\ \A t \in Duo : t # A => Entries(t) = {}
  /\ Rising(A, PointsLoc)
  /\ mem[currentPos] >= 1 /\ Load(A, currentPos) <= NumPoints
  /\ \A n \in 1..NumPoints : Load(A, px(n)) <= n /\ Load(A, py(n)) <= n + 1

(* A point is published after its words.                                   *)
PointsFirst ==
  \A n \in 1..NumPoints :
    /\ Ahead(A, currentPos, {k \in Nat : k >= n}, px(n), n)
    /\ Ahead(A, currentPos, {k \in Nat : k >= n}, py(n), n + 1)

(* The point the writer is at.                                             *)
PointsWriting ==
  /\ Load(A, currentPos) = IF pc[A] = "malloc" THEN reg[A].addr ELSE reg[A].addr - 1
  /\ pc[A] \in {"y", "publish"} => Load(A, px(reg[A].addr)) >= reg[A].addr
  /\ pc[A] = "publish" => Load(A, py(reg[A].addr)) >= reg[A].addr + 1

(* What the reader has loaded, of points that were current then.           *)
PointsReading ==
  /\ pc[B] \in {"x", "q", "y", "check", "abort"} => reg[B].p \in 1..mem[currentPos]
  /\ pc[B] \in {"q", "y", "check", "abort"} => reg[B].x = reg[B].p
  /\ pc[B] \in {"y", "check", "abort"} => reg[B].q \in reg[B].p..mem[currentPos]
  /\ pc[B] \in {"check", "abort"} => reg[B].y = reg[B].q + 1
  /\ pc[B] = "abort" => reg[B].x + 1 # reg[B].y

PointsInv == PointsTypes /\ PointsWords /\ PointsFirst /\ PointsWriting /\ PointsReading

(* The words are different words of the memory.                            *)
LEMMA PointsFacts ==
  /\ currentPos \in PointsLoc /\ NumPoints \in Nat \ {0}
  /\ \A n : /\ n \in 1..NumPoints => px(n) \in PointsLoc /\ py(n) \in PointsLoc
            /\ px(n) # currentPos /\ py(n) # currentPos
            /\ \A m : px(n) # py(m) /\ (px(n) = px(m) => n = m) /\ (py(n) = py(m) => n = m)
<1>1. \A n : px(n) # currentPos /\ py(n) # currentPos
  <2> SUFFICES ASSUME NEW n PROVE px(n) # currentPos /\ py(n) # currentPos
    OBVIOUS
  <2>1. Len(px(n)) = 2 /\ Len(py(n)) = 2 /\ Len(currentPos) = 1
    BY DEF px, py, currentPos
  <2> QED BY <2>1
<1>2. \A n, m : px(n) # py(m) /\ (px(n) = px(m) => n = m) /\ (py(n) = py(m) => n = m)
  <2> SUFFICES ASSUME NEW n, NEW m
               PROVE  px(n) # py(m) /\ (px(n) = px(m) => n = m) /\ (py(n) = py(m) => n = m)
    OBVIOUS
  <2>1. /\ px(n)[1] = "x" /\ px(n)[2] = n /\ px(m)[2] = m
        /\ py(m)[1] = "y" /\ py(n)[2] = n /\ py(m)[2] = m
    BY DEF px, py
  <2> QED BY <2>1
<1>3. NumPoints \in Nat \ {0}
  BY PublicationAssumption
<1> QED BY <1>1, <1>2, <1>3 DEF PointsLoc

(* Without stores of its own a thread reads memory; what the writer reads  *)
(* of the points that it has published.                                    *)
LEMMA PointsLoads ==
  ASSUME PointsInv
  PROVE  /\ \A x \in PointsLoc : /\ Load(B, x) = mem[x] /\ mem[x] \in Nat
                                 /\ Load(A, x) \in Nat /\ mem[x] <= Load(A, x)
         /\ \A n \in 1..Load(A, currentPos) : Load(A, px(n)) = n /\ Load(A, py(n)) = n + 1
         /\ \A n \in 1..mem[currentPos] : mem[px(n)] = n /\ mem[py(n)] = n + 1
<1>1. /\ MemOK(Duo, PointsLoc, Nat) /\ A \in Duo /\ B \in Duo /\ Nat \subseteq Int
      /\ PointsLoc \in SUBSET PointsLoc /\ Rising(A, PointsLoc) /\ Entries(B) = {}
      /\ currentPos \in PointsLoc /\ NumPoints \in Nat
  BY DuoFacts, PointsFacts DEF PointsInv, PointsTypes, PointsWords
<1>2. ASSUME NEW x \in PointsLoc
      PROVE  /\ Load(B, x) = mem[x] /\ mem[x] \in Nat
             /\ Load(A, x) \in Nat /\ mem[x] <= Load(A, x)
  BY <1>1, LoadEntries, RisingLoad
<1>3. Load(A, currentPos) \in Nat /\ Load(A, currentPos) <= NumPoints
  BY <1>1, <1>2 DEF PointsInv, PointsWords
<1>4. ASSUME NEW n \in 1..Load(A, currentPos)
      PROVE  Load(A, px(n)) = n /\ Load(A, py(n)) = n + 1
  <2> DEFINE S == {k \in Nat : k >= n}
  <2>1. /\ n \in 1..NumPoints /\ n \in Int /\ n + 1 \in Int
        /\ Load(A, currentPos) \in S
    BY <1>1, <1>3
  <2>2. px(n) \in PointsLoc /\ py(n) \in PointsLoc
    BY <2>1, PointsFacts
  <2>3. Ahead(A, currentPos, S, px(n), n) /\ Ahead(A, currentPos, S, py(n), n + 1)
    BY <2>1 DEF PointsInv, PointsFirst
  <2>4. Load(A, px(n)) >= n /\ Load(A, py(n)) >= n + 1
    <3> HIDE DEF S
    <3>1. Load(A, px(n)) >= n
      BY <1>1, <2>1, <2>2, <2>3, AheadLoad
    <3>2. Load(A, py(n)) >= n + 1
      BY <1>1, <2>1, <2>2, <2>3, AheadLoad
    <3> QED BY <3>1, <3>2
  <2>5. Load(A, px(n)) <= n /\ Load(A, py(n)) <= n + 1
    BY <2>1 DEF PointsInv, PointsWords
  <2> QED BY <1>2, <2>1, <2>2, <2>4, <2>5
<1>5. ASSUME NEW n \in 1..mem[currentPos] PROVE mem[px(n)] = n /\ mem[py(n)] = n + 1
  <2>1. mem[currentPos] \in Nat /\ mem[currentPos] <= Load(A, currentPos)
    BY <1>1, <1>2
  <2>2. n \in 1..Load(A, currentPos) /\ n \in 1..NumPoints /\ mem[currentPos] \in {k \in Nat : k >= n}
    BY <1>1, <1>3, <2>1
  <2>3. mem[px(n)] >= n /\ mem[py(n)] >= n + 1
    BY <2>2 DEF PointsInv, PointsFirst, Ahead
  <2>4. px(n) \in PointsLoc /\ py(n) \in PointsLoc
    BY <2>2, PointsFacts
  <2>5. /\ mem[px(n)] <= n /\ mem[py(n)] <= n + 1
        /\ mem[px(n)] \in Nat /\ mem[py(n)] \in Nat
    BY <1>2, <1>4, <2>2, <2>4
  <2> QED BY <2>2, <2>3, <2>5
<1> QED BY <1>2, <1>4, <1>5

(* The invariant holds when the threads start.                             *)
LEMMA PointsInitInv == PointsInit => PointsInv
<1> SUFFICES ASSUME PointsInit PROVE PointsInv
  OBVIOUS
<1>1. /\ model = "TSO"
      /\ mem = [l \in PointsLoc |-> CASE l = currentPos -> 1 [] l = px(1) -> 1
                                      [] l = py(1) -> 2 [] OTHER -> 0]
      /\ buf = [t \in Duo |-> << >>]
      /\ pc = [t \in Duo |-> CASE t = Main -> "join" [] t = A -> "malloc" [] t = B -> "loop"]
      /\ reg = [t \in Duo |-> [addr |-> 1, p |-> 0, q |-> 0, x |-> 0, y |-> 0]]
  BY DEF PointsInit, Boot, PointsLoc, NULL
<1>2. /\ \A t \in Duo : buf[t] = << >> /\ Entries(t) = {}
      /\ Len(buf[A]) = 0
      /\ pc[A] = "malloc" /\ pc[B] = "loop" /\ reg[A].addr = 1
  BY <1>1, DuoFacts DEF Entries
<1>3. /\ mem[currentPos] = 1 /\ mem[px(1)] = 1 /\ mem[py(1)] = 2
      /\ \A n \in 1..NumPoints : n # 1 => mem[px(n)] = 0 /\ mem[py(n)] = 0
      /\ mem \in [PointsLoc -> Nat]
  BY <1>1, PointsFacts
<1>4. PointsTypes
  <2>1. pc \in [Duo -> PointsLabel]
    BY <1>1, DuoFacts DEF PointsLabel
  <2>2. reg \in [Duo -> PointsReg]
    BY <1>1, PointsFacts DEF PointsReg
  <2>3. MemOK(Duo, PointsLoc, Nat)
    BY <1>1, <1>3 DEF MemOK
  <2> QED BY <1>1, <1>2, <2>1, <2>2, <2>3 DEF PointsTypes
<1>5. \A x \in PointsLoc : Load(A, x) = mem[x]
  <2>1. MemOK(Duo, PointsLoc, Nat) /\ A \in Duo /\ Entries(A) = {}
    BY <1>2, <1>4, DuoFacts DEF PointsTypes
  <2> QED BY <2>1, LoadEntries
<1>6. PointsWords
  <2>1. Rising(A, PointsLoc)
    BY <1>2 DEF Rising
  <2> QED BY <1>2, <1>3, <1>5, <2>1, PointsFacts DEF PointsWords
<1>7. PointsFirst
  <2>1. \A n \in 1..NumPoints : 1 \in {k \in Nat : k >= n} => n = 1
    OBVIOUS
  <2> QED BY <1>2, <1>3, <2>1 DEF PointsFirst, Ahead
<1>8. PointsWriting /\ PointsReading
  BY <1>2, <1>3, <1>5, PointsFacts DEF PointsWriting, PointsReading
<1> QED BY <1>4, <1>6, <1>7, <1>8 DEF PointsInv

(* A step that touches no memory.                                          *)
LEMMA PointsSilentStep ==
  ASSUME PointsInv, UNCHANGED rigid, Silent,
         pc' \in [Duo -> PointsLabel], reg' \in [Duo -> PointsReg],
         pc'[A] \in {"malloc", "x", "y", "publish"},
         PointsWriting', PointsReading'
  PROVE  PointsInv'
<1>1. /\ MemOK(Duo, PointsLoc, Nat)'
      /\ mem' = mem /\ buf' = buf /\ model' = model
      /\ \A u \in Duo : Entries(u)' = Entries(u)
  BY SilentEntries DEF PointsInv, PointsTypes, Silent, rigid
<1>2. \A x : Load(A, x)' = Load(A, x)
  BY <1>1, LoadIsNewest
<1>3. PointsTypes'
  BY <1>1 DEF PointsInv, PointsTypes
<1>4. PointsWords'
  BY <1>1, <1>2, DuoFacts DEF PointsInv, PointsWords, Rising
<1>5. PointsFirst'
  BY <1>1 DEF PointsInv, PointsFirst, Ahead, Reached
<1> QED BY <1>3, <1>4, <1>5 DEF PointsInv

(* The writer's stores, each to its point.                                 *)
LEMMA PointsStore ==
  ASSUME PointsInv, UNCHANGED <<rigid, reg, env>>,
         NEW x \in PointsLoc, NEW v \in Nat, Put(A, x, v, FALSE),
         NEW to \in PointsLabel, pc' = [pc EXCEPT ![A] = to],
         LET a == reg[A].addr
         IN  \/ x = px(a) /\ v = a /\ pc[A] = "x" /\ to = "y"
             \/ x = py(a) /\ v = a + 1 /\ pc[A] = "y" /\ to = "publish"
             \/ x = currentPos /\ v = a /\ pc[A] = "publish" /\ to = "malloc"
  PROVE  PointsInv'
<1>1. /\ MemOK(Duo, PointsLoc, Nat) /\ A \in Duo /\ B \in Duo /\ A # B /\ FALSE \in BOOLEAN
      /\ pc \in [Duo -> PointsLabel] /\ model' = model /\ Nat \subseteq Int /\ Weak
      /\ reg' = reg /\ reg \in [Duo -> PointsReg]
      /\ PointsLoc \in SUBSET PointsLoc /\ Rising(A, PointsLoc)
      /\ currentPos \in PointsLoc /\ NumPoints \in Nat
  BY DuoFacts, PointsFacts DEF PointsInv, PointsTypes, PointsWords, rigid, Weak
<1>2. PICK a \in 1..NumPoints :
        reg[A].addr = a /\ px(a) \in PointsLoc /\ py(a) \in PointsLoc /\ a \in Nat
  <2>1. reg[A].addr \in 1..NumPoints
    BY <1>1 DEF PointsReg
  <2> QED BY <1>1, <2>1, PointsFacts
<1>3. /\ \A y \in PointsLoc : Load(A, y) \in Nat
      /\ \A n \in 1..Load(A, currentPos) : Load(A, px(n)) = n /\ Load(A, py(n)) = n + 1
  BY PointsLoads
<1>4. /\ Adds(Duo, PointsLoc, Nat, A, x, v) /\ Appends(Duo, A, x, v, FALSE)
      /\ ReadsBack(PointsLoc, A, x, v)
  <2>1. Adds(Duo, PointsLoc, Nat, A, x, v)
    BY <1>1, PutAdds, Zenon
  <2>2. Appends(Duo, A, x, v, FALSE)
    BY <1>1, PutPosition, Zenon
  <2>3. ReadsBack(PointsLoc, A, x, v)
    BY <1>1, LoadAfterPut, Zenon
  <2> QED BY <2>1, <2>2, <2>3
<1>5. /\ MemOK(Duo, PointsLoc, Nat)' /\ mem' = mem
      /\ \A u \in Duo : u # A => Entries(u)' = Entries(u)
  BY <1>4 DEF Adds
<1>6. Load(A, x)' = v /\ \A y \in PointsLoc : y # x => Load(A, y)' = Load(A, y)
  BY <1>4 DEF ReadsBack
<1>7. pc'[A] = to /\ pc'[B] = pc[B]
  BY <1>1
<1>8. /\ \A n \in 1..NumPoints : Load(A, px(n)) <= n /\ Load(A, py(n)) <= n + 1
      /\ pc[A] # "malloc" => Load(A, currentPos) = a - 1
      /\ pc[A] \in {"y", "publish"} => Load(A, px(a)) >= a
      /\ pc[A] = "publish" => Load(A, py(a)) >= a + 1
      /\ Load(A, currentPos) <= NumPoints
  BY <1>2 DEF PointsInv, PointsWords, PointsWriting
<1>9. /\ \/ x = px(a) /\ v = a /\ pc[A] = "x" /\ to = "y"
         \/ x = py(a) /\ v = a + 1 /\ pc[A] = "y" /\ to = "publish"
         \/ x = currentPos /\ v = a /\ pc[A] = "publish" /\ to = "malloc"
      /\ Load(A, currentPos) = a - 1
  BY <1>2, <1>8
<1>10. Load(A, x) <= v
  BY <1>2, <1>3, <1>8, <1>9
<1>11. Rising(A, PointsLoc)'
  <2>1. Appends(Duo, A, x, v, FALSE) /\ mem' = mem /\ (x \in PointsLoc => Load(A, x) <= v)
    BY <1>4, <1>5, <1>10
  <2> QED BY <1>1, <2>1, RisingPut
<1>12. PointsTypes'
  BY <1>1, <1>5, <1>7, <1>9 DEF PointsInv, PointsTypes
<1>13. PointsWords'
  <2>1. ASSUME NEW n \in 1..NumPoints
        PROVE  Load(A, px(n))' <= n /\ Load(A, py(n))' <= n + 1
    <3>1. px(n) \in PointsLoc /\ py(n) \in PointsLoc
      BY PointsFacts
    <3>2. /\ x = px(n) => v = n
          /\ x = py(n) => v = n + 1
      BY <1>9, PointsFacts
    <3> QED BY <1>6, <1>8, <3>1, <3>2
  <2>2. Load(A, currentPos)' <= NumPoints
    BY <1>1, <1>2, <1>6, <1>8, <1>9, PointsFacts
  <2> QED BY <1>5, <1>11, <2>1, <2>2, DuoFacts DEF PointsInv, PointsWords
<1>14. PointsFirst'
  <2> SUFFICES ASSUME NEW n \in 1..NumPoints
               PROVE  /\ Ahead(A, currentPos, {k \in Nat : k >= n}, px(n), n)'
                      /\ Ahead(A, currentPos, {k \in Nat : k >= n}, py(n), n + 1)'
    BY DEF PointsFirst
  <2> DEFINE S == {k \in Nat : k >= n}
  <2>1. Ahead(A, currentPos, S, px(n), n) /\ Ahead(A, currentPos, S, py(n), n + 1)
    BY DEF PointsInv, PointsFirst
  <2>2. px(n) \in PointsLoc /\ py(n) \in PointsLoc /\ n \in Int /\ n + 1 \in Int
    BY PointsFacts
  <2>3. ASSUME x = currentPos, v \in S PROVE Load(A, px(n)) >= n /\ Load(A, py(n)) >= n + 1
    <3>1. v = a /\ pc[A] = "publish" /\ n <= a
      BY <1>9, <2>3, PointsFacts
    <3>2. n = a \/ n \in 1..Load(A, currentPos)
      BY <1>2, <1>9, <3>1
    <3> QED BY <1>3, <1>8, <2>2, <3>1, <3>2
  <2> HIDE DEF S
  <2>4. /\ currentPos \in PointsLoc /\ Appends(Duo, A, x, v, FALSE) /\ mem' = mem
        /\ x \in PointsLoc => Load(A, x) <= v
        /\ x = currentPos /\ v \in S => Load(A, px(n)) >= n
        /\ x = currentPos /\ v \in S => Load(A, py(n)) >= n + 1
    BY <1>1, <1>4, <1>5, <1>10, <2>3
  <2>5. Ahead(A, currentPos, S, px(n), n)'
    BY <1>1, <2>1, <2>2, <2>4, AheadPut
  <2>6. Ahead(A, currentPos, S, py(n), n + 1)'
    BY <1>1, <2>1, <2>2, <2>4, AheadPut
  <2> QED BY <2>5, <2>6 DEF S
<1>15. PointsWriting'
  <2>1. reg'[A].addr = a
    BY <1>1, <1>2
  <2>2. Load(A, currentPos)' = IF to = "malloc" THEN a ELSE a - 1
    BY <1>1, <1>6, <1>9, PointsFacts
  <2>3. to \in {"y", "publish"} => Load(A, px(a))' >= a
    <3>1. CASE x = px(a)
      <4>1. v = a
        BY <1>9, <3>1, PointsFacts
      <4> QED BY <1>2, <1>6, <3>1, <4>1
    <3>2. CASE x # px(a)
      <4>1. to \in {"y", "publish"} => Load(A, px(a)) >= a
        BY <1>8, <1>9, <3>2
      <4> QED BY <1>2, <1>6, <3>2, <4>1
    <3> QED BY <3>1, <3>2
  <2>4. to = "publish" => Load(A, py(a))' >= a + 1
    <3>1. to = "publish" => x = py(a) /\ v = a + 1
      BY <1>9
    <3> QED BY <1>2, <1>6, <3>1
  <2> QED BY <1>1, <1>7, <2>2, <2>1, <2>3, <2>4 DEF PointsWriting
<1>16. PointsReading'
  BY <1>1, <1>5, <1>7 DEF PointsInv, PointsReading
<1> QED BY <1>12, <1>13, <1>14, <1>15, <1>16 DEF PointsInv

(* Every statement of the writer preserves the invariant.                  *)
LEMMA PointsWriterStep ==
  ASSUME PointsInv, UNCHANGED rigid, PointsWriter
  PROVE  PointsInv'
<1> DEFINE a == reg[A].addr
           cur == Load(A, currentPos)
<1>1. /\ A \in Duo /\ B \in Duo /\ A # B /\ pc \in [Duo -> PointsLabel]
      /\ reg \in [Duo -> PointsReg] /\ NumPoints \in Nat
      /\ currentPos \in PointsLoc
      /\ {"malloc", "x", "y", "publish"} \subseteq PointsLabel
  BY DuoFacts, PointsFacts DEF PointsInv, PointsTypes, PointsLabel
<1>2. a \in 1..NumPoints /\ px(a) \in PointsLoc /\ py(a) \in PointsLoc
  <2>1. a \in 1..NumPoints
    BY <1>1 DEF PointsReg
  <2> QED BY <2>1, PointsFacts
<1>3. /\ cur \in Nat /\ cur >= 1
      /\ \A n \in 1..cur : Load(A, px(n)) = n /\ Load(A, py(n)) = n + 1
      /\ cur = IF pc[A] = "malloc" THEN a ELSE a - 1
  <2>1. /\ cur \in Nat /\ mem[currentPos] <= cur /\ mem[currentPos] \in Nat
        /\ \A n \in 1..cur : Load(A, px(n)) = n /\ Load(A, py(n)) = n + 1
    BY <1>1, PointsLoads
  <2> QED BY <2>1 DEF PointsInv, PointsWords, PointsWriting
<1>4. CASE /\ a < NumPoints
           /\ Local(A, "malloc", "x")
           /\ reg' = [reg EXCEPT ![A].addr = @ + 1]
  <2>1. /\ pc' = [pc EXCEPT ![A] = "x"] /\ pc[A] = "malloc" /\ Silent
    BY <1>4 DEF Local, Go
  <2>2. pc' \in [Duo -> PointsLabel] /\ pc'[A] = "x" /\ pc'[B] = pc[B]
    BY <1>1, <2>1
  <2>3. reg' \in [Duo -> PointsReg] /\ reg'[B] = reg[B] /\ reg'[A].addr = a + 1
    <3>1. reg[A] \in PointsReg /\ a + 1 \in 1..NumPoints
      BY <1>1, <1>2, <1>4
    <3> DEFINE r == [reg[A] EXCEPT !.addr = a + 1]
    <3>2. reg' = [reg EXCEPT ![A] = r]
      BY <1>4
    <3>3. r \in PointsReg /\ r.addr = a + 1
      BY <3>1 DEF PointsReg
    <3> HIDE DEF r
    <3> QED BY <1>1, <3>2, <3>3
  <2>4. mem' = mem /\ Load(A, currentPos)' = cur
    BY <2>1, LoadIsNewest DEF Silent
  <2>5. PointsWriting'
    BY <1>2, <1>3, <2>1, <2>2, <2>3, <2>4 DEF PointsWriting
  <2>6. PointsReading'
    BY <2>2, <2>3, <2>4 DEF PointsInv, PointsReading
  <2> QED BY <2>1, <2>2, <2>3, <2>5, <2>6, PointsSilentStep
<1>5. CASE Write(A, "x", px(a), Load(A, px(cur)) + 1, "y") /\ Keep
  <2>1. Load(A, px(cur)) + 1 = a
    BY <1>2, <1>3, <1>5 DEF Write, Go
  <2>2. Put(A, px(a), a, FALSE) /\ pc' = [pc EXCEPT ![A] = "y"] /\ pc[A] = "x"
    BY <1>5, <2>1 DEF Write, Go
  <2>3. PICK v \in Nat, to \in PointsLabel :
          /\ v = a /\ to = "y" /\ Put(A, px(a), v, FALSE)
          /\ pc' = [pc EXCEPT ![A] = to]
    <3>1. a \in Nat /\ "y" \in PointsLabel
      BY <1>1, <1>2
    <3> QED BY <2>2, <3>1, Zenon
  <2> QED BY <1>2, <1>5, <2>2, <2>3, PointsStore DEF Keep
<1>6. CASE Write(A, "y", py(a), Load(A, py(cur)) + 1, "publish") /\ Keep
  <2>1. Load(A, py(cur)) + 1 = a + 1
    BY <1>2, <1>3, <1>6 DEF Write, Go
  <2>2. Put(A, py(a), a + 1, FALSE) /\ pc' = [pc EXCEPT ![A] = "publish"] /\ pc[A] = "y"
    BY <1>6, <2>1 DEF Write, Go
  <2>3. PICK v \in Nat, to \in PointsLabel :
          /\ v = a + 1 /\ to = "publish" /\ Put(A, py(a), v, FALSE)
          /\ pc' = [pc EXCEPT ![A] = to]
    <3>1. a + 1 \in Nat /\ "publish" \in PointsLabel
      BY <1>1, <1>2
    <3> QED BY <2>2, <3>1, Zenon
  <2> QED BY <1>2, <1>6, <2>2, <2>3, PointsStore DEF Keep
<1>7. CASE Write(A, "publish", currentPos, a, "malloc") /\ Keep
  <2>1. Put(A, currentPos, a, FALSE) /\ pc' = [pc EXCEPT ![A] = "malloc"] /\ pc[A] = "publish"
    BY <1>7 DEF Write, Go
  <2>2. PICK v \in Nat, to \in PointsLabel :
          /\ v = a /\ to = "malloc" /\ Put(A, currentPos, v, FALSE)
          /\ pc' = [pc EXCEPT ![A] = to]
    <3>1. a \in Nat /\ "malloc" \in PointsLabel
      BY <1>1, <1>2
    <3> QED BY <2>1, <3>1, Zenon
  <2> QED BY <1>1, <1>7, <2>1, <2>2, PointsStore DEF Keep
<1> QED BY <1>4, <1>5, <1>6, <1>7 DEF PointsWriter

(* What a step of another thread than the writer has to show.              *)
LEMMA PointsReadStep ==
  ASSUME PointsInv, UNCHANGED rigid, Silent,
         pc' \in [Duo -> PointsLabel], reg' \in [Duo -> PointsReg],
         pc'[A] = pc[A], reg'[A] = reg[A], PointsReading'
  PROVE  PointsInv'
<1>1. \A x : Load(A, x)' = Load(A, x)
  BY LoadIsNewest DEF Silent
<1>2. PointsWriting'
  BY <1>1 DEF PointsInv, PointsWriting
<1> QED BY <1>2, PointsSilentStep DEF PointsInv, PointsTypes

(* Every statement of the reader preserves the invariant.                  *)
LEMMA PointsReaderStep ==
  ASSUME PointsInv, UNCHANGED rigid, PointsReader
  PROVE  PointsInv'
<1>1. /\ A \in Duo /\ B \in Duo /\ A # B /\ pc \in [Duo -> PointsLabel]
      /\ reg \in [Duo -> PointsReg] /\ reg[B] \in PointsReg
      /\ currentPos \in PointsLoc /\ mem[currentPos] \in Nat
      /\ mem[currentPos] >= 1 /\ mem[currentPos] <= NumPoints
      /\ Load(B, currentPos) = mem[currentPos] /\ NumPoints \in Nat
      /\ {"loop", "p", "x", "q", "y", "check", "abort", "done"} \subseteq PointsLabel
  <2>1. /\ currentPos \in PointsLoc /\ NumPoints \in Nat
    BY PointsFacts
  <2>2. /\ mem[currentPos] \in Nat /\ Load(A, currentPos) \in Nat
        /\ mem[currentPos] <= Load(A, currentPos) /\ Load(B, currentPos) = mem[currentPos]
    BY <2>1, PointsLoads
  <2> QED BY <2>1, <2>2, DuoFacts DEF PointsInv, PointsTypes, PointsWords, PointsLabel
<1>2. \A n \in 1..mem[currentPos] :
        /\ mem[px(n)] = n /\ mem[py(n)] = n + 1 /\ n \in Nat
        /\ Load(B, px(n)) = n /\ Load(B, py(n)) = n + 1
  <2> SUFFICES ASSUME NEW n \in 1..mem[currentPos]
               PROVE  /\ mem[px(n)] = n /\ mem[py(n)] = n + 1 /\ n \in Nat
                      /\ Load(B, px(n)) = n /\ Load(B, py(n)) = n + 1
    OBVIOUS
  <2>1. px(n) \in PointsLoc /\ py(n) \in PointsLoc
    BY <1>1, PointsFacts
  <2> QED BY <1>1, <2>1, PointsLoads
<1>3. PointsReading
  BY DEF PointsInv
<1>4. CASE Local(B, "loop", IF Load(B, currentPos) # NULL THEN "p" ELSE "done") /\ Keep
  <2>1. PICK to \in {"p", "done"} : pc' = [pc EXCEPT ![B] = to]
    BY <1>4 DEF Local, Go
  <2>2. pc' \in [Duo -> PointsLabel] /\ pc'[A] = pc[A] /\ pc'[B] = to
    BY <1>1, <2>1
  <2>3. Silent /\ reg' = reg /\ mem' = mem
    BY <1>4 DEF Local, Silent, Keep
  <2>4. PointsReading'
    BY <2>2 DEF PointsReading
  <2> QED BY <1>1, <2>2, <2>3, <2>4, PointsReadStep
<1>5. CASE Read(B, "p", "p", currentPos, "x")
  <2>1. /\ pc' = [pc EXCEPT ![B] = "x"] /\ Silent /\ mem' = mem
        /\ reg' = [reg EXCEPT ![B].p = mem[currentPos]]
    BY <1>1, <1>5 DEF Read, Go, Silent
  <2>2. pc' \in [Duo -> PointsLabel] /\ pc'[A] = pc[A] /\ pc'[B] = "x"
    BY <1>1, <2>1
  <2>3. reg' \in [Duo -> PointsReg] /\ reg'[A] = reg[A] /\ reg'[B].p = mem[currentPos]
    BY <1>1, <2>1 DEF PointsReg
  <2>4. PointsReading'
    BY <1>1, <2>1, <2>2, <2>3 DEF PointsReading
  <2> QED BY <2>1, <2>2, <2>3, <2>4, PointsReadStep
<1>6. CASE Read(B, "x", "x", px(reg[B].p), "q")
  <2>1. reg[B].p \in 1..mem[currentPos] /\ Load(B, px(reg[B].p)) = reg[B].p
    BY <1>2, <1>3, <1>6 DEF PointsReading, Read, Go
  <2>2. /\ pc' = [pc EXCEPT ![B] = "q"] /\ Silent /\ mem' = mem
        /\ reg' = [reg EXCEPT ![B].x = reg[B].p]
    BY <1>6, <2>1 DEF Read, Go, Silent
  <2>3. pc' \in [Duo -> PointsLabel] /\ pc'[A] = pc[A] /\ pc'[B] = "q"
    BY <1>1, <2>2
  <2>4. /\ reg' \in [Duo -> PointsReg] /\ reg'[A] = reg[A]
        /\ reg'[B].x = reg[B].p /\ reg'[B].p = reg[B].p
    BY <1>1, <2>2 DEF PointsReg
  <2>5. PointsReading'
    BY <2>1, <2>2, <2>3, <2>4 DEF PointsReading
  <2> QED BY <2>2, <2>3, <2>4, <2>5, PointsReadStep
<1>7. CASE Read(B, "q", "q", currentPos, "y")
  <2>1. /\ pc' = [pc EXCEPT ![B] = "y"] /\ Silent /\ mem' = mem /\ pc[B] = "q"
        /\ reg' = [reg EXCEPT ![B].q = mem[currentPos]]
    BY <1>1, <1>7 DEF Read, Go, Silent
  <2>2. pc' \in [Duo -> PointsLabel] /\ pc'[A] = pc[A] /\ pc'[B] = "y"
    BY <1>1, <2>1
  <2>3. /\ reg' \in [Duo -> PointsReg] /\ reg'[A] = reg[A]
        /\ reg'[B].q = mem[currentPos] /\ reg'[B].x = reg[B].x /\ reg'[B].p = reg[B].p
    BY <1>1, <2>1 DEF PointsReg
  <2>4. reg[B].p \in 1..mem[currentPos] /\ reg[B].x = reg[B].p
    BY <1>3, <2>1 DEF PointsReading
  <2>5. PointsReading'
    BY <1>1, <2>1, <2>2, <2>3, <2>4 DEF PointsReading
  <2> QED BY <2>1, <2>2, <2>3, <2>5, PointsReadStep
<1>8. CASE Read(B, "y", "y", py(reg[B].q), "check")
  <2>1. /\ reg[B].p \in 1..mem[currentPos] /\ reg[B].x = reg[B].p
        /\ reg[B].q \in reg[B].p..mem[currentPos]
    BY <1>3, <1>8 DEF PointsReading, Read, Go
  <2>2. reg[B].q \in 1..mem[currentPos]
    BY <1>1, <2>1
  <2>3. Load(B, py(reg[B].q)) = reg[B].q + 1 /\ reg[B].q + 1 \in Nat
    BY <1>2, <2>2
  <2>4. /\ pc' = [pc EXCEPT ![B] = "check"] /\ Silent /\ mem' = mem
        /\ reg' = [reg EXCEPT ![B].y = reg[B].q + 1]
    BY <1>8, <2>3 DEF Read, Go, Silent
  <2>5. pc' \in [Duo -> PointsLabel] /\ pc'[A] = pc[A] /\ pc'[B] = "check"
    BY <1>1, <2>4
  <2>6. /\ reg' \in [Duo -> PointsReg] /\ reg'[A] = reg[A]
        /\ reg'[B].y = reg[B].q + 1 /\ reg'[B].x = reg[B].x
        /\ reg'[B].p = reg[B].p /\ reg'[B].q = reg[B].q
    BY <1>1, <2>3, <2>4 DEF PointsReg
  <2>7. PointsReading'
    BY <2>1, <2>4, <2>5, <2>6 DEF PointsReading
  <2> QED BY <2>4, <2>5, <2>6, <2>7, PointsReadStep
<1>9. CASE Local(B, "check", IF reg[B].x + 1 # reg[B].y THEN "abort" ELSE "loop") /\ Keep
  <2>1. PICK to \in {"abort", "loop"} :
          pc' = [pc EXCEPT ![B] = to] /\ (to = "abort" => reg[B].x + 1 # reg[B].y)
    BY <1>9 DEF Local, Go
  <2>2. pc' \in [Duo -> PointsLabel] /\ pc'[A] = pc[A] /\ pc'[B] = to
    BY <1>1, <2>1
  <2>3. Silent /\ reg' = reg /\ mem' = mem /\ pc[B] = "check"
    BY <1>9 DEF Local, Go, Silent, Keep
  <2>4. PointsReading'
    BY <1>3, <2>1, <2>2, <2>3 DEF PointsReading
  <2> QED BY <1>1, <2>2, <2>3, <2>4, PointsReadStep
<1> QED BY <1>4, <1>5, <1>6, <1>7, <1>8, <1>9 DEF PointsReader

(* main's join preserves the invariant.                                    *)
LEMMA PointsJoinStep ==
  ASSUME PointsInv, UNCHANGED rigid, JoinBoth
  PROVE  PointsInv'
<1>1. /\ Silent /\ pc' = [pc EXCEPT ![Main] = "exit"] /\ reg' = reg /\ mem' = mem
  BY DEF JoinBoth, Await, Go, Keep, Silent
<1>2. pc' \in [Duo -> PointsLabel] /\ pc'[A] = pc[A] /\ pc'[B] = pc[B]
  BY <1>1, DuoFacts DEF PointsInv, PointsTypes, PointsLabel
<1>3. PointsReading'
  BY <1>1, <1>2 DEF PointsInv, PointsReading
<1> QED BY <1>1, <1>2, <1>3, PointsReadStep DEF PointsInv, PointsTypes

(* A store that becomes visible preserves the invariant.                   *)
LEMMA PointsFlushStep ==
  ASSUME PointsInv, NEW t \in Duo, NEW x \in DOMAIN mem, Commit(t, x),
         UNCHANGED <<rigid, pc, reg, env>>
  PROVE  PointsInv'
<1>1. /\ MemOK(Duo, PointsLoc, Nat) /\ A \in Duo /\ B \in Duo /\ model = "TSO" /\ Weak
      /\ x \in PointsLoc /\ Nat \subseteq Int /\ model' = model /\ pc' = pc /\ reg' = reg
      /\ PointsLoc \in SUBSET PointsLoc /\ Rising(A, PointsLoc)
      /\ currentPos \in PointsLoc /\ NumPoints \in Nat
  BY DuoFacts, PointsFacts DEF PointsInv, PointsTypes, PointsWords, MemOK, rigid, Weak
<1>2. /\ MemOK(Duo, PointsLoc, Nat)'
      /\ \A u \in Duo : u # t => Entries(u)' = Entries(u)
      /\ \E e \in Entries(t) : e.loc = x
  BY <1>1, CommitEntries
<1>3. t = A
  BY <1>2 DEF PointsInv, PointsWords
<1>4. \A y \in PointsLoc : Load(A, y)' = Load(A, y)
  BY <1>1, <1>3, LoadAfterCommit
<1>5. /\ Rising(A, PointsLoc)'
      /\ \A y \in PointsLoc : mem[y] <= mem'[y] /\ mem[y] \in Int /\ mem'[y] \in Int
  BY <1>1, <1>3, RisingCommit
<1>6. PointsTypes'
  BY <1>1, <1>2 DEF PointsInv, PointsTypes
<1>7. PointsWords'
  <2>1. \A u \in Duo : u # A => Entries(u)' = {}
    BY <1>2, <1>3 DEF PointsInv, PointsWords
  <2>2. mem'[currentPos] >= 1
    BY <1>1, <1>5 DEF PointsInv, PointsWords
  <2>3. /\ Load(A, currentPos)' <= NumPoints
        /\ \A n \in 1..NumPoints : Load(A, px(n))' <= n /\ Load(A, py(n))' <= n + 1
    BY <1>1, <1>4, PointsFacts DEF PointsInv, PointsWords
  <2> QED BY <1>5, <2>1, <2>2, <2>3, DuoFacts DEF PointsWords
<1>8. PointsFirst'
  <2> SUFFICES ASSUME NEW n \in 1..NumPoints
               PROVE  /\ Ahead(A, currentPos, {k \in Nat : k >= n}, px(n), n)'
                      /\ Ahead(A, currentPos, {k \in Nat : k >= n}, py(n), n + 1)'
    BY DEF PointsFirst
  <2> DEFINE S == {k \in Nat : k >= n}
  <2>1. Ahead(A, currentPos, S, px(n), n) /\ Ahead(A, currentPos, S, py(n), n + 1)
    BY DEF PointsInv, PointsFirst
  <2>2. px(n) \in PointsLoc /\ py(n) \in PointsLoc /\ n \in Int /\ n + 1 \in Int
    BY PointsFacts
  <2> HIDE DEF S
  <2>3. Ahead(A, currentPos, S, px(n), n)'
    BY <1>1, <1>3, <2>1, <2>2, AheadCommit
  <2>4. Ahead(A, currentPos, S, py(n), n + 1)'
    BY <1>1, <1>3, <2>1, <2>2, AheadCommit
  <2> QED BY <2>3, <2>4 DEF S
<1>9. PointsWriting'
  <2>1. reg[A].addr \in 1..NumPoints
    BY <1>1 DEF PointsInv, PointsTypes, PointsReg
  <2>2. px(reg[A].addr) \in PointsLoc /\ py(reg[A].addr) \in PointsLoc
    BY <2>1, PointsFacts
  <2> QED BY <1>1, <1>4, <2>2 DEF PointsInv, PointsWriting
<1>10. PointsReading'
  <2>1. reg[B].p \in Nat /\ reg[B].q \in Nat
    BY <1>1 DEF PointsInv, PointsTypes, PointsReg
  <2>2. mem[currentPos] <= mem'[currentPos] /\ mem[currentPos] \in Int /\ mem'[currentPos] \in Int
    BY <1>1, <1>5
  <2> QED BY <1>1, <2>1, <2>2 DEF PointsInv, PointsReading
<1> QED BY <1>6, <1>7, <1>8, <1>9, <1>10 DEF PointsInv

(* A stuttering step preserves the invariant.                              *)
LEMMA PointsStutter == PointsInv /\ UNCHANGED vars => PointsInv'
<1> SUFFICES ASSUME PointsInv, UNCHANGED vars PROVE PointsInv'
  OBVIOUS
<1>1. UNCHANGED rigid /\ Silent /\ pc' = pc /\ reg' = reg /\ mem' = mem
  BY DEF vars, rigid, Silent
<1>2. PointsReading'
  BY <1>1 DEF PointsInv, PointsReading
<1> QED BY <1>1, <1>2, PointsReadStep DEF PointsInv, PointsTypes

-----------------------------------------------------------------------------
(* 31-unsafe_publish.c.                                                    *)

ArenaThread == {ArenaWriter, ArenaReader}
ArenaWords  == {ax(s) : s \in ArenaSlot} \cup {ay(s) : s \in ArenaSlot}
ArenaLoc    == {arenaPos} \cup ArenaWords
ArenaLabel  == {"w_x", "w_y", "w_pub", "r_wait", "r_load", "r_x", "r_y", "r_check", "exit"}
ArenaReg    == [idx : ArenaSlot, seed : Nat \ {0}, p : Nat, x : Nat, y : Nat]

(* a is b some laps earlier or later.                                      *)
Laps(a, b) == \E k \in Int : a = b + k * ArenaSize

(* Laps, slots and the values of a lap, in arithmetic.                     *)
LEMMA LapFacts ==
  ASSUME NEW a \in Int, NEW b \in Int, Laps(a, b)
  PROVE  /\ Laps(b, a) /\ Laps(a + 1, b + 1) /\ Laps(a, b - ArenaSize)
         /\ \A c \in Int : Laps(b, c) => Laps(a, c)
         /\ a > b => a >= b + ArenaSize
<1>1. ArenaSize \in Nat \ {0}
  BY ArenaAssumption
<1>2. PICK k \in Int : a = b + k * ArenaSize
  BY DEF Laps
<1>3. Laps(b, a)
  <2>1. -k \in Int /\ b = a + (-k) * ArenaSize
    BY <1>1, <1>2
  <2> QED BY <2>1 DEF Laps
<1>4. Laps(a + 1, b + 1)
  BY <1>1, <1>2 DEF Laps
<1>5. Laps(a, b - ArenaSize)
  <2>1. k + 1 \in Int /\ a = b - ArenaSize + (k + 1) * ArenaSize
    BY <1>1, <1>2
  <2> QED BY <2>1 DEF Laps
<1>6. ASSUME NEW c \in Int, Laps(b, c) PROVE Laps(a, c)
  <2>1. PICK j \in Int : b = c + j * ArenaSize
    BY <1>6 DEF Laps
  <2>2. k + j \in Int /\ a = c + (k + j) * ArenaSize
    BY <1>1, <1>2, <2>1
  <2> QED BY <2>2 DEF Laps
<1>7. a > b => a >= b + ArenaSize
  <2>1. CASE k <= 0
    <3>1. k * ArenaSize <= 0
      BY <1>1, <2>1
    <3>2. k * ArenaSize \in Int
      BY <1>1
    <3> QED BY <1>2, <3>1, <3>2
  <2>2. CASE k >= 1
    <3>1. k * ArenaSize >= ArenaSize
      BY <1>1, <2>2
    <3>2. k * ArenaSize \in Int
      BY <1>1
    <3> QED BY <1>1, <1>2, <3>1, <3>2
  <2> QED BY <2>1, <2>2
<1> QED BY <1>3, <1>4, <1>5, <1>6, <1>7


ArenaTypes ==
  /\ model = "TSO"
  /\ MemOK(ArenaThread, ArenaLoc, Nat)
  /\ pc \in [ArenaThread -> ArenaLabel]
  /\ pc[ArenaWriter] \in {"w_x", "w_y", "w_pub"}
  /\ reg \in [ArenaThread -> ArenaReg]

(* What may stand in a word: the halves of a slot's Points are some laps   *)
(* from its number.                                                        *)
ArenaFits(x, v) ==
  /\ x = arenaPos => v \in {0} \cup ArenaSlot
  /\ \A s \in ArenaSlot : /\ x = ax(s) => v = 0 \/ Laps(v, s)
                          /\ x = ay(s) => v = 0 \/ Laps(v, s + 1)

(* The writer alone stores, and the halves of a slot only grow.            *)
ArenaStores ==
  /\ Entries(ArenaReader) = {}
  /\ Rising(ArenaWriter, ArenaWords)
  /\ \A x \in ArenaLoc : ArenaFits(x, mem[x])
  /\ \A e \in Entries(ArenaWriter) : ArenaFits(e.loc, e.val)

(* A slot is published after its first Point, and the x of a Point comes   *)
(* after the y of the Points a lap and more before it.                     *)
ArenaFirst ==
  \A s \in ArenaSlot :
    /\ Ahead(ArenaWriter, arenaPos, {s}, ax(s), s)
    /\ Ahead(ArenaWriter, arenaPos, {s}, ay(s), s + 1)
    /\ \A m \in Nat \ {0} :
         Ahead(ArenaWriter, ax(s), {k \in Nat : k >= m + ArenaSize}, ay(s), m + 1)

(* The Point the writer is at, and the Points before it.                   *)
ArenaWriting ==
  LET w == reg[ArenaWriter]
  IN  /\ w.seed >= w.idx /\ Laps(w.seed, w.idx)
      /\ \A s \in ArenaSlot :
           /\ Load(ArenaWriter, ax(s)) <= w.seed
           /\ Load(ArenaWriter, ay(s)) <= w.seed + 1
           /\ \A n \in 1..(w.seed - 1) :
                Laps(n, s) => /\ Load(ArenaWriter, ax(s)) >= n
                              /\ Load(ArenaWriter, ay(s)) >= n + 1
      /\ pc[ArenaWriter] \in {"w_y", "w_pub"} => Load(ArenaWriter, ax(w.idx)) >= w.seed
      /\ pc[ArenaWriter] = "w_pub" => Load(ArenaWriter, ay(w.idx)) >= w.seed + 1

(* What the reader has loaded, of a slot that was published.               *)
ArenaReading ==
  LET r == reg[ArenaReader]
  IN  /\ pc[ArenaReader] \in {"r_x", "r_y", "r_check", "exit"} =>
           r.p \in ArenaSlot /\ mem[ax(r.p)] >= r.p /\ mem[ay(r.p)] >= r.p + 1
      /\ pc[ArenaReader] \in {"r_y", "r_check", "exit"} =>
           Laps(r.x, r.p) /\ mem[ay(r.p)] >= r.x + 1 - ArenaSize
      /\ pc[ArenaReader] \in {"r_check", "exit"} =>
           Laps(r.y, r.p + 1) /\ r.y >= r.x + 1 - ArenaSize

ArenaInv == ArenaTypes /\ ArenaStores /\ ArenaFirst /\ ArenaWriting /\ ArenaReading

(* The words are different words of the memory.                            *)
LEMMA ArenaFacts ==
  /\ ArenaWriter \in ArenaThread /\ ArenaReader \in ArenaThread /\ ArenaWriter # ArenaReader
  /\ ArenaThread = {ArenaWriter, ArenaReader}
  /\ arenaPos \in ArenaLoc /\ arenaPos \notin ArenaWords /\ ArenaWords \in SUBSET ArenaLoc
  /\ ArenaSize \in Nat \ {0} /\ ArenaSlot \subseteq Nat \ {0}
  /\ \A s : /\ s \in ArenaSlot => /\ ax(s) \in ArenaLoc /\ ay(s) \in ArenaLoc
                                  /\ ax(s) \in ArenaWords /\ ay(s) \in ArenaWords
            /\ ax(s) # arenaPos /\ ay(s) # arenaPos
            /\ \A m : ax(s) # ay(m) /\ (ax(s) = ax(m) => s = m) /\ (ay(s) = ay(m) => s = m)
<1>1. \A s : ax(s) # arenaPos /\ ay(s) # arenaPos
  <2> SUFFICES ASSUME NEW s PROVE ax(s) # arenaPos /\ ay(s) # arenaPos
    OBVIOUS
  <2>1. Len(ax(s)) = 2 /\ Len(ay(s)) = 2 /\ Len(arenaPos) = 1
    BY DEF ax, ay, arenaPos
  <2> QED BY <2>1
<1>2. \A s, m : ax(s) # ay(m) /\ (ax(s) = ax(m) => s = m) /\ (ay(s) = ay(m) => s = m)
  <2> SUFFICES ASSUME NEW s, NEW m
               PROVE  ax(s) # ay(m) /\ (ax(s) = ax(m) => s = m) /\ (ay(s) = ay(m) => s = m)
    OBVIOUS
  <2>1. /\ ax(s)[1] = "x" /\ ax(s)[2] = s /\ ax(m)[2] = m
        /\ ay(m)[1] = "y" /\ ay(s)[2] = s /\ ay(m)[2] = m
    BY DEF ax, ay
  <2> QED BY <2>1
<1>3. ArenaSize \in Nat \ {0} /\ ArenaSlot \subseteq Nat \ {0}
  BY ArenaAssumption DEF ArenaSlot
<1>4. /\ ArenaWriter \in ArenaThread /\ ArenaReader \in ArenaThread /\ ArenaWriter # ArenaReader
      /\ ArenaThread = {ArenaWriter, ArenaReader}
  BY DEF ArenaThread, ArenaWriter, ArenaReader
<1>5. arenaPos \notin ArenaWords
  BY <1>1 DEF ArenaWords
<1> QED BY <1>1, <1>2, <1>3, <1>4, <1>5 DEF ArenaLoc, ArenaWords

(* Without stores of its own the reader reads memory.                      *)
LEMMA ArenaLoads ==
  ASSUME ArenaInv
  PROVE  /\ \A x \in ArenaLoc : /\ Load(ArenaReader, x) = mem[x] /\ mem[x] \in Nat
                                /\ Load(ArenaWriter, x) \in Nat
         /\ \A s \in ArenaSlot :
              /\ mem[ax(s)] # 0 => Laps(mem[ax(s)], s)
              /\ mem[ay(s)] # 0 => Laps(mem[ay(s)], s + 1)
         /\ mem[arenaPos] \in {0} \cup ArenaSlot
<1>1. /\ MemOK(ArenaThread, ArenaLoc, Nat) /\ ArenaWriter \in ArenaThread
      /\ ArenaReader \in ArenaThread /\ Entries(ArenaReader) = {}
  BY ArenaFacts DEF ArenaInv, ArenaTypes, ArenaStores
<1>2. \A x \in ArenaLoc : /\ Load(ArenaReader, x) = mem[x] /\ mem[x] \in Nat
                          /\ Load(ArenaWriter, x) \in Nat
  BY <1>1, LoadEntries
<1>3. \A x \in ArenaLoc : ArenaFits(x, mem[x])
  BY DEF ArenaInv, ArenaStores
<1>4. mem[arenaPos] \in {0} \cup ArenaSlot
  BY <1>3, ArenaFacts DEF ArenaFits
<1>5. ASSUME NEW s \in ArenaSlot
      PROVE  /\ mem[ax(s)] # 0 => Laps(mem[ax(s)], s)
             /\ mem[ay(s)] # 0 => Laps(mem[ay(s)], s + 1)
  <2>1. ax(s) \in ArenaLoc /\ ay(s) \in ArenaLoc
    BY ArenaFacts
  <2> QED BY <1>3, <2>1 DEF ArenaFits
<1> QED BY <1>2, <1>4, <1>5

(* The invariant holds when the threads start.                             *)
LEMMA ArenaInitInv == ArenaInit => ArenaInv
<1> SUFFICES ASSUME ArenaInit PROVE ArenaInv
  OBVIOUS
<1>1. /\ model = "TSO"
      /\ mem = [l \in ArenaLoc |-> 0]
      /\ buf = [t \in ArenaThread |-> << >>]
      /\ pc = [t \in ArenaThread |-> IF t = ArenaWriter THEN "w_x" ELSE "r_wait"]
      /\ reg = [t \in ArenaThread |-> [idx |-> 1, seed |-> 1, p |-> 0, x |-> 0, y |-> 0]]
  <2>1. ArenaLoc = {arenaPos} \cup {ax(s) : s \in ArenaSlot} \cup {ay(s) : s \in ArenaSlot}
    BY DEF ArenaLoc, ArenaWords
  <2> QED BY <2>1 DEF ArenaInit, Boot, ArenaThread, NULL
<1>2. /\ \A t \in ArenaThread : buf[t] = << >> /\ Entries(t) = {}
      /\ Len(buf[ArenaWriter]) = 0
      /\ pc[ArenaWriter] = "w_x" /\ pc[ArenaReader] = "r_wait"
      /\ reg[ArenaWriter].idx = 1 /\ reg[ArenaWriter].seed = 1
      /\ \A x \in ArenaLoc : mem[x] = 0
  BY <1>1, ArenaFacts DEF Entries
<1>3. ArenaTypes
  <2>1. pc \in [ArenaThread -> ArenaLabel]
    BY <1>1 DEF ArenaLabel
  <2>2. reg \in [ArenaThread -> ArenaReg]
    <3>1. 1 \in ArenaSlot
      BY ArenaFacts DEF ArenaSlot
    <3> QED BY <1>1, <3>1 DEF ArenaReg
  <2>3. MemOK(ArenaThread, ArenaLoc, Nat)
    BY <1>1 DEF MemOK
  <2> QED BY <1>1, <1>2, <2>1, <2>2, <2>3 DEF ArenaTypes
<1>4. \A x \in ArenaLoc : Load(ArenaWriter, x) = 0
  <2>1. /\ MemOK(ArenaThread, ArenaLoc, Nat) /\ ArenaWriter \in ArenaThread
        /\ Entries(ArenaWriter) = {}
    BY <1>2, <1>3, ArenaFacts DEF ArenaTypes
  <2> QED BY <1>2, <2>1, LoadEntries
<1>5. ArenaStores
  <2>1. Rising(ArenaWriter, ArenaWords)
    BY <1>2 DEF Rising
  <2> QED BY <1>2, <2>1, ArenaFacts DEF ArenaStores, ArenaFits
<1>6. ArenaFirst
  <2> SUFFICES ASSUME NEW s \in ArenaSlot
               PROVE  /\ Ahead(ArenaWriter, arenaPos, {s}, ax(s), s)
                      /\ Ahead(ArenaWriter, arenaPos, {s}, ay(s), s + 1)
                      /\ \A m \in Nat \ {0} :
                           Ahead(ArenaWriter, ax(s), {k \in Nat : k >= m + ArenaSize}, ay(s), m + 1)
    BY DEF ArenaFirst
  <2>1. mem[arenaPos] = 0 /\ mem[ax(s)] = 0 /\ 0 \notin {s}
    BY <1>2, ArenaFacts
  <2>2. \A m \in Nat \ {0} : 0 \notin {k \in Nat : k >= m + ArenaSize}
    BY ArenaFacts
  <2> QED BY <1>2, <2>1, <2>2 DEF Ahead
<1>7. ArenaWriting
  <2>1. Laps(1, 1)
    <3>1. 0 \in Int /\ 1 = 1 + 0 * ArenaSize
      BY ArenaFacts
    <3> QED BY <3>1 DEF Laps
  <2>2. \A n : n \notin 1..(1 - 1)
    OBVIOUS
  <2> QED BY <1>2, <1>4, <2>1, <2>2, ArenaFacts DEF ArenaWriting
<1>8. ArenaReading
  BY <1>2 DEF ArenaReading
<1> QED BY <1>3, <1>5, <1>6, <1>7, <1>8 DEF ArenaInv

(* A step that touches no memory is the reader's.                          *)
LEMMA ArenaReadStep ==
  ASSUME ArenaInv, UNCHANGED rigid, Silent,
         pc' \in [ArenaThread -> ArenaLabel], reg' \in [ArenaThread -> ArenaReg],
         pc'[ArenaWriter] = pc[ArenaWriter], reg'[ArenaWriter] = reg[ArenaWriter],
         ArenaReading'
  PROVE  ArenaInv'
<1>1. /\ MemOK(ArenaThread, ArenaLoc, Nat)'
      /\ mem' = mem /\ buf' = buf /\ model' = model
      /\ \A u \in ArenaThread : Entries(u)' = Entries(u)
  BY SilentEntries DEF ArenaInv, ArenaTypes, Silent, rigid
<1>2. \A x : Load(ArenaWriter, x)' = Load(ArenaWriter, x)
  BY <1>1, LoadIsNewest
<1>3. ArenaTypes'
  BY <1>1 DEF ArenaInv, ArenaTypes
<1>4. ArenaStores'
  BY <1>1, ArenaFacts DEF ArenaInv, ArenaStores, Rising
<1>5. ArenaFirst'
  BY <1>1 DEF ArenaInv, ArenaFirst, Ahead, Reached
<1>6. ArenaWriting'
  BY <1>2 DEF ArenaInv, ArenaWriting
<1> QED BY <1>3, <1>4, <1>5, <1>6 DEF ArenaInv

(* Which store the writer is at, as the Point s in slot i.                 *)
ArenaStoreOf(s, i, x, v) ==
  \/ x = ax(i) /\ v = s /\ pc[ArenaWriter] = "w_x"
  \/ x = ay(i) /\ v = s + 1 /\ pc[ArenaWriter] = "w_y"
  \/ x = arenaPos /\ v = i /\ pc[ArenaWriter] = "w_pub"

(* The stores of the writer, as far as they concern memory.                *)
LEMMA ArenaStore ==
  ASSUME ArenaInv, UNCHANGED rigid,
         NEW x \in ArenaLoc, NEW v \in Nat, Put(ArenaWriter, x, v, FALSE),
         NEW s \in Nat \ {0}, NEW i \in ArenaSlot,
         reg[ArenaWriter].seed = s, reg[ArenaWriter].idx = i, ArenaStoreOf(s, i, x, v),
         pc' \in [ArenaThread -> ArenaLabel], pc'[ArenaReader] = pc[ArenaReader],
         pc'[ArenaWriter] \in {"w_x", "w_y", "w_pub"},
         reg' \in [ArenaThread -> ArenaReg], reg'[ArenaReader] = reg[ArenaReader],
         ArenaWriting'
  PROVE  ArenaInv'
<1>1. /\ MemOK(ArenaThread, ArenaLoc, Nat) /\ ArenaWriter \in ArenaThread
      /\ ArenaReader \in ArenaThread /\ ArenaWriter # ArenaReader /\ FALSE \in BOOLEAN
      /\ model' = model /\ Nat \subseteq Int /\ Weak
      /\ ArenaWords \in SUBSET ArenaLoc /\ Rising(ArenaWriter, ArenaWords)
      /\ arenaPos \in ArenaLoc /\ arenaPos \notin ArenaWords
      /\ ArenaSize \in Nat \ {0} /\ i \in Nat \ {0}
  BY ArenaFacts DEF ArenaInv, ArenaTypes, ArenaStores, rigid, Weak
<1>2. /\ Adds(ArenaThread, ArenaLoc, Nat, ArenaWriter, x, v)
      /\ Appends(ArenaThread, ArenaWriter, x, v, FALSE)
  <2>1. Adds(ArenaThread, ArenaLoc, Nat, ArenaWriter, x, v)
    BY <1>1, PutAdds, Zenon
  <2>2. Appends(ArenaThread, ArenaWriter, x, v, FALSE)
    BY <1>1, PutPosition, Zenon
  <2> QED BY <2>1, <2>2
<1>3. /\ MemOK(ArenaThread, ArenaLoc, Nat)' /\ mem' = mem
      /\ \E e : /\ e.loc = x /\ e.val = v
                /\ Entries(ArenaWriter)' = Entries(ArenaWriter) \cup {e}
      /\ Entries(ArenaReader)' = Entries(ArenaReader)
  BY <1>1, <1>2 DEF Adds
<1>4. /\ s >= i /\ Laps(s, i)
      /\ \A m \in ArenaSlot :
           /\ Load(ArenaWriter, ax(m)) <= s /\ Load(ArenaWriter, ay(m)) <= s + 1
           /\ \A n \in 1..(s - 1) : Laps(n, m) => /\ Load(ArenaWriter, ax(m)) >= n
                                                  /\ Load(ArenaWriter, ay(m)) >= n + 1
      /\ pc[ArenaWriter] \in {"w_y", "w_pub"} => Load(ArenaWriter, ax(i)) >= s
      /\ pc[ArenaWriter] = "w_pub" => Load(ArenaWriter, ay(i)) >= s + 1
  BY DEF ArenaInv, ArenaWriting
<1>5. \A y \in ArenaLoc : Load(ArenaWriter, y) \in Nat
  BY ArenaLoads
<1>6. x \in ArenaWords => Load(ArenaWriter, x) <= v
  BY <1>1, <1>4 DEF ArenaStoreOf
<1>7. Rising(ArenaWriter, ArenaWords)'
  BY <1>1, <1>2, <1>3, <1>6, RisingPut
<1>8. ArenaTypes'
  BY <1>1, <1>3 DEF ArenaInv, ArenaTypes
<1>9. ArenaFits(x, v)
  <2>1. Laps(s + 1, i + 1)
    BY <1>1, <1>4, LapFacts
  <2>2. \A m : /\ ax(m) # arenaPos /\ ay(m) # arenaPos
               /\ ax(i) # ay(m) /\ ay(i) # ax(m)
               /\ ax(i) = ax(m) => i = m
               /\ ay(i) = ay(m) => i = m
    BY ArenaFacts
  <2> QED BY <1>4, <2>1, <2>2 DEF ArenaFits, ArenaStoreOf
<1>10. ArenaStores'
  BY <1>3, <1>7, <1>9 DEF ArenaInv, ArenaStores, ArenaFits
<1>11. ArenaFirst'
  <2> SUFFICES ASSUME NEW m \in ArenaSlot
               PROVE  /\ Ahead(ArenaWriter, arenaPos, {m}, ax(m), m)'
                      /\ Ahead(ArenaWriter, arenaPos, {m}, ay(m), m + 1)'
                      /\ \A n \in Nat \ {0} :
                           Ahead(ArenaWriter, ax(m), {k \in Nat : k >= n + ArenaSize}, ay(m), n + 1)'
    BY DEF ArenaFirst
  <2>1. /\ ax(m) \in ArenaWords /\ ay(m) \in ArenaWords /\ ax(m) \in ArenaLoc /\ m \in Int
        /\ m + 1 \in Int /\ ax(m) # arenaPos /\ ax(i) = ax(m) => i = m /\ ay(i) # ax(m)
    BY ArenaFacts
  <2>2. Appends(ArenaThread, ArenaWriter, x, v, FALSE) /\ mem' = mem
    BY <1>2, <1>3
  <2>3. /\ Ahead(ArenaWriter, arenaPos, {m}, ax(m), m)'
        /\ Ahead(ArenaWriter, arenaPos, {m}, ay(m), m + 1)'
    <3> DEFINE S == {m}
    <3>1. ASSUME x = arenaPos, v \in S
          PROVE  Load(ArenaWriter, ax(m)) >= m /\ Load(ArenaWriter, ay(m)) >= m + 1
      <4>1. v = i /\ pc[ArenaWriter] = "w_pub" /\ m = i
        BY <3>1, ArenaFacts DEF ArenaStoreOf
      <4> QED BY <1>1, <1>4, <1>5, <2>1, <4>1, ArenaFacts
    <3>2. /\ x = arenaPos /\ v \in S => Load(ArenaWriter, ax(m)) >= m
          /\ x = arenaPos /\ v \in S => Load(ArenaWriter, ay(m)) >= m + 1
      BY <3>1
    <3>3. /\ Ahead(ArenaWriter, arenaPos, S, ax(m), m)
          /\ Ahead(ArenaWriter, arenaPos, S, ay(m), m + 1)
      BY DEF ArenaInv, ArenaFirst
    <3> HIDE DEF S
    <3>4. Ahead(ArenaWriter, arenaPos, S, ax(m), m)'
      <4>1. /\ Ahead(ArenaWriter, arenaPos, S, ax(m), m)
            /\ x = arenaPos /\ v \in S => Load(ArenaWriter, ax(m)) >= m
            /\ ax(m) \in ArenaWords /\ m \in Int
        BY <2>1, <3>2, <3>3
      <4> QED BY <1>1, <1>6, <2>2, <4>1, AheadPut
    <3>5. Ahead(ArenaWriter, arenaPos, S, ay(m), m + 1)'
      <4>1. /\ Ahead(ArenaWriter, arenaPos, S, ay(m), m + 1)
            /\ x = arenaPos /\ v \in S => Load(ArenaWriter, ay(m)) >= m + 1
            /\ ay(m) \in ArenaWords /\ m + 1 \in Int
        BY <2>1, <3>2, <3>3
      <4> QED BY <1>1, <1>6, <2>2, <4>1, AheadPut
    <3> QED BY <3>4, <3>5 DEF S
  <2>4. ASSUME NEW n \in Nat \ {0}
        PROVE  Ahead(ArenaWriter, ax(m), {k \in Nat : k >= n + ArenaSize}, ay(m), n + 1)'
    <3> DEFINE S == {k \in Nat : k >= n + ArenaSize}
    <3>1. ASSUME x = ax(m), v \in S PROVE Load(ArenaWriter, ay(m)) >= n + 1
      <4>1. v = s /\ m = i /\ s >= n + ArenaSize
        BY <1>1, <2>1, <3>1, ArenaFacts DEF ArenaStoreOf
      <4>2. s - ArenaSize \in 1..(s - 1) /\ s - ArenaSize >= n
        BY <1>1, <4>1
      <4>3. Laps(s - ArenaSize, i)
        <5>1. Laps(i, s - ArenaSize)
          BY <1>1, <1>4, LapFacts
        <5> QED BY <1>1, <4>2, <5>1, LapFacts
      <4>4. Load(ArenaWriter, ay(m)) >= s - ArenaSize + 1
        BY <1>4, <4>1, <4>2, <4>3
      <4>5. Load(ArenaWriter, ay(m)) \in Nat
        BY <1>1, <1>5, <2>1
      <4> QED BY <1>1, <4>2, <4>4, <4>5
    <3>2. x = ax(m) /\ v \in S => Load(ArenaWriter, ay(m)) >= n + 1
      BY <3>1
    <3>3. Ahead(ArenaWriter, ax(m), S, ay(m), n + 1)
      BY DEF ArenaInv, ArenaFirst
    <3>5. n + 1 \in Int
      OBVIOUS
    <3> HIDE DEF S
    <3>4. Ahead(ArenaWriter, ax(m), S, ay(m), n + 1)'
      <4>1. /\ ax(m) \in ArenaLoc /\ ay(m) \in ArenaWords
            /\ x = ax(m) /\ v \in S => Load(ArenaWriter, ay(m)) >= n + 1
        BY <2>1, <3>2
      <4> QED BY <1>1, <1>6, <2>2, <3>3, <3>5, <4>1, AheadPut
    <3> QED BY <3>4 DEF S
  <2> QED BY <2>3, <2>4
<1>12. ArenaReading'
  BY <1>3 DEF ArenaInv, ArenaReading
<1> QED BY <1>8, <1>10, <1>11, <1>12 DEF ArenaInv

(* Every statement of the writer preserves the invariant.                  *)
LEMMA ArenaWriterStep ==
  ASSUME ArenaInv, UNCHANGED rigid, ArenaWrite
  PROVE  ArenaInv'
<1>1. /\ MemOK(ArenaThread, ArenaLoc, Nat) /\ ArenaWriter \in ArenaThread
      /\ ArenaReader \in ArenaThread /\ ArenaWriter # ArenaReader /\ FALSE \in BOOLEAN /\ Weak
      /\ pc \in [ArenaThread -> ArenaLabel] /\ reg \in [ArenaThread -> ArenaReg]
      /\ arenaPos \in ArenaLoc /\ ArenaSize \in Nat \ {0}
      /\ {"w_x", "w_y", "w_pub"} \subseteq ArenaLabel
  BY ArenaFacts DEF ArenaInv, ArenaTypes, ArenaLabel, Weak
<1>2. PICK s \in Nat \ {0}, i \in ArenaSlot : reg[ArenaWriter].seed = s /\ reg[ArenaWriter].idx = i
  BY <1>1 DEF ArenaReg
<1>3. /\ ax(i) \in ArenaLoc /\ ay(i) \in ArenaLoc /\ i \in Nat
      /\ \A m \in ArenaSlot : ax(m) \in ArenaLoc /\ ay(m) \in ArenaLoc
  BY <1>2, ArenaFacts
<1>4. /\ s >= i /\ Laps(s, i)
      /\ \A m \in ArenaSlot :
           /\ Load(ArenaWriter, ax(m)) <= s /\ Load(ArenaWriter, ay(m)) <= s + 1
           /\ \A n \in 1..(s - 1) : Laps(n, m) => /\ Load(ArenaWriter, ax(m)) >= n
                                                  /\ Load(ArenaWriter, ay(m)) >= n + 1
      /\ pc[ArenaWriter] \in {"w_y", "w_pub"} => Load(ArenaWriter, ax(i)) >= s
      /\ pc[ArenaWriter] = "w_pub" => Load(ArenaWriter, ay(i)) >= s + 1
  BY <1>2 DEF ArenaInv, ArenaWriting
<1>5. ASSUME NEW x \in ArenaLoc, NEW v \in Nat, Put(ArenaWriter, x, v, FALSE)
      PROVE  /\ Load(ArenaWriter, x)' = v
             /\ \A y \in ArenaLoc : y # x => Load(ArenaWriter, y)' = Load(ArenaWriter, y)
  <2>1. ReadsBack(ArenaLoc, ArenaWriter, x, v)
    BY <1>1, <1>5, LoadAfterPut, Zenon
  <2> QED BY <2>1 DEF ReadsBack
<1>6. \A y \in ArenaLoc : Load(ArenaWriter, y) \in Nat
  BY ArenaLoads
<1>7. CASE Write(ArenaWriter, "w_x", ax(i), s, "w_y") /\ Keep
  <2>1. /\ Put(ArenaWriter, ax(i), s, FALSE) /\ pc' = [pc EXCEPT ![ArenaWriter] = "w_y"]
        /\ pc[ArenaWriter] = "w_x" /\ reg' = reg
    BY <1>7 DEF Write, Go, Keep
  <2>2. /\ pc' \in [ArenaThread -> ArenaLabel] /\ pc'[ArenaWriter] = "w_y"
        /\ pc'[ArenaReader] = pc[ArenaReader]
    BY <1>1, <2>1
  <2>3. PICK v \in Nat : v = s /\ Put(ArenaWriter, ax(i), v, FALSE)
    BY <2>1, Zenon
  <2>4. /\ Load(ArenaWriter, ax(i))' = s
        /\ \A y \in ArenaLoc : y # ax(i) => Load(ArenaWriter, y)' = Load(ArenaWriter, y)
    BY <1>3, <1>5, <2>3
  <2>5. ASSUME NEW m \in ArenaSlot
        PROVE  /\ Load(ArenaWriter, ax(m))' <= s
               /\ Load(ArenaWriter, ay(m))' <= s + 1
               /\ \A n \in 1..(s - 1) : Laps(n, m) => /\ Load(ArenaWriter, ax(m))' >= n
                                                      /\ Load(ArenaWriter, ay(m))' >= n + 1
    <3>1. Load(ArenaWriter, ay(m))' = Load(ArenaWriter, ay(m))
      BY <1>3, <2>4, ArenaFacts
    <3>2. \/ Load(ArenaWriter, ax(m))' = Load(ArenaWriter, ax(m))
          \/ Load(ArenaWriter, ax(m))' = s
      BY <1>3, <2>4
    <3> QED BY <1>4, <3>1, <3>2
  <2>6. ArenaWriting'
    BY <1>2, <1>4, <2>1, <2>2, <2>4, <2>5 DEF ArenaWriting
  <2>7. ArenaStoreOf(s, i, ax(i), v)
    BY <2>1, <2>3 DEF ArenaStoreOf
  <2> QED BY <1>1, <1>2, <1>3, <2>1, <2>2, <2>3, <2>6, <2>7, ArenaStore
<1>8. CASE Write(ArenaWriter, "w_y", ay(i), s + 1, "w_pub") /\ Keep
  <2>1. /\ Put(ArenaWriter, ay(i), s + 1, FALSE) /\ pc' = [pc EXCEPT ![ArenaWriter] = "w_pub"]
        /\ pc[ArenaWriter] = "w_y" /\ reg' = reg
    BY <1>8 DEF Write, Go, Keep
  <2>2. /\ pc' \in [ArenaThread -> ArenaLabel] /\ pc'[ArenaWriter] = "w_pub"
        /\ pc'[ArenaReader] = pc[ArenaReader]
    BY <1>1, <2>1
  <2>3. PICK v \in Nat : v = s + 1 /\ Put(ArenaWriter, ay(i), v, FALSE)
    <3>1. s + 1 \in Nat
      OBVIOUS
    <3> QED BY <2>1, <3>1, Zenon
  <2>4. /\ Load(ArenaWriter, ay(i))' = s + 1
        /\ \A y \in ArenaLoc : y # ay(i) => Load(ArenaWriter, y)' = Load(ArenaWriter, y)
    BY <1>3, <1>5, <2>3
  <2>5. ASSUME NEW m \in ArenaSlot
        PROVE  /\ Load(ArenaWriter, ax(m))' <= s
               /\ Load(ArenaWriter, ay(m))' <= s + 1
               /\ \A n \in 1..(s - 1) : Laps(n, m) => /\ Load(ArenaWriter, ax(m))' >= n
                                                      /\ Load(ArenaWriter, ay(m))' >= n + 1
    <3>1. Load(ArenaWriter, ax(m))' = Load(ArenaWriter, ax(m))
      BY <1>3, <2>4, ArenaFacts
    <3>2. \/ Load(ArenaWriter, ay(m))' = Load(ArenaWriter, ay(m))
          \/ Load(ArenaWriter, ay(m))' = s + 1
      BY <1>3, <2>4
    <3> QED BY <1>4, <3>1, <3>2
  <2>6. Load(ArenaWriter, ax(i))' = Load(ArenaWriter, ax(i))
    BY <1>3, <2>4, ArenaFacts
  <2>7. ArenaWriting'
    BY <1>2, <1>4, <2>1, <2>2, <2>4, <2>5, <2>6 DEF ArenaWriting
  <2>8. ArenaStoreOf(s, i, ay(i), v)
    BY <2>1, <2>3 DEF ArenaStoreOf
  <2> QED BY <1>1, <1>2, <1>3, <2>1, <2>2, <2>3, <2>7, <2>8, ArenaStore
<1>9. CASE /\ Write(ArenaWriter, "w_pub", arenaPos, i, "w_x")
           /\ reg' = [reg EXCEPT ![ArenaWriter].idx = Following(i),
                                 ![ArenaWriter].seed = s + 1]
  <2>1. /\ Put(ArenaWriter, arenaPos, i, FALSE) /\ pc' = [pc EXCEPT ![ArenaWriter] = "w_x"]
        /\ pc[ArenaWriter] = "w_pub"
    BY <1>9 DEF Write, Go
  <2>2. /\ pc' \in [ArenaThread -> ArenaLabel] /\ pc'[ArenaWriter] = "w_x"
        /\ pc'[ArenaReader] = pc[ArenaReader]
    BY <1>1, <2>1
  <2>3. PICK v \in Nat : v = i /\ Put(ArenaWriter, arenaPos, v, FALSE)
    BY <1>3, <2>1, Zenon
  <2>4. \A y \in ArenaLoc : y # arenaPos => Load(ArenaWriter, y)' = Load(ArenaWriter, y)
    BY <1>1, <1>5, <2>3
  <2>5. PICK j \in ArenaSlot : j = Following(i) /\ s + 1 >= j /\ Laps(s + 1, j)
    <3>1. Laps(s + 1, i + 1) /\ s + 1 >= i + 1
      BY <1>3, <1>4, LapFacts
    <3>2. CASE i = ArenaSize
      <4>1. Laps(s + 1, (i + 1) - ArenaSize)
        <5>1. s + 1 \in Int /\ i + 1 \in Int
          BY <1>3
        <5> QED BY <3>1, <5>1, LapFacts
      <4>2. Following(i) = 1 /\ (i + 1) - ArenaSize = 1 /\ 1 \in ArenaSlot
        BY <1>1, <3>2 DEF Following, ArenaSlot
      <4> QED BY <4>1, <4>2
    <3>3. CASE i # ArenaSize
      <4>1. Following(i) = i + 1 /\ i + 1 \in ArenaSlot
        BY <1>1, <3>3 DEF Following, ArenaSlot
      <4> QED BY <3>1, <4>1
    <3> QED BY <3>2, <3>3
  <2>6. /\ reg' \in [ArenaThread -> ArenaReg] /\ reg'[ArenaReader] = reg[ArenaReader]
        /\ reg'[ArenaWriter].idx = j /\ reg'[ArenaWriter].seed = s + 1
    <3> DEFINE r == [reg[ArenaWriter] EXCEPT !.idx = j, !.seed = s + 1]
    <3>1. reg[ArenaWriter] \in ArenaReg /\ s + 1 \in Nat \ {0}
      BY <1>1
    <3>2. reg' = [reg EXCEPT ![ArenaWriter] = r]
      BY <1>1, <1>9, <2>5
    <3>3. r \in ArenaReg /\ r.idx = j /\ r.seed = s + 1
      BY <3>1 DEF ArenaReg
    <3> HIDE DEF r
    <3> QED BY <1>1, <3>2, <3>3
  <2>7. ASSUME NEW m \in ArenaSlot
        PROVE  /\ Load(ArenaWriter, ax(m))' <= s + 1
               /\ Load(ArenaWriter, ay(m))' <= s + 1 + 1
               /\ \A n \in 1..(s + 1 - 1) : Laps(n, m) => /\ Load(ArenaWriter, ax(m))' >= n
                                                          /\ Load(ArenaWriter, ay(m))' >= n + 1
    <3>1. /\ Load(ArenaWriter, ax(m))' = Load(ArenaWriter, ax(m))
          /\ Load(ArenaWriter, ay(m))' = Load(ArenaWriter, ay(m))
          /\ Load(ArenaWriter, ax(m)) \in Nat /\ Load(ArenaWriter, ay(m)) \in Nat
      BY <1>3, <1>6, <2>4, ArenaFacts
    <3>2. ASSUME Laps(s, m) PROVE i = m
      <4>1. Laps(i, m) /\ Laps(m, i) /\ i \in Int /\ m \in Int
        <5>1. s \in Int /\ i \in Int /\ m \in Int
          BY <1>3, ArenaFacts
        <5>2. Laps(i, s) /\ Laps(m, s)
          BY <1>4, <3>2, <5>1, LapFacts
        <5> QED BY <1>4, <3>2, <5>1, <5>2, LapFacts
      <4>2. ~ (i > m) /\ ~ (m > i)
        <5>1. (i > m => i >= m + ArenaSize) /\ (m > i => m >= i + ArenaSize)
          BY <4>1, LapFacts
        <5>2. i \in 1..ArenaSize /\ m \in 1..ArenaSize
          BY DEF ArenaSlot
        <5> QED BY <1>1, <5>1, <5>2
      <4> QED BY <4>1, <4>2
    <3>3. ASSUME NEW n \in 1..s, Laps(n, m)
          PROVE  Load(ArenaWriter, ax(m)) >= n /\ Load(ArenaWriter, ay(m)) >= n + 1
      <4>1. CASE n = s
        BY <1>4, <2>1, <3>2, <3>3, <4>1
      <4>2. CASE n # s
        BY <1>4, <3>3, <4>2
      <4> QED BY <4>1, <4>2
    <3>4. Load(ArenaWriter, ax(m)) <= s /\ Load(ArenaWriter, ay(m)) <= s + 1
      BY <1>4
    <3>5. 1..(s + 1 - 1) = 1..s
      OBVIOUS
    <3> QED BY <3>1, <3>3, <3>4, <3>5
  <2>8. ArenaWriting'
    BY <2>2, <2>5, <2>6, <2>7 DEF ArenaWriting
  <2>9. ArenaStoreOf(s, i, arenaPos, v)
    BY <2>1, <2>3 DEF ArenaStoreOf
  <2> QED BY <1>1, <1>2, <1>3, <2>1, <2>2, <2>3, <2>6, <2>8, <2>9, ArenaStore
<1> QED BY <1>2, <1>7, <1>8, <1>9 DEF ArenaWrite, ArenaPublish

(* Every statement of the reader preserves the invariant.                  *)
LEMMA ArenaReaderStep ==
  ASSUME ArenaInv, UNCHANGED rigid, ArenaRead
  PROVE  ArenaInv'
<1>1. /\ ArenaWriter \in ArenaThread /\ ArenaReader \in ArenaThread
      /\ ArenaWriter # ArenaReader /\ reg[ArenaReader] \in ArenaReg
      /\ pc \in [ArenaThread -> ArenaLabel] /\ reg \in [ArenaThread -> ArenaReg]
      /\ arenaPos \in ArenaLoc /\ ArenaSize \in Nat \ {0} /\ ArenaSlot \subseteq Nat \ {0}
      /\ Load(ArenaReader, arenaPos) = mem[arenaPos] /\ mem[arenaPos] \in {0} \cup ArenaSlot
      /\ {"r_wait", "r_load", "r_x", "r_y", "r_check", "exit"} \subseteq ArenaLabel
  BY ArenaFacts, ArenaLoads DEF ArenaInv, ArenaTypes, ArenaLabel
<1>2. ASSUME NEW p \in ArenaSlot
      PROVE  /\ ax(p) \in ArenaLoc /\ ay(p) \in ArenaLoc
             /\ mem[ax(p)] \in Nat /\ mem[ay(p)] \in Nat
             /\ Load(ArenaReader, ax(p)) = mem[ax(p)] /\ Load(ArenaReader, ay(p)) = mem[ay(p)]
             /\ mem[ax(p)] # 0 => Laps(mem[ax(p)], p)
             /\ mem[ay(p)] # 0 => Laps(mem[ay(p)], p + 1)
  BY ArenaFacts, ArenaLoads
<1>3. ArenaReading
  BY DEF ArenaInv
<1>4. CASE Await(ArenaReader, "r_wait", Load(ArenaReader, arenaPos) # NULL, "r_load") /\ Keep
  <2>1. /\ pc' = [pc EXCEPT ![ArenaReader] = "r_load"] /\ Silent /\ reg' = reg
    BY <1>4 DEF Await, Go, Keep, Silent
  <2>2. /\ pc' \in [ArenaThread -> ArenaLabel] /\ pc'[ArenaWriter] = pc[ArenaWriter]
        /\ pc'[ArenaReader] = "r_load"
    BY <1>1, <2>1
  <2>3. ArenaReading'
    BY <2>2 DEF ArenaReading
  <2> QED BY <1>1, <2>1, <2>2, <2>3, ArenaReadStep
<1>5. CASE Read(ArenaReader, "r_load", "p", arenaPos,
                IF Load(ArenaReader, arenaPos) = NULL THEN "r_load" ELSE "r_x")
  <2>1. PICK to \in {"r_load", "r_x"} :
          /\ pc' = [pc EXCEPT ![ArenaReader] = to]
          /\ to = "r_x" => mem[arenaPos] # 0
    BY <1>1, <1>5 DEF Read, Go, NULL
  <2>2. /\ pc' \in [ArenaThread -> ArenaLabel] /\ pc'[ArenaWriter] = pc[ArenaWriter]
        /\ pc'[ArenaReader] = to
    BY <1>1, <2>1
  <2>3. /\ Silent /\ mem' = mem
        /\ reg' = [reg EXCEPT ![ArenaReader].p = mem[arenaPos]]
    BY <1>1, <1>5 DEF Read, Silent
  <2>4. /\ reg' \in [ArenaThread -> ArenaReg] /\ reg'[ArenaWriter] = reg[ArenaWriter]
        /\ reg'[ArenaReader].p = mem[arenaPos]
    BY <1>1, <2>3 DEF ArenaReg
  <2>5. ASSUME to = "r_x"
        PROVE  LET p == mem[arenaPos]
               IN  p \in ArenaSlot /\ mem[ax(p)] >= p /\ mem[ay(p)] >= p + 1
    <3>1. PICK p \in ArenaSlot : p = mem[arenaPos]
      BY <1>1, <2>1, <2>5
    <3>2. /\ Ahead(ArenaWriter, arenaPos, {p}, ax(p), p)
          /\ Ahead(ArenaWriter, arenaPos, {p}, ay(p), p + 1)
      BY DEF ArenaInv, ArenaFirst
    <3> QED BY <3>1, <3>2 DEF Ahead
  <2>6. ArenaReading'
    BY <2>2, <2>3, <2>4, <2>5 DEF ArenaReading
  <2> QED BY <2>2, <2>3, <2>4, <2>6, ArenaReadStep
<1>6. CASE Read(ArenaReader, "r_x", "x", ax(reg[ArenaReader].p), "r_y")
  <2>1. PICK p \in ArenaSlot :
          /\ p = reg[ArenaReader].p /\ mem[ax(p)] >= p /\ mem[ay(p)] >= p + 1
    BY <1>3, <1>6 DEF ArenaReading, Read, Go
  <2>2. /\ pc' = [pc EXCEPT ![ArenaReader] = "r_y"] /\ Silent /\ mem' = mem
        /\ reg' = [reg EXCEPT ![ArenaReader].x = mem[ax(p)]]
    BY <1>2, <1>6, <2>1 DEF Read, Go, Silent
  <2>3. /\ pc' \in [ArenaThread -> ArenaLabel] /\ pc'[ArenaWriter] = pc[ArenaWriter]
        /\ pc'[ArenaReader] = "r_y"
    BY <1>1, <2>2
  <2>4. /\ reg' \in [ArenaThread -> ArenaReg] /\ reg'[ArenaWriter] = reg[ArenaWriter]
        /\ reg'[ArenaReader].x = mem[ax(p)] /\ reg'[ArenaReader].p = p
    BY <1>1, <1>2, <2>1, <2>2 DEF ArenaReg
  <2>5. p \in Nat \ {0} /\ mem[ax(p)] \in Nat /\ mem[ay(p)] \in Nat /\ Laps(mem[ax(p)], p)
    BY <1>1, <1>2, <2>1
  <2>6. mem[ay(p)] >= mem[ax(p)] + 1 - ArenaSize
    <3>1. CASE mem[ax(p)] = p
      BY <1>1, <2>1, <2>5, <3>1
    <3>2. CASE mem[ax(p)] > p
      <4>1. mem[ax(p)] >= p + ArenaSize
        <5>1. mem[ax(p)] \in Int /\ p \in Int
          BY <2>5
        <5> QED BY <2>5, <3>2, <5>1, LapFacts
      <4>2. PICK m \in Nat \ {0} : m = mem[ax(p)] - ArenaSize
        BY <1>1, <2>5, <4>1
      <4>3. mem[ax(p)] \in {k \in Nat : k >= m + ArenaSize}
        BY <1>1, <2>5, <4>2
      <4>4. Ahead(ArenaWriter, ax(p), {k \in Nat : k >= m + ArenaSize}, ay(p), m + 1)
        BY DEF ArenaInv, ArenaFirst
      <4>5. mem[ay(p)] >= m + 1
        BY <4>3, <4>4 DEF Ahead
      <4> QED BY <1>1, <2>5, <4>2, <4>5
    <3> QED BY <2>1, <2>5, <3>1, <3>2
  <2>7. ArenaReading'
    BY <2>1, <2>2, <2>3, <2>4, <2>5, <2>6 DEF ArenaReading
  <2> QED BY <2>2, <2>3, <2>4, <2>7, ArenaReadStep
<1>7. CASE Read(ArenaReader, "r_y", "y", ay(reg[ArenaReader].p), "r_check")
  <2>1. PICK p \in ArenaSlot :
          /\ p = reg[ArenaReader].p /\ mem[ax(p)] >= p /\ mem[ay(p)] >= p + 1
          /\ Laps(reg[ArenaReader].x, p) /\ mem[ay(p)] >= reg[ArenaReader].x + 1 - ArenaSize
    BY <1>3, <1>7 DEF ArenaReading, Read, Go
  <2>2. /\ pc' = [pc EXCEPT ![ArenaReader] = "r_check"] /\ Silent /\ mem' = mem
        /\ reg' = [reg EXCEPT ![ArenaReader].y = mem[ay(p)]]
    BY <1>2, <1>7, <2>1 DEF Read, Go, Silent
  <2>3. /\ pc' \in [ArenaThread -> ArenaLabel] /\ pc'[ArenaWriter] = pc[ArenaWriter]
        /\ pc'[ArenaReader] = "r_check"
    BY <1>1, <2>2
  <2>4. /\ reg' \in [ArenaThread -> ArenaReg] /\ reg'[ArenaWriter] = reg[ArenaWriter]
        /\ reg'[ArenaReader].y = mem[ay(p)] /\ reg'[ArenaReader].p = p
        /\ reg'[ArenaReader].x = reg[ArenaReader].x
    BY <1>1, <1>2, <2>1, <2>2 DEF ArenaReg
  <2>5. Laps(mem[ay(p)], p + 1)
    BY <1>1, <1>2, <2>1
  <2>6. ArenaReading'
    BY <2>1, <2>2, <2>3, <2>4, <2>5 DEF ArenaReading
  <2> QED BY <2>2, <2>3, <2>4, <2>6, ArenaReadStep
<1>8. CASE /\ Local(ArenaReader, "r_check",
                    IF reg[ArenaReader].x + 1 # reg[ArenaReader].y THEN "exit" ELSE "r_load")
           /\ Keep
  <2>1. PICK to \in {"exit", "r_load"} : pc' = [pc EXCEPT ![ArenaReader] = to]
    BY <1>8 DEF Local, Go
  <2>2. /\ pc' \in [ArenaThread -> ArenaLabel] /\ pc'[ArenaWriter] = pc[ArenaWriter]
        /\ pc'[ArenaReader] = to
    BY <1>1, <2>1
  <2>3. Silent /\ reg' = reg /\ mem' = mem /\ pc[ArenaReader] = "r_check"
    BY <1>8 DEF Local, Go, Silent, Keep
  <2>4. ArenaReading'
    BY <1>3, <2>2, <2>3 DEF ArenaReading
  <2> QED BY <1>1, <2>2, <2>3, <2>4, ArenaReadStep
<1> QED BY <1>4, <1>5, <1>6, <1>7, <1>8 DEF ArenaRead

(* A store that becomes visible preserves the invariant.                   *)
LEMMA ArenaFlushStep ==
  ASSUME ArenaInv, NEW t \in ArenaThread, NEW x \in DOMAIN mem, Commit(t, x),
         UNCHANGED <<rigid, pc, reg, env>>
  PROVE  ArenaInv'
<1>1. /\ MemOK(ArenaThread, ArenaLoc, Nat) /\ ArenaWriter \in ArenaThread
      /\ ArenaReader \in ArenaThread /\ ArenaThread = {ArenaWriter, ArenaReader}
      /\ model = "TSO" /\ Weak /\ x \in ArenaLoc /\ Nat \subseteq Int
      /\ model' = model /\ pc' = pc /\ reg' = reg
      /\ ArenaWords \in SUBSET ArenaLoc /\ Rising(ArenaWriter, ArenaWords)
      /\ arenaPos \in ArenaLoc /\ ArenaSize \in Nat
  BY ArenaFacts DEF ArenaInv, ArenaTypes, ArenaStores, MemOK, rigid, Weak
<1>2. /\ MemOK(ArenaThread, ArenaLoc, Nat)'
      /\ \A u \in ArenaThread : u # t => Entries(u)' = Entries(u)
      /\ Entries(t)' \subseteq Entries(t)
      /\ \E e \in Entries(t) : e.loc = x /\ mem' = [mem EXCEPT ![x] = e.val]
  BY <1>1, CommitEntries
<1>3. t = ArenaWriter
  BY <1>1, <1>2 DEF ArenaInv, ArenaStores
<1>4. \A y \in ArenaLoc : Load(ArenaWriter, y)' = Load(ArenaWriter, y)
  BY <1>1, <1>3, LoadAfterCommit
<1>5. /\ Rising(ArenaWriter, ArenaWords)'
      /\ \A y \in ArenaWords : mem[y] <= mem'[y] /\ mem[y] \in Int /\ mem'[y] \in Int
  BY <1>1, <1>3, RisingCommit
<1>6. ArenaTypes'
  BY <1>1, <1>2 DEF ArenaInv, ArenaTypes
<1>7. ArenaStores'
  <2>1. Entries(ArenaReader)' = {}
    BY <1>1, <1>2, <1>3, ArenaFacts DEF ArenaInv, ArenaStores
  <2>2. ASSUME NEW y \in ArenaLoc PROVE ArenaFits(y, mem'[y])
    <3>1. PICK e \in Entries(ArenaWriter) : e.loc = x /\ mem' = [mem EXCEPT ![x] = e.val]
      BY <1>2, <1>3
    <3>2. ArenaFits(e.loc, e.val) /\ ArenaFits(y, mem[y])
      BY <3>1 DEF ArenaInv, ArenaStores
    <3>3. mem'[y] = IF y = x THEN e.val ELSE mem[y]
      BY <1>1, <3>1 DEF MemOK
    <3> QED BY <3>1, <3>2, <3>3
  <2>3. \A e \in Entries(ArenaWriter)' : ArenaFits(e.loc, e.val)
    BY <1>2, <1>3 DEF ArenaInv, ArenaStores
  <2> QED BY <1>5, <2>1, <2>2, <2>3 DEF ArenaStores, ArenaFits
<1>8. ArenaFirst'
  <2> SUFFICES ASSUME NEW m \in ArenaSlot
               PROVE  /\ Ahead(ArenaWriter, arenaPos, {m}, ax(m), m)'
                      /\ Ahead(ArenaWriter, arenaPos, {m}, ay(m), m + 1)'
                      /\ \A n \in Nat \ {0} :
                           Ahead(ArenaWriter, ax(m), {k \in Nat : k >= n + ArenaSize}, ay(m), n + 1)'
    BY DEF ArenaFirst
  <2>1. /\ ax(m) \in ArenaWords /\ ay(m) \in ArenaWords /\ ax(m) \in ArenaLoc /\ m \in Int
        /\ m + 1 \in Int
    BY ArenaFacts
  <2>2. /\ Ahead(ArenaWriter, arenaPos, {m}, ax(m), m)'
        /\ Ahead(ArenaWriter, arenaPos, {m}, ay(m), m + 1)'
    <3> DEFINE S == {m}
    <3>1. Ahead(ArenaWriter, arenaPos, S, ax(m), m) /\ Ahead(ArenaWriter, arenaPos, S, ay(m), m + 1)
      BY DEF ArenaInv, ArenaFirst
    <3> HIDE DEF S
    <3>2. Ahead(ArenaWriter, arenaPos, S, ax(m), m)'
      BY <1>1, <1>3, <2>1, <3>1, AheadCommit
    <3>3. Ahead(ArenaWriter, arenaPos, S, ay(m), m + 1)'
      BY <1>1, <1>3, <2>1, <3>1, AheadCommit
    <3> QED BY <3>2, <3>3 DEF S
  <2>3. ASSUME NEW n \in Nat \ {0}
        PROVE  Ahead(ArenaWriter, ax(m), {k \in Nat : k >= n + ArenaSize}, ay(m), n + 1)'
    <3> DEFINE S == {k \in Nat : k >= n + ArenaSize}
    <3>1. Ahead(ArenaWriter, ax(m), S, ay(m), n + 1)
      BY DEF ArenaInv, ArenaFirst
    <3>2. n + 1 \in Int
      OBVIOUS
    <3> HIDE DEF S
    <3>3. Ahead(ArenaWriter, ax(m), S, ay(m), n + 1)'
      BY <1>1, <1>3, <2>1, <3>1, <3>2, AheadCommit
    <3> QED BY <3>3 DEF S
  <2> QED BY <2>2, <2>3
<1>9. ArenaWriting'
  <2>1. reg[ArenaWriter].idx \in ArenaSlot
    BY <1>1 DEF ArenaInv, ArenaTypes, ArenaReg
  <2>2. \A m \in ArenaSlot : ax(m) \in ArenaLoc /\ ay(m) \in ArenaLoc
    BY ArenaFacts
  <2>3. \A m \in ArenaSlot : /\ Load(ArenaWriter, ax(m))' = Load(ArenaWriter, ax(m))
                             /\ Load(ArenaWriter, ay(m))' = Load(ArenaWriter, ay(m))
    BY <1>4, <2>2
  <2> QED BY <1>1, <2>1, <2>3 DEF ArenaInv, ArenaWriting
<1>10. ArenaReading'
  <2>1. reg[ArenaReader] \in ArenaReg
    BY <1>1 DEF ArenaInv, ArenaTypes
  <2>2. \A p \in ArenaSlot : /\ mem[ax(p)] <= mem'[ax(p)] /\ mem[ay(p)] <= mem'[ay(p)]
                             /\ mem[ax(p)] \in Int /\ mem'[ax(p)] \in Int
                             /\ mem[ay(p)] \in Int /\ mem'[ay(p)] \in Int /\ p \in Int
    BY <1>5, ArenaFacts
  <2>3. reg[ArenaReader].x \in Nat
    BY <2>1 DEF ArenaReg
  <2> QED BY <1>1, <2>2, <2>3 DEF ArenaInv, ArenaReading
<1> QED BY <1>6, <1>7, <1>8, <1>9, <1>10 DEF ArenaInv

(* A stuttering step preserves the invariant.                              *)
LEMMA ArenaStutter == ArenaInv /\ UNCHANGED vars => ArenaInv'
<1> SUFFICES ASSUME ArenaInv, UNCHANGED vars PROVE ArenaInv'
  OBVIOUS
<1>1. UNCHANGED rigid /\ Silent /\ pc' = pc /\ reg' = reg /\ mem' = mem
  BY DEF vars, rigid, Silent
<1>2. ArenaReading'
  BY <1>1 DEF ArenaInv, ArenaReading
<1> QED BY <1>1, <1>2, ArenaReadStep DEF ArenaInv, ArenaTypes

-----------------------------------------------------------------------------
(* The programs together, each on the memories it is proved for.           *)

PublicationInv ==
  /\ program \in MpPrograms => model \in {"SC", "TSO", "ARM"} /\ (MpOrdered => MpInv)
  /\ program \in SbPrograms /\ model = "SC" => SbInv
  /\ program = "package" => PackageInv
  /\ program = "ring" => RingInv
  /\ program = "seqlock" /\ model = "TSO" => SeqInv
  /\ program = "mode" /\ model = "TSO" => ModeInv
  /\ program = "points" => PointsInv
  /\ program = "arena" => ArenaInv

(* Whatever program runs, its invariant holds when the threads start.      *)
LEMMA PublicationsInit == Init => PublicationInv
<1> SUFFICES ASSUME Init PROVE PublicationInv
  OBVIOUS
<1>1. /\ program \in MpPrograms => MpInit
      /\ program \in SbPrograms => SbInit
      /\ program = "package" => PackageInit
      /\ program = "ring"    => RingInit
      /\ program = "seqlock" => SeqInit
      /\ program = "mode"    => ModeInit
      /\ program = "points"  => PointsInit
      /\ program = "arena"   => ArenaInit
  BY Zenon DEF Init, QueueLockInit, SharedLockInit, PublicationInit, WakeUpInit, ArenaInit,
     ClhInit, QspinInit, LinkInit, RwInit, EventInit, XenInit, BuffersInit,
     MpInit, SbInit, PackageInit, RingInit, SeqInit, ModeInit, PointsInit,
     MpPrograms, SbPrograms, OmpiInit, JdkInit, RelaxInit, LifoInit, Boot
<1>2. program \in MpPrograms => model \in {"SC", "TSO", "ARM"}
  BY <1>1 DEF MpInit, Boot
<1> QED BY <1>1, <1>2, MpInitInv, SbInitInv, PackageInitInv, RingInitInv, SeqInitInv, ModeInitInv,
        PointsInitInv, ArenaInitInv DEF PublicationInv

(* Which statements a step may be of.                                      *)
LEMMA PublicationsStep ==
  ASSUME NEW t, Step(t)
  PROVE  /\ t \in DOMAIN pc /\ UNCHANGED rigid
         /\ program \in MpPrograms => MpStep(t)
         /\ program \in SbPrograms => SbStep(t)
         /\ program = "package" => PackageStep(t)
         /\ program = "ring"    => RingStep(t)
         /\ program = "seqlock" => SeqStep(t)
         /\ program = "mode"    => ModeStep(t)
         /\ program = "points"  => PointsStep(t)
         /\ program = "arena"   => ArenaStep(t)
  BY Zenon DEF Step, QueueLockStep, SharedLockStep, PublicationStep,
     MpPrograms, SbPrograms, WakeUpStep

(* Every step of Native preserves the invariant of the program that runs.  *)
LEMMA PublicationsNext == PublicationInv /\ [Next]_vars => PublicationInv'
<1> SUFFICES ASSUME PublicationInv, [Next]_vars PROVE PublicationInv'
  OBVIOUS
<1>1. program' = program /\ model' = model
  BY DEF Next, Step, FlushStep, rigid, vars
<1>2. ASSUME program \in MpPrograms, MpOrdered PROVE MpInv'
  <2>1. MpInv
    BY <1>2 DEF PublicationInv
  <2>2. DOMAIN pc = Duo
    BY <2>1 DEF MpInv, MpTypes
  <2>3. ASSUME NEW t \in Thread, Step(t) PROVE MpInv'
    <3>1. t \in Duo /\ UNCHANGED rigid /\ MpStep(t)
      BY <1>2, <2>2, <2>3, PublicationsStep
    <3>2. MpMain \/ MpWriter \/ MpReader
      BY <3>1, DuoFacts DEF MpStep, Duo
    <3> QED BY <2>1, <3>1, <3>2, MpMainStep, MpWriterStep, MpReaderStep
  <2>4. ASSUME NEW t \in Thread, FlushStep(t) PROVE MpInv'
    BY <2>1, <2>2, <2>4, MpFlushStep, Zenon DEF FlushStep, Flush, rigid
  <2>5. CASE UNCHANGED vars
    BY <2>1, <2>5, MpStutter
  <2> QED BY <2>3, <2>4, <2>5 DEF Next
<1>3. ASSUME program \in SbPrograms, model = "SC" PROVE SbInv'
  <2>1. SbInv
    BY <1>3 DEF PublicationInv
  <2>2. DOMAIN pc = Duo
    BY <2>1 DEF SbInv, SbTypes
  <2>3. ASSUME NEW t \in Thread, Step(t) PROVE SbInv'
    <3>1. t \in Duo /\ UNCHANGED rigid /\ SbStep(t)
      BY <1>3, <2>2, <2>3, PublicationsStep
    <3>2. SbMain \/ (t \in {A, B} /\ SbThread(t))
      BY <3>1 DEF SbStep, Duo
    <3> QED BY <2>1, <3>1, <3>2, SbMainStep, SbThreadStep
  <2>4. ASSUME NEW t \in Thread, FlushStep(t) PROVE SbInv'
    BY <2>1, <2>2, <2>4, SbNoFlush, Zenon DEF FlushStep, Flush
  <2>5. CASE UNCHANGED vars
    BY <2>1, <2>5, SbStutter
  <2> QED BY <2>3, <2>4, <2>5 DEF Next
<1>4. ASSUME program = "package" PROVE PackageInv'
  <2>1. PackageInv
    BY <1>4 DEF PublicationInv
  <2>2. DOMAIN pc = PackageThread
    BY <2>1 DEF PackageInv, PackageTypes
  <2>3. ASSUME NEW t \in Thread, Step(t) PROVE PackageInv'
    <3>1. t \in PackageThread /\ UNCHANGED rigid /\ PackageStep(t)
      BY <1>4, <2>2, <2>3, PublicationsStep
    <3>2. CASE t = Main
      BY <2>1, <3>1, <3>2, PackageJoinStep DEF PackageStep
    <3>3. CASE t # Main
      <4>1. /\ t \in Requester
            /\ \/ PackageLook(t) \/ PackageRecheck(t)
               \/ PackageLock(t)
               \/ PackageBuild(t)
               \/ PackageUnlock(t)
               \/ PackageReturn(t)
        BY <3>1, <3>3 DEF PackageStep, PackageThread
      <4>2. CASE PackageBuild(t)
        BY <2>1, <3>1, <4>1, <4>2, PackageConstruct, PackagePublish DEF PackageBuild, Keep
      <4> QED BY <2>1, <3>1, <4>1, <4>2, PackageLookStep, PackageLockStep,
                 PackageUnlockStep, PackageReturnStep
    <3> QED BY <3>2, <3>3
  <2>4. ASSUME NEW t \in Thread, FlushStep(t) PROVE PackageInv'
    BY <2>1, <2>2, <2>4, PackageFlushStep, Zenon DEF FlushStep, Flush, rigid
  <2>5. CASE UNCHANGED vars
    BY <2>1, <2>5, PackageStutter
  <2> QED BY <2>3, <2>4, <2>5 DEF Next
<1>5. ASSUME program = "seqlock", model = "TSO" PROVE SeqInv'
  <2>1. SeqInv
    BY <1>5 DEF PublicationInv
  <2>2. DOMAIN pc = Duo
    BY <2>1 DEF SeqInv, SeqTypes
  <2>3. ASSUME NEW t \in Thread, Step(t) PROVE SeqInv'
    <3>1. t \in Duo /\ UNCHANGED rigid /\ SeqStep(t)
      BY <1>5, <2>2, <2>3, PublicationsStep
    <3>2. JoinBoth \/ SeqWriter \/ SeqStamp \/ SeqRead
      BY <3>1, DuoFacts DEF SeqStep, Duo
    <3> QED BY <2>1, <3>1, <3>2, SeqJoinStep, SeqWriterStep, SeqStampStep, SeqReadStep
  <2>4. ASSUME NEW t \in Thread, FlushStep(t) PROVE SeqInv'
    BY <2>1, <2>2, <2>4, SeqFlushStep, Zenon DEF FlushStep, Flush, rigid
  <2>5. CASE UNCHANGED vars
    BY <2>1, <2>5, SeqStutter
  <2> QED BY <2>3, <2>4, <2>5 DEF Next
<1>6. ASSUME program = "mode", model = "TSO" PROVE ModeInv'
  <2>1. ModeInv
    BY <1>6 DEF PublicationInv
  <2>2. DOMAIN pc = Duo
    BY <2>1 DEF ModeInv, ModeTypes
  <2>3. ASSUME NEW t \in Thread, Step(t) PROVE ModeInv'
    <3>1. t \in Duo /\ UNCHANGED rigid /\ ModeStep(t)
      BY <1>6, <2>2, <2>3, PublicationsStep
    <3>2. JoinBoth \/ ModeWriter \/ ModeReader
      BY <3>1, DuoFacts DEF ModeStep, Duo
    <3> QED BY <2>1, <3>1, <3>2, ModeJoinStep, ModeWriterStep, ModeReaderStep
  <2>4. ASSUME NEW t \in Thread, FlushStep(t) PROVE ModeInv'
    BY <2>1, <2>2, <2>4, ModeFlushStep, Zenon DEF FlushStep, Flush, rigid
  <2>5. CASE UNCHANGED vars
    BY <2>1, <2>5, ModeStutter
  <2> QED BY <2>3, <2>4, <2>5 DEF Next
<1>7. ASSUME program = "ring" PROVE RingInv'
  <2>1. RingInv
    BY <1>7 DEF PublicationInv
  <2>2. DOMAIN pc = Duo
    BY <2>1 DEF RingInv, RingTypes
  <2>3. ASSUME NEW t \in Thread, Step(t) PROVE RingInv'
    <3>1. t \in Duo /\ UNCHANGED rigid /\ RingStep(t)
      BY <1>7, <2>2, <2>3, PublicationsStep
    <3>2. JoinBoth \/ RingProduce \/ RingConsume
      BY <3>1, DuoFacts DEF RingStep, Duo
    <3> QED BY <2>1, <3>1, <3>2, RingJoinStep, RingProduceStep, RingConsumeStep
  <2>4. ASSUME NEW t \in Thread, FlushStep(t) PROVE RingInv'
    BY <2>1, <2>2, <2>4, RingFlushStep, Zenon DEF FlushStep, Flush, rigid
  <2>5. CASE UNCHANGED vars
    BY <2>1, <2>5, RingStutter
  <2> QED BY <2>3, <2>4, <2>5 DEF Next
<1>8. ASSUME program = "points" PROVE PointsInv'
  <2>1. PointsInv
    BY <1>8 DEF PublicationInv
  <2>2. DOMAIN pc = Duo
    BY <2>1 DEF PointsInv, PointsTypes
  <2>3. ASSUME NEW t \in Thread, Step(t) PROVE PointsInv'
    <3>1. t \in Duo /\ UNCHANGED rigid /\ PointsStep(t)
      BY <1>8, <2>2, <2>3, PublicationsStep
    <3>2. JoinBoth \/ PointsWriter \/ PointsReader
      BY <3>1, DuoFacts DEF PointsStep, Duo
    <3> QED BY <2>1, <3>1, <3>2, PointsJoinStep, PointsWriterStep, PointsReaderStep
  <2>4. ASSUME NEW t \in Thread, FlushStep(t) PROVE PointsInv'
    BY <2>1, <2>2, <2>4, PointsFlushStep, Zenon DEF FlushStep, Flush, rigid
  <2>5. CASE UNCHANGED vars
    BY <2>1, <2>5, PointsStutter
  <2> QED BY <2>3, <2>4, <2>5 DEF Next
<1>9. ASSUME program = "arena" PROVE ArenaInv'
  <2>1. ArenaInv
    BY <1>9 DEF PublicationInv
  <2>2. DOMAIN pc = ArenaThread
    BY <2>1 DEF ArenaInv, ArenaTypes
  <2>3. ASSUME NEW t \in Thread, Step(t) PROVE ArenaInv'
    <3>1. t \in ArenaThread /\ UNCHANGED rigid /\ ArenaStep(t)
      BY <1>9, <2>2, <2>3, PublicationsStep
    <3>2. ArenaWrite \/ ArenaRead
      BY <3>1, ArenaFacts DEF ArenaStep
    <3> QED BY <2>1, <3>1, <3>2, ArenaWriterStep, ArenaReaderStep
  <2>4. ASSUME NEW t \in Thread, FlushStep(t) PROVE ArenaInv'
    BY <2>1, <2>2, <2>4, ArenaFlushStep, Zenon DEF FlushStep, Flush, rigid
  <2>5. CASE UNCHANGED vars
    BY <2>1, <2>5, ArenaStutter
  <2> QED BY <2>3, <2>4, <2>5 DEF Next
<1>10. MpOrdered' = MpOrdered
  BY <1>1 DEF MpOrdered
<1> QED BY <1>1, <1>2, <1>3, <1>4, <1>5, <1>6, <1>7, <1>8, <1>9, <1>10 DEF PublicationInv

(* 9, 10, 20, 28 and 32, on every memory and for any number of rounds of   *)
(* 28: who has the flag has the data, except on ARM; and with the release  *)
(* store of 20 the writer's stores stay in order even there.               *)
THEOREM InOrder == Spec => []MpInOrder
<1>1. MpInv /\ MpDetected => model = "ARM" /\ env.dataFirst
  BY DEF MpInv, MpLoads, MpDetected, Unread
<1>2. PublicationInv => MpInOrder
  BY <1>1 DEF PublicationInv, MpInOrder, MpOrdered
<1> QED BY <1>2, PublicationsInit, PublicationsNext, PTL DEF Spec

(* 18, 29 and 30, for any number of rounds: with no store delayed, one of  *)
(* the two threads sees the other's word.                                  *)
THEOREM SomebodySees == Spec => []SbSomebodySees
<1>1. SbInv /\ pc[Main] \in {"exit", "abort"} => ~ SbMissed
  BY DEF SbInv, SbSeen, SbMissed
<1>2. PublicationInv => SbSomebodySees
  BY <1>1 DEF PublicationInv, SbSomebodySees
<1> QED BY <1>2, PublicationsInit, PublicationsNext, PTL DEF Spec

(* 12-DragonWell8Easy.cpp, for any number of callers: the table is created *)
(* once, every caller gets one, and on TSO it has been constructed.        *)
THEOREM Once == Spec => []PackageOnce
<1>1. PackageInv => /\ env.created <= 1
                    /\ \A t \in Requester : pc[t] = "done" => reg[t].result # NULL
                    /\ model = "TSO" /\ mem[table] # NULL => mem[built(mem[table])] = 1
  BY DEF PackageInv, PackageTable, PackageBuckets
<1>2. PublicationInv => PackageOnce
  BY <1>1 DEF PublicationInv, PackageOnce
<1> QED BY <1>2, PublicationsInit, PublicationsNext, PTL DEF Spec

(* 16-includeos.c, for any number of descriptors and packets: on TSO and on *)
(* ARM the consumer's counter never passes the producer's, and on TSO the   *)
(* descriptor of every counted packet is filled.                            *)
THEOREM Counted == Spec => []RingCounted
<1>1. ASSUME RingInv
      PROVE  /\ mem[consumed] <= mem[product]
             /\ model = "TSO" => \A n \in 0..(mem[product] - 1) : mem[desc(Slot(n))] = 1
  <2>1. mem[consumed] <= mem[product] /\ (model = "TSO" => RingPackets)
    BY <1>1 DEF RingInv, RingBehind
  <2>2. mem[product] \in Nat
    BY <1>1, RingLoads
  <2>3. ASSUME model = "TSO", NEW n \in 0..(mem[product] - 1) PROVE mem[desc(Slot(n))] = 1
    <3>1. n \in Nat /\ mem[product] \in {k \in Nat : k > n}
      BY <2>2
    <3>2. mem[desc(Slot(n))] >= 1
      BY <2>1, <2>3, <3>1 DEF RingPackets, Ahead
    <3>3. mem[desc(Slot(n))] \in {0, 1}
      BY <1>1, <3>1, RingFacts DEF RingInv, RingWords
    <3> QED BY <3>2, <3>3
  <2> QED BY <2>1, <2>3
<1>2. PublicationInv => RingCounted
  BY <1>1 DEF PublicationInv, RingCounted
<1> QED BY <1>2, PublicationsInit, PublicationsNext, PTL DEF Spec

(* 21-crossbeam.c on TSO: a value that the writer has written meanwhile    *)
(* comes with the stamp that the writer set before it.                     *)
THEOREM Validated == Spec => []SeqValidated
<1>1. SeqInv /\ pc[B] = "done" /\ reg[B].stamp = 0 =>
        ~ (reg[B].new = reg[B].stamp /\ reg[B].val = 1)
  BY DEF SeqInv, SeqOrder, Unread
<1>2. PublicationInv => SeqValidated
  BY <1>1 DEF PublicationInv, SeqValidated
<1> QED BY <1>2, PublicationsInit, PublicationsNext, PTL DEF Spec

(* 26-mysql-99556.c on TSO, for any number of updates: the cached mode is  *)
(* never older than the counter it is cached under.                        *)
THEOREM NotOlder == Spec => []ModeNotOlder
<1>1. PublicationInv => ModeNotOlder
  BY DEF PublicationInv, ModeInv, ModeNewest, ModeNotOlder
<1> QED BY <1>1, PublicationsInit, PublicationsNext, PTL DEF Spec

(* 5 on TSO, for any number of points: the alarm is raised about two       *)
(* points, of which the one whose y was read is the newer.                 *)
THEOREM AlarmIsFalse == Spec => []PointsAlarmIsFalse
<1>1. ASSUME PointsInv, pc[B] = "abort"
      PROVE  reg[B].q > reg[B].p /\ reg[B].y > reg[B].x + 1
  <2>1. /\ reg[B].p \in Nat /\ reg[B].q \in Nat /\ B \in Duo
        /\ mem[currentPos] \in Nat
    BY <1>1, DuoFacts, PointsFacts, PointsLoads DEF PointsInv, PointsTypes, PointsReg
  <2>2. /\ reg[B].x = reg[B].p /\ reg[B].q \in reg[B].p..mem[currentPos]
        /\ reg[B].y = reg[B].q + 1 /\ reg[B].x + 1 # reg[B].y
    BY <1>1 DEF PointsInv, PointsReading
  <2> QED BY <2>1, <2>2
<1>2. PublicationInv => PointsAlarmIsFalse
  BY <1>1 DEF PublicationInv, PointsAlarmIsFalse
<1> QED BY <1>2, PublicationsInit, PublicationsNext, PTL DEF Spec

(* 31-unsafe_publish.c on TSO, for any size of the arena and any number of *)
(* Points: a torn pair's halves are a whole number of laps apart, and y is *)
(* the older by one lap at most.                                           *)
THEOREM OnlyByLapping == Spec => []TornOnlyByLapping
<1>1. ASSUME ArenaInv, pc[ArenaReader] \in {"r_check", "exit"}
      PROVE  LET r == reg[ArenaReader]
             IN  \/ r.y = r.x + 1
                 \/ r.y + ArenaSize = r.x + 1
                 \/ r.y >= r.x + 1 + ArenaSize
  <2>1. reg[ArenaReader] \in ArenaReg
    BY <1>1, ArenaFacts DEF ArenaInv, ArenaTypes
  <2>2. PICK x \in Nat, y \in Nat, p \in Nat :
          reg[ArenaReader].x = x /\ reg[ArenaReader].y = y /\ reg[ArenaReader].p = p
    BY <2>1 DEF ArenaReg
  <2>3. Laps(x, p) /\ Laps(y, p + 1) /\ y >= x + 1 - ArenaSize
    BY <1>1, <2>2 DEF ArenaInv, ArenaReading
  <2>4. x + 1 \in Int /\ p + 1 \in Int /\ x \in Int /\ y \in Int /\ p \in Int
    OBVIOUS
  <2>5. Laps(p + 1, x + 1) /\ Laps(y, p + 1)
    <3>1. Laps(x + 1, p + 1)
      BY <2>3, <2>4, LapFacts
    <3> QED BY <2>3, <2>4, <3>1, LapFacts
  <2>6. Laps(y, x + 1) /\ Laps(x + 1, y)
    <3>1. Laps(y, x + 1)
      BY <2>4, <2>5, LapFacts
    <3> QED BY <2>4, <3>1, LapFacts
  <2>7. /\ y > x + 1 => y >= x + 1 + ArenaSize
        /\ x + 1 > y => x + 1 >= y + ArenaSize
    BY <2>4, <2>6, LapFacts
  <2> QED BY <2>2, <2>3, <2>7, ArenaFacts
<1>2. PublicationInv => TornOnlyByLapping
  BY <1>1 DEF PublicationInv, TornOnlyByLapping
<1> QED BY <1>2, PublicationsInit, PublicationsNext, PTL DEF Spec

-----------------------------------------------------------------------------
(* The stack of 15-openmpi.c.  The pop assigns the pointer item while the  *)
(* push uses it, but it assigns the node that the push has linked, as long *)
(* as it goes on; the ghost it assigns last of all, and a push that finds  *)
(* the ghost there pushes nothing.                                         *)

Node == {ghost, X}

LifoLoc == {item, head, nxt(ghost), nxt(X), busy(ghost), busy(X)}

LifoTypes ==
  /\ Weak
  /\ MemOK(Two, LifoLoc, 0..3)
  /\ pc \in [Two -> {"busy", "next", "link", "item", "cas", "free", "load", "done",
                     "join", "exit"}]
  /\ pc[2] \in {"load", "item", "busy", "next", "cas", "free", "done"}
  /\ reg \in [Two -> [next : 0..3, it : 0..3]]

(* Nobody buffers the head.                                                *)
LifoEntries ==
  /\ Entries(Main) = {}
  /\ \A e \in Entries(1) : /\ e.loc \in {nxt(ghost), nxt(X), busy(ghost), busy(X)}
                           /\ e.loc = nxt(X) => e.val \in Node
  /\ \A e \in Entries(2) : /\ e.loc \in {item, busy(ghost), busy(X)}
                           /\ e.loc = item =>
                                /\ pc[2] # "free"
                                /\ pc[2] \in {"load", "item"} => e.val = X /\ mem[head] = X
                                /\ pc[2] # "load" => e.val = reg[2].it

(* The pointer is the ghost only after the pop's last assignment, and the  *)
(* pop goes on only with X while X is the head.                            *)
LifoItem ==
  /\ mem[item] \in Node
  /\ mem[item] = ghost => pc[2] = "done" /\ reg[2].it = ghost
  /\ pc[2] \in {"item", "busy", "next", "cas", "done"} => reg[2].it \in Node
  /\ pc[2] \in {"busy", "next", "cas"} => reg[2].it = X
  /\ pc[2] \in {"item", "busy", "next", "cas"} /\ reg[2].it = X => mem[head] = X
  /\ pc[2] = "cas" => reg[2].next \in Node

(* Before X is the head it has been linked to the head before it.          *)
LifoLinked == mem[nxt(X)] \in Node \/ \E e \in Entries(1) : e.loc = nxt(X)

LifoHead ==
  /\ mem[head] \in Node
  /\ mem[head] = X => mem[nxt(X)] \in Node
  /\ pc[1] \in {"busy", "next", "link", "item", "cas"} => mem[head] = ghost
  /\ pc[1] \in {"link", "item", "cas"} => reg[1].next \in Node
  /\ pc[1] = "item" => LifoLinked \/ mem[item] = ghost
  /\ pc[1] = "cas" => reg[1].it \in Node /\ (LifoLinked \/ reg[1].it = ghost)

LifoInv == LifoTypes /\ LifoEntries /\ LifoItem /\ LifoHead

(* The nodes, their words and the threads are different.                   *)
LEMMA LifoNames ==
  /\ ghost = 1 /\ X = 2 /\ garbage = 3 /\ Main = 0 /\ Two = {0, 1, 2}
  /\ Node = {1, 2} /\ Node \subseteq 0..3 /\ 0 \in 0..3 /\ 1 \in 0..3
  /\ {item, head, nxt(ghost), nxt(X), busy(ghost), busy(X)} \subseteq LifoLoc
  /\ item # head /\ item # nxt(X) /\ head # nxt(X) /\ item # nxt(ghost) /\ head # nxt(ghost)
  /\ nxt(ghost) # nxt(X)
  /\ \A n \in Node : /\ busy(n) \notin {item, head, nxt(ghost), nxt(X)}
                     /\ busy(n) \in {busy(ghost), busy(X)} /\ nxt(n) \in {nxt(ghost), nxt(X)}
<1>1. ghost = 1 /\ X = 2 /\ garbage = 3 /\ Main = 0 /\ Two = {0, 1, 2} /\ Node = {1, 2}
  BY DEF ghost, X, garbage, Main, Two, Node
<1>2. item # head /\ \A n : item # nxt(n) /\ head # nxt(n) /\ item # busy(n) /\ head # busy(n)
  BY DEF item, head, nxt, busy
<1>3. \A n, m : busy(n) # nxt(m)
  BY DEF nxt, busy
<1>4. nxt(ghost) # nxt(X)
  BY <1>1 DEF nxt
<1>5. \A n \in Node : busy(n) \in {busy(ghost), busy(X)} /\ nxt(n) \in {nxt(ghost), nxt(X)}
  BY DEF Node
<1> QED BY <1>1, <1>2, <1>3, <1>4, <1>5 DEF LifoLoc

(* The invariant holds when the threads start.                             *)
LEMMA LifoInitInv == LifoInit => LifoInv
<1> SUFFICES ASSUME LifoInit PROVE LifoInv
  OBVIOUS
<1>1. /\ Weak
      /\ mem = [x \in LifoLoc |-> CASE x = item -> X [] x = head -> ghost
                                    [] x = nxt(X) -> garbage [] OTHER -> 0]
      /\ buf = [t \in Two |-> << >>]
      /\ pc = [t \in Two |-> CASE t = Main -> "join" [] t = 1 -> "busy" [] t = 2 -> "load"]
      /\ reg = [t \in Two |-> [next |-> NULL, it |-> NULL]]
  BY DEF LifoInit, Boot, Weak, LifoLoc
<1>2. mem[item] = X /\ mem[head] = ghost
  BY <1>1, LifoNames
<1>3. \A t \in Two : Entries(t) = {}
  BY <1>1 DEF Entries
<1>4. pc[Main] = "join" /\ pc[1] = "busy" /\ pc[2] = "load"
  BY <1>1, LifoNames
<1>5. LifoTypes
  <2>1. mem \in [LifoLoc -> 0..3]
    BY <1>1, LifoNames
  <2>2. buf \in [Two -> Seq(Entry(LifoLoc, 0..3))]
    BY <1>1
  <2>3. pc \in [Two -> {"busy", "next", "link", "item", "cas", "free", "load", "done",
                        "join", "exit"}]
    BY <1>1, <1>4, LifoNames
  <2>4. reg \in [Two -> [next : 0..3, it : 0..3]]
    BY <1>1 DEF NULL
  <2> QED BY <1>1, <1>4, <2>1, <2>2, <2>3, <2>4 DEF LifoTypes, MemOK
<1>6. LifoEntries
  BY <1>3, LifoNames DEF LifoEntries
<1>7. LifoItem /\ LifoHead
  BY <1>2, <1>4, LifoNames DEF LifoItem, LifoHead
<1> QED BY <1>5, <1>6, <1>7 DEF LifoInv

(* What each thread sees of the words that matter.                         *)
LEMMA LifoSees ==
  ASSUME LifoInv
  PROVE  /\ Load(1, item) = mem[item] /\ Load(1, head) = mem[head]
         /\ Load(2, head) = mem[head] /\ Load(2, nxt(X)) = mem[nxt(X)]
         /\ pc[2] \in {"busy", "next", "cas"} => Load(2, item) = X
<1>1. MemOK(Two, LifoLoc, 0..3) /\ 1 \in Two /\ 2 \in Two
  BY LifoNames DEF LifoInv, LifoTypes
<1>2. \A e \in Entries(1) : e.loc # item /\ e.loc # head
  BY LifoNames DEF LifoInv, LifoEntries, Node
<1>3. \A e \in Entries(2) : e.loc # head /\ e.loc # nxt(X)
  BY LifoNames DEF LifoInv, LifoEntries, Node
<1>4. item \in LifoLoc /\ head \in LifoLoc /\ nxt(X) \in LifoLoc
  BY LifoNames
<1>5. Load(1, item) = mem[item] /\ Load(1, head) = mem[head]
  BY <1>1, <1>2, <1>4, LoadEntries
<1>6. Load(2, head) = mem[head] /\ Load(2, nxt(X)) = mem[nxt(X)]
  BY <1>1, <1>3, <1>4, LoadEntries
<1>7. pc[2] \in {"busy", "next", "cas"} => Load(2, item) = X
  <2>1. \/ Load(2, item) = mem[item]
        \/ \E e \in Entries(2) : e.loc = item /\ e.val = Load(2, item)
    BY <1>1, <1>4, LoadEntries
  <2>2. pc[2] \in {"busy", "next", "cas"} =>
          mem[item] = X /\ \A e \in Entries(2) : e.loc = item => e.val = X
    BY LifoNames DEF LifoInv, LifoEntries, LifoItem
  <2> QED BY <2>1, <2>2
<1> QED BY <1>5, <1>6, <1>7

(* A step of t that stores only marks, or nothing.                         *)
LifoMarks(t) ==
  /\ MemOK(Two, LifoLoc, 0..3)' /\ Weak'
  /\ mem'[item] = mem[item] /\ mem'[head] = mem[head] /\ mem'[nxt(X)] = mem[nxt(X)]
  /\ \A u \in Two : u # t => Entries(u)' = Entries(u)
  /\ Entries(t) \subseteq Entries(t)'
  /\ \A e \in Entries(t)' : e \in Entries(t) \/ e.loc \in {busy(ghost), busy(X)}

(* A statement that touches no memory keeps the buffers.                   *)
LEMMA LifoSilent ==
  ASSUME LifoInv, UNCHANGED rigid, NEW t \in {1, 2}, Silent
  PROVE  LifoMarks(t)
<1>1. /\ MemOK(Two, LifoLoc, 0..3)' /\ mem' = mem
      /\ \A u \in Two : Entries(u)' = Entries(u)
  BY SilentEntries DEF LifoInv, LifoTypes
<1>2. Weak'
  BY DEF LifoInv, LifoTypes, Weak, rigid
<1> QED BY <1>1, <1>2, LifoNames DEF LifoMarks

(* A store to a busy word changes nothing that the invariant speaks of.    *)
LEMMA LifoMarkStore ==
  ASSUME LifoInv, UNCHANGED rigid, NEW t \in {1, 2}, NEW n \in Node, NEW v \in {0, 1},
         NEW from, NEW to, WriteSC(t, from, busy(n), v, to)
  PROVE  LifoMarks(t)
<1>1. /\ MemOK(Two, LifoLoc, 0..3) /\ Weak /\ t \in Two /\ busy(n) \in LifoLoc /\ v \in 0..3
      /\ mem \in [LifoLoc -> 0..3]
  BY LifoNames DEF LifoInv, LifoTypes, MemOK
<1>2. Weak'
  BY DEF LifoInv, LifoTypes, Weak, rigid
<1>3. CASE SetMem(busy(n), v)
  <2>1. /\ MemOK(Two, LifoLoc, 0..3)' /\ mem' = [mem EXCEPT ![busy(n)] = v]
        /\ \A u \in Two : Entries(u)' = Entries(u)
    BY <1>1, <1>3, SetMemEntries
  <2>2. mem'[item] = mem[item] /\ mem'[head] = mem[head] /\ mem'[nxt(X)] = mem[nxt(X)]
    BY <1>1, <2>1, LifoNames
  <2> QED BY <1>1, <1>2, <2>1, <2>2 DEF LifoMarks
<1>4. CASE Put(t, busy(n), v, TRUE)
  <2>1. PICK x \in LifoLoc : x = busy(n)
    BY <1>1
  <2>2. Adds(Two, LifoLoc, 0..3, t, x, v)
    <3>1. TRUE \in BOOLEAN /\ Put(t, x, v, TRUE)
      BY <1>4, <2>1
    <3> QED BY <1>1, <3>1, PutAdds, Zenon
  <2>3. /\ MemOK(Two, LifoLoc, 0..3)' /\ mem' = mem
        /\ \E e : e.loc = busy(n) /\ Entries(t)' = Entries(t) \cup {e}
        /\ \A u \in Two : u # t => Entries(u)' = Entries(u)
    BY <2>1, <2>2 DEF Adds
  <2> QED BY <1>2, <2>3, LifoNames DEF LifoMarks
<1> QED BY <1>3, <1>4 DEF WriteSC

(* Steps of the push that leave the three words alone.                     *)
LEMMA LifoPushMoves ==
  ASSUME LifoInv, LifoMarks(1), NEW to,
         to \in {"busy", "next", "link", "cas", "free", "done"},
         pc' = [pc EXCEPT ![1] = to],
         reg' \in [Two -> [next : 0..3, it : 0..3]], reg'[2] = reg[2],
         to \in {"busy", "next", "link", "cas"} => mem[head] = ghost,
         to \in {"link", "cas"} => reg'[1].next \in Node,
         to = "cas" => reg'[1].it \in Node /\ (LifoLinked \/ reg'[1].it = ghost)
  PROVE  LifoInv'
<1>1. pc'[1] = to /\ pc'[2] = pc[2] /\ pc'[Main] = pc[Main]
  BY LifoNames DEF LifoInv, LifoTypes
<1>2. /\ mem'[item] = mem[item] /\ mem'[head] = mem[head] /\ mem'[nxt(X)] = mem[nxt(X)]
      /\ Entries(2)' = Entries(2) /\ Entries(Main)' = Entries(Main)
      /\ Entries(1) \subseteq Entries(1)'
      /\ \A e \in Entries(1)' : e \in Entries(1) \/ e.loc \in {busy(ghost), busy(X)}
  BY LifoNames DEF LifoMarks
<1>3. LifoTypes'
  BY LifoNames DEF LifoInv, LifoTypes, LifoMarks
<1>4. LifoEntries'
  <2>1. \A e \in Entries(1)' : /\ e.loc \in {nxt(ghost), nxt(X), busy(ghost), busy(X)}
                               /\ e.loc = nxt(X) => e.val \in Node
    BY <1>2, LifoNames DEF LifoInv, LifoEntries
  <2> QED BY <1>1, <1>2, <2>1 DEF LifoInv, LifoEntries
<1>5. LifoItem'
  BY <1>1, <1>2 DEF LifoInv, LifoItem
<1>6. LifoLinked => LifoLinked'
  BY <1>2 DEF LifoLinked
<1>7. LifoHead'
  BY <1>1, <1>2, <1>6 DEF LifoInv, LifoHead
<1> QED BY <1>3, <1>4, <1>5, <1>7 DEF LifoInv

(* item->opal_list_next = next                                             *)
LEMMA LifoLinkStep ==
  ASSUME LifoInv, UNCHANGED rigid, LifoLink, Keep
  PROVE  LifoInv'
<1>1. /\ pc[1] = "link" /\ pc' = [pc EXCEPT ![1] = "item"] /\ reg' = reg
      /\ Put(1, nxt(mem[item]), reg[1].next, FALSE)
  BY LifoSees DEF LifoLink, Write, Go, Keep
<1>2. mem[item] \in Node /\ reg[1].next \in Node /\ mem[head] = ghost
  BY <1>1 DEF LifoInv, LifoItem, LifoHead
<1>3. PICK x \in LifoLoc, v \in 0..3 :
        x = nxt(mem[item]) /\ v = reg[1].next /\ Put(1, x, v, FALSE)
  <2>1. nxt(mem[item]) \in LifoLoc /\ reg[1].next \in 0..3
    BY <1>2, LifoNames
  <2> QED BY <1>1, <2>1
<1>4. Adds(Two, LifoLoc, 0..3, 1, x, v)
  <2>1. MemOK(Two, LifoLoc, 0..3) /\ Weak /\ 1 \in Two /\ FALSE \in BOOLEAN
    BY LifoNames DEF LifoInv, LifoTypes
  <2> QED BY <1>3, <2>1, PutAdds, Zenon
<1>5. PICK e : e.loc = x /\ e.val = v /\ Entries(1)' = Entries(1) \cup {e}
  BY <1>4 DEF Adds
<1>6. MemOK(Two, LifoLoc, 0..3)' /\ mem' = mem
      /\ Entries(2)' = Entries(2) /\ Entries(Main)' = Entries(Main)
  BY <1>4, LifoNames DEF Adds
<1>7. pc'[1] = "item" /\ pc'[2] = pc[2] /\ pc'[Main] = pc[Main]
  BY <1>1, LifoNames DEF LifoInv, LifoTypes
<1>8. LifoTypes'
  BY <1>1, <1>6, LifoNames DEF LifoInv, LifoTypes, Weak, rigid
<1>9. LifoEntries'
  <2>1. x \in {nxt(ghost), nxt(X)} /\ v \in Node
    BY <1>2, <1>3, LifoNames
  <2>2. \A f \in Entries(1)' : /\ f.loc \in {nxt(ghost), nxt(X), busy(ghost), busy(X)}
                               /\ f.loc = nxt(X) => f.val \in Node
    BY <1>5, <2>1 DEF LifoInv, LifoEntries
  <2> QED BY <1>1, <1>6, <1>7, <2>2 DEF LifoInv, LifoEntries
<1>10. LifoItem'
  BY <1>1, <1>6, <1>7 DEF LifoInv, LifoItem
<1>11. LifoLinked' \/ mem[item] = ghost
  <2>1. mem[item] = X => LifoLinked'
    BY <1>3, <1>5 DEF LifoLinked
  <2> QED BY <1>2, <2>1 DEF Node
<1>12. LifoHead'
  BY <1>1, <1>2, <1>6, <1>7, <1>11 DEF LifoInv, LifoHead
<1> QED BY <1>8, <1>9, <1>10, <1>12 DEF LifoInv

(* The exchange of the push, and whatever it does.                         *)
LEMMA LifoPushCas ==
  ASSUME LifoInv, UNCHANGED rigid, Keep,
         AtomicFull(1, "cas", head, IF mem[head] = reg[1].next THEN reg[1].it ELSE mem[head],
                    IF mem[head] = reg[1].next THEN "free" ELSE "next")
  PROVE  LifoInv'
<1>1. PICK v, to :
        /\ \/ v = reg[1].it /\ to = "free"
           \/ v = mem[head] /\ to = "next"
        /\ pc[1] = "cas" /\ pc' = [pc EXCEPT ![1] = to] /\ Drained(1) /\ SetMem(head, v)
        /\ reg' = reg
  <2>1. /\ pc[1] = "cas" /\ Drained(1) /\ reg' = reg
        /\ pc' = [pc EXCEPT ![1] = IF mem[head] = reg[1].next THEN "free" ELSE "next"]
        /\ SetMem(head, IF mem[head] = reg[1].next THEN reg[1].it ELSE mem[head])
    BY DEF AtomicFull, Go, Keep
  <2>2. CASE mem[head] = reg[1].next
    BY <2>1, <2>2, Zenon
  <2>3. CASE mem[head] # reg[1].next
    BY <2>1, <2>3, Zenon
  <2> QED BY <2>2, <2>3
<1>2. MemOK(Two, LifoLoc, 0..3) /\ mem \in [LifoLoc -> 0..3] /\ 1 \in Two /\ head \in LifoLoc
  BY LifoNames DEF LifoInv, LifoTypes, MemOK
<1>3. Entries(1) = {}
  BY <1>1, <1>2, DrainedEntries
<1>4. /\ mem[head] = ghost /\ reg[1].it \in Node
      /\ mem[nxt(X)] \in Node \/ reg[1].it = ghost
  BY <1>1, <1>3 DEF LifoInv, LifoHead, LifoLinked
<1>5. v \in Node /\ v \in 0..3 /\ (v = X => mem[nxt(X)] \in Node) /\ (to = "next" => v = ghost)
  BY <1>1, <1>4, LifoNames
<1>6. /\ MemOK(Two, LifoLoc, 0..3)' /\ mem' = [mem EXCEPT ![head] = v]
      /\ \A u \in Two : Entries(u)' = Entries(u)
  BY <1>1, <1>2, <1>5, SetMemEntries
<1>7. /\ mem'[head] = v /\ mem'[item] = mem[item] /\ mem'[nxt(X)] = mem[nxt(X)]
      /\ Entries(1)' = {} /\ Entries(2)' = Entries(2) /\ Entries(Main)' = Entries(Main)
  BY <1>2, <1>3, <1>6, LifoNames
<1>8. pc'[1] = to /\ pc'[2] = pc[2] /\ to \in {"free", "next"}
  BY <1>1, LifoNames DEF LifoInv, LifoTypes
<1>9. LifoTypes'
  BY <1>1, <1>6, <1>8, LifoNames DEF LifoInv, LifoTypes, Weak, rigid
<1>10. ~ (pc[2] \in {"item", "busy", "next", "cas"} /\ reg[2].it = X)
       /\ \A e \in Entries(2) : e.loc = item => pc[2] # "load"
  BY <1>4, LifoNames DEF LifoInv, LifoItem, LifoEntries
<1>11. LifoEntries'
  BY <1>1, <1>7, <1>8, <1>10 DEF LifoInv, LifoEntries
<1>12. LifoItem'
  BY <1>1, <1>7, <1>8, <1>10 DEF LifoInv, LifoItem
<1>13. LifoHead'
  BY <1>1, <1>5, <1>7, <1>8 DEF LifoInv, LifoHead
<1> QED BY <1>9, <1>11, <1>12, <1>13 DEF LifoInv

(* Every statement of the push preserves the invariant.                    *)
LEMMA LifoPushStep ==
  ASSUME LifoInv, UNCHANGED rigid, LifoPush
  PROVE  LifoInv'
<1>0. /\ reg \in [Two -> [next : 0..3, it : 0..3]] /\ 1 \in Two /\ 2 \in Two
      /\ mem[item] \in Node /\ mem[head] \in Node
  BY LifoNames DEF LifoInv, LifoTypes, LifoItem, LifoHead
<1>1. CASE WriteSC(1, "busy", busy(Load(1, item)), 1, "next") /\ Keep
  <2>1. LifoMarks(1)
    <3>1. PICK n \in Node : n = Load(1, item)
      BY <1>0, LifoSees
    <3>2. WriteSC(1, "busy", busy(n), 1, "next")
      BY <1>1, <3>1
    <3>3. 1 \in {1, 2} /\ 1 \in {0, 1}
      OBVIOUS
    <3> QED BY <3>2, <3>3, LifoMarkStore, Zenon
  <2>2. pc[1] = "busy" /\ pc' = [pc EXCEPT ![1] = "next"] /\ reg' = reg
    BY <1>1 DEF WriteSC, Go, Keep
  <2>3. mem[head] = ghost
    BY <2>2 DEF LifoInv, LifoHead
  <2> QED BY <1>0, <2>1, <2>2, <2>3, LifoPushMoves
<1>2. CASE ReadSC(1, "next", "next", head, "link") /\ UNCHANGED env
  <2>1. LifoMarks(1)
    <3>1. Silent /\ 1 \in {1, 2}
      BY <1>2 DEF ReadSC, Read
    <3> QED BY <3>1, LifoSilent, Zenon
  <2>2. /\ pc[1] = "next" /\ pc' = [pc EXCEPT ![1] = "link"]
        /\ reg' = [reg EXCEPT ![1] = [reg[1] EXCEPT !.next = mem[head]]]
    BY <1>0, <1>2, LifoSees DEF ReadSC, Read, Go
  <2>3. mem[head] = ghost
    BY <2>2 DEF LifoInv, LifoHead
  <2>4. /\ reg'[1].next \in Node /\ reg'[2] = reg[2]
        /\ reg' \in [Two -> [next : 0..3, it : 0..3]]
    BY <1>0, <2>2, LifoNames
  <2> QED BY <2>1, <2>2, <2>3, <2>4, LifoPushMoves
<1>3. CASE LifoLink
  BY <1>3, LifoLinkStep DEF LifoLink
<1>4. CASE Read(1, "item", "it", item, "cas") /\ UNCHANGED env
  <2>1. LifoMarks(1)
    <3>1. Silent /\ 1 \in {1, 2}
      BY <1>4 DEF Read
    <3> QED BY <3>1, LifoSilent, Zenon
  <2>2. /\ pc[1] = "item" /\ pc' = [pc EXCEPT ![1] = "cas"]
        /\ reg' = [reg EXCEPT ![1] = [reg[1] EXCEPT !.it = mem[item]]]
    BY <1>0, <1>4, LifoSees DEF Read, Go
  <2>3. mem[head] = ghost /\ reg[1].next \in Node /\ (LifoLinked \/ mem[item] = ghost)
    BY <2>2 DEF LifoInv, LifoHead
  <2>4. /\ reg'[1].it = mem[item] /\ reg'[1].next = reg[1].next /\ reg'[2] = reg[2]
        /\ reg' \in [Two -> [next : 0..3, it : 0..3]]
    BY <1>0, <2>2, LifoNames
  <2> QED BY <1>0, <2>1, <2>2, <2>3, <2>4, LifoPushMoves
<1>5. CASE /\ AtomicFull(1, "cas", head, IF mem[head] = reg[1].next THEN reg[1].it ELSE mem[head],
                         IF mem[head] = reg[1].next THEN "free" ELSE "next")
           /\ Keep
  BY <1>5, LifoPushCas
<1>6. CASE LifoFree
  <2>1. LifoMarks(1)
    <3>1. PICK n \in Node : n = Load(1, item)
      BY <1>0, LifoSees
    <3>2. WriteSC(1, "free", busy(n), 0, "done")
      BY <1>6, <3>1 DEF LifoFree
    <3>3. 1 \in {1, 2} /\ 0 \in {0, 1}
      OBVIOUS
    <3> QED BY <3>2, <3>3, LifoMarkStore, Zenon
  <2>2. pc' = [pc EXCEPT ![1] = "done"] /\ reg' = reg
    BY <1>6 DEF LifoFree, WriteSC, Go, Keep
  <2> QED BY <1>0, <2>1, <2>2, LifoPushMoves
<1> QED BY <1>1, <1>2, <1>3, <1>4, <1>5, <1>6, Zenon DEF LifoPush

(* Steps of the pop that leave the three words alone.                      *)
LEMMA LifoPopMoves ==
  ASSUME LifoInv, LifoMarks(2), NEW to,
         to \in {"load", "item", "next", "cas"},
         pc[2] \in {"load", "busy", "next", "free"}, pc' = [pc EXCEPT ![2] = to],
         reg' \in [Two -> [next : 0..3, it : 0..3]], reg'[1] = reg[1],
         pc[2] \in {"busy", "next"} /\ to # "load" => reg'[2].it = reg[2].it,
         to \in {"next", "cas"} => pc[2] \in {"busy", "next"},
         to = "item" => reg'[2].it = mem[head] /\ pc[2] = "load",
         to = "cas" => reg'[2].next \in Node
  PROVE  LifoInv'
<1>1. pc'[2] = to /\ pc'[1] = pc[1]
  BY LifoNames DEF LifoInv, LifoTypes
<1>2. /\ mem'[item] = mem[item] /\ mem'[head] = mem[head] /\ mem'[nxt(X)] = mem[nxt(X)]
      /\ Entries(1)' = Entries(1) /\ Entries(Main)' = Entries(Main)
      /\ \A e \in Entries(2)' : e \in Entries(2) \/ e.loc \in {busy(ghost), busy(X)}
  BY LifoNames DEF LifoMarks
<1>3. LifoTypes'
  BY LifoNames DEF LifoInv, LifoTypes, LifoMarks
<1>4. mem[item] # ghost
  BY DEF LifoInv, LifoItem
<1>5. pc[2] \in {"busy", "next"} => reg[2].it = X /\ mem[head] = X
  BY DEF LifoInv, LifoItem
<1>6. LifoItem'
  BY <1>1, <1>2, <1>4, <1>5, LifoNames DEF LifoInv, LifoItem, LifoHead
<1>7. \A e \in Entries(2)' : /\ e.loc \in {item, busy(ghost), busy(X)}
                             /\ e.loc = item => e \in Entries(2)
  BY <1>2, LifoNames DEF LifoInv, LifoEntries
<1>8. \A e \in Entries(2) : e.loc = item => e.val = X /\ mem[head] = X /\ pc[2] # "free"
  BY <1>5 DEF LifoInv, LifoEntries
<1>9. \A e \in Entries(2) : e.loc = item => to = "load" \/ e.val = reg'[2].it
  BY <1>5, <1>8
<1>10. LifoEntries'
  <2>1. \A e \in Entries(2)' : e.loc = item =>
          /\ pc'[2] # "free"
          /\ pc'[2] \in {"load", "item"} => e.val = X /\ mem'[head] = X
          /\ pc'[2] # "load" => e.val = reg'[2].it
    BY <1>1, <1>2, <1>7, <1>8, <1>9
  <2> QED BY <1>2, <1>7, <2>1 DEF LifoInv, LifoEntries
<1>11. LifoLinked' <=> LifoLinked
  BY <1>2 DEF LifoLinked
<1>12. LifoHead'
  BY <1>1, <1>2, <1>11 DEF LifoInv, LifoHead
<1> QED BY <1>3, <1>6, <1>10, <1>12 DEF LifoInv

(* item = what the pop has found at the head                               *)
LEMMA LifoPopItem ==
  ASSUME LifoInv, UNCHANGED rigid, Keep,
         Write(2, "item", item, reg[2].it, IF reg[2].it = ghost THEN "done" ELSE "busy")
  PROVE  LifoInv'
<1>1. pc[2] = "item" /\ reg[2].it \in Node
  BY DEF Write, Go, LifoInv, LifoItem
<1>2. PICK to : /\ \/ to = "done" /\ reg[2].it = ghost
                   \/ to = "busy" /\ reg[2].it = X
                /\ pc' = [pc EXCEPT ![2] = to] /\ reg' = reg
                /\ Put(2, item, reg[2].it, FALSE)
  <2>1. CASE reg[2].it = ghost
    BY <2>1, Zenon DEF Write, Go, Keep
  <2>2. CASE reg[2].it = X
    <3>1. X # ghost
      BY LifoNames
    <3> QED BY <2>2, <3>1, Zenon DEF Write, Go, Keep
  <2> QED BY <1>1, <2>1, <2>2 DEF Node
<1>3. PICK x \in LifoLoc, v \in 0..3 : x = item /\ v = reg[2].it /\ Put(2, x, v, FALSE)
  BY <1>1, <1>2, LifoNames
<1>4. Adds(Two, LifoLoc, 0..3, 2, x, v)
  <2>1. MemOK(Two, LifoLoc, 0..3) /\ Weak /\ 2 \in Two /\ FALSE \in BOOLEAN
    BY LifoNames DEF LifoInv, LifoTypes
  <2> QED BY <1>3, <2>1, PutAdds, Zenon
<1>5. PICK e : e.loc = item /\ e.val = reg[2].it /\ Entries(2)' = Entries(2) \cup {e}
  BY <1>3, <1>4 DEF Adds
<1>6. MemOK(Two, LifoLoc, 0..3)' /\ mem' = mem
      /\ Entries(1)' = Entries(1) /\ Entries(Main)' = Entries(Main)
  BY <1>4, LifoNames DEF Adds
<1>7. pc'[2] = to /\ pc'[1] = pc[1] /\ to \in {"done", "busy"}
  BY <1>2, LifoNames DEF LifoInv, LifoTypes
<1>8. LifoTypes'
  BY <1>2, <1>6, <1>7, LifoNames DEF LifoInv, LifoTypes, Weak, rigid
<1>9. LifoEntries'
  BY <1>1, <1>2, <1>5, <1>6, <1>7 DEF LifoInv, LifoEntries
<1>10. LifoItem'
  BY <1>1, <1>2, <1>6, <1>7, LifoNames DEF LifoInv, LifoItem
<1>11. LifoLinked' <=> LifoLinked
  BY <1>6 DEF LifoLinked
<1>12. LifoHead'
  BY <1>2, <1>6, <1>7, <1>11 DEF LifoInv, LifoHead
<1> QED BY <1>8, <1>9, <1>10, <1>12 DEF LifoInv

(* The exchange of the pop succeeds, or writes what it found into item.    *)
LEMMA LifoPopCas ==
  ASSUME LifoInv, UNCHANGED rigid, Keep,
         \/ AtomicFull(2, "cas", head, reg[2].next, "done")
         \/ AtomicFull(2, "cas", item, mem[head], "free")
  PROVE  LifoInv'
<1>1. pc[2] = "cas" /\ Drained(2) /\ reg' = reg
  BY DEF AtomicFull, Go, Keep
<1>2. /\ MemOK(Two, LifoLoc, 0..3) /\ mem \in [LifoLoc -> 0..3] /\ 2 \in Two
      /\ head \in LifoLoc /\ item \in LifoLoc
  BY LifoNames DEF LifoInv, LifoTypes, MemOK
<1>3. Entries(2) = {}
  BY <1>1, <1>2, DrainedEntries
<1>4. /\ reg[2].it = X /\ mem[head] = X /\ mem[item] = X /\ reg[2].next \in Node
      /\ mem[nxt(X)] \in Node /\ pc[1] \notin {"busy", "next", "link", "item", "cas"}
  BY <1>1, LifoNames DEF LifoInv, LifoItem, LifoHead, Node
<1>5. CASE AtomicFull(2, "cas", head, reg[2].next, "done")
  <2>1. SetMem(head, reg[2].next) /\ pc' = [pc EXCEPT ![2] = "done"] /\ reg[2].next \in 0..3
    BY <1>4, <1>5, LifoNames DEF AtomicFull, Go
  <2>2. /\ MemOK(Two, LifoLoc, 0..3)' /\ mem' = [mem EXCEPT ![head] = reg[2].next]
        /\ \A u \in Two : Entries(u)' = Entries(u)
    BY <1>2, <2>1, SetMemEntries
  <2>3. /\ mem'[head] = reg[2].next /\ mem'[item] = X /\ mem'[nxt(X)] = mem[nxt(X)]
        /\ Entries(1)' = Entries(1) /\ Entries(2)' = {} /\ Entries(Main)' = Entries(Main)
        /\ pc'[2] = "done" /\ pc'[1] = pc[1]
    BY <1>2, <1>3, <1>4, <2>1, <2>2, LifoNames DEF LifoInv, LifoTypes
  <2>4. LifoTypes'
    BY <1>1, <2>1, <2>2, LifoNames DEF LifoInv, LifoTypes, Weak, rigid
  <2>5. LifoEntries'
    BY <1>1, <2>3 DEF LifoInv, LifoEntries
  <2>6. LifoItem'
    BY <1>1, <1>4, <2>3, LifoNames DEF LifoInv, LifoItem
  <2>7. LifoHead'
    BY <1>1, <1>4, <2>3 DEF LifoInv, LifoHead
  <2> QED BY <2>4, <2>5, <2>6, <2>7 DEF LifoInv
<1>6. CASE AtomicFull(2, "cas", item, mem[head], "free")
  <2>1. SetMem(item, mem[head]) /\ pc' = [pc EXCEPT ![2] = "free"] /\ mem[head] \in 0..3
    BY <1>2, <1>6 DEF AtomicFull, Go
  <2>2. /\ MemOK(Two, LifoLoc, 0..3)' /\ mem' = [mem EXCEPT ![item] = mem[head]]
        /\ \A u \in Two : Entries(u)' = Entries(u)
    BY <1>2, <2>1, SetMemEntries
  <2>3. /\ mem'[head] = X /\ mem'[item] = X /\ mem'[nxt(X)] = mem[nxt(X)]
        /\ Entries(1)' = Entries(1) /\ Entries(2)' = {} /\ Entries(Main)' = Entries(Main)
        /\ pc'[2] = "free" /\ pc'[1] = pc[1]
    BY <1>2, <1>3, <1>4, <2>1, <2>2, LifoNames DEF LifoInv, LifoTypes
  <2>4. LifoTypes'
    BY <1>1, <2>1, <2>2, LifoNames DEF LifoInv, LifoTypes, Weak, rigid
  <2>5. LifoEntries'
    BY <1>1, <2>3 DEF LifoInv, LifoEntries
  <2>6. LifoItem'
    BY <1>1, <1>4, <2>3, LifoNames DEF LifoInv, LifoItem
  <2>7. LifoHead'
    BY <1>1, <1>4, <2>3 DEF LifoInv, LifoHead
  <2> QED BY <2>4, <2>5, <2>6, <2>7 DEF LifoInv
<1> QED BY <1>5, <1>6

(* Every statement of the pop preserves the invariant.                     *)
LEMMA LifoPopStep ==
  ASSUME LifoInv, UNCHANGED rigid, LifoPop
  PROVE  LifoInv'
<1>0. /\ reg \in [Two -> [next : 0..3, it : 0..3]] /\ 1 \in Two /\ 2 \in Two
      /\ mem[item] \in Node /\ mem[head] \in Node
  BY LifoNames DEF LifoInv, LifoTypes, LifoItem, LifoHead
<1>1. ASSUME Silent PROVE LifoMarks(2)
  <2>1. 2 \in {1, 2}
    OBVIOUS
  <2> QED BY <1>1, <2>1, LifoSilent, Zenon
<1>2. CASE ReadSC(2, "load", "it", head, "item") /\ UNCHANGED env
  <2>1. /\ pc[2] = "load" /\ pc' = [pc EXCEPT ![2] = "item"]
        /\ reg' = [reg EXCEPT ![2] = [reg[2] EXCEPT !.it = mem[head]]]
    BY <1>0, <1>2, LifoSees DEF ReadSC, Read, Go
  <2>2. /\ reg'[2].it = mem[head] /\ reg'[1] = reg[1]
        /\ reg' \in [Two -> [next : 0..3, it : 0..3]]
    BY <1>0, <2>1, LifoNames
  <2>3. LifoMarks(2)
    BY <1>1, <1>2 DEF ReadSC, Read
  <2> QED BY <2>1, <2>2, <2>3, LifoPopMoves
<1>3. CASE /\ Write(2, "item", item, reg[2].it, IF reg[2].it = ghost THEN "done" ELSE "busy")
           /\ Keep
  BY <1>3, LifoPopItem
<1>4. CASE NoRelease(2) /\ Local(2, "busy", IF LifoBusy THEN "load" ELSE "next") /\ Keep
  <2>1. PICK to \in {"load", "next"} : pc' = [pc EXCEPT ![2] = to]
    BY <1>4 DEF Local, Go
  <2>2. pc[2] = "busy" /\ reg' = reg /\ LifoMarks(2)
    BY <1>1, <1>4 DEF Local, Go, Keep
  <2> QED BY <1>0, <2>1, <2>2, LifoPopMoves
<1>5. CASE Read(2, "next", "next", nxt(Load(2, item)), "cas") /\ UNCHANGED env
  <2>1. pc[2] = "next" /\ pc' = [pc EXCEPT ![2] = "cas"] /\ LifoMarks(2)
    BY <1>1, <1>5 DEF Read, Go
  <2>2. reg' = [reg EXCEPT ![2] = [reg[2] EXCEPT !.next = mem[nxt(X)]]]
    <3>1. Load(2, item) = X /\ Load(2, nxt(X)) = mem[nxt(X)]
      BY <2>1, LifoSees
    <3> QED BY <1>0, <1>5, <3>1 DEF Read
  <2>3. mem[nxt(X)] \in Node
    BY <2>1 DEF LifoInv, LifoItem, LifoHead
  <2>4. /\ reg'[2].it = reg[2].it /\ reg'[2].next \in Node /\ reg'[1] = reg[1]
        /\ reg' \in [Two -> [next : 0..3, it : 0..3]]
    BY <1>0, <2>2, <2>3, LifoNames
  <2> QED BY <2>1, <2>4, LifoPopMoves
<1>6. CASE \/ mem[head] = Load(2, item) /\ AtomicFull(2, "cas", head, reg[2].next, "done") /\ Keep
           \/ AtomicFull(2, "cas", item, mem[head], "free") /\ Keep
  BY <1>6, LifoPopCas
<1>7. CASE WriteSC(2, "free", busy(Load(2, item)), 0, "load") /\ Keep
  <2>1. pc[2] = "free" /\ pc' = [pc EXCEPT ![2] = "load"] /\ reg' = reg
    BY <1>7 DEF WriteSC, Go, Keep
  <2>2. Load(2, item) = mem[item]
    <3>1. \A e \in Entries(2) : e.loc # item
      BY <2>1 DEF LifoInv, LifoEntries
    <3>2. MemOK(Two, LifoLoc, 0..3) /\ item \in LifoLoc
      BY LifoNames DEF LifoInv, LifoTypes
    <3> QED BY <1>0, <3>1, <3>2, LoadEntries
  <2>3. LifoMarks(2)
    <3>1. PICK n \in Node : n = Load(2, item)
      BY <1>0, <2>2
    <3>2. WriteSC(2, "free", busy(n), 0, "load")
      BY <1>7, <3>1
    <3>3. 2 \in {1, 2} /\ 0 \in {0, 1}
      OBVIOUS
    <3> QED BY <3>2, <3>3, LifoMarkStore, Zenon
  <2> QED BY <1>0, <2>1, <2>3, LifoPopMoves
<1> QED BY <1>2, <1>3, <1>4, <1>5, <1>6, <1>7, Zenon DEF LifoPop

(* A store becomes visible.                                                *)
LEMMA LifoFlushStep ==
  ASSUME LifoInv, NEW t \in Two, NEW x \in DOMAIN mem, Commit(t, x),
         UNCHANGED <<rigid, pc, reg, env>>
  PROVE  LifoInv'
<1>1. /\ MemOK(Two, LifoLoc, 0..3) /\ Weak /\ x \in LifoLoc /\ mem \in [LifoLoc -> 0..3]
      /\ item \in LifoLoc /\ head \in LifoLoc /\ nxt(X) \in LifoLoc
  BY LifoNames DEF LifoInv, LifoTypes, MemOK
<1>2. /\ MemOK(Two, LifoLoc, 0..3)'
      /\ \A u \in Two : u # t => Entries(u)' = Entries(u)
      /\ Entries(t)' \subseteq Entries(t)
      /\ \E e \in Entries(t) :
           /\ e.loc = x
           /\ mem' = [mem EXCEPT ![x] = e.val]
           /\ \A f \in Entries(t) : f # e => f \in Entries(t)'
  BY <1>1, CommitEntries
<1>3. PICK e \in Entries(t) :
        /\ e.loc = x
        /\ mem' = [mem EXCEPT ![x] = e.val]
        /\ \A f \in Entries(t) : f # e => f \in Entries(t)'
  BY <1>2
<1>4. t \in {1, 2} /\ 1 \in Two /\ 2 \in Two /\ Main \in Two /\ Main # 1 /\ Main # 2
  BY <1>3, LifoNames DEF LifoInv, LifoEntries
<1>5. /\ x # head
      /\ x = item => /\ t = 2 /\ e.val \in Node
                     /\ e.val = ghost => pc[2] = "done" /\ reg[2].it = ghost
      /\ x = nxt(X) => t = 1 /\ e.val \in Node
  <2>1. CASE t = 1
    BY <1>3, <2>1, LifoNames DEF LifoInv, LifoEntries
  <2>2. CASE t = 2
    <3>1. x \in {item, busy(ghost), busy(X)}
      BY <1>3, <2>2 DEF LifoInv, LifoEntries
    <3>2. x # head /\ x # nxt(X)
      BY <3>1, LifoNames
    <3>3. CASE x = item
      <4>1. /\ pc[2] # "free"
            /\ pc[2] \in {"load", "item"} => e.val = X
            /\ pc[2] # "load" => e.val = reg[2].it
        BY <1>3, <2>2, <3>3 DEF LifoInv, LifoEntries
      <4>2. pc[2] \in {"load", "item", "busy", "next", "cas", "free", "done"} /\ X # ghost
        BY LifoNames DEF LifoInv, LifoTypes
      <4>3. /\ pc[2] \in {"busy", "next", "cas"} => reg[2].it = X
            /\ pc[2] = "done" => reg[2].it \in Node
        BY DEF LifoInv, LifoItem
      <4> QED BY <2>2, <3>2, <3>3, <4>1, <4>2, <4>3 DEF Node
    <3> QED BY <3>2, <3>3
  <2> QED BY <1>4, <2>1, <2>2
<1>6. /\ mem'[head] = mem[head]
      /\ mem'[item] = IF x = item THEN e.val ELSE mem[item]
      /\ mem'[nxt(X)] = IF x = nxt(X) THEN e.val ELSE mem[nxt(X)]
  BY <1>1, <1>3, <1>5
<1>7. LifoTypes'
  BY <1>2 DEF LifoInv, LifoTypes, Weak, rigid
<1>8. LifoEntries'
  BY <1>2, <1>4, <1>6 DEF LifoInv, LifoEntries
<1>9. LifoItem'
  <2>1. mem'[item] \in Node /\ (mem'[item] = ghost => pc[2] = "done" /\ reg[2].it = ghost)
    BY <1>5, <1>6 DEF LifoInv, LifoItem
  <2> QED BY <1>6, <2>1 DEF LifoInv, LifoItem
<1>10. LifoLinked \/ mem[item] = ghost => LifoLinked' \/ mem'[item] = ghost
  <2>1. LifoLinked => LifoLinked'
    <3>1. CASE x = nxt(X)
      BY <1>5, <1>6, <3>1 DEF LifoLinked
    <3>2. CASE x # nxt(X)
      BY <1>2, <1>3, <1>4, <1>6, <3>2 DEF LifoLinked
    <3> QED BY <3>1, <3>2
  <2>2. mem[item] = ghost => mem'[item] = ghost
    <3>1. mem[item] = ghost /\ x = item => e.val = ghost
      BY <1>3, <1>5 DEF LifoInv, LifoItem, LifoEntries
    <3> QED BY <1>6, <3>1
  <2> QED BY <2>1, <2>2
<1>11. LifoLinked => LifoLinked'
  <2>1. CASE x = nxt(X)
    BY <1>5, <1>6, <2>1 DEF LifoLinked
  <2>2. CASE x # nxt(X)
    BY <1>2, <1>3, <1>4, <1>6, <2>2 DEF LifoLinked
  <2> QED BY <2>1, <2>2
<1>12. LifoHead'
  <2>1. mem'[head] = X => mem'[nxt(X)] \in Node
    BY <1>5, <1>6 DEF LifoInv, LifoHead
  <2> QED BY <1>6, <1>10, <1>11, <2>1 DEF LifoInv, LifoHead
<1> QED BY <1>7, <1>8, <1>9, <1>12 DEF LifoInv

(* main joins, or nothing changes.                                         *)
LEMMA LifoRestStep ==
  ASSUME LifoInv, \/ JoinTwo /\ UNCHANGED rigid
                  \/ UNCHANGED vars
  PROVE  LifoInv'
<1>1. /\ mem' = mem /\ buf' = buf /\ reg' = reg /\ model' = model
      /\ pc'[1] = pc[1] /\ pc'[2] = pc[2]
      /\ pc' \in [Two -> {"busy", "next", "link", "item", "cas", "free", "load", "done",
                          "join", "exit"}]
  <2>1. CASE JoinTwo /\ UNCHANGED rigid
    <3>1. mem' = mem /\ buf' = buf /\ reg' = reg /\ model' = model
          /\ pc' = [pc EXCEPT ![Main] = "exit"]
      BY <2>1 DEF JoinTwo, Await, Go, Silent, Keep, rigid
    <3> QED BY <3>1, LifoNames DEF LifoInv, LifoTypes
  <2>2. CASE UNCHANGED vars
    BY <2>2 DEF vars, LifoInv, LifoTypes
  <2> QED BY <2>1, <2>2
<1>2. \A u : Entries(u)' = Entries(u)
  BY <1>1 DEF Entries
<1>3. LifoTypes'
  BY <1>1 DEF LifoInv, LifoTypes, MemOK, Weak
<1>4. LifoEntries' /\ LifoItem'
  BY <1>1, <1>2 DEF LifoInv, LifoEntries, LifoItem
<1>5. LifoLinked' <=> LifoLinked
  BY <1>1, <1>2 DEF LifoLinked
<1>6. LifoHead'
  BY <1>1, <1>5 DEF LifoInv, LifoHead
<1> QED BY <1>3, <1>4, <1>6 DEF LifoInv

LifoOnly == program = "lifo" => LifoInv

(* Whatever program runs, the invariant holds at first if it is this one.  *)
LEMMA LifoOnlyInit == Init => LifoOnly
<1> SUFFICES ASSUME Init, program = "lifo" PROVE LifoInv
  BY DEF LifoOnly
<1>1. LifoInit
  BY Zenon DEF Init, QueueLockInit, SharedLockInit, PublicationInit, WakeUpInit, ArenaInit,
     ClhInit, QspinInit, LinkInit, RwInit, EventInit, XenInit, BuffersInit,
     MpInit, SbInit, PackageInit, RingInit, SeqInit, ModeInit, PointsInit,
     MpPrograms, SbPrograms, OmpiInit, JdkInit, RelaxInit, Boot
<1> QED BY <1>1, LifoInitInv

(* Every step of Native preserves the invariant of this program.           *)
LEMMA LifoOnlyNext == LifoOnly /\ [Next]_vars => LifoOnly'
<1> SUFFICES ASSUME LifoOnly, [Next]_vars, program' = "lifo" PROVE LifoInv'
  BY DEF LifoOnly
<1>1. program = "lifo"
  BY DEF Next, Step, FlushStep, rigid, vars
<1>2. LifoInv
  BY <1>1 DEF LifoOnly
<1>3. DOMAIN pc = Two /\ DOMAIN mem = LifoLoc
  BY <1>2 DEF LifoInv, LifoTypes, MemOK
<1>4. ASSUME NEW t \in Thread, Step(t) PROVE LifoInv'
  <2>1. t \in Two /\ UNCHANGED rigid
    BY <1>3, <1>4 DEF Step
  <2>2. LifoStep(t)
    BY <1>1, <1>4, Zenon DEF Step, QueueLockStep, SharedLockStep, PublicationStep,
       MpPrograms, SbPrograms, WakeUpStep
  <2>3. CASE t = Main
    <3>1. JoinTwo
      BY <2>2, <2>3 DEF LifoStep, Main
    <3> QED BY <1>2, <2>1, <3>1, LifoRestStep
  <2>4. CASE t = 1
    <3>1. LifoPush
      BY <2>2, <2>4 DEF LifoStep, Main
    <3> QED BY <1>2, <2>1, <3>1, LifoPushStep
  <2>5. CASE t = 2
    <3>1. LifoPop
      BY <2>2, <2>5 DEF LifoStep, Main
    <3> QED BY <1>2, <2>1, <3>1, LifoPopStep
  <2> QED BY <2>1, <2>3, <2>4, <2>5 DEF Two
<1>5. ASSUME NEW t \in Thread, FlushStep(t) PROVE LifoInv'
  BY <1>2, <1>3, <1>5, LifoFlushStep, Zenon DEF FlushStep, Flush, rigid
<1>6. CASE UNCHANGED vars
  BY <1>2, <1>6, LifoRestStep
<1> QED BY <1>4, <1>5, <1>6 DEF Next

(* In 15-openmpi.c the pop assigns the pointer item under the push, on TSO *)
(* and on ARM: the head of the list and the pointer are always one of the  *)
(* list's nodes, never the garbage of a next field.                        *)
THEOREM HeadIsNode == Spec => []LifoHeadIsNode
<1>1. LifoOnly => LifoHeadIsNode
  BY DEF LifoOnly, LifoInv, LifoHead, LifoItem, LifoHeadIsNode, Node
<1> QED BY <1>1, LifoOnlyInit, LifoOnlyNext, PTL DEF Spec

-----------------------------------------------------------------------------
(* 24-mysql_rwlock_deadlock.c and 25-mysql_volatile_bug.c, whose own       *)
(* specification is ResetSpec: their types on TSO and on ARM, and that on  *)
(* TSO a detection needs an early break, for store buffers of any size.    *)

(* The inductive invariant.  Until the reader breaks out early, its five   *)
(* stores of a round, from start = 0 to start = 1, and the writer's three  *)
(* never interleave with those of another round, so that the buffers and   *)
(* the memory are told by how many stores of the round have been issued    *)
(* and how many of them have been committed.                               *)

ResetTypes ==
  /\ model \in {"TSO", "ARM"}
  /\ program \in {"rwlock", "volatile"}
  /\ MemOK(ResetThread, WordLoc, {0, 1})
  /\ pc \in [ResetThread -> WriterPC \cup ReaderPC]
  /\ pc[Writer] \in WriterPC /\ pc[Reader] \in ReaderPC
  /\ reg \in [ResetThread -> [flag : {0, 1, Unread}, data : {0, 1, Unread}]]
  /\ env \in [early : BOOLEAN]

(* The i-th store of a round, of the reader and of the writer.             *)
ResetLoc(i) ==
  IF i = 2 THEN "flag" ELSE IF i = 3 THEN "data" ELSE IF i = 4 THEN "done" ELSE "start"
ResetVal(i) == IF i = 5 THEN 1 ELSE 0
SetLoc(i)   == IF i = 1 THEN "data" ELSE IF i = 2 THEN "flag" ELSE "done"

(* How many of them have been issued, and are in memory.                   *)
ResetsIssued ==
  CASE pc[Reader] = "r_flag"  -> 1
    [] pc[Reader] = "r_data"  -> 2
    [] pc[Reader] = "r_done"  -> 3
    [] pc[Reader] = "r_start" -> 4
    [] OTHER                  -> 5
SetsIssued ==
  CASE pc[Writer] \in {"w_wait", "w_first"}   -> 0
    [] pc[Writer] \in {"w_fence", "w_second"} -> 1
    [] pc[Writer] = "w_done"                  -> 2
    [] pc[Writer] = "w_reset"                 -> 3
Resets == ResetsIssued - Len(buf[Reader])
Sets   == SetsIssued - Len(buf[Writer])

Buffered ==
  /\ Resets >= 0 /\ Sets >= 0
  /\ \A i \in 1..Len(buf[Reader]) : /\ buf[Reader][i].loc = ResetLoc(Resets + i)
                                    /\ buf[Reader][i].val = ResetVal(Resets + i)
  /\ \A i \in 1..Len(buf[Writer]) : /\ buf[Writer][i].loc = SetLoc(Sets + i)
                                    /\ buf[Writer][i].val = 1

(* The writer is between two rounds.                                       *)
WriterRests == pc[Writer] \in {"w_wait", "w_reset"} /\ Len(buf[Writer]) = 0

(* While the reader's stores arrive.                                       *)
Resetting ==
  Resets < 5 =>
    /\ WriterRests
    /\ mem["start"] = IF Resets = 0 THEN 1 ELSE 0
    /\ Resets = 0 => pc[Writer] = "w_reset"
    /\ Resets >= 2 => mem["flag"] = 0
    /\ Resets >= 3 => mem["data"] = 0
    /\ Resets >= 4 => mem["done"] = 0

(* When all have arrived, the writer makes its three stores, unless it has *)
(* missed start = 0 and rests.                                             *)
Setting ==
  Resets = 5 =>
    /\ mem["start"] = 1
    /\ \E m \in 0..3 :
         /\ m = Sets \/ (m = 0 /\ Sets = 3 /\ pc[Writer] = "w_reset")
         /\ mem["data"] = IF m >= 1 THEN 1 ELSE 0
         /\ mem["flag"] = IF m >= 2 THEN 1 ELSE 0
         /\ mem["done"] = IF m >= 3 THEN 1 ELSE 0

(* What the reader has peeked at, and that it stops a writer that rests.   *)
Peeked ==
  LET r == reg[Reader]
  IN  /\ pc[Reader] \notin {"r_peek", "r_check"} => r.flag = Unread /\ r.data = Unread
      /\ r.data # Unread => r.flag # Unread
      /\ r.flag = 1 => Resets = 5 /\ mem["data"] = 1
      /\ r.flag = 1 /\ r.data # Unread => r.data = 1
      /\ pc[Reader] = "r_check" => r.data # Unread
      /\ pc[Reader] = "r_stop" => Resets = 5 /\ WriterRests /\ pc[Writer] = "w_reset"
      /\ pc[Reader] # "exit"

InStep == Buffered /\ Resetting /\ Setting /\ Peeked

ResetInv == ResetTypes /\ (model = "TSO" /\ ~ env.early => InStep)

-----------------------------------------------------------------------------
(* The two threads, and the words of the memory.                           *)
LEMMA HandshakeFacts ==
  /\ Writer \in ResetThread /\ Reader \in ResetThread /\ Writer # Reader
  /\ \A t \in ResetThread : t = Writer \/ t = Reader
  /\ "data" \in WordLoc /\ "flag" \in WordLoc /\ "start" \in WordLoc /\ "done" \in WordLoc
  /\ Unread \notin {0, 1}
  BY DEF Writer, Reader, ResetThread, WordLoc, Unread

(* A statement moves its own thread.                                       *)
LEMMA GoMoves ==
  ASSUME ResetTypes, NEW t \in ResetThread, NEW from, NEW to, Go(t, from, to)
  PROVE  /\ pc[t] = from /\ pc'[t] = to
         /\ \A u \in ResetThread : u # t => pc'[u] = pc[u]
         /\ DOMAIN pc' = ResetThread
  BY DEF ResetTypes, Go

(* A step keeps the types when memory and locals do and its label is one   *)
(* of its thread's.                                                        *)
LEMMA TypesKept ==
  ASSUME ResetTypes, MemOK(ResetThread, WordLoc, {0, 1})', UNCHANGED rigid,
         NEW t \in ResetThread, NEW from, NEW to, Go(t, from, to),
         t = Writer => to \in WriterPC, t = Reader => to \in ReaderPC,
         reg' \in [ResetThread -> [flag : {0, 1, Unread}, data : {0, 1, Unread}]],
         env' \in [early : BOOLEAN]
  PROVE  ResetTypes'
<1>1. /\ pc' \in [ResetThread -> WriterPC \cup ReaderPC]
      /\ pc'[Writer] \in WriterPC /\ pc'[Reader] \in ReaderPC
  BY HandshakeFacts DEF ResetTypes, Go
<1> QED BY <1>1 DEF ResetTypes, rigid

(* The same when locals and history stay as they are.                      *)
LEMMA TypesKeep ==
  ASSUME ResetTypes, MemOK(ResetThread, WordLoc, {0, 1})', UNCHANGED rigid, Keep,
         NEW t \in ResetThread, NEW from, NEW to, Go(t, from, to),
         t = Writer => to \in WriterPC, t = Reader => to \in ReaderPC
  PROVE  ResetTypes'
<1>1. reg' \in [ResetThread -> [flag : {0, 1, Unread}, data : {0, 1, Unread}]]
  BY DEF ResetTypes, Keep
<1>2. env' \in [early : BOOLEAN]
  BY DEF ResetTypes, Keep
<1> QED BY <1>1, <1>2, TypesKept, Zenon

(* A plain store of 0 or 1 keeps the types.                                *)
LEMMA TypesWrite ==
  ASSUME ResetTypes, UNCHANGED rigid, Keep, NEW t \in ResetThread, NEW x \in WordLoc,
         NEW v \in {0, 1}, NEW from, NEW to, Write(t, from, x, v, to),
         t = Writer => to \in WriterPC, t = Reader => to \in ReaderPC
  PROVE  ResetTypes'
<1>1. MemOK(ResetThread, WordLoc, {0, 1})'
  <2>1. FALSE \in BOOLEAN
    OBVIOUS
  <2>2. Weak /\ MemOK(ResetThread, WordLoc, {0, 1}) /\ Put(t, x, v, FALSE)
    BY DEF ResetTypes, Weak, Write
  <2>3. Adds(ResetThread, WordLoc, {0, 1}, t, x, v)
    BY <2>1, <2>2, PutAdds, Zenon
  <2> QED BY <2>3 DEF Adds
<1>2. Go(t, from, to)
  BY DEF Write
<1> QED BY <1>1, <1>2, TypesKeep, Zenon

(* A step that leaves the memory alone keeps the types.                    *)
LEMMA TypesSilent ==
  ASSUME ResetTypes, UNCHANGED rigid, Keep, NEW t \in ResetThread, NEW from, NEW to,
         Go(t, from, to), Silent,
         t = Writer => to \in WriterPC, t = Reader => to \in ReaderPC
  PROVE  ResetTypes'
<1>1. MemOK(ResetThread, WordLoc, {0, 1})'
  <2>1. MemOK(ResetThread, WordLoc, {0, 1})
    BY DEF ResetTypes
  <2> QED BY <2>1, SilentEntries, Zenon
<1> QED BY <1>1, TypesKeep, Zenon

(* A load of the reader keeps the types.                                   *)
LEMMA TypesRead ==
  ASSUME ResetTypes, UNCHANGED rigid, UNCHANGED env,
         NEW x \in WordLoc, NEW r \in {"flag", "data"}, NEW from, NEW to,
         Read(Reader, from, r, x, to), to \in ReaderPC
  PROVE  ResetTypes'
<1>1. MemOK(ResetThread, WordLoc, {0, 1})
  BY DEF ResetTypes
<1>2. MemOK(ResetThread, WordLoc, {0, 1})'
  BY <1>1, SilentEntries, Zenon DEF Read
<1>3. Load(Reader, x) \in {0, 1}
  BY <1>1, HandshakeFacts, LoadEntries, Zenon
<1>4. reg' \in [ResetThread -> [flag : {0, 1, Unread}, data : {0, 1, Unread}]]
  <2>1. reg' = [reg EXCEPT ![Reader][r] = Load(Reader, x)]
    BY DEF Read
  <2>2. CASE r = "flag"
    BY <2>1, <2>2, <1>3, HandshakeFacts DEF ResetTypes
  <2>3. CASE r = "data"
    BY <2>1, <2>3, <1>3, HandshakeFacts DEF ResetTypes
  <2> QED BY <2>2, <2>3
<1>5. Go(Reader, from, to) /\ env' \in [early : BOOLEAN]
  BY DEF Read, ResetTypes
<1> QED BY <1>2, <1>4, <1>5, HandshakeFacts, TypesKept, Zenon

(* The reader's check keeps the types.                                     *)
LEMMA TypesCheck ==
  ASSUME ResetTypes, UNCHANGED rigid, RCheck
  PROVE  ResetTypes'
<1>1. MemOK(ResetThread, WordLoc, {0, 1})'
  <2>1. MemOK(ResetThread, WordLoc, {0, 1}) /\ Silent
    BY DEF ResetTypes, RCheck, Local
  <2> QED BY <2>1, SilentEntries, Zenon
<1>2. reg' \in [ResetThread -> [flag : {0, 1, Unread}, data : {0, 1, Unread}]]
  BY HandshakeFacts DEF ResetTypes, RCheck
<1>3. env' \in [early : BOOLEAN]
  BY DEF ResetTypes, RCheck, WriterBusy
<1>4. PICK to \in ReaderPC : Go(Reader, "r_check", to)
  BY DEF RCheck, Local, ReaderPC
<1> QED BY <1>1, <1>2, <1>3, <1>4, HandshakeFacts, TypesKept, Zenon

(* A commit keeps the types.                                               *)
LEMMA TypesFlush ==
  ASSUME ResetTypes, NEW t \in ResetThread, ResetFlush(t)
  PROVE  ResetTypes'
<1>1. PICK x \in WordLoc : Commit(t, x)
  BY DEF ResetFlush, Flush, ResetTypes, MemOK
<1>2. MemOK(ResetThread, WordLoc, {0, 1})'
  <2>1. Weak /\ MemOK(ResetThread, WordLoc, {0, 1})
    BY DEF ResetTypes, Weak
  <2> QED BY <1>1, <2>1, CommitEntries, Zenon
<1> QED BY <1>2 DEF ResetFlush, Flush, ResetTypes, rigid

(* The first statement of the writer goes to one of two labels.            *)
LEMMA AfterFirstIs == AfterFirst \in WriterPC /\ AfterFirst \in {"w_fence", "w_second"}
  BY DEF AfterFirst, WriterPC

(* Every step of a thread keeps the types, on TSO and on ARM.              *)
LEMMA TypesStep ==
  ASSUME ResetTypes, NEW t \in ResetThread, ResetStep(t)
  PROVE  ResetTypes'
<1> UNCHANGED rigid
  BY DEF ResetStep
<1>1. CASE t = Writer /\ WriterStep
  <2> /\ {"w_first", "w_second", "w_done", "w_reset", "w_wait"} \subseteq WriterPC
      /\ Writer \in ResetThread /\ Writer # Reader
    BY HandshakeFacts DEF WriterPC
  <2>1. CASE WWait
    BY <2>1, TypesSilent, Zenon DEF WWait, Await
  <2>2. CASE WFirst
    <3>1. Write(Writer, "w_first", "data", 1, AfterFirst) /\ Keep /\ 1 \in {0, 1}
      BY <2>2 DEF WFirst
    <3> QED BY <3>1, HandshakeFacts, AfterFirstIs, TypesWrite, Zenon
  <2>3. CASE WFence
    BY <2>3, TypesSilent, Zenon DEF WFence, ReleaseFence, Await
  <2>4. CASE WSecond
    <3>1. Write(Writer, "w_second", "flag", 1, "w_done") /\ Keep /\ 1 \in {0, 1}
      BY <2>4 DEF WSecond
    <3> QED BY <3>1, HandshakeFacts, TypesWrite, Zenon
  <2>5. CASE WDone
    <3>1. Write(Writer, "w_done", "done", 1, "w_reset") /\ Keep /\ 1 \in {0, 1}
      BY <2>5 DEF WDone
    <3> QED BY <3>1, HandshakeFacts, TypesWrite, Zenon
  <2>6. CASE WReset
    BY <2>6, TypesSilent, Zenon DEF WReset, Await
  <2> QED BY <1>1, <2>1, <2>2, <2>3, <2>4, <2>5, <2>6 DEF WriterStep
<1>2. CASE t = Reader /\ ReaderStep
  <2> ReaderPC = {"r_flag", "r_data", "r_done", "r_start", "r_poll", "r_peek",
                  "r_check", "r_stop", "exit"} /\ Reader \in ResetThread /\ Writer # Reader
    BY HandshakeFacts DEF ReaderPC
  <2>1. ASSUME NEW from, NEW x \in WordLoc, NEW to \in ReaderPC, RReset(from, x, to)
        PROVE  ResetTypes'
    <3>1. Write(Reader, from, x, 0, to) /\ Keep /\ 0 \in {0, 1}
      BY <2>1 DEF RReset
    <3> QED BY <3>1, TypesWrite, Zenon
  <2>2. CASE RFlag \/ RData \/ RDone \/ RStop
    <3>1. /\ "r_data" \in ReaderPC /\ "r_done" \in ReaderPC
          /\ "r_start" \in ReaderPC /\ "r_flag" \in ReaderPC
      OBVIOUS
    <3> QED BY <2>2, <2>1, <3>1, HandshakeFacts, Zenon DEF RFlag, RData, RDone, RStop
  <2>3. CASE RStart
    <3>1. Write(Reader, "r_start", "start", 1, "r_poll") /\ Keep /\ 1 \in {0, 1}
      BY <2>3 DEF RStart
    <3>2. "r_poll" \in ReaderPC
      OBVIOUS
    <3> QED BY <3>1, <3>2, HandshakeFacts, TypesWrite, Zenon
  <2>4. CASE RPoll
    <3>1. PICK to \in ReaderPC : Go(Reader, "r_poll", to) /\ Silent /\ Keep
      BY <2>4 DEF RPoll, Local
    <3> QED BY <3>1, TypesSilent, Zenon
  <2>5. CASE RLoadFlag
    <3>1. PICK to \in ReaderPC : Read(Reader, "r_peek", "flag", "flag", to) /\ UNCHANGED env
      BY <2>5 DEF RLoadFlag
    <3>2. "flag" \in {"flag", "data"}
      OBVIOUS
    <3> QED BY <3>1, <3>2, HandshakeFacts, TypesRead, Zenon
  <2>6. CASE RLoadData
    <3>1. PICK to \in ReaderPC : Read(Reader, "r_peek", "data", "data", to) /\ UNCHANGED env
      BY <2>6 DEF RLoadData
    <3>2. "data" \in {"flag", "data"}
      OBVIOUS
    <3> QED BY <3>1, <3>2, HandshakeFacts, TypesRead, Zenon
  <2>7. CASE RCheck
    BY <2>7, TypesCheck
  <2> QED BY <1>2, <2>2, <2>3, <2>4, <2>5, <2>6, <2>7 DEF ReaderStep
<1> QED BY <1>1, <1>2 DEF ResetStep

-----------------------------------------------------------------------------
(* What the statements do to the two counts.                               *)

(* The counts are numbers within their bounds.                             *)
LEMMA Counts ==
  ASSUME ResetTypes
  PROVE  /\ ResetsIssued \in 1..5 /\ SetsIssued \in 0..3
         /\ Len(buf[Reader]) \in Nat /\ Len(buf[Writer]) \in Nat
         /\ Resets \in Int /\ Sets \in Int
<1>1. ResetsIssued \in 1..5 /\ SetsIssued \in 0..3
  BY DEF ResetTypes, WriterPC, ResetsIssued, SetsIssued
<1>2. Len(buf[Reader]) \in Nat /\ Len(buf[Writer]) \in Nat
  <2>1. buf[Reader] \in Seq(Entry(WordLoc, {0, 1})) /\ buf[Writer] \in Seq(Entry(WordLoc, {0, 1}))
    BY HandshakeFacts DEF ResetTypes, MemOK
  <2> QED BY <2>1
<1> QED BY <1>1, <1>2 DEF Resets, Sets

(* A step that leaves the memory alone and issues nothing.                 *)
LEMMA NothingIssued ==
  ASSUME Buffered, Silent, ResetsIssued' = ResetsIssued, SetsIssued' = SetsIssued
  PROVE  Buffered' /\ Resets' = Resets /\ Sets' = Sets
  BY DEF Buffered, Silent, Resets, Sets

(* A store of the reader issues the next of its round.                     *)
LEMMA ReaderIssues ==
  ASSUME ResetTypes, Buffered, mem' = mem,
         ResetsIssued' = ResetsIssued + 1, SetsIssued' = SetsIssued,
         Appends(ResetThread, Reader, ResetLoc(ResetsIssued + 1), ResetVal(ResetsIssued + 1), FALSE)
  PROVE  Buffered' /\ Resets' = Resets /\ Sets' = Sets /\ buf'[Writer] = buf[Writer]
<1> DEFINE b == buf[Reader]  c == buf'[Reader]  n == Len(buf[Reader])
<1>1. /\ buf'[Writer] = buf[Writer] /\ Len(c) = n + 1
      /\ \A j \in 1..n : c[j] = b[j]
      /\ c[n + 1].loc = ResetLoc(ResetsIssued + 1)
      /\ c[n + 1].val = ResetVal(ResetsIssued + 1)
  BY HandshakeFacts DEF Appends
<1>2. /\ n \in Nat /\ ResetsIssued \in Int
      /\ Resets = ResetsIssued - n /\ Resets' = ResetsIssued + 1 - Len(c)
  BY Counts DEF Resets
<1>3. Resets' = Resets /\ Sets' = Sets /\ ResetsIssued + 1 = Resets + (n + 1)
  <2>1. Sets' = Sets
    BY <1>1 DEF Sets
  <2> HIDE DEF n, c
  <2> QED BY <2>1, <1>1, <1>2
<1>4. \A j \in 1..n : b[j].loc = ResetLoc(Resets + j) /\ b[j].val = ResetVal(Resets + j)
  BY DEF Buffered
<1> HIDE DEF b, c, n
<1>5. \A j \in 1..Len(c) : c[j].loc = ResetLoc(Resets + j) /\ c[j].val = ResetVal(Resets + j)
  <2> TAKE j \in 1..Len(c)
  <2>1. CASE j \in 1..n
    BY <2>1, <1>1, <1>4
  <2>2. CASE j = n + 1
    BY <2>2, <1>1, <1>3
  <2> QED BY <2>1, <2>2, <1>1, <1>2
<1> QED BY <1>1, <1>3, <1>5 DEF Buffered, c

(* A store of the writer issues the next of its round.                     *)
LEMMA WriterIssues ==
  ASSUME ResetTypes, Buffered, mem' = mem,
         SetsIssued' = SetsIssued + 1, ResetsIssued' = ResetsIssued,
         Appends(ResetThread, Writer, SetLoc(SetsIssued + 1), 1, FALSE)
  PROVE  Buffered' /\ Resets' = Resets /\ Sets' = Sets /\ buf'[Reader] = buf[Reader]
<1> DEFINE b == buf[Writer]  c == buf'[Writer]  n == Len(buf[Writer])
<1>1. /\ buf'[Reader] = buf[Reader] /\ Len(c) = n + 1
      /\ \A j \in 1..n : c[j] = b[j]
      /\ c[n + 1].loc = SetLoc(SetsIssued + 1)
      /\ c[n + 1].val = 1
  BY HandshakeFacts DEF Appends
<1>2. /\ n \in Nat /\ SetsIssued \in Int
      /\ Sets = SetsIssued - n /\ Sets' = SetsIssued + 1 - Len(c)
  BY Counts DEF Sets
<1>3. Sets' = Sets /\ Resets' = Resets /\ SetsIssued + 1 = Sets + (n + 1)
  <2>1. Resets' = Resets
    BY <1>1 DEF Resets
  <2> HIDE DEF n, c
  <2> QED BY <2>1, <1>1, <1>2
<1>4. \A j \in 1..n : b[j].loc = SetLoc(Sets + j) /\ b[j].val = 1
  BY DEF Buffered
<1> HIDE DEF b, c, n
<1>5. \A j \in 1..Len(c) : c[j].loc = SetLoc(Sets + j) /\ c[j].val = 1
  <2> TAKE j \in 1..Len(c)
  <2>1. CASE j \in 1..n
    BY <2>1, <1>1, <1>4
  <2>2. CASE j = n + 1
    BY <2>2, <1>1, <1>3
  <2> QED BY <2>1, <2>2, <1>1, <1>2
<1> QED BY <1>1, <1>3, <1>5 DEF Buffered, c

(* A commit of the reader's brings the next of its stores into memory.     *)
LEMMA ReaderCommits ==
  ASSUME ResetTypes, Buffered, UNCHANGED pc, NEW x \in WordLoc, CommitsFirst(ResetThread, Reader, x)
  PROVE  /\ Buffered' /\ Resets' = Resets + 1 /\ Sets' = Sets
         /\ buf'[Writer] = buf[Writer] /\ Len(buf[Reader]) # 0
         /\ Resets < 5 /\ Resets >= 0
         /\ mem' = [mem EXCEPT ![ResetLoc(Resets + 1)] = ResetVal(Resets + 1)]
<1> DEFINE b == buf[Reader]  c == buf'[Reader]  n == Len(buf[Reader])
<1>1. /\ buf'[Writer] = buf[Writer] /\ n \in Nat \ {0} /\ b[1].loc = x
      /\ mem' = [mem EXCEPT ![x] = b[1].val]
      /\ Len(c) = n - 1 /\ \A j \in 1..(n - 1) : c[j] = b[j + 1]
  BY HandshakeFacts DEF CommitsFirst
<1>2. ResetsIssued' = ResetsIssued /\ SetsIssued' = SetsIssued
  BY DEF ResetsIssued, SetsIssued
<1>3. ResetsIssued \in 1..5 /\ Resets = ResetsIssued - n /\ Resets' = ResetsIssued - Len(c)
  BY <1>2, Counts DEF Resets
<1>4. Resets' = Resets + 1 /\ Sets' = Sets /\ Resets >= 0 /\ Resets < 5 /\ Resets \in Int
  BY <1>1, <1>2, <1>3 DEF Buffered, Sets
<1>5. \A j \in 1..n : b[j].loc = ResetLoc(Resets + j) /\ b[j].val = ResetVal(Resets + j)
  BY DEF Buffered
<1> HIDE DEF b, c, n
<1>6. mem' = [mem EXCEPT ![ResetLoc(Resets + 1)] = ResetVal(Resets + 1)]
  <2>1. 1 \in 1..n
    BY <1>1
  <2> QED BY <2>1, <1>1, <1>5
<1>7. \A j \in 1..Len(c) :
        c[j].loc = ResetLoc(Resets + 1 + j) /\ c[j].val = ResetVal(Resets + 1 + j)
  <2> TAKE j \in 1..Len(c)
  <2>1. j \in 1..(n - 1) /\ j + 1 \in 1..n /\ Resets + (j + 1) = Resets + 1 + j
    BY <1>1, <1>4
  <2> QED BY <2>1, <1>1, <1>5
<1>8. Len(b) # 0
  BY <1>1 DEF n, b
<1>9. Buffered'
  <2>1. Resets' >= 0 /\ Sets' >= 0
    BY <1>4 DEF Buffered
  <2>2. \A j \in 1..Len(c) : c[j].loc = ResetLoc(Resets' + j) /\ c[j].val = ResetVal(Resets' + j)
    BY <1>7, <1>4
  <2> QED BY <2>1, <2>2, <1>1, <1>4 DEF Buffered, c
<1> QED BY <1>1, <1>4, <1>6, <1>8, <1>9 DEF b

(* A commit of the writer's brings the next of its stores into memory.     *)
LEMMA WriterCommits ==
  ASSUME ResetTypes, Buffered, UNCHANGED pc, NEW x \in WordLoc, CommitsFirst(ResetThread, Writer, x)
  PROVE  /\ Buffered' /\ Sets' = Sets + 1 /\ Resets' = Resets
         /\ buf'[Reader] = buf[Reader] /\ Len(buf[Writer]) # 0
         /\ Sets < 3 /\ Sets >= 0
         /\ mem' = [mem EXCEPT ![SetLoc(Sets + 1)] = 1]
<1> DEFINE b == buf[Writer]  c == buf'[Writer]  n == Len(buf[Writer])
<1>1. /\ buf'[Reader] = buf[Reader] /\ n \in Nat \ {0} /\ b[1].loc = x
      /\ mem' = [mem EXCEPT ![x] = b[1].val]
      /\ Len(c) = n - 1 /\ \A j \in 1..(n - 1) : c[j] = b[j + 1]
  BY HandshakeFacts DEF CommitsFirst
<1>2. ResetsIssued' = ResetsIssued /\ SetsIssued' = SetsIssued
  BY DEF ResetsIssued, SetsIssued
<1>3. SetsIssued \in 0..3 /\ Sets = SetsIssued - n /\ Sets' = SetsIssued - Len(c)
  BY <1>2, Counts DEF Sets
<1>4. Sets' = Sets + 1 /\ Resets' = Resets /\ Sets >= 0 /\ Sets < 3 /\ Sets \in Int
  BY <1>1, <1>2, <1>3 DEF Buffered, Resets
<1>5. \A j \in 1..n : b[j].loc = SetLoc(Sets + j) /\ b[j].val = 1
  BY DEF Buffered
<1> HIDE DEF b, c, n
<1>6. mem' = [mem EXCEPT ![SetLoc(Sets + 1)] = 1]
  <2>1. 1 \in 1..n
    BY <1>1
  <2> QED BY <2>1, <1>1, <1>5
<1>7. \A j \in 1..Len(c) : c[j].loc = SetLoc(Sets + 1 + j) /\ c[j].val = 1
  <2> TAKE j \in 1..Len(c)
  <2>1. j \in 1..(n - 1) /\ j + 1 \in 1..n /\ Sets + (j + 1) = Sets + 1 + j
    BY <1>1, <1>4
  <2> QED BY <2>1, <1>1, <1>5
<1>8. Len(b) # 0
  BY <1>1 DEF n, b
<1>9. Buffered'
  <2>1. Sets' >= 0 /\ Resets' >= 0
    BY <1>4 DEF Buffered
  <2>2. \A j \in 1..Len(c) : c[j].loc = SetLoc(Sets' + j) /\ c[j].val = 1
    BY <1>7, <1>4
  <2> QED BY <2>1, <2>2, <1>1, <1>4 DEF Buffered, c
<1> QED BY <1>1, <1>4, <1>6, <1>8, <1>9 DEF b

(* What the threads read: memory, or what they have buffered themselves.   *)
LEMMA HandshakeLoad ==
  ASSUME ResetTypes, NEW t \in ResetThread, NEW x \in WordLoc
  PROVE  /\ (\A e \in Entries(t) : e.loc # x) => Load(t, x) = mem[x]
         /\ (\E e \in Entries(t) : e.loc = x) =>
              \E e \in Entries(t) : e.loc = x /\ e.val = Load(t, x)
<1>1. MemOK(ResetThread, WordLoc, {0, 1})
  BY DEF ResetTypes
<1>2. (\A e \in Entries(t) : e.loc # x) => Load(t, x) = mem[x]
  BY <1>1, LoadEntries
<1>3. (\E e \in Entries(t) : e.loc = x) =>
         \E e \in Entries(t) : e.loc = x /\ e.val = Load(t, x)
  BY <1>1, LoadOwnEntry
<1> QED BY <1>2, <1>3

(* The writer stores nothing to start, so it reads memory.                 *)
LEMMA WriterReadsStart ==
  ASSUME ResetTypes, Buffered
  PROVE  Load(Writer, "start") = mem["start"]
<1>1. \A e \in Entries(Writer) : e.loc # "start"
  <2>1. \A i \in DOMAIN buf[Writer] : buf[Writer][i].loc # "start"
    <3>1. DOMAIN buf[Writer] = 1..Len(buf[Writer])
      BY HandshakeFacts DEF ResetTypes, MemOK
    <3> QED BY <3>1 DEF Buffered, SetLoc
  <2> QED BY <2>1 DEF Entries
<1> QED BY <1>1, HandshakeFacts, HandshakeLoad

(* The reader sees its own resets.                                         *)
LEMMA ReaderReads ==
  ASSUME ResetTypes, Buffered, Resetting, ResetsIssued = 5, NEW x \in {"flag", "data", "done"}
  PROVE  Load(Reader, x) = IF Resets < 5 THEN 0 ELSE mem[x]
<1> DEFINE n == Len(buf[Reader])
           place == IF x = "flag" THEN 2 ELSE IF x = "data" THEN 3 ELSE 4
<1>1. /\ MemOK(ResetThread, WordLoc, {0, 1}) /\ x \in WordLoc
      /\ DOMAIN buf[Reader] = 1..n /\ n \in Nat /\ Resets = 5 - n
  BY Counts, HandshakeFacts DEF ResetTypes, MemOK, Resets
<1>2. \A e \in Entries(Reader) : e.loc = x => e.val = 0
  <2>1. \A i \in 1..n : buf[Reader][i].loc = x => buf[Reader][i].val = 0
    <3> TAKE i \in 1..n
    <3>1. buf[Reader][i].loc = ResetLoc(Resets + i) /\ buf[Reader][i].val = ResetVal(Resets + i)
      BY DEF Buffered
    <3> QED BY <3>1, <1>1 DEF ResetLoc, ResetVal
  <2> QED BY <2>1, <1>1 DEF Entries
<1>3. CASE Resets = 5
  <2>1. Entries(Reader) = {}
    BY <1>1, <1>3 DEF Entries
  <2> QED BY <2>1, <1>1, <1>3, HandshakeFacts, HandshakeLoad
<1>4. CASE Resets < 5 /\ Resets >= place
  <2>1. mem[x] = 0
    BY <1>4 DEF Resetting
  <2>2. \/ Load(Reader, x) = mem[x]
        \/ \E e \in Entries(Reader) : e.loc = x /\ e.val = Load(Reader, x)
    BY <1>1, HandshakeFacts, HandshakeLoad
  <2> QED BY <2>1, <2>2, <1>2, <1>4
<1>5. CASE Resets < place
  <2>1. \E e \in Entries(Reader) : e.loc = x
    <3>1. place - Resets \in 1..n /\ Resets + (place - Resets) = place
      <4>1. place \in 2..4 /\ Resets \in Int /\ n = 5 - Resets
        BY <1>1
      <4> HIDE DEF place, n
      <4> QED BY <4>1, <1>5
    <3>2. buf[Reader][place - Resets].loc = ResetLoc(place)
      BY <3>1 DEF Buffered
    <3>3. ResetLoc(place) = x
      BY DEF ResetLoc
    <3>4. buf[Reader][place - Resets] \in Entries(Reader)
      BY <3>1, <1>1 DEF Entries
    <3> QED BY <3>2, <3>3, <3>4
  <2>2. \E e \in Entries(Reader) : e.loc = x /\ e.val = Load(Reader, x)
    BY <1>1, <2>1, HandshakeFacts, HandshakeLoad
  <2> QED BY <2>2, <1>2, <1>5, <1>1
<1>6. Resets \in Int /\ Resets <= 5 /\ place \in 2..4
  BY <1>1
<1> HIDE DEF place
<1> QED BY <1>3, <1>4, <1>5, <1>6

-----------------------------------------------------------------------------
(* The steps keep InStep, on TSO and as long as the reader has not broken  *)
(* out early.                                                              *)

(* What a store does to the memory, the buffers and the labels.            *)
Stores(t, x, v, from, to) ==
  /\ mem' = mem /\ Appends(ResetThread, t, x, v, FALSE)
  /\ pc[t] = from /\ pc'[t] = to
  /\ \A u \in ResetThread : u # t => pc'[u] = pc[u]

(* A plain store on either memory.                                         *)
LEMMA HandshakeWrite ==
  ASSUME ResetTypes, NEW t \in ResetThread, NEW x \in WordLoc, NEW v \in {0, 1},
         NEW from, NEW to, Write(t, from, x, v, to)
  PROVE  Stores(t, x, v, from, to)
<1>1. /\ Weak /\ MemOK(ResetThread, WordLoc, {0, 1}) /\ Put(t, x, v, FALSE) /\ FALSE \in BOOLEAN
      /\ Go(t, from, to)
  BY DEF ResetTypes, Weak, Write
<1>2. Adds(ResetThread, WordLoc, {0, 1}, t, x, v)
  BY <1>1, PutAdds, Zenon
<1>3. Appends(ResetThread, t, x, v, FALSE)
  BY <1>1, PutPosition, Zenon
<1>4. /\ pc[t] = from /\ pc'[t] = to
      /\ \A u \in ResetThread : u # t => pc'[u] = pc[u]
  BY <1>1, GoMoves, Zenon
<1> QED BY <1>2, <1>3, <1>4 DEF Adds, Stores

(* The four resets and start = 1.                                          *)
LEMMA ReaderStores ==
  ASSUME ResetTypes, InStep, Keep, NEW from, NEW to,
         NEW x, NEW v, x = ResetLoc(ResetsIssued + 1), v = ResetVal(ResetsIssued + 1),
         Write(Reader, from, x, v, to),
         from \in {"r_flag", "r_data", "r_done", "r_start"},
         to \in {"r_data", "r_done", "r_start", "r_poll"},
         ResetsIssued' = ResetsIssued + 1
  PROVE  InStep'
<1>1. x \in WordLoc /\ v \in {0, 1}
  BY HandshakeFacts DEF ResetLoc, ResetVal
<1>2. /\ mem' = mem /\ Appends(ResetThread, Reader, x, v, FALSE)
      /\ pc[Reader] = from /\ pc'[Reader] = to /\ pc'[Writer] = pc[Writer]
  <2>1. Stores(Reader, x, v, from, to)
    BY <1>1, HandshakeFacts, HandshakeWrite, Zenon
  <2> QED BY <2>1, HandshakeFacts DEF Stores
<1>3. SetsIssued' = SetsIssued
  BY <1>2 DEF SetsIssued
<1>4. Buffered' /\ Resets' = Resets /\ Sets' = Sets /\ buf'[Writer] = buf[Writer]
  BY <1>2, <1>3, ReaderIssues DEF InStep
<1>5. Resetting'
  BY <1>2, <1>4 DEF InStep, Resetting, WriterRests
<1>6. Setting'
  BY <1>2, <1>4 DEF InStep, Setting
<1>7. Peeked'
  BY <1>2, HandshakeFacts DEF InStep, Peeked, Keep, Unread
<1> QED BY <1>4, <1>5, <1>6, <1>7 DEF InStep

(* start = 0 begins the next round.                                        *)
LEMMA ReaderStops ==
  ASSUME ResetTypes, InStep, RStop
  PROVE  InStep'
<1>1. "start" \in WordLoc /\ 0 \in {0, 1} /\ Keep /\ Write(Reader, "r_stop", "start", 0, "r_flag")
  BY HandshakeFacts DEF RStop, RReset
<1>2. /\ mem' = mem /\ Appends(ResetThread, Reader, "start", 0, FALSE)
      /\ pc[Reader] = "r_stop" /\ pc'[Reader] = "r_flag" /\ pc'[Writer] = pc[Writer]
  <2>1. Stores(Reader, "start", 0, "r_stop", "r_flag")
    BY <1>1, HandshakeFacts, HandshakeWrite, Zenon
  <2> QED BY <2>1, HandshakeFacts DEF Stores
<1>3. ResetsIssued = 5 /\ ResetsIssued' = 1 /\ SetsIssued' = SetsIssued
  BY <1>2 DEF ResetsIssued, SetsIssued
<1>4. Resets = 5 /\ WriterRests /\ pc[Writer] = "w_reset" /\ mem["start"] = 1
  BY <1>2 DEF InStep, Peeked, Setting
<1>5. Len(buf[Reader]) = 0
  BY <1>3, <1>4, Counts DEF Resets
<1>6. /\ buf'[Writer] = buf[Writer] /\ Len(buf'[Reader]) = 1
      /\ buf'[Reader][1].loc = "start" /\ buf'[Reader][1].val = 0
  BY <1>2, <1>5, HandshakeFacts DEF Appends
<1>7. Resets' = 0 /\ Sets' = Sets
  BY <1>3, <1>6 DEF Resets, Sets
<1>8. Buffered'
  <2>1. Sets >= 0 /\ \A i \in 1..Len(buf[Writer]) :
                       buf[Writer][i].loc = SetLoc(Sets + i) /\ buf[Writer][i].val = 1
    BY DEF InStep, Buffered
  <2>2. \A i \in 1..Len(buf'[Reader]) : i = 1
    BY <1>6
  <2>3. ResetLoc(0 + 1) = "start" /\ ResetVal(0 + 1) = 0
    BY DEF ResetLoc, ResetVal
  <2> QED BY <2>1, <2>2, <2>3, <1>6, <1>7 DEF Buffered
<1>9. Resetting' /\ Setting'
  BY <1>2, <1>4, <1>6, <1>7 DEF Resetting, Setting, WriterRests
<1>10. Peeked'
  BY <1>1, <1>2, HandshakeFacts DEF InStep, Peeked, Keep, Unread
<1> QED BY <1>8, <1>9, <1>10 DEF InStep

(* A step of the reader that leaves the memory alone: what is left to show *)
(* is what it has peeked at.                                               *)
LEMMA ReaderLooks ==
  ASSUME ResetTypes, InStep, Silent, pc'[Writer] = pc[Writer], ResetsIssued' = ResetsIssued
  PROVE  /\ Buffered' /\ Resetting' /\ Setting' /\ Resets' = Resets
         /\ mem' = mem /\ WriterRests' = WriterRests
<1>1. SetsIssued' = SetsIssued
  BY DEF SetsIssued
<1>2. Buffered' /\ Resets' = Resets /\ Sets' = Sets
  BY <1>1, NothingIssued DEF InStep
<1>3. mem' = mem /\ buf' = buf /\ WriterRests' = WriterRests
  BY DEF Silent, WriterRests
<1> QED BY <1>2, <1>3 DEF InStep, Resetting, Setting

(* The reader leaves its loop regularly when all three stores of the       *)
(* writer have arrived, so that the writer rests.                          *)
LEMMA ReaderPolls ==
  ASSUME ResetTypes, InStep, RPoll
  PROVE  InStep'
<1>1. PICK to : /\ to = IF Load(Reader, "done") = 0 THEN "r_peek" ELSE "r_stop"
                /\ Go(Reader, "r_poll", to) /\ Silent /\ Keep
  BY DEF RPoll, Local
<1>2. pc[Reader] = "r_poll" /\ pc'[Reader] = to /\ pc'[Writer] = pc[Writer]
  BY <1>1, GoMoves, HandshakeFacts
<1>3. ResetsIssued = 5 /\ ResetsIssued' = 5
  BY <1>1, <1>2 DEF ResetsIssued
<1>4. /\ Buffered' /\ Resetting' /\ Setting' /\ Resets' = Resets
      /\ mem' = mem /\ WriterRests' = WriterRests
  BY <1>1, <1>2, <1>3, ReaderLooks
<1>5. to = "r_stop" => Resets = 5 /\ WriterRests /\ pc[Writer] = "w_reset"
  <2> SUFFICES ASSUME Load(Reader, "done") # 0
               PROVE  Resets = 5 /\ WriterRests /\ pc[Writer] = "w_reset"
    BY <1>1
  <2>1. Resets = 5 /\ mem["done"] # 0
    <3>1. Load(Reader, "done") = IF Resets < 5 THEN 0 ELSE mem["done"]
      BY <1>3, ReaderReads DEF InStep
    <3>2. Resets \in Int /\ Resets <= 5
      BY <1>3, Counts DEF Resets
    <3> QED BY <3>1, <3>2
  <2>2. Sets >= 3
    BY <2>1, Counts DEF InStep, Setting
  <2>3. SetsIssued = 3 /\ Len(buf[Writer]) = 0
    BY <2>2, Counts DEF Sets
  <2>4. pc[Writer] = "w_reset"
    BY <2>3 DEF SetsIssued, ResetTypes, WriterPC
  <2> QED BY <2>1, <2>3, <2>4 DEF WriterRests
<1>6. Peeked'
  BY <1>1, <1>2, <1>4, <1>5 DEF InStep, Peeked, Keep, Unread
<1> QED BY <1>4, <1>6 DEF InStep

(* Who has loaded flag = 1 finds data = 1: on TSO flag is loaded first.    *)
LEMMA ReaderLoads ==
  ASSUME ResetTypes, InStep, model = "TSO", RLoadFlag \/ RLoadData
  PROVE  InStep'
<1> DEFINE r == reg[Reader]
<1>1. PICK to : /\ to \in {"r_peek", "r_check"}
                /\ Go(Reader, "r_peek", to) /\ Silent
  BY DEF RLoadFlag, RLoadData, Read
<1>2. pc[Reader] = "r_peek" /\ pc'[Reader] = to /\ pc'[Writer] = pc[Writer]
  BY <1>1, GoMoves, HandshakeFacts
<1>3. ResetsIssued = 5 /\ ResetsIssued' = 5
  BY <1>1, <1>2 DEF ResetsIssued
<1>4. /\ Buffered' /\ Resetting' /\ Setting' /\ Resets' = Resets
      /\ mem' = mem /\ WriterRests' = WriterRests
  BY <1>1, <1>2, <1>3, ReaderLooks
<1>5. Resets \in Int /\ Resets <= 5
  BY <1>3, Counts DEF Resets
<1>6. CASE RLoadFlag
  <2>1. /\ r.flag = Unread
        /\ reg' = [reg EXCEPT ![Reader].flag = Load(Reader, "flag")]
        /\ pc'[Reader] = IF r.data = Unread THEN "r_peek" ELSE "r_check"
    BY <1>6, GoMoves, HandshakeFacts DEF RLoadFlag, Read
  <2>2. r.data = Unread
    BY <2>1 DEF InStep, Peeked
  <2>3. reg'[Reader].flag = Load(Reader, "flag") /\ reg'[Reader].data = Unread
    BY <2>1, <2>2, HandshakeFacts DEF ResetTypes
  <2>4. Load(Reader, "flag") = IF Resets < 5 THEN 0 ELSE mem["flag"]
    BY <1>3, ReaderReads DEF InStep
  <2>5. Load(Reader, "flag") = 1 => Resets = 5 /\ mem["data"] = 1
    BY <2>4, <1>5 DEF InStep, Setting
  <2>6. Peeked'
    BY <2>1, <2>2, <2>3, <2>5, <1>4 DEF Peeked
  <2> QED BY <2>6, <1>4 DEF InStep
<1>7. CASE RLoadData
  <2>1. /\ r.data = Unread /\ r.flag # Unread
        /\ reg' = [reg EXCEPT ![Reader].data = Load(Reader, "data")]
        /\ pc'[Reader] = "r_check"
    BY <1>7, GoMoves, HandshakeFacts DEF RLoadData, Read, LoadsReorder
  <2>2. reg'[Reader].data = Load(Reader, "data") /\ reg'[Reader].flag = r.flag
    BY <2>1, HandshakeFacts DEF ResetTypes
  <2>3. Load(Reader, "data") = IF Resets < 5 THEN 0 ELSE mem["data"]
    BY <1>3, ReaderReads DEF InStep
  <2>4. r.flag = 1 => Resets = 5 /\ mem["data"] = 1
    BY DEF InStep, Peeked
  <2>5. Load(Reader, "data") # Unread
    BY <2>3 DEF Unread, ResetTypes, MemOK, WordLoc
  <2>6. Peeked'
    BY <2>1, <2>2, <2>3, <2>4, <2>5, <1>4 DEF Peeked
  <2> QED BY <2>6, <1>4 DEF InStep
<1> QED BY <1>6, <1>7

(* The check finds both set or neither, and stops a writer that rests, or  *)
(* else the reader breaks out early.                                       *)
LEMMA ReaderChecks ==
  ASSUME ResetTypes, InStep, RCheck, ~ env'.early
  PROVE  InStep'
<1> DEFINE r == reg[Reader]
<1>1. /\ r.flag = 1 => Resets = 5 /\ mem["data"] = 1 /\ r.data = 1
      /\ pc[Reader] = "r_check"
  BY DEF RCheck, Local, Go, InStep, Peeked, Unread
<1>2. PICK to : /\ to = IF r.flag = 1 THEN "r_stop" ELSE "r_poll"
                /\ Go(Reader, "r_check", to) /\ Silent
  BY <1>1 DEF RCheck, Local
<1>3. pc'[Reader] = to /\ pc'[Writer] = pc[Writer]
  BY <1>2, GoMoves, HandshakeFacts
<1>4. ResetsIssued = 5 /\ ResetsIssued' = 5
  BY <1>1, <1>2, <1>3 DEF ResetsIssued
<1>5. /\ Buffered' /\ Resetting' /\ Setting' /\ Resets' = Resets
      /\ mem' = mem /\ WriterRests' = WriterRests
  BY <1>2, <1>3, <1>4, ReaderLooks
<1>6. to = "r_stop" => Resets = 5 /\ WriterRests /\ pc[Writer] = "w_reset"
  <2> SUFFICES ASSUME r.flag = 1
               PROVE  Resets = 5 /\ WriterRests /\ pc[Writer] = "w_reset"
    BY <1>2
  <2>1. ~ WriterBusy
    BY DEF RCheck
  <2>2. pc[Writer] \in {"w_wait", "w_reset"} /\ Len(buf[Writer]) = 0
    BY <2>1 DEF WriterBusy, ResetTypes, WriterPC, Drained, SC!Drained
  <2>3. pc[Writer] # "w_wait"
    <3> SUFFICES ASSUME pc[Writer] = "w_wait" PROVE FALSE
      OBVIOUS
    <3>1. SetsIssued = 0
      BY DEF SetsIssued
    <3>2. Sets = 0
      BY <3>1, <2>2 DEF Sets
    <3> QED BY <3>2, <1>1 DEF InStep, Setting
  <2> QED BY <1>1, <2>2, <2>3 DEF WriterRests
<1>7. Peeked'
  <2>1. reg'[Reader].flag = Unread /\ reg'[Reader].data = Unread
    BY HandshakeFacts DEF RCheck, ResetTypes
  <2> QED BY <2>1, <1>2, <1>3, <1>5, <1>6 DEF Peeked, Unread
<1> QED BY <1>5, <1>7 DEF InStep

(* The three stores of the writer, in a round that is under way.           *)
LEMMA WriterStores ==
  ASSUME ResetTypes, InStep, Keep, NEW from, NEW to,
         NEW x, x = SetLoc(SetsIssued + 1), Write(Writer, from, x, 1, to),
         from \in {"w_first", "w_second", "w_done"}, SetsIssued' = SetsIssued + 1
  PROVE  InStep'
<1>1. x \in WordLoc /\ 1 \in {0, 1}
  BY HandshakeFacts DEF SetLoc
<1>2. /\ mem' = mem /\ Appends(ResetThread, Writer, x, 1, FALSE)
      /\ pc[Writer] = from /\ pc'[Writer] = to /\ pc'[Reader] = pc[Reader]
  <2>1. Stores(Writer, x, 1, from, to)
    BY <1>1, HandshakeFacts, HandshakeWrite, Zenon
  <2> QED BY <2>1, HandshakeFacts DEF Stores
<1>3. ResetsIssued' = ResetsIssued
  BY <1>2 DEF ResetsIssued
<1>4. Buffered' /\ Resets' = Resets /\ Sets' = Sets /\ buf'[Reader] = buf[Reader]
  BY <1>2, <1>3, WriterIssues DEF InStep
<1>5. Resets = 5
  <2>1. Resets \in Int /\ Resets <= 5
    BY Counts DEF Resets
  <2>2. ~ WriterRests
    BY <1>2 DEF WriterRests
  <2> QED BY <2>1, <2>2 DEF InStep, Resetting
<1>6. Resetting' /\ Setting'
  <2>1. pc[Writer] # "w_reset"
    BY <1>2
  <2> QED BY <2>1, <1>2, <1>4, <1>5 DEF InStep, Resetting, Setting
<1>7. Peeked'
  BY <1>2, <1>4 DEF InStep, Peeked, Keep
<1> QED BY <1>4, <1>6, <1>7 DEF InStep

(* It sees start = 1 when all the resets have arrived, and start = 0 while *)
(* they arrive.                                                            *)
LEMMA WriterWaits ==
  ASSUME ResetTypes, InStep, model = "TSO", WWait \/ WFence \/ WReset
  PROVE  InStep'
<1>1. PICK from, to : /\ Go(Writer, from, to) /\ Silent /\ Keep
                      /\ \/ from = "w_wait" /\ to = "w_first" /\ Load(Writer, "start") = 1
                         \/ from = "w_fence" /\ to = "w_second"
                         \/ from = "w_reset" /\ to = "w_wait" /\ Load(Writer, "start") = 0
  BY DEF WWait, WFence, WReset, Await, ReleaseFence
<1>2. pc[Writer] = from /\ pc'[Writer] = to /\ pc'[Reader] = pc[Reader]
  BY <1>1, GoMoves, HandshakeFacts
<1>3. ResetsIssued' = ResetsIssued /\ mem' = mem /\ buf' = buf
  BY <1>1, <1>2 DEF ResetsIssued, Silent
<1>4. Load(Writer, "start") = mem["start"]
  BY WriterReadsStart DEF InStep
<1>5. Resets \in Int /\ Resets <= 5 /\ Resets >= 0 /\ Resets' = Resets
  BY <1>3, Counts DEF InStep, Buffered, Resets
<1>6. CASE from # "w_reset"
  <2>1. Resets = 5
    BY <1>1, <1>2, <1>4, <1>5, <1>6 DEF InStep, Resetting, WriterRests
  <2>2. SetsIssued' = SetsIssued
    BY <1>1, <1>2, <1>6 DEF SetsIssued
  <2>3. Buffered' /\ Sets' = Sets
    BY <1>1, <1>3, <2>2, NothingIssued DEF InStep
  <2>4. Resetting' /\ Setting'
    BY <1>2, <1>3, <1>5, <1>6, <2>1, <2>3 DEF InStep, Resetting, Setting
  <2>5. Peeked'
    BY <1>1, <1>2, <1>3, <1>5, <1>6 DEF InStep, Peeked, Keep
  <2> QED BY <2>3, <2>4, <2>5 DEF InStep
<1>7. CASE from = "w_reset"
  <2>1. to = "w_wait" /\ mem["start"] = 0
    BY <1>1, <1>4, <1>7
  <2>2. Resets < 5 /\ Resets # 0 /\ WriterRests
    BY <2>1, <1>5 DEF InStep, Resetting, Setting
  <2>3. Len(buf[Writer]) = 0 /\ Sets' = 0
    <3>1. SetsIssued' = 0
      BY <1>2, <2>1 DEF SetsIssued
    <3> QED BY <3>1, <2>2, <1>3 DEF Sets, WriterRests
  <2>4. Buffered'
    BY <2>3, <1>3, <1>5 DEF InStep, Buffered
  <2>5. Resetting' /\ Setting'
    BY <1>2, <1>3, <1>5, <2>1, <2>2, <2>3 DEF InStep, Resetting, Setting, WriterRests
  <2>6. Peeked'
    BY <1>1, <1>2, <1>3, <1>5, <2>2 DEF InStep, Peeked, Keep
  <2> QED BY <2>4, <2>5, <2>6 DEF InStep
<1> QED BY <1>6, <1>7

(* A reset, or start = 1, arrives.                                         *)
LEMMA ResetArrives ==
  ASSUME ResetTypes, InStep, UNCHANGED <<pc, reg>>,
         NEW x \in WordLoc, CommitsFirst(ResetThread, Reader, x)
  PROVE  InStep'
<1>1. /\ Buffered' /\ Resets' = Resets + 1 /\ Sets' = Sets
      /\ buf'[Writer] = buf[Writer] /\ Len(buf[Reader]) # 0
      /\ Resets < 5 /\ Resets >= 0
      /\ mem' = [mem EXCEPT ![ResetLoc(Resets + 1)] = ResetVal(Resets + 1)]
  BY ReaderCommits DEF InStep
<1>2. DOMAIN mem = WordLoc /\ Resets \in 0..4
  BY <1>1, Counts DEF ResetTypes, MemOK
<1>3. /\ Resets = 0 => mem' = [mem EXCEPT !["start"] = 0]
      /\ Resets = 1 => mem' = [mem EXCEPT !["flag"] = 0]
      /\ Resets = 2 => mem' = [mem EXCEPT !["data"] = 0]
      /\ Resets = 3 => mem' = [mem EXCEPT !["done"] = 0]
      /\ Resets = 4 => mem' = [mem EXCEPT !["start"] = 1]
  <2>1. /\ Resets = 0 => ResetLoc(Resets + 1) = "start" /\ ResetVal(Resets + 1) = 0
        /\ Resets = 1 => ResetLoc(Resets + 1) = "flag" /\ ResetVal(Resets + 1) = 0
        /\ Resets = 2 => ResetLoc(Resets + 1) = "data" /\ ResetVal(Resets + 1) = 0
        /\ Resets = 3 => ResetLoc(Resets + 1) = "done" /\ ResetVal(Resets + 1) = 0
        /\ Resets = 4 => ResetLoc(Resets + 1) = "start" /\ ResetVal(Resets + 1) = 1
    BY DEF ResetLoc, ResetVal
  <2> QED BY <1>1, <2>1, Zenon
<1>4. /\ WriterRests /\ WriterRests' /\ mem["start"] = IF Resets = 0 THEN 1 ELSE 0
      /\ Resets = 0 => pc[Writer] = "w_reset"
      /\ Resets >= 2 => mem["flag"] = 0
      /\ Resets >= 3 => mem["data"] = 0
      /\ Resets >= 4 => mem["done"] = 0
  BY <1>1 DEF InStep, Resetting, WriterRests
<1>5. Resetting'
  BY <1>1, <1>2, <1>3, <1>4, HandshakeFacts DEF Resetting
<1>6. Setting'
  <2> SUFFICES ASSUME Resets = 4 PROVE Setting'
    BY <1>1, <1>2 DEF Setting
  <2>1. mem'["start"] = 1 /\ mem'["data"] = 0 /\ mem'["flag"] = 0 /\ mem'["done"] = 0
    BY <1>2, <1>3, <1>4, HandshakeFacts
  <2>2. Sets = 0 \/ (Sets = 3 /\ pc[Writer] = "w_reset")
    <3>1. Sets = SetsIssued
      BY <1>4, Counts DEF Sets, WriterRests
    <3>2. SetsIssued = 0 \/ (SetsIssued = 3 /\ pc[Writer] = "w_reset")
      BY <1>4 DEF WriterRests, SetsIssued
    <3> QED BY <3>1, <3>2
  <2>3. 0 = Sets' \/ (0 = 0 /\ Sets' = 3 /\ pc'[Writer] = "w_reset")
    BY <1>1, <2>2
  <2> QED BY <1>1, <2>1, <2>3 DEF Setting
<1>7. Peeked'
  BY <1>1 DEF InStep, Peeked
<1> QED BY <1>1, <1>5, <1>6, <1>7 DEF InStep

(* A store of the writer arrives, in a round that is under way.            *)
LEMMA SetArrives ==
  ASSUME ResetTypes, InStep, UNCHANGED <<pc, reg>>,
         NEW x \in WordLoc, CommitsFirst(ResetThread, Writer, x)
  PROVE  InStep'
<1>1. /\ Buffered' /\ Sets' = Sets + 1 /\ Resets' = Resets
      /\ buf'[Reader] = buf[Reader] /\ Len(buf[Writer]) # 0
      /\ Sets < 3 /\ Sets >= 0
      /\ mem' = [mem EXCEPT ![SetLoc(Sets + 1)] = 1]
  BY WriterCommits DEF InStep
<1>2. DOMAIN mem = WordLoc /\ Sets \in 0..2 /\ Resets = 5
  <2>1. ~ WriterRests
    BY <1>1 DEF WriterRests
  <2>2. Resets \in Int /\ Resets <= 5
    BY Counts DEF Resets
  <2> QED BY <1>1, <2>1, <2>2, Counts DEF ResetTypes, MemOK, InStep, Resetting
<1>3. /\ Sets = 0 => mem' = [mem EXCEPT !["data"] = 1]
      /\ Sets = 1 => mem' = [mem EXCEPT !["flag"] = 1]
      /\ Sets = 2 => mem' = [mem EXCEPT !["done"] = 1]
  <2>1. /\ Sets = 0 => SetLoc(Sets + 1) = "data"
        /\ Sets = 1 => SetLoc(Sets + 1) = "flag"
        /\ Sets = 2 => SetLoc(Sets + 1) = "done"
    BY DEF SetLoc
  <2> QED BY <1>1, <2>1, Zenon
<1>4. /\ mem["start"] = 1
      /\ mem["data"] = IF Sets >= 1 THEN 1 ELSE 0
      /\ mem["flag"] = IF Sets >= 2 THEN 1 ELSE 0
      /\ mem["done"] = 0
  BY <1>1, <1>2 DEF InStep, Setting
<1>5. /\ mem'["start"] = 1
      /\ mem'["data"] = IF Sets' >= 1 THEN 1 ELSE 0
      /\ mem'["flag"] = IF Sets' >= 2 THEN 1 ELSE 0
      /\ mem'["done"] = IF Sets' >= 3 THEN 1 ELSE 0
  BY <1>1, <1>2, <1>3, <1>4, HandshakeFacts
<1>6. Setting' /\ Resetting'
  <2>1. Sets' \in 0..3 /\ Resets' = 5
    BY <1>1, <1>2
  <2> QED BY <2>1, <1>5 DEF Setting, Resetting
<1>7. Peeked'
  <2>1. mem["data"] = 1 => mem'["data"] = 1
    BY <1>2, <1>3, HandshakeFacts
  <2>2. ~ WriterRests
    BY <1>1 DEF WriterRests
  <2> QED BY <2>1, <2>2, <1>1 DEF InStep, Peeked
<1> QED BY <1>1, <1>6, <1>7 DEF InStep

-----------------------------------------------------------------------------
(* All of it.                                                              *)
LEMMA InStepKept ==
  ASSUME ResetTypes, InStep, model = "TSO", NEW t \in ResetThread, ResetStep(t), ~ env'.early
  PROVE  InStep'
<1>1. CASE t = Writer /\ WriterStep
  <2>1. CASE WFirst
    <3>1. Write(Writer, "w_first", "data", 1, AfterFirst) /\ Keep
      BY <2>1 DEF WFirst
    <3>2. pc[Writer] = "w_first" /\ pc'[Writer] = AfterFirst
      BY <3>1, GoMoves, HandshakeFacts DEF Write
    <3>3. SetsIssued = 0 /\ SetsIssued' = 1 /\ SetLoc(0 + 1) = "data"
      BY <3>2, AfterFirstIs DEF SetsIssued, SetLoc
    <3> QED BY <3>1, <3>3, WriterStores
  <2>2. CASE WSecond
    <3>1. Write(Writer, "w_second", "flag", 1, "w_done") /\ Keep
      BY <2>2 DEF WSecond
    <3>2. pc[Writer] = "w_second" /\ pc'[Writer] = "w_done"
      BY <3>1, GoMoves, HandshakeFacts DEF Write
    <3>3. SetsIssued = 1 /\ SetsIssued' = 2 /\ SetLoc(1 + 1) = "flag"
      BY <3>2 DEF SetsIssued, SetLoc
    <3> QED BY <3>1, <3>3, WriterStores
  <2>3. CASE WDone
    <3>1. Write(Writer, "w_done", "done", 1, "w_reset") /\ Keep
      BY <2>3 DEF WDone
    <3>2. pc[Writer] = "w_done" /\ pc'[Writer] = "w_reset"
      BY <3>1, GoMoves, HandshakeFacts DEF Write
    <3>3. SetsIssued = 2 /\ SetsIssued' = 3 /\ SetLoc(2 + 1) = "done"
      BY <3>2 DEF SetsIssued, SetLoc
    <3> QED BY <3>1, <3>3, WriterStores
  <2>4. CASE WWait \/ WFence \/ WReset
    BY <2>4, WriterWaits
  <2> QED BY <1>1, <2>1, <2>2, <2>3, <2>4 DEF WriterStep
<1>2. CASE t = Reader /\ ReaderStep
  <2>1. CASE RFlag
    <3>1. Write(Reader, "r_flag", "flag", 0, "r_data") /\ Keep
      BY <2>1 DEF RFlag, RReset
    <3>2. pc[Reader] = "r_flag" /\ pc'[Reader] = "r_data"
      BY <3>1, GoMoves, HandshakeFacts DEF Write
    <3>3. ResetsIssued = 1 /\ ResetsIssued' = 2 /\ ResetLoc(1 + 1) = "flag" /\ ResetVal(1 + 1) = 0
      BY <3>2 DEF ResetsIssued, ResetLoc, ResetVal
    <3> QED BY <3>1, <3>3, ReaderStores
  <2>2. CASE RData
    <3>1. Write(Reader, "r_data", "data", 0, "r_done") /\ Keep
      BY <2>2 DEF RData, RReset
    <3>2. pc[Reader] = "r_data" /\ pc'[Reader] = "r_done"
      BY <3>1, GoMoves, HandshakeFacts DEF Write
    <3>3. ResetsIssued = 2 /\ ResetsIssued' = 3 /\ ResetLoc(2 + 1) = "data" /\ ResetVal(2 + 1) = 0
      BY <3>2 DEF ResetsIssued, ResetLoc, ResetVal
    <3> QED BY <3>1, <3>3, ReaderStores
  <2>3. CASE RDone
    <3>1. Write(Reader, "r_done", "done", 0, "r_start") /\ Keep
      BY <2>3 DEF RDone, RReset
    <3>2. pc[Reader] = "r_done" /\ pc'[Reader] = "r_start"
      BY <3>1, GoMoves, HandshakeFacts DEF Write
    <3>3. ResetsIssued = 3 /\ ResetsIssued' = 4 /\ ResetLoc(3 + 1) = "done" /\ ResetVal(3 + 1) = 0
      BY <3>2 DEF ResetsIssued, ResetLoc, ResetVal
    <3> QED BY <3>1, <3>3, ReaderStores
  <2>4. CASE RStart
    <3>1. Write(Reader, "r_start", "start", 1, "r_poll") /\ Keep
      BY <2>4 DEF RStart
    <3>2. pc[Reader] = "r_start" /\ pc'[Reader] = "r_poll"
      BY <3>1, GoMoves, HandshakeFacts DEF Write
    <3>3. ResetsIssued = 4 /\ ResetsIssued' = 5 /\ ResetLoc(4 + 1) = "start" /\ ResetVal(4 + 1) = 1
      BY <3>2 DEF ResetsIssued, ResetLoc, ResetVal
    <3> QED BY <3>1, <3>3, ReaderStores
  <2>5. CASE RPoll
    BY <2>5, ReaderPolls
  <2>6. CASE RLoadFlag \/ RLoadData
    BY <2>6, ReaderLoads
  <2>7. CASE RCheck
    BY <2>7, ReaderChecks
  <2>8. CASE RStop
    BY <2>8, ReaderStops
  <2> QED BY <1>2, <2>1, <2>2, <2>3, <2>4, <2>5, <2>6, <2>7, <2>8 DEF ReaderStep
<1> QED BY <1>1, <1>2 DEF ResetStep

(* An early break is remembered.                                           *)
LEMMA EarlyStays ==
  ASSUME ResetTypes, NEW t \in ResetThread, ResetStep(t), env.early
  PROVE  env'.early
<1>1. CASE UNCHANGED env
  BY <1>1
<1>2. CASE RCheck
  BY <1>2 DEF RCheck
<1>3. UNCHANGED env \/ RCheck
  BY DEF ResetStep, WriterStep, ReaderStep, Keep, WWait, WFirst, WFence, WSecond, WDone, WReset,
         RFlag, RData, RDone, RStart, RPoll, RLoadFlag, RLoadData, RStop, RReset
<1> QED BY <1>1, <1>2, <1>3

(* The invariant holds when the threads start.                             *)
LEMMA ResetInitial ==
  ASSUME StartOn({"TSO", "ARM"})
  PROVE  ResetInv
<1>1. PICK p \in {"rwlock", "volatile"} :
        Boot(p, {"TSO", "ARM"}, [x \in WordLoc |-> 0],
             [t \in ResetThread |-> IF t = Writer THEN "w_wait" ELSE "r_flag"],
             [t \in ResetThread |-> [flag |-> Unread, data |-> Unread]],
             [early |-> FALSE])
  BY DEF StartOn
<1>2. /\ mem = [x \in WordLoc |-> 0]
      /\ buf = [t \in ResetThread |-> << >>]
      /\ pc = [t \in ResetThread |-> IF t = Writer THEN "w_wait" ELSE "r_flag"]
      /\ reg = [t \in ResetThread |-> [flag |-> Unread, data |-> Unread]]
      /\ env = [early |-> FALSE] /\ model \in {"TSO", "ARM"} /\ program = p
  BY <1>1 DEF Boot
<1>3. ResetTypes
  <2>1. << >> \in Seq(Entry(WordLoc, {0, 1}))
    OBVIOUS
  <2> QED BY <1>2, <2>1, HandshakeFacts DEF ResetTypes, MemOK, WriterPC, ReaderPC
<1>4. /\ pc[Writer] = "w_wait" /\ pc[Reader] = "r_flag"
      /\ Len(buf[Writer]) = 0 /\ Len(buf[Reader]) = 0
      /\ reg[Reader].flag = Unread /\ reg[Reader].data = Unread
      /\ \A x \in WordLoc : mem[x] = 0
  BY <1>2, HandshakeFacts
<1>5. Resets = 1 /\ Sets = 0
  BY <1>4 DEF Resets, Sets, ResetsIssued, SetsIssued
<1>6. InStep
  BY <1>4, <1>5, HandshakeFacts
     DEF InStep, Buffered, Resetting, Setting, Peeked, WriterRests, Unread
<1> QED BY <1>3, <1>6 DEF ResetInv

(* Every step of the specification preserves the invariant.                *)
LEMMA ResetPreserved ==
  ASSUME ResetInv, [ResetNext]_vars
  PROVE  ResetInv'
<1> USE DEF ResetInv
<1>1. CASE UNCHANGED vars
  <2>1. ResetTypes'
    BY <1>1 DEF vars, ResetTypes, MemOK
  <2>2. InStep' = InStep /\ env' = env /\ model' = model
    BY <1>1 DEF vars, InStep, Buffered, Resetting, Setting, Peeked, Resets, Sets,
                ResetsIssued, SetsIssued, WriterRests
  <2> QED BY <2>1, <2>2
<1>2. ASSUME NEW t \in ResetThread, ResetStep(t)
      PROVE  ResetInv'
  <2>1. ResetTypes' /\ model' = model
    BY <1>2, TypesStep DEF ResetStep, rigid
  <2>2. env.early => env'.early
    BY <1>2, EarlyStays
  <2>3. InStep /\ model = "TSO" /\ ~ env'.early => InStep'
    BY <1>2, InStepKept
  <2> QED BY <2>1, <2>2, <2>3
<1>3. ASSUME NEW t \in ResetThread, ResetFlush(t)
      PROVE  ResetInv'
  <2>1. ResetTypes' /\ UNCHANGED <<pc, reg, env, model>>
    BY <1>3, TypesFlush DEF ResetFlush, Flush, rigid
  <2>2. PICK x \in WordLoc : Commit(t, x)
    BY <1>3 DEF ResetFlush, Flush, ResetTypes, MemOK
  <2>3. InStep /\ model = "TSO" => InStep'
    <3> SUFFICES ASSUME InStep, model = "TSO" PROVE InStep'
      OBVIOUS
    <3>1. MemOK(ResetThread, WordLoc, {0, 1})
      BY DEF ResetTypes
    <3>2. CommitsFirst(ResetThread, t, x)
      BY <3>1, <2>2, CommitFirst, Zenon
    <3> QED BY <3>2, <2>1, ResetArrives, SetArrives, HandshakeFacts
  <2> QED BY <2>1, <2>3
<1> QED BY <1>1, <1>2, <1>3 DEF ResetNext

(* 24-mysql_rwlock_deadlock.c and 25-mysql_volatile_bug.c: the invariant   *)
(* holds in every state, whatever the size of the store buffers.           *)
THEOREM Handshakes == ResetSpec => []ResetInv
<1>1. StartOn({"TSO", "ARM"}) => ResetInv
  BY ResetInitial
<1>2. ResetInv /\ [ResetNext]_vars => ResetInv'
  BY ResetPreserved
<1> QED BY <1>1, <1>2, PTL DEF ResetSpec

(* On TSO and on ARM, words, buffers and locals of the two programs keep   *)
(* their types, and the labels stay with their threads.                    *)
THEOREM Typing == ResetSpec => []ResetTypeOK
<1>1. ResetInv => ResetTypeOK
  BY DEF ResetInv, ResetTypes, ResetTypeOK, MemOK, Entry, SC!MemTypeOK, SC!Entries
<1> QED BY <1>1, Handshakes, PTL

(* On TSO the check of the two programs fails, and ends them with exit(1), *)
(* only after the reader has broken out of its loop ahead of the writer's  *)
(* done = 1, whatever the size of the store buffers.                       *)
THEOREM EarlyBreak == ResetSpec => []OnlyAfterEarlyBreak
<1>1. ResetInv => OnlyAfterEarlyBreak
  <2> SUFFICES ASSUME ResetInv, model = "TSO", Exited PROVE env.early
    BY DEF OnlyAfterEarlyBreak
  <2>1. PICK t \in ResetThread : pc[t] \in {"exit", "abort"}
    BY DEF Exited, ResetInv, ResetTypes
  <2>2. pc[Writer] \in WriterPC /\ pc[Reader] \in ReaderPC
    BY DEF ResetInv, ResetTypes
  <2>3. pc[Reader] = "exit"
    BY <2>1, <2>2, HandshakeFacts DEF WriterPC, ReaderPC
  <2> QED BY <2>3 DEF ResetInv, InStep, Peeked
<1> QED BY <1>1, Handshakes, PTL

-----------------------------------------------------------------------------
(* The types of every program of Native, on each memory it is given: its   *)
(* steps store numbers, to words of its own.  Of a program without an      *)
(* invariant on all of its memories nothing more is needed than Typed.     *)

Typed(T, Loc, Reg) ==
  /\ model \in {"SC", "TSO", "ARM"}
  /\ MemOK(T, Loc, Int)
  /\ DOMAIN pc = T
  /\ reg \in [T -> Reg]

(* Some kind of number in every word is enough.                            *)
LEMMA MachineTyped ==
  ASSUME NEW T, NEW Loc, NEW Val \in SUBSET Int, MemOK(T, Loc, Val),
         model \in {"SC", "TSO", "ARM"}, DOMAIN pc = T, DOMAIN reg = T
  PROVE  MachineTypeOK
<1>1. /\ mem \in [Loc -> Val] /\ buf \in [T -> Seq(Entry(Loc, Val))]
      /\ DOMAIN mem = Loc /\ DOMAIN buf = T
  BY DEF MemOK
<1>2. Entry(Loc, Val) \subseteq SC!Entries(Loc, Int)
  BY DEF Entry, SC!Entries
<1>3. ASSUME NEW t \in T PROVE buf[t] \in Seq(SC!Entries(Loc, Int))
  <2>1. buf[t] \in Seq(Entry(Loc, Val))
    BY <1>1
  <2>2. /\ Len(buf[t]) \in Nat
        /\ buf[t] \in [1..Len(buf[t]) -> Entry(Loc, Val)]
    BY <2>1
  <2>3. buf[t] \in [1..Len(buf[t]) -> SC!Entries(Loc, Int)]
    BY <1>2, <2>2
  <2> QED BY <2>2, <2>3
<1>4. buf \in [T -> Seq(SC!Entries(Loc, Int))]
  BY <1>1, <1>3
<1>5. mem \in [Loc -> Int]
  BY <1>1
<1> QED BY <1>1, <1>4, <1>5 DEF MachineTypeOK, SC!MemTypeOK

(* Every thread starts with an empty buffer.                               *)
LEMMA TypedBoot ==
  ASSUME NEW T, NEW Loc, NEW Reg, model \in {"SC", "TSO", "ARM"},
         mem \in [Loc -> Int], buf = [t \in T |-> << >>],
         DOMAIN pc = T, reg \in [T -> Reg]
  PROVE  Typed(T, Loc, Reg)
  BY DEF Typed, MemOK, Entry

(* A commit on any of the memories.                                        *)
LEMMA CommitTypes ==
  ASSUME NEW T, NEW Loc, NEW Val, MemOK(T, Loc, Val), model \in {"SC", "TSO", "ARM"},
         NEW t \in T, NEW x \in Loc, Commit(t, x)
  PROVE  MemOK(T, Loc, Val)'
<1> DEFINE b == buf[t]
           w(i) == [j \in 1..(Len(b) - 1) |-> IF j < i THEN b[j] ELSE b[j + 1]]
<1>1. CASE model # "SC"
  <2>1. Weak
    BY <1>1 DEF Weak
  <2> QED BY <2>1, CommitEntries
<1>2. CASE model = "SC"
  <2>1. SC!Commit(t, x)
    BY <1>2 DEF Commit
  <2>2. PICK i \in DOMAIN b :
          /\ b[i].loc = x
          /\ mem' = [mem EXCEPT ![x] = b[i].val]
          /\ buf' = [buf EXCEPT ![t] = w(i)]
    BY <2>1 DEF SC!Commit, SC!CommitAt, SC!Pending, SC!Without
  <2>3. /\ buf \in [T -> Seq(Entry(Loc, Val))]
        /\ mem \in [Loc -> Val]
        /\ b \in Seq(Entry(Loc, Val))
        /\ DOMAIN b = 1..Len(b) /\ Len(b) \in Nat \ {0}
        /\ i \in 1..Len(b)
        /\ \A j \in 1..Len(b) : b[j] \in Entry(Loc, Val)
    BY <2>2 DEF MemOK
  <2>4. w(i) \in Seq(Entry(Loc, Val))
    <3>1. \A j \in 1..(Len(b) - 1) : j \in 1..Len(b) /\ j + 1 \in 1..Len(b)
      BY <2>3
    <3>2. w(i) \in [1..(Len(b) - 1) -> Entry(Loc, Val)]
      BY <2>3, <3>1
    <3>3. Len(b) - 1 \in Nat
      BY <2>3
    <3> HIDE DEF w
    <3> QED BY <3>2, <3>3
  <2>5. b[i].val \in Val
    BY <2>3 DEF Entry
  <2> HIDE DEF w
  <2> QED BY <2>2, <2>3, <2>4, <2>5 DEF MemOK
<1> QED BY <1>1, <1>2

(* A store on any of the memories.                                         *)
LEMMA PutTypes ==
  ASSUME NEW T, NEW Loc, NEW Val, MemOK(T, Loc, Val), model \in {"SC", "TSO", "ARM"},
         NEW t \in T, NEW x \in Loc, NEW v \in Val, NEW rel \in BOOLEAN, Put(t, x, v, rel)
  PROVE  MemOK(T, Loc, Val)'
<1>1. CASE model = "SC"
  BY <1>1, PutInMemory
<1>2. CASE model # "SC"
  <2>1. Weak
    BY <1>2 DEF Weak
  <2> QED BY <2>1, PutEntries
<1> QED BY <1>1, <1>2

(* The statements of Machine, as far as types go: a store of a number.     *)
LEMMA TypedWrite ==
  ASSUME NEW T, NEW Loc, NEW Reg, Typed(T, Loc, Reg), UNCHANGED rigid,
         NEW t \in T, NEW x \in Loc, NEW v \in Int, NEW from, NEW to,
         Write(t, from, x, v, to) \/ WriteRel(t, from, x, v, to),
         reg' \in [T -> Reg]
  PROVE  Typed(T, Loc, Reg)'
<1>1. MemOK(T, Loc, Int)'
  <2>1. TRUE \in BOOLEAN /\ FALSE \in BOOLEAN
    OBVIOUS
  <2>2. Put(t, x, v, FALSE) \/ Put(t, x, v, TRUE)
    BY DEF Write, WriteRel
  <2> QED BY <2>1, <2>2, PutTypes DEF Typed
<1>2. DOMAIN pc' = T
  BY DEF Write, WriteRel, Go, Typed
<1> QED BY <1>1, <1>2 DEF Typed, rigid

(* A step that leaves memory and buffers alone.                            *)
LEMMA TypedSilent ==
  ASSUME NEW T, NEW Loc, NEW Reg, Typed(T, Loc, Reg), UNCHANGED rigid, Silent,
         DOMAIN pc' = T, reg' \in [T -> Reg]
  PROVE  Typed(T, Loc, Reg)'
<1>1. MemOK(T, Loc, Int)'
  BY SilentEntries DEF Typed
<1> QED BY <1>1 DEF Typed, rigid

(* One of a single thread.                                                 *)
LEMMA TypedGo ==
  ASSUME NEW T, NEW Loc, NEW Reg, Typed(T, Loc, Reg), UNCHANGED rigid, Silent,
         NEW t, NEW from, NEW to, Go(t, from, to), reg' \in [T -> Reg]
  PROVE  Typed(T, Loc, Reg)'
<1>1. DOMAIN pc' = T
  BY DEF Go, Typed
<1> QED BY <1>1, TypedSilent

(* A read-modify-write.                                                    *)
LEMMA TypedSetMem ==
  ASSUME NEW T, NEW Loc, NEW Reg, Typed(T, Loc, Reg), UNCHANGED rigid,
         NEW x \in Loc, NEW v \in Int, SetMem(x, v),
         NEW t, NEW from, NEW to, Go(t, from, to), reg' \in [T -> Reg]
  PROVE  Typed(T, Loc, Reg)'
<1>1. MemOK(T, Loc, Int)'
  BY SetMemEntries DEF Typed
<1>2. DOMAIN pc' = T
  BY DEF Go, Typed
<1> QED BY <1>1, <1>2 DEF Typed, rigid

(* A store that becomes visible.                                           *)
LEMMA TypedFlush ==
  ASSUME NEW T, NEW Loc, NEW Reg, Typed(T, Loc, Reg), UNCHANGED <<rigid, pc, reg>>,
         NEW t \in T, NEW x \in DOMAIN mem, Commit(t, x)
  PROVE  Typed(T, Loc, Reg)'
<1>1. x \in Loc
  BY DEF Typed, MemOK
<1>2. MemOK(T, Loc, Int)'
  BY <1>1, CommitTypes DEF Typed
<1> QED BY <1>2 DEF Typed, rigid

(* A load yields a number.                                                 *)
LEMMA TypedLoad ==
  ASSUME NEW T, NEW Loc, NEW Reg, Typed(T, Loc, Reg), NEW t \in T, NEW x \in Loc
  PROVE  Load(t, x) \in Int
  BY LoadEntries DEF Typed

-----------------------------------------------------------------------------
(* 23-mcs.c.                                                               *)
LinkThread == {Main, 1}
LinkLoc    == {next(1), next(2), locked(2)}
LinkReg    == [cycles : Int]
LinkTyped  == Typed(LinkThread, LinkLoc, LinkReg)

(* No node is linked yet.                                                  *)
LEMMA LinkTypedInit == LinkInit => LinkTyped
<1> SUFFICES ASSUME LinkInit PROVE LinkTyped
  OBVIOUS
<1>1. /\ model \in {"SC", "TSO", "ARM"}
      /\ mem = [x \in LinkLoc |-> 0]
      /\ buf = [t \in LinkThread |-> << >>]
      /\ DOMAIN pc = LinkThread
      /\ reg = [t \in LinkThread |-> [cycles |-> 0]]
  BY DEF LinkInit, Boot, LinkLoc, LinkThread
<1>2. mem \in [LinkLoc -> Int] /\ reg \in [LinkThread -> LinkReg]
  BY <1>1 DEF LinkReg
<1> QED BY <1>1, <1>2, TypedBoot DEF LinkTyped

(* Every step of 23-mcs.c stores numbers.                                  *)
LEMMA LinkTypedStep ==
  ASSUME LinkTyped, UNCHANGED rigid, NEW t \in LinkThread, LinkStep(t)
  PROVE  LinkTyped'
<1>1. /\ Typed(LinkThread, LinkLoc, LinkReg)
      /\ Main \in LinkThread /\ 1 \in LinkThread
      /\ next(1) \in LinkLoc /\ next(2) \in LinkLoc /\ locked(2) \in LinkLoc
      /\ 0 \in Int /\ 1 \in Int /\ 2 \in Int
      /\ reg \in [LinkThread -> LinkReg] /\ DOMAIN pc = LinkThread
  BY DEF LinkTyped, LinkThread, LinkLoc, Typed
<1>2. ASSUME LinkSuccessor PROVE LinkTyped'
  <2>1. reg' \in [LinkThread -> LinkReg]
    BY <1>1, <1>2 DEF LinkSuccessor, Keep
  <2>2. \/ Write(1, "start", next(2), 0, "s_locked")
        \/ Write(1, "s_locked", locked(2), 1, "s_link")
        \/ Write(1, "s_link", next(1), 2, "done")
    BY <1>2 DEF LinkSuccessor, nodeMe, nodePrev, NULL
  <2> QED BY <1>1, <2>1, <2>2, TypedWrite DEF LinkTyped
<1>3. ASSUME LinkPrepare PROVE LinkTyped'
  <2>1. reg' \in [LinkThread -> LinkReg]
    BY <1>1, <1>3 DEF LinkPrepare, Keep
  <2>2. CASE Write(Main, "p_next", next(nodePrev), NULL, "p_create")
    <3>1. Write(Main, "p_next", next(1), 0, "p_create")
      BY <2>2 DEF nodePrev, NULL
    <3> QED BY <1>1, <2>1, <3>1, TypedWrite DEF LinkTyped
  <2>3. CASE Create(Main, "p_create", {1}, "p_poll")
    <3>1. Silent /\ DOMAIN pc' = LinkThread
      BY <1>1, <2>3 DEF Create
    <3> QED BY <1>1, <2>1, <3>1, TypedSilent DEF LinkTyped
  <2> QED BY <1>3, <2>2, <2>3 DEF LinkPrepare
<1>4. ASSUME LinkPoll PROVE LinkTyped'
  <2>1. PICK to, v : /\ Go(Main, "p_poll", to) /\ Silent
                     /\ reg' = [reg EXCEPT ![Main].cycles = v]
                     /\ v = reg[Main].cycles \/ v = reg[Main].cycles + 1
    BY <1>4 DEF LinkPoll, Local
  <2>2. v \in Int
    BY <1>1, <2>1 DEF LinkReg
  <2>3. reg' \in [LinkThread -> LinkReg]
    BY <1>1, <2>1, <2>2 DEF LinkReg
  <2> QED BY <1>1, <2>1, <2>3, TypedGo DEF LinkTyped
<1>5. ASSUME LinkJoin PROVE LinkTyped'
  <2>1. Go(Main, "p_join", "exit") /\ Silent /\ reg' = reg
    BY <1>5 DEF LinkJoin, Await, Keep
  <2> QED BY <1>1, <2>1, TypedGo DEF LinkTyped
<1> QED BY <1>2, <1>3, <1>4, <1>5 DEF LinkStep

-----------------------------------------------------------------------------
(* 6-ompi.c.                                                               *)
OmpiLoc   == {"active", "status"}
OmpiReg   == [status : Int]
OmpiTyped == Typed(Two, OmpiLoc, OmpiReg)

(* The threads of these programs.                                          *)
LEMMA TwoThreads == Main \in Two /\ 1 \in Two /\ 2 \in Two /\ Main = 0 /\ Two = {0, 1, 2}
  BY DEF Two, Main

(* Both words start as 0.                                                  *)
LEMMA OmpiTypedInit == OmpiInit => OmpiTyped
<1> SUFFICES ASSUME OmpiInit PROVE OmpiTyped
  OBVIOUS
<1>1. /\ model \in {"SC", "TSO", "ARM"}
      /\ mem = [x \in OmpiLoc |-> 0]
      /\ buf = [t \in Two |-> << >>]
      /\ DOMAIN pc = Two
      /\ reg = [t \in Two |-> [status |-> -1]]
  BY DEF OmpiInit, Boot, OmpiLoc, Two
<1>2. mem \in [OmpiLoc -> Int] /\ reg \in [Two -> OmpiReg]
  BY <1>1 DEF OmpiReg
<1> QED BY <1>1, <1>2, TypedBoot DEF OmpiTyped

(* The joins of the programs of two threads.                               *)
LEMMA TypedJoin ==
  ASSUME NEW Loc, NEW Reg, Typed(Two, Loc, Reg), UNCHANGED rigid, JoinTwo
  PROVE  Typed(Two, Loc, Reg)'
<1>1. Go(Main, "join", "exit") /\ Silent /\ reg' = reg
  BY DEF JoinTwo, Await, Keep
<1>2. reg' \in [Two -> Reg]
  BY <1>1 DEF Typed
<1> QED BY <1>1, <1>2, TypedGo

(* Every step of 6-ompi.c stores numbers.                                  *)
LEMMA OmpiTypedStep ==
  ASSUME OmpiTyped, UNCHANGED rigid, NEW t \in Two, OmpiStep(t)
  PROVE  OmpiTyped'
<1>1. /\ Typed(Two, OmpiLoc, OmpiReg)
      /\ 1 \in Two /\ 2 \in Two
      /\ "active" \in OmpiLoc /\ "status" \in OmpiLoc
      /\ 0 \in Int /\ 1 \in Int
      /\ reg \in [Two -> OmpiReg]
  BY TwoThreads DEF OmpiTyped, OmpiLoc, Typed
<1>2. ASSUME Keep,
             \/ Write(1, "declare", "active", 1, "wait")
             \/ Write(2, "status", "status", 0, "active")
             \/ Write(2, "active", "active", 0, "done")
      PROVE  OmpiTyped'
  <2>1. reg' \in [Two -> OmpiReg]
    BY <1>1, <1>2 DEF Keep
  <2> QED BY <1>1, <1>2, <2>1, TypedWrite DEF OmpiTyped
<1>3. ASSUME Keep, Await(1, "wait", Load(1, "active") = 0, "status")
      PROVE  OmpiTyped'
  <2>1. Go(1, "wait", "status") /\ Silent /\ reg' \in [Two -> OmpiReg]
    BY <1>1, <1>3 DEF Await, Keep
  <2> QED BY <1>1, <2>1, TypedGo DEF OmpiTyped
<1>4. ASSUME Read(1, "status", "status", "status", "done") PROVE OmpiTyped'
  <2>1. PICK v \in Int : reg' = [reg EXCEPT ![1]["status"] = v]
    BY <1>1, <1>4, TypedLoad DEF Read
  <2>2. Go(1, "status", "done") /\ Silent /\ reg' \in [Two -> OmpiReg]
    BY <1>1, <1>4, <2>1 DEF Read, OmpiReg
  <2> QED BY <1>1, <2>2, TypedGo DEF OmpiTyped
<1>5. CASE t = Main
  <2>1. JoinTwo
    BY <1>5, TwoThreads DEF OmpiStep
  <2> QED BY <1>1, <2>1, TypedJoin DEF OmpiTyped
<1>6. CASE t = 1
  <2>1. OmpiDeclare
    BY <1>6, TwoThreads DEF OmpiStep
  <2> QED BY <1>2, <1>3, <1>4, <2>1 DEF OmpiDeclare
<1>7. CASE t = 2
  <2>1. OmpiCallback
    BY <1>7, TwoThreads DEF OmpiStep
  <2> QED BY <1>2, <2>1 DEF OmpiCallback
<1> QED BY <1>5, <1>6, <1>7, TwoThreads

-----------------------------------------------------------------------------
(* 13-JDK.c.                                                               *)
JdkLoc   == {"state", "next", "entryList", "semaphore"}
JdkReg   == [list : Int, w : Int]
JdkTyped == Typed(Two, JdkLoc, JdkReg)

(* Its node starts with whatever malloc left there, a number.              *)
LEMMA JdkTypedInit == JdkInit => JdkTyped
<1> SUFFICES ASSUME JdkInit PROVE JdkTyped
  OBVIOUS
<1>1. PICK state \in BOOL, garb \in {NULL, 2} :
        /\ model \in {"SC", "TSO", "ARM"}
        /\ mem = [x \in JdkLoc |-> CASE x = "state" -> state [] x = "next" -> garb [] OTHER -> 0]
        /\ buf = [t \in Two |-> << >>]
        /\ DOMAIN pc = Two
        /\ reg = [t \in Two |-> [list |-> NULL, w |-> NULL]]
  BY DEF JdkInit, Boot, JdkLoc, Two
<1>2. state \in Int /\ garb \in Int
  BY DEF BOOL, NULL
<1>3. mem \in [JdkLoc -> Int] /\ reg \in [Two -> JdkReg]
  BY <1>1, <1>2 DEF JdkReg, NULL
<1> QED BY <1>1, <1>3, TypedBoot DEF JdkTyped

(* Every step of 13-JDK.c stores numbers.                                  *)
LEMMA JdkTypedStep ==
  ASSUME JdkTyped, UNCHANGED rigid, NEW t \in Two, JdkStep(t)
  PROVE  JdkTyped'
<1>1. /\ Typed(Two, JdkLoc, JdkReg)
      /\ 1 \in Two /\ 2 \in Two
      /\ "state" \in JdkLoc /\ "next" \in JdkLoc /\ "entryList" \in JdkLoc
      /\ "semaphore" \in JdkLoc
      /\ 0 \in Int /\ 1 \in Int
      /\ reg \in [Two -> JdkReg]
  BY TwoThreads DEF JdkTyped, JdkLoc, Typed
<1>2. reg[1].list \in Int /\ Load(2, "next") \in Int
  BY <1>1, TypedLoad DEF JdkReg
<1>3. ASSUME Keep,
             \/ Write(1, "state", "state", 0, "list")
             \/ Write(1, "next", "next", reg[1].list, "queue")
             \/ Write(1, "queue", "entryList", 1, "wait")
             \/ Write(2, "unlink", "entryList", Load(2, "next"), "post")
             \/ Write(2, "post", "semaphore", 1, "run")
             \/ Write(2, "run", "state", 1, "done")
      PROVE  JdkTyped'
  <2>1. reg' \in [Two -> JdkReg]
    BY <1>1, <1>3 DEF Keep
  <2> QED BY <1>1, <1>2, <1>3, <2>1, TypedWrite DEF JdkTyped
<1>4. ASSUME NEW u, NEW from, NEW to, Local(u, from, to), Keep
      PROVE  JdkTyped'
  <2>1. Go(u, from, to) /\ Silent /\ reg' \in [Two -> JdkReg]
    BY <1>1, <1>4 DEF Local, Keep
  <2> QED BY <1>1, <2>1, TypedGo DEF JdkTyped
<1>5. ASSUME NEW u \in {1, 2}, NEW r \in {"list", "w"}, NEW from, NEW to,
             Read(u, from, r, "entryList", to)
      PROVE  JdkTyped'
  <2>1. PICK v \in Int : reg' = [reg EXCEPT ![u][r] = v]
    BY <1>1, <1>5, TypedLoad DEF Read
  <2>2. Go(u, from, to) /\ Silent
    BY <1>5 DEF Read
  <2>3. reg' \in [Two -> JdkReg]
    BY <1>1, <2>1 DEF JdkReg
  <2> QED BY <1>1, <2>2, <2>3, TypedGo DEF JdkTyped
<1>6. CASE t = Main
  <2>1. JoinTwo
    BY <1>6, TwoThreads DEF JdkStep
  <2> QED BY <1>1, <2>1, TypedJoin DEF JdkTyped
<1>7. CASE t = 1
  <2>1. JdkEnter
    BY <1>7, TwoThreads DEF JdkStep
  <2> QED BY <1>3, <1>4, <1>5, <2>1 DEF JdkEnter
<1>8. CASE t = 2
  <2>1. JdkExit
    BY <1>8, TwoThreads DEF JdkStep
  <2> QED BY <1>3, <1>4, <1>5, <2>1 DEF JdkExit
<1> QED BY <1>6, <1>7, <1>8, TwoThreads

-----------------------------------------------------------------------------
(* 27-mysql-ut-realx.c.                                                    *)
RelaxReg   == [i : Int, val : Int]
RelaxTyped == Typed(Two, RelaxLoc, RelaxReg)

(* The words, the counters and the locals start as 0.                      *)
LEMMA RelaxTypedInit == RelaxInit => RelaxTyped
<1> SUFFICES ASSUME RelaxInit PROVE RelaxTyped
  OBVIOUS
<1>1. /\ model \in {"SC", "TSO", "ARM"}
      /\ mem = [x \in RelaxLoc |-> 0]
      /\ buf = [t \in Two |-> << >>]
      /\ DOMAIN pc = Two
      /\ reg = [t \in Two |-> [i |-> 0, val |-> 0]]
  BY DEF RelaxInit, Boot, Two
<1>2. mem \in [RelaxLoc -> Int] /\ reg \in [Two -> RelaxReg]
  BY <1>1 DEF RelaxReg
<1> QED BY <1>1, <1>2, TypedBoot DEF RelaxTyped

(* Every step of 27-mysql-ut-realx.c stores numbers, the resets of main    *)
(* included.                                                               *)
LEMMA RelaxTypedStep ==
  ASSUME RelaxTyped, UNCHANGED rigid, NEW t \in Two, RelaxStep(t)
  PROVE  RelaxTyped'
<1>1. /\ Typed(Two, RelaxLoc, RelaxReg)
      /\ Main \in Two /\ 1 \in Two /\ 2 \in Two
      /\ {"lock_word", "data", "data_ready", "bug_detected", "start_flag"} \subseteq RelaxLoc
      /\ 0 \in Int /\ 1 \in Int
      /\ reg \in [Two -> RelaxReg] /\ DOMAIN pc = Two
      /\ MemOK(Two, RelaxLoc, Int)
  BY TwoThreads DEF RelaxTyped, RelaxLoc, Typed
<1>2. reg[1].i + 1 \in Int /\ reg[2].i + 1 \in Int
  BY <1>1 DEF RelaxReg
<1>3. ASSUME NEW u \in Two, NEW from, NEW to, NEW x \in RelaxLoc, NEW v \in Int,
             Write(u, from, x, v, to) \/ WriteRel(u, from, x, v, to), reg' \in [Two -> RelaxReg]
      PROVE  RelaxTyped'
  BY <1>1, <1>3, TypedWrite DEF RelaxTyped
<1>4. ASSUME NEW u, NEW from, NEW to, Go(u, from, to), Silent, reg' \in [Two -> RelaxReg]
      PROVE  RelaxTyped'
  BY <1>1, <1>4, TypedGo DEF RelaxTyped
<1>5. ASSUME Keep PROVE reg' \in [Two -> RelaxReg]
  BY <1>1, <1>5 DEF Keep
<1>6. ASSUME NEW u \in {1, 2}, reg' = [reg EXCEPT ![u].i = @ + 1]
      PROVE  reg' \in [Two -> RelaxReg]
  BY <1>1, <1>2, <1>6 DEF RelaxReg
<1>7. ASSUME NEW u \in {1, 2}, NEW begin, RelaxLoop(u, begin) PROVE RelaxTyped'
  <2>1. Keep /\ \E from, to : Go(u, from, to) /\ Silent
    BY <1>7 DEF RelaxLoop, Await, Local
  <2> QED BY <1>4, <1>5, <2>1
<1>8. CASE t = Main
  <2>0. RelaxMain
    BY <1>8, TwoThreads DEF RelaxStep
  <2>1. ASSUME Create(Main, "create", {1, 2}, "start"),
               reg' = [u \in Two |-> [i |-> 0, val |-> 0]]
        PROVE  RelaxTyped'
    <3>1. Silent /\ DOMAIN pc' = Two
      BY <1>1, <2>1 DEF Create
    <3>2. reg' \in [Two -> RelaxReg]
      BY <2>1 DEF RelaxReg
    <3> QED BY <1>1, <3>1, <3>2, TypedSilent DEF RelaxTyped
  <2>2. ASSUME Write(Main, "start", "start_flag", 1, "join"), Keep
        PROVE  RelaxTyped'
    BY <1>1, <1>3, <1>5, <2>2
  <2>3. ASSUME \/ mem' = [x \in RelaxLoc |-> 0] /\ pc' = [pc EXCEPT ![Main] = "create"]
               \/ mem' = mem /\ pc' = [pc EXCEPT ![Main] = "exit"],
               UNCHANGED <<buf, reg>>
        PROVE  RelaxTyped'
    <3>1. MemOK(Two, RelaxLoc, Int)'
      BY <1>1, <2>3 DEF MemOK
    <3>2. DOMAIN pc' = Two /\ reg' \in [Two -> RelaxReg]
      BY <1>1, <2>3
    <3> QED BY <1>1, <3>1, <3>2 DEF RelaxTyped, Typed, rigid
  <2> QED BY <2>0, <2>1, <2>2, <2>3 DEF RelaxMain
<1>9. CASE t = 1
  <2>0. RelaxReader
    BY <1>9, TwoThreads DEF RelaxStep
  <2>1. ASSUME Read(1, "val", "val", "data", "clear") PROVE RelaxTyped'
    <3>1. PICK v \in Int : reg' = [reg EXCEPT ![1]["val"] = v]
      BY <1>1, <2>1, TypedLoad DEF Read
    <3>2. Go(1, "val", "clear") /\ Silent
      BY <2>1 DEF Read
    <3>3. reg' \in [Two -> RelaxReg]
      BY <1>1, <3>1 DEF RelaxReg
    <3> QED BY <1>4, <3>2, <3>3
  <2>2. ASSUME Write(1, "clear", "data_ready", 0, "check"), Keep PROVE RelaxTyped'
    BY <1>1, <1>3, <1>5, <2>2
  <2>3. ASSUME Go(1, "check", "loop"),
               IF reg[1].val = 0 THEN Put(1, "bug_detected", 1, FALSE) ELSE Silent,
               reg' = [reg EXCEPT ![1].i = @ + 1]
        PROVE  RelaxTyped'
    <3>1. reg' \in [Two -> RelaxReg]
      BY <1>6, <2>3
    <3>2. CASE Silent
      BY <1>4, <2>3, <3>1, <3>2
    <3>3. CASE Put(1, "bug_detected", 1, FALSE)
      <4>1. Write(1, "check", "bug_detected", 1, "loop")
        BY <2>3, <3>3 DEF Write
      <4> QED BY <1>1, <1>3, <3>1, <4>1
    <3> QED BY <2>3, <3>2, <3>3
  <2>4. ASSUME Await(1, "spin", env.test = 1 => Drained(1), "ready"), Keep PROVE RelaxTyped'
    BY <1>4, <1>5, <2>4 DEF Await
  <2>5. ASSUME NEW to, Local(1, "ready", to), Keep PROVE RelaxTyped'
    BY <1>4, <1>5, <2>5 DEF Local
  <2> QED BY <1>7, <2>0, <2>1, <2>2, <2>3, <2>4, <2>5 DEF RelaxReader, RelaxConsume
<1>10. CASE t = 2
  <2>0. RelaxWriter
    BY <1>10, TwoThreads DEF RelaxStep
  <2>1. ASSUME MutexLock(2, "lock", "lock_word", "data"), Keep PROVE RelaxTyped'
    <3>1. Go(2, "lock", "data") /\ SetMem("lock_word", 1)
      BY <2>1 DEF MutexLock
    <3> QED BY <1>1, <1>5, <2>1, <3>1, TypedSetMem DEF RelaxTyped
  <2>2. ASSUME Write(2, "data", "data", reg[2].i + 1, "ready"), Keep PROVE RelaxTyped'
    BY <1>1, <1>2, <1>3, <1>5, <2>2
  <2>3. ASSUME Write(2, "ready", "data_ready", 1, "unlock"), UNCHANGED reg PROVE RelaxTyped'
    BY <1>1, <1>3, <2>3
  <2>4. ASSUME WriteRel(2, "unlock", "lock_word", 0, "loop"),
               reg' = [reg EXCEPT ![2].i = @ + 1]
        PROVE  RelaxTyped'
    BY <1>1, <1>3, <1>6, <2>4
  <2> QED BY <1>7, <2>0, <2>1, <2>2, <2>3, <2>4 DEF RelaxWriter
<1> QED BY <1>8, <1>9, <1>10, TwoThreads

-----------------------------------------------------------------------------
(* The message passing of 9, 10, 20, 28 and 32 on all three memories.      *)
MpReg   == [f : Int, d : Int]
MpTyped == Typed(Duo, MpLoc, MpReg)

(* Both words start as 0.                                                  *)
LEMMA MpTypedInit == MpInit => MpTyped
<1> SUFFICES ASSUME MpInit PROVE MpTyped
  OBVIOUS
<1>1. /\ model \in {"SC", "TSO", "ARM"}
      /\ mem = [x \in MpLoc |-> 0]
      /\ buf = [t \in Duo |-> << >>]
      /\ DOMAIN pc = Duo
      /\ reg = [t \in Duo |-> [f |-> Unread, d |-> Unread]]
  BY DEF MpInit, Boot, Duo, MpLoc
<1>2. mem \in [MpLoc -> Int] /\ reg \in [Duo -> MpReg]
  BY <1>1 DEF MpReg, Unread
<1> QED BY <1>1, <1>2, TypedBoot DEF MpTyped

(* The joins of a writer and a reader.                                     *)
LEMMA TypedJoinBoth ==
  ASSUME NEW Loc, NEW Reg, Typed(Duo, Loc, Reg), UNCHANGED rigid, JoinBoth
  PROVE  Typed(Duo, Loc, Reg)'
<1>1. Go(Main, "join", "exit") /\ Silent /\ reg' = reg
  BY DEF JoinBoth, Await, Keep
<1>2. reg' \in [Duo -> Reg]
  BY <1>1 DEF Typed
<1> QED BY <1>1, <1>2, TypedGo

(* Every step of the five programs stores numbers.                         *)
LEMMA MpTypedStep ==
  ASSUME MpTyped, UNCHANGED rigid, NEW t \in Duo, MpStep(t)
  PROVE  MpTyped'
<1>1. /\ Typed(Duo, MpLoc, MpReg)
      /\ Main \in Duo /\ A \in Duo /\ B \in Duo
      /\ "data" \in MpLoc /\ "flag" \in MpLoc
      /\ 0 \in Int /\ 1 \in Int
      /\ reg \in [Duo -> MpReg] /\ DOMAIN pc = Duo
      /\ MemOK(Duo, MpLoc, Int) /\ MpLoc = {"data", "flag"}
  BY DuoFacts DEF MpTyped, MpLoc, Typed
<1>2. Load(A, "flag") + 1 \in Int
  BY <1>1, TypedLoad
<1>3. ASSUME MpMain PROVE MpTyped'
  <2>1. ASSUME pc' = [pc EXCEPT ![A] = "start", ![B] = "start"],
               mem' = [x \in {"data", "flag"} |-> 0],
               reg' = [reg EXCEPT ![B] = [f |-> Unread, d |-> Unread]], UNCHANGED buf
        PROVE  MpTyped'
    <3>1. MemOK(Duo, MpLoc, Int)'
      BY <1>1, <2>1 DEF MemOK
    <3>2. DOMAIN pc' = Duo /\ reg' \in [Duo -> MpReg]
      BY <1>1, <2>1 DEF MpReg, Unread
    <3> QED BY <1>1, <3>1, <3>2 DEF MpTyped, Typed, rigid
  <2>2. ASSUME JoinBoth PROVE MpTyped'
    BY <1>1, <2>2, TypedJoinBoth DEF MpTyped
  <2> QED BY <1>3, <2>1, <2>2 DEF MpMain
<1>4. ASSUME MpWriter PROVE MpTyped'
  <2>1. reg' \in [Duo -> MpReg]
    BY <1>1, <1>4 DEF MpWriter, Keep
  <2>2. \/ Write(A, "start", "data", 1, "flag")
        \/ WriteRel(A, "flag", "flag", 1, "done")
        \/ Write(A, "flag", "flag", Load(A, "flag") + 1, "done")
    BY <1>4 DEF MpWriter
  <2> QED BY <1>1, <1>2, <2>1, <2>2, TypedWrite DEF MpTyped
<1>5. ASSUME MpReader PROVE MpTyped'
  <2>1. ASSUME NEW r \in {"f", "d"}, NEW x \in MpLoc, Read(B, "start", r, x, "start")
        PROVE  MpTyped'
    <3>1. PICK v \in Int : reg' = [reg EXCEPT ![B][r] = v]
      BY <1>1, <2>1, TypedLoad DEF Read
    <3>2. Go(B, "start", "start") /\ Silent
      BY <2>1 DEF Read
    <3>3. reg' \in [Duo -> MpReg]
      BY <1>1, <3>1 DEF MpReg
    <3> QED BY <1>1, <3>2, <3>3, TypedGo DEF MpTyped
  <2>2. ASSUME Local(B, "start", "done"), Keep PROVE MpTyped'
    <3>1. Go(B, "start", "done") /\ Silent /\ reg' \in [Duo -> MpReg]
      BY <1>1, <2>2 DEF Local, Keep
    <3> QED BY <1>1, <3>1, TypedGo DEF MpTyped
  <2> QED BY <1>1, <1>5, <2>1, <2>2 DEF MpReader
<1> QED BY <1>3, <1>4, <1>5, DuoFacts DEF MpStep

-----------------------------------------------------------------------------
(* The store buffering of 18, 29 and 30 on all three memories.             *)
SbReg   == [seen : Int]
SbTyped == Typed(Duo, {A, B}, SbReg)

(* Both words start as 0.                                                  *)
LEMMA SbTypedInit == SbInit => SbTyped
<1> SUFFICES ASSUME SbInit PROVE SbTyped
  OBVIOUS
<1>1. /\ model \in {"SC", "TSO", "ARM"}
      /\ mem = [x \in {A, B} |-> 0]
      /\ buf = [t \in Duo |-> << >>]
      /\ DOMAIN pc = Duo
      /\ reg = [t \in Duo |-> [seen |-> 0]]
  BY DEF SbInit, Boot, Duo
<1>2. mem \in [{A, B} -> Int] /\ reg \in [Duo -> SbReg]
  BY <1>1 DEF SbReg
<1> QED BY <1>1, <1>2, TypedBoot DEF SbTyped

(* Every step of the three programs stores numbers.                        *)
LEMMA SbTypedStep ==
  ASSUME SbTyped, UNCHANGED rigid, NEW t \in Duo, SbStep(t)
  PROVE  SbTyped'
<1>1. /\ Typed(Duo, {A, B}, SbReg)
      /\ Main \in Duo /\ A \in Duo /\ B \in Duo /\ A = 1 /\ B = 2
      /\ 0 \in Int /\ 1 \in Int
      /\ reg \in [Duo -> SbReg] /\ DOMAIN pc = Duo
      /\ MemOK(Duo, {A, B}, Int)
  BY DuoFacts DEF SbTyped, Typed
<1>2. ASSUME SbMain PROVE SbTyped'
  <2>1. ASSUME pc' = [pc EXCEPT ![A] = "store", ![B] = "store"],
               mem' = [x \in {A, B} |-> 0], UNCHANGED <<buf, reg>>
        PROVE  SbTyped'
    <3>1. MemOK(Duo, {A, B}, Int)'
      BY <1>1, <2>1 DEF MemOK
    <3>2. DOMAIN pc' = Duo /\ reg' \in [Duo -> SbReg]
      BY <1>1, <2>1
    <3> QED BY <1>1, <3>1, <3>2 DEF SbTyped, Typed, rigid
  <2>2. ASSUME NEW to, Local(Main, "join", to), Keep PROVE SbTyped'
    <3>1. Go(Main, "join", to) /\ Silent /\ reg' \in [Duo -> SbReg]
      BY <1>1, <2>2 DEF Local, Keep
    <3> QED BY <1>1, <3>1, TypedGo DEF SbTyped
  <2> QED BY <1>2, <2>1, <2>2 DEF SbMain
<1>3. ASSUME t \in {A, B}, SbThread(t) PROVE SbTyped'
  <2>1. t \in {A, B} /\ Other(t) \in {A, B}
    BY <1>1, <1>3 DEF Other
  <2>2. ASSUME Write(t, "store", t, 1, "load") \/ WriteRel(t, "store", t, 1, "load"), Keep
        PROVE  SbTyped'
    <3>1. reg' \in [Duo -> SbReg]
      BY <1>1, <2>2 DEF Keep
    <3> QED BY <1>1, <2>1, <2>2, <3>1, TypedWrite DEF SbTyped
  <2>3. ASSUME Read(t, "load", "seen", Other(t), "done") PROVE SbTyped'
    <3>1. PICK v : v \in Int /\ reg' = [reg EXCEPT ![t]["seen"] = v]
      BY <1>1, <2>1, <2>3, TypedLoad DEF Read
    <3>2. Go(t, "load", "done") /\ Silent
      BY <2>3 DEF Read
    <3>3. reg' \in [Duo -> SbReg]
      BY <1>1, <3>1 DEF SbReg
    <3> QED BY <1>1, <3>2, <3>3, TypedGo DEF SbTyped
  <2> QED BY <1>3, <2>2, <2>3 DEF SbThread
<1> QED BY <1>2, <1>3, DuoFacts DEF SbStep

-----------------------------------------------------------------------------
(* 21-crossbeam.c, on ARM too.                                             *)
SeqReg   == [stamp : Int, val : Int, new : Int]
SeqTyped == Typed(Duo, SeqLoc, SeqReg)

(* State and value start as 0.                                             *)
LEMMA SeqTypedInit == SeqInit => SeqTyped
<1> SUFFICES ASSUME SeqInit PROVE SeqTyped
  OBVIOUS
<1>1. /\ model \in {"SC", "TSO", "ARM"}
      /\ mem = [x \in SeqLoc |-> 0]
      /\ buf = [t \in Duo |-> << >>]
      /\ DOMAIN pc = Duo
      /\ reg = [t \in Duo |-> [stamp |-> 0, val |-> Unread, new |-> Unread]]
  BY DEF SeqInit, Boot, Duo, SeqLoc
<1>2. mem \in [SeqLoc -> Int] /\ reg \in [Duo -> SeqReg]
  BY <1>1 DEF SeqReg, Unread
<1> QED BY <1>1, <1>2, TypedBoot DEF SeqTyped

(* Every step of 21-crossbeam.c stores numbers.                            *)
LEMMA SeqTypedStep ==
  ASSUME SeqTyped, UNCHANGED rigid, NEW t \in Duo, SeqStep(t)
  PROVE  SeqTyped'
<1>1. /\ Typed(Duo, SeqLoc, SeqReg)
      /\ Main \in Duo /\ A \in Duo /\ B \in Duo
      /\ "state" \in SeqLoc /\ "shared" \in SeqLoc
      /\ 0 \in Int /\ 1 \in Int
      /\ reg \in [Duo -> SeqReg]
  BY DuoFacts DEF SeqTyped, SeqLoc, Typed
<1>2. ASSUME JoinBoth PROVE SeqTyped'
  BY <1>1, <1>2, TypedJoinBoth DEF SeqTyped
<1>3. ASSUME SeqWriter PROVE SeqTyped'
  <2>1. reg' \in [Duo -> SeqReg]
    BY <1>1, <1>3 DEF SeqWriter, Keep
  <2>2. CASE Go(A, "write", "shared") /\ SetMem("state", 1)
    BY <1>1, <2>1, <2>2, TypedSetMem DEF SeqTyped
  <2>3. CASE Write(A, "shared", "shared", 1, "done")
    BY <1>1, <2>1, <2>3, TypedWrite DEF SeqTyped
  <2> QED BY <1>3, <2>2, <2>3 DEF SeqWriter
<1>4. ASSUME NEW r \in {"stamp", "val", "new"}, NEW x \in SeqLoc, NEW from, NEW to,
             Go(B, from, to), Silent, reg' = [reg EXCEPT ![B][r] = Load(B, x)]
      PROVE  SeqTyped'
  <2>1. PICK v : v \in Int /\ reg' = [reg EXCEPT ![B][r] = v]
    BY <1>1, <1>4, TypedLoad
  <2>2. reg' \in [Duo -> SeqReg]
    BY <1>1, <2>1 DEF SeqReg
  <2> QED BY <1>1, <1>4, <2>2, TypedGo DEF SeqTyped
<1>5. ASSUME SeqStamp PROVE SeqTyped'
  <2>1. PICK to : /\ Go(B, "stamp", to) /\ Silent
                  /\ reg' = [reg EXCEPT ![B]["stamp"] = Load(B, "state")]
    BY <1>5 DEF SeqStamp
  <2> QED BY <1>1, <1>4, <2>1
<1>6. ASSUME SeqRead PROVE SeqTyped'
  <2>1. PICK r, x, to : /\ r \in {"val", "new"} /\ x \in {"shared", "state"}
                        /\ Read(B, "read", r, x, to)
    BY <1>6 DEF SeqRead
  <2> QED BY <1>1, <1>4, <2>1 DEF Read
<1> QED BY <1>2, <1>3, <1>5, <1>6, DuoFacts DEF SeqStep

-----------------------------------------------------------------------------
(* 26-mysql-99556.c, on ARM too.                                           *)
ModeReg   == [i : Int, cur : Int, cachedMode : Int, cachedCounter : Int]
ModeTyped == Typed(Duo, ModeLoc, ModeReg)

(* The first update is about to be made.                                   *)
LEMMA ModeTypedInit == ModeInit => ModeTyped
<1> SUFFICES ASSUME ModeInit PROVE ModeTyped
  OBVIOUS
<1>1. /\ model \in {"SC", "TSO", "ARM"}
      /\ mem = [x \in ModeLoc |-> IF x = "running" THEN 1 ELSE 0]
      /\ buf = [t \in Duo |-> << >>]
      /\ DOMAIN pc = Duo
      /\ reg = [t \in Duo |-> [i |-> 1, cur |-> -1, cachedMode |-> -1, cachedCounter |-> -1]]
  BY DEF ModeInit, Boot, Duo, ModeLoc
<1>2. mem \in [ModeLoc -> Int] /\ reg \in [Duo -> ModeReg]
  BY <1>1 DEF ModeReg
<1> QED BY <1>1, <1>2, TypedBoot DEF ModeTyped

(* Every step of 26-mysql-99556.c stores numbers.                          *)
LEMMA ModeTypedStep ==
  ASSUME ModeTyped, UNCHANGED rigid, NEW t \in Duo, ModeStep(t)
  PROVE  ModeTyped'
<1>1. /\ Typed(Duo, ModeLoc, ModeReg)
      /\ Main \in Duo /\ A \in Duo /\ B \in Duo
      /\ "mode" \in ModeLoc /\ "counter" \in ModeLoc /\ "running" \in ModeLoc
      /\ 0 \in Int /\ 1 \in Int
      /\ reg \in [Duo -> ModeReg]
      /\ mem \in [ModeLoc -> Int]
  BY DuoFacts DEF ModeTyped, ModeLoc, Typed, MemOK
<1>2. /\ reg[A].i \in Int /\ reg[B].cur \in Int /\ mem["counter"] + 1 \in Int
      /\ Load(B, "counter") \in Int /\ Load(B, "mode") \in Int
  BY <1>1, TypedLoad DEF ModeReg
<1>3. ASSUME NEW u, NEW from, NEW to, Go(u, from, to), Silent, reg' \in [Duo -> ModeReg]
      PROVE  ModeTyped'
  BY <1>1, <1>3, TypedGo DEF ModeTyped
<1>4. ASSUME Keep PROVE reg' \in [Duo -> ModeReg]
  BY <1>1, <1>4 DEF Keep
<1>5. ASSUME NEW r \in {"cur", "cachedMode", "cachedCounter"}, NEW v \in Int,
             reg' = [reg EXCEPT ![B][r] = v]
      PROVE  reg' \in [Duo -> ModeReg]
  BY <1>1, <1>5 DEF ModeReg
<1>6. ASSUME JoinBoth PROVE ModeTyped'
  BY <1>1, <1>6, TypedJoinBoth DEF ModeTyped
<1>7. ASSUME ModeWriter PROVE ModeTyped'
  <2>1. ASSUME NEW x \in ModeLoc, NEW v \in Int, NEW from, NEW to, Keep,
               Write(A, from, x, v, to)
        PROVE  ModeTyped'
    BY <1>1, <1>4, <2>1, TypedWrite DEF ModeTyped
  <2>2. ASSUME Local(A, "update", "stop"), Keep PROVE ModeTyped'
    BY <1>3, <1>4, <2>2 DEF Local
  <2>3. ASSUME Go(A, "count", "update"), SetMem("counter", mem["counter"] + 1),
               reg' = [reg EXCEPT ![A].i = @ + 1]
        PROVE  ModeTyped'
    <3>1. reg' \in [Duo -> ModeReg]
      BY <1>1, <1>2, <2>3 DEF ModeReg
    <3> QED BY <1>1, <1>2, <2>3, <3>1, TypedSetMem DEF ModeTyped
  <2> QED BY <1>1, <1>2, <1>7, <2>1, <2>2, <2>3 DEF ModeWriter
<1>8. ASSUME ModeReader PROVE ModeTyped'
  <2>1. ASSUME NEW to, Local(B, "test", to), Keep PROVE ModeTyped'
    BY <1>3, <1>4, <2>1 DEF Local
  <2>2. ASSUME NEW r \in {"cur", "cachedMode", "cachedCounter"}, NEW v \in Int,
               NEW from, NEW to, Go(B, from, to), Silent, reg' = [reg EXCEPT ![B][r] = v]
        PROVE  ModeTyped'
    BY <1>3, <1>5, <2>2
  <2>3. \/ \E to : Local(B, "test", to) /\ Keep
        \/ \E to : Go(B, "load", to) /\ Silent /\ reg' = [reg EXCEPT ![B]["cur"] = Load(B, "counter")]
        \/ /\ Go(B, "cache", "mark") /\ Silent
           /\ reg' = [reg EXCEPT ![B]["cachedMode"] = Load(B, "mode")]
        \/ /\ Go(B, "mark", "test") /\ Silent
           /\ reg' = [reg EXCEPT ![B]["cachedCounter"] = reg[B].cur]
    BY <1>8, Zenon DEF ModeReader, Local, Read
  <2> QED BY <1>2, <2>1, <2>2, <2>3
<1> QED BY <1>6, <1>7, <1>8, DuoFacts DEF ModeStep

-----------------------------------------------------------------------------
(* The programs together.  Of those that are not in NativeTypes the        *)
(* invariants above give the types, of 16 but for its threads.             *)
RingTyped == DOMAIN pc = Duo /\ DOMAIN reg = Duo

NativePrograms ==
  QueueLockPrograms \cup SharedLockPrograms \cup PublicationPrograms \cup WakeUpPrograms
    \cup {"arena"}

NativeTypes ==
  /\ program \in NativePrograms
  /\ program = "link"       => LinkTyped
  /\ program = "ompi"       => OmpiTyped
  /\ program = "jdk"        => JdkTyped
  /\ program = "relax"      => RelaxTyped
  /\ program \in MpPrograms => MpTyped
  /\ program \in SbPrograms => SbTyped
  /\ program = "seqlock"    => SeqTyped
  /\ program = "mode"       => ModeTyped
  /\ program = "ring"       => RingTyped

(* Every program starts with numbers in its words.                         *)
LEMMA NativeTypesInit == Init => NativeTypes
<1> SUFFICES ASSUME Init PROVE NativeTypes
  OBVIOUS
<1>1. /\ program = "link"       => LinkInit
      /\ program = "ompi"       => OmpiInit
      /\ program = "jdk"        => JdkInit
      /\ program = "relax"      => RelaxInit
      /\ program \in MpPrograms => MpInit
      /\ program \in SbPrograms => SbInit
      /\ program = "seqlock"    => SeqInit
      /\ program = "mode"       => ModeInit
      /\ program = "ring"       => RingInit
  BY Zenon DEF Init, QueueLockInit, SharedLockInit, PublicationInit, WakeUpInit, ArenaInit,
     ClhInit, QspinInit, LinkInit, RwInit, EventInit, XenInit, BuffersInit,
     MpInit, SbInit, PackageInit, RingInit, SeqInit, ModeInit, PointsInit,
     MpPrograms, SbPrograms, OmpiInit, JdkInit, RelaxInit, LifoInit, Boot
<1>2. program \in NativePrograms
  BY Zenon DEF Init, QueueLockInit, SharedLockInit, PublicationInit, WakeUpInit, ArenaInit,
     ClhInit, QspinInit, LinkInit, RwInit, EventInit, XenInit, BuffersInit,
     MpInit, SbInit, PackageInit, RingInit, SeqInit, ModeInit, PointsInit,
     OmpiInit, JdkInit, RelaxInit, LifoInit, Boot,
     NativePrograms, QueueLockPrograms, SharedLockPrograms, PublicationPrograms, WakeUpPrograms
<1>3. program = "ring" => RingTyped
  BY <1>1 DEF RingInit, Boot, RingTyped
<1> QED BY <1>1, <1>2, <1>3, LinkTypedInit, OmpiTypedInit, JdkTypedInit, RelaxTypedInit,
        MpTypedInit, SbTypedInit, SeqTypedInit, ModeTypedInit DEF NativeTypes

(* The program that runs and the statements of a step of it.               *)
LEMMA NativeStep ==
  ASSUME NEW t, Step(t)
  PROVE  /\ t \in DOMAIN pc /\ UNCHANGED rigid
         /\ program = "link"       => LinkStep(t)
         /\ program = "ompi"       => OmpiStep(t)
         /\ program = "jdk"        => JdkStep(t)
         /\ program = "relax"      => RelaxStep(t)
         /\ program \in MpPrograms => MpStep(t)
         /\ program \in SbPrograms => SbStep(t)
         /\ program = "seqlock"    => SeqStep(t)
         /\ program = "mode"       => ModeStep(t)
         /\ program = "ring"       => RingStep(t)
  BY Zenon DEF Step, QueueLockStep, SharedLockStep, PublicationStep,
     MpPrograms, SbPrograms, WakeUpStep

(* What a program does between two of its threads' steps.                  *)
LEMMA TypedRest ==
  ASSUME NEW T, NEW Loc, NEW Reg, Typed(T, Loc, Reg),
         \/ \E t \in Thread : FlushStep(t)
         \/ UNCHANGED vars
  PROVE  Typed(T, Loc, Reg)'
<1>1. ASSUME NEW t \in Thread, FlushStep(t) PROVE Typed(T, Loc, Reg)'
  <2>1. /\ t \in T /\ UNCHANGED <<rigid, pc, reg>>
        /\ \E x \in DOMAIN mem : Commit(t, x)
    BY <1>1 DEF FlushStep, Flush, Typed
  <2> QED BY <2>1, TypedFlush
<1>2. CASE UNCHANGED vars
  BY <1>2 DEF vars, Typed, MemOK
<1> QED BY <1>1, <1>2

(* The threads of 16-includeos.c have no locals to change.                 *)
LEMMA RingTypedStep ==
  ASSUME RingTyped, NEW t \in Duo, RingStep(t)
  PROVE  RingTyped'
<1>1. JoinBoth \/ RingProduce \/ RingConsume
  BY DuoFacts DEF RingStep
<1>2. /\ reg' = reg
      /\ \E u, from, to : Go(u, from, to)
  BY <1>1 DEF JoinBoth, RingProduce, RingConsume, Keep, Await, Local, Write
<1> QED BY <1>2 DEF Go, RingTyped

(* The threads of each of these programs.                                  *)
LEMMA NativeThreads ==
  ASSUME NativeTypes
  PROVE  /\ program = "link" => DOMAIN pc = LinkThread
         /\ program \in {"ompi", "jdk", "relax"} => DOMAIN pc = Two
         /\ program \in MpPrograms \cup SbPrograms \cup {"seqlock", "mode", "ring"} =>
              DOMAIN pc = Duo
  BY DEF NativeTypes, Typed, LinkTyped, OmpiTyped, JdkTyped, RelaxTyped, MpTyped, SbTyped,
     SeqTyped, ModeTyped, RingTyped

(* Every step of Native stores numbers, whatever program runs.             *)
LEMMA NativeTypesNext == NativeTypes /\ [Next]_vars => NativeTypes'
<1> SUFFICES ASSUME NativeTypes, [Next]_vars PROVE NativeTypes'
  OBVIOUS
<1>1. program' = program
  BY DEF Next, Step, FlushStep, rigid, vars
<1>2. ASSUME NEW t, Step(t) PROVE NativeTypes'
  <2>1. t \in DOMAIN pc /\ UNCHANGED rigid
    BY <1>2, NativeStep
  <2>2. program = "link" => LinkTyped'
    BY <1>2, <2>1, NativeStep, NativeThreads, LinkTypedStep DEF NativeTypes
  <2>3. program = "ompi" => OmpiTyped'
    BY <1>2, <2>1, NativeStep, NativeThreads, OmpiTypedStep DEF NativeTypes
  <2>4. program = "jdk" => JdkTyped'
    BY <1>2, <2>1, NativeStep, NativeThreads, JdkTypedStep DEF NativeTypes
  <2>5. program = "relax" => RelaxTyped'
    BY <1>2, <2>1, NativeStep, NativeThreads, RelaxTypedStep DEF NativeTypes
  <2>6. program \in MpPrograms => MpTyped'
    BY <1>2, <2>1, NativeStep, NativeThreads, MpTypedStep DEF NativeTypes
  <2>7. program \in SbPrograms => SbTyped'
    BY <1>2, <2>1, NativeStep, NativeThreads, SbTypedStep DEF NativeTypes
  <2>8. program = "seqlock" => SeqTyped'
    BY <1>2, <2>1, NativeStep, NativeThreads, SeqTypedStep DEF NativeTypes
  <2>9. program = "mode" => ModeTyped'
    BY <1>2, <2>1, NativeStep, NativeThreads, ModeTypedStep DEF NativeTypes
  <2>10. program = "ring" => RingTyped'
    BY <1>2, <2>1, NativeStep, NativeThreads, RingTypedStep DEF NativeTypes
  <2> QED BY <1>1, <2>2, <2>3, <2>4, <2>5, <2>6, <2>7, <2>8, <2>9, <2>10 DEF NativeTypes
<1>3. ASSUME \/ \E t \in Thread : FlushStep(t)
             \/ UNCHANGED vars
      PROVE  NativeTypes'
  <2>1. program = "ring" => RingTyped'
    BY <1>3 DEF NativeTypes, RingTyped, FlushStep, Flush, vars
  <2>2. /\ program = "link"       => LinkTyped'
        /\ program = "ompi"       => OmpiTyped'
        /\ program = "jdk"        => JdkTyped'
        /\ program = "relax"      => RelaxTyped'
    BY <1>3, TypedRest DEF NativeTypes, LinkTyped, OmpiTyped, JdkTyped, RelaxTyped
  <2>3. /\ program \in MpPrograms => MpTyped'
        /\ program \in SbPrograms => SbTyped'
        /\ program = "seqlock"    => SeqTyped'
        /\ program = "mode"       => ModeTyped'
    BY <1>3, TypedRest DEF NativeTypes, MpTyped, SbTyped, SeqTyped, ModeTyped
  <2> QED BY <1>1, <2>1, <2>2, <2>3 DEF NativeTypes
<1> QED BY <1>2, <1>3 DEF Next

-----------------------------------------------------------------------------
(* The words of a program, whichever of the invariants tells their types.  *)
LEMMA TypedMachine ==
  ASSUME NEW T, NEW Loc, NEW Reg, Typed(T, Loc, Reg)
  PROVE  MachineTypeOK
<1>1. Int \in SUBSET Int
  OBVIOUS
<1> QED BY <1>1, MachineTyped DEF Typed

(* The invariants of the locks give the types of their programs.           *)
LEMMA LocksTyped ==
  /\ QueuesOnly /\ program \in {"clh", "qspin"} => MachineTypeOK
  /\ RwSafe /\ program = "rwlock" => MachineTypeOK
  /\ SharedInv /\ program \in {"event", "xen", "buffers"} => MachineTypeOK
<1>1. ClhVal \in SUBSET Int /\ QspinVal \in SUBSET Int
  <2>1. NULL \in Int /\ Cardinality(Contender) + 1 \in Nat /\ Contender \subseteq Int
    BY ContenderAssumption, FS_CardinalityType DEF NULL
  <2> QED BY <2>1 DEF ClhVal, ClhNode, QspinVal
<1>2. ASSUME QueuesOnly, program = "clh" PROVE MachineTypeOK
  <2>1. ClhTypes
    BY <1>2 DEF QueuesOnly, ClhInv
  <2>2. /\ MemOK(Locker, ClhLoc, ClhVal) /\ model \in {"SC", "TSO", "ARM"}
        /\ DOMAIN pc = Locker /\ DOMAIN reg = Locker
    BY <2>1 DEF ClhTypes, Weak
  <2> QED BY <1>1, <2>2, MachineTyped
<1>3. ASSUME QueuesOnly, program = "qspin" PROVE MachineTypeOK
  <2>1. QspinTypes
    BY <1>3 DEF QueuesOnly, QspinInv
  <2>2. /\ MemOK(Locker, QspinLoc, QspinVal) /\ model \in {"SC", "TSO", "ARM"}
        /\ DOMAIN pc = Locker /\ DOMAIN reg = Locker
    BY <2>1 DEF QspinTypes, Weak
  <2> QED BY <1>1, <2>2, MachineTyped
<1>4. ASSUME RwSafe, program = "rwlock" PROVE MachineTypeOK
  <2>1. RwTypes
    BY <1>4 DEF RwSafe, RwInv
  <2>2. /\ MemOK(All, RwLoc, Int) /\ model \in {"SC", "TSO", "ARM"}
        /\ DOMAIN pc = All /\ DOMAIN reg = All /\ Int \in SUBSET Int
    BY <2>1 DEF RwTypes, Weak
  <2> QED BY <2>2, MachineTyped
<1>5. ASSUME SharedInv, program = "event" PROVE MachineTypeOK
  <2>1. EventTypes
    BY <1>5 DEF SharedInv, EventInv
  <2>2. /\ MemOK(All, EventLoc, {0, 1}) /\ model \in {"SC", "TSO", "ARM"}
        /\ DOMAIN pc = All /\ DOMAIN reg = All /\ {0, 1} \in SUBSET Int
    BY <2>1 DEF EventTypes, Weak
  <2> QED BY <2>2, MachineTyped
<1>6. ASSUME SharedInv, program = "xen" PROVE MachineTypeOK
  <2>1. XenTypes
    BY <1>6 DEF SharedInv, XenInv
  <2>2. /\ MemOK(XenThread, XenLoc, {0, _QW_LOCKED}) /\ model \in {"SC", "TSO", "ARM"}
        /\ DOMAIN pc = XenThread /\ DOMAIN reg = XenThread
    BY <2>1 DEF XenTypes, Weak
  <2>3. {0, _QW_LOCKED} \in SUBSET Int
    BY XenLocked
  <2> QED BY <2>2, <2>3, MachineTyped
<1>7. ASSUME SharedInv, program = "buffers" PROVE MachineTypeOK
  <2>1. BuffersTypes
    BY <1>7 DEF SharedInv, BuffersInv
  <2>2. /\ MemOK(All, Position, {0, 1}) /\ model \in {"SC", "TSO", "ARM"}
        /\ DOMAIN pc = All /\ DOMAIN reg = All /\ {0, 1} \in SUBSET Int
    BY <2>1 DEF BuffersTypes, Weak
  <2> QED BY <2>2, MachineTyped
<1> QED BY <1>2, <1>3, <1>4, <1>5, <1>6, <1>7

(* So do those of 12, 16, 5, 31 and 15 of theirs.                          *)
LEMMA PublicationsTyped ==
  /\ PublicationInv /\ program \in {"package", "points", "arena"} => MachineTypeOK
  /\ PublicationInv /\ RingTyped /\ program = "ring" => MachineTypeOK
  /\ LifoOnly /\ program = "lifo" => MachineTypeOK
<1>1. Nat \in SUBSET Int /\ 0..3 \in SUBSET Int
  OBVIOUS
<1>2. ASSUME PublicationInv, program = "package" PROVE MachineTypeOK
  <2>1. PackageTypes
    BY <1>2 DEF PublicationInv, PackageInv
  <2>2. /\ MemOK(PackageThread, PackageLoc, Nat) /\ model \in {"SC", "TSO", "ARM"}
        /\ DOMAIN pc = PackageThread /\ DOMAIN reg = PackageThread
    BY <2>1 DEF PackageTypes, Weak
  <2> QED BY <1>1, <2>2, MachineTyped
<1>3. ASSUME PublicationInv, program = "points" PROVE MachineTypeOK
  <2>1. PointsTypes
    BY <1>3 DEF PublicationInv, PointsInv
  <2>2. /\ MemOK(Duo, PointsLoc, Nat) /\ model \in {"SC", "TSO", "ARM"}
        /\ DOMAIN pc = Duo /\ DOMAIN reg = Duo
    BY <2>1 DEF PointsTypes
  <2> QED BY <1>1, <2>2, MachineTyped
<1>4. ASSUME PublicationInv, program = "arena" PROVE MachineTypeOK
  <2>1. ArenaTypes
    BY <1>4 DEF PublicationInv, ArenaInv
  <2>2. /\ MemOK(ArenaThread, ArenaLoc, Nat) /\ model \in {"SC", "TSO", "ARM"}
        /\ DOMAIN pc = ArenaThread /\ DOMAIN reg = ArenaThread
    BY <2>1 DEF ArenaTypes
  <2> QED BY <1>1, <2>2, MachineTyped
<1>5. ASSUME PublicationInv, RingTyped, program = "ring" PROVE MachineTypeOK
  <2>1. RingTypes
    BY <1>5 DEF PublicationInv, RingInv
  <2>2. /\ MemOK(Duo, RingLoc, Nat) /\ model \in {"SC", "TSO", "ARM"}
        /\ DOMAIN pc = Duo /\ DOMAIN reg = Duo
    BY <1>5, <2>1 DEF RingTypes, RingTyped, Weak
  <2> QED BY <1>1, <2>2, MachineTyped
<1>6. ASSUME LifoOnly, program = "lifo" PROVE MachineTypeOK
  <2>1. LifoTypes
    BY <1>6 DEF LifoOnly, LifoInv
  <2>2. /\ MemOK(Two, LifoLoc, 0..3) /\ model \in {"SC", "TSO", "ARM"}
        /\ DOMAIN pc = Two /\ DOMAIN reg = Two
    BY <2>1 DEF LifoTypes, Weak
  <2> QED BY <1>1, <2>2, MachineTyped
<1> QED BY <1>2, <1>3, <1>4, <1>5, <1>6

(* Every native program of Layer1, on every memory it is given and for     *)
(* every bound of the model: whatever its threads and their buffers do,    *)
(* its stores are numbers to words it began with, in memory and in the     *)
(* buffers, and no thread appears or disappears.                           *)
THEOREM WellTyped == Spec => []TypeOK
<1>1. ASSUME NativeTypes,
             program \in {"link", "ompi", "jdk", "relax", "seqlock", "mode"}
                           \cup MpPrograms \cup SbPrograms
      PROVE  MachineTypeOK
  BY <1>1, TypedMachine DEF NativeTypes, LinkTyped, OmpiTyped, JdkTyped, RelaxTyped, MpTyped,
     SbTyped, SeqTyped, ModeTyped
<1>2. NativeTypes /\ QueuesOnly /\ RwSafe /\ SharedInv /\ PublicationInv /\ LifoOnly
      => TypeOK
  <2> SUFFICES ASSUME NativeTypes, QueuesOnly, RwSafe, SharedInv, PublicationInv, LifoOnly
               PROVE  TypeOK
    OBVIOUS
  <2>1. program \in NativePrograms
    BY DEF NativeTypes
  <2>2. \/ program \in {"link", "ompi", "jdk", "relax", "seqlock", "mode"}
                         \cup MpPrograms \cup SbPrograms
        \/ program \in {"clh", "qspin"} \/ program = "rwlock"
        \/ program \in {"event", "xen", "buffers"}
        \/ program \in {"package", "points", "arena"} \/ program = "ring" \/ program = "lifo"
    BY <2>1, Zenon DEF NativePrograms, QueueLockPrograms, SharedLockPrograms, PublicationPrograms,
       WakeUpPrograms
  <2>3. program = "ring" => RingTyped
    BY DEF NativeTypes
  <2>4. MachineTypeOK
    BY <1>1, <2>2, <2>3, LocksTyped, PublicationsTyped
  <2> QED BY <2>1, <2>4 DEF TypeOK, NativePrograms
<1>3. Init => NativeTypes /\ QueuesOnly /\ RwSafe /\ SharedInv /\ PublicationInv /\ LifoOnly
  BY NativeTypesInit, QueuesInit, RwSafeInit, SharedInit, PublicationsInit, LifoOnlyInit
<1>4. QueuesOnly /\ [Next]_vars => QueuesOnly'
  BY QueuesNext
<1> QED BY <1>2, <1>3, <1>4, NativeTypesNext, RwSafeNext, SharedNext, PublicationsNext,
        LifoOnlyNext, PTL DEF Spec
=============================================================================
