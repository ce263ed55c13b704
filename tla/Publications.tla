---------------------------- MODULE Publications ----------------------------
(***************************************************************************)
(* Programs in which one thread publishes what another one reads:          *)
(*   "race" 32-datarace.cpp, "barrier" 20-barrier.cpp, "pso" 28-pso_test.c *)
(*   "ceph" 10-ceph.c, "evtchn" 9-CVE-2020-25603-Xen.c                     *)
(*              data, then a flag; the reader wants both                   *)
(*   "sb" 18-JDK-8179954.c, "tso" 30-tso_test.c, "sofa" 29-sofa_pbrpc_hang *)
(*              each thread raises its flag and looks at the other's       *)
(*   "package"  12-DragonWell8Easy.cpp: double-checked creation            *)
(*   "ring"     16-includeos.c: a ring of descriptors and two counters     *)
(*   "seqlock"  21-crossbeam.c: an optimistic read                         *)
(*   "mode"     26-mysql-99556.c: a value cached under a counter           *)
(*   "points"   5-StackOverFlowEasy.c: a pointer loaded twice              *)
(***************************************************************************)
EXTENDS Machine

CONSTANTS
  Rounds,      \* bound: the tests that repeat themselves do so this often
  Requester,   \* the threads that ask for the package table; two in 12
  NumDesc,     \* VMXNET3_NUM_RX_DESC, 512 in 16
  Fill,        \* VMXNET3_RX_FILL, 2 in 16
  Updates,     \* updates of the mode; 5 in 26
  NumPoints    \* bound: the points that 5 allocates

ASSUME PublicationAssumption ==
  /\ Requester \subseteq Nat \ {0}
  /\ {NumDesc, Fill, Updates, NumPoints, Rounds} \subseteq Nat \ {0}

A == 1    \* the writer, or the first of two equal threads
B == 2    \* the reader, or the second
Duo == {Main, A, B}


JoinBoth == Await(Main, "join", Joinable({A, B}), "exit") /\ Keep

-----------------------------------------------------------------------------
(* Message passing.  The words are called                                  *)
(*      here  32, 20   28   10               9                             *)
(*      data  data     x    lock.locked_by   d->evtchn                     *)
(*      flag  flag     y    lock.nlock       d->valid_evtchns - 5          *)
(* where data is 0 until it is stored (-1 in 9), and 28 makes a round of   *)
(* it as long as it detects nothing.                                       *)

MpPrograms == {"race", "barrier", "pso", "ceph", "evtchn"}

MpInit ==
  \E p \in MpPrograms :
    Boot(p, {"SC", "TSO", "ARM"},
         [x \in {"data", "flag"} |-> 0],
         [t \in Duo |-> IF t = Main THEN "join" ELSE "start"],
         [t \in Duo |-> [f |-> Unread, d |-> Unread]],
         [round |-> 1, dataFirst |-> FALSE])

(* Faulty variant: the flag is written first.                              *)
MpWriterSwapped ==
  \/ Write(A, "start", "flag", Load(A, "flag") + 1, "flag") /\ Keep
  \/ Write(A, "flag", "data", 1, "done") /\ Keep

(* The flag is a release in 20 only, a counter in 9 and 10.                *)
MpWriter ==
  \/ Write(A, "start", "data", 1, "flag") /\ Keep
  \/ /\ IF program = "barrier" THEN WriteRel(A, "flag", "flag", 1, "done")
        ELSE Write(A, "flag", "flag", Load(A, "flag") + 1, "done")
     /\ Keep

(* The flag and the data.  20 and 32 want the data only if the flag is     *)
(* set, which changes nothing; a processor that reorders loads may load    *)
(* the data before it knows.                                               *)
MpReader ==
  \/ /\ reg[B].f = Unread
     /\ Read(B, "start", "f", "flag", "start")
     /\ UNCHANGED env
  \/ /\ reg[B].d = Unread
     /\ LoadsReorder \/ reg[B].f # Unread
     /\ Read(B, "start", "d", "data", "start")
     /\ env' = [env EXCEPT !.dataFirst = reg[B].f = Unread]
  \/ reg[B].f # Unread /\ reg[B].d # Unread /\ Local(B, "start", "done") /\ Keep

MpDetected == reg[B].f = 1 /\ reg[B].d = 0

MpMain ==
  IF program = "pso" /\ ~ MpDetected /\ env.round < Rounds
  THEN /\ pc[Main] = "join"
       /\ Joinable({A, B})
       /\ pc' = [pc EXCEPT ![A] = "start", ![B] = "start"]
       /\ mem' = [x \in {"data", "flag"} |-> 0]
       /\ reg' = [reg EXCEPT ![B] = [f |-> Unread, d |-> Unread]]
       /\ env' = [round |-> env.round + 1, dataFirst |-> FALSE]
       /\ UNCHANGED buf
  ELSE JoinBoth

MpStep(t) == CASE t = Main -> MpMain [] t = A -> MpWriter [] t = B -> MpReader

-----------------------------------------------------------------------------
(* Store buffering.  Each thread raises its word and loads the other's:    *)
(*      18, 30   x and y                                                   *)
(*      29       pending_message_count and ~ send_token, release stores;   *)
(*               who sees the other's raised does the work                 *)
(* 29 repeats itself until the work is left undone, then calls exit(1); 30 *)
(* makes 1000 rounds, and stops when it detects the reordering.            *)

SbPrograms == {"sb", "tso", "sofa"}

SbInit ==
  \E p \in SbPrograms :
    Boot(p, {"SC", "TSO", "ARM"},
         [t \in {A, B} |-> 0],
         [t \in Duo |-> IF t = Main THEN "join" ELSE "store"],
         [t \in Duo |-> [seen |-> 0]],
         [round |-> 1])

Other(t) == 3 - t

(* Faulty variant: the load comes first.                                   *)
SbThreadSwapped(t) ==
  \/ Read(t, "store", "seen", Other(t), "load") /\ UNCHANGED env
  \/ Write(t, "load", t, 1, "done") /\ Keep

SbThread(t) ==
  \/ /\ IF program = "sofa" THEN WriteRel(t, "store", t, 1, "load")
                            ELSE Write(t, "store", t, 1, "load")
     /\ Keep
  \/ Read(t, "load", "seen", Other(t), "done") /\ UNCHANGED env

SbMissed == reg[A].seen = 0 /\ reg[B].seen = 0

SbMain ==
  /\ pc[Main] = "join"
  /\ Joinable({A, B})
  /\ IF program # "sb" /\ ~ SbMissed /\ env.round < Rounds
     THEN /\ pc' = [pc EXCEPT ![A] = "store", ![B] = "store"]
          /\ mem' = [t \in {A, B} |-> 0]
          /\ env' = [round |-> env.round + 1]
          /\ UNCHANGED <<buf, reg>>
     ELSE /\ Local(Main, "join", IF program = "sofa" /\ SbMissed THEN "abort" ELSE "exit")
          /\ Keep

SbStep(t) == IF t = Main THEN SbMain ELSE SbThread(t)

-----------------------------------------------------------------------------
(* "package".  A table is named by the thread that creates it, and the ten *)
(* buckets that its constructor clears are one word, 1 when they are clear *)

table    == <<"globalPackageTable">>
tblLock  == <<"globalTableLock">>
built(n) == <<"buckets", n>>

PackageInit ==
  Boot("package", {"TSO", "ARM"},
       [x \in {table, tblLock} \cup {built(n) : n \in Requester} |-> 0],
       [t \in Requester \cup {Main} |-> IF t = Main THEN "join" ELSE "look"],
       [t \in Requester \cup {Main} |-> [result |-> NULL]],
       [created |-> 0])

(* Faulty variant: the table is not looked for again under the lock.       *)
PackageRecheckMissing(t) == Local(t, "recheck", "build") /\ Keep

PackageRecheck(t) ==
  Local(t, "recheck", IF Load(t, table) = NULL THEN "build" ELSE "unlock") /\ Keep

(* getOrCreatePackageEntryTable                                            *)
PackageLook(t) == Local(t, "look", IF Load(t, table) = NULL THEN "lock" ELSE "return") /\ Keep
PackageLock(t) == MutexLock(t, "lock", tblLock, "recheck") /\ Keep
PackageBuild(t) ==
  \/ /\ Write(t, "build", built(t), 1, "publish")
     /\ env' = [env EXCEPT !.created = @ + 1]
     /\ UNCHANGED reg
  \/ Write(t, "publish", table, t, "unlock") /\ Keep
PackageUnlock(t) == MutexUnlock(t, "unlock", tblLock, "return") /\ Keep
PackageReturn(t) == Read(t, "return", "result", table, "done") /\ UNCHANGED env

PackageStep(t) ==
  IF t = Main THEN Await(Main, "join", Joinable(Requester), "exit") /\ Keep
  ELSE \/ PackageLook(t) \/ PackageLock(t) \/ PackageRecheck(t) \/ PackageBuild(t)
       \/ PackageUnlock(t) \/ PackageReturn(t)

-----------------------------------------------------------------------------
(* "ring".  A descriptor is one word, 1 once address and length are there. *)

product  == <<"product_count">>
consumed == <<"consumed_count">>
desc(i)  == <<"descriptors", i>>

(* Faulty variant: no remainder.                                           *)
SlotUnbounded(n) == n

(* The descriptor of packet n.                                             *)
Slot(n) == n % NumDesc

RingInit ==
  Boot("ring", {"TSO", "ARM"},
       [x \in {product, consumed} \cup {desc(i) : i \in 0..(NumDesc - 1)} |-> 0],
       [t \in Duo |-> IF t = Main THEN "join" ELSE "test"],
       [t \in Duo |-> << >>],
       << >>)

(* receive_handler: address and length, then product_count.                *)
RingProduce ==
  \/ Local(A, "test", IF Load(A, product) < Fill THEN "fill" ELSE "done") /\ Keep
  \/ Write(A, "fill", desc(Slot(Load(A, product))), 1, "count") /\ Keep
  \/ Write(A, "count", product, Load(A, product) + 1, "test") /\ Keep

(* Faulty variant: the test of the consumer admits equality.               *)
RingConsumeEqual ==
  \/ Local(B, "test", IF Load(B, consumed) <= Load(B, product) THEN "refill" ELSE "done") /\ Keep
  \/ Write(B, "refill", desc(Slot(Load(B, consumed))), 1, "count") /\ Keep
  \/ Write(B, "count", consumed, Load(B, consumed) + 1, "test") /\ Keep

(* refill writes the same values, and ends when it has caught up.          *)
RingConsume ==
  \/ Local(B, "test", IF Load(B, consumed) < Load(B, product) THEN "refill" ELSE "done") /\ Keep
  \/ Write(B, "refill", desc(Slot(Load(B, consumed))), 1, "count") /\ Keep
  \/ Write(B, "count", consumed, Load(B, consumed) + 1, "test") /\ Keep

RingStep(t) == CASE t = Main -> JoinBoth [] t = A -> RingProduce [] t = B -> RingConsume

-----------------------------------------------------------------------------
(* "seqlock".  The relaxed loads of the reader may be made in either order *)
(* on ARM, the first one is an acquire.                                    *)

SeqInit ==
  Boot("seqlock", {"TSO", "ARM"},
       [x \in {"state", "shared"} |-> 0],
       [t \in Duo |-> IF t = Main THEN "join" ELSE IF t = A THEN "write" ELSE "stamp"],
       [t \in Duo |-> [stamp |-> 0, val |-> Unread, new |-> Unread]],
       << >>)

SeqWriter ==
  \/ Go(A, "write", "shared") /\ CanRMW(A, "state") /\ SetMem("state", 1) /\ Keep
  \/ Write(A, "shared", "shared", 1, "done") /\ Keep

SeqStamp ==
  /\ NoRelease(B)
  /\ Go(B, "stamp", IF Load(B, "state") = 0 THEN "read" ELSE "done")
  /\ reg' = [reg EXCEPT ![B].stamp = Load(B, "state")]
  /\ Silent
  /\ UNCHANGED env

(* Faulty variant: the stamp is validated before the value is read.        *)
SeqReadSwapped ==
  \/ /\ reg[B].new = Unread
     /\ Read(B, "read", "new", "state", "read")
     /\ UNCHANGED env
  \/ /\ reg[B].new # Unread
     /\ Read(B, "read", "val", "shared", "done")
     /\ UNCHANGED env

SeqRead ==
  \/ /\ reg[B].val = Unread
     /\ Read(B, "read", "val", "shared", IF reg[B].new = Unread THEN "read" ELSE "done")
     /\ UNCHANGED env
  \/ /\ reg[B].new = Unread
     /\ LoadsReorder \/ reg[B].val # Unread
     /\ Read(B, "read", "new", "state", IF reg[B].val = Unread THEN "read" ELSE "done")
     /\ UNCHANGED env

SeqStep(t) ==
  CASE t = Main -> JoinBoth [] t = A -> SeqWriter [] t = B -> SeqStamp \/ SeqRead

-----------------------------------------------------------------------------
(* "mode".  gtid_mode is the number of the update that wrote it, of which  *)
(* the mode itself is the parity.                                          *)

ModeInit ==
  Boot("mode", {"TSO", "ARM"},
       [x \in {"mode", "counter", "running"} |-> IF x = "running" THEN 1 ELSE 0],
       [t \in Duo |-> IF t = Main THEN "join" ELSE IF t = A THEN "update" ELSE "test"],
       [t \in Duo |-> [i |-> 1, cur |-> -1, cachedMode |-> -1, cachedCounter |-> -1]],
       << >>)

(* Faulty variant: the counter is incremented before the mode is written.  *)
ModeWriterSwapped ==
  \/ /\ Go(A, "update", IF reg[A].i > Updates THEN "stop" ELSE "count")
     /\ CanRMW(A, "counter")
     /\ IF reg[A].i > Updates THEN Silent ELSE SetMem("counter", mem["counter"] + 1)
     /\ Keep
  \/ /\ Write(A, "count", "mode", reg[A].i, "update")
     /\ reg' = [reg EXCEPT ![A].i = @ + 1]
     /\ UNCHANGED env
  \/ Write(A, "stop", "running", 0, "done") /\ Keep

(* The mode, a plain store, and the counter, a relaxed fetch-and-add.      *)
ModeWriter ==
  \/ /\ IF reg[A].i > Updates THEN Local(A, "update", "stop")
                               ELSE Write(A, "update", "mode", reg[A].i, "count")
     /\ Keep
  \/ /\ Go(A, "count", "update")
     /\ CanRMW(A, "counter")
     /\ SetMem("counter", mem["counter"] + 1)
     /\ reg' = [reg EXCEPT ![A].i = @ + 1]
     /\ UNCHANGED env
  \/ Write(A, "stop", "running", 0, "done") /\ Keep

ModeReader ==
  \/ Local(B, "test", IF Load(B, "running") = 1 THEN "load" ELSE "done") /\ Keep
  \/ LET c == Load(B, "counter")
     IN  /\ Local(B, "load", IF c # reg[B].cachedCounter THEN "cache" ELSE "test")
         /\ reg' = [reg EXCEPT ![B].cur = c]
         /\ UNCHANGED env
  \/ Read(B, "cache", "cachedMode", "mode", "mark") /\ UNCHANGED env
  \/ /\ Local(B, "mark", "test")
     /\ reg' = [reg EXCEPT ![B].cachedCounter = reg[B].cur]
     /\ UNCHANGED env

ModeStep(t) == CASE t = Main -> JoinBoth [] t = A -> ModeWriter [] t = B -> ModeReader

-----------------------------------------------------------------------------
(* "points".  Points are numbered as they are allocated.  The mutex, which *)
(* only the checking thread takes, is left out.                            *)

currentPos == <<"currentPos">>
px(n) == <<"x", n>>
py(n) == <<"y", n>>

PointsInit ==
  Boot("points", {"TSO"},
       [l \in {currentPos} \cup {px(n) : n \in 1..NumPoints} \cup {py(n) : n \in 1..NumPoints} |->
          CASE l = currentPos -> 1 [] l = px(1) -> 1 [] l = py(1) -> 2 [] OTHER -> 0],
       [t \in Duo |-> CASE t = Main -> "join" [] t = A -> "malloc" [] t = B -> "loop"],
       [t \in Duo |-> [addr |-> 1, p |-> NULL, q |-> NULL, x |-> 0, y |-> 0]],
       << >>)

(* Faulty variant: the point is published before its y is there.           *)
PointsWriterEarly ==
  LET cur == Load(A, currentPos)
  IN  \/ /\ reg[A].addr < NumPoints
         /\ Local(A, "malloc", "x")
         /\ reg' = [reg EXCEPT ![A].addr = @ + 1]
         /\ UNCHANGED env
      \/ Write(A, "x", px(reg[A].addr), Load(A, px(cur)) + 1, "publish") /\ Keep
      \/ Write(A, "publish", currentPos, reg[A].addr, "y") /\ Keep
      \/ Write(A, "y", py(reg[A].addr), reg[A].addr + 1, "malloc") /\ Keep

(* threadFunction; NumPoints stops it.                                     *)
PointsWriter ==
  LET cur == Load(A, currentPos)
  IN  \/ /\ reg[A].addr < NumPoints
         /\ Local(A, "malloc", "x")
         /\ reg' = [reg EXCEPT ![A].addr = @ + 1]
         /\ UNCHANGED env
      \/ Write(A, "x", px(reg[A].addr), Load(A, px(cur)) + 1, "y") /\ Keep
      \/ Write(A, "y", py(reg[A].addr), Load(A, py(cur)) + 1, "publish") /\ Keep
      \/ Write(A, "publish", currentPos, reg[A].addr, "malloc") /\ Keep

(* f: currentPos is loaded for the loop, for x and for y.                  *)
PointsReader ==
  \/ Local(B, "loop", IF Load(B, currentPos) # NULL THEN "p" ELSE "done") /\ Keep
  \/ Read(B, "p", "p", currentPos, "x") /\ UNCHANGED env
  \/ Read(B, "x", "x", px(reg[B].p), "q") /\ UNCHANGED env
  \/ Read(B, "q", "q", currentPos, "y") /\ UNCHANGED env
  \/ Read(B, "y", "y", py(reg[B].q), "check") /\ UNCHANGED env
  \/ Local(B, "check", IF reg[B].x + 1 # reg[B].y THEN "abort" ELSE "loop") /\ Keep

PointsStep(t) == CASE t = Main -> JoinBoth [] t = A -> PointsWriter [] t = B -> PointsReader

-----------------------------------------------------------------------------
PublicationPrograms ==
  MpPrograms \cup SbPrograms \cup {"package", "ring", "seqlock", "mode", "points"}

PublicationInit ==
  MpInit \/ SbInit \/ PackageInit \/ RingInit \/ SeqInit \/ ModeInit \/ PointsInit

PublicationStep(t) ==
  \/ program \in MpPrograms /\ MpStep(t)
  \/ program \in SbPrograms /\ SbStep(t)
  \/ program = "package" /\ PackageStep(t)
  \/ program = "ring"    /\ RingStep(t)
  \/ program = "seqlock" /\ SeqStep(t)
  \/ program = "mode"    /\ ModeStep(t)
  \/ program = "points"  /\ PointsStep(t)

-----------------------------------------------------------------------------
(* A reader of 9, 10, 20, 28 and 32 that has seen the flag has the data,   *)
(* except on ARM; with the release store of 20 it is then not the writer   *)
(* but the reader's own loads that were made in the wrong order.           *)
MpInOrder ==
  program \in MpPrograms /\ MpDetected =>
    model = "ARM" /\ (program = "barrier" => env.dataFirst)

(* In 18, 29 and 30 somebody sees the other's word when no store is        *)
(* delayed: a message of 29 never stays behind with the channel free.      *)
SbSomebodySees ==
  program \in SbPrograms /\ model = "SC" /\ pc[Main] \in {"exit", "abort"} => ~ SbMissed

(* "Ensure PackageEntryTable is created exactly once" (12:29), on every    *)
(* memory, and every caller gets that table; on TSO a table that can be    *)
(* reached has been constructed.                                           *)
PackageOnce ==
  program = "package" =>
    /\ env.created <= 1
    /\ \A t \in Requester : pc[t] = "done" => reg[t].result # NULL
    /\ model = "TSO" /\ mem[table] # NULL => mem[built(mem[table])] = 1

(* In 16 the consumer never runs ahead of the producer, though both        *)
(* counters are read and written without order; on TSO every packet that   *)
(* has been counted finds its descriptor filled.  Nothing empties one, so  *)
(* for a packet whose slot is used again the earlier packet is enough.     *)
RingCounted ==
  program = "ring" =>
    /\ mem[consumed] <= mem[product]
    /\ model = "TSO" => \A n \in 0..(mem[product] - 1) : mem[desc(Slot(n))] = 1

(* On TSO the optimistic read of 21 validates no value that the writer     *)
(* has written meanwhile.                                                  *)
SeqValidated ==
  program = "seqlock" /\ model = "TSO" /\ pc[B] = "done" /\ reg[B].stamp = 0 =>
    ~ (reg[B].new = reg[B].stamp /\ reg[B].val = 1)

(* On TSO the cached mode of 26 may be newer than the counter it is cached *)
(* under, so that the next look reads it again, but never older, which no  *)
(* look would repair.                                                      *)
ModeNotOlder ==
  program = "mode" /\ model = "TSO" => reg[B].cachedMode >= reg[B].cachedCounter

(* On TSO the alarm of 5 is false: x and y are of two points, the second   *)
(* one newer, because the pointer was replaced between the two loads.      *)
PointsAlarmIsFalse ==
  program = "points" /\ pc[B] = "abort" => reg[B].q > reg[B].p /\ reg[B].y > reg[B].x + 1
=============================================================================
