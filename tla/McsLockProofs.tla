---------------------------- MODULE McsLockProofs ---------------------------
(***************************************************************************)
(* Proofs about the MCS lock of Layer1/2-DPDK.c, for any number of threads *)
(* and nodes and for the four memory models at once: no step of the proof  *)
(* looks at the order in which a buffer is committed, except where the     *)
(* code has a release.                                                     *)
(***************************************************************************)
EXTENDS McsLock, StoreBuffersProofs

-----------------------------------------------------------------------------
(* The inductive invariant.                                                *)

Queued(t) == Inside(t) \/ Waiting(t)

(* u is linked behind p, or is about to be: it stands behind p in the line *)
(* and has executed prev->next = me.                                       *)
LinkedBehind(p, u) == Follows(arrivals, p, u) /\ ~ At(u, "link")

Types ==
  /\ MemTypeOK(Thread, LockLoc, LockVal)
  /\ LockTypeOK
  /\ \A t, u \in Thread : node[t] = node[u] => t = u

(* The line holds the threads between their exchange and their release.    *)
Line ==
  /\ Distinct(arrivals)
  /\ \A t \in Thread : InLine(arrivals, t) <=> Queued(t)

HolderIsFirst == \A t \in Thread : Inside(t) => First(arrivals, t)

Behind == \A p, u \in Thread : Follows(arrivals, p, u) => prev[u] = node[p]

LinkerIsBehind == \A t \in Thread : At(t, "link") => ~ First(arrivals, t)

(* The next pointer of a node still in the line names the node behind it.  *)
NextWords ==
  \A p \in Thread : mem[next(node[p])] # NULL =>
    \/ At(p, "out")
    \/ \E u \in Thread : LinkedBehind(p, u) /\ mem[next(node[p])] = node[u]

(* Only the owner clears a next pointer and only its successor sets it.    *)
NextStoreOK(u, p, v) ==
  IF u = p THEN v = NULL
  ELSE v = node[u] /\ (At(p, "out") \/ LinkedBehind(p, u))

NextStores ==
  \A u, p \in Thread : \A v :
    Holds(buf[u], next(node[p]), v) => NextStoreOK(u, p, v)

(* Only the owner sets locked; another thread clears it only for the first *)
(* in the line.                                                            *)
LockedStoreOK(u, t, v) ==
  IF u = t THEN v = 1
  ELSE /\ v = 0
       /\ pc[t] \notin {"init1", "init2", "xchg"}
       /\ Waiting(t) => First(arrivals, t)

LockedStores ==
  \A u, t \in Thread : \A v :
    Holds(buf[u], locked(node[t]), v) => LockedStoreOK(u, t, v)

(* msl is only accessed by read-modify-writes.                             *)
NoTailStores == \A u \in Thread : \A v : ~ Holds(buf[u], msl, v)

(* A node in the line but not at its front is locked, as seen by its owner *)
StillLocked ==
  \A t \in Thread :
    pc[t] \in {"init2", "xchg"} \/ (Waiting(t) /\ ~ First(arrivals, t)) =>
      mem[locked(node[t])] = 1 \/ Holds(buf[t], locked(node[t]), 1)

PassReady ==
  \A t \in Thread : At(t, "pass") =>
    /\ mem[next(node[t])] # NULL
    /\ \A v : ~ Holds(buf[t], next(node[t]), v)

IInv ==
  /\ Types
  /\ Line
  /\ HolderIsFirst
  /\ Behind
  /\ LinkerIsBehind
  /\ NextWords
  /\ NextStores
  /\ LockedStores
  /\ NoTailStores
  /\ StillLocked
  /\ PassReady
  /\ TailIsLast

-----------------------------------------------------------------------------
(* The words of different nodes are different.                             *)
LEMMA Words ==
  ASSUME NEW m, NEW n
  PROVE  /\ next(m) # msl /\ locked(m) # msl
         /\ next(m) # locked(n)
         /\ next(m) = next(n) => m = n
         /\ locked(m) = locked(n) => m = n
  BY DEF next, locked, msl

(* What the proofs of the steps use of the types and of the line.          *)
LEMMA Facts ==
  ASSUME IInv
  PROVE  /\ MemTypeOK(Thread, LockLoc, LockVal)
         /\ mem \in [LockLoc -> LockVal]
         /\ arrivals \in Seq(Thread)
         /\ Distinct(arrivals)
         /\ pc \in [Thread -> LockPC]
         /\ node \in [Thread -> Node]
         /\ prev \in [Thread -> Node \cup {NULL}]
         /\ msl \in LockLoc
         /\ \A p \in Thread :
              /\ node[p] \in Node /\ node[p] # NULL /\ node[p] \in LockVal
              /\ next(node[p]) \in LockLoc /\ locked(node[p]) \in LockLoc
              /\ next(node[p]) # msl /\ locked(node[p]) # msl
         /\ \A p, u \in Thread :
              /\ next(node[p]) # locked(node[u])
              /\ node[p] = node[u] => p = u
              /\ next(node[p]) = next(node[u]) => p = u
              /\ locked(node[p]) = locked(node[u]) => p = u
<1>1. /\ MemTypeOK(Thread, LockLoc, LockVal)
      /\ mem \in [LockLoc -> LockVal]
      /\ arrivals \in Seq(Thread)
      /\ Distinct(arrivals)
      /\ pc \in [Thread -> LockPC]
      /\ node \in [Thread -> Node]
      /\ prev \in [Thread -> Node \cup {NULL}]
      /\ \A t, u \in Thread : node[t] = node[u] => t = u
  BY DEF IInv, Types, Line, LockTypeOK, MemTypeOK
<1>2. \A p \in Thread : node[p] \in Node /\ node[p] # NULL /\ node[p] \in LockVal
  BY <1>1, NodeAssumption DEF LockVal
<1>3. msl \in LockLoc /\ \A n \in Node : next(n) \in LockLoc /\ locked(n) \in LockLoc
  BY DEF LockLoc
<1>4. \A m, n : /\ next(m) # msl /\ locked(m) # msl
                /\ next(m) # locked(n)
                /\ next(m) = next(n) => m = n
                /\ locked(m) = locked(n) => m = n
  BY Words
<1> QED BY <1>1, <1>2, <1>3, <1>4

(* The invariant holds when the threads start.                             *)
LEMMA InitInv == Init => IInv
<1> SUFFICES ASSUME Init PROVE IInv
  OBVIOUS
<1>1. /\ arrivals = << >>
      /\ pc = [t \in Thread |-> "init1"]
      /\ node \in [Thread -> Node]
      /\ \A t, u \in Thread : node[t] = node[u] => t = u
      /\ prev = [t \in Thread |-> NULL]
      /\ buf = [t \in Thread |-> << >>]
      /\ mem = MemInit
  BY DEF Init
<1>2. \A t \in Thread : \A x, v : ~ Holds(buf[t], x, v)
  BY <1>1 DEF Holds
<1>3. mem \in [LockLoc -> LockVal]
  BY <1>1 DEF MemInit, LockVal
<1>4. mem[msl] = NULL /\ \A n \in Node : mem[next(n)] = NULL
  <2>1. msl[1] = "msl" /\ \A n \in Node : next(n)[1] = "next"
    BY DEF msl, next
  <2>2. msl \in LockLoc /\ \A n \in Node : next(n) \in LockLoc
    BY DEF LockLoc
  <2> QED BY <1>1, <2>1, <2>2 DEF MemInit
<1>5. Types
  <2>1. MemTypeOK(Thread, LockLoc, LockVal)
    BY <1>1, <1>3 DEF MemTypeOK
  <2>2. LockTypeOK
    BY <1>1, EmptyLine DEF LockTypeOK, LockPC
  <2> QED BY <1>1, <2>1, <2>2 DEF Types
<1>6. \A t \in Thread : pc[t] = "init1"
  BY <1>1
<1>7. Line
  BY <1>1, <1>6, EmptyLine DEF Line, Queued, Inside, Waiting
<1>8. TailIsLast
  BY <1>1, <1>4 DEF TailIsLast
<1>9. HolderIsFirst /\ LinkerIsBehind /\ PassReady /\ StillLocked
  BY <1>6 DEF HolderIsFirst, LinkerIsBehind, PassReady, StillLocked, Inside, Waiting, At
<1>10. Behind
  BY <1>1, EmptyLine DEF Behind
<1>11. NextWords
  BY <1>1, <1>4 DEF NextWords
<1>12. NextStores /\ LockedStores /\ NoTailStores
  BY <1>2 DEF NextStores, NextStoreOK, LockedStores, LockedStoreOK, NoTailStores
<1> QED BY <1>5, <1>7, <1>8, <1>9, <1>10, <1>11, <1>12 DEF IInv

-----------------------------------------------------------------------------
(* The steps that only move a program counter: Fence, Spin, CheckNext,     *)
(* CasFail and WaitNext.                                                   *)
LEMMA QuietStep ==
  ASSUME IInv, NEW t \in Thread, NEW l,
         UNCHANGED <<mem, buf, node, prev, arrivals>>, Goto(t, l),
         pc[t] \in {"fence", "spin", "cs", "cas", "wait"},
         \/ At(t, "fence") /\ l = "spin"
         \/ /\ l \in {"cs", "cas", "wait", "pass"}
            /\ First(arrivals, t),
         l = "pass" => /\ mem[next(node[t])] # NULL
                       /\ \A v : ~ Holds(buf[t], next(node[t]), v)
  PROVE  IInv'
<1>1. /\ mem' = mem /\ buf' = buf /\ node' = node /\ prev' = prev /\ arrivals' = arrivals
      /\ \A u, x, v : Holds(buf'[u], x, v) <=> Holds(buf[u], x, v)
  BY DEF Holds
<1>2. /\ pc' \in [Thread -> LockPC]
      /\ \A u \in Thread : pc'[u] = IF u = t THEN l ELSE pc[u]
  BY Facts DEF Goto, LockPC, At
<1>3. /\ \A u \in Thread : Queued(u)' <=> Queued(u)
      /\ \A u \in Thread : Waiting(u)' => Waiting(u)
      /\ \A u \in Thread : u # t => (Inside(u)' <=> Inside(u))
      /\ Inside(t)' => First(arrivals, t)
      /\ \A u \in Thread : At(u, "link")' <=> At(u, "link")
      /\ \A u \in Thread : At(u, "out")' <=> At(u, "out")
      /\ \A u \in Thread : pc'[u] \in {"init1", "init2", "xchg"} <=>
                           pc[u] \in {"init1", "init2", "xchg"}
  BY <1>2 DEF Queued, Waiting, Inside, At
<1>4. \A p, u \in Thread : LinkedBehind(p, u)' <=> LinkedBehind(p, u)
  BY <1>1, <1>3 DEF LinkedBehind
<1>5. Types'
  BY <1>1, <1>2 DEF IInv, Types, MemTypeOK, LockTypeOK
<1>6. Line' /\ HolderIsFirst' /\ Behind' /\ LinkerIsBehind'
  BY <1>1, <1>3 DEF IInv, Line, HolderIsFirst, Behind, LinkerIsBehind
<1>7. NextWords' /\ NextStores'
  BY <1>1, <1>3, <1>4 DEF IInv, NextWords, NextStores, NextStoreOK
<1>8. LockedStores' /\ NoTailStores'
  BY <1>1, <1>3 DEF IInv, LockedStores, LockedStoreOK, NoTailStores
<1>9. StillLocked'
  BY <1>1, <1>2, <1>3 DEF IInv, StillLocked
<1>10. PassReady'
  BY <1>1, <1>2 DEF IInv, PassReady, At
<1>11. TailIsLast'
  BY <1>1 DEF IInv, TailIsLast
<1> QED BY <1>5, <1>6, <1>7, <1>8, <1>9, <1>10, <1>11 DEF IInv

-----------------------------------------------------------------------------
(* What a store of the lock does, in memory or under way.                  *)
LEMMA StoreFacts ==
  ASSUME IInv, NEW t \in Thread, NEW x \in LockLoc, NEW v \in LockVal,
         NEW rel \in BOOLEAN, Put(t, x, v, rel)
  PROVE  /\ MemTypeOK(Thread, LockLoc, LockVal)'
         /\ \A y \in LockLoc : y # x => mem'[y] = mem[y]
         /\ mem'[x] = v \/ (mem'[x] = mem[x] /\ Holds(buf'[t], x, v))
         /\ \A u \in Thread : \A y, w :
              Holds(buf'[u], y, w) => Holds(buf[u], y, w) \/ (u = t /\ y = x /\ w = v)
         /\ \A u \in Thread : \A y, w : Holds(buf[u], y, w) => Holds(buf'[u], y, w)
<1>1. MemTypeOK(Thread, LockLoc, LockVal) /\ mem \in [LockLoc -> LockVal]
  BY Facts
<1>2. /\ MemTypeOK(Thread, LockLoc, LockVal)'
      /\ \/ /\ mem' = [mem EXCEPT ![x] = v]
            /\ \A u, y, w : Holds(buf'[u], y, w) <=> Holds(buf[u], y, w)
         \/ /\ mem' = mem
            /\ \A u \in Thread : \A y, w :
                 Holds(buf'[u], y, w) <=> Holds(buf[u], y, w) \/ (u = t /\ y = x /\ w = v)
  BY <1>1, PutHolds
<1> QED BY <1>1, <1>2

(* Init1 and Init2: a thread outside the line initialises its node.        *)
LEMMA InitStep ==
  ASSUME IInv, NEW t \in Thread, Init1(t) \/ Init2(t)
  PROVE  IInv'
<1> DEFINE x == IF At(t, "init1") THEN locked(node[t]) ELSE next(node[t])
           v == IF At(t, "init1") THEN 1 ELSE NULL
           l == IF At(t, "init1") THEN "init2" ELSE "xchg"
<1>1. /\ pc[t] \in {"init1", "init2"}
      /\ Store(t, x, v) /\ Goto(t, l)
      /\ node' = node /\ prev' = prev /\ arrivals' = arrivals
  BY DEF Init1, Init2, At
<1>2. x \in LockLoc /\ v \in LockVal
  BY Facts DEF LockVal
<1>3. /\ MemTypeOK(Thread, LockLoc, LockVal)'
      /\ \A y \in LockLoc : y # x => mem'[y] = mem[y]
      /\ mem'[x] = v \/ (mem'[x] = mem[x] /\ Holds(buf'[t], x, v))
      /\ \A u \in Thread : \A y, w :
           Holds(buf'[u], y, w) => Holds(buf[u], y, w) \/ (u = t /\ y = x /\ w = v)
      /\ \A u \in Thread : \A y, w : Holds(buf[u], y, w) => Holds(buf'[u], y, w)
  <2>1. Put(t, x, v, FALSE) /\ FALSE \in BOOLEAN
    BY <1>1 DEF Store
  <2> HIDE DEF x, v
  <2> QED BY <1>2, <2>1, StoreFacts, Zenon
<1>4. /\ pc' \in [Thread -> LockPC]
      /\ \A u \in Thread : pc'[u] = IF u = t THEN l ELSE pc[u]
  BY <1>1, Facts DEF Goto, LockPC
<1>5. /\ \A u \in Thread : Queued(u)' <=> Queued(u)
      /\ \A u \in Thread : Waiting(u)' <=> Waiting(u)
      /\ \A u \in Thread : Inside(u)' <=> Inside(u)
      /\ \A u \in Thread : At(u, "link")' <=> At(u, "link")
      /\ \A u \in Thread : At(u, "out")' <=> At(u, "out")
      /\ \A u \in Thread : At(u, "pass")' <=> At(u, "pass") /\ u # t
      /\ ~ Waiting(t) /\ ~ At(t, "pass")
      /\ \A u \in Thread : pc'[u] \in {"init1", "init2", "xchg"} <=>
                           pc[u] \in {"init1", "init2", "xchg"}
  BY <1>1, <1>4 DEF Queued, Waiting, Inside, At
<1>6. \A p, u \in Thread : LinkedBehind(p, u)' <=> LinkedBehind(p, u)
  BY <1>1, <1>5 DEF LinkedBehind
<1>7. \/ At(t, "init1") /\ x = locked(node[t]) /\ v = 1 /\ l = "init2"
      \/ At(t, "init2") /\ x = next(node[t]) /\ v = NULL /\ l = "xchg"
  BY <1>1 DEF At
<1> HIDE DEF x, v, l
<1>0. /\ \A p \in Thread : next(node[p]) \in LockLoc /\ locked(node[p]) \in LockLoc
      /\ \A p \in Thread : next(node[p]) # msl /\ locked(node[p]) # msl
      /\ \A p, u \in Thread : next(node[p]) # locked(node[u])
      /\ \A p, u \in Thread : next(node[p]) = next(node[u]) => p = u
      /\ \A p, u \in Thread : locked(node[p]) = locked(node[u]) => p = u
  BY Facts
<1>8. Types'
  BY <1>1, <1>3, <1>4 DEF IInv, Types, LockTypeOK
<1>9. Line' /\ HolderIsFirst' /\ Behind' /\ LinkerIsBehind'
  BY <1>1, <1>5 DEF IInv, Line, HolderIsFirst, Behind, LinkerIsBehind
<1>10. NextWords'
  <2>1. \A p \in Thread : mem'[next(node[p])] = mem[next(node[p])] \/ mem'[next(node[p])] = NULL
    BY <1>0, <1>3, <1>7, Zenon
  <2> QED BY <1>1, <1>5, <1>6, <2>1 DEF IInv, NextWords
<1>11. NextStores'
  <2> SUFFICES ASSUME NEW u \in Thread, NEW p \in Thread, NEW w,
                      Holds(buf'[u], next(node[p]), w)
               PROVE  NextStoreOK(u, p, w)'
    BY <1>1 DEF NextStores
  <2>1. CASE Holds(buf[u], next(node[p]), w)
    BY <1>1, <1>5, <1>6, <2>1 DEF IInv, NextStores, NextStoreOK
  <2>2. CASE u = t /\ next(node[p]) = x /\ w = v
    <3>1. u = p /\ w = NULL
      BY <1>0, <1>7, <2>2
    <3> QED BY <3>1 DEF NextStoreOK
  <2> QED BY <1>3, <2>1, <2>2
<1>12. LockedStores'
  <2> SUFFICES ASSUME NEW u \in Thread, NEW p \in Thread, NEW w,
                      Holds(buf'[u], locked(node[p]), w)
               PROVE  LockedStoreOK(u, p, w)'
    BY <1>1 DEF LockedStores
  <2>1. CASE Holds(buf[u], locked(node[p]), w)
    BY <1>1, <1>5, <2>1 DEF IInv, LockedStores, LockedStoreOK
  <2>2. CASE u = t /\ locked(node[p]) = x /\ w = v
    <3>1. u = p /\ w = 1
      BY <1>0, <1>7, <2>2
    <3> QED BY <3>1 DEF LockedStoreOK
  <2> QED BY <1>3, <2>1, <2>2
<1>13. NoTailStores'
  BY <1>3, <1>7, Facts DEF IInv, NoTailStores
<1>14. StillLocked'
  <2> SUFFICES ASSUME NEW u \in Thread,
                      pc'[u] \in {"init2", "xchg"} \/ (Waiting(u) /\ ~ First(arrivals, u))
               PROVE  mem'[locked(node[u])] = 1 \/ Holds(buf'[u], locked(node[u]), 1)
    BY <1>1, <1>5 DEF StillLocked
  <2>1. CASE u = t /\ At(t, "init1")
    BY <1>3, <1>7, <2>1 DEF At
  <2>2. CASE ~ (u = t /\ At(t, "init1"))
    <3>1. mem[locked(node[u])] = 1 \/ Holds(buf[u], locked(node[u]), 1)
      BY <1>1, <1>4, <1>5, <2>2 DEF IInv, StillLocked, At
    <3>2. locked(node[u]) # x
      BY <1>7, <2>2, Facts
    <3> QED BY <1>3, <3>1, <3>2, Facts
  <2> QED BY <2>1, <2>2
<1>15. PassReady'
  <2> SUFFICES ASSUME NEW u \in Thread, At(u, "pass"), u # t
               PROVE  /\ mem'[next(node[u])] # NULL
                      /\ \A w : ~ Holds(buf'[u], next(node[u]), w)
    BY <1>1, <1>5 DEF PassReady
  <2>1. next(node[u]) # x
    BY <1>7, Facts
  <2> QED BY <1>3, <2>1, Facts DEF IInv, PassReady
<1>16. TailIsLast'
  BY <1>1, <1>3, <1>7, Facts DEF IInv, TailIsLast
<1> QED BY <1>8, <1>9, <1>10, <1>11, <1>12, <1>13, <1>14, <1>15, <1>16 DEF IInv

(* prev->next = me: the thread becomes linked behind its predecessor.      *)
LEMMA LinkStep ==
  ASSUME IInv, NEW t \in Thread, Link(t)
  PROVE  IInv'
<1>1. /\ pc[t] = "link"
      /\ Put(t, next(prev[t]), node[t], FALSE)
      /\ Goto(t, "fence")
      /\ node' = node /\ prev' = prev /\ arrivals' = arrivals
  BY DEF Link, At, Store
<1>2. PICK h \in Thread : Follows(arrivals, h, t)
  <2>1. InLine(arrivals, t) /\ ~ First(arrivals, t)
    BY <1>1 DEF IInv, Line, Queued, Waiting, LinkerIsBehind, At
  <2> QED BY <2>1, Facts, LineFacts
<1>3. prev[t] = node[h] /\ h # t
  BY <1>2, Facts, LineFacts DEF IInv, Behind
<1>0. /\ \A p \in Thread : next(node[p]) \in LockLoc /\ locked(node[p]) \in LockLoc
      /\ \A p \in Thread : next(node[p]) # msl /\ locked(node[p]) # msl
      /\ \A p, u \in Thread : next(node[p]) # locked(node[u])
      /\ \A p, u \in Thread : next(node[p]) = next(node[u]) => p = u
      /\ \A p, u \in Thread : locked(node[p]) = locked(node[u]) => p = u
      /\ node[t] # NULL /\ node[t] \in LockVal /\ msl \in LockLoc
  BY Facts
<1> DEFINE x == next(node[h])
<1>4. /\ MemTypeOK(Thread, LockLoc, LockVal)'
      /\ \A y \in LockLoc : y # x => mem'[y] = mem[y]
      /\ mem'[x] = node[t] \/ (mem'[x] = mem[x] /\ Holds(buf'[t], x, node[t]))
      /\ \A u \in Thread : \A y, w :
           Holds(buf'[u], y, w) => Holds(buf[u], y, w) \/ (u = t /\ y = x /\ w = node[t])
      /\ \A u \in Thread : \A y, w : Holds(buf[u], y, w) => Holds(buf'[u], y, w)
  <2>1. Put(t, x, node[t], FALSE) /\ FALSE \in BOOLEAN /\ x \in LockLoc
    BY <1>0, <1>1, <1>3
  <2> HIDE DEF x
  <2> QED BY <1>0, <2>1, StoreFacts, Zenon
<1>5. /\ pc' \in [Thread -> LockPC]
      /\ \A u \in Thread : pc'[u] = IF u = t THEN "fence" ELSE pc[u]
  BY <1>1, Facts DEF Goto, LockPC
<1>6. /\ \A u \in Thread : Queued(u)' <=> Queued(u)
      /\ \A u \in Thread : Waiting(u)' <=> Waiting(u)
      /\ \A u \in Thread : Inside(u)' <=> Inside(u)
      /\ \A u \in Thread : At(u, "link")' <=> At(u, "link") /\ u # t
      /\ \A u \in Thread : At(u, "out")' <=> At(u, "out")
      /\ \A u \in Thread : At(u, "pass")' <=> At(u, "pass")
      /\ \A u \in Thread : pc'[u] \in {"init1", "init2", "xchg"} <=>
                           pc[u] \in {"init1", "init2", "xchg"}
  BY <1>1, <1>5 DEF Queued, Waiting, Inside, At
<1>7. /\ \A p, u \in Thread : LinkedBehind(p, u) => LinkedBehind(p, u)'
      /\ LinkedBehind(h, t)'
  BY <1>1, <1>2, <1>6 DEF LinkedBehind
<1>8. Types'
  BY <1>1, <1>4, <1>5 DEF IInv, Types, LockTypeOK
<1>9. Line' /\ HolderIsFirst' /\ Behind' /\ LinkerIsBehind'
  BY <1>1, <1>6 DEF IInv, Line, HolderIsFirst, Behind, LinkerIsBehind
<1>10. NextWords'
  <2> SUFFICES ASSUME NEW p \in Thread, mem'[next(node[p])] # NULL
               PROVE  \/ At(p, "out")
                      \/ \E u \in Thread : LinkedBehind(p, u)' /\ mem'[next(node[p])] = node[u]
    BY <1>1, <1>6 DEF NextWords
  <2>1. CASE mem'[next(node[p])] = mem[next(node[p])]
    BY <1>7, <2>1 DEF IInv, NextWords
  <2>2. CASE mem'[next(node[p])] # mem[next(node[p])]
    <3>1. next(node[p]) = x /\ mem'[next(node[p])] = node[t]
      BY <1>0, <1>4, <2>2
    <3>2. p = h
      BY <1>0, <3>1
    <3> QED BY <1>7, <3>1, <3>2
  <2> QED BY <2>1, <2>2
<1>11. NextStores'
  <2> SUFFICES ASSUME NEW u \in Thread, NEW p \in Thread, NEW w,
                      Holds(buf'[u], next(node[p]), w)
               PROVE  NextStoreOK(u, p, w)'
    BY <1>1 DEF NextStores
  <2>1. CASE Holds(buf[u], next(node[p]), w)
    BY <1>1, <1>6, <1>7, <2>1 DEF IInv, NextStores, NextStoreOK
  <2>2. CASE u = t /\ next(node[p]) = x /\ w = node[t]
    <3>1. u # p /\ w = node[u] /\ p = h
      BY <1>0, <1>3, <2>2
    <3> QED BY <1>1, <1>7, <2>2, <3>1 DEF NextStoreOK
  <2> QED BY <1>4, <2>1, <2>2
<1> HIDE DEF x
<1>12. \A u, p \in Thread : \A w :
         Holds(buf'[u], locked(node[p]), w) <=> Holds(buf[u], locked(node[p]), w)
  BY <1>0, <1>4 DEF x
<1>13. LockedStores'
  BY <1>1, <1>6, <1>12 DEF IInv, LockedStores, LockedStoreOK
<1>14. NoTailStores'
  BY <1>0, <1>4 DEF IInv, NoTailStores, x
<1>15. StillLocked'
  <2>1. \A p \in Thread : mem'[locked(node[p])] = mem[locked(node[p])]
    BY <1>0, <1>4 DEF x
  <2>2. \A u \in Thread : pc'[u] \in {"init2", "xchg"} => pc[u] \in {"init2", "xchg"}
    BY <1>5
  <2> QED BY <1>1, <1>6, <1>12, <2>1, <2>2 DEF IInv, StillLocked
<1>16. PassReady'
  <2> SUFFICES ASSUME NEW u \in Thread, At(u, "pass")
               PROVE  /\ mem'[next(node[u])] # NULL
                      /\ \A w : ~ Holds(buf'[u], next(node[u]), w)
    BY <1>1, <1>6 DEF PassReady
  <2>1. mem[next(node[u])] # NULL /\ \A w : ~ Holds(buf[u], next(node[u]), w)
    BY DEF IInv, PassReady
  <2>2. u # t
    BY <1>1 DEF At
  <2>3. mem'[next(node[u])] # NULL
    BY <1>0, <1>4, <2>1
  <2> QED BY <1>4, <2>1, <2>2, <2>3
<1>17. TailIsLast'
  <2>1. mem'[msl] = mem[msl]
    BY <1>0, <1>4 DEF x
  <2> QED BY <1>1, <2>1 DEF IInv, TailIsLast
<1> QED BY <1>8, <1>9, <1>10, <1>11, <1>13, <1>14, <1>15, <1>16, <1>17 DEF IInv

-----------------------------------------------------------------------------
(* The exchange on the tail: the thread joins the line, behind the thread  *)
(* whose node the exchange returns.                                        *)
LEMMA ExchangeStep ==
  ASSUME IInv, NEW t \in Thread, Exchange(t)
  PROVE  /\ IInv'
         /\ ~ InLine(arrivals, t)
         /\ arrivals' = Append(arrivals, t)
         /\ At(t, "xchg")
         /\ \/ arrivals = << >> /\ Goto(t, "cs")
            \/ arrivals # << >> /\ Goto(t, "link")
<1> DEFINE l == IF arrivals = << >> THEN "cs" ELSE "link"
<1>1. /\ pc[t] = "xchg"
      /\ prev' = [prev EXCEPT ![t] = mem[msl]]
      /\ mem' = [mem EXCEPT ![msl] = node[t]] /\ buf' = buf
      /\ arrivals' = Append(arrivals, t)
      /\ Goto(t, IF mem[msl] = NULL THEN "cs" ELSE "link")
      /\ node' = node
  BY DEF Exchange, At, SetMem
<1>0. /\ \A p \in Thread : next(node[p]) \in LockLoc /\ locked(node[p]) \in LockLoc
      /\ \A p \in Thread : next(node[p]) # msl /\ locked(node[p]) # msl
      /\ \A p \in Thread : node[p] \in LockVal /\ node[p] \in Node /\ node[p] # NULL
      /\ msl \in LockLoc /\ mem \in [LockLoc -> LockVal]
  BY Facts
<1>2. /\ arrivals = << >> => mem[msl] = NULL
      /\ \A u \in Thread : Final(arrivals, u) => mem[msl] = node[u]
      /\ mem[msl] \in Node \cup {NULL}
      /\ mem[msl] = NULL => arrivals = << >>
  <2>1. \A u \in Thread : Final(arrivals, u) => mem[msl] = node[u]
    BY DEF IInv, TailIsLast, Final
  <2>2. arrivals = << >> => mem[msl] = NULL
    BY DEF IInv, TailIsLast
  <2>3. arrivals # << >> => \E u \in Thread : Final(arrivals, u)
    BY Facts, LineFacts
  <2> QED BY <1>0, <2>1, <2>2, <2>3
<1>3. ~ InLine(arrivals, t)
  BY <1>1 DEF IInv, Line, Queued, Waiting, Inside
<1>4. /\ arrivals' \in Seq(Thread)
      /\ arrivals' # << >>
      /\ Distinct(arrivals')
      /\ \A u \in Thread : InLine(arrivals', u) <=> InLine(arrivals, u) \/ u = t
      /\ \A u \in Thread : First(arrivals', u) <=> First(arrivals, u) \/ (arrivals = << >> /\ u = t)
      /\ \A u \in Thread : Final(arrivals', u) <=> u = t
      /\ \A u, w \in Thread : Follows(arrivals', u, w) <=>
                           Follows(arrivals, u, w) \/ (Final(arrivals, u) /\ w = t)
  <2>1. arrivals \in Seq(Thread) /\ Distinct(arrivals)
    BY Facts
  <2> QED BY <1>1, <1>3, <2>1, JoinLine
<1>5. /\ pc' \in [Thread -> LockPC]
      /\ Goto(t, l)
      /\ \A u \in Thread : pc'[u] = IF u = t THEN l ELSE pc[u]
      /\ l = "cs" \/ l = "link"
  BY <1>1, <1>2, Facts DEF Goto, LockPC
<1>6. /\ \A u \in Thread : Queued(u)' <=> Queued(u) \/ u = t
      /\ \A u \in Thread : Waiting(u)' <=> Waiting(u) \/ (u = t /\ l = "link")
      /\ \A u \in Thread : Inside(u)' <=> Inside(u) \/ (u = t /\ l = "cs")
      /\ \A u \in Thread : At(u, "link")' <=> At(u, "link") \/ (u = t /\ l = "link")
      /\ \A u \in Thread : At(u, "out")' <=> At(u, "out")
      /\ \A u \in Thread : At(u, "pass")' <=> At(u, "pass")
      /\ \A u \in Thread : pc'[u] \in {"init1", "init2", "xchg"} <=>
                           pc[u] \in {"init1", "init2", "xchg"} /\ u # t
  <2> HIDE DEF l
  <2> QED BY <1>1, <1>5 DEF Queued, Waiting, Inside, At
<1>7. /\ \A y \in LockLoc : y # msl => mem'[y] = mem[y]
      /\ mem'[msl] = node[t]
  BY <1>0, <1>1
<1>8. ~ \E p \in Thread : Follows(arrivals, p, t)
  BY <1>3, Facts, LineFacts
<1>9. \A p, u \in Thread : LinkedBehind(p, u) => LinkedBehind(p, u)'
  BY <1>4, <1>6, <1>8 DEF LinkedBehind
<1>10. Types'
  <2>1. MemTypeOK(Thread, LockLoc, LockVal)'
    BY <1>0, <1>1 DEF IInv, Types, MemTypeOK
  <2>2. prev' \in [Thread -> Node \cup {NULL}]
    BY <1>1, <1>2, Facts
  <2> QED BY <1>1, <1>4, <1>5, <2>1, <2>2 DEF IInv, Types, LockTypeOK
<1>11. Line'
  BY <1>4, <1>6 DEF IInv, Line
<1>12. HolderIsFirst'
  BY <1>4, <1>6 DEF IInv, HolderIsFirst
<1>13. Behind'
  <2> SUFFICES ASSUME NEW p \in Thread, NEW u \in Thread, Follows(arrivals', p, u)
               PROVE  prev'[u] = node[p]
    BY <1>1 DEF Behind
  <2>1. CASE Follows(arrivals, p, u)
    <3>1. u # t
      BY <1>8, <2>1
    <3> QED BY <1>1, <2>1, <3>1, Facts DEF IInv, Behind
  <2>2. CASE Final(arrivals, p) /\ u = t
    BY <1>1, <1>2, <2>2, Facts
  <2> QED BY <1>4, <2>1, <2>2
<1>14. LinkerIsBehind'
  <2> SUFFICES ASSUME NEW u \in Thread, At(u, "link")'
               PROVE  ~ First(arrivals', u)
    BY DEF LinkerIsBehind
  <2>1. ~ First(arrivals, t)
    BY <1>3, Facts, LineFacts
  <2>2. l = "link" => arrivals # << >>
    OBVIOUS
  <2>3. At(u, "link") \/ (u = t /\ l = "link")
    BY <1>6
  <2>4. At(u, "link") => u # t /\ ~ First(arrivals, u)
    BY <1>1 DEF IInv, LinkerIsBehind, At
  <2> HIDE DEF l
  <2> QED BY <1>4, <2>1, <2>2, <2>3, <2>4
<1>15. NextWords'
  BY <1>0, <1>1, <1>6, <1>7, <1>9 DEF IInv, NextWords
<1>16. NextStores' /\ NoTailStores'
  BY <1>1, <1>6, <1>9 DEF IInv, NextStores, NextStoreOK, NoTailStores
<1>17. LockedStores'
  <2>1. \A u \in Thread : u # t => \A v : ~ Holds(buf[u], locked(node[t]), v)
    BY <1>1 DEF IInv, LockedStores, LockedStoreOK
  <2> QED BY <1>1, <1>4, <1>6, <2>1 DEF IInv, LockedStores, LockedStoreOK
<1>18. StillLocked'
  <2>1. \A p \in Thread : mem'[locked(node[p])] = mem[locked(node[p])]
    BY <1>0, <1>7
  <2>2. \A u \in Thread : pc'[u] \in {"init2", "xchg"} => pc[u] \in {"init2", "xchg"}
    BY <1>5
  <2> QED BY <1>1, <1>4, <1>6, <2>1, <2>2 DEF IInv, StillLocked
<1>19. PassReady'
  BY <1>0, <1>1, <1>6, <1>7 DEF IInv, PassReady
<1>20. TailIsLast'
  BY <1>1, <1>4, <1>7 DEF TailIsLast, Final
<1>21. IInv'
  BY <1>10, <1>11, <1>12, <1>13, <1>14, <1>15, <1>16, <1>17, <1>18, <1>19, <1>20 DEF IInv
<1> QED BY <1>1, <1>2, <1>3, <1>21 DEF At

-----------------------------------------------------------------------------
(* The first of the line leaves it.                                        *)
LEMMA LeaveFacts ==
  ASSUME IInv, NEW t \in Thread, Inside(t), Goto(t, "out"), arrivals' = Tail(arrivals)
  PROVE  /\ First(arrivals, t)
         /\ arrivals' \in Seq(Thread)
         /\ Distinct(arrivals')
         /\ \A u \in Thread : InLine(arrivals', u) <=> InLine(arrivals, u) /\ u # t
         /\ \A u \in Thread : First(arrivals', u) <=> Follows(arrivals, t, u)
         /\ \A u, w \in Thread : Follows(arrivals', u, w) <=> Follows(arrivals, u, w) /\ u # t
         /\ arrivals' = << >> <=> Final(arrivals, t)
         /\ arrivals # << >>
         /\ arrivals' # << >> => arrivals'[Len(arrivals')] = arrivals[Len(arrivals)]
         /\ pc' \in [Thread -> LockPC]
         /\ \A u \in Thread : pc'[u] = IF u = t THEN "out" ELSE pc[u]
<1>1. First(arrivals, t)
  BY DEF IInv, HolderIsFirst
<1>2. arrivals \in Seq(Thread) /\ Distinct(arrivals) /\ pc \in [Thread -> LockPC]
  BY Facts
<1>3. /\ pc' \in [Thread -> LockPC]
      /\ \A u \in Thread : pc'[u] = IF u = t THEN "out" ELSE pc[u]
  BY <1>2 DEF Goto, LockPC
<1>4. arrivals # << >>
  BY <1>1 DEF First
<1> QED BY <1>1, <1>2, <1>3, <1>4, LeaveLine

(* Before the line loses its first thread nobody else is inside; after it, *)
(* the thread behind is the first, and still waits.                        *)
LEMMA LeaveLineInv ==
  ASSUME IInv, NEW t \in Thread, Inside(t), Goto(t, "out"), arrivals' = Tail(arrivals),
         node' = node, prev' = prev
  PROVE  /\ Line' /\ HolderIsFirst' /\ Behind'
         /\ \A u \in Thread : Waiting(u)' <=> Waiting(u)
         /\ \A u \in Thread : u # t => ~ Inside(u)
         /\ \A u \in Thread : Waiting(u) => ~ First(arrivals, u) /\ u # t
         /\ \A u \in Thread : At(u, "link")' <=> At(u, "link")
         /\ \A u \in Thread : At(u, "out")' <=> At(u, "out") \/ u = t
         /\ \A u \in Thread : ~ At(u, "pass")'
         /\ \A u \in Thread : pc'[u] \in {"init1", "init2", "xchg"} <=>
                              pc[u] \in {"init1", "init2", "xchg"}
         /\ \A p, u \in Thread : p # t /\ LinkedBehind(p, u) => LinkedBehind(p, u)'
<1>1. /\ First(arrivals, t)
      /\ Distinct(arrivals')
      /\ \A u \in Thread : InLine(arrivals', u) <=> InLine(arrivals, u) /\ u # t
      /\ \A u \in Thread : First(arrivals', u) <=> Follows(arrivals, t, u)
      /\ \A u, w \in Thread : Follows(arrivals', u, w) <=> Follows(arrivals, u, w) /\ u # t
      /\ \A u \in Thread : pc'[u] = IF u = t THEN "out" ELSE pc[u]
  BY LeaveFacts
<1>2. \A u \in Thread : First(arrivals, u) => u = t
  BY <1>1, Facts, LineFacts
<1>3. \A u \in Thread : u # t => ~ Inside(u)
  BY <1>2 DEF IInv, HolderIsFirst
<1>4. pc[t] \in {"cs", "cas", "wait", "pass"}
  BY DEF Inside
<1>5. \A u \in Thread : Waiting(u) => ~ First(arrivals, u) /\ u # t
  BY <1>2, <1>4 DEF Waiting
<1>6. /\ \A u \in Thread : Waiting(u)' <=> Waiting(u)
      /\ \A u \in Thread : ~ Inside(u)'
      /\ \A u \in Thread : At(u, "link")' <=> At(u, "link")
      /\ \A u \in Thread : At(u, "out")' <=> At(u, "out") \/ u = t
      /\ \A u \in Thread : ~ At(u, "pass")'
      /\ \A u \in Thread : pc'[u] \in {"init1", "init2", "xchg"} <=>
                           pc[u] \in {"init1", "init2", "xchg"}
  BY <1>1, <1>3, <1>4 DEF Waiting, Inside, At
<1>7. Line'
  BY <1>1, <1>3, <1>5, <1>6 DEF IInv, Line, Queued
<1>8. HolderIsFirst'
  BY <1>6 DEF HolderIsFirst
<1>9. Behind'
  BY <1>1 DEF IInv, Behind
<1>10. \A p, u \in Thread : p # t /\ LinkedBehind(p, u) => LinkedBehind(p, u)'
  BY <1>1, <1>6 DEF LinkedBehind
<1> QED BY <1>3, <1>5, <1>6, <1>7, <1>8, <1>9, <1>10

(* The last of the line frees the lock.                                    *)
LEMMA CasFreeStep ==
  ASSUME IInv, NEW t \in Thread, CasFree(t)
  PROVE  /\ IInv'
         /\ First(arrivals, t)
<1>1. /\ pc[t] = "cas"
      /\ mem[msl] = node[t]
      /\ mem' = [mem EXCEPT ![msl] = NULL] /\ buf' = buf
      /\ arrivals' = Tail(arrivals)
      /\ Goto(t, "out")
      /\ node' = node /\ prev' = prev
  BY DEF CasFree, At, SetMem
<1>2. Inside(t)
  BY <1>1 DEF Inside
<1>3. /\ First(arrivals, t) /\ arrivals # << >>
      /\ arrivals' \in Seq(Thread)
      /\ \A u \in Thread : First(arrivals', u) <=> Follows(arrivals, t, u)
      /\ arrivals' = << >> <=> Final(arrivals, t)
      /\ pc' \in [Thread -> LockPC]
      /\ \A u \in Thread : pc'[u] = IF u = t THEN "out" ELSE pc[u]
  BY <1>1, <1>2, LeaveFacts
<1>4. /\ Line' /\ HolderIsFirst' /\ Behind'
      /\ \A u \in Thread : Waiting(u)' <=> Waiting(u)
      /\ \A u \in Thread : Waiting(u) => ~ First(arrivals, u) /\ u # t
      /\ \A u \in Thread : At(u, "out")' <=> At(u, "out") \/ u = t
      /\ \A u \in Thread : ~ At(u, "pass")'
      /\ \A u \in Thread : pc'[u] \in {"init1", "init2", "xchg"} <=>
                           pc[u] \in {"init1", "init2", "xchg"}
      /\ \A p, u \in Thread : p # t /\ LinkedBehind(p, u) => LinkedBehind(p, u)'
  BY <1>1, <1>2, LeaveLineInv
<1>0. /\ \A p \in Thread : next(node[p]) \in LockLoc /\ locked(node[p]) \in LockLoc
      /\ \A p \in Thread : next(node[p]) # msl /\ locked(node[p]) # msl
      /\ \A p, u \in Thread : node[p] = node[u] => p = u
      /\ msl \in LockLoc /\ mem \in [LockLoc -> LockVal] /\ NULL \in LockVal
  BY Facts DEF LockVal
<1>5. Final(arrivals, t)
  <2>1. PICK u \in Thread : Final(arrivals, u)
    BY <1>3, Facts, LineFacts
  <2>2. mem[msl] = node[u]
    BY <1>3, <2>1 DEF IInv, TailIsLast, Final
  <2> QED BY <1>0, <1>1, <2>1, <2>2
<1>6. \A u \in Thread : ~ Waiting(u)
  <2>1. arrivals' = << >>
    BY <1>3, <1>5
  <2>2. \A u \in Thread : ~ InLine(arrivals', u)
    BY <2>1 DEF InLine
  <2> QED BY <1>4, <2>2 DEF Line, Queued
<1>7. /\ \A y \in LockLoc : y # msl => mem'[y] = mem[y]
      /\ mem'[msl] = NULL
  BY <1>0, <1>1
<1>8. Types'
  <2>1. MemTypeOK(Thread, LockLoc, LockVal)'
    BY <1>0, <1>1 DEF IInv, Types, MemTypeOK
  <2> QED BY <1>1, <1>3, <2>1 DEF IInv, Types, LockTypeOK
<1>9. LinkerIsBehind'
  BY <1>4, <1>6 DEF LinkerIsBehind, Waiting, At
<1>10. NextWords'
  <2> SUFFICES ASSUME NEW p \in Thread, mem[next(node[p])] # NULL, p # t, ~ At(p, "out")
               PROVE  \E u \in Thread : LinkedBehind(p, u)' /\ mem[next(node[p])] = node[u]
    BY <1>0, <1>1, <1>4, <1>7 DEF NextWords
  <2> QED BY <1>4 DEF IInv, NextWords
<1>11. NextStores' /\ NoTailStores'
  <2> SUFFICES ASSUME NEW u \in Thread, NEW p \in Thread, NEW w,
                      Holds(buf[u], next(node[p]), w)
               PROVE  NextStoreOK(u, p, w)'
    BY <1>1 DEF NextStores, IInv, NoTailStores
  <2> QED BY <1>1, <1>4 DEF IInv, NextStores, NextStoreOK
<1>12. LockedStores'
  BY <1>1, <1>4, <1>6 DEF IInv, LockedStores, LockedStoreOK
<1>13. StillLocked'
  <2>1. \A p \in Thread : mem'[locked(node[p])] = mem[locked(node[p])]
    BY <1>0, <1>7
  <2>2. \A u \in Thread : pc'[u] \in {"init2", "xchg"} => pc[u] \in {"init2", "xchg"}
    BY <1>3
  <2> QED BY <1>1, <1>4, <1>6, <2>1, <2>2 DEF IInv, StillLocked
<1>14. PassReady'
  BY <1>4 DEF PassReady
<1>15. TailIsLast'
  BY <1>3, <1>5, <1>7 DEF TailIsLast
<1> QED BY <1>3, <1>4, <1>8, <1>9, <1>10, <1>11, <1>12, <1>13, <1>14, <1>15 DEF IInv

(* The lock is handed to the thread behind, whose node the next pointer    *)
(* names.                                                                  *)
LEMMA PassStep ==
  ASSUME IInv, NEW t \in Thread, Pass(t)
  PROVE  /\ IInv'
         /\ First(arrivals, t)
<1>1. /\ pc[t] = "pass"
      /\ Put(t, locked(Load(t, next(node[t]))), 0, TRUE)
      /\ arrivals' = Tail(arrivals)
      /\ Goto(t, "out")
      /\ node' = node /\ prev' = prev
  BY DEF Pass, At, StoreRelease
<1>2. Inside(t)
  BY <1>1 DEF Inside
<1>3. /\ First(arrivals, t) /\ arrivals # << >>
      /\ arrivals' \in Seq(Thread)
      /\ \A u \in Thread : First(arrivals', u) <=> Follows(arrivals, t, u)
      /\ arrivals' = << >> <=> Final(arrivals, t)
      /\ arrivals' # << >> => arrivals'[Len(arrivals')] = arrivals[Len(arrivals)]
      /\ pc' \in [Thread -> LockPC]
      /\ \A u \in Thread : pc'[u] = IF u = t THEN "out" ELSE pc[u]
  BY <1>1, <1>2, LeaveFacts
<1>4. /\ Line' /\ HolderIsFirst' /\ Behind'
      /\ \A u \in Thread : Waiting(u)' <=> Waiting(u)
      /\ \A u \in Thread : Waiting(u) => ~ First(arrivals, u) /\ u # t
      /\ \A u \in Thread : At(u, "link")' <=> At(u, "link")
      /\ \A u \in Thread : At(u, "out")' <=> At(u, "out") \/ u = t
      /\ \A u \in Thread : ~ At(u, "pass")'
      /\ \A u \in Thread : pc'[u] \in {"init1", "init2", "xchg"} <=>
                           pc[u] \in {"init1", "init2", "xchg"}
      /\ \A p, u \in Thread : p # t /\ LinkedBehind(p, u) => LinkedBehind(p, u)'
  BY <1>1, <1>2, LeaveLineInv
<1>0. /\ \A p \in Thread : next(node[p]) \in LockLoc /\ locked(node[p]) \in LockLoc
      /\ \A p \in Thread : next(node[p]) # msl /\ locked(node[p]) # msl
      /\ \A p, u \in Thread : next(node[p]) # locked(node[u])
      /\ \A p, u \in Thread : locked(node[p]) = locked(node[u]) => p = u
      /\ msl \in LockLoc /\ 0 \in LockVal
  BY Facts DEF LockVal
<1>5. /\ mem[next(node[t])] # NULL
      /\ Load(t, next(node[t])) = mem[next(node[t])]
  <2>1. mem[next(node[t])] # NULL /\ \A v : ~ Holds(buf[t], next(node[t]), v)
    BY <1>1 DEF IInv, PassReady, At
  <2>2. Pending(t, next(node[t])) = {}
    BY <2>1, PendingHolds
  <2> QED BY <2>1, <2>2 DEF Load
<1>6. PICK s \in Thread : LinkedBehind(t, s) /\ mem[next(node[t])] = node[s]
  BY <1>1, <1>5 DEF IInv, NextWords, At
<1>7. /\ Follows(arrivals, t, s) /\ ~ At(s, "link")
      /\ s # t /\ ~ Final(arrivals, t)
      /\ Waiting(s)
      /\ \A u \in Thread : Follows(arrivals, t, u) => u = s
  <2>1. Follows(arrivals, t, s) /\ ~ At(s, "link")
    BY <1>6 DEF LinkedBehind
  <2>2. s # t /\ ~ Final(arrivals, t) /\ ~ First(arrivals, s) /\ InLine(arrivals, s)
    BY <2>1, Facts, LineFacts
  <2>3. \A u \in Thread : Follows(arrivals, t, u) => u = s
    BY <2>1, Facts, LineFacts
  <2> QED BY <2>1, <2>2, <2>3 DEF IInv, Line, Queued, HolderIsFirst
<1> DEFINE x == locked(node[s])
<1>8. /\ MemTypeOK(Thread, LockLoc, LockVal)'
      /\ \A y \in LockLoc : y # x => mem'[y] = mem[y]
      /\ \A u \in Thread : \A y, w :
           Holds(buf'[u], y, w) => Holds(buf[u], y, w) \/ (u = t /\ y = x /\ w = 0)
      /\ \A u \in Thread : \A y, w : Holds(buf[u], y, w) => Holds(buf'[u], y, w)
  <2>1. Put(t, x, 0, TRUE) /\ TRUE \in BOOLEAN /\ x \in LockLoc
    BY <1>0, <1>1, <1>5, <1>6
  <2> HIDE DEF x
  <2> QED BY <1>0, <2>1, StoreFacts, Zenon
<1>9. Types'
  BY <1>1, <1>3, <1>8 DEF IInv, Types, LockTypeOK
<1>10. LinkerIsBehind'
  BY <1>3, <1>4, <1>7 DEF LinkerIsBehind
<1>11. NextWords'
  <2> SUFFICES ASSUME NEW p \in Thread, mem[next(node[p])] # NULL, p # t, ~ At(p, "out")
               PROVE  \E u \in Thread : LinkedBehind(p, u)' /\ mem[next(node[p])] = node[u]
    BY <1>0, <1>1, <1>4, <1>8 DEF NextWords
  <2> QED BY <1>4 DEF IInv, NextWords
<1>12. NextStores'
  <2> SUFFICES ASSUME NEW u \in Thread, NEW p \in Thread, NEW w,
                      Holds(buf'[u], next(node[p]), w)
               PROVE  NextStoreOK(u, p, w)'
    BY <1>1 DEF NextStores
  <2>1. Holds(buf[u], next(node[p]), w)
    BY <1>0, <1>8
  <2> QED BY <1>1, <1>4, <2>1 DEF IInv, NextStores, NextStoreOK
<1>13. LockedStores'
  <2> SUFFICES ASSUME NEW u \in Thread, NEW p \in Thread, NEW w,
                      Holds(buf'[u], locked(node[p]), w)
               PROVE  LockedStoreOK(u, p, w)'
    BY <1>1 DEF LockedStores
  <2>1. CASE Holds(buf[u], locked(node[p]), w)
    BY <1>1, <1>4, <2>1 DEF IInv, LockedStores, LockedStoreOK
  <2>2. CASE u = t /\ locked(node[p]) = x /\ w = 0
    <3>1. p = s
      BY <1>0, <2>2
    <3> QED BY <1>1, <1>3, <1>4, <1>7, <2>2, <3>1 DEF LockedStoreOK, Waiting
  <2> QED BY <1>8, <2>1, <2>2
<1>14. NoTailStores'
  BY <1>0, <1>8 DEF IInv, NoTailStores
<1>15. StillLocked'
  <2> SUFFICES ASSUME NEW u \in Thread,
                      \/ pc'[u] \in {"init2", "xchg"}
                      \/ Waiting(u) /\ ~ First(arrivals', u)
               PROVE  mem'[locked(node[u])] = 1 \/ Holds(buf'[u], locked(node[u]), 1)
    BY <1>1, <1>4 DEF StillLocked
  <2>1. u # s /\ (pc[u] \in {"init2", "xchg"} \/ (Waiting(u) /\ ~ First(arrivals, u)))
    BY <1>3, <1>4, <1>7 DEF Waiting
  <2>2. mem[locked(node[u])] = 1 \/ Holds(buf[u], locked(node[u]), 1)
    BY <2>1 DEF IInv, StillLocked
  <2>3. locked(node[u]) # x
    BY <1>0, <2>1
  <2> HIDE DEF x
  <2> QED BY <1>0, <1>8, <2>2, <2>3
<1>16. PassReady'
  BY <1>4 DEF PassReady
<1>17. TailIsLast'
  <2>1. mem'[msl] = mem[msl]
    BY <1>0, <1>8
  <2> QED BY <1>1, <1>3, <1>7, <2>1 DEF IInv, TailIsLast
<1> QED BY <1>3, <1>4, <1>9, <1>10, <1>11, <1>12, <1>13, <1>14, <1>15, <1>16, <1>17 DEF IInv

-----------------------------------------------------------------------------
(* A buffered store becomes visible.                                       *)
LEMMA FlushStep ==
  ASSUME IInv, NEW t \in Thread, Flush(t)
  PROVE  IInv'
<1>1. PICK x \in DOMAIN mem : Commit(t, x)
  BY DEF Flush
<1>2. /\ pc' = pc /\ node' = node /\ prev' = prev /\ arrivals' = arrivals
  BY DEF Flush, lockVars
<1>3. x \in LockLoc /\ mem \in [LockLoc -> LockVal]
  BY Facts
<1>8. /\ MemTypeOK(Thread, LockLoc, LockVal)'
      /\ \A u \in Thread : \A y, w : Holds(buf'[u], y, w) => Holds(buf[u], y, w)
  <2>1. MemTypeOK(Thread, LockLoc, LockVal)
    BY Facts
  <2> QED BY <1>1, <1>3, <2>1, CommitHolds, Zenon
<1>4. PICK v \in LockVal :
      /\ Holds(buf[t], x, v)
      /\ mem' = [mem EXCEPT ![x] = v]
      /\ \A u \in Thread : \A y, w :
           Holds(buf[u], y, w) /\ (u # t \/ y # x \/ w # v) => Holds(buf'[u], y, w)
  <2>1. MemTypeOK(Thread, LockLoc, LockVal)
    BY Facts
  <2> QED BY <1>1, <1>3, <2>1, CommitHolds, SMTT(30)
<1>5. mem'[x] = v /\ \A y \in LockLoc : y # x => mem'[y] = mem[y]
  BY <1>3, <1>4
<1>0. /\ \A p \in Thread : next(node[p]) \in LockLoc /\ locked(node[p]) \in LockLoc
      /\ \A p \in Thread : next(node[p]) # msl /\ locked(node[p]) # msl
      /\ \A p \in Thread : node[p] # NULL
      /\ \A p, u \in Thread : next(node[p]) # locked(node[u])
      /\ \A p, u \in Thread : next(node[p]) = next(node[u]) => p = u
      /\ \A p, u \in Thread : locked(node[p]) = locked(node[u]) => p = u
      /\ msl \in LockLoc
  BY Facts
<1>6. /\ \A u \in Thread : Queued(u)' <=> Queued(u)
      /\ \A u \in Thread : Waiting(u)' <=> Waiting(u)
      /\ \A u \in Thread : Inside(u)' <=> Inside(u)
      /\ \A u : \A l : At(u, l)' <=> At(u, l)
      /\ \A p, u \in Thread : LinkedBehind(p, u)' <=> LinkedBehind(p, u)
  BY <1>2 DEF Queued, Waiting, Inside, At, LinkedBehind
<1>7. Types'
  BY <1>2, <1>8 DEF IInv, Types, LockTypeOK
<1>15. Line' /\ HolderIsFirst' /\ Behind' /\ LinkerIsBehind'
  BY <1>2, <1>6 DEF IInv, Line, HolderIsFirst, Behind, LinkerIsBehind
<1>9. NextWords'
  <2> SUFFICES ASSUME NEW p \in Thread, mem'[next(node[p])] # NULL
               PROVE  \/ At(p, "out")
                      \/ \E u \in Thread : LinkedBehind(p, u) /\ mem'[next(node[p])] = node[u]
    BY <1>2, <1>6 DEF NextWords
  <2>1. CASE next(node[p]) # x
    BY <1>0, <1>5, <2>1 DEF IInv, NextWords
  <2>2. CASE next(node[p]) = x
    BY <1>4, <1>5, <2>2 DEF IInv, NextStores, NextStoreOK
  <2> QED BY <2>1, <2>2
<1>10. NextStores'
  <2> SUFFICES ASSUME NEW u \in Thread, NEW p \in Thread, NEW w,
                      Holds(buf'[u], next(node[p]), w)
               PROVE  NextStoreOK(u, p, w)'
    BY <1>2 DEF NextStores
  <2>1. NextStoreOK(u, p, w)
    BY <1>8 DEF IInv, NextStores
  <2> QED BY <1>2, <1>6, <2>1 DEF NextStoreOK
<1>11. LockedStores' /\ NoTailStores'
  <2>1. NoTailStores'
    BY <1>8 DEF IInv, NoTailStores
  <2> SUFFICES ASSUME NEW u \in Thread, NEW p \in Thread, NEW w,
                      Holds(buf'[u], locked(node[p]), w)
               PROVE  LockedStoreOK(u, p, w)'
    BY <1>2, <2>1 DEF LockedStores
  <2>2. LockedStoreOK(u, p, w)
    BY <1>8 DEF IInv, LockedStores
  <2> QED BY <1>2, <1>6, <2>2 DEF LockedStoreOK
<1>12. StillLocked'
  <2> SUFFICES ASSUME NEW u \in Thread,
                      \/ pc[u] \in {"init2", "xchg"}
                      \/ Waiting(u) /\ ~ First(arrivals, u)
               PROVE  mem'[locked(node[u])] = 1 \/ Holds(buf'[u], locked(node[u]), 1)
    BY <1>2, <1>6 DEF StillLocked
  <2>1. mem[locked(node[u])] = 1 \/ Holds(buf[u], locked(node[u]), 1)
    BY DEF IInv, StillLocked
  <2>2. CASE locked(node[u]) # x
    BY <1>0, <1>4, <1>5, <2>1, <2>2
  <2>3. CASE locked(node[u]) = x
    <3>1. t = u /\ v = 1
      BY <1>4, <2>3 DEF IInv, LockedStores, LockedStoreOK
    <3> QED BY <1>5, <2>3, <3>1
  <2> QED BY <2>2, <2>3
<1>13. PassReady'
  <2> SUFFICES ASSUME NEW u \in Thread, At(u, "pass")
               PROVE  /\ mem'[next(node[u])] # NULL
                      /\ \A w : ~ Holds(buf'[u], next(node[u]), w)
    BY <1>2, <1>6 DEF PassReady
  <2>1. mem[next(node[u])] # NULL /\ \A w : ~ Holds(buf[u], next(node[u]), w)
    BY DEF IInv, PassReady
  <2>2. mem'[next(node[u])] # NULL
    <3>1. CASE next(node[u]) # x
      BY <1>0, <1>5, <2>1, <3>1
    <3>2. CASE next(node[u]) = x
      <4>1. t # u
        BY <1>4, <2>1, <3>2
      <4>2. v = node[t]
        BY <1>4, <3>2, <4>1 DEF IInv, NextStores, NextStoreOK
      <4> QED BY <1>0, <1>5, <3>2, <4>2
    <3> QED BY <3>1, <3>2
  <2> QED BY <1>8, <2>1, <2>2
<1>14. TailIsLast'
  <2>1. x # msl
    BY <1>4 DEF IInv, NoTailStores
  <2> QED BY <1>0, <1>2, <1>5, <2>1 DEF IInv, TailIsLast
<1> QED BY <1>7, <1>15, <1>9, <1>10, <1>11, <1>12, <1>13, <1>14 DEF IInv

-----------------------------------------------------------------------------
(* A thread that has found its locked cleared is the first of the line.    *)
LEMMA SpinnerIsFirst ==
  ASSUME IInv, NEW t \in Thread, Spin(t)
  PROVE  First(arrivals, t)
<1>1. Waiting(t) /\ Load(t, locked(node[t])) = 0
  BY DEF Spin, Waiting, At
<1>2. /\ MemTypeOK(Thread, LockLoc, LockVal)
      /\ locked(node[t]) \in LockLoc
  BY Facts
<1>3. ~ Holds(buf[t], locked(node[t]), 0)
  <2>1. Holds(buf[t], locked(node[t]), 0) => 0 = 1
    BY DEF IInv, LockedStores, LockedStoreOK
  <2> QED BY <2>1
<1>4. /\ mem[locked(node[t])] = 0
      /\ \A v : ~ Holds(buf[t], locked(node[t]), v)
  BY <1>1, <1>2, <1>3, LoadHolds
<1> QED BY <1>1, <1>4 DEF IInv, StillLocked

(* A holder that reads a next pointer which is not NULL reads memory.      *)
LEMMA HolderReadsNext ==
  ASSUME IInv, NEW t \in Thread, Load(t, next(node[t])) # NULL
  PROVE  /\ mem[next(node[t])] # NULL
         /\ \A v : ~ Holds(buf[t], next(node[t]), v)
<1>1. /\ MemTypeOK(Thread, LockLoc, LockVal)
      /\ next(node[t]) \in LockLoc
  BY Facts
<1>2. ~ Holds(buf[t], next(node[t]), Load(t, next(node[t])))
  BY DEF IInv, NextStores, NextStoreOK
<1> QED BY <1>1, <1>2, LoadHolds

(* Every step of a thread preserves the invariant.                         *)
LEMMA StepInv ==
  ASSUME IInv, NEW t \in Thread, Step(t)
  PROVE  IInv'
<1>1. CASE Init1(t) \/ Init2(t)
  BY <1>1, InitStep
<1>2. CASE Exchange(t)
  BY <1>2, ExchangeStep
<1>3. CASE Link(t)
  BY <1>3, LinkStep
<1>4. CASE Fence(t)
  BY <1>4, QuietStep DEF Fence, At
<1>5. CASE Spin(t)
  BY <1>5, QuietStep, SpinnerIsFirst DEF Spin, At
<1>6. ASSUME Inside(t) PROVE First(arrivals, t)
  BY <1>6 DEF IInv, HolderIsFirst
<1>7. CASE CheckNext(t)
  BY <1>6, <1>7, QuietStep, HolderReadsNext DEF CheckNext, At, Inside
<1>8. CASE CasFail(t)
  BY <1>6, <1>8, QuietStep DEF CasFail, At, Inside
<1>9. CASE WaitNext(t)
  BY <1>6, <1>9, QuietStep, HolderReadsNext DEF WaitNext, At, Inside
<1>10. CASE CasFree(t)
  BY <1>10, CasFreeStep
<1>11. CASE Pass(t)
  BY <1>11, PassStep
<1> QED BY <1>1, <1>2, <1>3, <1>4, <1>5, <1>7, <1>8, <1>9, <1>10, <1>11
        DEF Step, LockStep, UnlockStep

(* A stuttering step preserves the invariant.                              *)
LEMMA StutterInv ==
  ASSUME IInv, UNCHANGED vars
  PROVE  IInv'
  BY DEF vars, lockVars, IInv, Types, MemTypeOK, LockTypeOK, Line, Queued, Inside, Waiting,
     HolderIsFirst, Behind, LinkerIsBehind, At, NextWords, NextStores, NextStoreOK,
     LinkedBehind, LockedStores, LockedStoreOK, NoTailStores, StillLocked, PassReady, TailIsLast

(* Every step preserves the invariant.                                     *)
LEMMA NextInv == IInv /\ [Next]_vars => IInv'
  BY StepInv, FlushStep, StutterInv DEF Next

(* The invariant holds in every reachable state.                           *)
THEOREM Invariance == Spec => []IInv
  BY InitInv, NextInv, PTL DEF Spec

-----------------------------------------------------------------------------
(* What the code promises.                                                 *)

(* Who is inside, or has been granted the lock, is first in the line.      *)
LEMMA TokenInv == IInv => OneToken
<1>1. ASSUME IInv, NEW t \in Thread, Inside(t) \/ Granted(t)
      PROVE  First(arrivals, t)
  <2>1. CASE Inside(t)
    BY <1>1, <2>1 DEF IInv, HolderIsFirst
  <2>2. CASE Waiting(t) /\ mem[locked(node[t])] = 0 /\ Pending(t, locked(node[t])) = {}
    <3>1. ~ Holds(buf[t], locked(node[t]), 1)
      BY <2>2, PendingHolds
    <3> QED BY <1>1, <2>2, <3>1 DEF IInv, StillLocked
  <2>3. CASE Waiting(t) /\ \E u \in Thread : u # t /\ Pending(u, locked(node[t])) # {}
    <3>1. PICK u \in Thread : u # t /\ Pending(u, locked(node[t])) # {}
      BY <2>3
    <3>2. PICK v : Holds(buf[u], locked(node[t]), v)
      BY <3>1, PendingHolds
    <3> QED BY <1>1, <2>3, <3>1, <3>2 DEF IInv, LockedStores, LockedStoreOK
  <2> QED BY <1>1, <2>1, <2>2, <2>3 DEF Granted
<1> QED BY <1>1, Facts, LineFacts DEF OneToken

(* Between a thread's first use of the lock and the next one's there is    *)
(* never a moment with two tokens: a thread inside rte_mcslock_lock .. _unlock, *)
(* and a store of 0 to some node's locked, in memory or still in a buffer, *)
(* exclude each other, for any number of threads, on all four memories.    *)
THEOREM Token == Spec => []OneToken
  BY TokenInv, Invariance, PTL

(* rte_mcslock_unlock tests me->next and then loads it once more to clear  *)
(* the successor's locked: the second load never sees NULL again.          *)
THEOREM SecondLoad == Spec => []NextStaysSet
<1>1. IInv => NextStaysSet
  <2> SUFFICES ASSUME IInv, NEW t \in Thread, At(t, "pass")
               PROVE  Load(t, next(node[t])) # NULL
    BY DEF NextStaysSet
  <2>1. mem[next(node[t])] # NULL /\ \A v : ~ Holds(buf[t], next(node[t]), v)
    BY DEF IInv, PassReady
  <2>2. Pending(t, next(node[t])) = {}
    BY <2>1, PendingHolds
  <2> QED BY <2>1, <2>2 DEF Load
<1> QED BY <1>1, Invariance, PTL

(* *msl is the node of the last thread to arrive, NULL when the line is    *)
(* empty: the compare-and-exchange of rte_mcslock_unlock frees the lock    *)
(* only when nobody waits.                                                 *)
THEOREM TailOfLine == Spec => []TailIsLast
<1>1. IInv => TailIsLast
  BY DEF IInv
<1> QED BY <1>1, Invariance, PTL

-----------------------------------------------------------------------------
(* The lock implements the queue of FifoLock: a thread arrives with its    *)
(* exchange, enters with the exchange or when its spin ends, and leaves    *)
(* with the compare-and-exchange or the hand-over.                         *)

InsideSet == {t \in Thread : Inside(t)}

(* An exchange is an arrival, and an entry too if the line was empty.      *)
LEMMA QueueArrive ==
  ASSUME IInv, NEW t \in Thread, Exchange(t)
  PROVE  Queue!Arrive(t)
<1>1. /\ ~ InLine(arrivals, t)
      /\ arrivals' = Append(arrivals, t)
      /\ pc[t] = "xchg"
      /\ \/ arrivals = << >> /\ Goto(t, "cs")
         \/ arrivals # << >> /\ Goto(t, "link")
  BY ExchangeStep DEF At
<1>2. ~ Queue!InQueue(t)
  BY <1>1 DEF Queue!InQueue, InLine
<1>3. ASSUME arrivals = << >>, Goto(t, "cs")
      PROVE  InsideSet' = {t}
  <2>1. \A u \in Thread : pc'[u] = IF u = t THEN "cs" ELSE pc[u]
    BY <1>3, Facts DEF Goto
  <2>2. \A u \in Thread : ~ Inside(u)
    BY <1>3, EmptyLine DEF IInv, HolderIsFirst
  <2>3. \A u \in Thread : Inside(u)' <=> u = t
    BY <2>1, <2>2 DEF Inside
  <2> QED BY <2>3 DEF InsideSet
<1>4. ASSUME Goto(t, "link")
      PROVE  InsideSet' = InsideSet
  <2>1. \A u \in Thread : pc'[u] = IF u = t THEN "link" ELSE pc[u]
    BY <1>4, Facts DEF Goto
  <2>2. \A u \in Thread : Inside(u)' <=> Inside(u)
    BY <1>1, <2>1 DEF Inside
  <2> QED BY <2>2 DEF InsideSet
<1>5. InsideSet' \in {InsideSet, IF arrivals = << >> THEN {t} ELSE InsideSet}
  BY <1>1, <1>3, <1>4
<1> QED BY <1>1, <1>2, <1>5 DEF Queue!Arrive, InsideSet

(* The end of a spin is an entry.                                          *)
LEMMA QueueEnter ==
  ASSUME IInv, NEW t \in Thread, Spin(t)
  PROVE  Queue!Enter(t)
<1>1. /\ pc[t] = "spin" /\ Goto(t, "cs") /\ arrivals' = arrivals
      /\ First(arrivals, t)
  BY SpinnerIsFirst DEF Spin, At
<1>2. \A u \in Thread : Inside(u) => u = t
  BY <1>1, Facts, LineFacts DEF IInv, HolderIsFirst
<1>3. ~ Inside(t)
  BY <1>1 DEF Inside
<1>4. \A u \in Thread : pc'[u] = IF u = t THEN "cs" ELSE pc[u]
  BY <1>1, Facts DEF Goto
<1>5. InsideSet = {} /\ InsideSet' = {t}
  BY <1>2, <1>3, <1>4 DEF InsideSet, Inside
<1>6. arrivals # << >> /\ t = Head(arrivals)
  BY <1>1, Facts DEF First
<1> QED BY <1>1, <1>5, <1>6 DEF Queue!Enter, InsideSet

(* The compare-and-exchange and the hand-over leave.                       *)
LEMMA QueueLeave ==
  ASSUME IInv, NEW t \in Thread, CasFree(t) \/ Pass(t)
  PROVE  Queue!Leave(t)
<1>1. Inside(t) /\ Goto(t, "out") /\ arrivals' = Tail(arrivals)
  BY DEF CasFree, Pass, At, Inside
<1>2. \A u \in Thread : Inside(u) => u = t
  BY <1>1, Facts, LineFacts DEF IInv, HolderIsFirst
<1>3. \A u \in Thread : pc'[u] = IF u = t THEN "out" ELSE pc[u]
  BY <1>1, Facts DEF Goto
<1>4. InsideSet = {t} /\ InsideSet' = {}
  BY <1>1, <1>2, <1>3 DEF InsideSet, Inside
<1> QED BY <1>1, <1>4 DEF Queue!Leave, InsideSet

(* The queue starts empty.                                                 *)
LEMMA QueueInit == Init => Queue!Init
  BY DEF Init, Queue!Init, Inside

(* Every other step leaves the queue and the threads inside as they are.   *)
LEMMA QueueStep == IInv /\ [Next]_vars => [Queue!Next]_(Queue!vars)
<1> SUFFICES ASSUME IInv, [Next]_vars PROVE [Queue!Next]_(Queue!vars)
  OBVIOUS
<1>1. ASSUME arrivals' = arrivals, \A u \in Thread : Inside(u)' <=> Inside(u)
      PROVE  UNCHANGED Queue!vars
  BY <1>1 DEF Queue!vars
<1>2. ASSUME NEW t \in Thread, NEW l, Goto(t, l), arrivals' = arrivals,
             pc[t] \in {"cs", "cas", "wait", "pass"} <=> l \in {"cs", "cas", "wait", "pass"}
      PROVE  UNCHANGED Queue!vars
  <2>1. \A u \in Thread : pc'[u] = IF u = t THEN l ELSE pc[u]
    BY <1>2, Facts DEF Goto
  <2>2. \A u \in Thread : Inside(u)' <=> Inside(u)
    BY <1>2, <2>1 DEF Inside
  <2> QED BY <1>1, <1>2, <2>2
<1>3. ASSUME NEW t \in Thread, Step(t)
      PROVE  (\E u \in Thread : Queue!Arrive(u) \/ Queue!Enter(u) \/ Queue!Leave(u))
               \/ UNCHANGED Queue!vars
  <2>1. CASE Init1(t) \/ Init2(t) \/ Link(t) \/ Fence(t) \/ CheckNext(t) \/ CasFail(t) \/ WaitNext(t)
    BY <1>2, <2>1 DEF Init1, Init2, Link, Fence, CheckNext, CasFail, WaitNext, At
  <2>2. CASE Exchange(t)
    BY <2>2, QueueArrive
  <2>3. CASE Spin(t)
    BY <2>3, QueueEnter
  <2>4. CASE CasFree(t) \/ Pass(t)
    BY <2>4, QueueLeave
  <2> QED BY <1>3, <2>1, <2>2, <2>3, <2>4, Zenon DEF Step, LockStep, UnlockStep
<1>4. ASSUME NEW t \in Thread, Flush(t)
      PROVE  UNCHANGED Queue!vars
  BY <1>1, <1>4 DEF Flush, lockVars, Inside
<1>5. CASE UNCHANGED vars
  BY <1>1, <1>5 DEF vars, lockVars, Inside
<1> QED BY <1>3, <1>4, <1>5 DEF Next, Queue!Next

(* rte_mcslock_lock and rte_mcslock_unlock serve their threads one at a    *)
(* time and in the order of their exchanges on the tail pointer: the lock  *)
(* implements FifoLock.                                                    *)
THEOREM Fifo == Spec => ServesInOrder
<1>1. IInv /\ [Next]_vars => [Queue!Next]_(Queue!vars)
  BY QueueStep
<1> QED BY <1>1, QueueInit, Invariance, PTL DEF Spec, ServesInOrder, Queue!Spec

-----------------------------------------------------------------------------
(* On SC and on x86 a node is initialised before it can be linked: nothing *)
(* waits in a buffer on SC, and on x86 the exchange waits for the buffer.  *)

NodeDone(t) ==
  pc[t] \notin {"init1", "init2", "xchg"} =>
    \A v : ~ Holds(buf[t], next(node[t]), v) /\ ~ Holds(buf[t], locked(node[t]), v)

DoneInv ==
  /\ Model = "SC" => \A t \in Thread : \A x, v : ~ Holds(buf[t], x, v)
  /\ Model = "TSO" => \A t \in Thread : NodeDone(t)

(* Every step preserves it.                                                *)
LEMMA DoneStep == IInv /\ DoneInv /\ [Next]_vars => DoneInv'
<1> SUFFICES ASSUME IInv, DoneInv, [Next]_vars PROVE DoneInv'
  OBVIOUS
<1>0. /\ \A p \in Thread : next(node[p]) \in LockLoc /\ locked(node[p]) \in LockLoc
      /\ \A p, u \in Thread : next(node[p]) # locked(node[u])
      /\ \A p, u \in Thread : next(node[p]) = next(node[u]) => p = u
      /\ \A p, u \in Thread : locked(node[p]) = locked(node[u]) => p = u
      /\ \A p \in Thread : node[p] \in LockVal
      /\ 0 \in LockVal /\ 1 \in LockVal /\ NULL \in LockVal
      /\ MemTypeOK(Thread, LockLoc, LockVal)
  BY Facts DEF LockVal
<1>1. ASSUME NEW t \in Thread, Step(t), Model = "SC"
      PROVE  buf' = buf
  BY <1>1 DEF Step, LockStep, UnlockStep, Init1, Init2, Exchange, Link, Fence, Spin, CheckNext,
     CasFree, CasFail, WaitNext, Pass, SetMem, Store, StoreRelease, Put
<1>2. ASSUME NEW t \in Thread, Flush(t)
      PROVE  /\ \A u \in Thread : \A y, w : Holds(buf'[u], y, w) => Holds(buf[u], y, w)
             /\ pc' = pc /\ node' = node
  <2>1. PICK x \in DOMAIN mem : Commit(t, x)
    BY <1>2 DEF Flush
  <2>2. x \in LockLoc
    BY Facts
  <2> QED BY <1>0, <1>2, <2>1, <2>2, CommitHolds DEF Flush, lockVars
<1>3. Model = "SC" => \A t \in Thread : \A x, v : ~ Holds(buf'[t], x, v)
  BY <1>1, <1>2 DEF DoneInv, Next, vars
<1>4. ASSUME NEW t \in Thread, Step(t), Model = "TSO", NEW u \in Thread
      PROVE  NodeDone(u)'
  <2>1. NodeDone(u)
    BY <1>4 DEF DoneInv
  <2>2. pc \in [Thread -> LockPC] /\ node' = node
    BY <1>4, Facts DEF Step, LockStep, UnlockStep, Init1, Init2, Exchange, Link, Fence, Spin,
       CheckNext, CasFree, CasFail, WaitNext, Pass
  <2>3. ASSUME buf' = buf, NEW l, Goto(t, l),
               l \notin {"init1", "init2", "xchg"} /\ u = t =>
                 pc[t] \notin {"init1", "init2", "xchg"}
        PROVE  NodeDone(u)'
    BY <2>1, <2>2, <2>3 DEF NodeDone, Goto
  <2>4. CASE Init1(t) \/ Init2(t)
    <3>1. PICK x \in LockLoc, v \in LockVal, l \in {"init2", "xchg"} :
            Put(t, x, v, FALSE) /\ Goto(t, l)
      BY <1>0, <2>4 DEF Init1, Init2, Store
    <3>2. \A y, w : Holds(buf'[u], y, w) => Holds(buf[u], y, w) \/ u = t
      BY <3>1, StoreFacts
    <3>3. pc'[u] = IF u = t THEN l ELSE pc[u]
      BY <2>2, <3>1 DEF Goto
    <3> QED BY <2>1, <2>2, <3>1, <3>2, <3>3 DEF NodeDone
  <2>5. CASE Exchange(t)
    <3>1. buf' = buf /\ \A x, v : ~ Holds(buf[t], x, v)
      BY <1>4, <2>5, DrainedHolds DEF Exchange, CanRMW, SetMem
    <3>2. u # t => pc'[u] = pc[u]
      BY <2>2, <2>5 DEF Exchange, Goto
    <3> QED BY <2>1, <2>2, <3>1, <3>2 DEF NodeDone
  <2>6. CASE Link(t)
    <3>1. PICK h \in Thread : Follows(arrivals, h, t)
      <4>1. InLine(arrivals, t) /\ ~ First(arrivals, t)
        BY <2>6 DEF Link, IInv, Line, Queued, Waiting, LinkerIsBehind, At
      <4> QED BY <4>1, Facts, LineFacts
    <3>2. prev[t] = node[h] /\ h # t
      BY <3>1, Facts, LineFacts DEF IInv, Behind
    <3>3. /\ pc[t] = "link" /\ Goto(t, "fence")
          /\ Put(t, next(node[h]), node[t], FALSE)
      BY <2>6, <3>2 DEF Link, At, Store
    <3>4. \A y, w : Holds(buf'[u], y, w) =>
            Holds(buf[u], y, w) \/ (u = t /\ y = next(node[h]))
      <4> DEFINE x == next(node[h])
      <4>1. \A q \in Thread : \A y, w :
              Holds(buf'[q], y, w) => Holds(buf[q], y, w) \/ (q = t /\ y = x /\ w = node[t])
        <5>1. Put(t, x, node[t], FALSE) /\ FALSE \in BOOLEAN /\ x \in LockLoc /\ node[t] \in LockVal
          BY <1>0, <3>3
        <5> HIDE DEF x
        <5> QED BY <5>1, StoreFacts, Zenon
      <4> QED BY <4>1
    <3>5. pc'[u] = IF u = t THEN "fence" ELSE pc[u]
      BY <2>2, <3>3 DEF Goto
    <3> QED BY <1>0, <2>1, <2>2, <3>2, <3>3, <3>4, <3>5 DEF NodeDone
  <2>7. CASE Pass(t)
    <3>1. pc[t] = "pass" /\ Goto(t, "out") /\ Inside(t)
      BY <2>7 DEF Pass, At, Inside
    <3>2. /\ mem[next(node[t])] # NULL
          /\ Load(t, next(node[t])) = mem[next(node[t])]
      <4>1. mem[next(node[t])] # NULL /\ \A v : ~ Holds(buf[t], next(node[t]), v)
        BY <3>1 DEF IInv, PassReady, At
      <4>2. Pending(t, next(node[t])) = {}
        BY <4>1, PendingHolds
      <4> QED BY <4>1, <4>2 DEF Load
    <3>3. PICK s \in Thread : LinkedBehind(t, s) /\ mem[next(node[t])] = node[s]
      BY <3>1, <3>2 DEF IInv, NextWords, At
    <3>4. s # t
      BY <3>3, Facts, LineFacts DEF LinkedBehind
    <3>5. Put(t, locked(node[s]), 0, TRUE)
      BY <2>7, <3>2, <3>3 DEF Pass, StoreRelease
    <3>6. \A y, w : Holds(buf'[u], y, w) =>
            Holds(buf[u], y, w) \/ (u = t /\ y = locked(node[s]))
      <4> DEFINE x == locked(node[s])
      <4>1. \A q \in Thread : \A y, w :
              Holds(buf'[q], y, w) => Holds(buf[q], y, w) \/ (q = t /\ y = x /\ w = 0)
        <5>1. Put(t, x, 0, TRUE) /\ TRUE \in BOOLEAN /\ x \in LockLoc /\ 0 \in LockVal
          BY <1>0, <3>5
        <5> HIDE DEF x
        <5> QED BY <5>1, StoreFacts, Zenon
      <4> QED BY <4>1
    <3>7. pc'[u] = IF u = t THEN "out" ELSE pc[u]
      BY <2>2, <3>1 DEF Goto
    <3> QED BY <1>0, <2>1, <2>2, <3>1, <3>4, <3>6, <3>7 DEF NodeDone
  <2>8. CASE Fence(t) \/ Spin(t) \/ CheckNext(t) \/ CasFree(t) \/ CasFail(t) \/ WaitNext(t)
    BY <2>3, <2>8 DEF Fence, Spin, CheckNext, CasFree, CasFail, WaitNext, At, SetMem
  <2> QED BY <1>4, <2>4, <2>5, <2>6, <2>7, <2>8 DEF Step, LockStep, UnlockStep
<1>5. ASSUME NEW t \in Thread, Flush(t), Model = "TSO", NEW u \in Thread
      PROVE  NodeDone(u)'
  <2>1. NodeDone(u)
    BY <1>5 DEF DoneInv
  <2> QED BY <1>2, <1>5, <2>1 DEF NodeDone
<1>6. CASE UNCHANGED vars
  BY <1>6 DEF vars, lockVars, DoneInv, NodeDone
<1>7. Model = "TSO" => \A u \in Thread : NodeDone(u)'
  BY <1>4, <1>5, <1>6 DEF Next, DoneInv
<1> QED BY <1>3, <1>7 DEF DoneInv

(* "The store to me->next above should also complete before the node is    *)
(* visible to predecessor thread": true of the code on SC and on x86, for  *)
(* any number of threads; on ARM a run shows it violated.                  *)
THEOREM InitCompletes == ASSUME Model \in {"SC", "TSO"} PROVE Spec => []InitBeforeLink
<1>1. Init => DoneInv
  BY DEF Init, DoneInv, NodeDone, Holds
<1>2. IInv /\ DoneInv => InitBeforeLink
  <2> SUFFICES ASSUME DoneInv, NEW t \in Thread, Waiting(t)
               PROVE  Pending(t, next(node[t])) = {} /\ Pending(t, locked(node[t])) = {}
    BY DEF InitBeforeLink
  <2>1. \A v : ~ Holds(buf[t], next(node[t]), v) /\ ~ Holds(buf[t], locked(node[t]), v)
    BY DEF DoneInv, NodeDone, Waiting
  <2> QED BY <2>1, PendingHolds
<1> QED BY <1>1, <1>2, DoneStep, Invariance, PTL DEF Spec
=============================================================================
