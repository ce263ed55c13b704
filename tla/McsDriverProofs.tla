--------------------------- MODULE McsDriverProofs --------------------------
(***************************************************************************)
(* Proofs about the whole program of Layer1/2-DPDK.c, in which main hands  *)
(* out the nodes by a race on its loop variable, on the four memories.     *)
(***************************************************************************)
EXTENDS McsDriver, StoreBuffersProofs

-----------------------------------------------------------------------------
(* The inductive invariant that does not ask which nodes were picked.      *)

Prepared(t) == pc[t] \notin {"none", "start", "init1"}
Cleared(t)  == pc[t] \notin {"none", "start", "init1", "init2"}
Arrived(t)  == pc[t] \notin {"none", "start", "init1", "init2", "xchg"}
InTheLine(t)   == Inside(t) \/ Waiting(t)

(* t has a predecessor and has executed prev->next = me.                   *)
Linked(t) == prev[t] # NULL /\ Arrived(t) /\ pc[t] # "link"

DLoc == LockLoc \cup {i}

DTypes ==
  /\ MemTypeOK(DThread, DLoc, LockVal \cup {2})
  /\ mem[msl] \in Node \cup {NULL}
  /\ \A n \in Node : mem[next(n)] \in Node \cup {NULL} /\ mem[locked(n)] \in {0, 1}
  /\ mem[i] \in {0, 1, 2}
  /\ pc \in [Thread -> DriverPC]
  /\ node \in [Thread -> Node]
  /\ prev \in [Thread -> Node \cup {NULL}]
  /\ mpc \in {"create", "incr", "join", "exit"}
  /\ \A t \in Thread : pc[t] \in {"link", "fence", "spin"} => prev[t] # NULL

(* What the two threads store, and main.                                   *)
ThreadStores ==
  \A t \in Thread : \A x, v : Holds(buf[t], x, v) =>
    \/ x = locked(node[t]) /\ v = 1 /\ Prepared(t)
    \/ x = next(node[t]) /\ v = NULL /\ Cleared(t)
    \/ x = next(prev[t]) /\ v = node[t] /\ Linked(t)
    \/ At(t, "out") /\ v = 0 /\ \E n \in Node : x = locked(n)

MainStores ==
  \A x, v : Holds(buf[Main], x, v) =>
    x = i /\ v \in {1, 2} /\ (v = 2 => mpc \in {"join", "exit"})

(* Thread 1 is created when i is 1 in memory, thread 0 before that.        *)
MainLoop ==
  /\ mem[i] = 2 => mpc \in {"join", "exit"}
  /\ pc[0] # "none" /\ mpc = "create" => mem[i] = 1 \/ Holds(buf[Main], i, 1)
  /\ pc[1] # "none" => /\ mem[i] \in {1, 2}
                       /\ mpc # "create"
                       /\ ~ Holds(buf[Main], i, 1)

(* The line of at most two threads.                                        *)
LineOfTwo ==
  \/ arrivals = << >> /\ \A t \in Thread : ~ InTheLine(t)
  \/ \E t \in Thread :
       /\ InTheLine(t)
       /\ \/ arrivals = <<t>> /\ \A u \in Thread \ {t} : ~ InTheLine(u)
          \/ \E u \in Thread \ {t} : arrivals = <<t, u>> /\ Waiting(u)

(* A thread that comes later finds the tail set.                           *)
TailIsSet == \A t, u \in Thread : InTheLine(t) /\ ~ Arrived(u) => mem[msl] # NULL

(* locked is cleared by the hand-over only, with which a thread ends.      *)
ReleaseLast ==
  \A t \in Thread : \A k \in DOMAIN buf[t] : \A n \in Node :
    buf[t][k].loc = locked(n) /\ buf[t][k].val = 0 => buf[t][k].rel /\ k = Len(buf[t])

Gone(t) == At(t, "out") /\ Drained(t)

LockedSeen ==
  \A t, u \in Thread : t # u /\ Prepared(t) /\ ~ At(t, "out") /\ ~ Gone(u) =>
    mem[locked(node[t])] = 1 \/ Holds(buf[t], locked(node[t]), 1)

SecondIsAlone ==
  \A t, u \in Thread : t # u /\ Inside(t) /\ prev[t] # NULL => Gone(u)

(* A thread clears a next pointer before it sets it.                       *)
ClearedFirst ==
  \A t \in Thread : \A n \in Node : \A k, l \in DOMAIN buf[t] :
    /\ buf[t][k].loc = next(n) /\ buf[t][k].val = NULL
    /\ buf[t][l].loc = next(n) /\ buf[t][l].val # NULL
    => k < l

NextIsSet ==
  \A n \in Node : mem[next(n)] # NULL =>
    \E w \in Thread : Linked(w) /\ prev[w] = n /\ ~ Holds(buf[w], next(n), NULL)

NextStays ==
  \A t \in Thread : At(t, "pass") =>
    /\ \A u \in Thread : Cleared(u)
    /\ \A u \in Thread \ {t} : ~ Holds(buf[u], next(node[t]), NULL)
    /\ \/ \E v \in Node : Holds(buf[t], next(node[t]), v)
       \/ mem[next(node[t])] # NULL /\ ~ Holds(buf[t], next(node[t]), NULL)

NoBuffers == Model = "SC" => \A t \in DThread : Drained(t)

DInv ==
  /\ DTypes
  /\ ThreadStores
  /\ MainStores
  /\ MainLoop
  /\ LineOfTwo
  /\ TailIsSet
  /\ ReleaseLast
  /\ LockedSeen
  /\ SecondIsAlone
  /\ ClearedFirst
  /\ NextIsSet
  /\ NextStays
  /\ NoBuffers

-----------------------------------------------------------------------------
(* The words of the lock and the loop variable are different.              *)
LEMMA DWords ==
  ASSUME NEW m, NEW n
  PROVE  /\ next(m) # msl /\ locked(m) # msl /\ next(m) # locked(n)
         /\ next(m) # i /\ locked(m) # i /\ msl # i
         /\ next(m) = next(n) => m = n
         /\ locked(m) = locked(n) => m = n
  BY DEF next, locked, msl, i

(* There are two threads.                                                  *)
LEMMA TwoThreads ==
  /\ \A t, u, w \in Thread : t # u => w = t \/ w = u
  /\ 0 \in Thread /\ 1 \in Thread /\ 0 # 1
  /\ \A t \in Thread : t \in DThread /\ t # Main
  /\ Main \in DThread
  /\ \A t \in DThread : t = Main \/ t \in Thread
  BY DriverAssumption DEF DThread

(* What the proofs of the steps use of the types.                          *)
LEMMA DFacts ==
  ASSUME DTypes
  PROVE  /\ MemTypeOK(DThread, DLoc, LockVal \cup {2})
         /\ mem \in [DLoc -> LockVal \cup {2}]
         /\ pc \in [Thread -> DriverPC]
         /\ node \in [Thread -> Node]
         /\ prev \in [Thread -> Node \cup {NULL}]
         /\ i \in DLoc /\ msl \in DLoc
         /\ \A n \in Node : /\ next(n) \in DLoc /\ locked(n) \in DLoc
                            /\ n # NULL /\ n \in LockVal
         /\ NULL \in LockVal /\ 0 \in LockVal /\ 1 \in LockVal
  BY NodeAssumption DEF DTypes, MemTypeOK, DLoc, LockLoc, LockVal

(* Only a thread that has left has stored 0 to a locked, and only a thread *)
(* that is linked a node to a next pointer.                                *)
LEMMA StoreMeans ==
  ASSUME DTypes, ThreadStores, NEW t \in Thread, NEW x, NEW v, Holds(buf[t], x, v)
  PROVE  /\ x # msl /\ x # i /\ Prepared(t)
         /\ \A n : x = locked(n) => n \in Node /\ v \in {0, 1}
         /\ \A n : x = locked(n) /\ v = 0 => At(t, "out")
         /\ \A n : x = next(n) => n \in Node /\ v \in Node \cup {NULL}
         /\ \A n : x = next(n) /\ v # NULL => Linked(t) /\ prev[t] = n /\ v = node[t]
         /\ \A n : x = next(n) /\ v = NULL => n = node[t] /\ Cleared(t)
<1>1. /\ node[t] \in Node /\ node[t] # NULL
      /\ prev[t] \in Node \cup {NULL}
  BY DFacts
<1>2. /\ \A m, n : /\ next(m) # msl /\ locked(m) # msl /\ next(m) # locked(n)
                   /\ next(m) # i /\ locked(m) # i
                   /\ next(m) = next(n) => m = n
                   /\ locked(m) = locked(n) => m = n
      /\ msl # i
  BY DWords
<1>3. /\ At(t, "out") => Prepared(t)
      /\ Cleared(t) => Prepared(t)
      /\ Linked(t) => Prepared(t)
  BY DEF At, Prepared, Cleared, Linked, Arrived
<1>4. ASSUME x = locked(node[t]), v = 1, Prepared(t)
      PROVE  /\ \A n : x = locked(n) => n = node[t]
             /\ \A n : x # next(n)
             /\ x # msl /\ x # i
  BY <1>2, <1>4
<1>5. ASSUME \E m \in {node[t], prev[t]} : x = next(m)
      PROVE  /\ \A n : x # locked(n)
             /\ x # msl /\ x # i
  BY <1>2, <1>5
<1>6. ASSUME x = next(node[t]), v = NULL, Cleared(t)
      PROVE  \A n : x = next(n) => n = node[t]
  BY <1>2, <1>6
<1>7. ASSUME x = next(prev[t]), v = node[t], Linked(t)
      PROVE  \A n : x = next(n) => n = prev[t]
  BY <1>2, <1>7
<1>8. ASSUME NEW m \in Node, x = locked(m), v = 0
      PROVE  /\ \A n : x = locked(n) => n = m
             /\ \A n : x # next(n)
             /\ x # msl /\ x # i
  BY <1>2, <1>8
<1>9. Linked(t) => prev[t] # NULL
  BY DEF Linked
<1>10. CASE x = locked(node[t]) /\ v = 1 /\ Prepared(t)
  BY <1>1, <1>4, <1>10
<1>11. CASE x = next(node[t]) /\ v = NULL /\ Cleared(t)
  BY <1>1, <1>3, <1>5, <1>6, <1>11
<1>12. CASE x = next(prev[t]) /\ v = node[t] /\ Linked(t)
  BY <1>1, <1>3, <1>5, <1>7, <1>9, <1>12
<1>13. CASE At(t, "out") /\ v = 0 /\ \E n \in Node : x = locked(n)
  BY <1>3, <1>8, <1>13
<1> QED BY <1>10, <1>11, <1>12, <1>13 DEF ThreadStores

(* The invariant holds before main has created a thread.                   *)
LEMMA DInitInv == DInit => DInv
<1> SUFFICES ASSUME DInit PROVE DInv
  OBVIOUS
<1>1. /\ \A t \in DThread : buf[t] = << >> /\ Drained(t)
      /\ \A t \in DThread : \A x, v : ~ Holds(buf[t], x, v)
  BY DEF DInit, Drained, Holds
<1>2. \A t \in Thread : /\ pc[t] = "none" /\ node[t] = Node1 /\ prev[t] = NULL
                        /\ ~ Prepared(t) /\ ~ InTheLine(t) /\ ~ Inside(t)
  BY DEF DInit, Prepared, InTheLine, Inside, Waiting
<1>3. /\ mem[i] = 0 /\ mem[msl] = NULL
      /\ \A n \in Node : mem[next(n)] = NULL /\ mem[locked(n)] = 0
  <2>1. /\ msl \in LockLoc /\ \A n \in Node : next(n) \in LockLoc /\ locked(n) \in LockLoc
        /\ \A n : next(n)[1] = "next" /\ locked(n)[1] = "locked"
        /\ msl[1] = "msl"
    BY DEF LockLoc, next, locked, msl
  <2>2. mem = [x \in LockLoc \cup {i} |-> IF x = i THEN 0 ELSE MemInit[x]]
    BY DEF DInit
  <2>3. /\ mem[i] = 0
        /\ \A x \in LockLoc : x # i => mem[x] = MemInit[x]
    BY <2>2
  <2>4. \A x \in LockLoc : MemInit[x] = IF x[1] = "locked" THEN 0 ELSE NULL
    BY DEF MemInit
  <2>5. msl # i /\ \A n : next(n) # i /\ locked(n) # i
    BY DWords
  <2>6. mem[msl] = NULL
    BY <2>1, <2>3, <2>4, <2>5
  <2>7. ASSUME NEW n \in Node PROVE mem[next(n)] = NULL
    BY <2>1, <2>3, <2>4, <2>5
  <2>8. ASSUME NEW n \in Node PROVE mem[locked(n)] = 0
    BY <2>1, <2>3, <2>4, <2>5
  <2> QED BY <2>3, <2>6, <2>7, <2>8
<1>4. DTypes
  <2>1. mem \in [DLoc -> LockVal \cup {2}]
    BY DEF DInit, DLoc, LockVal, MemInit
  <2>2. MemTypeOK(DThread, DLoc, LockVal \cup {2})
    BY <2>1 DEF DInit, MemTypeOK
  <2>3. Node1 \in Node
    BY DriverAssumption
  <2> QED BY <1>2, <1>3, <2>2, <2>3 DEF DInit, DTypes, DriverPC, LockPC
<1>5. ThreadStores /\ MainStores /\ ReleaseLast /\ ClearedFirst /\ NoBuffers
  BY <1>1, TwoThreads DEF ThreadStores, MainStores, ReleaseLast, ClearedFirst, NoBuffers
<1>6. MainLoop
  BY <1>2, <1>3, TwoThreads DEF MainLoop
<1>7. LineOfTwo /\ TailIsSet
  BY <1>2 DEF DInit, LineOfTwo, TailIsSet
<1>8. LockedSeen /\ SecondIsAlone /\ NextIsSet /\ NextStays
  BY <1>2, <1>3 DEF LockedSeen, SecondIsAlone, NextIsSet, NextStays, At
<1> QED BY <1>4, <1>5, <1>6, <1>7, <1>8 DEF DInv

-----------------------------------------------------------------------------
(* The steps that touch neither memory nor the buffers.                    *)
LEMMA QuietKeeps ==
  ASSUME DInv, UNCHANGED <<mem, buf, prev, arrivals>>, DTypes', MainStores', MainLoop',
         NEW t \in Thread,
         \A u \in Thread \ {t} : pc'[u] = pc[u] /\ node'[u] = node[u],
         Prepared(t)' <=> Prepared(t), Cleared(t)' <=> Cleared(t),
         Arrived(t)' <=> Arrived(t), Linked(t)' <=> Linked(t),
         InTheLine(t)' <=> InTheLine(t), At(t, "out")' <=> At(t, "out"),
         Prepared(t) => node'[t] = node[t],
         Inside(t) => Inside(t)',
         Inside(t)' => Inside(t) \/ \A u \in Thread \ {t} : Gone(u),
         At(t, "pass")' =>
           /\ \A u \in Thread : Cleared(u)
           /\ \A u \in Thread \ {t} : ~ Holds(buf[u], next(node[t]), NULL)
           /\ \/ \E v \in Node : Holds(buf[t], next(node[t]), v)
              \/ mem[next(node[t])] # NULL /\ ~ Holds(buf[t], next(node[t]), NULL)
  PROVE  DInv'
<1>1. /\ mem' = mem /\ buf' = buf /\ prev' = prev /\ arrivals' = arrivals
      /\ \A u, x, v : Holds(buf'[u], x, v) <=> Holds(buf[u], x, v)
      /\ \A u : Drained(u)' <=> Drained(u)
  BY DEF Holds, Drained
<1>2. \A u \in Thread :
        /\ Prepared(u)' <=> Prepared(u)
        /\ Cleared(u)' <=> Cleared(u)
        /\ Arrived(u)' <=> Arrived(u)
        /\ Linked(u)' <=> Linked(u)
        /\ InTheLine(u)' <=> InTheLine(u)
        /\ At(u, "out")' <=> At(u, "out")
        /\ Prepared(u) => node'[u] = node[u]
        /\ Inside(u) => Inside(u)'
        /\ u # t => (Inside(u)' <=> Inside(u)) /\ (At(u, "pass")' <=> At(u, "pass"))
        /\ Gone(u)' <=> Gone(u)
  BY <1>1 DEF Prepared, Cleared, Arrived, Linked, InTheLine, Inside, Waiting, At, Gone
<1>3. \A u \in Thread : /\ Inside(u) \/ Waiting(u) <=> InTheLine(u)
                        /\ ~ (Inside(u) /\ Waiting(u))
                        /\ (Inside(u) \/ Waiting(u) <=> InTheLine(u))'
                        /\ Cleared(u) => Prepared(u)
                        /\ Linked(u) => Prepared(u)
                        /\ At(u, "pass") => Prepared(u)
                        /\ Gone(u) => ~ InTheLine(u)
  BY DEF InTheLine, Inside, Waiting, Cleared, Prepared, Linked, Arrived, At, Gone
<1>4. ThreadStores'
  <2> SUFFICES ASSUME NEW u \in Thread, NEW x, NEW v, Holds(buf[u], x, v)
               PROVE  \/ x = locked(node'[u]) /\ v = 1 /\ Prepared(u)'
                      \/ x = next(node'[u]) /\ v = NULL /\ Cleared(u)'
                      \/ x = next(prev[u]) /\ v = node'[u] /\ Linked(u)'
                      \/ At(u, "out")' /\ v = 0 /\ \E n \in Node : x = locked(n)
    BY <1>1 DEF ThreadStores
  <2>1. \/ x = locked(node[u]) /\ v = 1 /\ Prepared(u)
        \/ x = next(node[u]) /\ v = NULL /\ Cleared(u)
        \/ x = next(prev[u]) /\ v = node[u] /\ Linked(u)
        \/ At(u, "out") /\ v = 0 /\ \E n \in Node : x = locked(n)
    BY DEF DInv, ThreadStores
  <2>2. Prepared(u) => node'[u] = node[u]
    BY <1>2
  <2> QED BY <1>2, <1>3, <2>1, <2>2
<1>5. LineOfTwo'
  <2>1. ASSUME NEW u \in Thread, Waiting(u), NEW w \in Thread \ {u}, InTheLine(w)
        PROVE  Waiting(u)'
    <3>1. CASE u = t
      BY <1>2, <1>3, <2>1, <3>1
    <3>2. CASE u # t
      BY <1>2, <1>3, <2>1, <3>2
    <3> QED BY <3>1, <3>2
  <2>2. CASE arrivals = << >> /\ \A u \in Thread : ~ InTheLine(u)
    BY <1>1, <1>2, <2>2 DEF LineOfTwo
  <2>3. ASSUME NEW w \in Thread, InTheLine(w), arrivals = <<w>>,
               \A u \in Thread \ {w} : ~ InTheLine(u)
        PROVE  LineOfTwo'
    BY <1>1, <1>2, <2>3 DEF LineOfTwo
  <2>4. ASSUME NEW w \in Thread, InTheLine(w), NEW u \in Thread \ {w}, arrivals = <<w, u>>, Waiting(u)
        PROVE  LineOfTwo'
    BY <1>1, <1>2, <2>1, <2>4 DEF LineOfTwo
  <2> QED BY <2>2, <2>3, <2>4 DEF DInv, LineOfTwo
<1>6. TailIsSet'
  BY <1>1, <1>2 DEF DInv, TailIsSet
<1>7. ReleaseLast' /\ ClearedFirst' /\ NoBuffers'
  BY <1>1 DEF DInv, ReleaseLast, ClearedFirst, NoBuffers
<1>8. LockedSeen'
  BY <1>1, <1>2 DEF DInv, LockedSeen
<1>9. SecondIsAlone'
  <2> SUFFICES ASSUME NEW u \in Thread, NEW w \in Thread, u # w, Inside(u)', prev[u] # NULL
               PROVE  Gone(w)
    BY <1>1, <1>2 DEF SecondIsAlone
  <2>1. CASE Inside(u)
    BY <2>1 DEF DInv, SecondIsAlone
  <2>2. CASE u = t /\ ~ Inside(u)
    BY <2>2
  <2> QED BY <1>2, <2>1, <2>2
<1>10. NextIsSet'
  BY <1>1, <1>2 DEF DInv, NextIsSet
<1>11. NextStays'
  <2> SUFFICES ASSUME NEW u \in Thread, At(u, "pass")'
               PROVE  /\ \A w \in Thread : Cleared(w)
                      /\ \A w \in Thread \ {u} : ~ Holds(buf[w], next(node[u]), NULL)
                      /\ \/ \E v \in Node : Holds(buf[u], next(node[u]), v)
                         \/ mem[next(node[u])] # NULL /\ ~ Holds(buf[u], next(node[u]), NULL)
                      /\ node'[u] = node[u]
    BY <1>1, <1>2 DEF NextStays
  <2>1. CASE u = t
    <3>1. Prepared(t)'
      BY <2>1 DEF At, Prepared
    <3> QED BY <2>1, <3>1
  <2>2. CASE u # t
    BY <1>2, <1>3, <2>2 DEF DInv, NextStays
  <2> QED BY <2>1, <2>2
<1> QED BY <1>4, <1>5, <1>6, <1>7, <1>8, <1>9, <1>10, <1>11 DEF DInv

(* A step of t within the lock that touches neither memory nor the buffers *)
(* and that does not enter it.                                             *)
LEMMA WithinKeeps ==
  ASSUME DInv, NEW t \in Thread, NEW l,
         UNCHANGED <<mem, buf, node, prev, arrivals, mpc>>, Goto(t, l),
         \/ At(t, "fence") /\ l = "spin"
         \/ At(t, "spin") /\ l = "cs" /\ \A u \in Thread \ {t} : Gone(u)
         \/ Inside(t) /\ l \in {"cas", "wait", "pass"},
         l = "pass" =>
           /\ \A u \in Thread : Cleared(u)
           /\ \A u \in Thread \ {t} : ~ Holds(buf[u], next(node[t]), NULL)
           /\ \/ \E v \in Node : Holds(buf[t], next(node[t]), v)
              \/ mem[next(node[t])] # NULL /\ ~ Holds(buf[t], next(node[t]), NULL)
  PROVE  DInv'
<1>1. /\ pc' = [pc EXCEPT ![t] = l]
      /\ pc \in [Thread -> DriverPC]
      /\ pc'[t] = l /\ \A u \in Thread : u # t => pc'[u] = pc[u]
      /\ l \in {"spin", "cs", "cas", "wait", "pass"}
      /\ pc[t] \in {"fence", "spin", "cs", "cas", "wait", "pass"}
  BY DEF DInv, DTypes, Goto, At, Inside
<1>2. DTypes'
  <2>1. pc' \in [Thread -> DriverPC]
    BY <1>1 DEF DriverPC, LockPC
  <2>2. ASSUME NEW u \in Thread, pc'[u] \in {"link", "fence", "spin"}
        PROVE  prev[u] # NULL
    BY <1>1, <2>2 DEF DInv, DTypes, At, Inside
  <2> QED BY <2>1, <2>2 DEF DInv, DTypes, MemTypeOK
<1>3. MainStores' /\ MainLoop'
  <2>1. \A u \in Thread : pc'[u] # "none" <=> pc[u] # "none"
    BY <1>1
  <2>2. \A x, v : Holds(buf'[Main], x, v) <=> Holds(buf[Main], x, v)
    BY DEF Holds
  <2> QED BY <2>1, <2>2, TwoThreads DEF DInv, MainStores, MainLoop
<1>4. /\ Prepared(t)' <=> Prepared(t)
      /\ Cleared(t)' <=> Cleared(t)
      /\ Arrived(t)' <=> Arrived(t)
      /\ Linked(t)' <=> Linked(t)
      /\ InTheLine(t)' <=> InTheLine(t)
      /\ At(t, "out")' <=> At(t, "out")
  BY <1>1 DEF Prepared, Cleared, Arrived, Linked, InTheLine, Inside, Waiting, At
<1>5. /\ Inside(t) => Inside(t)'
      /\ Inside(t)' => Inside(t) \/ \A u \in Thread \ {t} : Gone(u)
      /\ At(t, "pass")' => l = "pass"
  BY <1>1 DEF Inside, At
<1> QED BY <1>1, <1>2, <1>3, <1>4, <1>5, QuietKeeps

(* A thread that reads a next pointer that is set may hand the lock over.  *)
LEMMA PassReady ==
  ASSUME DInv, NEW t \in Thread, Inside(t), Load(t, next(node[t])) # NULL
  PROVE  /\ \A u \in Thread : Cleared(u)
         /\ \A u \in Thread \ {t} : ~ Holds(buf[u], next(node[t]), NULL)
         /\ \/ \E v \in Node : Holds(buf[t], next(node[t]), v)
            \/ mem[next(node[t])] # NULL /\ ~ Holds(buf[t], next(node[t]), NULL)
<1> DEFINE n == node[t]
<1>1. /\ DTypes /\ ThreadStores /\ SecondIsAlone /\ NextIsSet
      /\ n \in Node /\ n # NULL
  BY DFacts DEF DInv
<1>2. /\ Cleared(t)
      /\ \A u \in Thread : Gone(u) => Cleared(u) /\ \A x, v : ~ Holds(buf[u], x, v)
      /\ \A u \in Thread : Linked(u) => Cleared(u)
  BY DrainedHolds DEF Inside, Cleared, Gone, Linked, Arrived, At
<1>3. ASSUME prev[t] # NULL
      PROVE  /\ \A u \in Thread : Cleared(u)
             /\ \A u \in Thread \ {t} : ~ Holds(buf[u], next(n), NULL)
  BY <1>1, <1>2, <1>3 DEF SecondIsAlone
<1>4. \/ Load(t, next(n)) = mem[next(n)] /\ \A v : ~ Holds(buf[t], next(n), v)
      \/ Holds(buf[t], next(n), Load(t, next(n)))
  <2>1. /\ MemTypeOK(DThread, DLoc, LockVal \cup {2})
        /\ t \in DThread /\ next(n) \in DLoc
    BY <1>1, DFacts, TwoThreads
  <2> QED BY <2>1, LoadHolds
<1>5. CASE Holds(buf[t], next(n), Load(t, next(n)))
  <2>1. /\ prev[t] = n
        /\ Load(t, next(n)) \in Node
    BY <1>1, <1>5, StoreMeans
  <2> QED BY <1>1, <1>3, <1>5, <2>1
<1>6. CASE Load(t, next(n)) = mem[next(n)] /\ \A v : ~ Holds(buf[t], next(n), v)
  <2>1. PICK w \in Thread : Linked(w) /\ prev[w] = n /\ ~ Holds(buf[w], next(n), NULL)
    BY <1>1, <1>6 DEF NextIsSet
  <2>2. CASE w = t
    BY <1>1, <1>3, <1>6, <2>1, <2>2
  <2>3. CASE w # t
    <3>1. \A u \in Thread : u = t \/ u = w
      BY <2>3, TwoThreads
    <3> QED BY <1>2, <1>6, <2>1, <3>1
  <2> QED BY <2>2, <2>3
<1> QED BY <1>4, <1>5, <1>6

(* A thread that waits and reads 0 is alone.                               *)
LEMMA GrantedAlone ==
  ASSUME DInv, NEW t \in Thread, At(t, "spin"), Load(t, locked(node[t])) = 0
  PROVE  \A u \in Thread \ {t} : Gone(u)
<1> DEFINE x == locked(node[t])
<1>1. /\ MemTypeOK(DThread, DLoc, LockVal \cup {2})
      /\ t \in DThread /\ x \in DLoc
      /\ DTypes /\ ThreadStores
  BY DFacts, TwoThreads DEF DInv
<1>2. \/ mem[x] = 0 /\ \A v : ~ Holds(buf[t], x, v)
      \/ Holds(buf[t], x, 0)
  BY <1>1, LoadHolds
<1>3. ~ Holds(buf[t], x, 0)
  <2>1. ASSUME Holds(buf[t], x, 0) PROVE At(t, "out")
    BY <1>1, <2>1, StoreMeans
  <2> QED BY <2>1 DEF At
<1>4. Prepared(t) /\ ~ At(t, "out")
  BY DEF At, Prepared
<1> QED BY <1>2, <1>3, <1>4 DEF DInv, LockedSeen

(* The fence after the link.                                               *)
LEMMA DFenceKeeps == ASSUME DInv, NEW t \in Thread, Fence(t), UNCHANGED mpc PROVE DInv'
<1>1. At(t, "fence") /\ Goto(t, "spin") /\ UNCHANGED <<mem, buf, node, prev, arrivals, mpc>>
  BY DEF Fence
<1> QED BY <1>1, WithinKeeps

(* The wait on locked ends, when the other thread has gone.                *)
LEMMA DSpinKeeps == ASSUME DInv, NEW t \in Thread, Spin(t), UNCHANGED mpc PROVE DInv'
<1>1. At(t, "spin") /\ Goto(t, "cs") /\ UNCHANGED <<mem, buf, node, prev, arrivals, mpc>>
  BY DEF Spin
<1>2. \A u \in Thread \ {t} : Gone(u)
  BY GrantedAlone DEF Spin
<1> QED BY <1>1, <1>2, WithinKeeps

(* The first load of me->next.                                             *)
LEMMA DCheckNextKeeps == ASSUME DInv, NEW t \in Thread, CheckNext(t), UNCHANGED mpc PROVE DInv'
<1> DEFINE l == IF Load(t, next(node[t])) = NULL THEN "cas" ELSE "pass"
<1>1. Inside(t) /\ Goto(t, l) /\ UNCHANGED <<mem, buf, node, prev, arrivals, mpc>>
  BY DEF CheckNext, At, Inside
<1>2. l \in {"cas", "wait", "pass"} /\ (l = "pass" => Load(t, next(node[t])) # NULL)
  OBVIOUS
<1> HIDE DEF l
<1> QED BY <1>1, <1>2, WithinKeeps, PassReady

(* The compare-and-exchange fails: somebody is behind.                     *)
LEMMA DCasFailKeeps == ASSUME DInv, NEW t \in Thread, CasFail(t), UNCHANGED mpc PROVE DInv'
<1>1. Inside(t) /\ Goto(t, "wait") /\ UNCHANGED <<mem, buf, node, prev, arrivals, mpc>>
  BY DEF CasFail, At, Inside
<1> QED BY <1>1, WithinKeeps

(* The unlock has waited for the link.                                     *)
LEMMA DWaitNextKeeps == ASSUME DInv, NEW t \in Thread, WaitNext(t), UNCHANGED mpc PROVE DInv'
<1>1. /\ Inside(t) /\ Goto(t, "pass") /\ UNCHANGED <<mem, buf, node, prev, arrivals, mpc>>
      /\ Load(t, next(node[t])) # NULL
  BY DEF WaitNext, At, Inside
<1> QED BY <1>1, WithinKeeps, PassReady

-----------------------------------------------------------------------------
(* main creates the thread its loop variable names, which is not running.  *)
LEMMA CreateTarget ==
  ASSUME DInv, mpc = "create", Drained(Main)
  PROVE  /\ mem[i] \in {0, 1}
         /\ mem[i] \in Thread
         /\ pc[mem[i]] = "none"
         /\ pc[1] = "none"
<1>1. ~ Holds(buf[Main], i, 1)
  BY DrainedHolds
<1>2. mem[i] \in {0, 1}
  BY DEF DInv, DTypes, MainLoop
<1>3. pc[1] = "none"
  BY DEF DInv, MainLoop
<1>4. mem[i] = 0 => pc[0] = "none"
  BY <1>1 DEF DInv, MainLoop
<1> QED BY <1>2, <1>3, <1>4, TwoThreads

(* main creates a thread with &i.                                          *)
LEMMA DCreateKeeps == ASSUME DInv, Create PROVE DInv'
<1>1. /\ mpc = "create" /\ mpc' = "incr" /\ Drained(Main)
      /\ pc' = [pc EXCEPT ![mem[i]] = "start"]
      /\ UNCHANGED <<mem, buf, node, prev, arrivals>>
  BY DEF Create
<1>2. /\ mem[i] \in {0, 1} /\ mem[i] \in Thread
      /\ pc[mem[i]] = "none" /\ pc[1] = "none"
  BY <1>1, CreateTarget
<1>3. PICK t \in Thread : t = mem[i]
  BY <1>2
<1>4. /\ pc \in [Thread -> DriverPC]
      /\ pc[t] = "none" /\ pc'[t] = "start"
      /\ \A u \in Thread \ {t} : pc'[u] = pc[u]
      /\ pc' \in [Thread -> DriverPC]
  BY <1>1, <1>2, <1>3 DEF DInv, DTypes, DriverPC
<1>5. DTypes'
  <2>1. \A u \in Thread : pc'[u] \in {"link", "fence", "spin"} => prev[u] # NULL
    BY <1>4 DEF DInv, DTypes
  <2> QED BY <1>1, <1>4, <2>1 DEF DInv, DTypes, MemTypeOK
<1>6. \A x, v : Holds(buf'[Main], x, v) <=> Holds(buf[Main], x, v)
  BY <1>1 DEF Holds
<1>7. \A x, v : ~ Holds(buf[Main], x, v)
  BY <1>1, DrainedHolds
<1>8. MainStores'
  BY <1>6, <1>7 DEF MainStores
<1>9. MainLoop'
  <2>1. pc'[1] # "none" => mem[i] = 1
    BY <1>2, <1>3, <1>4, TwoThreads
  <2> QED BY <1>1, <1>2, <1>6, <1>7, <2>1 DEF MainLoop
<1>10. /\ ~ Prepared(t) /\ ~ Cleared(t) /\ ~ Arrived(t) /\ ~ Linked(t) /\ ~ InTheLine(t)
       /\ ~ At(t, "out") /\ ~ Inside(t)
       /\ ~ Prepared(t)' /\ ~ Cleared(t)' /\ ~ Arrived(t)' /\ ~ Linked(t)' /\ ~ InTheLine(t)'
       /\ ~ At(t, "out")' /\ ~ Inside(t)' /\ ~ At(t, "pass")'
  BY <1>4 DEF Prepared, Cleared, Arrived, Linked, InTheLine, Inside, Waiting, At
<1> QED BY <1>1, <1>4, <1>5, <1>8, <1>9, <1>10, QuietKeeps

(* The thread reads the number of its node from main's i.                  *)
LEMMA DStartKeeps == ASSUME DInv, NEW t \in Thread, Start(t) PROVE DInv'
<1> DEFINE g == IF Load(t, i) = 1 THEN Node1 ELSE Node2
<1>1. /\ pc[t] = "start"
      /\ node' = [node EXCEPT ![t] = g]
      /\ pc' = [pc EXCEPT ![t] = "init1"]
      /\ UNCHANGED <<mem, buf, prev, arrivals, mpc>>
  BY DEF Start, At, Goto
<1>2. g \in Node
  BY DriverAssumption
<1> HIDE DEF g
<1>3. /\ pc'[t] = "init1"
      /\ \A u \in Thread \ {t} : pc'[u] = pc[u] /\ node'[u] = node[u]
      /\ pc' \in [Thread -> DriverPC]
      /\ node' \in [Thread -> Node]
  BY <1>1, <1>2 DEF DInv, DTypes, DriverPC, LockPC
<1>4. DTypes'
  <2>1. \A u \in Thread : pc'[u] \in {"link", "fence", "spin"} => prev[u] # NULL
    BY <1>3 DEF DInv, DTypes
  <2> QED BY <1>1, <1>3, <2>1 DEF DInv, DTypes, MemTypeOK
<1>5. MainStores' /\ MainLoop'
  <2>1. \A u \in Thread : pc'[u] # "none" <=> pc[u] # "none"
    BY <1>1, <1>3
  <2>2. \A x, v : Holds(buf'[Main], x, v) <=> Holds(buf[Main], x, v)
    BY <1>1 DEF Holds
  <2> QED BY <1>1, <2>1, <2>2, TwoThreads DEF DInv, MainStores, MainLoop
<1>6. /\ ~ Prepared(t) /\ ~ Cleared(t) /\ ~ Arrived(t) /\ ~ Linked(t) /\ ~ InTheLine(t)
      /\ ~ At(t, "out") /\ ~ Inside(t)
      /\ ~ Prepared(t)' /\ ~ Cleared(t)' /\ ~ Arrived(t)' /\ ~ Linked(t)' /\ ~ InTheLine(t)'
      /\ ~ At(t, "out")' /\ ~ Inside(t)' /\ ~ At(t, "pass")'
  BY <1>1, <1>3 DEF Prepared, Cleared, Arrived, Linked, InTheLine, Inside, Waiting, At
<1> QED BY <1>1, <1>3, <1>4, <1>5, <1>6, QuietKeeps

(* main joins the threads.                                                 *)
LEMMA DJoinKeeps == ASSUME DInv, Join PROVE DInv'
<1>1. /\ mpc = "join" /\ mpc' = "exit"
      /\ UNCHANGED <<mem, buf, pc, node, prev, arrivals>>
  BY DEF Join, vars, lockVars
<1>2. DTypes'
  BY <1>1 DEF DInv, DTypes, MemTypeOK
<1>3. MainStores' /\ MainLoop'
  <2>1. \A x, v : Holds(buf'[Main], x, v) <=> Holds(buf[Main], x, v)
    BY <1>1 DEF Holds
  <2> QED BY <1>1, <2>1 DEF DInv, MainStores, MainLoop
<1>4. /\ Prepared(0)' <=> Prepared(0)
      /\ Cleared(0)' <=> Cleared(0)
      /\ Arrived(0)' <=> Arrived(0)
      /\ Linked(0)' <=> Linked(0)
      /\ InTheLine(0)' <=> InTheLine(0)
      /\ At(0, "out")' <=> At(0, "out")
      /\ Inside(0)' <=> Inside(0)
      /\ At(0, "pass")' <=> At(0, "pass")
  BY <1>1 DEF Prepared, Cleared, Arrived, Linked, InTheLine, Inside, Waiting, At
<1>5. At(0, "pass") =>
        /\ \A u \in Thread : Cleared(u)
        /\ \A u \in Thread \ {0} : ~ Holds(buf[u], next(node[0]), NULL)
        /\ \/ \E v \in Node : Holds(buf[0], next(node[0]), v)
           \/ mem[next(node[0])] # NULL /\ ~ Holds(buf[0], next(node[0]), NULL)
  BY TwoThreads DEF DInv, NextStays
<1> QED BY <1>1, <1>2, <1>3, <1>4, <1>5, TwoThreads, QuietKeeps

(* Nothing happens.                                                        *)
LEMMA DStutterKeeps == ASSUME DInv, UNCHANGED dvars PROVE DInv'
<1>1. UNCHANGED <<mem, buf, pc, node, prev, arrivals, mpc>>
  BY DEF dvars, vars, lockVars
<1>2. DTypes'
  BY <1>1 DEF DInv, DTypes, MemTypeOK
<1>3. MainStores' /\ MainLoop'
  <2>1. \A x, v : Holds(buf'[Main], x, v) <=> Holds(buf[Main], x, v)
    BY <1>1 DEF Holds
  <2> QED BY <1>1, <2>1 DEF DInv, MainStores, MainLoop
<1>4. /\ Prepared(0)' <=> Prepared(0)
      /\ Cleared(0)' <=> Cleared(0)
      /\ Arrived(0)' <=> Arrived(0)
      /\ Linked(0)' <=> Linked(0)
      /\ InTheLine(0)' <=> InTheLine(0)
      /\ At(0, "out")' <=> At(0, "out")
      /\ Inside(0)' <=> Inside(0)
      /\ At(0, "pass")' <=> At(0, "pass")
  BY <1>1 DEF Prepared, Cleared, Arrived, Linked, InTheLine, Inside, Waiting, At
<1>5. At(0, "pass") =>
        /\ \A u \in Thread : Cleared(u)
        /\ \A u \in Thread \ {0} : ~ Holds(buf[u], next(node[0]), NULL)
        /\ \/ \E v \in Node : Holds(buf[0], next(node[0]), v)
           \/ mem[next(node[0])] # NULL /\ ~ Holds(buf[0], next(node[0]), NULL)
  BY TwoThreads DEF DInv, NextStays
<1> QED BY <1>1, <1>2, <1>3, <1>4, <1>5, TwoThreads, QuietKeeps

-----------------------------------------------------------------------------
(* What a store does: on SC memory changes at once, and nothing is ever    *)
(* under way; on the other memories the store joins the buffer.            *)
PutDone(t, x, v) ==
  /\ MemTypeOK(DThread, DLoc, LockVal \cup {2})'
  /\ NoBuffers'
  /\ \A u \in DThread \ {t} : /\ buf'[u] = buf[u]
                              /\ Drained(u)' <=> Drained(u)
  /\ \A u \in DThread \ {t} : \A y, w : Holds(buf'[u], y, w) <=> Holds(buf[u], y, w)
  /\ \/ /\ mem'[x] = v /\ \A y \in DLoc \ {x} : mem'[y] = mem[y]
        /\ buf' = buf
        /\ \A u \in DThread : /\ Drained(u) /\ Drained(u)'
                              /\ \A y, w : /\ ~ Holds(buf[u], y, w)
                                           /\ ~ Holds(buf'[u], y, w)
     \/ /\ mem' = mem
        /\ Model # "SC"
        /\ \A y, w : Holds(buf'[t], y, w) <=> Holds(buf[t], y, w) \/ (y = x /\ w = v)

(* A store goes to memory or to the buffer of its thread.                  *)
LEMMA DPut ==
  ASSUME DTypes, NoBuffers, NEW t \in DThread, NEW x \in DLoc, NEW v \in LockVal \cup {2},
         NEW rel \in BOOLEAN, Put(t, x, v, rel)
  PROVE  PutDone(t, x, v)
<1>1. MemTypeOK(DThread, DLoc, LockVal \cup {2})
  BY DEF DTypes
<1>2. /\ MemTypeOK(DThread, DLoc, LockVal \cup {2})'
      /\ \/ /\ mem' = [mem EXCEPT ![x] = v]
            /\ \A u, y, w : Holds(buf'[u], y, w) <=> Holds(buf[u], y, w)
         \/ /\ mem' = mem
            /\ \A u \in DThread : \A y, w :
                 Holds(buf'[u], y, w) <=> Holds(buf[u], y, w) \/ (u = t /\ y = x /\ w = v)
  BY <1>1, PutHolds
<1>3. CASE Model = "SC"
  <2>1. mem' = [mem EXCEPT ![x] = v] /\ buf' = buf
    BY <1>3 DEF Put
  <2>2. \A u \in DThread : Drained(u) /\ Drained(u)'
    BY <1>3, <2>1 DEF NoBuffers, Drained
  <2>3. \A u \in DThread : \A y, w : ~ Holds(buf[u], y, w) /\ ~ Holds(buf'[u], y, w)
    BY <2>1, <2>2, DrainedHolds
  <2>4. mem'[x] = v /\ \A y \in DLoc \ {x} : mem'[y] = mem[y]
    BY <1>1, <2>1 DEF MemTypeOK
  <2>5. NoBuffers'
    BY <2>2 DEF NoBuffers
  <2> QED BY <1>2, <2>1, <2>2, <2>3, <2>4, <2>5 DEF PutDone
<1>4. CASE Model # "SC"
  <2>1. /\ mem' = mem
        /\ \A u \in DThread \ {t} : buf'[u] = buf[u]
    BY <1>1, <1>4 DEF Put, MemTypeOK
  <2>2. \A u \in DThread \ {t} : \A y, w : Holds(buf'[u], y, w) <=> Holds(buf[u], y, w)
    BY <2>1 DEF Holds
  <2>3. buf' = [buf EXCEPT ![t] = Append(@, [loc |-> x, val |-> v, rel |-> rel])]
    BY <1>4 DEF Put
  <2>4. buf'[t] = Append(buf[t], [loc |-> x, val |-> v, rel |-> rel])
    BY <1>1, <2>3 DEF MemTypeOK
  <2>5. \A y, w : Holds(buf'[t], y, w) <=> Holds(buf[t], y, w) \/ (y = x /\ w = v)
    <3>1. /\ DOMAIN buf[t] = 1..Len(buf[t])
          /\ Len(buf[t]) \in Nat
          /\ DOMAIN buf'[t] = 1..(Len(buf[t]) + 1)
          /\ buf'[t][Len(buf[t]) + 1] = [loc |-> x, val |-> v, rel |-> rel]
          /\ \A k \in DOMAIN buf[t] : buf'[t][k] = buf[t][k]
      BY <1>1, <1>4, PutShape
    <3> SUFFICES ASSUME NEW y, NEW w
                 PROVE  Holds(buf'[t], y, w) <=> Holds(buf[t], y, w) \/ (y = x /\ w = v)
      OBVIOUS
    <3>2. ASSUME Holds(buf'[t], y, w) PROVE Holds(buf[t], y, w) \/ (y = x /\ w = v)
      <4>1. PICK k \in DOMAIN buf'[t] : buf'[t][k].loc = y /\ buf'[t][k].val = w
        BY <3>2 DEF Holds
      <4>2. CASE k = Len(buf[t]) + 1
        BY <3>1, <4>1, <4>2
      <4>3. CASE k \in DOMAIN buf[t]
        BY <3>1, <4>1, <4>3 DEF Holds
      <4> QED BY <3>1, <4>2, <4>3
    <3>3. ASSUME Holds(buf[t], y, w) PROVE Holds(buf'[t], y, w)
      <4>1. PICK k \in DOMAIN buf[t] : buf[t][k].loc = y /\ buf[t][k].val = w
        BY <3>3 DEF Holds
      <4> QED BY <3>1, <4>1 DEF Holds
    <3>4. ASSUME y = x, w = v PROVE Holds(buf'[t], y, w)
      <4>1. Len(buf[t]) + 1 \in DOMAIN buf'[t]
        BY <3>1
      <4> QED BY <3>1, <3>4, <4>1 DEF Holds
    <3> QED BY <3>2, <3>3, <3>4
  <2>6. NoBuffers'
    BY <1>4 DEF NoBuffers
  <2>7. \A u \in DThread \ {t} : Drained(u)' <=> Drained(u)
    BY <2>1 DEF Drained
  <2> QED BY <1>2, <1>4, <2>1, <2>2, <2>5, <2>6, <2>7 DEF PutDone
<1> QED BY <1>3, <1>4

(* A thread sets the next pointer of its predecessor only.                 *)
LEMMA SetsNext ==
  ASSUME DTypes, ThreadStores, NEW t \in Thread, NEW n, NEW v,
         Holds(buf[t], next(n), v), v # NULL
  PROVE  Linked(t) /\ prev[t] = n /\ v = node[t]
<1>1. ASSUME NEW x, Holds(buf[t], x, v)
      PROVE  \A m : x = next(m) /\ v # NULL => Linked(t) /\ prev[t] = m /\ v = node[t]
  BY <1>1, StoreMeans
<1> QED BY <1>1

(* What a store of a thread leaves behind: of the rest of the invariant    *)
(* only what speaks of x or of where t is can have changed.                *)
Stored(t, x, v, l) ==
  /\ DTypes' /\ ThreadStores' /\ MainStores' /\ MainLoop'
  /\ ReleaseLast' /\ ClearedFirst' /\ NoBuffers'
  /\ x \in DLoc /\ x # msl /\ mem'[msl] = mem[msl]
  /\ pc'[t] = l /\ \A u \in Thread \ {t} : pc'[u] = pc[u]
  /\ \A u \in Thread \ {t} : Drained(u)' <=> Drained(u)
  /\ \A u \in Thread \ {t} : \A y, w : Holds(buf'[u], y, w) <=> Holds(buf[u], y, w)
  /\ \/ /\ mem'[x] = v /\ \A y \in DLoc \ {x} : mem'[y] = mem[y]
        /\ \A u \in Thread : /\ Drained(u) /\ Drained(u)'
                             /\ \A y, w : /\ ~ Holds(buf[u], y, w)
                                          /\ ~ Holds(buf'[u], y, w)
     \/ /\ mem' = mem
        /\ \A y, w : Holds(buf'[t], y, w) <=> Holds(buf[t], y, w) \/ (y = x /\ w = v)

(* What a store of a thread keeps, whichever of the four it is.            *)
LEMMA ThreadPut ==
  ASSUME DInv, NEW t \in Thread, NEW x, NEW v, NEW rel \in BOOLEAN, NEW l \in DriverPC,
         Put(t, x, v, rel), pc' = [pc EXCEPT ![t] = l], UNCHANGED <<node, prev, mpc>>,
         pc[t] \notin {"none", "out"}, l # "none",
         \/ x = locked(node[t]) /\ v = 1 /\ Prepared(t)'
         \/ x = next(node[t]) /\ v = NULL /\ Cleared(t)' /\ ~ Linked(t)
         \/ x = next(prev[t]) /\ prev[t] # NULL /\ v = node[t] /\ Linked(t)'
         \/ l = "out" /\ v = 0 /\ rel /\ \E n \in Node : x = locked(n),
         Prepared(t) => Prepared(t)', Cleared(t) => Cleared(t)', Linked(t) => Linked(t)',
         l \in {"link", "fence", "spin"} => prev[t] # NULL
  PROVE  Stored(t, x, v, l)
<1>1. /\ DTypes /\ ThreadStores /\ NoBuffers
      /\ t \in DThread /\ t # Main /\ Main \in DThread
      /\ \A u \in Thread : u \in DThread
  BY TwoThreads DEF DInv
<1>2. /\ node[t] \in Node /\ node[t] # NULL /\ prev[t] \in Node \cup {NULL}
      /\ \A n \in Node : next(n) \in DLoc /\ locked(n) \in DLoc /\ n \in LockVal /\ n # NULL
      /\ NULL \in LockVal /\ 0 \in LockVal /\ 1 \in LockVal /\ msl \in DLoc /\ i \in DLoc
      /\ pc \in [Thread -> DriverPC]
  BY <1>1, DFacts
<1>3. /\ \A m, n : /\ next(m) # msl /\ locked(m) # msl /\ next(m) # locked(n)
                   /\ next(m) # i /\ locked(m) # i
                   /\ next(m) = next(n) => m = n
                   /\ locked(m) = locked(n) => m = n
      /\ msl # i
  BY DWords
<1>4. /\ x \in DLoc /\ v \in LockVal \cup {2} /\ x # msl /\ x # i
      /\ \A n : x = locked(n) => v \in {0, 1} /\ (v = 0 => rel)
      /\ \A n : x = next(n) => v \in Node \cup {NULL}
      /\ \A n : x = next(n) /\ v = NULL => ~ Linked(t)
  <2>1. CASE x = locked(node[t]) /\ v = 1
    BY <1>2, <1>3, <2>1
  <2>2. CASE x = next(node[t]) /\ v = NULL /\ ~ Linked(t)
    BY <1>2, <1>3, <2>2
  <2>3. CASE x = next(prev[t]) /\ prev[t] # NULL /\ v = node[t]
    BY <1>2, <1>3, <2>3
  <2>4. CASE v = 0 /\ rel /\ \E n \in Node : x = locked(n)
    BY <1>2, <1>3, <2>4
  <2> QED BY <2>1, <2>2, <2>3, <2>4
<1>5. /\ MemTypeOK(DThread, DLoc, LockVal \cup {2})'
      /\ NoBuffers'
      /\ \A u \in DThread \ {t} : /\ buf'[u] = buf[u]
                                  /\ Drained(u)' <=> Drained(u)
      /\ \A u \in DThread \ {t} : \A y, w : Holds(buf'[u], y, w) <=> Holds(buf[u], y, w)
      /\ \/ /\ mem'[x] = v /\ \A y \in DLoc \ {x} : mem'[y] = mem[y]
            /\ buf' = buf
            /\ \A u \in DThread : /\ Drained(u) /\ Drained(u)'
                                  /\ \A y, w : /\ ~ Holds(buf[u], y, w)
                                               /\ ~ Holds(buf'[u], y, w)
         \/ /\ mem' = mem
            /\ Model # "SC"
            /\ \A y, w : Holds(buf'[t], y, w) <=> Holds(buf[t], y, w) \/ (y = x /\ w = v)
  <2>1. PutDone(t, x, v)
    BY <1>1, <1>4, DPut
  <2> QED BY <2>1 DEF PutDone
<1>6. /\ mem'[msl] = mem[msl] /\ mem'[i] = mem[i]
      /\ \A y \in DLoc \ {x} : mem'[y] = mem[y]
      /\ mem'[x] \in {mem[x], v}
  BY <1>2, <1>4, <1>5
<1>7. /\ pc'[t] = l /\ \A u \in Thread \ {t} : pc'[u] = pc[u]
      /\ pc' \in [Thread -> DriverPC]
  BY <1>2
<1>8. DTypes'
  <2>1. \A n \in Node : mem'[next(n)] \in Node \cup {NULL} /\ mem'[locked(n)] \in {0, 1}
    <3> SUFFICES ASSUME NEW n \in Node
                 PROVE  mem'[next(n)] \in Node \cup {NULL} /\ mem'[locked(n)] \in {0, 1}
      OBVIOUS
    <3>1. mem[next(n)] \in Node \cup {NULL} /\ mem[locked(n)] \in {0, 1}
      BY <1>1 DEF DTypes
    <3>2. next(n) \in DLoc /\ locked(n) \in DLoc
      BY <1>2
    <3>3. mem'[next(n)] \in Node \cup {NULL}
      BY <1>4, <1>6, <3>1, <3>2
    <3>4. mem'[locked(n)] \in {0, 1}
      BY <1>4, <1>6, <3>1, <3>2
    <3> QED BY <3>3, <3>4
  <2>2. \A u \in Thread : pc'[u] \in {"link", "fence", "spin"} => prev[u] # NULL
    BY <1>1, <1>7 DEF DTypes
  <2> QED BY <1>1, <1>5, <1>6, <1>7, <2>1, <2>2 DEF DTypes
<1>9. ThreadStores'
  <2> SUFFICES ASSUME NEW u \in Thread, NEW y, NEW w, Holds(buf'[u], y, w)
               PROVE  \/ y = locked(node[u]) /\ w = 1 /\ Prepared(u)'
                      \/ y = next(node[u]) /\ w = NULL /\ Cleared(u)'
                      \/ y = next(prev[u]) /\ w = node[u] /\ Linked(u)'
                      \/ At(u, "out")' /\ w = 0 /\ \E n \in Node : y = locked(n)
    BY DEF ThreadStores
  <2>1. ASSUME Holds(buf[u], y, w)
        PROVE  \/ y = locked(node[u]) /\ w = 1 /\ Prepared(u)
               \/ y = next(node[u]) /\ w = NULL /\ Cleared(u)
               \/ y = next(prev[u]) /\ w = node[u] /\ Linked(u)
               \/ At(u, "out") /\ w = 0 /\ \E n \in Node : y = locked(n)
    BY <1>1, <2>1 DEF ThreadStores
  <2>2. CASE u # t
    <3>1. Holds(buf[u], y, w)
      BY <1>1, <1>5, <2>2
    <3>2. /\ Prepared(u) <=> Prepared(u)'
          /\ Cleared(u) <=> Cleared(u)'
          /\ Linked(u) <=> Linked(u)'
          /\ At(u, "out") <=> At(u, "out")'
      BY <1>7, <2>2 DEF Prepared, Cleared, Linked, Arrived, At
    <3> QED BY <2>1, <3>1, <3>2
  <2>3. CASE u = t /\ Holds(buf[t], y, w)
    BY <2>1, <2>3 DEF At
  <2>4. CASE u = t /\ y = x /\ w = v
    <3>1. l = "out" => At(t, "out")'
      BY <1>7 DEF At
    <3> QED BY <2>4, <3>1
  <2> QED BY <1>1, <1>5, <2>2, <2>3, <2>4
<1>10. MainStores'
  <2>1. \A y, w : Holds(buf'[Main], y, w) <=> Holds(buf[Main], y, w)
    BY <1>1, <1>5
  <2> QED BY <2>1 DEF DInv, MainStores
<1>11. MainLoop'
  <2>1. \A y, w : Holds(buf'[Main], y, w) <=> Holds(buf[Main], y, w)
    BY <1>1, <1>5
  <2>2. \A u \in Thread : pc'[u] # "none" <=> pc[u] # "none"
    BY <1>7
  <2> QED BY <1>6, <2>1, <2>2, TwoThreads DEF DInv, MainLoop
<1>12. ASSUME Model # "SC"
       PROVE  /\ DOMAIN buf[t] = 1..Len(buf[t])
              /\ Len(buf[t]) \in Nat
              /\ Len(buf'[t]) = Len(buf[t]) + 1
              /\ DOMAIN buf'[t] = 1..(Len(buf[t]) + 1)
              /\ buf'[t][Len(buf[t]) + 1] = [loc |-> x, val |-> v, rel |-> rel]
              /\ \A k \in DOMAIN buf[t] : buf'[t][k] = buf[t][k]
  <2>1. MemTypeOK(DThread, DLoc, LockVal \cup {2})
    BY <1>1 DEF DTypes
  <2> QED BY <1>1, <1>4, <1>12, <2>1, PutShape
<1>13. ReleaseLast'
  <2> SUFFICES ASSUME NEW u \in Thread, NEW k \in DOMAIN buf'[u], NEW n \in Node,
                      buf'[u][k].loc = locked(n), buf'[u][k].val = 0
               PROVE  buf'[u][k].rel /\ k = Len(buf'[u])
    BY DEF ReleaseLast
  <2>1. CASE buf'[u] = buf[u]
    BY <2>1 DEF DInv, ReleaseLast
  <2>2. CASE u = t /\ Model # "SC"
    <3>1. k # Len(buf[t]) + 1 => k \in DOMAIN buf[t]
      BY <1>12, <2>2
    <3>2. CASE k = Len(buf[t]) + 1
      BY <1>4, <1>12, <2>2, <3>2
    <3>3. CASE k \in DOMAIN buf[t]
      <4>1. Holds(buf[t], locked(n), 0)
        BY <1>12, <2>2, <3>3 DEF Holds
      <4>2. At(t, "out")
        BY <1>1, <4>1, StoreMeans
      <4> QED BY <4>2 DEF At
    <3> QED BY <3>1, <3>2, <3>3
  <2> QED BY <1>1, <1>5, <2>1, <2>2
<1>14. ClearedFirst'
  <2> SUFFICES ASSUME NEW u \in Thread, NEW n \in Node,
                      NEW k \in DOMAIN buf'[u], NEW m \in DOMAIN buf'[u],
                      buf'[u][k].loc = next(n), buf'[u][k].val = NULL,
                      buf'[u][m].loc = next(n), buf'[u][m].val # NULL
               PROVE  k < m
    BY DEF ClearedFirst
  <2>1. CASE buf'[u] = buf[u]
    BY <2>1 DEF DInv, ClearedFirst
  <2>2. CASE u = t /\ Model # "SC"
    <3>1. /\ k # Len(buf[t]) + 1 => k \in DOMAIN buf[t]
          /\ m # Len(buf[t]) + 1 => m \in DOMAIN buf[t]
      BY <1>12, <2>2
    <3>2. CASE k \in DOMAIN buf[t] /\ m \in DOMAIN buf[t]
      BY <1>12, <2>2, <3>2 DEF DInv, ClearedFirst
    <3>3. CASE k \in DOMAIN buf[t] /\ m = Len(buf[t]) + 1
      BY <1>12, <2>2, <3>3
    <3>4. CASE k = Len(buf[t]) + 1 /\ m \in DOMAIN buf[t]
      <4>1. PICK w : w # NULL /\ Holds(buf[t], next(n), w)
        BY <1>12, <2>2, <3>4 DEF Holds
      <4>2. Linked(t)
        BY <1>1, <4>1, SetsNext
      <4>3. x = next(n) /\ v = NULL
        BY <1>12, <2>2, <3>4
      <4> QED BY <1>4, <4>2, <4>3
    <3>5. CASE k = Len(buf[t]) + 1 /\ m = Len(buf[t]) + 1
      BY <3>5
    <3> QED BY <3>1, <3>2, <3>3, <3>4, <3>5
  <2> QED BY <1>1, <1>5, <2>1, <2>2
<1>15. \/ /\ mem'[x] = v /\ \A y \in DLoc \ {x} : mem'[y] = mem[y]
          /\ \A u \in Thread : /\ Drained(u) /\ Drained(u)'
                               /\ \A y, w : /\ ~ Holds(buf[u], y, w)
                                            /\ ~ Holds(buf'[u], y, w)
       \/ /\ mem' = mem
          /\ \A y, w : Holds(buf'[t], y, w) <=> Holds(buf[t], y, w) \/ (y = x /\ w = v)
  BY <1>1, <1>5
<1>16. /\ \A u \in Thread \ {t} : Drained(u)' <=> Drained(u)
       /\ \A u \in Thread \ {t} : \A y, w : Holds(buf'[u], y, w) <=> Holds(buf[u], y, w)
  BY <1>1, <1>5
<1> QED BY <1>4, <1>5, <1>6, <1>7, <1>8, <1>9, <1>10, <1>11, <1>13, <1>14, <1>15, <1>16 DEF Stored

(* The line of threads is the same when nobody enters or leaves it.        *)
LEMMA SameLine ==
  ASSUME LineOfTwo, arrivals' = arrivals,
         \A u \in Thread : (InTheLine(u)' <=> InTheLine(u)) /\ (Waiting(u)' <=> Waiting(u))
  PROVE  LineOfTwo'
<1>1. CASE arrivals = << >> /\ \A u \in Thread : ~ InTheLine(u)
  BY <1>1 DEF LineOfTwo
<1>2. ASSUME NEW w \in Thread, InTheLine(w), arrivals = <<w>>,
             \A u \in Thread \ {w} : ~ InTheLine(u)
      PROVE  LineOfTwo'
  BY <1>2 DEF LineOfTwo
<1>3. ASSUME NEW w \in Thread, InTheLine(w), NEW u \in Thread \ {w}, arrivals = <<w, u>>, Waiting(u)
      PROVE  LineOfTwo'
  BY <1>3 DEF LineOfTwo
<1> QED BY <1>1, <1>2, <1>3 DEF LineOfTwo

-----------------------------------------------------------------------------
(* The steps of the lock that store.                                       *)
LEMMA DInit1Keeps == ASSUME DInv, NEW t \in Thread, Init1(t), UNCHANGED mpc PROVE DInv'
<1> DEFINE x == locked(node[t])
<1>1. /\ pc[t] = "init1" /\ pc' = [pc EXCEPT ![t] = "init2"]
      /\ Put(t, x, 1, FALSE)
      /\ UNCHANGED <<node, prev, mpc>> /\ arrivals' = arrivals
  BY DEF Init1, At, Goto, Store
<1>2. /\ node \in [Thread -> Node] /\ node[t] \in Node
      /\ pc \in [Thread -> DriverPC]
      /\ pc'[t] = "init2"
      /\ \A n \in Node : next(n) \in DLoc /\ locked(n) \in DLoc /\ next(n) # x
      /\ \A n \in Node : n # node[t] => locked(n) # x
  BY <1>1, DFacts, DWords DEF DInv
<1>3. /\ ~ Prepared(t) /\ ~ Cleared(t) /\ ~ Linked(t) /\ ~ Arrived(t) /\ ~ InTheLine(t) /\ ~ Inside(t)
      /\ Prepared(t)' /\ ~ Cleared(t)' /\ ~ Linked(t)' /\ ~ Arrived(t)' /\ ~ InTheLine(t)' /\ ~ Inside(t)'
      /\ ~ At(t, "pass")' /\ ~ Gone(t) /\ ~ Gone(t)'
  BY <1>1, <1>2 DEF Prepared, Cleared, Linked, Arrived, InTheLine, Inside, Waiting, At, Gone
<1>4. /\ DTypes' /\ ThreadStores' /\ MainStores' /\ MainLoop'
      /\ ReleaseLast' /\ ClearedFirst' /\ NoBuffers'
      /\ x \in DLoc /\ x # msl /\ mem'[msl] = mem[msl]
      /\ pc'[t] = "init2" /\ \A u \in Thread \ {t} : pc'[u] = pc[u]
      /\ \A u \in Thread \ {t} : Drained(u)' <=> Drained(u)
      /\ \A u \in Thread \ {t} : \A y, w : Holds(buf'[u], y, w) <=> Holds(buf[u], y, w)
      /\ \/ /\ mem'[x] = 1 /\ \A y \in DLoc \ {x} : mem'[y] = mem[y]
            /\ \A u \in Thread : /\ Drained(u) /\ Drained(u)'
                                 /\ \A y, w : /\ ~ Holds(buf[u], y, w)
                                              /\ ~ Holds(buf'[u], y, w)
         \/ /\ mem' = mem
            /\ \A y, w : Holds(buf'[t], y, w) <=> Holds(buf[t], y, w) \/ (y = x /\ w = 1)
  <2>1. "init2" \in DriverPC
    BY DEF DriverPC, LockPC
  <2>2. Stored(t, x, 1, "init2")
    BY <1>1, <1>3, <2>1, ThreadPut
  <2> HIDE DEF x
  <2> QED BY <2>2 DEF Stored
<1>5. \A u \in Thread \ {t} :
        /\ Prepared(u)' <=> Prepared(u)
        /\ Cleared(u)' <=> Cleared(u)
        /\ Arrived(u)' <=> Arrived(u)
        /\ Linked(u)' <=> Linked(u)
        /\ InTheLine(u)' <=> InTheLine(u)
        /\ Inside(u)' <=> Inside(u)
        /\ Waiting(u)' <=> Waiting(u)
        /\ At(u, "pass")' <=> At(u, "pass")
        /\ At(u, "out")' <=> At(u, "out")
        /\ Gone(u)' <=> Gone(u)
  BY <1>1, <1>4 DEF Prepared, Cleared, Arrived, Linked, InTheLine, Inside, Waiting, At, Gone
<1> HIDE DEF x
<1>6. LineOfTwo'
  <2>1. ~ Waiting(t) /\ ~ Waiting(t)'
    BY <1>3 DEF InTheLine
  <2> QED BY <1>1, <1>3, <1>5, <2>1, SameLine DEF DInv
<1>7. TailIsSet'
  BY <1>3, <1>4, <1>5 DEF DInv, TailIsSet
<1>8. LockedSeen'
  <2> SUFFICES ASSUME NEW w \in Thread, NEW u \in Thread, w # u, Prepared(w)', ~ At(w, "out")', ~ Gone(u)'
               PROVE  mem'[locked(node[w])] = 1 \/ Holds(buf'[w], locked(node[w]), 1)
    BY <1>1 DEF LockedSeen
  <2>1. CASE w = t
    <3>1. x = locked(node[w])
      BY <2>1 DEF x
    <3> QED BY <1>4, <2>1, <3>1
  <2>2. CASE w # t
    <3>1. mem[locked(node[w])] = 1 \/ Holds(buf[w], locked(node[w]), 1)
      BY <1>3, <1>5, <2>2 DEF DInv, LockedSeen
    <3>2. locked(node[w]) \in DLoc
      BY <1>2
    <3> QED BY <1>4, <2>2, <3>1, <3>2
  <2> QED BY <2>1, <2>2
<1>9. SecondIsAlone'
  <2> SUFFICES ASSUME NEW w \in Thread, NEW u \in Thread, w # u, Inside(w)', prev[w] # NULL
               PROVE  Gone(u)'
    BY <1>1 DEF SecondIsAlone
  <2>1. w # t /\ Inside(w)
    BY <1>3, <1>5
  <2>2. Gone(u)
    BY <2>1 DEF DInv, SecondIsAlone
  <2> QED BY <1>3, <1>5, <2>2
<1>10. NextIsSet'
  <2> SUFFICES ASSUME NEW n \in Node, mem'[next(n)] # NULL
               PROVE  \E w \in Thread : Linked(w)' /\ prev[w] = n /\ ~ Holds(buf'[w], next(n), NULL)
    BY <1>1 DEF NextIsSet
  <2>1. mem[next(n)] # NULL
    BY <1>2, <1>4
  <2>2. PICK w \in Thread : Linked(w) /\ prev[w] = n /\ ~ Holds(buf[w], next(n), NULL)
    BY <2>1 DEF DInv, NextIsSet
  <2> QED BY <1>3, <1>4, <1>5, <2>2
<1>11. NextStays'
  <2> SUFFICES ASSUME NEW u \in Thread, At(u, "pass")' PROVE FALSE
    BY DEF NextStays
  <2>1. At(u, "pass")
    BY <1>3, <1>5
  <2> QED BY <1>3, <2>1 DEF DInv, NextStays
<1> QED BY <1>4, <1>6, <1>7, <1>8, <1>9, <1>10, <1>11 DEF DInv

(* me->next = NULL.                                                        *)
LEMMA DInit2Keeps == ASSUME DInv, NEW t \in Thread, Init2(t), UNCHANGED mpc PROVE DInv'
<1> DEFINE x == next(node[t])
<1>1. /\ pc[t] = "init2" /\ pc' = [pc EXCEPT ![t] = "xchg"]
      /\ Put(t, x, NULL, FALSE)
      /\ UNCHANGED <<node, prev, mpc>> /\ arrivals' = arrivals
  BY DEF Init2, At, Goto, Store
<1>2. /\ node \in [Thread -> Node] /\ node[t] \in Node
      /\ pc \in [Thread -> DriverPC]
      /\ pc'[t] = "xchg"
      /\ \A n \in Node : next(n) \in DLoc /\ locked(n) \in DLoc /\ locked(n) # x
  BY <1>1, DFacts, DWords DEF DInv
<1>3. /\ Prepared(t) /\ ~ Cleared(t) /\ ~ Linked(t) /\ ~ Arrived(t) /\ ~ InTheLine(t) /\ ~ Inside(t)
      /\ Prepared(t)' /\ Cleared(t)' /\ ~ Linked(t)' /\ ~ Arrived(t)' /\ ~ InTheLine(t)' /\ ~ Inside(t)'
      /\ ~ At(t, "pass")' /\ ~ Gone(t) /\ ~ Gone(t)' /\ ~ At(t, "out") /\ ~ At(t, "out")'
  BY <1>1, <1>2 DEF Prepared, Cleared, Linked, Arrived, InTheLine, Inside, Waiting, At, Gone
<1>4. /\ DTypes' /\ ThreadStores' /\ MainStores' /\ MainLoop'
      /\ ReleaseLast' /\ ClearedFirst' /\ NoBuffers'
      /\ x \in DLoc /\ x # msl /\ mem'[msl] = mem[msl]
      /\ pc'[t] = "xchg" /\ \A u \in Thread \ {t} : pc'[u] = pc[u]
      /\ \A u \in Thread \ {t} : Drained(u)' <=> Drained(u)
      /\ \A u \in Thread \ {t} : \A y, w : Holds(buf'[u], y, w) <=> Holds(buf[u], y, w)
      /\ \/ /\ mem'[x] = NULL /\ \A y \in DLoc \ {x} : mem'[y] = mem[y]
            /\ \A u \in Thread : /\ Drained(u) /\ Drained(u)'
                                 /\ \A y, w : /\ ~ Holds(buf[u], y, w)
                                              /\ ~ Holds(buf'[u], y, w)
         \/ /\ mem' = mem
            /\ \A y, w : Holds(buf'[t], y, w) <=> Holds(buf[t], y, w) \/ (y = x /\ w = NULL)
  <2>1. "xchg" \in DriverPC
    BY DEF DriverPC, LockPC
  <2>2. Stored(t, x, NULL, "xchg")
    BY <1>1, <1>3, <2>1, ThreadPut
  <2> HIDE DEF x
  <2> QED BY <2>2 DEF Stored
<1>5. \A u \in Thread \ {t} :
        /\ Prepared(u)' <=> Prepared(u)
        /\ Cleared(u)' <=> Cleared(u)
        /\ Arrived(u)' <=> Arrived(u)
        /\ Linked(u)' <=> Linked(u)
        /\ InTheLine(u)' <=> InTheLine(u)
        /\ Inside(u)' <=> Inside(u)
        /\ Waiting(u)' <=> Waiting(u)
        /\ At(u, "pass")' <=> At(u, "pass")
        /\ At(u, "out")' <=> At(u, "out")
        /\ Gone(u)' <=> Gone(u)
  BY <1>1, <1>4 DEF Prepared, Cleared, Arrived, Linked, InTheLine, Inside, Waiting, At, Gone
<1> HIDE DEF x
<1>6. LineOfTwo'
  <2>1. ~ Waiting(t) /\ ~ Waiting(t)'
    BY <1>3 DEF InTheLine
  <2> QED BY <1>1, <1>3, <1>5, <2>1, SameLine DEF DInv
<1>7. TailIsSet'
  BY <1>3, <1>4, <1>5 DEF DInv, TailIsSet
<1>8. LockedSeen'
  <2> SUFFICES ASSUME NEW w \in Thread, NEW u \in Thread, w # u, Prepared(w)', ~ At(w, "out")', ~ Gone(u)'
               PROVE  mem'[locked(node[w])] = 1 \/ Holds(buf'[w], locked(node[w]), 1)
    BY <1>1 DEF LockedSeen
  <2>1. Prepared(w) /\ ~ At(w, "out") /\ ~ Gone(u)
    BY <1>3, <1>5
  <2>2. mem[locked(node[w])] = 1 \/ Holds(buf[w], locked(node[w]), 1)
    BY <2>1 DEF DInv, LockedSeen
  <2>3. locked(node[w]) \in DLoc /\ locked(node[w]) # x
    BY <1>2
  <2> QED BY <1>4, <2>2, <2>3
<1>9. SecondIsAlone'
  <2> SUFFICES ASSUME NEW w \in Thread, NEW u \in Thread, w # u, Inside(w)', prev[w] # NULL
               PROVE  Gone(u)'
    BY <1>1 DEF SecondIsAlone
  <2>1. w # t /\ Inside(w)
    BY <1>3, <1>5
  <2>2. Gone(u)
    BY <2>1 DEF DInv, SecondIsAlone
  <2> QED BY <1>3, <1>5, <2>2
<1>10. NextIsSet'
  <2> SUFFICES ASSUME NEW n \in Node, mem'[next(n)] # NULL
               PROVE  \E w \in Thread : Linked(w)' /\ prev[w] = n /\ ~ Holds(buf'[w], next(n), NULL)
    BY <1>1 DEF NextIsSet
  <2>1. mem[next(n)] # NULL
    BY <1>2, <1>4
  <2>2. PICK w \in Thread : Linked(w) /\ prev[w] = n /\ ~ Holds(buf[w], next(n), NULL)
    BY <2>1 DEF DInv, NextIsSet
  <2> QED BY <1>3, <1>4, <1>5, <2>2
<1>11. NextStays'
  <2> SUFFICES ASSUME NEW u \in Thread, At(u, "pass")' PROVE FALSE
    BY DEF NextStays
  <2>1. At(u, "pass")
    BY <1>3, <1>5
  <2> QED BY <1>3, <2>1 DEF DInv, NextStays
<1> QED BY <1>4, <1>6, <1>7, <1>8, <1>9, <1>10, <1>11 DEF DInv

(* prev->next = me.                                                        *)
LEMMA DLinkKeeps == ASSUME DInv, NEW t \in Thread, Link(t), UNCHANGED mpc PROVE DInv'
<1> DEFINE x == next(prev[t])
           v == node[t]
<1>1. /\ pc[t] = "link" /\ pc' = [pc EXCEPT ![t] = "fence"]
      /\ Put(t, x, v, FALSE)
      /\ UNCHANGED <<node, prev, mpc>> /\ arrivals' = arrivals
  BY DEF Link, At, Goto, Store
<1>2. /\ node \in [Thread -> Node] /\ node[t] \in Node
      /\ prev[t] \in Node
      /\ pc \in [Thread -> DriverPC]
      /\ pc'[t] = "fence"
      /\ \A n \in Node : next(n) \in DLoc /\ locked(n) \in DLoc /\ locked(n) # x
      /\ \A n \in Node : next(n) = x => n = prev[t]
      /\ v # NULL
  <2>1. prev[t] # NULL
    BY <1>1 DEF DInv, DTypes
  <2> QED BY <1>1, <2>1, DFacts, DWords DEF DInv
<1>3. /\ Prepared(t) /\ Cleared(t) /\ ~ Linked(t) /\ Arrived(t) /\ InTheLine(t) /\ ~ Inside(t) /\ Waiting(t)
      /\ Prepared(t)' /\ Cleared(t)' /\ Linked(t)' /\ Arrived(t)' /\ InTheLine(t)' /\ ~ Inside(t)' /\ Waiting(t)'
      /\ ~ At(t, "pass")' /\ ~ Gone(t) /\ ~ Gone(t)' /\ ~ At(t, "out") /\ ~ At(t, "out")'
  BY <1>1, <1>2, DFacts DEF DInv, Prepared, Cleared, Linked, Arrived, InTheLine, Inside, Waiting, At, Gone
<1>4. /\ DTypes' /\ ThreadStores' /\ MainStores' /\ MainLoop'
      /\ ReleaseLast' /\ ClearedFirst' /\ NoBuffers'
      /\ x \in DLoc /\ x # msl /\ mem'[msl] = mem[msl]
      /\ pc'[t] = "fence" /\ \A u \in Thread \ {t} : pc'[u] = pc[u]
      /\ \A u \in Thread \ {t} : Drained(u)' <=> Drained(u)
      /\ \A u \in Thread \ {t} : \A y, w : Holds(buf'[u], y, w) <=> Holds(buf[u], y, w)
      /\ \/ /\ mem'[x] = v /\ \A y \in DLoc \ {x} : mem'[y] = mem[y]
            /\ \A u \in Thread : /\ Drained(u) /\ Drained(u)'
                                 /\ \A y, w : /\ ~ Holds(buf[u], y, w)
                                              /\ ~ Holds(buf'[u], y, w)
         \/ /\ mem' = mem
            /\ \A y, w : Holds(buf'[t], y, w) <=> Holds(buf[t], y, w) \/ (y = x /\ w = v)
  <2>1. "fence" \in DriverPC
    BY DEF DriverPC, LockPC
  <2>2. prev[t] # NULL
    BY <1>1 DEF DInv, DTypes
  <2>3. Stored(t, x, v, "fence")
    BY <1>1, <1>3, <2>1, <2>2, ThreadPut
  <2> HIDE DEF x, v
  <2> QED BY <2>3 DEF Stored
<1>5. \A u \in Thread \ {t} :
        /\ Prepared(u)' <=> Prepared(u)
        /\ Cleared(u)' <=> Cleared(u)
        /\ Arrived(u)' <=> Arrived(u)
        /\ Linked(u)' <=> Linked(u)
        /\ InTheLine(u)' <=> InTheLine(u)
        /\ Inside(u)' <=> Inside(u)
        /\ Waiting(u)' <=> Waiting(u)
        /\ At(u, "pass")' <=> At(u, "pass")
        /\ At(u, "out")' <=> At(u, "out")
        /\ Gone(u)' <=> Gone(u)
  BY <1>1, <1>4 DEF Prepared, Cleared, Arrived, Linked, InTheLine, Inside, Waiting, At, Gone
<1> HIDE DEF x, v
<1>6. LineOfTwo'
  BY <1>1, <1>3, <1>5, SameLine DEF DInv
<1>7. TailIsSet'
  BY <1>3, <1>4, <1>5 DEF DInv, TailIsSet
<1>8. LockedSeen'
  <2> SUFFICES ASSUME NEW w \in Thread, NEW u \in Thread, w # u, Prepared(w)', ~ At(w, "out")', ~ Gone(u)'
               PROVE  mem'[locked(node[w])] = 1 \/ Holds(buf'[w], locked(node[w]), 1)
    BY <1>1 DEF LockedSeen
  <2>1. Prepared(w) /\ ~ At(w, "out") /\ ~ Gone(u)
    BY <1>3, <1>5
  <2>2. mem[locked(node[w])] = 1 \/ Holds(buf[w], locked(node[w]), 1)
    BY <2>1 DEF DInv, LockedSeen
  <2>3. locked(node[w]) \in DLoc /\ locked(node[w]) # x
    BY <1>2
  <2> QED BY <1>4, <2>2, <2>3
<1>9. SecondIsAlone'
  <2> SUFFICES ASSUME NEW w \in Thread, NEW u \in Thread, w # u, Inside(w)', prev[w] # NULL
               PROVE  Gone(u)'
    BY <1>1 DEF SecondIsAlone
  <2>1. w # t /\ Inside(w)
    BY <1>3, <1>5
  <2>2. Gone(u)
    BY <2>1 DEF DInv, SecondIsAlone
  <2> QED BY <1>3, <1>5, <2>2
<1>10. NextIsSet'
  <2> SUFFICES ASSUME NEW n \in Node, mem'[next(n)] # NULL
               PROVE  \E w \in Thread : Linked(w)' /\ prev[w] = n /\ ~ Holds(buf'[w], next(n), NULL)
    BY <1>1 DEF NextIsSet
  <2>1. CASE mem[next(n)] # NULL
    <3>1. PICK w \in Thread : Linked(w) /\ prev[w] = n /\ ~ Holds(buf[w], next(n), NULL)
      BY <2>1 DEF DInv, NextIsSet
    <3> QED BY <1>3, <1>4, <1>5, <3>1
  <2>2. CASE mem[next(n)] = NULL
    <3>1. mem'[next(n)] # mem[next(n)]
      BY <2>2
    <3>2. /\ next(n) = x
          /\ ~ Holds(buf'[t], next(n), NULL)
      BY <1>2, <1>4, <3>1
    <3>3. prev[t] = n
      BY <1>2, <3>2
    <3> QED BY <1>3, <3>2, <3>3
  <2> QED BY <2>1, <2>2
<1>11. NextStays'
  <2> SUFFICES ASSUME NEW u \in Thread, At(u, "pass")'
               PROVE  /\ \A w \in Thread : Cleared(w)'
                      /\ \A w \in Thread \ {u} : ~ Holds(buf'[w], next(node[u]), NULL)
                      /\ \/ \E k \in Node : Holds(buf'[u], next(node[u]), k)
                         \/ mem'[next(node[u])] # NULL /\ ~ Holds(buf'[u], next(node[u]), NULL)
    BY <1>1 DEF NextStays
  <2>1. u # t /\ At(u, "pass")
    BY <1>3, <1>5
  <2>2. /\ \A w \in Thread : Cleared(w)
        /\ \A w \in Thread \ {u} : ~ Holds(buf[w], next(node[u]), NULL)
        /\ \/ \E k \in Node : Holds(buf[u], next(node[u]), k)
           \/ mem[next(node[u])] # NULL /\ ~ Holds(buf[u], next(node[u]), NULL)
    BY <2>1 DEF DInv, NextStays
  <2>3. \A w \in Thread \ {u} : ~ Holds(buf'[w], next(node[u]), NULL)
    <3> SUFFICES ASSUME NEW w \in Thread \ {u}, Holds(buf'[w], next(node[u]), NULL) PROVE FALSE
      OBVIOUS
    <3>1. CASE w = t
      BY <1>2, <1>4, <2>2, <3>1
    <3>2. CASE w # t
      BY <1>4, <2>2, <3>2
    <3> QED BY <3>1, <3>2
  <2>4. mem[next(node[u])] # NULL => mem'[next(node[u])] # NULL
    <3>1. next(node[u]) \in DLoc
      BY <1>2
    <3> QED BY <1>2, <1>4, <3>1
  <2> QED BY <1>3, <1>4, <1>5, <2>1, <2>2, <2>3, <2>4
<1> QED BY <1>4, <1>6, <1>7, <1>8, <1>9, <1>10, <1>11 DEF DInv

(* The value a thread reads is that of its newest store under way.         *)
LEMMA LoadNewest ==
  ASSUME MemTypeOK(DThread, DLoc, LockVal \cup {2}), NEW t \in DThread, NEW x, Pending(t, x) # {}
  PROVE  \E k \in Pending(t, x) : /\ Load(t, x) = buf[t][k].val
                                  /\ \A m \in Pending(t, x) : m <= k
<1> DEFINE b == buf[t]
           P == Pending(t, x)
<1>1. DOMAIN b = 1..Len(b) /\ Len(b) \in Nat
  BY DEF MemTypeOK
<1>2. P \in SUBSET (1..Len(b))
  BY <1>1 DEF Pending
<1>3. \E k \in P : \A j \in P : j <= k
  <2> HIDE DEF P, b
  <2> QED BY <1>1, <1>2, LastPosition DEF P
<1> DEFINE l == CHOOSE k \in P : \A j \in P : j <= k
<1>4. l \in P /\ \A j \in P : j <= l
  <2> HIDE DEF P
  <2> QED BY <1>3
<1>5. Load(t, x) = b[l].val
  BY DEF Load
<1> HIDE DEF l
<1> QED BY <1>4, <1>5

(* The hand-over goes to the node whose next pointer was seen set.         *)
LEMMA PassTarget ==
  ASSUME DInv, NEW t \in Thread, At(t, "pass")
  PROVE  Load(t, next(node[t])) \in Node
<1> DEFINE y == next(node[t])
<1>1. /\ MemTypeOK(DThread, DLoc, LockVal \cup {2})
      /\ t \in DThread /\ y \in DLoc /\ node[t] \in Node
      /\ mem[y] \in Node \cup {NULL}
  BY DFacts, TwoThreads DEF DInv, DTypes
<1>2. \/ Load(t, y) = mem[y] /\ \A v : ~ Holds(buf[t], y, v)
      \/ Holds(buf[t], y, Load(t, y))
  BY <1>1, LoadHolds
<1>3. \/ \E v \in Node : Holds(buf[t], y, v)
      \/ mem[y] # NULL /\ ~ Holds(buf[t], y, NULL)
  BY DEF DInv, NextStays
<1>4. ASSUME Holds(buf[t], y, Load(t, y)) PROVE Load(t, y) \in Node \cup {NULL}
  <2>1. ASSUME NEW x, NEW v, Holds(buf[t], x, v)
        PROVE  \A n : x = next(n) => v \in Node \cup {NULL}
    BY <2>1, StoreMeans DEF DInv
  <2> QED BY <1>4, <2>1
<1>5. PICK v : v = Load(t, y)
  OBVIOUS
<1>6. v # NULL
  <2>1. CASE Holds(buf[t], y, NULL) /\ v = NULL
    <3>1. PICK w \in Node : Holds(buf[t], y, w)
      BY <1>3, <2>1
    <3>2. w # NULL
      BY NodeAssumption
    <3>3. /\ Pending(t, y) # {}
          /\ \E k \in Pending(t, y) : buf[t][k].val = NULL /\ \A m \in Pending(t, y) : m <= k
      <4>1. Pending(t, y) # {}
        BY <3>1 DEF Pending, Holds
      <4>2. \E k \in Pending(t, y) : /\ Load(t, y) = buf[t][k].val
                                     /\ \A m \in Pending(t, y) : m <= k
        BY <1>1, <4>1, LoadNewest
      <4> QED BY <1>5, <2>1, <4>1, <4>2
    <3>4. PICK k \in Pending(t, y) : buf[t][k].val = NULL /\ \A m \in Pending(t, y) : m <= k
      BY <3>3
    <3>5. PICK m \in DOMAIN buf[t] : buf[t][m].loc = y /\ buf[t][m].val = w
      BY <3>1 DEF Holds
    <3>6. k \in DOMAIN buf[t] /\ buf[t][k].loc = y /\ m \in Pending(t, y) /\ m <= k
      BY <3>4, <3>5 DEF Pending
    <3>7. k < m
      BY <1>1, <3>2, <3>4, <3>5, <3>6 DEF DInv, ClearedFirst
    <3>8. k \in Nat /\ m \in Nat
      BY <1>1, <3>6, <3>5 DEF MemTypeOK
    <3> QED BY <3>6, <3>7, <3>8
  <2>2. CASE v = NULL /\ ~ Holds(buf[t], y, NULL)
    BY <1>2, <1>3, <1>5, <2>2, NodeAssumption
  <2> QED BY <2>1, <2>2
<1> QED BY <1>1, <1>2, <1>4, <1>5, <1>6

(* The thread inside is the head of the line, and nobody else is inside.   *)
LEMMA InsideFirst ==
  ASSUME LineOfTwo, NEW t \in Thread, Inside(t)
  PROVE  /\ \A u \in Thread \ {t} : ~ Inside(u)
         /\ \/ arrivals = <<t>> /\ \A u \in Thread \ {t} : ~ InTheLine(u)
            \/ \E u \in Thread \ {t} : arrivals = <<t, u>> /\ Waiting(u)
<1>1. \A u \in Thread : /\ Inside(u) => InTheLine(u) /\ ~ Waiting(u)
                        /\ Waiting(u) => ~ Inside(u)
  BY DEF InTheLine, Inside, Waiting
<1>2. PICK w \in Thread :
        /\ InTheLine(w)
        /\ \/ arrivals = <<w>> /\ \A u \in Thread \ {w} : ~ InTheLine(u)
           \/ \E u \in Thread \ {w} : arrivals = <<w, u>> /\ Waiting(u)
  BY <1>1 DEF LineOfTwo
<1>3. CASE arrivals = <<w>> /\ \A u \in Thread \ {w} : ~ InTheLine(u)
  BY <1>1, <1>3
<1>4. ASSUME NEW u \in Thread \ {w}, arrivals = <<w, u>>, Waiting(u)
      PROVE  w = t /\ \A v \in Thread \ {t} : ~ Inside(v)
  <2>1. \A v \in Thread : v = w \/ v = u
    BY TwoThreads
  <2> QED BY <1>1, <1>4, <2>1
<1> QED BY <1>2, <1>3, <1>4

(* The first of the line leaves it.                                        *)
LEMMA HeadLeaves ==
  ASSUME LineOfTwo, NEW t \in Thread, Inside(t), ~ InTheLine(t)', arrivals' = Tail(arrivals),
         \A u \in Thread \ {t} : (InTheLine(u)' <=> InTheLine(u)) /\ (Waiting(u)' <=> Waiting(u))
  PROVE  LineOfTwo'
<1>1. CASE arrivals = <<t>> /\ \A u \in Thread \ {t} : ~ InTheLine(u)
  <2>1. arrivals' = << >>
    BY <1>1
  <2> QED BY <1>1, <2>1 DEF LineOfTwo
<1>2. ASSUME NEW u \in Thread \ {t}, arrivals = <<t, u>>, Waiting(u)
      PROVE  LineOfTwo'
  <2>1. arrivals' = <<u>>
    BY <1>2
  <2>2. \A w \in Thread : w = t \/ w = u
    BY TwoThreads
  <2>3. InTheLine(u)'
    BY <1>2 DEF InTheLine
  <2>4. \A w \in Thread \ {u} : ~ InTheLine(w)'
    BY <2>2
  <2> QED BY <2>1, <2>3, <2>4 DEF LineOfTwo
<1> QED BY <1>1, <1>2, InsideFirst

(* me->next->locked = 0, the last store of its thread.                     *)
LEMMA DPassKeeps == ASSUME DInv, NEW t \in Thread, Pass(t), UNCHANGED mpc PROVE DInv'
<1> DEFINE x == locked(Load(t, next(node[t])))
<1>1. /\ pc[t] = "pass" /\ pc' = [pc EXCEPT ![t] = "out"]
      /\ Put(t, x, 0, TRUE)
      /\ UNCHANGED <<node, prev, mpc>> /\ arrivals' = Tail(arrivals)
  BY DEF Pass, At, Goto, StoreRelease
<1>2. /\ node \in [Thread -> Node] /\ node[t] \in Node
      /\ pc \in [Thread -> DriverPC]
      /\ pc'[t] = "out"
      /\ \A n \in Node : next(n) \in DLoc /\ next(n) # x
      /\ \E n \in Node : x = locked(n)
  <2>1. Load(t, next(node[t])) \in Node
    BY <1>1, PassTarget DEF At
  <2> QED BY <1>1, <2>1, DFacts, DWords DEF DInv
<1>3. /\ Prepared(t) /\ Cleared(t) /\ Arrived(t) /\ InTheLine(t) /\ Inside(t)
      /\ Prepared(t)' /\ Cleared(t)' /\ Arrived(t)' /\ ~ InTheLine(t)' /\ ~ Inside(t)'
      /\ Linked(t)' <=> Linked(t)
      /\ ~ At(t, "pass")' /\ ~ Gone(t) /\ ~ At(t, "out") /\ At(t, "out")'
  BY <1>1, <1>2, DFacts DEF DInv, Prepared, Cleared, Linked, Arrived, InTheLine, Inside, Waiting, At, Gone
<1>4. /\ DTypes' /\ ThreadStores' /\ MainStores' /\ MainLoop'
      /\ ReleaseLast' /\ ClearedFirst' /\ NoBuffers'
      /\ x \in DLoc /\ x # msl /\ mem'[msl] = mem[msl]
      /\ pc'[t] = "out" /\ \A u \in Thread \ {t} : pc'[u] = pc[u]
      /\ \A u \in Thread \ {t} : Drained(u)' <=> Drained(u)
      /\ \A u \in Thread \ {t} : \A y, w : Holds(buf'[u], y, w) <=> Holds(buf[u], y, w)
      /\ \/ /\ mem'[x] = 0 /\ \A y \in DLoc \ {x} : mem'[y] = mem[y]
            /\ \A u \in Thread : /\ Drained(u) /\ Drained(u)'
                                 /\ \A y, w : /\ ~ Holds(buf[u], y, w)
                                              /\ ~ Holds(buf'[u], y, w)
         \/ /\ mem' = mem
            /\ \A y, w : Holds(buf'[t], y, w) <=> Holds(buf[t], y, w) \/ (y = x /\ w = 0)
  <2>1. "out" \in DriverPC
    BY DEF DriverPC, LockPC
  <2> HIDE DEF x
  <2>2. Stored(t, x, 0, "out")
    BY <1>1, <1>2, <1>3, <2>1, ThreadPut
  <2> QED BY <2>2 DEF Stored
<1>5. \A u \in Thread \ {t} :
        /\ Prepared(u)' <=> Prepared(u)
        /\ Cleared(u)' <=> Cleared(u)
        /\ Arrived(u)' <=> Arrived(u)
        /\ Linked(u)' <=> Linked(u)
        /\ InTheLine(u)' <=> InTheLine(u)
        /\ Inside(u)' <=> Inside(u)
        /\ Waiting(u)' <=> Waiting(u)
        /\ At(u, "pass")' <=> At(u, "pass")
        /\ At(u, "out")' <=> At(u, "out")
        /\ Gone(u)' <=> Gone(u)
  BY <1>1, <1>4 DEF Prepared, Cleared, Arrived, Linked, InTheLine, Inside, Waiting, At, Gone
<1> HIDE DEF x
<1>6. LineOfTwo' /\ \A u \in Thread : ~ Inside(u)'
  <2>1. \A u \in Thread \ {t} : ~ Inside(u)
    BY <1>3, InsideFirst DEF DInv
  <2> QED BY <1>1, <1>3, <1>5, <2>1, HeadLeaves DEF DInv
<1>7. TailIsSet'
  BY <1>3, <1>4, <1>5 DEF DInv, TailIsSet
<1>8. LockedSeen'
  <2> SUFFICES ASSUME NEW w \in Thread, NEW u \in Thread, w # u, Prepared(w)', ~ At(w, "out")', ~ Gone(u)'
               PROVE  mem'[locked(node[w])] = 1 \/ Holds(buf'[w], locked(node[w]), 1)
    BY <1>1 DEF LockedSeen
  <2>1. w # t /\ u = t
    BY <1>3, TwoThreads
  <2>2. Prepared(w) /\ ~ At(w, "out") /\ ~ Gone(u)
    BY <1>3, <1>5, <2>1
  <2>3. mem[locked(node[w])] = 1 \/ Holds(buf[w], locked(node[w]), 1)
    BY <2>2 DEF DInv, LockedSeen
  <2>4. ~ Drained(t)'
    BY <1>3, <2>1 DEF Gone
  <2>5. mem' = mem
    BY <1>4, <2>4
  <2> QED BY <1>4, <2>1, <2>3, <2>5
<1>9. SecondIsAlone'
  BY <1>6 DEF SecondIsAlone
<1>10. NextIsSet'
  <2> SUFFICES ASSUME NEW n \in Node, mem'[next(n)] # NULL
               PROVE  \E w \in Thread : Linked(w)' /\ prev[w] = n /\ ~ Holds(buf'[w], next(n), NULL)
    BY <1>1 DEF NextIsSet
  <2>1. mem[next(n)] # NULL
    BY <1>2, <1>4
  <2>2. PICK w \in Thread : Linked(w) /\ prev[w] = n /\ ~ Holds(buf[w], next(n), NULL)
    BY <2>1 DEF DInv, NextIsSet
  <2>3. ~ Holds(buf'[w], next(n), NULL)
    BY <1>2, <1>4, <2>2
  <2> QED BY <1>3, <1>5, <2>2, <2>3
<1>11. NextStays'
  <2> SUFFICES ASSUME NEW u \in Thread, At(u, "pass")' PROVE FALSE
    BY DEF NextStays
  <2> QED BY <1>6 DEF At, Inside
<1> QED BY <1>4, <1>6, <1>7, <1>8, <1>9, <1>10, <1>11 DEF DInv

-----------------------------------------------------------------------------
(* The stores of main, to its loop variable, and their commits.            *)
LEMMA MainKeeps ==
  ASSUME DInv, UNCHANGED <<pc, node, prev, arrivals>>,
         \A u \in Thread : buf'[u] = buf[u],
         \A y \in DLoc \ {i} : mem'[y] = mem[y],
         mem'[i] \in {0, 1, 2}, MemTypeOK(DThread, DLoc, LockVal \cup {2})',
         mpc' \in {"create", "incr", "join", "exit"}, MainStores', MainLoop', NoBuffers'
  PROVE  DInv'
<1>1. /\ node \in [Thread -> Node] /\ msl \in DLoc /\ msl # i
      /\ \A n \in Node : /\ next(n) \in DLoc /\ locked(n) \in DLoc
                         /\ next(n) # i /\ locked(n) # i
  BY DFacts, DWords DEF DInv
<1>2. /\ mem'[msl] = mem[msl]
      /\ \A n \in Node : mem'[next(n)] = mem[next(n)] /\ mem'[locked(n)] = mem[locked(n)]
  BY <1>1
<1>3. /\ \A u \in Thread : \A x, v : Holds(buf'[u], x, v) <=> Holds(buf[u], x, v)
      /\ \A u \in Thread : Drained(u)' <=> Drained(u)
  BY DEF Holds, Drained
<1>4. \A u \in Thread :
        /\ Prepared(u)' <=> Prepared(u)
        /\ Cleared(u)' <=> Cleared(u)
        /\ Arrived(u)' <=> Arrived(u)
        /\ Linked(u)' <=> Linked(u)
        /\ InTheLine(u)' <=> InTheLine(u)
        /\ Inside(u)' <=> Inside(u)
        /\ Waiting(u)' <=> Waiting(u)
        /\ At(u, "pass")' <=> At(u, "pass")
        /\ At(u, "out")' <=> At(u, "out")
        /\ Gone(u)' <=> Gone(u)
  BY <1>3 DEF Prepared, Cleared, Arrived, Linked, InTheLine, Inside, Waiting, At, Gone
<1>5. DTypes'
  BY <1>2 DEF DInv, DTypes
<1>6. ThreadStores'
  <2> SUFFICES ASSUME NEW u \in Thread, NEW x, NEW v, Holds(buf'[u], x, v)
               PROVE  \/ x = locked(node[u]) /\ v = 1 /\ Prepared(u)'
                      \/ x = next(node[u]) /\ v = NULL /\ Cleared(u)'
                      \/ x = next(prev[u]) /\ v = node[u] /\ Linked(u)'
                      \/ At(u, "out")' /\ v = 0 /\ \E n \in Node : x = locked(n)
    BY DEF ThreadStores
  <2>1. Holds(buf[u], x, v)
    BY <1>3
  <2>2. \/ x = locked(node[u]) /\ v = 1 /\ Prepared(u)
        \/ x = next(node[u]) /\ v = NULL /\ Cleared(u)
        \/ x = next(prev[u]) /\ v = node[u] /\ Linked(u)
        \/ At(u, "out") /\ v = 0 /\ \E n \in Node : x = locked(n)
    BY <2>1 DEF DInv, ThreadStores
  <2> QED BY <1>4, <2>2
<1>7. LineOfTwo' /\ TailIsSet'
  BY <1>2, <1>4, SameLine DEF DInv, TailIsSet
<1>8. ReleaseLast' /\ ClearedFirst'
  BY DEF DInv, ReleaseLast, ClearedFirst
<1>9. LockedSeen'
  BY <1>1, <1>2, <1>3, <1>4 DEF DInv, LockedSeen
<1>10. SecondIsAlone' /\ NextIsSet'
  BY <1>2, <1>3, <1>4 DEF DInv, SecondIsAlone, NextIsSet
<1>11. NextStays'
  BY <1>1, <1>2, <1>3, <1>4 DEF DInv, NextStays
<1> QED BY <1>5, <1>6, <1>7, <1>8, <1>9, <1>10, <1>11 DEF DInv

(* i++.                                                                    *)
LEMMA DIncrementKeeps == ASSUME DInv, Increment PROVE DInv'
<1> DEFINE w == Load(Main, i)
           v == w + 1
<1>1. /\ mpc = "incr" /\ mpc' = IF v < 2 THEN "create" ELSE "join"
      /\ Put(Main, i, v, FALSE)
      /\ UNCHANGED <<pc, node, prev, arrivals>>
  BY DEF Increment, Store, lockVars
<1>2. /\ MemTypeOK(DThread, DLoc, LockVal \cup {2})
      /\ Main \in DThread /\ i \in DLoc
      /\ \A u \in Thread : u \in DThread \ {Main}
      /\ 1 \in LockVal \cup {2} /\ 2 \in LockVal \cup {2}
  BY DFacts, TwoThreads DEF DInv
<1>3. \/ w = mem[i] /\ \A z : ~ Holds(buf[Main], i, z)
      \/ Holds(buf[Main], i, w)
  BY <1>2, LoadHolds
<1> HIDE DEF w
<1>4. w \in {0, 1} /\ (pc[1] # "none" => w = 1)
  <2>1. mem[i] \in {0, 1} /\ (pc[1] # "none" => mem[i] = 1 /\ ~ Holds(buf[Main], i, 1))
    BY <1>1 DEF DInv, DTypes, MainLoop
  <2>2. Holds(buf[Main], i, w) => w = 1
    BY <1>1 DEF DInv, MainStores
  <2> QED BY <1>3, <2>1, <2>2
<1>5. v \in {1, 2} /\ (v = 1 <=> w = 0) /\ (v = 2 => mpc' = "join") /\ (v = 1 => mpc' = "create")
  BY <1>1, <1>4
<1> HIDE DEF v
<1>6. PutDone(Main, i, v)
  BY <1>1, <1>2, <1>5, DPut DEF DInv
<1>7. /\ \A u \in Thread : buf'[u] = buf[u]
      /\ MemTypeOK(DThread, DLoc, LockVal \cup {2})' /\ NoBuffers'
  BY <1>2, <1>6 DEF PutDone
<1>8. \/ /\ mem'[i] = v /\ \A y \in DLoc \ {i} : mem'[y] = mem[y]
         /\ \A y, z : ~ Holds(buf'[Main], y, z)
      \/ /\ mem' = mem
         /\ \A y, z : Holds(buf'[Main], y, z) <=> Holds(buf[Main], y, z) \/ (y = i /\ z = v)
  BY <1>2, <1>6 DEF PutDone
<1>9. /\ \A y \in DLoc \ {i} : mem'[y] = mem[y]
      /\ mem'[i] \in {0, 1, 2}
  BY <1>5, <1>8 DEF DInv, DTypes
<1>10. MainStores'
  <2> SUFFICES ASSUME NEW y, NEW z, Holds(buf'[Main], y, z)
               PROVE  y = i /\ z \in {1, 2} /\ (z = 2 => mpc' \in {"join", "exit"})
    BY DEF MainStores
  <2>1. CASE y = i /\ z = v
    BY <1>5, <2>1
  <2>2. CASE Holds(buf[Main], y, z)
    BY <1>1, <2>2 DEF DInv, MainStores
  <2> QED BY <1>8, <2>1, <2>2
<1>11. MainLoop'
  <2>1. mem[i] # 2
    BY <1>1 DEF DInv, MainLoop
  <2>2. mem'[i] = 2 => mpc' \in {"join", "exit"}
    BY <1>5, <1>8, <2>1
  <2>3. mpc' = "create" => mem'[i] = 1 \/ Holds(buf'[Main], i, 1)
    BY <1>5, <1>8
  <2>4. ASSUME pc[1] # "none"
        PROVE  mem'[i] \in {1, 2} /\ mpc' # "create" /\ ~ Holds(buf'[Main], i, 1)
    <3>1. v = 2 /\ mpc' = "join"
      BY <1>4, <1>5, <2>4
    <3>2. mem[i] \in {1, 2} /\ ~ Holds(buf[Main], i, 1)
      BY <2>4 DEF DInv, MainLoop
    <3> QED BY <1>8, <3>1, <3>2
  <2> QED BY <1>1, <2>2, <2>3, <2>4 DEF MainLoop
<1>12. mpc' \in {"create", "incr", "join", "exit"}
  BY <1>5
<1> QED BY <1>1, <1>7, <1>9, <1>10, <1>11, <1>12, MainKeeps

(* A store of main's becomes visible.                                      *)
LEMMA DMainFlushKeeps ==
  ASSUME DInv, NEW x \in DOMAIN mem, Commit(Main, x), UNCHANGED <<lockVars, mpc>>
  PROVE  DInv'
<1>1. /\ MemTypeOK(DThread, DLoc, LockVal \cup {2})
      /\ Main \in DThread /\ i \in DLoc /\ x \in DLoc
      /\ mem \in [DLoc -> LockVal \cup {2}]
      /\ \A u \in Thread : u \in DThread /\ u # Main
      /\ UNCHANGED <<pc, node, prev, arrivals>>
  BY DFacts, TwoThreads DEF DInv, lockVars
<1>2. MemTypeOK(DThread, DLoc, LockVal \cup {2})'
  BY <1>1, CommitHolds
<1>3. \A y, w : Holds(buf'[Main], y, w) => Holds(buf[Main], y, w)
  BY <1>1, CommitHolds
<1>4. PICK v \in LockVal \cup {2} : Holds(buf[Main], x, v) /\ mem' = [mem EXCEPT ![x] = v]
  BY <1>1, CommitHolds
<1>5. x = i /\ v \in {1, 2} /\ (v = 2 => mpc \in {"join", "exit"})
  BY <1>4 DEF DInv, MainStores
<1>6. mem'[i] = v /\ \A y \in DLoc \ {i} : mem'[y] = mem[y]
  BY <1>1, <1>4, <1>5
<1>7. \A u \in Thread : buf'[u] = buf[u]
  BY <1>1 DEF Commit, CommitAt, MemTypeOK
<1>8. NoBuffers'
  <2>1. ~ Drained(Main)
    BY <1>4, DrainedHolds
  <2> QED BY <1>1, <2>1 DEF DInv, NoBuffers
<1>9. MainStores'
  BY <1>3 DEF DInv, MainStores
<1>10. MainLoop'
  BY <1>1, <1>3, <1>5, <1>6 DEF DInv, MainLoop
<1>11. mem'[i] \in {0, 1, 2}
  BY <1>5, <1>6
<1>12. mpc' \in {"create", "incr", "join", "exit"}
  BY <1>1 DEF DInv, DTypes
<1> QED BY <1>1, <1>2, <1>6, <1>7, <1>8, <1>9, <1>10, <1>11, <1>12, MainKeeps

-----------------------------------------------------------------------------
(* The two steps that act on the tail pointer.                             *)
LEMMA TailPut ==
  ASSUME DInv, NEW t \in Thread, NEW v \in Node \cup {NULL}, NEW l \in DriverPC, NEW p \in Node \cup {NULL},
         SetMem(msl, v), pc' = [pc EXCEPT ![t] = l], prev' = [prev EXCEPT ![t] = p],
         UNCHANGED <<node, mpc>>,
         pc[t] \notin {"none", "out"}, l # "none",
         l \in {"link", "fence", "spin"} => p # NULL,
         Prepared(t) => Prepared(t)', Cleared(t) => Cleared(t)',
         Linked(t) => Linked(t)' /\ p = prev[t]
  PROVE  /\ DTypes' /\ ThreadStores' /\ MainStores' /\ MainLoop'
         /\ ReleaseLast' /\ ClearedFirst' /\ NoBuffers'
         /\ buf' = buf /\ mem'[msl] = v /\ node' = node
         /\ pc'[t] = l /\ \A u \in Thread \ {t} : pc'[u] = pc[u]
         /\ prev'[t] = p /\ \A u \in Thread \ {t} : prev'[u] = prev[u]
         /\ \A n \in Node : mem'[next(n)] = mem[next(n)] /\ mem'[locked(n)] = mem[locked(n)]
<1>1. /\ MemTypeOK(DThread, DLoc, LockVal \cup {2})
      /\ mem \in [DLoc -> LockVal \cup {2}]
      /\ pc \in [Thread -> DriverPC] /\ prev \in [Thread -> Node \cup {NULL}]
      /\ i \in DLoc /\ msl \in DLoc
      /\ \A n \in Node : next(n) \in DLoc /\ locked(n) \in DLoc /\ n \in LockVal
      /\ NULL \in LockVal
  BY DFacts DEF DInv
<1>2. /\ \A m : next(m) # msl /\ locked(m) # msl
      /\ msl # i
  BY DWords
<1>3. mem' = [mem EXCEPT ![msl] = v] /\ buf' = buf
  BY DEF SetMem
<1>4. /\ mem'[msl] = v /\ mem'[i] = mem[i]
      /\ \A n \in Node : mem'[next(n)] = mem[next(n)] /\ mem'[locked(n)] = mem[locked(n)]
      /\ mem' \in [DLoc -> LockVal \cup {2}]
  BY <1>1, <1>2, <1>3
<1>5. /\ pc'[t] = l /\ \A u \in Thread \ {t} : pc'[u] = pc[u]
      /\ prev'[t] = p /\ \A u \in Thread \ {t} : prev'[u] = prev[u]
      /\ pc' \in [Thread -> DriverPC] /\ prev' \in [Thread -> Node \cup {NULL}]
  BY <1>1
<1>6. DTypes'
  <2>1. MemTypeOK(DThread, DLoc, LockVal \cup {2})'
    BY <1>1, <1>3, <1>4 DEF MemTypeOK
  <2>2. \A u \in Thread : pc'[u] \in {"link", "fence", "spin"} => prev'[u] # NULL
    BY <1>5 DEF DInv, DTypes
  <2>3. /\ \A n \in Node : mem[next(n)] \in Node \cup {NULL} /\ mem[locked(n)] \in {0, 1}
        /\ mem[i] \in {0, 1, 2} /\ node \in [Thread -> Node]
        /\ mpc \in {"create", "incr", "join", "exit"}
    BY DEF DInv, DTypes
  <2> QED BY <1>4, <1>5, <2>1, <2>2, <2>3 DEF DTypes
<1>7. ThreadStores'
  <2> SUFFICES ASSUME NEW u \in Thread, NEW x, NEW w, Holds(buf[u], x, w)
               PROVE  \/ x = locked(node[u]) /\ w = 1 /\ Prepared(u)'
                      \/ x = next(node[u]) /\ w = NULL /\ Cleared(u)'
                      \/ x = next(prev'[u]) /\ w = node[u] /\ Linked(u)'
                      \/ At(u, "out")' /\ w = 0 /\ \E n \in Node : x = locked(n)
    BY <1>3 DEF ThreadStores
  <2>1. \/ x = locked(node[u]) /\ w = 1 /\ Prepared(u)
        \/ x = next(node[u]) /\ w = NULL /\ Cleared(u)
        \/ x = next(prev[u]) /\ w = node[u] /\ Linked(u)
        \/ At(u, "out") /\ w = 0 /\ \E n \in Node : x = locked(n)
    BY DEF DInv, ThreadStores
  <2>2. CASE u = t
    <3>1. ~ At(u, "out")
      BY <2>2 DEF At
    <3>2. Linked(u) => prev'[u] = prev[u]
      BY <1>5, <2>2
    <3> QED BY <2>1, <2>2, <3>1, <3>2
  <2>3. CASE u # t
    <3>1. /\ Prepared(u) <=> Prepared(u)'
          /\ Cleared(u) <=> Cleared(u)'
          /\ Linked(u) <=> Linked(u)'
          /\ At(u, "out") <=> At(u, "out")'
          /\ prev'[u] = prev[u]
      BY <1>5, <2>3 DEF Prepared, Cleared, Linked, Arrived, At
    <3> QED BY <2>1, <3>1
  <2> QED BY <2>2, <2>3
<1>8. MainStores' /\ MainLoop'
  <2>1. \A u \in Thread : pc'[u] # "none" <=> pc[u] # "none"
    BY <1>5
  <2>2. \A x, w : Holds(buf'[Main], x, w) <=> Holds(buf[Main], x, w)
    BY <1>3
  <2> QED BY <1>4, <2>1, <2>2, TwoThreads DEF DInv, MainStores, MainLoop
<1>9. ReleaseLast' /\ ClearedFirst' /\ NoBuffers'
  BY <1>3 DEF DInv, ReleaseLast, ClearedFirst, NoBuffers, Drained
<1> QED BY <1>3, <1>4, <1>5, <1>6, <1>7, <1>8, <1>9

(* The second thread of a line.                                            *)
LEMMA SecondJoins ==
  ASSUME NEW S, NEW w \in S, NEW t \in S
  PROVE  Append(<<w>>, t) = <<w, t>>
<1>1. /\ <<w>> \in Seq(S) /\ Len(<<w>>) = 1 /\ <<w>>[1] = w
  OBVIOUS
<1>2. /\ <<w, t>> \in Seq(S) /\ Len(<<w, t>>) = 2
      /\ <<w, t>>[1] = w /\ <<w, t>>[2] = t
  OBVIOUS
<1>3. DOMAIN <<w, t>> = 1..2
  OBVIOUS
<1>4. Append(<<w>>, t) = [k \in 1..2 |-> IF k = 2 THEN t ELSE w]
  BY <1>1
<1>5. <<w, t>> = [k \in 1..2 |-> IF k = 2 THEN t ELSE w]
  BY <1>2
<1> QED BY <1>4, <1>5

(* The exchange on the tail, with which a thread arrives.                  *)
LEMMA DExchangeKeeps == ASSUME DInv, NEW t \in Thread, Exchange(t), UNCHANGED mpc PROVE DInv'
<1> DEFINE l == IF mem[msl] = NULL THEN "cs" ELSE "link"
<1>1. /\ pc[t] = "xchg" /\ pc' = [pc EXCEPT ![t] = l]
      /\ SetMem(msl, node[t]) /\ prev' = [prev EXCEPT ![t] = mem[msl]]
      /\ arrivals' = Append(arrivals, t) /\ UNCHANGED <<node, mpc>>
  BY DEF Exchange, At, Goto
<1>2. /\ node \in [Thread -> Node] /\ node[t] \in Node /\ node[t] # NULL
      /\ mem[msl] \in Node \cup {NULL} /\ pc \in [Thread -> DriverPC]
      /\ l \in {"cs", "link"} /\ l \in DriverPC /\ (l = "cs" <=> mem[msl] = NULL)
      /\ pc'[t] = l /\ prev \in [Thread -> Node \cup {NULL}] /\ prev'[t] = mem[msl]
  BY <1>1, DFacts DEF DInv, DTypes, DriverPC, LockPC
<1> HIDE DEF l
<1>3. /\ Prepared(t) /\ Cleared(t) /\ ~ Linked(t) /\ ~ Arrived(t) /\ ~ InTheLine(t) /\ ~ Inside(t) /\ ~ Waiting(t)
      /\ Prepared(t)' /\ Cleared(t)' /\ ~ Linked(t)' /\ Arrived(t)' /\ InTheLine(t)'
      /\ Inside(t)' <=> mem[msl] = NULL
      /\ Waiting(t)' <=> mem[msl] # NULL
      /\ ~ At(t, "pass")' /\ ~ Gone(t) /\ ~ Gone(t)' /\ ~ At(t, "out") /\ ~ At(t, "out")'
  BY <1>1, <1>2 DEF Prepared, Cleared, Linked, Arrived, InTheLine, Inside, Waiting, At, Gone
<1>4. /\ DTypes' /\ ThreadStores' /\ MainStores' /\ MainLoop'
      /\ ReleaseLast' /\ ClearedFirst' /\ NoBuffers'
      /\ buf' = buf /\ mem'[msl] = node[t]
      /\ \A u \in Thread \ {t} : pc'[u] = pc[u]
      /\ \A u \in Thread \ {t} : prev'[u] = prev[u]
      /\ \A n \in Node : mem'[next(n)] = mem[next(n)] /\ mem'[locked(n)] = mem[locked(n)]
  BY <1>1, <1>2, <1>3, TailPut
<1>5. \A u \in Thread \ {t} :
        /\ Prepared(u)' <=> Prepared(u)
        /\ Cleared(u)' <=> Cleared(u)
        /\ Arrived(u)' <=> Arrived(u)
        /\ Linked(u)' <=> Linked(u)
        /\ InTheLine(u)' <=> InTheLine(u)
        /\ Inside(u)' <=> Inside(u)
        /\ Waiting(u)' <=> Waiting(u)
        /\ At(u, "pass")' <=> At(u, "pass")
        /\ At(u, "out")' <=> At(u, "out")
        /\ Gone(u)' <=> Gone(u)
  BY <1>1, <1>4 DEF Prepared, Cleared, Arrived, Linked, InTheLine, Inside, Waiting, At, Gone, Drained
<1>6. LineOfTwo'
  <2>1. CASE arrivals = << >> /\ \A u \in Thread : ~ InTheLine(u)
    <3>1. arrivals' = <<t>>
      BY <1>1, <2>1
    <3> QED BY <1>3, <1>5, <2>1, <3>1 DEF LineOfTwo
  <2>2. ASSUME NEW w \in Thread, InTheLine(w), arrivals = <<w>>, \A u \in Thread \ {w} : ~ InTheLine(u)
        PROVE  LineOfTwo'
    <3>1. w # t
      BY <1>3, <2>2
    <3>2. arrivals' = <<w, t>>
      <4>1. Append(<<w>>, t) = <<w, t>>
        BY SecondJoins
      <4> QED BY <1>1, <2>2, <4>1
    <3>3. mem[msl] # NULL
      BY <1>3, <2>2 DEF DInv, TailIsSet
    <3> QED BY <1>3, <1>5, <2>2, <3>1, <3>2, <3>3 DEF LineOfTwo
  <2>3. ASSUME NEW w \in Thread, InTheLine(w), NEW u \in Thread \ {w}, arrivals = <<w, u>>, Waiting(u)
        PROVE  FALSE
    <3>1. t = w \/ t = u
      BY TwoThreads
    <3> QED BY <1>3, <2>3, <3>1
  <2> QED BY <2>1, <2>2, <2>3 DEF DInv, LineOfTwo
<1>7. TailIsSet'
  BY <1>2, <1>4 DEF TailIsSet
<1>8. LockedSeen'
  <2> SUFFICES ASSUME NEW w \in Thread, NEW u \in Thread, w # u, Prepared(w)', ~ At(w, "out")', ~ Gone(u)'
               PROVE  mem'[locked(node[w])] = 1 \/ Holds(buf[w], locked(node[w]), 1)
    BY <1>1, <1>4 DEF LockedSeen
  <2>1. Prepared(w) /\ ~ At(w, "out") /\ ~ Gone(u)
    BY <1>3, <1>5
  <2>2. mem[locked(node[w])] = 1 \/ Holds(buf[w], locked(node[w]), 1)
    BY <2>1 DEF DInv, LockedSeen
  <2> QED BY <1>2, <1>4, <2>2
<1>9. SecondIsAlone'
  <2> SUFFICES ASSUME NEW w \in Thread, NEW u \in Thread, w # u, Inside(w)', prev'[w] # NULL
               PROVE  Gone(u)'
    BY DEF SecondIsAlone
  <2>1. w # t
    BY <1>2, <1>3
  <2>2. Inside(w) /\ prev[w] # NULL
    BY <1>4, <1>5, <2>1
  <2>3. Gone(u)
    BY <2>2 DEF DInv, SecondIsAlone
  <2> QED BY <1>3, <1>5, <2>3
<1>10. NextIsSet'
  <2> SUFFICES ASSUME NEW n \in Node, mem'[next(n)] # NULL
               PROVE  \E w \in Thread : Linked(w)' /\ prev'[w] = n /\ ~ Holds(buf[w], next(n), NULL)
    BY <1>4 DEF NextIsSet
  <2>1. PICK w \in Thread : Linked(w) /\ prev[w] = n /\ ~ Holds(buf[w], next(n), NULL)
    BY <1>4 DEF DInv, NextIsSet
  <2> QED BY <1>3, <1>4, <1>5, <2>1
<1>11. NextStays'
  <2> SUFFICES ASSUME NEW u \in Thread, At(u, "pass")'
               PROVE  /\ \A w \in Thread : Cleared(w)'
                      /\ \A w \in Thread \ {u} : ~ Holds(buf[w], next(node[u]), NULL)
                      /\ \/ \E k \in Node : Holds(buf[u], next(node[u]), k)
                         \/ mem'[next(node[u])] # NULL /\ ~ Holds(buf[u], next(node[u]), NULL)
    BY <1>1, <1>4 DEF NextStays
  <2>1. u # t /\ At(u, "pass")
    BY <1>3, <1>5
  <2>2. mem'[next(node[u])] = mem[next(node[u])]
    BY <1>2, <1>4
  <2> QED BY <1>3, <1>5, <2>1, <2>2 DEF DInv, NextStays
<1> QED BY <1>4, <1>6, <1>7, <1>8, <1>9, <1>10, <1>11 DEF DInv

(* The compare-and-exchange frees the lock: nobody is behind.              *)
LEMMA DCasFreeKeeps == ASSUME DInv, NEW t \in Thread, CasFree(t), UNCHANGED mpc PROVE DInv'
<1>1. /\ pc[t] = "cas" /\ pc' = [pc EXCEPT ![t] = "out"]
      /\ SetMem(msl, NULL) /\ prev' = prev
      /\ arrivals' = Tail(arrivals) /\ UNCHANGED <<node, mpc>>
      /\ Drained(t)
  BY DEF CasFree, At, Goto, CanRMWRelease
<1>2. /\ node \in [Thread -> Node] /\ pc \in [Thread -> DriverPC]
      /\ "out" \in DriverPC /\ pc'[t] = "out"
      /\ prev[t] \in Node \cup {NULL} /\ prev' = [prev EXCEPT ![t] = prev[t]]
  BY <1>1, DFacts DEF DInv, DriverPC, LockPC
<1>3. /\ Prepared(t) /\ Cleared(t) /\ Arrived(t) /\ InTheLine(t) /\ Inside(t)
      /\ Prepared(t)' /\ Cleared(t)' /\ Arrived(t)' /\ ~ InTheLine(t)' /\ ~ Inside(t)'
      /\ Linked(t)' <=> Linked(t)
      /\ ~ At(t, "out") /\ At(t, "out")'
  BY <1>1, <1>2 DEF Prepared, Cleared, Linked, Arrived, InTheLine, Inside, Waiting, At
<1>4. /\ DTypes' /\ ThreadStores' /\ MainStores' /\ MainLoop'
      /\ ReleaseLast' /\ ClearedFirst' /\ NoBuffers'
      /\ buf' = buf
      /\ \A u \in Thread \ {t} : pc'[u] = pc[u]
      /\ \A n \in Node : mem'[next(n)] = mem[next(n)] /\ mem'[locked(n)] = mem[locked(n)]
  BY <1>1, <1>2, <1>3, TailPut
<1>5. \A u \in Thread \ {t} :
        /\ Prepared(u)' <=> Prepared(u)
        /\ Arrived(u)' <=> Arrived(u)
        /\ Linked(u)' <=> Linked(u)
        /\ InTheLine(u)' <=> InTheLine(u)
        /\ Inside(u)' <=> Inside(u)
        /\ Waiting(u)' <=> Waiting(u)
  BY <1>1, <1>4 DEF Prepared, Arrived, Linked, InTheLine, Inside, Waiting
<1>6. LineOfTwo' /\ \A u \in Thread : ~ Inside(u)'
  <2>1. \A u \in Thread \ {t} : ~ Inside(u)
    BY <1>3, InsideFirst DEF DInv
  <2> QED BY <1>1, <1>3, <1>5, <2>1, HeadLeaves DEF DInv
<1>7. TailIsSet'
  <2> SUFFICES ASSUME NEW w \in Thread, NEW u \in Thread, InTheLine(w)', ~ Arrived(u)' PROVE FALSE
    BY DEF TailIsSet
  <2>1. w # t /\ u # t
    BY <1>3
  <2>2. Arrived(w)'
    BY DEF InTheLine, Arrived, Inside, Waiting
  <2> QED BY <2>1, <2>2, TwoThreads
<1>8. LockedSeen'
  <2> SUFFICES ASSUME NEW w \in Thread, NEW u \in Thread, w # u, ~ At(w, "out")', ~ Gone(u)'
               PROVE  FALSE
    BY DEF LockedSeen
  <2>1. w # t /\ u = t
    BY <1>3, TwoThreads
  <2> QED BY <1>1, <1>3, <1>4, <2>1 DEF Gone, Drained
<1>9. SecondIsAlone'
  BY <1>6 DEF SecondIsAlone
<1>10. NextIsSet'
  <2> SUFFICES ASSUME NEW n \in Node, mem'[next(n)] # NULL
               PROVE  \E w \in Thread : Linked(w)' /\ prev[w] = n /\ ~ Holds(buf[w], next(n), NULL)
    BY <1>1, <1>4 DEF NextIsSet
  <2>1. PICK w \in Thread : Linked(w) /\ prev[w] = n /\ ~ Holds(buf[w], next(n), NULL)
    BY <1>4 DEF DInv, NextIsSet
  <2> QED BY <1>3, <1>5, <2>1
<1>11. NextStays'
  <2> SUFFICES ASSUME NEW u \in Thread, At(u, "pass")' PROVE FALSE
    BY DEF NextStays
  <2> QED BY <1>6 DEF At, Inside
<1> QED BY <1>4, <1>6, <1>7, <1>8, <1>9, <1>10, <1>11 DEF DInv

-----------------------------------------------------------------------------
(* The commits of the threads.  A hand-over is the last of its thread, and *)
(* a next pointer is set after it was cleared.                             *)
Committed(t, x, v) ==
  /\ MemTypeOK(DThread, DLoc, LockVal \cup {2})'
  /\ Holds(buf[t], x, v)
  /\ mem'[x] = v /\ \A y \in DLoc \ {x} : mem'[y] = mem[y]
  /\ \A u \in DThread \ {t} : buf'[u] = buf[u]
  /\ \A u \in DThread : \A y, w : Holds(buf'[u], y, w) => Holds(buf[u], y, w)
  /\ \A y, w : Holds(buf[t], y, w) /\ (y # x \/ w # v) => Holds(buf'[t], y, w)
  /\ ~ Drained(t)
  /\ ReleaseLast' /\ ClearedFirst'
  /\ v = 0 /\ (\E n \in Node : x = locked(n)) => Drained(t)'
  /\ \A n \in Node : x = next(n) /\ v # NULL => ~ Holds(buf'[t], x, NULL)

(* A commit takes an entry out of a buffer.                                *)
LEMMA DCommit ==
  ASSUME DInv, NEW t \in Thread, NEW x \in DLoc, Commit(t, x)
  PROVE  \E v : Committed(t, x, v)
<1>1. /\ MemTypeOK(DThread, DLoc, LockVal \cup {2})
      /\ mem \in [DLoc -> LockVal \cup {2}]
      /\ t \in DThread
      /\ \A u \in Thread : u \in DThread
  BY DFacts, TwoThreads DEF DInv
<1>2. PICK k \in Pending(t, x) : CommitAt(t, k)
  BY DEF Commit
<1> DEFINE b == buf[t]
           v == b[k].val
<1>3. /\ MemTypeOK(DThread, DLoc, LockVal \cup {2})'
      /\ k \in DOMAIN b /\ b[k].loc = x
      /\ mem' = [mem EXCEPT ![x] = v]
      /\ \A u \in DThread : u # t => buf'[u] = buf[u]
      /\ DOMAIN b = 1..Len(b)
      /\ Len(b) \in Nat \ {0}
      /\ Len(buf'[t]) = Len(b) - 1
      /\ DOMAIN buf'[t] = 1..(Len(b) - 1)
      /\ \A j \in DOMAIN buf'[t] : buf'[t][j] = IF j < k THEN b[j] ELSE b[j + 1]
  BY <1>1, <1>2, CommitShape
<1>4. Ready(b, k)
  BY <1>2 DEF CommitAt
<1>5. mem'[x] = v /\ \A y \in DLoc \ {x} : mem'[y] = mem[y]
  BY <1>1, <1>3
<1>6. \A j \in DOMAIN buf'[t] : \E m \in DOMAIN b :
        /\ buf'[t][j] = b[m] /\ m # k
        /\ (j < k /\ m = j) \/ (j >= k /\ m = j + 1)
  <2> SUFFICES ASSUME NEW j \in DOMAIN buf'[t]
               PROVE  \E m \in DOMAIN b : /\ buf'[t][j] = b[m] /\ m # k
                                          /\ (j < k /\ m = j) \/ (j >= k /\ m = j + 1)
    OBVIOUS
  <2>1. j \in 1..(Len(b) - 1) /\ k \in 1..Len(b)
    BY <1>3
  <2>2. CASE j < k
    <3>1. j \in DOMAIN b /\ buf'[t][j] = b[j]
      BY <1>3, <2>1, <2>2
    <3> QED BY <2>1, <2>2, <3>1
  <2>3. CASE ~ (j < k)
    <3>1. j + 1 \in DOMAIN b /\ buf'[t][j] = b[j + 1]
      BY <1>3, <2>1, <2>3
    <3> QED BY <2>1, <2>3, <3>1
  <2> QED BY <2>2, <2>3
<1>7. \A m \in DOMAIN b : m # k => \E j \in DOMAIN buf'[t] : buf'[t][j] = b[m]
  <2> SUFFICES ASSUME NEW m \in DOMAIN b, m # k
               PROVE  \E j \in DOMAIN buf'[t] : buf'[t][j] = b[m]
    OBVIOUS
  <2>1. m \in 1..Len(b) /\ k \in 1..Len(b)
    BY <1>3
  <2>2. CASE m < k
    <3>1. m \in DOMAIN buf'[t]
      BY <1>3, <2>1, <2>2
    <3> QED BY <1>3, <2>2, <3>1
  <2>3. CASE m > k
    <3>1. m - 1 \in DOMAIN buf'[t] /\ ~ (m - 1 < k) /\ (m - 1) + 1 = m
      BY <1>3, <2>1, <2>3
    <3> QED BY <1>3, <3>1
  <2> QED BY <2>1, <2>2, <2>3
<1>8. /\ k \in Nat /\ k <= Len(b) /\ Len(b) \in Nat
       /\ \A j \in DOMAIN buf'[t] : j \in Nat /\ j <= Len(b) - 1
  BY <1>3
<1>9. Holds(b, x, v) /\ ~ Drained(t)
  BY <1>3 DEF Holds, Drained
<1>10. \A u \in DThread : \A y, w : Holds(buf'[u], y, w) => Holds(buf[u], y, w)
  BY <1>1, CommitHolds
<1>11. \A y, w : Holds(b, y, w) /\ (y # x \/ w # v) => Holds(buf'[t], y, w)
  <2> SUFFICES ASSUME NEW y, NEW w, Holds(b, y, w), y # x \/ w # v
               PROVE  Holds(buf'[t], y, w)
    OBVIOUS
  <2>1. PICK m \in DOMAIN b : b[m].loc = y /\ b[m].val = w
    BY DEF Holds
  <2>2. m # k
    BY <1>3, <2>1
  <2>3. PICK j \in DOMAIN buf'[t] : buf'[t][j] = b[m]
    BY <1>7, <2>2
  <2> QED BY <2>1, <2>3 DEF Holds
<1>12. ReleaseLast'
  <2> SUFFICES ASSUME NEW u \in Thread, NEW j \in DOMAIN buf'[u], NEW n \in Node,
                      buf'[u][j].loc = locked(n), buf'[u][j].val = 0
               PROVE  buf'[u][j].rel /\ j = Len(buf'[u])
    BY DEF ReleaseLast
  <2>1. CASE u # t
    BY <1>1, <1>3, <2>1 DEF DInv, ReleaseLast
  <2>2. CASE u = t
    <3>1. PICK m \in DOMAIN b : /\ buf'[t][j] = b[m]
                                /\ (j < k /\ m = j) \/ (j >= k /\ m = j + 1)
      BY <1>6, <2>2
    <3>2. b[m].rel /\ m = Len(b)
      BY <2>2, <3>1 DEF DInv, ReleaseLast
    <3> HIDE DEF b
    <3>3. j \in Nat /\ k \in Nat /\ k <= Len(b) /\ j <= Len(b) - 1 /\ Len(b) \in Nat
      BY <1>8, <2>2
    <3>4. j = Len(b) - 1
      <4>1. CASE m = j
        BY <3>2, <3>3, <4>1
      <4>2. CASE m = j + 1
        BY <3>2, <3>3, <4>2
      <4> QED BY <3>1, <4>1, <4>2
    <3> QED BY <1>3, <2>2, <3>1, <3>2, <3>4
  <2> QED BY <2>1, <2>2
<1>13. ClearedFirst'
  <2> SUFFICES ASSUME NEW u \in Thread, NEW n \in Node,
                      NEW j \in DOMAIN buf'[u], NEW m \in DOMAIN buf'[u],
                      buf'[u][j].loc = next(n), buf'[u][j].val = NULL,
                      buf'[u][m].loc = next(n), buf'[u][m].val # NULL
               PROVE  j < m
    BY DEF ClearedFirst
  <2>1. CASE u # t
    BY <1>1, <1>3, <2>1 DEF DInv, ClearedFirst
  <2>2. CASE u = t
    <3>1. PICK p \in DOMAIN b : /\ buf'[t][j] = b[p]
                                /\ (j < k /\ p = j) \/ (j >= k /\ p = j + 1)
      BY <1>6, <2>2
    <3>2. PICK q \in DOMAIN b : /\ buf'[t][m] = b[q]
                                /\ (m < k /\ q = m) \/ (m >= k /\ q = m + 1)
      BY <1>6, <2>2
    <3>3. p < q
      <4>1. /\ b[p].loc = next(n) /\ b[p].val = NULL
            /\ b[q].loc = next(n) /\ b[q].val # NULL
        BY <2>2, <3>1, <3>2
      <4> QED BY <4>1 DEF DInv, ClearedFirst
    <3> HIDE DEF b
    <3>4. j \in Nat /\ m \in Nat /\ k \in Nat
      BY <1>8, <2>2
    <3>5. CASE p = j
      BY <3>1, <3>2, <3>3, <3>4, <3>5
    <3>6. CASE p = j + 1
      BY <3>1, <3>2, <3>3, <3>4, <3>6
    <3> QED BY <3>1, <3>5, <3>6
  <2> QED BY <2>1, <2>2
<1>14. ASSUME v = 0, NEW n \in Node, x = locked(n) PROVE Drained(t)'
  <2>1. b[k].rel /\ k = Len(b)
    BY <1>3, <1>14 DEF DInv, ReleaseLast
  <2>2. k = 1
    <3>1. b \in Seq(Entries(DLoc, LockVal \cup {2}))
      BY <1>1 DEF MemTypeOK
    <3> HIDE DEF b, v
    <3> QED BY <1>3, <1>4, <2>1, <3>1, ReleaseIsFirst
  <2>3. Len(buf'[t]) = 0 /\ buf'[t] \in Seq(Entries(DLoc, LockVal \cup {2}))
    BY <1>1, <1>3, <2>1, <2>2 DEF MemTypeOK
  <2> QED BY <2>3 DEF Drained
<1>15. ASSUME NEW n \in Node, x = next(n), v # NULL PROVE ~ Holds(buf'[t], x, NULL)
  <2> SUFFICES ASSUME Holds(buf'[t], x, NULL) PROVE FALSE
    OBVIOUS
  <2>1. PICK m \in DOMAIN b : b[m].loc = x /\ b[m].val = NULL
    <3>1. Holds(b, x, NULL)
      BY <1>1, <1>10
    <3> QED BY <3>1 DEF Holds
  <2>2. m < k
    <3>1. /\ b[m].loc = next(n) /\ b[m].val = NULL
          /\ b[k].loc = next(n) /\ b[k].val # NULL
      BY <1>3, <1>15, <2>1
    <3> QED BY <1>3, <3>1 DEF DInv, ClearedFirst
  <2>3. m \in 1..(k - 1)
    BY <1>3, <2>2
  <2> QED BY <1>3, <1>4, <2>1, <2>3 DEF Ready
<1> HIDE DEF v
<1>16. Committed(t, x, v)
  BY <1>3, <1>5, <1>9, <1>10, <1>11, <1>12, <1>13, <1>14, <1>15 DEF Committed
<1> QED BY <1>16

(* A store of one of the threads becomes visible.                          *)
LEMMA DFlushKeeps ==
  ASSUME DInv, NEW t \in Thread, NEW x \in DOMAIN mem, Commit(t, x), UNCHANGED <<lockVars, mpc>>
  PROVE  DInv'
<1>1. /\ UNCHANGED <<pc, node, prev, arrivals, mpc>>
      /\ x \in DLoc /\ t \in DThread /\ Main \in DThread /\ t # Main
      /\ \A u \in Thread : u \in DThread
      /\ node \in [Thread -> Node] /\ msl \in DLoc /\ i \in DLoc
      /\ \A n \in Node : next(n) \in DLoc /\ locked(n) \in DLoc
  BY DFacts, TwoThreads DEF DInv, lockVars
<1>2. PICK v : Committed(t, x, v)
  BY <1>1, DCommit
<1>3. /\ MemTypeOK(DThread, DLoc, LockVal \cup {2})'
      /\ Holds(buf[t], x, v) /\ mem'[x] = v
      /\ \A y \in DLoc \ {x} : mem'[y] = mem[y]
      /\ \A u \in DThread \ {t} : buf'[u] = buf[u]
      /\ \A u \in DThread : \A y, w : Holds(buf'[u], y, w) => Holds(buf[u], y, w)
      /\ \A y, w : Holds(buf[t], y, w) /\ (y # x \/ w # v) => Holds(buf'[t], y, w)
      /\ ~ Drained(t) /\ ReleaseLast' /\ ClearedFirst'
      /\ v = 0 /\ (\E n \in Node : x = locked(n)) => Drained(t)'
      /\ \A n \in Node : x = next(n) /\ v # NULL => ~ Holds(buf'[t], x, NULL)
  BY <1>2 DEF Committed
<1>4. /\ x # msl /\ x # i
      /\ \A n : x = locked(n) => n \in Node /\ v \in {0, 1}
      /\ \A n : x = locked(n) /\ v = 0 => At(t, "out")
      /\ \A n : x = next(n) => n \in Node /\ v \in Node \cup {NULL}
  <2>1. DTypes /\ ThreadStores /\ Holds(buf[t], x, v)
    BY <1>3 DEF DInv
  <2>2. x # msl /\ x # i /\ \A n : x = locked(n) => n \in Node /\ v \in {0, 1}
    BY <2>1, StoreMeans
  <2>3. /\ \A n : x = locked(n) /\ v = 0 => At(t, "out")
        /\ \A n : x = next(n) => n \in Node /\ v \in Node \cup {NULL}
    BY <2>1, StoreMeans
  <2> QED BY <2>2, <2>3
<1>5. /\ mem'[msl] = mem[msl] /\ mem'[i] = mem[i]
      /\ \A u \in Thread \ {t} : \A y, w : Holds(buf'[u], y, w) <=> Holds(buf[u], y, w)
      /\ \A y, w : Holds(buf'[Main], y, w) <=> Holds(buf[Main], y, w)
      /\ \A u \in DThread : Drained(u) => Drained(u)'
  BY <1>1, <1>3, <1>4 DEF Drained
<1>6. \A u \in Thread :
        /\ Prepared(u)' <=> Prepared(u)
        /\ Cleared(u)' <=> Cleared(u)
        /\ Arrived(u)' <=> Arrived(u)
        /\ Linked(u)' <=> Linked(u)
        /\ InTheLine(u)' <=> InTheLine(u)
        /\ Inside(u)' <=> Inside(u)
        /\ Waiting(u)' <=> Waiting(u)
        /\ At(u, "pass")' <=> At(u, "pass")
        /\ At(u, "out")' <=> At(u, "out")
        /\ Gone(u) => Gone(u)'
  BY <1>1, <1>5 DEF Prepared, Cleared, Arrived, Linked, InTheLine, Inside, Waiting, At, Gone
<1>7. DTypes'
  <2>1. \A n \in Node : mem'[next(n)] \in Node \cup {NULL} /\ mem'[locked(n)] \in {0, 1}
    <3> SUFFICES ASSUME NEW n \in Node
                 PROVE  mem'[next(n)] \in Node \cup {NULL} /\ mem'[locked(n)] \in {0, 1}
      OBVIOUS
    <3>1. mem[next(n)] \in Node \cup {NULL} /\ mem[locked(n)] \in {0, 1}
      BY DEF DInv, DTypes
    <3>2. mem'[next(n)] \in Node \cup {NULL}
      BY <1>1, <1>3, <1>4, <3>1
    <3>3. mem'[locked(n)] \in {0, 1}
      BY <1>1, <1>3, <1>4, <3>1
    <3> QED BY <3>2, <3>3
  <2> QED BY <1>1, <1>3, <1>5, <2>1 DEF DInv, DTypes
<1>8. ThreadStores'
  <2> SUFFICES ASSUME NEW u \in Thread, NEW y, NEW w, Holds(buf'[u], y, w)
               PROVE  \/ y = locked(node[u]) /\ w = 1 /\ Prepared(u)'
                      \/ y = next(node[u]) /\ w = NULL /\ Cleared(u)'
                      \/ y = next(prev[u]) /\ w = node[u] /\ Linked(u)'
                      \/ At(u, "out")' /\ w = 0 /\ \E n \in Node : y = locked(n)
    BY <1>1 DEF ThreadStores
  <2>1. Holds(buf[u], y, w)
    BY <1>1, <1>3
  <2>2. \/ y = locked(node[u]) /\ w = 1 /\ Prepared(u)
        \/ y = next(node[u]) /\ w = NULL /\ Cleared(u)
        \/ y = next(prev[u]) /\ w = node[u] /\ Linked(u)
        \/ At(u, "out") /\ w = 0 /\ \E n \in Node : y = locked(n)
    BY <2>1 DEF DInv, ThreadStores
  <2> QED BY <1>6, <2>2
<1>9. MainStores' /\ MainLoop'
  BY <1>1, <1>5 DEF DInv, MainStores, MainLoop
<1>10. LineOfTwo' /\ TailIsSet'
  BY <1>1, <1>5, <1>6, SameLine DEF DInv, TailIsSet
<1>11. NoBuffers'
  BY <1>1, <1>3 DEF DInv, NoBuffers
<1>12. LockedSeen'
  <2> SUFFICES ASSUME NEW w \in Thread, NEW u \in Thread, w # u, Prepared(w)', ~ At(w, "out")', ~ Gone(u)'
               PROVE  mem'[locked(node[w])] = 1 \/ Holds(buf'[w], locked(node[w]), 1)
    BY <1>1 DEF LockedSeen
  <2> DEFINE y == locked(node[w])
  <2>1. mem[y] = 1 \/ Holds(buf[w], y, 1)
    BY <1>6 DEF DInv, LockedSeen
  <2>2. y \in DLoc /\ node[w] \in Node
    BY <1>1
  <2>3. CASE x # y
    BY <1>3, <1>5, <2>1, <2>2, <2>3
  <2>4. CASE x = y /\ v # 0
    BY <1>3, <1>4, <2>4
  <2>5. CASE x = y /\ v = 0
    <3>1. At(t, "out") /\ Drained(t)'
      BY <1>3, <1>4, <2>2, <2>5
    <3>2. u = t
      BY <1>6, <3>1, TwoThreads
    <3> QED BY <1>6, <3>1, <3>2 DEF Gone
  <2> QED BY <2>3, <2>4, <2>5
<1>13. SecondIsAlone'
  BY <1>1, <1>6 DEF DInv, SecondIsAlone
<1>14. NextIsSet'
  <2> SUFFICES ASSUME NEW n \in Node, mem'[next(n)] # NULL
               PROVE  \E w \in Thread : Linked(w)' /\ prev[w] = n /\ ~ Holds(buf'[w], next(n), NULL)
    BY <1>1 DEF NextIsSet
  <2>1. CASE x # next(n)
    <3>1. mem[next(n)] # NULL
      BY <1>1, <1>3, <2>1
    <3>2. PICK w \in Thread : Linked(w) /\ prev[w] = n /\ ~ Holds(buf[w], next(n), NULL)
      BY <3>1 DEF DInv, NextIsSet
    <3> QED BY <1>1, <1>3, <1>6, <3>2
  <2>2. CASE x = next(n)
    <3>1. v # NULL
      BY <1>3, <2>2
    <3>2. Linked(t) /\ prev[t] = n
      BY <1>3, <2>2, <3>1, SetsNext DEF DInv
    <3> QED BY <1>3, <1>6, <2>2, <3>1, <3>2
  <2> QED BY <2>1, <2>2
<1>15. NextStays'
  <2> SUFFICES ASSUME NEW u \in Thread, At(u, "pass")'
               PROVE  /\ \A w \in Thread : Cleared(w)'
                      /\ \A w \in Thread \ {u} : ~ Holds(buf'[w], next(node[u]), NULL)
                      /\ \/ \E k \in Node : Holds(buf'[u], next(node[u]), k)
                         \/ mem'[next(node[u])] # NULL /\ ~ Holds(buf'[u], next(node[u]), NULL)
    BY <1>1 DEF NextStays
  <2> DEFINE y == next(node[u])
  <2>1. /\ \A w \in Thread : Cleared(w)
        /\ \A w \in Thread \ {u} : ~ Holds(buf[w], y, NULL)
        /\ \/ \E k \in Node : Holds(buf[u], y, k)
           \/ mem[y] # NULL /\ ~ Holds(buf[u], y, NULL)
    BY <1>6 DEF DInv, NextStays
  <2>2. y \in DLoc /\ node[u] \in Node
    BY <1>1
  <2>3. /\ \A w \in Thread : Cleared(w)'
        /\ \A w \in Thread \ {u} : ~ Holds(buf'[w], y, NULL)
    BY <1>1, <1>3, <1>6, <2>1
  <2>4. ASSUME NEW k \in Node, Holds(buf[u], y, k)
        PROVE  \/ Holds(buf'[u], y, k)
               \/ mem'[y] # NULL /\ ~ Holds(buf'[u], y, NULL)
    <3>1. CASE u = t /\ x = y /\ v = k
      <4>1. v # NULL
        BY <3>1, NodeAssumption
      <4> QED BY <1>3, <2>2, <3>1, <4>1
    <3>2. CASE u = t /\ (x # y \/ v # k)
      BY <1>3, <2>4, <3>2
    <3>3. CASE u # t
      BY <1>5, <2>4, <3>3
    <3> QED BY <3>1, <3>2, <3>3
  <2>5. ASSUME mem[y] # NULL, ~ Holds(buf[u], y, NULL)
        PROVE  mem'[y] # NULL /\ ~ Holds(buf'[u], y, NULL)
    <3>1. ~ Holds(buf'[u], y, NULL)
      BY <1>1, <1>3, <2>5
    <3>2. CASE x = y
      <4>1. ~ Holds(buf[t], y, NULL)
        BY <2>1, <2>5
      <4> QED BY <1>3, <3>1, <3>2, <4>1
    <3>3. CASE x # y
      BY <1>3, <2>2, <2>5, <3>1, <3>3
    <3> QED BY <3>2, <3>3
  <2> QED BY <2>1, <2>3, <2>4, <2>5
<1> QED BY <1>3, <1>7, <1>8, <1>9, <1>10, <1>11, <1>12, <1>13, <1>14, <1>15 DEF DInv

-----------------------------------------------------------------------------
(* Every step of the program keeps the invariant.                          *)
LEMMA DNextInv == DInv /\ [DNext]_dvars => DInv'
<1> SUFFICES ASSUME DInv, [DNext]_dvars PROVE DInv'
  OBVIOUS
<1>1. CASE UNCHANGED dvars
  BY <1>1, DStutterKeeps
<1>2. CASE Create
  BY <1>2, DCreateKeeps
<1>3. CASE Increment
  BY <1>3, DIncrementKeeps
<1>4. CASE Join
  BY <1>4, DJoinKeeps
<1>5. ASSUME NEW t \in Thread, Start(t) PROVE DInv'
  BY <1>5, DStartKeeps
<1>6. ASSUME NEW t \in Thread, LockStep(t), UNCHANGED mpc PROVE DInv'
  BY <1>6, DInit1Keeps, DInit2Keeps, DExchangeKeeps, DLinkKeeps, DFenceKeeps, DSpinKeeps DEF LockStep
<1>7. ASSUME NEW t \in Thread, UnlockStep(t), UNCHANGED mpc PROVE DInv'
  BY <1>7, DCheckNextKeeps, DCasFreeKeeps, DCasFailKeeps, DWaitNextKeeps, DPassKeeps DEF UnlockStep
<1>8. ASSUME NEW t \in DThread, DFlush(t) PROVE DInv'
  <2>1. PICK x \in DOMAIN mem : Commit(t, x) /\ UNCHANGED <<lockVars, mpc>>
    BY <1>8 DEF DFlush
  <2>2. CASE t = Main
    BY <2>1, <2>2, DMainFlushKeeps
  <2>3. CASE t \in Thread
    BY <2>1, <2>3, DFlushKeeps
  <2> QED BY <2>2, <2>3, TwoThreads
<1> QED BY <1>1, <1>2, <1>3, <1>4, <1>5, <1>6, <1>7, <1>8 DEF DNext, MainStep, DStep, Step

(* What holds from main's first create to its joins, on every memory: the  *)
(* words and buffers of the lock as the two threads, on two nodes or on    *)
(* one, and the race on i have left them.                                  *)
THEOREM DInvariant == DSpec => []DInv
<1>1. DInit => DInv
  BY DInitInv
<1>2. DInv /\ [DNext]_dvars => DInv'
  BY DNextInv
<1> QED BY <1>1, <1>2, PTL DEF DSpec

(* The types, of which LineOfTwo gives that of the history of arrivals.    *)
THEOREM DTyped == DSpec => []DTypeOK
<1>1. DInv => DTypeOK
  <2> SUFFICES ASSUME DInv PROVE DTypeOK
    OBVIOUS
  <2>1. arrivals \in Seq(Thread)
    <3>1. /\ << >> \in Seq(Thread)
          /\ \A t, u \in Thread : <<t>> \in Seq(Thread) /\ <<t, u>> \in Seq(Thread)
      OBVIOUS
    <3> QED BY <3>1 DEF DInv, LineOfTwo
  <2> QED BY <2>1 DEF DInv, DTypes, DTypeOK, DLoc
<1> QED BY <1>1, DInvariant, PTL

(* Two threads are never in the critical section together, whichever nodes *)
(* the race on i hands out, and on every memory.                           *)
THEOREM Together == DSpec => []NeverTogether
<1>1. DInv => NeverTogether
  BY InsideFirst DEF DInv, NeverTogether
<1> QED BY <1>1, DInvariant, PTL

(* The second load of me->next in the hand-over never finds NULL.          *)
THEOREM PassesOn == DSpec => []NextStaysSet
<1>1. DInv => NextStaysSet
  BY PassTarget, NodeAssumption DEF NextStaysSet
<1> QED BY <1>1, DInvariant, PTL

-----------------------------------------------------------------------------
(* As long as the nodes differ, the program is a run of the lock: a thread *)
(* that has not chosen is one at the first line of rte_mcslock_lock, with  *)
(* the node that the other does not have.                                  *)
Other(n) == IF n = Node1 THEN Node2 ELSE Node1

LockMem == [x \in LockLoc |-> mem[x]]
LockBuf == [t \in Thread |-> buf[t]]
LockPc  == [t \in Thread |-> IF Chosen(t) THEN pc[t] ELSE "init1"]
LockNode == [t \in Thread |->
               IF Chosen(t) THEN node[t]
               ELSE IF Chosen(1 - t) THEN Other(node[1 - t])
               ELSE IF t = 0 THEN Node1 ELSE Node2]

Lock == INSTANCE McsLockProofs WITH mem <- LockMem, buf <- LockBuf,
                                    pc <- LockPc, node <- LockNode

(* Until a thread has chosen, the lock is as it was.                       *)
Untouched ==
  (\A t \in Thread : ~ Chosen(t)) =>
    /\ \A x \in LockLoc : mem[x] = MemInit[x]
    /\ \A t \in Thread : Drained(t) /\ prev[t] = NULL
    /\ arrivals = << >>

OwnInv ==
  /\ DInv
  /\ Untouched
  /\ ~ NodesShared => Lock!IInv

(* What the lock's invariant was proved of holds of the mapped state.      *)
LEMMA LockInit == Lock!Init => Lock!IInv
  BY Lock!InitInv, NodeAssumption, ModelAssumption DEF Lock!Models, Models

(* Its steps keep it.                                                      *)
LEMMA LockNext == Lock!IInv /\ [Lock!Next]_(Lock!vars) => Lock!IInv'
  BY Lock!NextInv, NodeAssumption, ModelAssumption DEF Lock!Models, Models

(* It implies that there is one token.                                     *)
LEMMA LockToken == Lock!IInv => Lock!OneToken
  BY Lock!TokenInv, NodeAssumption, ModelAssumption DEF Lock!Models, Models

(* The lock may begin in a later state.                                    *)
LEMMA LockInitLater == Lock!Init' => Lock!IInv'
<1>1. Lock!Init => Lock!IInv
  BY LockInit
<1> QED BY <1>1, PTL

(* The mapped words, buffers, statements and nodes.                        *)
LEMMA LockView ==
  ASSUME DInv
  PROVE  /\ \A t \in Thread : LockBuf[t] = buf[t]
         /\ \A t \in Thread : Chosen(t) => LockPc[t] = pc[t] /\ LockNode[t] = node[t]
         /\ \A x \in LockLoc : LockMem[x] = mem[x]
         /\ \A t \in Thread : \A x : Lock!Pending(t, x) = Pending(t, x)
         /\ \A t \in Thread : \A x \in LockLoc : Lock!Load(t, x) = Load(t, x)
         /\ \A t \in Thread : Lock!Drained(t) <=> Drained(t)
         /\ LockLoc \subseteq DLoc
         /\ Lock!StoresReorder <=> StoresReorder
<1>1. /\ \A t \in Thread : LockBuf[t] = buf[t]
      /\ \A t \in Thread : Chosen(t) => LockPc[t] = pc[t] /\ LockNode[t] = node[t]
      /\ \A x \in LockLoc : LockMem[x] = mem[x]
  BY DEF LockBuf, LockPc, LockNode, LockMem
<1>2. \A t \in Thread : \A x : Lock!Pending(t, x) = Pending(t, x)
  BY <1>1 DEF Lock!Pending, Pending
<1>3. \A t \in Thread : \A x \in LockLoc : Lock!Load(t, x) = Load(t, x)
  <2> SUFFICES ASSUME NEW t \in Thread, NEW x \in LockLoc PROVE Lock!Load(t, x) = Load(t, x)
    OBVIOUS
  <2> DEFINE Newest(P) == CHOOSE k \in P : \A j \in P : j <= k
  <2>1. Load(t, x) = IF Pending(t, x) = {} THEN mem[x] ELSE buf[t][Newest(Pending(t, x))].val
    BY DEF Load
  <2>2. Lock!Load(t, x) = IF Lock!Pending(t, x) = {} THEN LockMem[x]
                          ELSE LockBuf[t][Newest(Lock!Pending(t, x))].val
    BY DEF Lock!Load
  <2> HIDE DEF Newest
  <2> QED BY <1>1, <1>2, <2>1, <2>2
<1>4. \A t \in Thread : Lock!Drained(t) <=> Drained(t)
  BY <1>1 DEF Lock!Drained, Drained
<1>5. LockLoc \subseteq DLoc
  BY DEF DLoc
<1>6. Lock!StoresReorder <=> StoresReorder
  BY DEF Lock!StoresReorder, StoresReorder
<1> QED BY <1>1, <1>2, <1>3, <1>4, <1>5, <1>6

(* A store to a word of the lock.                                          *)
LEMMA LockPut ==
  ASSUME DInv, NEW t \in Thread, NEW x \in LockLoc, NEW v, NEW rel, Put(t, x, v, rel)
  PROVE  Lock!Put(t, x, v, rel)
<1>1. /\ mem \in [DLoc -> LockVal \cup {2}] /\ LockLoc \subseteq DLoc
      /\ \A u \in Thread : u \in DThread
      /\ DOMAIN buf = DThread
  BY DFacts, TwoThreads DEF DInv, DLoc, MemTypeOK
<1>2. CASE Model = "SC"
  <2>1. mem' = [mem EXCEPT ![x] = v] /\ buf' = buf
    BY <1>2 DEF Put
  <2>2. LockMem' = [LockMem EXCEPT ![x] = v]
    BY <1>1, <2>1 DEF LockMem
  <2>3. LockBuf' = LockBuf
    BY <2>1 DEF LockBuf
  <2> QED BY <1>2, <2>2, <2>3 DEF Lock!Put
<1>3. CASE Model # "SC"
  <2>1. mem' = mem /\ buf' = [buf EXCEPT ![t] = Append(@, [loc |-> x, val |-> v, rel |-> rel])]
    BY <1>3 DEF Put
  <2>2. LockBuf' = [LockBuf EXCEPT ![t] = Append(@, [loc |-> x, val |-> v, rel |-> rel])]
    BY <1>1, <2>1 DEF LockBuf
  <2>3. LockMem' = LockMem
    BY <2>1 DEF LockMem
  <2> QED BY <1>3, <2>2, <2>3 DEF Lock!Put
<1> QED BY <1>2, <1>3

(* A read-modify-write of one.                                             *)
LEMMA LockSetMem ==
  ASSUME DInv, NEW x \in LockLoc, NEW v, SetMem(x, v)
  PROVE  Lock!SetMem(x, v)
<1>1. mem \in [DLoc -> LockVal \cup {2}] /\ LockLoc \subseteq DLoc
  BY DFacts DEF DInv, DLoc
<1>2. mem' = [mem EXCEPT ![x] = v] /\ buf' = buf
  BY DEF SetMem
<1>3. LockMem' = [LockMem EXCEPT ![x] = v]
  BY <1>1, <1>2 DEF LockMem
<1>4. LockBuf' = LockBuf
  BY <1>2 DEF LockBuf
<1> QED BY <1>3, <1>4 DEF Lock!SetMem

(* A commit of one.                                                        *)
LEMMA LockCommit ==
  ASSUME DInv, NEW t \in Thread, NEW x \in LockLoc, Commit(t, x)
  PROVE  Lock!Commit(t, x)
<1>1. /\ mem \in [DLoc -> LockVal \cup {2}] /\ LockLoc \subseteq DLoc
      /\ \A u \in Thread : u \in DThread
      /\ DOMAIN buf = DThread
      /\ LockBuf[t] = buf[t] /\ Lock!Pending(t, x) = Pending(t, x)
  BY DFacts, TwoThreads, LockView DEF DInv, DLoc, MemTypeOK
<1>2. PICK k \in Pending(t, x) : CommitAt(t, k)
  BY DEF Commit
<1>3. /\ Ready(buf[t], k) /\ buf[t][k].loc = x
      /\ mem' = [mem EXCEPT ![x] = buf[t][k].val]
      /\ buf' = [buf EXCEPT ![t] = Without(@, k)]
  BY <1>2 DEF CommitAt, Pending
<1>4. LockMem' = [LockMem EXCEPT ![x] = buf[t][k].val]
  BY <1>1, <1>3 DEF LockMem
<1>5. LockBuf' = [LockBuf EXCEPT ![t] = Without(buf[t], k)]
  BY <1>1, <1>3 DEF LockBuf
<1>6. Lock!Without(buf[t], k) = Without(buf[t], k) /\ (Lock!Ready(buf[t], k) <=> Ready(buf[t], k))
  BY DEF Lock!Without, Without, Lock!Ready, Ready, Lock!StoresReorder, StoresReorder
<1>7. Lock!CommitAt(t, k)
  BY <1>1, <1>3, <1>4, <1>5, <1>6 DEF Lock!CommitAt
<1> QED BY <1>1, <1>7 DEF Lock!Commit

(* A step of a thread that has chosen moves it in the lock alike.          *)
LEMMA LockMoves ==
  ASSUME DInv, NEW t \in Thread, NEW l, Chosen(t), Goto(t, l), l \notin {"none", "start"}, node' = node
  PROVE  Lock!Goto(t, l) /\ LockNode' = LockNode
<1>1. /\ pc \in [Thread -> DriverPC] /\ pc' = [pc EXCEPT ![t] = l]
      /\ pc'[t] = l /\ \A u \in Thread \ {t} : pc'[u] = pc[u]
  BY DFacts DEF DInv, Goto
<1>2. \A u \in Thread : Chosen(u)' <=> Chosen(u)
  BY <1>1 DEF Chosen
<1>3. LockPc' = [LockPc EXCEPT ![t] = l]
  BY <1>1, <1>2 DEF LockPc
<1>4. \A u \in Thread : 1 - u \in Thread
  BY DriverAssumption
<1>5. LockNode' = LockNode
  BY <1>2, <1>4 DEF LockNode
<1> QED BY <1>3, <1>5 DEF Lock!Goto

(* The words of the node of a thread that has chosen.                      *)
LEMMA LockWords ==
  ASSUME DInv
  PROVE  /\ msl \in LockLoc /\ Lock!msl = msl
         /\ \A n \in Node : next(n) \in LockLoc /\ locked(n) \in LockLoc
         /\ \A n : Lock!next(n) = next(n) /\ Lock!locked(n) = locked(n)
         /\ node \in [Thread -> Node]
  BY DFacts DEF DInv, LockLoc, Lock!msl, Lock!next, Lock!locked, msl, next, locked

(* The statements of rte_mcslock_lock.                                     *)
LEMMA LockStepMaps ==
  ASSUME DInv, NEW t \in Thread, LockStep(t)
  PROVE  Lock!Step(t) /\ Chosen(t)
<1>1. /\ \A u \in Thread : Chosen(u) => LockPc[u] = pc[u] /\ LockNode[u] = node[u]
      /\ \A x \in LockLoc : LockMem[x] = mem[x]
      /\ \A x : Lock!Pending(t, x) = Pending(t, x)
      /\ \A x \in LockLoc : Lock!Load(t, x) = Load(t, x)
      /\ Lock!Drained(t) <=> Drained(t)
      /\ Lock!StoresReorder <=> StoresReorder
  BY LockView
<1>2. /\ msl \in LockLoc /\ Lock!msl = msl
      /\ \A n \in Node : next(n) \in LockLoc /\ locked(n) \in LockLoc
      /\ \A n : Lock!next(n) = next(n) /\ Lock!locked(n) = locked(n)
      /\ node[t] \in Node
  BY LockWords
<1>3. \A l : l \notin {"none", "start"} /\ At(t, l) => Chosen(t) /\ Lock!At(t, l)
  BY <1>1 DEF At, Chosen, Lock!At
<1>4. UNCHANGED <<mem, buf>> => UNCHANGED <<LockMem, LockBuf>>
  BY DEF LockMem, LockBuf
<1>5. CASE Init1(t)
  <2>1. /\ At(t, "init1") /\ Put(t, locked(node[t]), 1, FALSE) /\ Goto(t, "init2")
        /\ UNCHANGED <<node, prev, arrivals>>
    BY <1>5 DEF Init1, Store
  <2>2. Chosen(t) /\ Lock!At(t, "init1") /\ LockNode[t] = node[t]
    BY <1>1, <1>3, <2>1
  <2>3. Lock!Goto(t, "init2") /\ LockNode' = LockNode
    BY <2>1, <2>2, LockMoves
  <2>4. Lock!Put(t, locked(node[t]), 1, FALSE)
    BY <1>2, <2>1, LockPut
  <2>5. Lock!Init1(t)
    BY <1>2, <2>1, <2>2, <2>3, <2>4 DEF Lock!Init1, Lock!Store
  <2> QED BY <2>2, <2>5 DEF Lock!Step, Lock!LockStep
<1>6. CASE Init2(t)
  <2>1. /\ At(t, "init2") /\ Put(t, next(node[t]), NULL, FALSE) /\ Goto(t, "xchg")
        /\ UNCHANGED <<node, prev, arrivals>>
    BY <1>6 DEF Init2, Store
  <2>2. Chosen(t) /\ Lock!At(t, "init2") /\ LockNode[t] = node[t]
    BY <1>1, <1>3, <2>1
  <2>3. Lock!Goto(t, "xchg") /\ LockNode' = LockNode
    BY <2>1, <2>2, LockMoves
  <2>4. Lock!Put(t, next(node[t]), NULL, FALSE)
    BY <1>2, <2>1, LockPut
  <2>5. Lock!Init2(t)
    BY <1>2, <2>1, <2>2, <2>3, <2>4 DEF Lock!Init2, Lock!Store
  <2> QED BY <2>2, <2>5 DEF Lock!Step, Lock!LockStep
<1>7. CASE Exchange(t)
  <2> DEFINE l == IF mem[msl] = NULL THEN "cs" ELSE "link"
  <2>1. /\ At(t, "xchg") /\ CanRMW(t, msl) /\ Goto(t, l)
        /\ prev' = [prev EXCEPT ![t] = mem[msl]] /\ SetMem(msl, node[t])
        /\ arrivals' = Append(arrivals, t) /\ node' = node
    BY <1>7 DEF Exchange
  <2>2. Chosen(t) /\ Lock!At(t, "xchg") /\ LockNode[t] = node[t] /\ LockMem[msl] = mem[msl]
    BY <1>1, <1>2, <1>3, <2>1
  <2>3. Lock!Goto(t, l) /\ LockNode' = LockNode
    <3>1. l \notin {"none", "start"}
      OBVIOUS
    <3> HIDE DEF l
    <3> QED BY <2>1, <2>2, <3>1, LockMoves
  <2>4. Lock!SetMem(msl, node[t])
    BY <1>2, <2>1, LockSetMem
  <2>5. Lock!CanRMW(t, msl)
    BY <1>1, <2>1 DEF Lock!CanRMW, CanRMW
  <2>6. Lock!Exchange(t)
    BY <1>2, <2>1, <2>2, <2>3, <2>4, <2>5 DEF Lock!Exchange
  <2> QED BY <2>2, <2>6 DEF Lock!Step, Lock!LockStep
<1>8. CASE Link(t)
  <2>1. /\ At(t, "link") /\ Put(t, next(prev[t]), node[t], FALSE) /\ Goto(t, "fence")
        /\ UNCHANGED <<node, prev, arrivals>>
    BY <1>8 DEF Link, Store
  <2>2. Chosen(t) /\ Lock!At(t, "link") /\ LockNode[t] = node[t]
    BY <1>1, <1>3, <2>1
  <2>3. Lock!Goto(t, "fence") /\ LockNode' = LockNode
    BY <2>1, <2>2, LockMoves
  <2>4. prev[t] \in Node
    BY <2>1 DEF DInv, DTypes, At
  <2>5. Lock!Put(t, next(prev[t]), node[t], FALSE)
    BY <1>2, <2>1, <2>4, LockPut
  <2>6. Lock!Link(t)
    BY <1>2, <2>1, <2>2, <2>3, <2>5 DEF Lock!Link, Lock!Store
  <2> QED BY <2>2, <2>6 DEF Lock!Step, Lock!LockStep
<1>9. CASE Fence(t)
  <2>1. /\ At(t, "fence") /\ (StoresReorder => Drained(t)) /\ Goto(t, "spin")
        /\ UNCHANGED <<mem, buf, node, prev, arrivals>>
    BY <1>9 DEF Fence
  <2>2. Chosen(t) /\ Lock!At(t, "fence")
    BY <1>3, <2>1
  <2>3. Lock!Goto(t, "spin") /\ LockNode' = LockNode
    BY <2>1, <2>2, LockMoves
  <2>4. Lock!Fence(t)
    BY <1>1, <1>4, <2>1, <2>2, <2>3 DEF Lock!Fence
  <2> QED BY <2>2, <2>4 DEF Lock!Step, Lock!LockStep
<1>10. CASE Spin(t)
  <2>1. /\ At(t, "spin") /\ Load(t, locked(node[t])) = 0 /\ Goto(t, "cs")
        /\ UNCHANGED <<mem, buf, node, prev, arrivals>>
    BY <1>10 DEF Spin
  <2>2. Chosen(t) /\ Lock!At(t, "spin") /\ LockNode[t] = node[t]
    BY <1>1, <1>3, <2>1
  <2>3. Lock!Goto(t, "cs") /\ LockNode' = LockNode
    BY <2>1, <2>2, LockMoves
  <2>4. Lock!Load(t, locked(node[t])) = 0
    BY <1>1, <1>2, <2>1
  <2>5. Lock!Spin(t)
    BY <1>2, <1>4, <2>1, <2>2, <2>3, <2>4 DEF Lock!Spin
  <2> QED BY <2>2, <2>5 DEF Lock!Step, Lock!LockStep
<1> QED BY <1>5, <1>6, <1>7, <1>8, <1>9, <1>10 DEF LockStep

(* The statements of rte_mcslock_unlock.                                   *)
LEMMA UnlockStepMaps ==
  ASSUME DInv, NEW t \in Thread, UnlockStep(t)
  PROVE  Lock!Step(t) /\ Chosen(t)
<1>1. /\ \A u \in Thread : Chosen(u) => LockPc[u] = pc[u] /\ LockNode[u] = node[u]
      /\ \A x \in LockLoc : LockMem[x] = mem[x]
      /\ \A x : Lock!Pending(t, x) = Pending(t, x)
      /\ \A x \in LockLoc : Lock!Load(t, x) = Load(t, x)
      /\ Lock!Drained(t) <=> Drained(t)
  BY LockView
<1>2. /\ msl \in LockLoc /\ Lock!msl = msl
      /\ \A n \in Node : next(n) \in LockLoc /\ locked(n) \in LockLoc
      /\ \A n : Lock!next(n) = next(n) /\ Lock!locked(n) = locked(n)
      /\ node[t] \in Node
  BY LockWords
<1>3. \A l : l \notin {"none", "start"} /\ At(t, l) => Chosen(t) /\ Lock!At(t, l)
  BY <1>1 DEF At, Chosen, Lock!At
<1>4. UNCHANGED <<mem, buf>> => UNCHANGED <<LockMem, LockBuf>>
  BY DEF LockMem, LockBuf
<1>5. Lock!Load(t, next(node[t])) = Load(t, next(node[t])) /\ LockMem[msl] = mem[msl]
  BY <1>1, <1>2
<1>6. CASE CheckNext(t)
  <2> DEFINE l == IF Load(t, next(node[t])) = NULL THEN "cas" ELSE "pass"
  <2>1. /\ At(t, "cs") /\ Goto(t, l)
        /\ UNCHANGED <<mem, buf, node, prev, arrivals>>
    BY <1>6 DEF CheckNext
  <2>2. Chosen(t) /\ Lock!At(t, "cs") /\ LockNode[t] = node[t]
    BY <1>1, <1>3, <2>1
  <2>3. Lock!Goto(t, l) /\ LockNode' = LockNode
    <3>1. l \notin {"none", "start"}
      OBVIOUS
    <3> HIDE DEF l
    <3> QED BY <2>1, <2>2, <3>1, LockMoves
  <2>4. Lock!CheckNext(t)
    BY <1>2, <1>4, <1>5, <2>1, <2>2, <2>3 DEF Lock!CheckNext
  <2> QED BY <2>2, <2>4 DEF Lock!Step, Lock!UnlockStep
<1>7. CASE CasFree(t)
  <2>1. /\ At(t, "cas") /\ mem[msl] = node[t] /\ Drained(t) /\ SetMem(msl, NULL)
        /\ arrivals' = Tail(arrivals) /\ Goto(t, "out") /\ UNCHANGED <<node, prev>>
    BY <1>7 DEF CasFree, CanRMWRelease
  <2>2. Chosen(t) /\ Lock!At(t, "cas") /\ LockNode[t] = node[t]
    BY <1>1, <1>3, <2>1
  <2>3. Lock!Goto(t, "out") /\ LockNode' = LockNode
    BY <2>1, <2>2, LockMoves
  <2>4. Lock!SetMem(msl, NULL)
    BY <1>2, <2>1, LockSetMem
  <2>5. Lock!CasFree(t)
    BY <1>1, <1>2, <1>5, <2>1, <2>2, <2>3, <2>4 DEF Lock!CasFree, Lock!CanRMWRelease
  <2> QED BY <2>2, <2>5 DEF Lock!Step, Lock!UnlockStep
<1>8. CASE CasFail(t)
  <2>1. /\ At(t, "cas") /\ mem[msl] # node[t] /\ CanRMW(t, msl) /\ Goto(t, "wait")
        /\ UNCHANGED <<mem, buf, node, prev, arrivals>>
    BY <1>8 DEF CasFail
  <2>2. Chosen(t) /\ Lock!At(t, "cas") /\ LockNode[t] = node[t]
    BY <1>1, <1>3, <2>1
  <2>3. Lock!Goto(t, "wait") /\ LockNode' = LockNode
    BY <2>1, <2>2, LockMoves
  <2>4. Lock!CanRMW(t, msl)
    BY <1>1, <2>1 DEF Lock!CanRMW, CanRMW
  <2>5. Lock!CasFail(t)
    BY <1>2, <1>4, <1>5, <2>1, <2>2, <2>3, <2>4 DEF Lock!CasFail
  <2> QED BY <2>2, <2>5 DEF Lock!Step, Lock!UnlockStep
<1>9. CASE WaitNext(t)
  <2>1. /\ At(t, "wait") /\ Load(t, next(node[t])) # NULL /\ Goto(t, "pass")
        /\ UNCHANGED <<mem, buf, node, prev, arrivals>>
    BY <1>9 DEF WaitNext
  <2>2. Chosen(t) /\ Lock!At(t, "wait") /\ LockNode[t] = node[t]
    BY <1>1, <1>3, <2>1
  <2>3. Lock!Goto(t, "pass") /\ LockNode' = LockNode
    BY <2>1, <2>2, LockMoves
  <2>4. Lock!WaitNext(t)
    BY <1>2, <1>4, <1>5, <2>1, <2>2, <2>3 DEF Lock!WaitNext
  <2> QED BY <2>2, <2>4 DEF Lock!Step, Lock!UnlockStep
<1>10. CASE Pass(t)
  <2>1. /\ At(t, "pass") /\ Put(t, locked(Load(t, next(node[t]))), 0, TRUE)
        /\ arrivals' = Tail(arrivals) /\ Goto(t, "out") /\ UNCHANGED <<node, prev>>
    BY <1>10 DEF Pass, StoreRelease
  <2>2. Chosen(t) /\ Lock!At(t, "pass") /\ LockNode[t] = node[t]
    BY <1>1, <1>3, <2>1
  <2>3. Lock!Goto(t, "out") /\ LockNode' = LockNode
    BY <2>1, <2>2, LockMoves
  <2>4. Load(t, next(node[t])) \in Node
    BY <2>1, PassTarget
  <2>5. Lock!Put(t, locked(Load(t, next(node[t]))), 0, TRUE)
    BY <1>2, <2>1, <2>4, LockPut
  <2>6. Lock!Pass(t)
    BY <1>2, <1>5, <2>1, <2>2, <2>3, <2>5 DEF Lock!Pass, Lock!StoreRelease
  <2> QED BY <2>2, <2>6 DEF Lock!Step, Lock!UnlockStep
<1> QED BY <1>6, <1>7, <1>8, <1>9, <1>10 DEF UnlockStep

(* A commit of a thread is one of the lock.                                *)
LEMMA LockFlushMaps ==
  ASSUME DInv, NEW t \in Thread, DFlush(t)
  PROVE  Lock!Flush(t) /\ ~ Drained(t)
<1>1. PICK x \in DOMAIN mem : Commit(t, x) /\ UNCHANGED <<lockVars, mpc>>
  BY DEF DFlush
<1>2. UNCHANGED <<pc, node, prev, arrivals>> /\ x \in DLoc
  BY <1>1, DFacts DEF DInv, lockVars
<1>3. PICK v : Committed(t, x, v)
  BY <1>1, <1>2, DCommit
<1>4. Holds(buf[t], x, v) /\ ~ Drained(t)
  BY <1>3 DEF Committed
<1>5. x # i
  BY <1>4, StoreMeans DEF DInv
<1>6. x \in LockLoc
  BY <1>2, <1>5 DEF DLoc
<1>7. Lock!Commit(t, x)
  BY <1>1, <1>6, LockCommit
<1>8. LockPc' = LockPc /\ LockNode' = LockNode
  BY <1>2 DEF LockPc, LockNode, Chosen
<1>9. DOMAIN LockMem = LockLoc
  BY DEF LockMem
<1>10. UNCHANGED Lock!lockVars
  BY <1>2, <1>8 DEF Lock!lockVars
<1> QED BY <1>4, <1>6, <1>7, <1>9, <1>10 DEF Lock!Flush

(* The steps of main are none of the lock's.                               *)
LEMMA LockStutters ==
  ASSUME DInv, UNCHANGED <<node, prev, arrivals>>,
         \A t \in Thread : buf'[t] = buf[t], \A x \in LockLoc : mem'[x] = mem[x],
         \A t \in Thread : (Chosen(t)' <=> Chosen(t)) /\ (Chosen(t) => pc'[t] = pc[t])
  PROVE  UNCHANGED Lock!vars
<1>1. LockMem' = LockMem /\ LockBuf' = LockBuf
  BY DEF LockMem, LockBuf
<1>2. LockPc' = LockPc
  BY DEF LockPc
<1>3. \A t \in Thread : 1 - t \in Thread
  BY DriverAssumption
<1>4. LockNode' = LockNode
  BY <1>3 DEF LockNode
<1> QED BY <1>1, <1>2, <1>4 DEF Lock!vars, Lock!lockVars

(* The state in which the lock's run begins.                               *)
Fresh ==
  /\ DTypes
  /\ ~ NodesShared
  /\ \A x \in LockLoc : mem[x] = MemInit[x]
  /\ \A t \in Thread : Drained(t) /\ prev[t] = NULL
  /\ arrivals = << >>
  /\ \A t \in Thread : Chosen(t) => pc[t] = "init1"

(* It is an initial state of the lock.                                     *)
LEMMA FreshLock == Fresh => Lock!IInv
<1> SUFFICES ASSUME Fresh PROVE Lock!Init
  BY LockInit
<1>1. LockMem = Lock!MemInit
  BY DEF Fresh, LockMem, MemInit, Lock!MemInit, LockLoc, Lock!LockLoc,
         msl, next, locked, Lock!msl, Lock!next, Lock!locked
<1>2. LockBuf = [t \in Thread |-> << >>]
  BY DEF Fresh, LockBuf, Drained
<1>3. LockPc = [t \in Thread |-> "init1"]
  BY DEF Fresh, LockPc
<1>4. prev = [t \in Thread |-> NULL]
  BY DEF Fresh, DTypes
<1>5. /\ node \in [Thread -> Node] /\ Node1 \in Node /\ Node2 \in Node /\ Node1 # Node2
      /\ \A n \in Node : Other(n) \in Node /\ Other(n) # n
      /\ Thread = {0, 1}
  BY DriverAssumption DEF Fresh, DTypes, Other
<1>6. LockNode \in [Thread -> Node] /\ LockNode[0] # LockNode[1]
  <2> DEFINE g(t) == IF Chosen(t) THEN node[t]
                     ELSE IF Chosen(1 - t) THEN Other(node[1 - t])
                     ELSE IF t = 0 THEN Node1 ELSE Node2
  <2>1. LockNode = [t \in Thread |-> g(t)]
    BY DEF LockNode
  <2>2. /\ g(0) = IF Chosen(0) THEN node[0] ELSE IF Chosen(1) THEN Other(node[1]) ELSE Node1
        /\ g(1) = IF Chosen(1) THEN node[1] ELSE IF Chosen(0) THEN Other(node[0]) ELSE Node2
    <3>1. 1 - 0 = 1 /\ 1 - 1 = 0
      OBVIOUS
    <3> QED BY <3>1
  <2> HIDE DEF g
  <2>3. Chosen(0) /\ Chosen(1) => node[0] # node[1]
    BY <1>5 DEF Fresh, NodesShared
  <2>4. g(0) \in Node /\ g(1) \in Node /\ g(0) # g(1)
    BY <1>5, <2>2, <2>3
  <2> QED BY <1>5, <2>1, <2>4
<1>7. LockNode \in {g \in [Thread -> Node] : \A t, u \in Thread : g[t] = g[u] => t = u}
  BY <1>5, <1>6
<1>8. arrivals = << >>
  BY DEF Fresh
<1> QED BY <1>1, <1>2, <1>3, <1>4, <1>7, <1>8 DEF Lock!Init

(* So it is when it comes about.                                           *)
LEMMA FreshLater == Fresh' => Lock!IInv'
<1>1. Fresh => Lock!IInv
  BY FreshLock
<1> QED BY <1>1, PTL

(* Nobody has chosen a node yet.                                           *)
LEMMA OwnInit == DInit => OwnInv
<1> SUFFICES ASSUME DInit PROVE OwnInv
  OBVIOUS
<1>1. DInv
  BY DInitInv
<1>2. \A t \in Thread : ~ Chosen(t)
  BY DEF DInit, Chosen
<1>3. /\ \A x \in LockLoc : mem[x] = MemInit[x]
      /\ \A t \in Thread : Drained(t) /\ prev[t] = NULL
      /\ arrivals = << >>
  <2>1. \A x \in LockLoc : x # i
    BY DWords DEF LockLoc
  <2> QED BY <2>1, TwoThreads DEF DInit, Drained
<1>4. ~ NodesShared
  BY <1>2 DEF NodesShared
<1>5. Fresh
  BY <1>1, <1>2, <1>3, <1>4 DEF Fresh, DInv
<1> QED BY <1>1, <1>3, <1>5, FreshLock DEF OwnInv, Untouched

-----------------------------------------------------------------------------
(* The lock's invariant through every step of the program.                 *)
LEMMA StepStays ==
  ASSUME NEW t \in Thread, Step(t)
  PROVE  node' = node /\ \E l \in LockPC : Goto(t, l)
<1>1. ASSUME LockStep(t) PROVE node' = node /\ \E l \in LockPC : Goto(t, l)
  BY <1>1 DEF LockStep, Init1, Init2, Exchange, Link, Fence, Spin, LockPC
<1>2. ASSUME UnlockStep(t) PROVE node' = node /\ \E l \in LockPC : Goto(t, l)
  BY <1>2 DEF UnlockStep, CheckNext, CasFree, CasFail, WaitNext, Pass, LockPC
<1> QED BY <1>1, <1>2 DEF Step

(* A step within the lock is one of the lock.                              *)
LEMMA OwnStep ==
  ASSUME OwnInv, DInv', NEW t \in Thread, Step(t)
  PROVE  OwnInv'
<1>1. DInv /\ Lock!Step(t) /\ Chosen(t)
  BY LockStepMaps, UnlockStepMaps DEF OwnInv, Step
<1>2. PICK l \in LockPC : Goto(t, l)
  BY StepStays
<1>3. \A u \in Thread : Chosen(u)' <=> Chosen(u)
  <2>1. /\ pc \in [Thread -> DriverPC] /\ pc' = [pc EXCEPT ![t] = l]
        /\ l \notin {"none", "start"}
    BY <1>1, <1>2, DFacts DEF DInv, Goto, LockPC
  <2> QED BY <1>1, <2>1 DEF Chosen
<1>4. Untouched'
  BY <1>1, <1>3 DEF Untouched
<1>5. ASSUME ~ NodesShared' PROVE Lock!IInv'
  <2>1. ~ NodesShared
    BY <1>3, <1>5, StepStays DEF NodesShared
  <2>2. Lock!Next
    BY <1>1 DEF Lock!Next
  <2> QED BY <2>1, <2>2, LockNext DEF OwnInv
<1> QED BY <1>4, <1>5 DEF OwnInv

(* A step that changes no word of the lock is a stutter of it.             *)
LEMMA OwnQuiet ==
  ASSUME OwnInv, DInv', UNCHANGED <<node, prev, arrivals>>,
         \A t \in Thread : buf'[t] = buf[t], \A x \in LockLoc : mem'[x] = mem[x],
         \A t \in Thread : (Chosen(t)' <=> Chosen(t)) /\ (Chosen(t) => pc'[t] = pc[t])
  PROVE  OwnInv'
<1>1. UNCHANGED Lock!vars
  BY LockStutters DEF OwnInv
<1>2. Untouched'
  BY DEF OwnInv, Untouched, Drained, MemInit, LockLoc, msl, next, locked
<1>3. ASSUME ~ NodesShared' PROVE Lock!IInv'
  <2>1. ~ NodesShared
    BY <1>3 DEF NodesShared
  <2> QED BY <1>1, <2>1, LockNext DEF OwnInv
<1> QED BY <1>2, <1>3 DEF OwnInv

(* A thread chooses its node: the other one, a shared one, or, if it is the*)
(* first to choose, any, in a state in which the lock can begin.           *)
LEMMA OwnStart ==
  ASSUME OwnInv, DInv', NEW t \in Thread, Start(t)
  PROVE  OwnInv'
<1>1. /\ pc \in [Thread -> DriverPC] /\ node \in [Thread -> Node] /\ node' \in [Thread -> Node]
      /\ DTypes' /\ DInv
  BY DFacts DEF OwnInv, DInv, DTypes
<1>2. /\ pc[t] = "start" /\ pc' = [pc EXCEPT ![t] = "init1"]
      /\ \A u \in Thread \ {t} : node'[u] = node[u]
      /\ UNCHANGED <<mem, buf, prev, arrivals>>
  BY <1>1 DEF Start, At, Goto
<1>3. /\ ~ Chosen(t) /\ Chosen(t)' /\ pc'[t] = "init1"
      /\ \A u \in Thread \ {t} : (Chosen(u)' <=> Chosen(u)) /\ pc'[u] = pc[u]
  BY <1>1, <1>2 DEF Chosen
<1>4. Untouched'
  BY <1>3 DEF Untouched
<1>5. ASSUME ~ NodesShared' PROVE Lock!IInv'
  <2>1. CASE \A u \in Thread : ~ Chosen(u)
    <3>1. /\ \A x \in LockLoc : mem'[x] = MemInit[x]
          /\ \A u \in Thread : Drained(u)' /\ prev'[u] = NULL
          /\ arrivals' = << >>
      BY <1>2, <2>1 DEF OwnInv, Untouched, Drained
    <3>2. \A u \in Thread : Chosen(u)' => pc'[u] = "init1"
      BY <1>3, <2>1
    <3>3. Fresh'
      BY <1>1, <1>5, <3>1, <3>2 DEF Fresh
    <3> QED BY <3>3, FreshLater
  <2>2. ASSUME NEW u \in Thread, Chosen(u) PROVE Lock!IInv'
    <3>1. u # t /\ u \in Thread \ {t} /\ t \in Thread \ {u}
      BY <1>3, <2>2
    <3>2. \A w \in Thread : w = t \/ w = u
      BY <3>1, TwoThreads
    <3>3. u = 1 - t /\ t = 1 - u
      BY <3>1, DriverAssumption
    <3>4. ~ NodesShared
      BY <1>3, <3>2 DEF NodesShared
    <3>5. LockMem' = LockMem /\ LockBuf' = LockBuf
      BY <1>2 DEF LockMem, LockBuf
    <3>6. LockPc' = LockPc
      BY <1>3 DEF LockPc
    <3>7. LockNode[t] = Other(node[u]) /\ LockNode[u] = node[u]
      BY <1>3, <2>2, <3>3 DEF LockNode
    <3>8. LockNode'[t] = node'[t] /\ LockNode'[u] = node[u]
      BY <1>2, <1>3, <2>2, <3>1 DEF LockNode
    <3>9. node'[t] = Other(node[u])
      <4>1. node'[t] # node'[u]
        BY <1>3, <1>5, <2>2, <3>1 DEF NodesShared
      <4>2. node'[t] \in {Node1, Node2} /\ node[u] \in {Node1, Node2} /\ node'[u] = node[u]
        BY <1>1, <1>2, <3>1, DriverAssumption
      <4> QED BY <4>1, <4>2, DriverAssumption DEF Other
    <3>10. LockNode' = LockNode
      <4>1. \A w \in Thread : LockNode'[w] = LockNode[w]
        BY <3>2, <3>7, <3>8, <3>9
      <4>2. LockNode = [w \in Thread |-> LockNode[w]] /\ LockNode' = [w \in Thread |-> LockNode'[w]]
        BY DEF LockNode
      <4> HIDE DEF LockNode
      <4> QED BY <4>1, <4>2
    <3>11. UNCHANGED Lock!vars
      BY <1>2, <3>5, <3>6, <3>10 DEF Lock!vars, Lock!lockVars
    <3> QED BY <3>4, <3>11, LockNext DEF OwnInv
  <2> QED BY <2>1, <2>2
<1> QED BY <1>4, <1>5 DEF OwnInv

(* A commit is one of the lock.                                            *)
LEMMA OwnFlush ==
  ASSUME OwnInv, DInv', NEW t \in Thread, DFlush(t)
  PROVE  OwnInv'
<1>1. DInv /\ Lock!Flush(t) /\ ~ Drained(t)
  BY LockFlushMaps DEF OwnInv
<1>2. UNCHANGED <<pc, node>>
  BY DEF DFlush, lockVars
<1>3. \A u \in Thread : Chosen(u)' <=> Chosen(u)
  BY <1>2 DEF Chosen
<1>4. Untouched'
  BY <1>1, <1>3 DEF OwnInv, Untouched
<1>5. ASSUME ~ NodesShared' PROVE Lock!IInv'
  <2>1. ~ NodesShared
    BY <1>2, <1>3, <1>5 DEF NodesShared
  <2>2. Lock!Next
    BY <1>1 DEF Lock!Next
  <2> QED BY <2>1, <2>2, LockNext DEF OwnInv
<1> QED BY <1>4, <1>5 DEF OwnInv

(* The steps of main leave the lock alone.                                 *)
LEMMA OwnMain ==
  ASSUME OwnInv, DInv', MainStep \/ DFlush(Main) \/ UNCHANGED dvars
  PROVE  OwnInv'
<1>1. /\ pc \in [Thread -> DriverPC] /\ DInv /\ DTypes /\ NoBuffers
      /\ mem \in [DLoc -> LockVal \cup {2}] /\ MemTypeOK(DThread, DLoc, LockVal \cup {2})
      /\ LockLoc \subseteq DLoc /\ i \in DLoc /\ i \notin LockLoc
      /\ Main \in DThread /\ \A u \in Thread : u \in DThread \ {Main}
  BY DFacts, TwoThreads, DWords DEF OwnInv, DInv, DLoc, LockLoc
<1>2. CASE Create
  <2>1. /\ mpc = "create" /\ Drained(Main)
        /\ pc' = [pc EXCEPT ![mem[i]] = "start"]
        /\ UNCHANGED <<mem, buf, node, prev, arrivals>>
    BY <1>2 DEF Create
  <2>2. mem[i] \in Thread /\ pc[mem[i]] = "none"
    BY <1>1, <2>1, CreateTarget
  <2>3. \A u \in Thread : (Chosen(u)' <=> Chosen(u)) /\ (Chosen(u) => pc'[u] = pc[u])
    BY <1>1, <2>1, <2>2 DEF Chosen
  <2> QED BY <2>1, <2>3, OwnQuiet
<1>3. CASE Increment
  <2>1. /\ mpc = "incr" /\ Put(Main, i, Load(Main, i) + 1, FALSE)
        /\ UNCHANGED <<pc, node, prev, arrivals>>
    BY <1>3 DEF Increment, Store, lockVars
  <2>2. /\ \A u \in Thread : buf'[u] = buf[u]
        /\ \A x \in LockLoc : mem'[x] = mem[x]
    BY <1>1, <2>1 DEF Put, MemTypeOK
  <2>3. \A u \in Thread : Chosen(u)' <=> Chosen(u)
    BY <2>1 DEF Chosen
  <2> QED BY <2>1, <2>2, <2>3, OwnQuiet
<1>4. CASE Join \/ UNCHANGED dvars
  <2>1. UNCHANGED <<mem, buf, pc, node, prev, arrivals>>
    BY <1>4 DEF Join, dvars, vars, lockVars
  <2>2. \A u \in Thread : Chosen(u)' <=> Chosen(u)
    BY <2>1 DEF Chosen
  <2> QED BY <2>1, <2>2, OwnQuiet
<1>5. CASE DFlush(Main)
  <2>1. PICK x \in DOMAIN mem : Commit(Main, x) /\ UNCHANGED <<lockVars, mpc>>
    BY <1>5 DEF DFlush
  <2>2. UNCHANGED <<pc, node, prev, arrivals>> /\ x \in DLoc
    BY <1>1, <2>1 DEF lockVars
  <2>3. PICK v \in LockVal \cup {2} : Holds(buf[Main], x, v) /\ mem' = [mem EXCEPT ![x] = v]
    BY <1>1, <2>1, <2>2, CommitHolds
  <2>4. x = i
    BY <1>1, <2>3 DEF DInv, MainStores
  <2>5. \A y \in LockLoc : mem'[y] = mem[y]
    BY <1>1, <2>3, <2>4
  <2>6. \A u \in Thread : buf'[u] = buf[u]
    BY <1>1, <2>1 DEF Commit, CommitAt, MemTypeOK
  <2>7. \A u \in Thread : Chosen(u)' <=> Chosen(u)
    BY <2>2 DEF Chosen
  <2> QED BY <2>2, <2>5, <2>6, <2>7, OwnQuiet
<1> QED BY <1>2, <1>3, <1>4, <1>5 DEF MainStep

(* Every step of the program keeps the invariant of the lock.              *)
LEMMA OwnNext == OwnInv /\ [DNext]_dvars => OwnInv'
<1> SUFFICES ASSUME OwnInv, [DNext]_dvars PROVE OwnInv'
  OBVIOUS
<1>1. DInv'
  BY DNextInv DEF OwnInv
<1>2. ASSUME NEW t \in Thread, DStep(t) PROVE OwnInv'
  BY <1>1, <1>2, OwnStart, OwnStep DEF DStep
<1>3. ASSUME NEW t \in DThread, DFlush(t) PROVE OwnInv'
  BY <1>1, <1>3, OwnFlush, OwnMain, TwoThreads
<1>4. CASE MainStep \/ UNCHANGED dvars
  BY <1>1, <1>4, OwnMain
<1> QED BY <1>2, <1>3, <1>4 DEF DNext

(* With the nodes different the program is a run of the lock, so the token *)
(* is never split and the tail names the last thread to arrive.            *)
THEOREM OwnNodes == DSpec => []OwnNodesSuffice
<1>1. OwnInv => OwnNodesSuffice
  <2> SUFFICES ASSUME OwnInv, ~ NodesShared PROVE OneToken /\ TailIsLast
    BY DEF OwnNodesSuffice
  <2>1. Lock!OneToken /\ Lock!TailIsLast
    BY LockToken DEF OwnInv, Lock!IInv
  <2>2. /\ \A t \in Thread : LockBuf[t] = buf[t]
        /\ \A t \in Thread : Chosen(t) => LockPc[t] = pc[t] /\ LockNode[t] = node[t]
        /\ \A x \in LockLoc : LockMem[x] = mem[x]
        /\ \A t \in Thread : \A x : Lock!Pending(t, x) = Pending(t, x)
    BY LockView DEF OwnInv
  <2>3. /\ msl \in LockLoc /\ Lock!msl = msl
        /\ \A n \in Node : locked(n) \in LockLoc
        /\ \A n : Lock!locked(n) = locked(n)
        /\ node \in [Thread -> Node]
    BY LockWords DEF OwnInv
  <2>4. \A t \in Thread : /\ Lock!Inside(t) <=> Inside(t)
                          /\ Lock!Waiting(t) <=> Waiting(t)
                          /\ Inside(t) \/ Waiting(t) => Chosen(t)
    BY DEF Lock!Inside, Lock!Waiting, Inside, Waiting, LockPc, Chosen
  <2>5. \A t \in Thread : Granted(t) => Lock!Granted(t)
    <3> SUFFICES ASSUME NEW t \in Thread, Granted(t) PROVE Lock!Granted(t)
      OBVIOUS
    <3>1. /\ Waiting(t) /\ Lock!Waiting(t) /\ LockNode[t] = node[t]
          /\ locked(node[t]) \in LockLoc /\ Lock!locked(node[t]) = locked(node[t])
      BY <2>2, <2>3, <2>4 DEF Granted
    <3> QED BY <2>2, <3>1 DEF Granted, Lock!Granted
  <2>6. OneToken
    BY <2>1, <2>4, <2>5 DEF OneToken, Lock!OneToken
  <2>7. TailIsLast
    <3>1. mem[msl] = IF arrivals = << >> THEN NULL ELSE LockNode[arrivals[Len(arrivals)]]
      BY <2>1, <2>2, <2>3 DEF Lock!TailIsLast
    <3>2. arrivals # << >> => \E t \in Thread : InTheLine(t) /\ arrivals[Len(arrivals)] = t
      <4>1. LineOfTwo
        BY DEF OwnInv, DInv
      <4>2. ASSUME NEW t \in Thread, InTheLine(t), arrivals = <<t>>
            PROVE  arrivals[Len(arrivals)] = t
        BY <4>2
      <4>3. ASSUME NEW t \in Thread, NEW u \in Thread, Waiting(u), arrivals = <<t, u>>
            PROVE  arrivals[Len(arrivals)] = u /\ InTheLine(u)
        BY <4>3 DEF InTheLine
      <4> QED BY <4>1, <4>2, <4>3 DEF LineOfTwo
    <3>3. \A t \in Thread : InTheLine(t) => LockNode[t] = node[t]
      BY <2>2, <2>4 DEF InTheLine
    <3> QED BY <3>1, <3>2, <3>3 DEF TailIsLast
  <2> QED BY <2>6, <2>7
<1>2. DSpec => []OwnInv
  <2>1. DInit => OwnInv
    BY OwnInit
  <2>2. OwnInv /\ [DNext]_dvars => OwnInv'
    BY OwnNext
  <2> QED BY <2>1, <2>2, PTL DEF DSpec
<1> QED BY <1>1, <1>2, PTL
=============================================================================
