------------------------- MODULE StoreBuffersProofs -------------------------
(***************************************************************************)
(* What the operations of StoreBuffers do to a buffer, stated once for the *)
(* proofs about the programs that use it.                                  *)
(***************************************************************************)
EXTENDS StoreBuffers, SequenceFacts

(* Appending a store keeps the older entries where they are.               *)
LEMMA AppendEntry ==
  ASSUME NEW S, NEW b \in Seq(S), NEW e \in S
  PROVE  /\ Append(b, e) \in Seq(S)
         /\ DOMAIN Append(b, e) = 1..(Len(b) + 1)
         /\ DOMAIN b = 1..Len(b)
         /\ Len(b) \in Nat
         /\ Append(b, e)[Len(b) + 1] = e
         /\ \A i \in 1..Len(b) : Append(b, e)[i] = b[i]
  OBVIOUS

(* Committing the i-th store removes it and keeps the others in order.     *)
LEMMA WithoutEntry ==
  ASSUME NEW S, NEW b \in Seq(S), NEW i \in DOMAIN b
  PROVE  /\ Without(b, i) \in Seq(S)
         /\ Len(b) \in Nat \ {0}
         /\ DOMAIN b = 1..Len(b)
         /\ DOMAIN Without(b, i) = 1..(Len(b) - 1)
         /\ Len(Without(b, i)) = Len(b) - 1
         /\ \A j \in 1..(Len(b) - 1) :
              Without(b, i)[j] = IF j < i THEN b[j] ELSE b[j + 1]
<1>1. /\ DOMAIN b = 1..Len(b)
      /\ Len(b) \in Nat \ {0}
      /\ i \in 1..Len(b)
  OBVIOUS
<1>2. \A j \in 1..(Len(b) - 1) : b[j] \in S /\ b[j + 1] \in S
  BY <1>1
<1>3. Without(b, i) \in [1..(Len(b) - 1) -> S]
  BY <1>1, <1>2 DEF Without
<1>4. Len(b) - 1 \in Nat
  BY <1>1
<1>5. Without(b, i) \in Seq(S)
  BY <1>3, <1>4
<1> QED
  BY <1>1, <1>3, <1>4, <1>5 DEF Without

(* A buffer loses exactly the committed entry: what remains was there, and *)
(* every other entry remains.                                              *)
LEMMA WithoutMembers ==
  ASSUME NEW S, NEW b \in Seq(S), NEW i \in DOMAIN b
  PROVE  /\ \A j \in DOMAIN Without(b, i) :
              \E k \in DOMAIN b : k # i /\ Without(b, i)[j] = b[k]
         /\ \A k \in DOMAIN b :
              k # i => \E j \in DOMAIN Without(b, i) : Without(b, i)[j] = b[k]
<1> DEFINE w == Without(b, i)
<1>1. /\ Len(b) \in Nat \ {0}
      /\ DOMAIN b = 1..Len(b)
      /\ DOMAIN w = 1..(Len(b) - 1)
      /\ \A j \in 1..(Len(b) - 1) : w[j] = IF j < i THEN b[j] ELSE b[j + 1]
  BY WithoutEntry
<1>2. ASSUME NEW j \in DOMAIN w
      PROVE  \E k \in DOMAIN b : k # i /\ w[j] = b[k]
  <2>1. CASE j < i
    <3>1. j \in DOMAIN b /\ j # i /\ w[j] = b[j]
      BY <1>1, <2>1
    <3> QED BY <3>1
  <2>2. CASE ~(j < i)
    <3>1. j + 1 \in DOMAIN b /\ j + 1 # i /\ w[j] = b[j + 1]
      BY <1>1, <2>2
    <3> QED BY <3>1
  <2> QED BY <2>1, <2>2
<1>3. ASSUME NEW k \in DOMAIN b, k # i
      PROVE  \E j \in DOMAIN w : w[j] = b[k]
  <2>1. CASE k < i
    <3>1. k \in DOMAIN w /\ w[k] = b[k]
      BY <1>1, <2>1
    <3> QED BY <3>1
  <2>2. CASE ~(k < i)
    <3>1. k - 1 \in DOMAIN w /\ w[k - 1] = b[k]
      BY <1>1, <1>3, <2>2
    <3> QED BY <3>1
  <2> QED BY <2>1, <2>2
<1> QED BY <1>2, <1>3

(* A release store commits only when it is the oldest of its buffer.       *)
LEMMA ReleaseIsFirst ==
  ASSUME NEW S, NEW b \in Seq(S), NEW i \in DOMAIN b, Ready(b, i), b[i].rel
  PROVE  i = 1
<1>1. i \in 1..Len(b) /\ Len(b) \in Nat
  OBVIOUS
<1>2. ~ \E j \in 1..(i - 1) : TRUE
  BY DEF Ready
<1> QED BY <1>1, <1>2

(* A store, buffered or not, keeps memory and buffers well formed.         *)
LEMMA PutType ==
  ASSUME NEW Thread, NEW Loc, NEW Val, MemTypeOK(Thread, Loc, Val),
         NEW t \in Thread, NEW x \in Loc, NEW v \in Val,
         NEW rel \in BOOLEAN, Put(t, x, v, rel)
  PROVE  MemTypeOK(Thread, Loc, Val)'
<1> DEFINE e == [loc |-> x, val |-> v, rel |-> rel]
<1>1. e \in Entries(Loc, Val)
  BY DEF Entries
<1>2. buf[t] \in Seq(Entries(Loc, Val))
  BY DEF MemTypeOK
<1>3. Append(buf[t], e) \in Seq(Entries(Loc, Val))
  BY <1>1, <1>2
<1> QED
  BY <1>3 DEF Put, MemTypeOK

(* What a buffered store does to the buffers.                              *)
LEMMA PutShape ==
  ASSUME NEW Thread, NEW Loc, NEW Val, MemTypeOK(Thread, Loc, Val),
         NEW t \in Thread, NEW x \in Loc, NEW v \in Val,
         NEW rel \in BOOLEAN, Put(t, x, v, rel), Model # "SC"
  PROVE  /\ mem' = mem
         /\ buf' \in [Thread -> Seq(Entries(Loc, Val))]
         /\ \A u \in Thread : u # t => buf'[u] = buf[u]
         /\ DOMAIN buf[t] = 1..Len(buf[t])
         /\ Len(buf[t]) \in Nat
         /\ Len(buf'[t]) = Len(buf[t]) + 1
         /\ DOMAIN buf'[t] = 1..(Len(buf[t]) + 1)
         /\ buf'[t][Len(buf[t]) + 1] = [loc |-> x, val |-> v, rel |-> rel]
         /\ \A i \in DOMAIN buf[t] : buf'[t][i] = buf[t][i]
         /\ \A u \in Thread, y \in Loc :
              Has(u, y)' <=> Has(u, y) \/ (u = t /\ y = x)
<1> DEFINE e == [loc |-> x, val |-> v, rel |-> rel]
           b == buf[t]
           c == buf'[t]
<1>1. /\ e \in Entries(Loc, Val)
      /\ b \in Seq(Entries(Loc, Val))
      /\ mem' = mem
      /\ buf' = [buf EXCEPT ![t] = Append(@, e)]
      /\ buf \in [Thread -> Seq(Entries(Loc, Val))]
  BY DEF Put, MemTypeOK, Entries
<1>2. /\ Append(b, e) \in Seq(Entries(Loc, Val))
      /\ DOMAIN Append(b, e) = 1..(Len(b) + 1)
      /\ DOMAIN b = 1..Len(b)
      /\ Len(b) \in Nat
      /\ Append(b, e)[Len(b) + 1] = e
      /\ \A i \in 1..Len(b) : Append(b, e)[i] = b[i]
  BY <1>1, AppendEntry
<1>3. c = Append(b, e) /\ \A u \in Thread : u # t => buf'[u] = buf[u]
  BY <1>1
<1>4. /\ buf' \in [Thread -> Seq(Entries(Loc, Val))]
      /\ Len(c) = Len(b) + 1
  BY <1>1, <1>2, <1>3
<1>5. \A u \in Thread, y \in Loc : Has(u, y)' <=> Has(u, y) \/ (u = t /\ y = x)
  <2> SUFFICES ASSUME NEW u \in Thread, NEW y \in Loc
               PROVE  Has(u, y)' <=> Has(u, y) \/ (u = t /\ y = x)
    OBVIOUS
  <2>1. CASE u # t
    BY <1>3, <2>1 DEF Has, Pending
  <2>2. CASE u = t
    <3>1. ASSUME NEW i \in DOMAIN c, c[i].loc = y
          PROVE  Has(t, y) \/ y = x
      BY <1>2, <1>3, <3>1 DEF Has, Pending
    <3>2. ASSUME NEW i \in DOMAIN b, b[i].loc = y
          PROVE  Has(t, y)'
      <4>1. i \in DOMAIN c /\ c[i].loc = y
        BY <1>2, <1>3, <3>2
      <4> QED BY <4>1 DEF Has, Pending
    <3>3. ASSUME y = x PROVE Has(t, y)'
      <4>1. Len(b) + 1 \in DOMAIN c /\ c[Len(b) + 1].loc = y
        BY <1>2, <1>3, <3>3
      <4> QED BY <4>1 DEF Has, Pending
    <3> QED BY <2>2, <3>1, <3>2, <3>3 DEF Has, Pending
  <2> QED BY <2>1, <2>2
<1> QED BY <1>1, <1>2, <1>3, <1>4, <1>5

(* What a commit does to the buffers and to memory.                        *)
LEMMA CommitShape ==
  ASSUME NEW Thread, NEW Loc, NEW Val, MemTypeOK(Thread, Loc, Val),
         NEW t \in Thread, NEW x \in Loc, NEW i \in Pending(t, x), CommitAt(t, i)
  PROVE  /\ MemTypeOK(Thread, Loc, Val)'
         /\ i \in DOMAIN buf[t]
         /\ buf[t][i] \in Entries(Loc, Val)
         /\ buf[t][i].loc = x
         /\ mem' = [mem EXCEPT ![x] = buf[t][i].val]
         /\ \A u \in Thread : u # t => buf'[u] = buf[u]
         /\ DOMAIN buf[t] = 1..Len(buf[t])
         /\ Len(buf[t]) \in Nat \ {0}
         /\ Len(buf'[t]) = Len(buf[t]) - 1
         /\ DOMAIN buf'[t] = 1..(Len(buf[t]) - 1)
         /\ \A j \in DOMAIN buf'[t] :
              buf'[t][j] = IF j < i THEN buf[t][j] ELSE buf[t][j + 1]
         /\ \A u \in Thread, y \in Loc : Has(u, y)' => Has(u, y)
         /\ \A u \in Thread, y \in Loc :
              y # x \/ u # t => (Has(u, y)' <=> Has(u, y))
<1> DEFINE b == buf[t]
           c == buf'[t]
<1>1. /\ b \in Seq(Entries(Loc, Val))
      /\ buf \in [Thread -> Seq(Entries(Loc, Val))]
      /\ mem \in [Loc -> Val]
      /\ i \in DOMAIN b
      /\ b[i].loc = x
  BY DEF MemTypeOK, Pending
<1>2. /\ Without(b, i) \in Seq(Entries(Loc, Val))
      /\ Len(b) \in Nat \ {0}
      /\ DOMAIN b = 1..Len(b)
      /\ DOMAIN Without(b, i) = 1..(Len(b) - 1)
      /\ Len(Without(b, i)) = Len(b) - 1
      /\ \A j \in 1..(Len(b) - 1) :
           Without(b, i)[j] = IF j < i THEN b[j] ELSE b[j + 1]
  BY <1>1, WithoutEntry
<1>3. /\ \A j \in DOMAIN Without(b, i) :
           \E k \in DOMAIN b : k # i /\ Without(b, i)[j] = b[k]
      /\ \A k \in DOMAIN b :
           k # i => \E j \in DOMAIN Without(b, i) : Without(b, i)[j] = b[k]
  BY <1>1, WithoutMembers
<1>4. /\ c = Without(b, i)
      /\ \A u \in Thread : u # t => buf'[u] = buf[u]
      /\ buf' = [buf EXCEPT ![t] = Without(b, i)]
      /\ mem' = [mem EXCEPT ![x] = b[i].val]
  BY <1>1 DEF CommitAt
<1>5. b[i] \in Entries(Loc, Val) /\ b[i].val \in Val
  <2>1. b[i] \in Entries(Loc, Val)
    BY <1>1
  <2> QED BY <2>1 DEF Entries
<1>6. MemTypeOK(Thread, Loc, Val)'
  BY <1>1, <1>2, <1>4, <1>5 DEF MemTypeOK
<1>7. ASSUME NEW u \in Thread, NEW y \in Loc, Has(u, y)'
      PROVE  Has(u, y)
  BY <1>3, <1>4, <1>7 DEF Has, Pending
<1>8. ASSUME NEW u \in Thread, NEW y \in Loc, y # x \/ u # t, Has(u, y)
      PROVE  Has(u, y)'
  <2>1. CASE u # t
    BY <1>4, <1>8, <2>1 DEF Has, Pending
  <2>2. CASE u = t
    <3>1. PICK k \in DOMAIN b : b[k].loc = y
      BY <1>8, <2>2 DEF Has, Pending
    <3>2. k # i
      BY <1>1, <1>8, <2>2, <3>1
    <3>3. PICK j \in DOMAIN c : c[j] = b[k]
      BY <1>3, <1>4, <3>2
    <3> QED BY <2>2, <3>1, <3>3 DEF Has, Pending
  <2> QED BY <2>1, <2>2
<1> QED BY <1>1, <1>2, <1>4, <1>5, <1>6, <1>7, <1>8

-----------------------------------------------------------------------------
(* The same operations for programs that do not rely on the order of a     *)
(* buffer: all that matters is which stores are still under way.           *)

(* A buffer holds a store of v to x.                                       *)
Holds(b, x, v) == \E i \in DOMAIN b : b[i].loc = x /\ b[i].val = v

(* The entries for a location, by position and as a set.                   *)
LEMMA PendingHolds ==
  ASSUME NEW t, NEW x
  PROVE  /\ Pending(t, x) = {} => \A v : ~ Holds(buf[t], x, v)
         /\ Pending(t, x) # {} => \E v : Holds(buf[t], x, v)
  BY DEF Pending, Holds

(* A drained buffer has no entries.                                        *)
LEMMA DrainedHolds ==
  ASSUME NEW t, Drained(t)
  PROVE  \A x, v : ~ Holds(buf[t], x, v)
  BY DEF Drained, Holds

(* A load returns memory when the thread has no store to the location      *)
(* under way, and the value of one of these when it has.                   *)
LEMMA LoadHolds ==
  ASSUME NEW Thread, NEW Loc, NEW Val, MemTypeOK(Thread, Loc, Val),
         NEW t \in Thread, NEW x \in Loc
  PROVE  \/ Load(t, x) = mem[x] /\ \A v : ~ Holds(buf[t], x, v)
         \/ Holds(buf[t], x, Load(t, x))
<1> DEFINE b == buf[t]
           P == Pending(t, x)
<1>1. DOMAIN b = 1..Len(b) /\ Len(b) \in Nat
  BY DEF MemTypeOK
<1>2. CASE P = {}
  BY <1>2, PendingHolds DEF Load
<1>3. CASE P # {}
  <2>1. P \in SUBSET (1..Len(b))
    BY <1>1 DEF Pending
  <2>2. \E i \in P : \A j \in P : j <= i
    <3> HIDE DEF P, b
    <3> QED BY <1>1, <1>3, <2>1, LastPosition
  <2> DEFINE l == CHOOSE i \in P : \A j \in P : j <= i
  <2>3. l \in P
    <3> HIDE DEF P
    <3> QED BY <2>2
  <2>4. Load(t, x) = b[l].val
    BY <1>3 DEF Load
  <2> HIDE DEF l
  <2> QED BY <2>3, <2>4 DEF Pending, Holds
<1> QED BY <1>2, <1>3

(* A store goes to memory at once or is one more store under way.          *)
LEMMA PutHolds ==
  ASSUME NEW Thread, NEW Loc, NEW Val, MemTypeOK(Thread, Loc, Val),
         NEW t \in Thread, NEW x \in Loc, NEW v \in Val,
         NEW rel \in BOOLEAN, Put(t, x, v, rel)
  PROVE  /\ MemTypeOK(Thread, Loc, Val)'
         /\ \/ /\ mem' = [mem EXCEPT ![x] = v]
               /\ \A u, y, w : Holds(buf'[u], y, w) <=> Holds(buf[u], y, w)
            \/ /\ mem' = mem
               /\ \A u \in Thread : \A y, w :
                    Holds(buf'[u], y, w) <=> Holds(buf[u], y, w) \/ (u = t /\ y = x /\ w = v)
<1>1. MemTypeOK(Thread, Loc, Val)'
  BY PutType
<1>2. CASE Model = "SC"
  <2>1. mem' = [mem EXCEPT ![x] = v] /\ buf' = buf
    BY <1>2 DEF Put
  <2> QED BY <1>1, <2>1 DEF Holds
<1>3. CASE Model # "SC"
  <2>1. /\ mem' = mem
        /\ \A u \in Thread : u # t => buf'[u] = buf[u]
        /\ DOMAIN buf[t] = 1..Len(buf[t])
        /\ Len(buf[t]) \in Nat
        /\ DOMAIN buf'[t] = 1..(Len(buf[t]) + 1)
        /\ buf'[t][Len(buf[t]) + 1] = [loc |-> x, val |-> v, rel |-> rel]
        /\ \A i \in DOMAIN buf[t] : buf'[t][i] = buf[t][i]
    BY <1>3, PutShape
  <2> DEFINE b == buf[t]
             c == buf'[t]
  <2> HIDE DEF b, c
  <2>2. ASSUME NEW y, NEW w
        PROVE  (\E i \in DOMAIN c : c[i].loc = y /\ c[i].val = w)
                 <=> \/ \E i \in DOMAIN b : b[i].loc = y /\ b[i].val = w
                     \/ y = x /\ w = v
    <3>1. /\ DOMAIN b = 1..Len(b) /\ Len(b) \in Nat
          /\ DOMAIN c = 1..(Len(b) + 1)
          /\ c[Len(b) + 1].loc = x /\ c[Len(b) + 1].val = v
          /\ \A i \in DOMAIN b : c[i] = b[i]
      BY <2>1 DEF b, c
    <3>2. Len(b) + 1 \in DOMAIN c /\ \A i \in DOMAIN b : i \in DOMAIN c
      BY <3>1
    <3>3. \A i \in DOMAIN c : i \in DOMAIN b \/ i = Len(b) + 1
      BY <3>1
    <3> QED BY <3>1, <3>2, <3>3
  <2>3. \A y, w : Holds(buf'[t], y, w) <=> Holds(buf[t], y, w) \/ (y = x /\ w = v)
    BY <2>2 DEF Holds, b, c
  <2>4. \A u \in Thread : u # t => \A y, w : Holds(buf'[u], y, w) <=> Holds(buf[u], y, w)
    BY <2>1 DEF Holds
  <2> QED BY <1>1, <2>1, <2>3, <2>4
<1> QED BY <1>2, <1>3

(* A commit takes one store out of the buffer and writes it to memory.     *)
LEMMA CommitHolds ==
  ASSUME NEW Thread, NEW Loc, NEW Val, MemTypeOK(Thread, Loc, Val),
         NEW t \in Thread, NEW x \in Loc, Commit(t, x)
  PROVE  /\ MemTypeOK(Thread, Loc, Val)'
         /\ \A u \in Thread : \A y, w : Holds(buf'[u], y, w) => Holds(buf[u], y, w)
         /\ \E v \in Val :
              /\ Holds(buf[t], x, v)
              /\ mem' = [mem EXCEPT ![x] = v]
              /\ \A u \in Thread : \A y, w :
                   Holds(buf[u], y, w) /\ (u # t \/ y # x \/ w # v) => Holds(buf'[u], y, w)
<1>1. PICK i \in Pending(t, x) : CommitAt(t, i)
  BY DEF Commit
<1> DEFINE b == buf[t]
           c == buf'[t]
           v == b[i].val
<1>2. /\ MemTypeOK(Thread, Loc, Val)'
      /\ i \in DOMAIN b
      /\ b[i] \in Entries(Loc, Val)
      /\ b[i].loc = x
      /\ mem' = [mem EXCEPT ![x] = v]
      /\ \A u \in Thread : u # t => buf'[u] = buf[u]
  BY <1>1, CommitShape
<1>3. /\ b \in Seq(Entries(Loc, Val))
      /\ c = Without(b, i)
  BY <1>1 DEF MemTypeOK, CommitAt
<1>4. /\ \A j \in DOMAIN c : \E k \in DOMAIN b : k # i /\ c[j] = b[k]
      /\ \A k \in DOMAIN b : k # i => \E j \in DOMAIN c : c[j] = b[k]
  <2> HIDE DEF b, c
  <2> QED BY <1>2, <1>3, WithoutMembers
<1>5. v \in Val
  BY <1>2 DEF Entries
<1>6. Holds(buf[t], x, v)
  BY <1>2 DEF Holds
<1>7. \A u \in Thread : \A y, w : Holds(buf'[u], y, w) => Holds(buf[u], y, w)
  BY <1>2, <1>4 DEF Holds
<1>8. \A u \in Thread : \A y, w :
        Holds(buf[u], y, w) /\ (u # t \/ y # x \/ w # v) => Holds(buf'[u], y, w)
  BY <1>2, <1>4 DEF Holds
<1> HIDE DEF v
<1> QED BY <1>2, <1>5, <1>6, <1>7, <1>8
=============================================================================
