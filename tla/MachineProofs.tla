---------------------------- MODULE MachineProofs ----------------------------
(***************************************************************************)
(* What the operations of Machine do to memory and to the buffers, for the *)
(* proofs about the programs that run on it.  A buffer is looked at as the *)
(* set of its entries first, then by position, for the programs of which   *)
(* the order of the stores is the point.                                   *)
(***************************************************************************)
EXTENDS Machine, SequenceFacts

Entry(Loc, Val) == [loc : Loc, val : Val, rel : BOOLEAN]

Entries(t) == {buf[t][i] : i \in DOMAIN buf[t]}

MemOK(T, Loc, Val) ==
  /\ mem \in [Loc -> Val]
  /\ buf \in [T -> Seq(Entry(Loc, Val))]

Weak == model \in {"TSO", "ARM"}

(* A load returns memory, or the value of an entry of the thread itself;   *)
(* a thread without entries for the location reads memory.                 *)
LEMMA LoadEntries ==
  ASSUME NEW T, NEW Loc, NEW Val, MemOK(T, Loc, Val), NEW t \in T, NEW x \in Loc
  PROVE  /\ Load(t, x) \in Val
         /\ \/ Load(t, x) = mem[x]
            \/ \E e \in Entries(t) : e.loc = x /\ e.val = Load(t, x)
         /\ (\A e \in Entries(t) : e.loc # x) => Load(t, x) = mem[x]
<1> DEFINE b == buf[t]
           P == {i \in DOMAIN b : b[i].loc = x}
<1>1. /\ mem[x] \in Val
      /\ b \in Seq(Entry(Loc, Val))
      /\ DOMAIN b = 1..Len(b) /\ Len(b) \in Nat
      /\ \A i \in DOMAIN b : b[i] \in Entry(Loc, Val)
  BY DEF MemOK
<1>2. SC!Pending(t, x) = P
  BY DEF SC!Pending
<1>3. CASE P = {}
  <2>1. Load(t, x) = mem[x]
    BY <1>2, <1>3 DEF Load, SC!Load
  <2> QED BY <1>1, <2>1
<1>4. CASE P # {}
  <2>1. \E i \in P : \A j \in P : j <= i
    BY <1>1, <1>4, LastPosition
  <2> DEFINE l == CHOOSE i \in P : \A j \in P : j <= i
  <2>2. l \in P
    <3> HIDE DEF P
    <3> QED BY <2>1
  <2>3. Load(t, x) = b[l].val
    BY <1>2, <1>4 DEF Load, SC!Load
  <2>4. l \in DOMAIN b /\ b[l].loc = x /\ b[l] \in Entries(t)
    <3> HIDE DEF l
    <3> QED BY <2>2 DEF Entries
  <2>5. Load(t, x) \in Val
    <3> HIDE DEF l
    <3> QED BY <1>1, <2>3, <2>4 DEF Entry
  <2> HIDE DEF l
  <2> QED BY <2>3, <2>4, <2>5
<1> QED BY <1>3, <1>4

(* Off SC a store is one more entry of its thread.                         *)
LEMMA PutEntries ==
  ASSUME NEW T, NEW Loc, NEW Val, MemOK(T, Loc, Val), Weak,
         NEW t \in T, NEW x \in Loc, NEW v \in Val, NEW rel \in BOOLEAN,
         Put(t, x, v, rel)
  PROVE  /\ MemOK(T, Loc, Val)'
         /\ mem' = mem
         /\ \E e : e.loc = x /\ e.val = v /\ (rel => e.rel) /\ Entries(t)' = Entries(t) \cup {e}
         /\ \A u \in T : u # t => Entries(u)' = Entries(u)
<1> DEFINE e == [loc |-> x, val |-> v, rel |-> rel]
           b == buf[t]
<1>1. mem' = mem /\ buf' = [buf EXCEPT ![t] = Append(@, e)]
  BY DEF Put, Weak, TSO!Put, ARM!Put
<1>2. /\ buf \in [T -> Seq(Entry(Loc, Val))]
      /\ mem \in [Loc -> Val]
      /\ e \in Entry(Loc, Val)
      /\ b \in Seq(Entry(Loc, Val))
  BY DEF MemOK, Entry
<1>3. /\ DOMAIN b = 1..Len(b) /\ Len(b) \in Nat
      /\ Append(b, e) \in Seq(Entry(Loc, Val))
      /\ DOMAIN Append(b, e) = 1..(Len(b) + 1)
      /\ Append(b, e)[Len(b) + 1] = e
      /\ \A i \in 1..Len(b) : Append(b, e)[i] = b[i]
  <2> HIDE DEF b, e
  <2> QED BY <1>2
<1>4. buf'[t] = Append(b, e) /\ \A u \in T : u # t => buf'[u] = buf[u]
  BY <1>1, <1>2
<1>5. MemOK(T, Loc, Val)'
  BY <1>1, <1>2, <1>3 DEF MemOK
<1>6. {Append(b, e)[i] : i \in 1..(Len(b) + 1)} = {b[i] : i \in 1..Len(b)} \cup {e}
  <2> HIDE DEF b, e
  <2> QED BY <1>3
<1>7. Entries(t)' = Entries(t) \cup {e}
  BY <1>3, <1>4, <1>6 DEF Entries
<1>8. e.loc = x /\ e.val = v /\ (rel => e.rel)
  BY Zenon
<1>9. \A u \in T : u # t => Entries(u)' = Entries(u)
  BY <1>4 DEF Entries
<1> HIDE DEF e
<1> QED BY <1>1, <1>5, <1>7, <1>8, <1>9

(* The same as one fact, for stores whose value or kind is given.          *)
Adds(T, Loc, Val, t, x, v) ==
  /\ MemOK(T, Loc, Val)'
  /\ mem' = mem
  /\ \E e : e.loc = x /\ e.val = v /\ Entries(t)' = Entries(t) \cup {e}
  /\ \A u \in T : u # t => Entries(u)' = Entries(u)

(* The same in one word, for stores of constants.                          *)
LEMMA PutAdds ==
  ASSUME NEW T, NEW Loc, NEW Val, MemOK(T, Loc, Val), Weak,
         NEW t \in T, NEW x \in Loc, NEW v \in Val, NEW rel \in BOOLEAN,
         Put(t, x, v, rel)
  PROVE  Adds(T, Loc, Val, t, x, v)
  BY PutEntries DEF Adds

(* A commit takes one entry for the location out of the buffer and writes  *)
(* it to memory; every other entry stays.                                  *)
LEMMA CommitEntries ==
  ASSUME NEW T, NEW Loc, NEW Val, MemOK(T, Loc, Val), Weak,
         NEW t \in T, NEW x \in Loc, Commit(t, x)
  PROVE  /\ MemOK(T, Loc, Val)'
         /\ \A u \in T : u # t => Entries(u)' = Entries(u)
         /\ Entries(t)' \subseteq Entries(t)
         /\ \E e \in Entries(t) :
              /\ e.loc = x
              /\ mem' = [mem EXCEPT ![x] = e.val]
              /\ \A f \in Entries(t) : f # e => f \in Entries(t)'
<1> DEFINE b == buf[t]
           w(i) == [j \in 1..(Len(b) - 1) |-> IF j < i THEN b[j] ELSE b[j + 1]]
<1>1. PICK i \in DOMAIN b :
        /\ b[i].loc = x
        /\ mem' = [mem EXCEPT ![x] = b[i].val]
        /\ buf' = [buf EXCEPT ![t] = w(i)]
  <2>1. CASE model = "TSO"
    <3>1. TSO!Commit(t, x)
      BY <2>1 DEF Commit
    <3> QED BY <3>1 DEF TSO!Commit, TSO!CommitAt, TSO!Pending, TSO!Without
  <2>2. CASE model = "ARM"
    <3>1. ARM!Commit(t, x)
      BY <2>2 DEF Commit
    <3> QED BY <3>1 DEF ARM!Commit, ARM!CommitAt, ARM!Pending, ARM!Without
  <2> QED BY <2>1, <2>2 DEF Weak
<1>2. /\ buf \in [T -> Seq(Entry(Loc, Val))]
      /\ mem \in [Loc -> Val]
      /\ b \in Seq(Entry(Loc, Val))
      /\ DOMAIN b = 1..Len(b) /\ Len(b) \in Nat \ {0}
      /\ i \in 1..Len(b)
      /\ \A j \in 1..Len(b) : b[j] \in Entry(Loc, Val)
  BY <1>1 DEF MemOK
<1>3. /\ buf'[t] = w(i)
      /\ \A u \in T : u # t => buf'[u] = buf[u]
  <2> HIDE DEF b, w
  <2> QED BY <1>1, <1>2
<1>4. w(i) \in Seq(Entry(Loc, Val))
  <2>1. \A j \in 1..(Len(b) - 1) : j \in 1..Len(b) /\ j + 1 \in 1..Len(b)
    BY <1>2
  <2>2. w(i) \in [1..(Len(b) - 1) -> Entry(Loc, Val)]
    BY <1>2, <2>1
  <2>3. Len(b) - 1 \in Nat
    BY <1>2
  <2> HIDE DEF w
  <2> QED BY <2>2, <2>3
<1>5. b[i].val \in Val
  BY <1>2 DEF Entry
<1>6. MemOK(T, Loc, Val)'
  <2> HIDE DEF w
  <2> QED BY <1>1, <1>2, <1>4, <1>5 DEF MemOK
<1>7. DOMAIN buf'[t] = 1..(Len(b) - 1)
  BY <1>3
<1>8. Entries(t)' \subseteq Entries(t)
  <2>1. ASSUME NEW j \in 1..(Len(b) - 1)
        PROVE  w(i)[j] \in Entries(t)
    <3>1. j \in DOMAIN b /\ j + 1 \in DOMAIN b
      BY <1>2
    <3>2. w(i)[j] \in {b[j], b[j + 1]}
      OBVIOUS
    <3> QED BY <3>1, <3>2 DEF Entries
  <2> HIDE DEF w
  <2> QED BY <1>3, <1>7, <2>1 DEF Entries
<1>9. ASSUME NEW f \in Entries(t), f # b[i]
      PROVE  f \in Entries(t)'
  <2>1. PICK k \in 1..Len(b) : f = b[k]
    BY <1>2 DEF Entries
  <2>2. k # i
    BY <1>9, <2>1
  <2>3. CASE k < i
    <3>1. k \in 1..(Len(b) - 1)
      BY <1>2, <2>3
    <3>2. w(i)[k] = b[k]
      BY <2>3, <3>1
    <3> HIDE DEF w
    <3> QED BY <1>3, <1>7, <2>1, <3>1, <3>2 DEF Entries
  <2>4. CASE ~ (k < i)
    <3>1. k - 1 \in 1..(Len(b) - 1) /\ ~ (k - 1 < i)
      BY <1>2, <2>2, <2>4
    <3>2. w(i)[k - 1] = b[k]
      BY <3>1
    <3> HIDE DEF w
    <3> QED BY <1>3, <1>7, <2>1, <3>1, <3>2 DEF Entries
  <2> QED BY <2>3, <2>4
<1>10. b[i] \in Entries(t)
  BY <1>1 DEF Entries
<1>11. \A u \in T : u # t => Entries(u)' = Entries(u)
  BY <1>3 DEF Entries
<1> HIDE DEF b, w
<1> QED BY <1>1, <1>3, <1>6, <1>8, <1>9, <1>10, <1>11

(* A thread that has drained its buffer has no entries, and one that can   *)
(* perform a read-modify-write none for that location.                     *)
LEMMA DrainedEntries ==
  ASSUME NEW T, NEW Loc, NEW Val, MemOK(T, Loc, Val), NEW t \in T, Drained(t)
  PROVE  Entries(t) = {}
  BY DEF Drained, SC!Drained, Entries, MemOK

(* A step that touches no memory leaves the entries alone.                 *)
LEMMA SilentEntries ==
  ASSUME NEW T, NEW Loc, NEW Val, MemOK(T, Loc, Val), Silent
  PROVE  /\ MemOK(T, Loc, Val)'
         /\ mem' = mem
         /\ \A u \in T : Entries(u)' = Entries(u)
  BY DEF Silent, MemOK, Entries

(* A read-modify-write changes one word of memory.                         *)
LEMMA SetMemEntries ==
  ASSUME NEW T, NEW Loc, NEW Val, MemOK(T, Loc, Val),
         NEW x \in Loc, NEW v \in Val, SetMem(x, v)
  PROVE  /\ MemOK(T, Loc, Val)'
         /\ mem' = [mem EXCEPT ![x] = v]
         /\ \A u \in T : Entries(u)' = Entries(u)
  BY DEF SetMem, SC!SetMem, MemOK, Entries

(* A sequentially consistent store: in memory at once on TSO, where the    *)
(* buffer is empty, a release on ARM.                                      *)
AddsRelease(T, Loc, Val, t, x, v) ==
  /\ MemOK(T, Loc, Val)'
  /\ mem' = mem
  /\ \E e : e.loc = x /\ e.val = v /\ e.rel /\ Entries(t)' = Entries(t) \cup {e}
  /\ \A u \in T : u # t => Entries(u)' = Entries(u)

StoresAtOnce(T, Loc, Val, t, x, v) ==
  /\ MemOK(T, Loc, Val)'
  /\ mem' = [mem EXCEPT ![x] = v]
  /\ Entries(t) = {}
  /\ \A u \in T : Entries(u)' = Entries(u)

(* A release enters the buffer as one.                                     *)
LEMMA PutRelease ==
  ASSUME NEW T, NEW Loc, NEW Val, MemOK(T, Loc, Val), Weak,
         NEW t \in T, NEW x \in Loc, NEW v \in Val, NEW rel \in BOOLEAN,
         Put(t, x, v, rel)
  PROVE  rel => AddsRelease(T, Loc, Val, t, x, v)
<1>1. /\ MemOK(T, Loc, Val)'
      /\ mem' = mem
      /\ \A u \in T : u # t => Entries(u)' = Entries(u)
  BY PutEntries
<1>2. PICK e : e.loc = x /\ e.val = v /\ (rel => e.rel) /\ Entries(t)' = Entries(t) \cup {e}
  BY PutEntries
<1>3. rel => \E f : f.loc = x /\ f.val = v /\ f.rel /\ Entries(t)' = Entries(t) \cup {f}
  BY <1>2, Zenon
<1> QED BY <1>1, <1>3, Zenon DEF AddsRelease

(* What a sequentially consistent store does on either memory.             *)
LEMMA WriteSCStores ==
  ASSUME NEW T, NEW Loc, NEW Val, MemOK(T, Loc, Val), Weak,
         NEW t \in T, NEW x \in Loc, NEW v \in Val, NEW from, NEW to,
         WriteSC(t, from, x, v, to)
  PROVE  AddsRelease(T, Loc, Val, t, x, v) \/ StoresAtOnce(T, Loc, Val, t, x, v)
<1>1. CASE model = "TSO"
  <2>1. Drained(t) /\ SetMem(x, v)
    BY <1>1 DEF WriteSC
  <2>2. /\ MemOK(T, Loc, Val)'
        /\ mem' = [mem EXCEPT ![x] = v]
        /\ \A u \in T : Entries(u)' = Entries(u)
    BY <2>1, SetMemEntries
  <2>3. Entries(t) = {}
    BY <2>1, DrainedEntries
  <2> QED BY <2>2, <2>3 DEF StoresAtOnce
<1>2. CASE model # "TSO"
  <2>1. TRUE \in BOOLEAN /\ Put(t, x, v, TRUE)
    BY <1>2 DEF WriteSC
  <2>2. TRUE => AddsRelease(T, Loc, Val, t, x, v)
    BY <2>1, PutRelease, Zenon
  <2> QED BY <2>2
<1> QED BY <1>1, <1>2

(* The same by position: on TSO the first entry is committed, on ARM one   *)
(* that has no other for its location before it and, if it is a release,   *)
(* the first; the entries behind it move up.                               *)
Commits(T, t, x) ==
  /\ \A u \in T : u # t => buf'[u] = buf[u]
  /\ \E i \in 1..Len(buf[t]) :
       /\ buf[t][i].loc = x
       /\ model = "TSO" \/ buf[t][i].rel => i = 1
       /\ \A j \in 1..(i - 1) : buf[t][j].loc # x
       /\ mem' = [mem EXCEPT ![x] = buf[t][i].val]
       /\ Len(buf'[t]) = Len(buf[t]) - 1
       /\ \A j \in 1..(Len(buf[t]) - 1) :
            buf'[t][j] = IF j < i THEN buf[t][j] ELSE buf[t][j + 1]

(* The place that a commit takes out of the buffer.                        *)
LEMMA CommitPosition ==
  ASSUME NEW T, NEW Loc, NEW Val, MemOK(T, Loc, Val), Weak,
         NEW t \in T, NEW x \in Loc, Commit(t, x)
  PROVE  Commits(T, t, x)
<1> DEFINE b == buf[t]
           w(i) == [j \in 1..(Len(b) - 1) |-> IF j < i THEN b[j] ELSE b[j + 1]]
<1>1. buf \in [T -> Seq(Entry(Loc, Val))] /\ b \in Seq(Entry(Loc, Val)) /\ Len(b) \in Nat
  BY DEF MemOK
<1>2. DOMAIN b = 1..Len(b)
  BY <1>1
<1>3. PICK i \in DOMAIN b :
        /\ b[i].loc = x
        /\ \A j \in 1..(i - 1) : model = "ARM" /\ b[j].loc # b[i].loc /\ ~ b[i].rel
        /\ mem' = [mem EXCEPT ![x] = b[i].val]
        /\ buf' = [buf EXCEPT ![t] = w(i)]
  <2>1. CASE model = "TSO"
    <3>1. TSO!Commit(t, x)
      BY <2>1 DEF Commit
    <3> QED BY <3>1 DEF TSO!Commit, TSO!CommitAt, TSO!Pending, TSO!Without, TSO!Ready,
               TSO!StoresReorder
  <2>2. CASE model = "ARM"
    <3>1. ARM!Commit(t, x)
      BY <2>2 DEF Commit
    <3> QED BY <2>2, <3>1 DEF ARM!Commit, ARM!CommitAt, ARM!Pending, ARM!Without, ARM!Ready
  <2> QED BY <2>1, <2>2 DEF Weak
<1>4. i \in 1..Len(b)
  BY <1>2, <1>3
<1>5. model = "TSO" \/ b[i].rel => i = 1
  <2> SUFFICES ASSUME model = "TSO" \/ b[i].rel, i # 1 PROVE FALSE
    OBVIOUS
  <2>1. 1 \in 1..(i - 1)
    BY <1>1, <1>4
  <2> QED BY <1>3, <2>1
<1>6. buf'[t] = w(i) /\ \A u \in T : u # t => buf'[u] = buf[u]
  <2> HIDE DEF b, w
  <2> QED BY <1>1, <1>3
<1>7. /\ Len(w(i)) = Len(b) - 1
      /\ \A j \in 1..(Len(b) - 1) : w(i)[j] = IF j < i THEN b[j] ELSE b[j + 1]
  <2>1. Len(b) - 1 \in Nat
    BY <1>1, <1>4
  <2>2. DOMAIN w(i) = 1..(Len(b) - 1)
    OBVIOUS
  <2>3. w(i) \in Seq({b[k] : k \in 1..Len(b)})
    <3>1. \A j \in 1..(Len(b) - 1) : j \in 1..Len(b) /\ j + 1 \in 1..Len(b)
      BY <1>1
    <3>2. w(i) \in [1..(Len(b) - 1) -> {b[k] : k \in 1..Len(b)}]
      BY <3>1
    <3> HIDE DEF w
    <3> QED BY <2>1, <3>2
  <2>4. Len(w(i)) = Len(b) - 1
    <3> HIDE DEF w
    <3> QED BY <2>1, <2>2, <2>3
  <2> QED BY <2>4
<1>8. \A j \in 1..(i - 1) : b[j].loc # x
  BY <1>3
<1>9. /\ Len(buf'[t]) = Len(b) - 1
      /\ \A j \in 1..(Len(b) - 1) : buf'[t][j] = IF j < i THEN b[j] ELSE b[j + 1]
  <2> HIDE DEF w
  <2> QED BY <1>6, <1>7, Zenon
<1> HIDE DEF w
<1> QED BY <1>3, <1>4, <1>5, <1>6, <1>8, <1>9, Zenon DEF Commits

(* The entry that joins the end of the buffer of t.                        *)
Appends(T, t, x, v, rel) ==
  /\ \A u \in T : u # t => buf'[u] = buf[u]
  /\ Len(buf'[t]) = Len(buf[t]) + 1
  /\ \A j \in 1..Len(buf[t]) : buf'[t][j] = buf[t][j]
  /\ buf'[t][Len(buf[t]) + 1].loc = x
  /\ buf'[t][Len(buf[t]) + 1].val = v
  /\ rel => buf'[t][Len(buf[t]) + 1].rel

(* A store takes the last place of the buffer.                             *)
LEMMA PutPosition ==
  ASSUME NEW T, NEW Loc, NEW Val, MemOK(T, Loc, Val), Weak,
         NEW t \in T, NEW x \in Loc, NEW v \in Val, NEW rel \in BOOLEAN,
         Put(t, x, v, rel)
  PROVE  Appends(T, t, x, v, rel)
<1> DEFINE e == [loc |-> x, val |-> v, rel |-> rel]
           b == buf[t]
<1>1. buf' = [buf EXCEPT ![t] = Append(@, e)]
  BY DEF Put, Weak, TSO!Put, ARM!Put
<1>2. buf \in [T -> Seq(Entry(Loc, Val))] /\ b \in Seq(Entry(Loc, Val)) /\ e \in Entry(Loc, Val)
  BY DEF MemOK, Entry
<1>3. buf'[t] = Append(b, e) /\ \A u \in T : u # t => buf'[u] = buf[u]
  BY <1>1, <1>2
<1>4. /\ Len(Append(b, e)) = Len(b) + 1
      /\ \A j \in 1..Len(b) : Append(b, e)[j] = b[j]
      /\ Append(b, e)[Len(b) + 1] = e
  <2> HIDE DEF b, e
  <2> QED BY <1>2
<1>5. /\ Len(buf'[t]) = Len(b) + 1
      /\ \A j \in 1..Len(b) : buf'[t][j] = b[j]
      /\ buf'[t][Len(b) + 1] = e
  <2> HIDE DEF b, e
  <2> QED BY <1>3, <1>4, Zenon
<1>6. e.loc = x /\ e.val = v /\ e.rel = rel
  BY Zenon
<1> HIDE DEF e
<1> QED BY <1>3, <1>5, <1>6, Zenon DEF Appends

(* On SC a store is in memory at once.                                     *)
LEMMA PutInMemory ==
  ASSUME NEW T, NEW Loc, NEW Val, MemOK(T, Loc, Val), model = "SC",
         NEW t, NEW x \in Loc, NEW v \in Val, NEW rel, Put(t, x, v, rel)
  PROVE  MemOK(T, Loc, Val)' /\ mem' = [mem EXCEPT ![x] = v] /\ buf' = buf
<1>1. mem' = [mem EXCEPT ![x] = v] /\ buf' = buf
  BY DEF Put, SC!Put
<1> QED BY <1>1 DEF MemOK

(* A thread with an entry for a location reads one of its entries there.   *)
LEMMA LoadOwnEntry ==
  ASSUME NEW T, NEW Loc, NEW Val, MemOK(T, Loc, Val), NEW t \in T, NEW x \in Loc,
         \E e \in Entries(t) : e.loc = x
  PROVE  \E e \in Entries(t) : e.loc = x /\ e.val = Load(t, x)
<1> DEFINE b == buf[t]
           P == {i \in DOMAIN b : b[i].loc = x}
           l == CHOOSE i \in P : \A j \in P : j <= i
<1>1. b \in Seq(Entry(Loc, Val)) /\ DOMAIN b = 1..Len(b) /\ Len(b) \in Nat
  BY DEF MemOK
<1>2. SC!Pending(t, x) = P /\ P # {}
  BY DEF SC!Pending, Entries
<1>3. \E i \in P : \A j \in P : j <= i
  BY <1>1, <1>2, LastPosition
<1>4. l \in P
  <2> HIDE DEF P
  <2> QED BY <1>3
<1>5. Load(t, x) = b[l].val
  BY <1>2 DEF Load, SC!Load
<1> HIDE DEF l
<1> QED BY <1>4, <1>5 DEF Entries

(* A load by position: the value of the newest entry for the location.     *)
Newest(b, m, x) ==
  LET P == {i \in DOMAIN b : b[i].loc = x}
  IN  IF P = {} THEN m[x] ELSE b[CHOOSE i \in P : \A j \in P : j <= i].val

(* A load, before and after a step, in terms of the buffer.                *)
LEMMA LoadIsNewest ==
  ASSUME NEW t, NEW x
  PROVE  Load(t, x) = Newest(buf[t], mem, x) /\ Load(t, x)' = Newest(buf'[t], mem', x)
  BY DEF Load, SC!Load, SC!Pending, Newest

(* Without an entry for the location a load reads memory.                  *)
LEMMA NewestNone ==
  ASSUME NEW b, NEW m, NEW x, NEW n \in Nat, DOMAIN b = 1..n,
         \A i \in 1..n : b[i].loc # x
  PROVE  Newest(b, m, x) = m[x]
  BY DEF Newest

(* A load reads the last entry for the location.                           *)
LEMMA NewestAt ==
  ASSUME NEW b, NEW m, NEW x, NEW n \in Nat, DOMAIN b = 1..n,
         NEW i \in 1..n, b[i].loc = x, \A j \in 1..n : b[j].loc = x => j <= i
  PROVE  Newest(b, m, x) = b[i].val
<1> DEFINE P == {k \in DOMAIN b : b[k].loc = x}
           l == CHOOSE k \in P : \A j \in P : j <= k
<1>1. i \in P /\ \A j \in P : j <= i
  OBVIOUS
<1>2. l \in P /\ \A j \in P : j <= l
  <2> HIDE DEF P
  <2> QED BY <1>1
<1>3. l = i
  <2>1. l \in 1..n /\ l <= i /\ i <= l
    <3> HIDE DEF l
    <3> QED BY <1>1, <1>2
  <2> HIDE DEF l
  <2> QED BY <2>1
<1>4. Newest(b, m, x) = b[l].val
  <2> HIDE DEF l
  <2>1. P # {}
    BY <1>1
  <2> QED BY <2>1 DEF Newest, l
<1> HIDE DEF l
<1> QED BY <1>3, <1>4

(* There is no entry for the location, or a last one.                      *)
LEMMA NewestCases ==
  ASSUME NEW b, NEW x, NEW n \in Nat, DOMAIN b = 1..n
  PROVE  \/ \A i \in 1..n : b[i].loc # x
         \/ \E i \in 1..n : b[i].loc = x /\ \A j \in 1..n : b[j].loc = x => j <= i
<1> DEFINE P == {i \in 1..n : b[i].loc = x}
<1>1. CASE P = {}
  BY <1>1
<1>2. CASE P # {}
  <2>1. \E i \in P : \A j \in P : j <= i
    <3>1. P \in SUBSET (1..n)
      OBVIOUS
    <3> HIDE DEF P
    <3> QED BY <1>2, <3>1, LastPosition
  <2> QED BY <2>1
<1> QED BY <1>1, <1>2

(* A thread reads the store it has just made, and the other locations as   *)
(* before.                                                                 *)
ReadsBack(Loc, t, x, v) ==
  /\ Load(t, x)' = v
  /\ \A y \in Loc : y # x => Load(t, y)' = Load(t, y)

(* A thread reads back what it stores.                                     *)
LEMMA LoadAfterPut ==
  ASSUME NEW T, NEW Loc, NEW Val, MemOK(T, Loc, Val), Weak,
         NEW t \in T, NEW x \in Loc, NEW v \in Val, NEW rel \in BOOLEAN,
         Put(t, x, v, rel)
  PROVE  ReadsBack(Loc, t, x, v)
<1> DEFINE b == buf[t]
           c == buf'[t]
           n == Len(buf[t])
<1>1. Appends(T, t, x, v, rel)
  BY PutPosition, Zenon
<1>2. MemOK(T, Loc, Val)' /\ mem' = mem
  BY PutEntries
<1>3. /\ n \in Nat /\ DOMAIN b = 1..n /\ DOMAIN c = 1..(n + 1)
      /\ \A j \in 1..n : c[j] = b[j]
      /\ c[n + 1].loc = x /\ c[n + 1].val = v
  <2>1. b \in Seq(Entry(Loc, Val)) /\ c \in Seq(Entry(Loc, Val))
    BY <1>2 DEF MemOK
  <2>2. Len(c) = n + 1
    BY <1>1 DEF Appends
  <2> QED BY <1>1, <2>1, <2>2 DEF Appends
<1>4. /\ \A y : Load(t, y) = Newest(b, mem, y) /\ Load(t, y)' = Newest(c, mem', y)
  BY LoadIsNewest
<1> HIDE DEF b, c, n
<1>5. Load(t, x)' = v
  <2>1. n + 1 \in Nat /\ n + 1 \in 1..(n + 1) /\ \A j \in 1..(n + 1) : c[j].loc = x => j <= n + 1
    BY <1>3
  <2>2. Newest(c, mem', x) = c[n + 1].val
    BY <1>3, <2>1, NewestAt
  <2> QED BY <1>3, <1>4, <2>2
<1>6. ASSUME NEW y \in Loc, y # x
      PROVE  Load(t, y)' = Load(t, y)
  <2>1. CASE \A i \in 1..n : b[i].loc # y
    <3>1. Newest(b, mem, y) = mem[y]
      BY <1>3, <2>1, NewestNone
    <3>2. n + 1 \in Nat /\ \A i \in 1..(n + 1) : c[i].loc # y
      <4>1. \A i \in 1..(n + 1) : i \in 1..n \/ i = n + 1
        BY <1>3
      <4> QED BY <1>3, <1>6, <2>1, <4>1
    <3>3. Newest(c, mem', y) = mem'[y]
      BY <1>3, <3>2, NewestNone
    <3> QED BY <1>2, <1>4, <3>1, <3>3
  <2>2. CASE \E i \in 1..n : b[i].loc = y /\ \A j \in 1..n : b[j].loc = y => j <= i
    <3>1. PICK i \in 1..n : b[i].loc = y /\ \A j \in 1..n : b[j].loc = y => j <= i
      BY <2>2
    <3>2. Newest(b, mem, y) = b[i].val
      BY <1>3, <3>1, NewestAt
    <3>3. /\ n + 1 \in Nat /\ i \in 1..(n + 1) /\ c[i].loc = y
          /\ \A j \in 1..(n + 1) : c[j].loc = y => j <= i
      <4>1. \A j \in 1..(n + 1) : j \in 1..n \/ j = n + 1
        BY <1>3
      <4> QED BY <1>3, <1>6, <3>1, <4>1
    <3>4. Newest(c, mem', y) = c[i].val
      BY <1>3, <3>3, NewestAt
    <3> QED BY <1>3, <1>4, <3>1, <3>2, <3>4
  <2>3. n \in Nat /\ DOMAIN b = 1..n
    BY <1>3
  <2>4. \/ \A i \in 1..n : b[i].loc # y
        \/ \E i \in 1..n : b[i].loc = y /\ \A j \in 1..n : b[j].loc = y => j <= i
    BY <2>3, NewestCases
  <2> QED BY <2>1, <2>2, <2>4, Zenon
<1> QED BY <1>5, <1>6 DEF ReadsBack

(* A thread does not notice when its own stores become visible.            *)
LEMMA LoadAfterCommit ==
  ASSUME NEW T, NEW Loc, NEW Val, MemOK(T, Loc, Val), Weak,
         NEW t \in T, NEW x \in Loc, Commit(t, x)
  PROVE  \A y \in Loc : Load(t, y)' = Load(t, y)
<1> DEFINE b == buf[t]
           c == buf'[t]
           n == Len(buf[t])
<1>1. Commits(T, t, x)
  BY CommitPosition, Zenon
<1>2. MemOK(T, Loc, Val)'
  BY CommitEntries
<1>3. PICK i \in 1..n :
        /\ b[i].loc = x
        /\ \A j \in 1..(i - 1) : b[j].loc # x
        /\ mem' = [mem EXCEPT ![x] = b[i].val]
        /\ Len(c) = n - 1
        /\ \A j \in 1..(n - 1) : c[j] = IF j < i THEN b[j] ELSE b[j + 1]
  BY <1>1, Zenon DEF Commits
<1>4. /\ n \in Nat /\ n - 1 \in Nat /\ DOMAIN b = 1..n /\ DOMAIN c = 1..(n - 1)
      /\ mem \in [Loc -> Val]
  <2>1. b \in Seq(Entry(Loc, Val)) /\ c \in Seq(Entry(Loc, Val)) /\ mem \in [Loc -> Val]
    BY <1>2 DEF MemOK
  <2>2. n \in Nat /\ n - 1 \in Nat
    BY <2>1
  <2> QED BY <1>3, <2>1, <2>2
<1>5. \A y : Load(t, y) = Newest(b, mem, y) /\ Load(t, y)' = Newest(c, mem', y)
  BY LoadIsNewest
<1> HIDE DEF b, c, n
(* Where the entries that stay have gone.                                  *)
<1>6. ASSUME NEW k \in 1..n, k # i
      PROVE  \E j \in 1..(n - 1) : c[j] = b[k] /\ (j = IF k < i THEN k ELSE k - 1)
  <2>1. CASE k < i
    <3>1. k \in 1..(n - 1)
      BY <1>4, <2>1
    <3> QED BY <1>3, <2>1, <3>1
  <2>2. CASE ~ (k < i)
    <3>1. k - 1 \in 1..(n - 1) /\ ~ (k - 1 < i) /\ k - 1 + 1 = k
      BY <1>4, <1>6, <2>2
    <3> QED BY <1>3, <2>2, <3>1
  <2> QED BY <2>1, <2>2
<1>7. ASSUME NEW j \in 1..(n - 1)
      PROVE  \E k \in 1..n : k # i /\ c[j] = b[k] /\ (k = IF j < i THEN j ELSE j + 1)
  <2>1. j \in 1..n /\ j + 1 \in 1..n
    BY <1>4
  <2> QED BY <1>3, <1>4, <2>1
<1>8. SUFFICES ASSUME NEW y \in Loc PROVE Newest(c, mem', y) = Newest(b, mem, y)
  BY <1>5
<1>9. CASE \A k \in 1..n : b[k].loc # y
  <2>1. \A j \in 1..(n - 1) : c[j].loc # y
    BY <1>7, <1>9
  <2>2. Newest(b, mem, y) = mem[y] /\ Newest(c, mem', y) = mem'[y]
    BY <1>4, <1>9, <2>1, NewestNone
  <2>3. y # x
    BY <1>3, <1>9
  <2> QED BY <1>3, <1>4, <2>2, <2>3
<1>10. CASE \E k \in 1..n : b[k].loc = y /\ \A j \in 1..n : b[j].loc = y => j <= k
  <2>1. PICK k \in 1..n : b[k].loc = y /\ \A j \in 1..n : b[j].loc = y => j <= k
    BY <1>10
  <2>2. Newest(b, mem, y) = b[k].val
    BY <1>4, <2>1, NewestAt
  <2>3. CASE k # i
    <3>1. PICK j \in 1..(n - 1) : c[j] = b[k] /\ (j = IF k < i THEN k ELSE k - 1)
      BY <1>6, <2>3
    <3>2. ASSUME NEW h \in 1..(n - 1), c[h].loc = y PROVE h <= j
      <4>1. PICK g \in 1..n : g # i /\ c[h] = b[g] /\ (g = IF h < i THEN h ELSE h + 1)
        BY <1>7
      <4>2. g <= k
        BY <2>1, <3>2, <4>1
      <4> QED BY <1>4, <2>3, <3>1, <4>1, <4>2
    <3>3. Newest(c, mem', y) = c[j].val
      BY <1>4, <2>1, <3>1, <3>2, NewestAt
    <3> QED BY <2>2, <3>1, <3>3
  <2>4. CASE k = i
    <3>1. y = x /\ mem'[y] = b[i].val
      BY <1>3, <1>4, <2>1, <2>4
    <3>2. ASSUME NEW h \in 1..(n - 1) PROVE c[h].loc # y
      <4>1. PICK g \in 1..n : g # i /\ c[h] = b[g]
        BY <1>7
      <4>2. b[g].loc # y
        <5>1. CASE g < i
          <6>1. g \in 1..(i - 1)
            BY <1>4, <5>1
          <6> QED BY <1>3, <3>1, <6>1
        <5>2. CASE ~ (g < i)
          BY <1>4, <2>1, <2>4, <4>1, <5>2
        <5> QED BY <5>1, <5>2
      <4> QED BY <4>1, <4>2
    <3>3. Newest(c, mem', y) = mem'[y]
      BY <1>4, <3>2, NewestNone
    <3> QED BY <2>2, <2>4, <3>1, <3>3
  <2> QED BY <2>3, <2>4
<1> QED BY <1>4, <1>9, <1>10, NewestCases
-----------------------------------------------------------------------------
(* Words that only grow.  Stores of t to the words of L raise them, in the *)
(* order of the buffer.                                                    *)
Rising(t, L) ==
  \A i \in 1..Len(buf[t]) : buf[t][i].loc \in L =>
    /\ mem[buf[t][i].loc] <= buf[t][i].val
    /\ \A j \in 1..(i - 1) :
         buf[t][j].loc = buf[t][i].loc => buf[t][j].val <= buf[t][i].val

(* x has reached v in memory, or will have when place i is committed.      *)
Reached(t, x, v, i) ==
  mem[x] >= v \/ \E j \in 1..(i - 1) : buf[t][j].loc = x /\ buf[t][j].val >= v

(* What the thread reads of such a word is the highest value it has stored *)
LEMMA RisingLoad ==
  ASSUME NEW T, NEW Loc, NEW Val, MemOK(T, Loc, Val), Val \subseteq Int,
         NEW t \in T, NEW L \in SUBSET Loc, NEW x \in L, Rising(t, L)
  PROVE  /\ Load(t, x) \in Val /\ mem[x] \in Val /\ mem[x] <= Load(t, x)
         /\ \A i \in 1..Len(buf[t]) : buf[t][i].loc = x => buf[t][i].val <= Load(t, x)
         /\ \A v \in Int : Load(t, x) >= v => Reached(t, x, v, Len(buf[t]) + 1)
<1> DEFINE b == buf[t]
           n == Len(buf[t])
<1>1. mem \in [Loc -> Val] /\ b \in Seq(Entry(Loc, Val)) /\ n = Len(b) /\ x \in Loc
  BY DEF MemOK
<1>2. Load(t, x) = Newest(b, mem, x) /\ Load(t, x) \in Val
  BY <1>1, LoadIsNewest, LoadEntries
<1>3. \A i \in 1..n : b[i].loc = x =>
        /\ mem[x] <= b[i].val
        /\ \A j \in 1..(i - 1) : b[j].loc = x => b[j].val <= b[i].val
  BY DEF Rising
<1>4. Reached(t, x, Load(t, x), n + 1) <=>
        \/ mem[x] >= Load(t, x)
        \/ \E j \in 1..(n + 1 - 1) : b[j].loc = x /\ b[j].val >= Load(t, x)
  BY DEF Reached
<1> HIDE DEF b, n
<1>5. /\ n \in Nat /\ DOMAIN b = 1..n /\ n + 1 - 1 = n
      /\ \A i \in 1..n : b[i] \in Entry(Loc, Val)
  BY <1>1
<1>6. \A i \in 1..n : b[i].val \in Int
  BY <1>5 DEF Entry
<1>7. mem[x] \in Val /\ mem[x] \in Int /\ Load(t, x) \in Int
  BY <1>1, <1>2
<1>8. /\ mem[x] <= Load(t, x)
      /\ \A i \in 1..n : b[i].loc = x => b[i].val <= Load(t, x)
      /\ mem[x] = Load(t, x) \/ \E i \in 1..n : b[i].loc = x /\ b[i].val = Load(t, x)
  <2>1. CASE \A i \in 1..n : b[i].loc # x
    BY <1>2, <1>5, <1>7, <2>1, NewestNone
  <2>2. CASE \E i \in 1..n : b[i].loc = x /\ \A j \in 1..n : b[j].loc = x => j <= i
    <3>1. PICK i \in 1..n : b[i].loc = x /\ \A j \in 1..n : b[j].loc = x => j <= i
      BY <2>2
    <3>2. Load(t, x) = b[i].val
      BY <1>2, <1>5, <3>1, NewestAt
    <3>3. ASSUME NEW j \in 1..n, b[j].loc = x PROVE b[j].val <= b[i].val
      <4>1. j = i \/ j \in 1..(i - 1)
        BY <1>5, <3>1, <3>3
      <4> QED BY <1>3, <1>6, <3>1, <3>3, <4>1
    <3> QED BY <1>3, <3>1, <3>2, <3>3
  <2>3. \/ \A i \in 1..n : b[i].loc # x
        \/ \E i \in 1..n : b[i].loc = x /\ \A j \in 1..n : b[j].loc = x => j <= i
    BY <1>5, NewestCases
  <2> QED BY <2>1, <2>2, <2>3, Zenon
<1>9. ASSUME NEW v \in Int, Load(t, x) >= v
      PROVE  mem[x] >= v \/ \E i \in 1..n : b[i].loc = x /\ b[i].val >= v
  BY <1>7, <1>8, <1>9
<1>10. \A v \in Int : Load(t, x) >= v => Reached(t, x, v, n + 1)
  BY <1>5, <1>9 DEF Reached, b
<1> QED BY <1>2, <1>7, <1>8, <1>10 DEF b, n

(* A store that does not lower its word keeps the order.                   *)
LEMMA RisingPut ==
  ASSUME NEW T, NEW Loc, NEW Val, MemOK(T, Loc, Val), Val \subseteq Int,
         NEW t \in T, NEW L \in SUBSET Loc, Rising(t, L),
         NEW x \in Loc, NEW v \in Val, NEW rel, mem' = mem, Appends(T, t, x, v, rel),
         x \in L => Load(t, x) <= v
  PROVE  /\ Rising(t, L)'
         /\ \A y, w : \A i \in 1..(Len(buf[t]) + 1) :
              Reached(t, y, w, i) => Reached(t, y, w, i)'
<1> DEFINE b == buf[t]
           c == buf'[t]
           n == Len(buf[t])
<1>1. b \in Seq(Entry(Loc, Val)) /\ n = Len(b) /\ v \in Int
  BY DEF MemOK
<1>2. /\ Len(c) = n + 1 /\ \A j \in 1..n : c[j] = b[j]
      /\ c[n + 1].loc = x /\ c[n + 1].val = v
  BY DEF Appends
<1>3. \A i \in 1..n : b[i].loc \in L =>
        /\ mem[b[i].loc] <= b[i].val
        /\ \A j \in 1..(i - 1) : b[j].loc = b[i].loc => b[j].val <= b[i].val
  BY DEF Rising
<1>4. ASSUME x \in L
      PROVE  /\ mem[x] \in Int /\ Load(t, x) \in Int /\ mem[x] <= Load(t, x)
             /\ \A i \in 1..n : b[i].loc = x => b[i].val <= Load(t, x)
  BY <1>4, RisingLoad
<1>5. n \in Nat /\ \A i \in 1..n : b[i].val \in Int
  <2> HIDE DEF b, n
  <2>1. n \in Nat /\ \A i \in 1..n : b[i] \in Entry(Loc, Val)
    BY <1>1
  <2> QED BY <2>1 DEF Entry
<1>6. Rising(t, L)'
  <2> SUFFICES ASSUME NEW i \in 1..(n + 1), c[i].loc \in L
               PROVE  /\ mem[c[i].loc] <= c[i].val
                      /\ \A j \in 1..(i - 1) : c[j].loc = c[i].loc => c[j].val <= c[i].val
    BY <1>2 DEF Rising
  <2> HIDE DEF b, c, n
  <2>1. \A j \in 1..(i - 1) : j \in 1..n
    BY <1>5
  <2>2. CASE i \in 1..n
    BY <1>2, <1>3, <2>1, <2>2
  <2>3. CASE i = n + 1
    BY <1>1, <1>2, <1>4, <1>5, <2>1, <2>3
  <2>4. i \in 1..n \/ i = n + 1
    BY <1>5
  <2> QED BY <2>2, <2>3, <2>4
<1>7. ASSUME NEW y, NEW w, NEW i \in 1..(n + 1), Reached(t, y, w, i) PROVE Reached(t, y, w, i)'
  <2>1. \A j \in 1..(i - 1) : j \in 1..n
    <3> HIDE DEF n
    <3> QED BY <1>5
  <2> QED BY <1>2, <1>7, <2>1 DEF Reached
<1> QED BY <1>6, <1>7

(* A commit raises such a word, and keeps the order of what is left; when  *)
(* it is the first entry, the others move up by one place.                 *)
LEMMA RisingCommit ==
  ASSUME NEW T, NEW Loc, NEW Val, MemOK(T, Loc, Val), Val \subseteq Int, Weak,
         NEW t \in T, NEW L \in SUBSET Loc, Rising(t, L),
         NEW x \in Loc, Commit(t, x)
  PROVE  /\ Rising(t, L)'
         /\ \A y \in L : mem[y] <= mem'[y] /\ mem[y] \in Int /\ mem'[y] \in Int
         /\ model = "TSO" =>
              \A y \in L, w \in Int : \A i \in 1..Len(buf[t]) :
                Reached(t, y, w, i + 1) => Reached(t, y, w, i)'
<1> DEFINE b == buf[t]
           c == buf'[t]
           n == Len(buf[t])
<1>1. Commits(T, t, x)
  BY CommitPosition, Zenon
<1>2. PICK p \in 1..n :
        /\ b[p].loc = x
        /\ model = "TSO" => p = 1
        /\ \A j \in 1..(p - 1) : b[j].loc # x
        /\ mem' = [mem EXCEPT ![x] = b[p].val]
        /\ Len(c) = n - 1
        /\ \A j \in 1..(n - 1) : c[j] = IF j < p THEN b[j] ELSE b[j + 1]
  BY <1>1, Zenon DEF Commits
<1>3. mem \in [Loc -> Val] /\ b \in Seq(Entry(Loc, Val)) /\ n = Len(b)
  BY DEF MemOK
<1>4. \A i \in 1..n : b[i].loc \in L =>
        /\ mem[b[i].loc] <= b[i].val
        /\ \A j \in 1..(i - 1) : b[j].loc = b[i].loc => b[j].val <= b[i].val
  BY DEF Rising
<1>5. n \in Nat /\ \A i \in 1..n : b[i].val \in Int /\ b[i].val \in Val
  <2> HIDE DEF b, n
  <2>1. n \in Nat /\ \A i \in 1..n : b[i] \in Entry(Loc, Val)
    BY <1>3
  <2> QED BY <2>1 DEF Entry
<1>6. \A y \in Loc : mem[y] \in Int /\ mem'[y] \in Int
  BY <1>2, <1>3, <1>5
<1>7. \A y \in L : mem[y] <= mem'[y]
  BY <1>2, <1>3, <1>4, <1>5, <1>6
<1>8. Rising(t, L)'
  <2> SUFFICES ASSUME NEW h \in 1..(n - 1), c[h].loc \in L
               PROVE  /\ mem'[c[h].loc] <= c[h].val
                      /\ \A j \in 1..(h - 1) : c[j].loc = c[h].loc => c[j].val <= c[h].val
    BY <1>2 DEF Rising
  <2> HIDE DEF b, c, n
  <2>1. PICK g \in 1..n : /\ g # p /\ c[h] = b[g]
                          /\ g = IF h < p THEN h ELSE h + 1
    <3>1. h \in 1..n /\ h + 1 \in 1..n
      BY <1>5
    <3> QED BY <1>2, <3>1
  <2>2. mem'[b[g].loc] <= b[g].val
    <3>1. CASE x = b[g].loc
      <4>1. g \notin 1..(p - 1)
        BY <1>2, <3>1
      <4>2. p \in 1..(g - 1)
        BY <1>5, <2>1, <4>1
      <4>3. b[p].val <= b[g].val
        BY <1>2, <1>4, <2>1, <3>1, <4>2
      <4> QED BY <1>2, <1>3, <2>1, <3>1, <4>3
    <3>2. CASE x # b[g].loc
      BY <1>2, <1>3, <1>4, <2>1, <3>2
    <3> QED BY <3>1, <3>2
  <2>3. ASSUME NEW j \in 1..(h - 1), c[j].loc = c[h].loc
        PROVE  c[j].val <= c[h].val
    <3>1. j \in 1..(n - 1) /\ j \in 1..n /\ j + 1 \in 1..n
      BY <1>5
    <3>2. PICK f \in 1..n : c[j] = b[f] /\ f = IF j < p THEN j ELSE j + 1
      BY <1>2, <3>1
    <3>3. f \in 1..(g - 1)
      BY <1>5, <2>1, <3>2
    <3> QED BY <1>4, <2>1, <2>3, <3>2, <3>3
  <2> QED BY <2>1, <2>2, <2>3
<1>9. ASSUME model = "TSO", NEW y \in L, NEW w \in Int, NEW i \in 1..n, Reached(t, y, w, i + 1)
      PROVE  Reached(t, y, w, i)'
  <2>1. p = 1 /\ \A j \in 1..(n - 1) : c[j] = b[j + 1]
    BY <1>2, <1>9
  <2>2. \/ mem[y] >= w
        \/ \E j \in 1..(i + 1 - 1) : b[j].loc = y /\ b[j].val >= w
    BY <1>9 DEF Reached
  <2>3. \/ mem'[y] >= w
        \/ \E j \in 1..(i - 1) : c[j].loc = y /\ c[j].val >= w
    <3> HIDE DEF b, c, n
    <3>1. CASE mem[y] >= w
      BY <1>6, <1>7, <3>1
    <3>2. CASE \E j \in 1..(i + 1 - 1) : b[j].loc = y /\ b[j].val >= w
      <4>1. PICK j \in 1..(i + 1 - 1) : b[j].loc = y /\ b[j].val >= w
        BY <3>2
      <4>2. CASE j = 1
        BY <1>2, <1>3, <2>1, <4>1, <4>2
      <4>3. CASE j # 1
        <5>1. j - 1 \in 1..(n - 1) /\ j - 1 \in 1..(i - 1) /\ j - 1 + 1 = j
          BY <1>5, <4>3
        <5> QED BY <2>1, <4>1, <5>1
      <4> QED BY <4>2, <4>3
    <3> QED BY <2>2, <3>1, <3>2
  <2> QED BY <2>3 DEF Reached
<1> QED BY <1>6, <1>7, <1>8, <1>9
(* On TSO it is the first entry that is committed.                         *)
CommitsFirst(T, t, x) ==
  /\ \A u \in T : u # t => buf'[u] = buf[u]
  /\ Len(buf[t]) \in Nat \ {0}
  /\ buf[t][1].loc = x
  /\ mem' = [mem EXCEPT ![x] = buf[t][1].val]
  /\ Len(buf'[t]) = Len(buf[t]) - 1
  /\ \A j \in 1..(Len(buf[t]) - 1) : buf'[t][j] = buf[t][j + 1]

(* On TSO a commit takes the first entry.                                  *)
LEMMA CommitFirst ==
  ASSUME NEW T, NEW Loc, NEW Val, MemOK(T, Loc, Val), model = "TSO",
         NEW t \in T, NEW x \in Loc, Commit(t, x)
  PROVE  CommitsFirst(T, t, x)
<1>1. Commits(T, t, x)
  <2>1. Weak
    BY DEF Weak
  <2> QED BY <2>1, CommitPosition, Zenon
<1>2. PICK i \in 1..Len(buf[t]) :
        /\ buf[t][i].loc = x /\ i = 1
        /\ mem' = [mem EXCEPT ![x] = buf[t][i].val]
        /\ Len(buf'[t]) = Len(buf[t]) - 1
        /\ \A j \in 1..(Len(buf[t]) - 1) :
             buf'[t][j] = IF j < i THEN buf[t][j] ELSE buf[t][j + 1]
  BY <1>1, Zenon DEF Commits
<1>3. Len(buf[t]) \in Nat
  <2>1. buf[t] \in Seq(Entry(Loc, Val))
    BY DEF MemOK
  <2> QED BY <2>1
<1>4. \A j \in 1..(Len(buf[t]) - 1) : ~ (j < 1)
  BY <1>3
<1> QED BY <1>1, <1>2, <1>3, <1>4 DEF Commits, CommitsFirst

(* x reaches v before the word w, which t writes, has a value of S.        *)
Ahead(t, w, S, x, v) ==
  /\ mem[w] \in S => mem[x] >= v
  /\ \A i \in 1..Len(buf[t]) :
       buf[t][i].loc = w /\ buf[t][i].val \in S => Reached(t, x, v, i)

(* Who reads such a value of w reads v or more in x afterwards.            *)
LEMMA AheadLoad ==
  ASSUME NEW T, NEW Loc, NEW Val, MemOK(T, Loc, Val), Val \subseteq Int,
         NEW t \in T, NEW L \in SUBSET Loc, Rising(t, L),
         NEW w \in Loc, NEW S, NEW x \in L, NEW v \in Int,
         Ahead(t, w, S, x, v), Load(t, w) \in S
  PROVE  Load(t, x) >= v
<1>1. /\ Load(t, x) \in Int /\ mem[x] \in Int /\ mem[x] <= Load(t, x)
      /\ \A i \in 1..Len(buf[t]) : buf[t][i].loc = x => buf[t][i].val <= Load(t, x)
  BY RisingLoad
<1>2. /\ \/ Load(t, w) = mem[w]
         \/ \E e \in Entries(t) : e.loc = w /\ e.val = Load(t, w)
  BY LoadEntries
<1>3. buf[t] \in Seq(Entry(Loc, Val))
  BY DEF MemOK
<1>4. PICK n \in Nat : n = Len(buf[t]) /\ DOMAIN buf[t] = 1..n
  BY <1>3
<1>5. \A i \in 1..n : buf[t][i].val \in Int
  <2>1. \A i \in 1..n : buf[t][i] \in Entry(Loc, Val)
    BY <1>3, <1>4
  <2> QED BY <2>1 DEF Entry
<1>6. CASE Load(t, w) = mem[w]
  BY <1>1, <1>6 DEF Ahead
<1>7. CASE \E e \in Entries(t) : e.loc = w /\ e.val = Load(t, w)
  <2>1. PICK i \in 1..n : buf[t][i].loc = w /\ buf[t][i].val = Load(t, w)
    BY <1>4, <1>7 DEF Entries
  <2>2. Reached(t, x, v, i)
    BY <1>4, <2>1 DEF Ahead
  <2>3. \A j \in 1..(i - 1) : j \in 1..n
    OBVIOUS
  <2> QED BY <1>1, <1>4, <1>5, <2>2, <2>3 DEF Reached
<1> QED BY <1>2, <1>6, <1>7

(* A store keeps x ahead, when one to w of such a value is made only by a  *)
(* thread that has x so far.                                               *)
LEMMA AheadPut ==
  ASSUME NEW T, NEW Loc, NEW Val, MemOK(T, Loc, Val), Val \subseteq Int,
         NEW t \in T, NEW L \in SUBSET Loc, Rising(t, L),
         NEW z \in Loc, NEW u \in Val, NEW rel, mem' = mem, Appends(T, t, z, u, rel),
         z \in L => Load(t, z) <= u,
         NEW w \in Loc, NEW S, NEW x \in L, NEW v \in Int, Ahead(t, w, S, x, v),
         z = w /\ u \in S => Load(t, x) >= v
  PROVE  Ahead(t, w, S, x, v)'
<1>1. \A i \in 1..(Len(buf[t]) + 1) : Reached(t, x, v, i) => Reached(t, x, v, i)'
  BY RisingPut
<1>2. z = w /\ u \in S => Reached(t, x, v, Len(buf[t]) + 1)
  BY RisingLoad
<1>3. PICK n \in Nat : n = Len(buf[t])
  <2>1. buf[t] \in Seq(Entry(Loc, Val))
    BY DEF MemOK
  <2> QED BY <2>1
<1>4. /\ Len(buf'[t]) = n + 1 /\ \A j \in 1..n : buf'[t][j] = buf[t][j]
      /\ buf'[t][n + 1].loc = z /\ buf'[t][n + 1].val = u
  BY <1>3 DEF Appends
<1>5. ASSUME NEW i \in 1..(n + 1), buf'[t][i].loc = w, buf'[t][i].val \in S
      PROVE  Reached(t, x, v, i)'
  <2>1. CASE i \in 1..n
    <3>1. Reached(t, x, v, i)
      BY <1>3, <1>4, <1>5, <2>1 DEF Ahead
    <3> QED BY <1>1, <1>3, <3>1
  <2>2. CASE i = n + 1
    <3>1. Reached(t, x, v, i)
      BY <1>2, <1>3, <1>4, <1>5, <2>2
    <3> QED BY <1>1, <1>3, <3>1
  <2> QED BY <2>1, <2>2
<1> QED BY <1>4, <1>5 DEF Ahead

(* A commit keeps x ahead.                                                 *)
LEMMA AheadCommit ==
  ASSUME NEW T, NEW Loc, NEW Val, MemOK(T, Loc, Val), Val \subseteq Int, model = "TSO",
         NEW t \in T, NEW L \in SUBSET Loc, Rising(t, L),
         NEW z \in Loc, Commit(t, z),
         NEW w \in Loc, NEW S, NEW x \in L, NEW v \in Int, Ahead(t, w, S, x, v)
  PROVE  Ahead(t, w, S, x, v)'
<1>1. Weak
  BY DEF Weak
<1>2. /\ mem[x] <= mem'[x] /\ mem[x] \in Int /\ mem'[x] \in Int
      /\ \A i \in 1..Len(buf[t]) : Reached(t, x, v, i + 1) => Reached(t, x, v, i)'
  BY <1>1, RisingCommit
<1>3. CommitsFirst(T, t, z)
  BY CommitFirst, Zenon
<1>4. PICK n \in Nat \ {0} : n = Len(buf[t])
  BY <1>3 DEF CommitsFirst
<1>5. /\ Len(buf'[t]) = n - 1 /\ \A j \in 1..(n - 1) : buf'[t][j] = buf[t][j + 1]
      /\ buf[t][1].loc = z /\ mem' = [mem EXCEPT ![z] = buf[t][1].val]
  BY <1>3, <1>4 DEF CommitsFirst
<1>6. mem'[w] \in S => mem'[x] >= v
  <2>1. CASE z = w
    <3>1. 1 \in 1..n
      BY <1>4
    <3>2. mem'[w] = buf[t][1].val
      BY <1>5, <2>1 DEF MemOK
    <3>3. mem'[w] \in S => Reached(t, x, v, 1)
      BY <1>4, <1>5, <2>1, <3>1, <3>2 DEF Ahead
    <3>4. Reached(t, x, v, 1) => mem[x] >= v
      BY DEF Reached
    <3> QED BY <1>2, <3>3, <3>4
  <2>2. CASE z # w
    <3>1. mem'[w] = mem[w]
      BY <1>5, <2>2 DEF MemOK
    <3> QED BY <1>2, <3>1 DEF Ahead
  <2> QED BY <2>1, <2>2
<1>7. ASSUME NEW i \in 1..(n - 1), buf'[t][i].loc = w, buf'[t][i].val \in S
      PROVE  Reached(t, x, v, i)'
  <2>1. i + 1 \in 1..n /\ i \in 1..n
    OBVIOUS
  <2>2. Reached(t, x, v, i + 1)
    BY <1>4, <1>5, <1>7, <2>1 DEF Ahead
  <2> QED BY <1>2, <1>4, <2>1, <2>2
<1> QED BY <1>5, <1>6, <1>7 DEF Ahead
=============================================================================
