---------------------------- MODULE StoreBuffers ----------------------------
(***************************************************************************)
(* The memory every program of the benchmark runs on.                      *)
(*                                                                         *)
(* The repository evaluates each program under several memory models: the  *)
(* tools are called with --sc, --mm tso, --mm pso, --pso and the hardware  *)
(* runs are on ARM.  None of those memories is code of the repository, so  *)
(* this module is external to it; it is the usual operational account of   *)
(* them.  A thread's plain store enters its own store buffer and becomes   *)
(* visible to the others when it is committed to memory:                   *)
(*                                                                         *)
(*   "SC"   a store reaches memory in the step that executes it;           *)
(*   "TSO"  one FIFO buffer per thread;                                    *)
(*   "PSO"  stores to different locations commit in any order;             *)
(*   "ARM"  PSO, and in addition a program may perform independent loads   *)
(*          in either order (see LoadsReorder, used by the programs).      *)
(*                                                                         *)
(* A release store waits for every store its thread made before it.  A     *)
(* read-modify-write acts on memory in one step; it waits for its thread's *)
(* own stores to the same location, and on TSO (a locked instruction) for  *)
(* all of them.  It orders nothing else unless it is a release operation.  *)
(***************************************************************************)
EXTENDS Naturals, Sequences

CONSTANT Model

Models == {"SC", "TSO", "PSO", "ARM"}

ASSUME ModelAssumption == Model \in Models

VARIABLES
  mem,      \* mem[x]: the value of location x that every thread can see
  buf       \* buf[t]: the stores of thread t not yet in memory, oldest first

StoresReorder == Model \in {"PSO", "ARM"}
LoadsReorder  == Model = "ARM"

Entries(Loc, Val) == [loc : Loc, val : Val, rel : BOOLEAN]

MemTypeOK(Thread, Loc, Val) ==
  /\ mem \in [Loc -> Val]
  /\ buf \in [Thread -> Seq(Entries(Loc, Val))]

-----------------------------------------------------------------------------
Pending(t, x) == {i \in DOMAIN buf[t] : buf[t][i].loc = x}

Has(t, x) == Pending(t, x) # {}

Drained(t) == buf[t] = << >>

(* The value thread t reads from x: its own newest buffered store to x, and *)
(* memory when it has none.                                                 *)
Load(t, x) ==
  IF Pending(t, x) = {} THEN mem[x]
  ELSE buf[t][CHOOSE i \in Pending(t, x) :
                \A j \in Pending(t, x) : j <= i].val

Put(t, x, v, rel) ==
  IF Model = "SC"
  THEN mem' = [mem EXCEPT ![x] = v] /\ UNCHANGED buf
  ELSE /\ buf' = [buf EXCEPT ![t] = Append(@, [loc |-> x, val |-> v, rel |-> rel])]
       /\ UNCHANGED mem

Store(t, x, v)        == Put(t, x, v, FALSE)
StoreRelease(t, x, v) == Put(t, x, v, TRUE)

(* May the i-th store of buffer b become visible before the ones ahead?     *)
Ready(b, i) ==
  \A j \in 1..(i - 1) : /\ StoresReorder
                        /\ b[j].loc # b[i].loc
                        /\ ~ b[i].rel

Without(b, i) == [j \in 1..(Len(b) - 1) |-> IF j < i THEN b[j] ELSE b[j + 1]]

CommitAt(t, i) ==
  /\ Ready(buf[t], i)
  /\ mem' = [mem EXCEPT ![buf[t][i].loc] = buf[t][i].val]
  /\ buf' = [buf EXCEPT ![t] = Without(@, i)]

(* The oldest store of thread t to x becomes visible.                       *)
Commit(t, x) == \E i \in Pending(t, x) : CommitAt(t, i)

(* When may thread t perform a read-modify-write on x, acquire only or with *)
(* release ordering?                                                        *)
CanRMW(t, x) ==
  /\ Pending(t, x) = {}
  /\ Model = "TSO" => Drained(t)

CanRMWRelease(t, x) == Drained(t)

SetMem(x, v) == mem' = [mem EXCEPT ![x] = v] /\ UNCHANGED buf
=============================================================================
