------------------------------- MODULE Machine ------------------------------
(***************************************************************************)
(* What the native programs of Layer1 share: a memory, and threads that    *)
(* perform one access at a time.  The module is external, as StoreBuffers  *)
(* is: it stands for the processor and for pthreads.                       *)
(*                                                                         *)
(* Each module that extends this one gives a family of programs.  A        *)
(* behaviour runs one program on one memory, named by the variables        *)
(* program and model, which no step changes; so one run of the model       *)
(* checker covers a family on all the memories that concern it.            *)
(*                                                                         *)
(* Threads are numbers, main is 0.  Pointers are numbers, the null pointer *)
(* is 0.                                                                   *)
(***************************************************************************)
EXTENDS Integers, Sequences

CONSTANT BufferSize    \* a full store buffer holds its thread's next store up

ASSUME BufferAssumption == BufferSize \in Nat \ {0}

VARIABLES
  mem, buf,    \* as in StoreBuffers
  program,     \* the program that runs
  model,       \* the memory it runs on
  pc,          \* pc[t]: the statement thread t executes next
  reg,         \* reg[t]: the locals of thread t, a record
  env          \* history variables of the program, a record

rigid == <<program, model>>
vars  == <<mem, buf, program, model, pc, reg, env>>

SC  == INSTANCE StoreBuffers WITH Model <- "SC"
TSO == INSTANCE StoreBuffers WITH Model <- "TSO"
ARM == INSTANCE StoreBuffers WITH Model <- "ARM"

Main == 0
NULL == 0
BOOL == {0, 1}
Unread == -1    \* a local whose load has not been done

(* A program p, on one of the memories ms, with its initial memory, the    *)
(* first statement of every thread, their locals and the rest.             *)
Boot(p, ms, memory, first, locals, h) ==
  /\ program = p
  /\ model \in ms
  /\ mem = memory
  /\ buf = [t \in DOMAIN first |-> << >>]
  /\ pc = first
  /\ reg = locals
  /\ env = h

MachineTypeOK ==
  /\ model \in {"SC", "TSO", "ARM"}
  /\ DOMAIN pc = DOMAIN buf /\ DOMAIN pc = DOMAIN reg
  /\ SC!MemTypeOK(DOMAIN pc, DOMAIN mem, Int)

LoadsReorder == model = "ARM"

Load(t, x)    == SC!Load(t, x)
Pending(t, x) == SC!Pending(t, x)
Drained(t)    == SC!Drained(t)

Put(t, x, v, rel) ==
  /\ Len(buf[t]) < BufferSize
  /\ CASE model = "SC"  -> SC!Put(t, x, v, rel)
       [] model = "TSO" -> TSO!Put(t, x, v, rel)
       [] model = "ARM" -> ARM!Put(t, x, v, rel)

Commit(t, x) ==
  CASE model = "SC"  -> SC!Commit(t, x)
    [] model = "TSO" -> TSO!Commit(t, x)
    [] model = "ARM" -> ARM!Commit(t, x)

(* Releases of t that are not yet visible.  An acquire or sequentially     *)
(* consistent load of ARMv8 waits for them.                                *)
NoRelease(t) == \A i \in DOMAIN buf[t] : ~ buf[t][i].rel

(* When may t perform a read-modify-write that is an acquire only?         *)
CanRMW(t, x) ==
  CASE model = "SC"  -> TRUE
    [] model = "TSO" -> TSO!CanRMW(t, x)
    [] model = "ARM" -> ARM!CanRMW(t, x) /\ NoRelease(t)

SetMem(x, v) == SC!SetMem(x, v)
Silent == UNCHANGED <<mem, buf>>

-----------------------------------------------------------------------------
(* The statements of a program.  Each moves thread t from one label to     *)
(* another and says nothing of reg and env.                                *)

Go(t, from, to) == pc[t] = from /\ pc' = [pc EXCEPT ![t] = to]

(* A plain or relaxed store, a release store, a sequentially consistent    *)
(* one (xchg on x86, stlr on ARM).                                         *)
Write(t, from, x, v, to)    == Go(t, from, to) /\ Put(t, x, v, FALSE)
WriteRel(t, from, x, v, to) == Go(t, from, to) /\ Put(t, x, v, TRUE)
WriteSC(t, from, x, v, to) ==
  /\ Go(t, from, to)
  /\ IF model = "TSO" THEN Drained(t) /\ SetMem(x, v) ELSE Put(t, x, v, TRUE)

(* A plain load into local r, and a sequentially consistent one.           *)
Read(t, from, r, x, to) ==
  /\ Go(t, from, to)
  /\ reg' = [reg EXCEPT ![t][r] = Load(t, x)]
  /\ Silent
ReadSC(t, from, r, x, to) == NoRelease(t) /\ Read(t, from, r, x, to)

(* A step that touches no memory.                                          *)
Local(t, from, to) == Go(t, from, to) /\ Silent

(* A busy wait for a condition on loads.                                   *)
Await(t, from, condition, to) == Go(t, from, to) /\ condition /\ Silent

(* A full fence, and a release fence, which is no instruction on x86.      *)
FullFence(t, from, to)    == Await(t, from, Drained(t), to)
ReleaseFence(t, from, to) == Await(t, from, model = "ARM" => Drained(t), to)

(* A full-barrier read-modify-write that writes v.                         *)
AtomicFull(t, from, x, v, to) == Go(t, from, to) /\ Drained(t) /\ SetMem(x, v)

(* pthread_mutex_lock and _unlock on a mutex of which x is the word.       *)
MutexLock(t, from, x, to)   == Go(t, from, to) /\ CanRMW(t, x) /\ mem[x] = 0 /\ SetMem(x, 1)
MutexUnlock(t, from, x, to) == Go(t, from, to) /\ Drained(t) /\ SetMem(x, 0)

(* pthread_create of the threads T, at label "none" until then.            *)
Create(t, from, T, to) ==
  /\ Drained(t)
  /\ pc[t] = from
  /\ pc' = [u \in DOMAIN pc |-> IF u = t THEN to ELSE IF u \in T THEN "start" ELSE pc[u]]
  /\ Silent

(* pthread_join of the threads T, which end at label "done".               *)
Joinable(T) == \A u \in T : pc[u] = "done" /\ Drained(u)

Keep == UNCHANGED <<reg, env>>

(* exit(), abort() and the return of main end every thread.                *)
Exited == \E t \in DOMAIN pc : pc[t] \in {"exit", "abort"}

Flush(t) == (\E x \in DOMAIN mem : Commit(t, x)) /\ UNCHANGED <<pc, reg, env>>
=============================================================================
