------------------------------- MODULE Litmus -------------------------------
(***************************************************************************)
(* How the small test programs of GENMC&Nidhugg and CBMC execute.  Their   *)
(* threads are short and mostly straight; a program is data, and this      *)
(* module says which executions it has on which memory:                    *)
(*   "SC"   sequentially consistent    "TSO"  FIFO store buffers           *)
(*   "PSO"  store buffers per location "ARM"  PSO, and loads of different  *)
(*                                            locations may be reordered   *)
(* It is the memory of StoreBuffers for programs given as values: the      *)
(* states of an execution are records, so that a tool that explores all of *)
(* them can be specified (ToolRuns).                                       *)
(*                                                                         *)
(* The tools are not code of the repository: this module is external.      *)
(***************************************************************************)
EXTENDS Integers, Sequences, FiniteSets, TLC

-----------------------------------------------------------------------------
(* Instructions.  x: location; v: operand; c: the condition under which it *)
(* is executed, on a value the thread loaded earlier; rel: a release store. *)
Always == <<>>

Instr(op, x, v) == [op |-> op, x |-> x, v |-> v, c |-> Always, rel |-> FALSE]

Ld(x)     == Instr("ld", x, 0)
St(x, v)  == Instr("st", x, v)
CopyPlus(x, i, d) == Instr("copy", x, <<i, d>>) \* store what i loaded, plus d
Copy(x, i) == CopyPlus(x, i, 0)
Add(x, v) == Instr("add", x, v)
Xchg(x, v) == Instr("xchg", x, v)
TryCas(x, u, v) == Instr("try", x, <<u, v>>) \* set x to v if it is u
Cas(x, v) == Instr("cas", x, v)             \* spin until x is 0, set it to v
Await(x)  == Instr("await", x, 0)           \* spin while x is 0
AwaitZero(x) == Instr("zero", x, 0)         \* spin while x is not 0
Fence     == Instr("fence", "", 0)          \* __sync_synchronize
PlainLd(x) == Instr("pld", x, 0)            \* not atomic
PlainSt(x, v) == Instr("pst", x, v)
Join      == Instr("join", "", 0)           \* pthread_join of the others

Release(I) == [I EXCEPT !.rel = TRUE]
When(i, r, v, I) == [I EXCEPT !.c = <<i, r, v>>]

Loads  == {"ld", "pld"}
Stores == {"st", "copy", "pst"}
Spins  == {"cas", "await", "zero"}

Related(a, r, v) ==
  CASE r = "=" -> a = v [] r = "#" -> a # v [] r = "<" -> a < v [] r = ">" -> a > v

-----------------------------------------------------------------------------
(* A program: initial values other than 0, one sequence of instructions    *)
(* per thread, and the failures, each a set of <<thread, instruction,      *)
(* relation, value>> about loaded values that all hold when assert fails.  *)
Program(start, threads, failures) ==
  [start |-> start, threads |-> threads, failures |-> failures]

Threads(P) == DOMAIN P.threads
Locs(P)    == UNION {{P.threads[t][i].x : i \in DOMAIN P.threads[t]} : t \in Threads(P)}
HasSpin(P) == \E t \in Threads(P) : \E i \in DOMAIN P.threads[t] :
                P.threads[t][i].op \in Spins

(* mem, buf: as in StoreBuffers.  done[t]: the instructions t has executed *)
(* or skipped; reg[t]: what they loaded.  known[t]: the plain stores that *)
(* happen before t's next instruction; with[x]: those a reader of x learns *)
(* of; race: two plain accesses have raced.                                *)
Start(P) ==
  [mem   |-> [x \in Locs(P) |-> IF x \in DOMAIN P.start THEN P.start[x] ELSE 0],
   buf   |-> [t \in Threads(P) |-> << >>],
   done  |-> [t \in Threads(P) |-> {}],
   reg   |-> [t \in Threads(P) |-> <<>>],
   known |-> [t \in Threads(P) |-> {}],
   with  |-> [x \in Locs(P) |-> {}],
   race  |-> FALSE]

Own(s, t, x) == {i \in DOMAIN s.buf[t] : s.buf[t][i].x = x}

Look(s, t, x) ==
  IF Own(s, t, x) = {} THEN s.mem[x]
  ELSE s.buf[t][CHOOSE i \in Own(s, t, x) : \A j \in Own(s, t, x) : j <= i].v

Finished(P, s, t) == s.done[t] = DOMAIN P.threads[t] /\ s.buf[t] = << >>

(* May thread t execute its i-th instruction now?                          *)
InOrder(m, P, s, t, i) ==
  \A j \in 1..(i - 1) :
    \/ j \in s.done[t]
    \/ /\ m = "ARM"
       /\ P.threads[t][i].op \in Loads
       /\ P.threads[t][j].op \in Loads
       /\ P.threads[t][i].x # P.threads[t][j].x

Decided(P, s, t, i) ==
  P.threads[t][i].c = Always \/ P.threads[t][i].c[1] \in s.done[t]

Taken(P, s, t, i) ==
  LET c == P.threads[t][i].c
  IN  c = Always \/ (c[1] \in DOMAIN s.reg[t] /\ Related(s.reg[t][c[1]], c[2], c[3]))

Settled(m, s, t, x) == Own(s, t, x) = {} /\ (m = "TSO" => s.buf[t] = << >>)

Enabled(m, P, s, t, i) ==
  LET I == P.threads[t][i]
  IN  CASE I.op \in {"add", "xchg", "try"} -> Settled(m, s, t, I.x)
        [] I.op = "cas"   -> Settled(m, s, t, I.x) /\ s.mem[I.x] = 0
        [] I.op = "await" -> Look(s, t, I.x) # 0
        [] I.op = "zero"  -> Look(s, t, I.x) = 0
        [] I.op = "fence" -> s.buf[t] = << >>
        [] I.op = "join"  -> \A u \in Threads(P) \ {t} : Finished(P, s, u)
        [] OTHER -> TRUE

-----------------------------------------------------------------------------
(* With seq_cst atomics, a reader of x knows what its writers knew.        *)
Learn(m, s, t, x) == IF m = "SC" THEN s.known[t] \cup s.with[x] ELSE s.known[t]
Tell(m, s, t, x)  == IF m = "SC" THEN s.with[x] \cup s.known[t] ELSE s.with[x]

Did(s, t, i) == [s EXCEPT !.done[t] = @ \cup {i}]

LoadDone(m, s, t, i, I) ==
  [Did(s, t, i) EXCEPT !.reg[t] = (i :> Look(s, t, I.x)) @@ @, !.known[t] = Learn(m, s, t, I.x)]

PlainLoadDone(P, s, t, i, I) ==
  LET others == {u \in Threads(P) \ {t} : \E j \in s.done[u] :
                   P.threads[u][j].op = "pst" /\ P.threads[u][j].x = I.x}
  IN  [Did(s, t, i) EXCEPT !.reg[t] = (i :> Look(s, t, I.x)) @@ @,
                           !.race = @ \/ (others # {} /\ I.x \notin s.known[t])]

StoreDone(m, s, t, i, I) ==
  LET v  == IF I.op = "copy" THEN s.reg[t][I.v[1]] + I.v[2] ELSE I.v
      s1 == [Did(s, t, i) EXCEPT
               !.with[I.x] = IF I.op = "pst" THEN @ ELSE Tell(m, s, t, I.x),
               !.known[t]  = IF I.op = "pst" THEN @ \cup {I.x} ELSE @]
  IN  IF m = "SC" THEN [s1 EXCEPT !.mem[I.x] = v]
      ELSE [s1 EXCEPT !.buf[t] = Append(@, [x |-> I.x, v |-> v, rel |-> I.rel])]

Modified(old, I) ==
  CASE I.op = "add" -> old + I.v
    [] I.op = "try" -> IF old = I.v[1] THEN I.v[2] ELSE old
    [] OTHER        -> I.v

RmwDone(m, s, t, i, I) ==
  [Did(s, t, i) EXCEPT !.reg[t] = (i :> s.mem[I.x]) @@ @,
                       !.mem[I.x] = Modified(@, I),
                       !.known[t] = Learn(m, s, t, I.x),
                       !.with[I.x] = Tell(m, s, t, I.x)]

Execute(m, P, s, t, i) ==
  LET I == P.threads[t][i]
  IN  CASE ~ Taken(P, s, t, i)   -> Did(s, t, i)
        [] I.op \in {"ld", "await", "zero"} -> LoadDone(m, s, t, i, I)
        [] I.op = "pld"          -> PlainLoadDone(P, s, t, i, I)
        [] I.op \in Stores       -> StoreDone(m, s, t, i, I)
        [] I.op \in {"join", "fence"} -> Did(s, t, i)
        [] OTHER                 -> RmwDone(m, s, t, i, I)

-----------------------------------------------------------------------------
(* May the i-th buffered store of t become visible?                        *)
Committable(m, s, t, i) ==
  IF m = "TSO" \/ s.buf[t][i].rel THEN i = 1
  ELSE \A j \in 1..(i - 1) : s.buf[t][j].x # s.buf[t][i].x

CommitStore(s, t, i) ==
  [s EXCEPT !.mem[s.buf[t][i].x] = s.buf[t][i].v,
            !.buf[t] = [j \in 1..(Len(@) - 1) |-> IF j < i THEN @[j] ELSE @[j + 1]]]

Successors(m, P, s) ==
  UNION {
    {Execute(m, P, s, t, i) :
       i \in {j \in DOMAIN P.threads[t] \ s.done[t] :
                /\ InOrder(m, P, s, t, j)
                /\ Decided(P, s, t, j)
                /\ Taken(P, s, t, j) => Enabled(m, P, s, t, j)}}
    \cup {CommitStore(s, t, i) : i \in {j \in DOMAIN s.buf[t] : Committable(m, s, t, j)}}
    : t \in Threads(P)}

Fails(P, s) ==
  \E f \in P.failures : \A a \in f :
    a[2] \in DOMAIN s.reg[a[1]] /\ Related(s.reg[a[1]][a[2]], a[3], a[4])
=============================================================================
