# TLA+ models of the MGO ordering-bug benchmark

The repository is a collection of small concurrent programs, each the distillate
of an ordering bug reported against a real system, together with the scripts that
run model checkers over adapted copies of them and the reports those runs left.
This directory holds TLA+ models of the programs and of the scripts, TLC
configurations that check them, and TLAPS proofs about the models for all values
of their constants.

## 1. Inventory

| component | source | state | operations | hard behaviour |
|---|---|---|---|---|
| spin lock | `Layer1/22-MariaDB.c` | `mutex`, `data`, `flag`, `stop` | `spin_lock`, `spin_unlock`, `writer`, `reader`, `main` | release order of plain stores; join after `stop` |
| MCS lock | `Layer1/2-DPDK.c` | tail pointer, per node `next` and `locked` | `rte_mcslock_lock`, `rte_mcslock_unlock`, `thread_func`, `main` | hand-off, late links, a shared `&i` |
| reset handshakes | `Layer1/24-*.c`, `Layer1/25-*.c` | two data words, `start_flag`, `writer_done` | writer loop, reader loop | rounds that overlap, missed reset windows |
| arena publication | `Layer1/31-unsafe_publish.c` | arena of points, `current_pos` | writer loop, reader loop | reuse of a slot being read |
| GenMC corpus | `GENMC&Nidhugg/Layer*/*_genmc.c` (60 files) | the variables of each program | two or three short threads and an assertion each | which outcomes each memory model admits |
| GenMC and Nidhugg scripts | `run_genmc_eval.sh` (3), `run_nidhugg.sh` | the row being written | run on two memories, classify, conclude | a tool that gives up, a timeout after the answer, the order of the tests in the `if` chains |
| CBMC corpus and scripts | `CBMC/Layer*/` (58 programs, 3 scripts) | as above | as above, TSO against PSO | programs the tool refuses, answers it has no branch for |
| queue locks | `Layer1/1-Linuxeasy.c`, `3-sel4-dynamic.c`, `23-mcs.c` | tail, nodes, the heap the nodes come from | lock, unlock, the key's destructor, `clh_lock_destroy`, the polling unlocker | nodes freed while in use, late links |
| lock words and buffers | `Layer1/4-MySQL.c`, `7-OpenBLAS.c`, `8-*.c`, `17-mysql.c` | a lock word and its owner, a table of used marks | recursive X lock, `write_lock`, `enter`, `myExit`, `allocate_memory`, `release_memory` | the owner read outside the mutex, tests and marks that are two accesses, failures ignored |
| publications | `Layer1/5`, `9`, `10`, `12`, `16`, `18`, `20`, `21`, `26`, `28`, `29`, `30`, `32` | data and the flag, counter, stamp or pointer that announces it | publish, look, the rounds of the tests | stores and loads out of order, a pointer loaded twice, values cached |
| wake-ups, stack | `Layer1/6-ompi.c`, `13-JDK.c`, `27-*.c`, `15-openmpi.c` | flags, a waiters' list, a list head | register and call back, enter and exit, signal and poll, push and pop | lost and merged signals, a global that two threads assign |
| `Layer2/`, `Layer3/` | 26 programs | inside the Linux kernel | two or three system calls | the racing code is not in the repository |
| IRhunter | `loop_irhunter.sh` | an attempt counter | ten attempts around external commands | the tool is not in the repository |
| IR generation | `generate_ll.sh`, `*.ll` | files | conversion by clang | none |

The programs do not interact with one another. Within a program the threads
interact only through shared memory, so the component every other one rests on is
the memory itself, which is not code of the repository: `StoreBuffers` models it
from the outside, and the scripts name the instances that matter
(`--sc`, `--pso`, `--mm tso`, `--mm pso`, and ARM in the programs' comments).

What makes each modelled part correct:

* **spin lock**: critical sections exclude one another; a free lock means that the
  section that freed it is visible as a whole; the reader's assertion holds; main's
  joins return.
* **MCS lock**: there is one token, counting grants still on their way; the tail
  names the last thread to arrive; threads are served in the order of their
  exchanges; every thread leaves; a next pointer that was seen set stays set.
* **reset handshakes**: a detection without reordering has one cause only; the test
  stands still in one way only.
* **arena**: without reordering, a torn point is at least one lap torn.
* **queue locks**: threads are served one at a time in the order of their exchanges,
  also by the CLH lock whose nodes are freed under it; joins return but for named
  causes.
* **lock words**: one owner for ever, a word that tells how often it has the lock; an
  exact account of what failed and succeeded where failures are ignored; a buffer is lost,
  or given out twice, in no other way than a late mark and a sharer's release explain.
* **publications**: what is announced is there on the memory the program works on,
  and on the weaker ones the only outcomes admitted are those the program
  demonstrates.
* **wake-ups**: who waits is woken, unless one of the interleavings happens that the
  property lists.
* **scripts**: each checked-in row is the one the program's executions call for wherever
  the tool answered, what was printed wins over a status that says otherwise, and
  the label "False Negative" never hides a program that also fails under SC; the
  catch-all "Error/Timeout" of the CBMC script stands for a missing answer only.

## 2. Modules

    StoreBuffers <-- SpinLock <-- SpinLockProofs
        ^  ^
        |  '--- StoreBuffersProofs <--- SpinLockProofs, McsLockProofs, McsDriverProofs
        |
        |--- McsLock --INSTANCE--> FifoLock
        |       ^  '<--- McsLockProofs <--INSTANCE--.
        |       '------- McsDriver <--------- McsDriverProofs
        |
        '--- Machine <-- ResetHandshake <--------------- PublicationsProofs
               ^  ^                                              |
               |  '--- MachineProofs <-- LockProofs <------------'
               |                             |
               |                             v
               |--- QueueLocks    <------- Native       QueueLocks --INSTANCE--> FifoLock
               |--- SharedLocks   <----------|
               |--- Publications  <----------|
               |--- WakeUps       <----------|
               '--- UnsafePublish <----------'
    Litmus <-- GenmcCorpus <-- CbmcCorpus <-- ToolRuns
    SequenceFacts <-- StoreBuffersProofs, MachineProofs

An arrow points to the module that is extended or instantiated.

* `StoreBuffers` (external): one memory and one store buffer per thread.
  A plain store enters the buffer, `Commit` makes it visible. `Model` selects SC
  (no buffer), TSO (FIFO), PSO (any order among different locations) or ARM (PSO
  and a program may perform two independent loads in either order). A release store
  waits for all stores ahead of it.
* `SpinLock`: one action per statement of `Layer1/22-MariaDB.c`; `pc` names the
  statement. `spin_lock`'s loop is one action that is enabled when the exchange
  returns 0, since a failed exchange writes the value that is already there.
* `FifoLock`: what a queue lock promises, `Arrive`, `Enter` and `Leave`.
* `McsLock`: one action per shared access of the two functions, and the refinement
  `ServesInOrder` to `FifoLock` with `queue` mapped to the history variable
  `arrivals` and `inside` to the threads in their critical section.
* `McsDriver`: `main` and `thread_func`, composed with `McsLock`: `pthread_create`
  with `&i`, the increment, the joins, and the read of `*arg` at an unknown time.
* `Machine` (external): what most native programs share. It gives `StoreBuffers` a
  program counter `pc[t]` and locals `reg[t]` per thread, and the statements a thread
  is made of: plain, release and sequentially consistent accesses, busy waits, fences,
  read-modify-writes, `pthread_mutex_lock`, `pthread_create`, `pthread_join`. The
  variables `program` and `model` are rigid: a behaviour runs one program on one
  memory, and one run of TLC covers them all. `env` holds history variables.
* `ResetHandshake`: the two programs of the same skeleton; program 24 has a fence
  that program 25 lacks. `env.early` is a history variable.
* `QueueLocks`: `clh` (3), the CLH lock with the allocator's part in it; `qspin` (1),
  the kernel's MCS lock; `link` (23), one late link and an unlocker that gives up. The
  first two refine `FifoLock` (`QueueLocksServeInOrder`), with the queue mapped to the
  history variable `env.arrivals`.
* `SharedLocks`: `rwlock` (4), `event` (17), `xen` (8), `buffers` (7).
* `Publications`: message passing (9, 10, 20, 28, 32) and store buffering (18, 29, 30)
  each in one skeleton that differs in the kind of the second store and in the
  rounds; `package` (12), `ring` (16), `seqlock` (21), `mode` (26), `points` (5).
* `WakeUps`: `ompi` (6), `jdk` (13), `relax` (27), `lifo` (15).
* `UnsafePublish`: `arena` (31), writer and reader.
* `Native`: the union of the five modules: any of these programs, on any of the
  memories that concern it, its threads and their buffers scheduled fairly.
* The modules whose names end in `Proofs`, and `SequenceFacts`, hold theorems only (section 5).
* `Litmus` (external): a program as data (per thread a sequence of instructions,
  initial values, the values of loads at which the assertion fails) and the
  successors of an execution state. It is the memory of `StoreBuffers` once more,
  for programs given as values, because a tool that explores *all* executions needs
  them as records in a set.
* `GenmcCorpus`: the sixty programs in that form, and the rows of the reports.
* `CbmcCorpus`: the 58 programs of `CBMC` in that form. The 26 of `Layer2` and
  `Layer3` call stubs with descriptors they load (one of them also stores one) and
  assert nothing, so that their "No Bug" is vacuous.
* `ToolRuns`: the scripts. A tool is a breadth-first search over the executions that
  prints its answer at the end (`Extend`, `Answer`); Nidhugg may stop at an external
  function it does not know (`Unsupported`), any tool may end with or without an answer
  (`Exit`), and `timeout` may stop Nidhugg and CBMC before or after it (`Cut`). What was
  printed and the exit status are classified as in the scripts (`GenmcResult`,
  `NidhuggResult`, `CbmcResult`, every branch of each chain) and concluded as in the
  scripts. `log` keeps what each run printed, as the log files do.

Names follow the code where TLA+ permits. `PROJECT.json` maps every definition
to its lines. Definitions introduced with "Faulty variant" are plausible slips in
the definition that follows them; nothing uses them but the mutation entries of
`PROJECT.json`, which record that each property fails when one takes the place of
the definition it varies.

### Decisions a reader should know

* **Compiler.** Every shared access is taken to be performed, once, in the order of
  the text, as an unoptimised build does. The flags of programs 24 and 25 and the
  pointer of 31 are volatile, which forces this; the data words beside them
  (`log_file_data`, the fields of a `Point`) are plain, and for them it is an
  assumption.
* **`__sync_lock_release`** is a release store, as GCC documents and emits (`stlr`
  on ARMv8). The comment at `22-MariaDB.c:25-27` takes it for an ordinary store on
  ARM; the model follows the builtin. Its faulty variant `SpinUnlockPlain` is the
  program the comment describes, and it breaks `FreeMeansVisible`.
* **Loads** may overtake loads only where a program states it (`LoadsReorder`).
  Loads are not delayed past later stores.
* **`__sync_lock_test_and_set`** acts on memory and does not wait for the thread's
  earlier stores to other locations on PSO and ARM; on TSO it is a locked
  instruction and waits for all.
* **Words of a native program** are those whose order or value a property tells
  apart. The `printf`s, whose internal lock could act as a barrier, are left out, and
  `sleep` and `usleep` order nothing: what the programs arrange by waiting a while is
  not arranged in the model.
* **Sequentially consistent accesses** on TSO are a store with its barrier (`WriteSC`
  drains the buffer), on ARMv8 `stlr` and `ldar`: the store is a release, and an
  acquire load or exchange waits for the thread's earlier releases (`NoRelease`).
* **A pthread mutex** is a word that is taken by an acquiring and left by a draining
  read-modify-write. A waiter is a thread whose step is not enabled.
* **Freed memory** (3): `free` may write over the node or not, and `malloc` may return
  it again or not, once the thread that freed it has ended.
* **Uninitialised memory** (13, 15) has each value that a property could tell apart.
* **Reads of a word that only the reading thread can change** meanwhile are one with
  the step that uses them. Two loads of a word that others write are two steps, as
  in 5.
* **9-CVE-2020-25603-Xen.c** asks for port 4, which is valid from the start, and for
  port 6, which never is: the first thread always reads the channel and the second
  always writes it. The state that matters is the new counter with the old channel.
* **The acquire fence of 4** (`os_rmb`)
  follows the loads it could order, so it has no effect and no action.
* **Corpus.** Loops over a fixed count of attempts appear with the attempts that
  matter; a load whose result only an assertion in the same branch uses is made
  unconditional and the branch's condition joins the failure (see the header of
  `GenmcCorpus`). Spins, and `__CPROVER_assume` of a condition on memory, are
  `Await`, `AwaitZero` and `Cas`, which wait.
* **What CBMC could not judge.** CBMC 5.12 refuses five programs of `Layer1` and three
  of `Layer2` (`1-rds.c`, `10-smc2.c`, `15-tls.c`) because of their pointers, and
  `16-includeos.c` because of a stray `/`; for `3-sel4-dynamic.c` it reports a failure
  under TSO that no execution of the program has. For the nine, `ReportsReproduced` says
  no more than that two runs that end without an answer give the row of the report; for
  the tenth, nothing about the verdict. `LostToPointers` says what an answer would have
  been: five of `Layer1` and `3-sel4-dynamic.c` are bugs under PSO only, which the
  report lists as errors or, for the last, as a logic bug; the three of `Layer2` assert
  nothing and are "No Bug" like the rest of their layer.
* **Runs without an answer** depend on the tool and the machine: giving up, an unsupported
  function and the time limit are possible for any program at any moment. What a script
  may then write is still checked: never a verdict. The other way round, a run that did
  answer never becomes a `Timeout`, although its status may be 124. The timeouts that
  `nidhugg_summary_report.csv` records are taken on trust for programs with a busy wait,
  which Nidhugg has to unroll, and for no others.

## 3. Runs

| run | specification and instance | what it shows |
|---|---|---|
| `SpinLock` | ARM, 2 writers, 1 reader, fair | exclusion, visibility, the assertion (theorems too), termination |
| `Mcs_arm` | ARM, 3 threads and nodes | token, tail and FIFO refinement hold on the weakest memory; all four are theorems too |
| `Mcs_tso` | TSO, 3 threads, fair | every thread leaves |
| `Mcs_link` | ARM | **violation**: initialising stores can be behind the link |
| `McsDriver_arm` | ARM, the program's 2 threads | exclusion survives the race on `&i`, and nodes of their own give the lock its promises (theorems too, on all four memories) |
| `McsDriver_tso` | TSO, fair | the joins return unless a node was shared |
| `McsDriver_node` | SC | **violation**: two threads with one node |
| `Reset` | both programs, TSO and ARM, buffers of 3, fair | the three things that can happen to the tests; on TSO a detection presupposes an early break (that and the types are theorems too, for any buffer) |
| `Reset_detect` | SC | **violation**: detection without a weak memory |
| `ToolRuns` | the 60 and the 58 programs, three tools, runs that end in any way | `ReportsReproduced`, and what the labels hide and do not hide |
| `Native` | 25 programs, each on its memories, fair | the 19 properties below |
| `Native_relax` | program 27 on TSO, fair | **violation**: its tests need not end |

What `Native` shows, program by program:

| program | holds | the one way it goes wrong |
|---|---|---|
| 1, 3 | `QueueLocksServeInOrder` **P**: FIFO, one at a time, TSO and ARM | 3 may wait for ever on a node that was freed and reused (`QueueLocksReturn`); `clh_lock_destroy` always frees a second time and leaks the dummy (`ClhDestroyFreesTwice` **P**) |
| 23 | | the poll limit takes a delayed link for a hang (`QueueLocksReturn`) |
| 4 | `RwOneOwner` **P**, `RwWordCountsGrants` **P** | |
| 17 | `EventKeepsAccount` **P**: word, failed enters and signals balance | there is no exclusion to check |
| 8 | `XenTakenOnce` **P** | a failed `write_lock` looks like a successful one |
| 7 | `BufferLostToSharers` **P** | a buffer two threads got may be released, late, under a third |
| 9, 10, 20, 28, 32 | `MpInOrder` **P** on SC and TSO | ARM; in 20 only by the reader's own loads |
| 18, 29, 30 | `SbSomebodySees` **P** on SC | any memory with buffers |
| 12 | `PackageOnce` **P**: one table, every caller gets one; on TSO it is constructed | ARM: a table that is not |
| 16 | `RingCounted` **P**: the consumer's counter never passes the producer's; on TSO counted descriptors are filled (in a slot used again, by the earlier packet if need be) | ARM: counted, not there |
| 21 | `SeqValidated` **P** on TSO | ARM |
| 26 | `ModeNotOlder` **P** on TSO | ARM: a stale mode marked as fresh |
| 5 | `PointsAlarmIsFalse` **P**: an alarm on TSO is two points, not a reordering | |
| 6, 13, 27 | `WakeUpsEnd`, but for | 6: the callback came first; 13: the same through a buffer, on ARM only; 27: signals that merge |
| 15 | `LifoHeadIsNode` **P**; `WakeUpsEnd` on TSO | |
| 31 | `TornOnlyByLapping` **P**: a torn point on TSO is at least a lap torn | |

**P**: also a theorem, for every value of the constants.

`TypeOK` **P** says of all of them that their stores are numbers to words of their own and
that their threads stay the same.

**Bounds.** Two writers are needed for a release to be overtaken by another
writer's section, a reader for the assertion. The MCS lock needs three threads for
a grant, a waiter and an arrival to be under way together. `BufferSize` bounds the
stores in flight in the endless programs: in the reset handshakes the writer makes three
stores a round and the reader five, so 3 let one round overlap the next. In the arena, two
slots and seven points give more than three laps; laps beyond that repeat. The
other modules have no bound: their programs end.

The bounds of `Native.cfg`: three threads (`Contender`, `Taker`, `Requester`) where the
sources have two, because three make a queue with a middle, a third taker of a buffer
that two others got, and a third caller of the double check. `Asker` is two of the
takers, and `Calls` = 4 where the source makes one call per thread, because the word of
4 goes below 0 at the second grant, leaves -HALF at the third and is decremented by 1
only at the fourth. `NumBuffers` = 2: one buffer to be found used and one to find free;
the source's 192 add no case.
`Rounds` = 2: the tests that repeat themselves reset everything, so a second round
shows that nothing is left over. `NumDesc` = 2 with `Fill` = 3: the ring wraps.
`Updates` = 3: two modes alternate and one comes back. `NumPoints` = 4: two
replacements between the reader's loads. `Iterations` = 3: a signal to overtake and one
to be left without. `MaxCycles` = 2. `ArenaSize` = 2 and `MaxSeed` = 7: as above.
`BufferSize` = 4 holds every store a thread can make between two that drain it, except
in 5, 16 and 31, where the next store waits.

**Fairness.** Weak fairness of each thread's step says that the scheduler runs it;
weak fairness of each thread's flush says that a store becomes visible in the
end, which every memory model of the tools and C11 (7.17.3p16) assume.
`SpinLock`'s termination needs no more: `stop` ends the contention. No fairness is
assumed of the spin lock's acquisition itself. The `McsLock` runs check liveness on
TSO only, since on ARM the late link store makes it false (finding `Mcs_link`).

**Deadlock** is checked where the program must not stop: `SpinLock`, `Mcs_tso` and the
`Reset` runs have explicit stuttering steps for a program that has ended. It is off in
`Mcs_arm`, `Mcs_link` and the `McsDriver` runs, in which a lost store really does leave
the lock hanging; in the `Native` runs, whose programs end with their process or hang
in the ways `QueueLocksReturn` and `WakeUpsEnd` list; and in `ToolRuns`, which ends when
the report is written.

## 4. Disagreements found

* `Layer1/2-DPDK.c:65` stores `prev->next` plainly although the comment above it
  asks for release semantics: the finding is run `Mcs_link`.
* `Layer1/2-DPDK.c:212` passes `&i` to both threads, which can then use the same
  node against the comment at lines 25-26: run `McsDriver_node`.
* `Layer1/24-mysql_rwlock_deadlock.c:103` leaves the loop before the writer is done,
  so that the check fails on any machine, where line 123 says that it takes a weak
  memory: run `Reset_detect`.
* `Layer1/27-mysql-ut-realx.c:120` waits for as many signals as the writer sends,
  although two of them can count for one, so that main never returns from its joins;
  line 206 prints that both tests pass on TSO: run `Native_relax`.

One disagreement has no run of its own, since it is the code that is better than its
comments. `Layer1/1-Linuxeasy.c` calls its lock the "Buggy version" (line 46) and says
that "1,2 may order" (line 55): that the store of `locked = true` and that of the link may
change places, so that the grant is overwritten and the waiter never leaves. `locked` is
an `atomic_bool` (line 15), its plain assignment (line 49) is a sequentially consistent
store; the exchange of line 51, an acquire, comes after it on ARM too, and the link after
the exchange. So `QueueLocksReturn` and `QueueLocksServeInOrder` hold for program 1 on ARM
without an exception. With a plain `bool`, the mutant `QspinPrepareLocked`, the comments are
right, and `QueueLocksReturn` fails.

Where a program is wrong in the very way it was written to show, no finding is
recorded: the properties of `Native` carry the failure as their exception, so that
the run fails if there were a second one.

## 5. Proofs

Every property below holds for every value of the constants that satisfies the
assumptions the modules state: any set of threads, nodes, buffers, descriptors, any number
of calls, rounds, packets or Points, buffers of any size, and, where a program is given
several memories, all of them. TLC evaluates the assumptions on every run. Two are worth
a word. `ContenderAssumption` asks for a finite and nonempty set of threads: the nodes
that `malloc` gives out are numbered by their count, and with no thread at all
`clh_lock_destroy` would free the dummy, against `ClhDestroyFreesTwice`. `TakerAssumption`
and `UnlockerAssumption` keep main and the unlocking thread out of the set of takers.

Each proof follows the same plan: an inductive invariant, with a lemma per action that
the action keeps it, and the property as a consequence. The parts of the invariants are
named, and said in words where they are defined; what follows tells why they are needed.

| module | extends | theorems |
|---|---|---|
| `SequenceFacts` | | the line of threads: what `Append` and `Tail` do to who is first, last and next; the last position of a set |
| `StoreBuffersProofs` | `StoreBuffers`, `SequenceFacts` | lemmas on `Put`, `Commit`, `Load` |
| `SpinLockProofs` | `SpinLock`, `StoreBuffersProofs` | `TypeCorrectness`, `Exclusion`, `Visibility`, `AssertHolds` |
| `McsLockProofs` | `McsLock`, `StoreBuffersProofs` | `Token`, `SecondLoad`, `TailOfLine`, `Fifo`, `InitCompletes` |
| `McsDriverProofs` | `McsDriver`, `StoreBuffersProofs`; instantiates `McsLockProofs` | `DInvariant`, `DTyped`, `Together`, `PassesOn`, `OwnNodes` |
| `MachineProofs` | `Machine`, `SequenceFacts` | lemmas on the statements of `Machine` |
| `LockProofs` | `Native`, `MachineProofs` | `Account` (17), `TakenOnce` (8), `LostToSharers` (7), `OneOwner`, `WordCounts` (4), `DestroyFreesTwice` (3), `QueueLocksFifo` (1, 3) |
| `PublicationsProofs` | `LockProofs`, `ResetHandshake` | `InOrder` (9, 10, 20, 28, 32), `SomebodySees` (18, 29, 30), `Once` (12), `Counted` (16), `Validated` (21), `NotOlder` (26), `AlarmIsFalse` (5), `OnlyByLapping` (31), `HeadIsNode` (15), `WellTyped` (all of `Native`); `Handshakes`, `EarlyBreak`, `Typing` (24, 25) |

The theorems of the last two modules are about the specification of `Native`, whose
`program` is rigid, and their invariants have the form `program = "..." => ...`; only the
three on the reset handshakes are about that module's own `ResetSpec`.

### The memory

`StoreBuffersProofs` says what `Put` and `Commit` do to the type and the shape of a
buffer, and that only the first store of a buffer can be a committing release.

`MachineProofs` looks at a buffer in two ways. As the set of its entries: a load returns
memory or an entry of the thread's own, a store adds one, a commit takes one out and
leaves the rest. That is all a program that runs on TSO and on ARM may rely on. And by
position, for what holds on TSO or with a release only because of the order of the
stores: `Newest`, what a thread reads of its own buffer; `Rising`, a thread's stores to
the words of a set only raise them; `Reached(t, x, v, i)`, x is at v in memory or will
be when the entries before place i are committed; `Ahead(t, w, S, x, v)`, x reaches v
before w has a value of S. `Ahead` is what "published after" means in a memory with
buffers; it is kept by stores at the end and by commits at the front, and the lemma
`AheadLoad` turns it into what a reader of w can conclude about x.

### The spin lock

`SpinLockProofs` proves `Spec => []IInv`, and from it `TypeOK`, `MutualExclusion`,
`FreeMeansVisible` and `ReaderConsistent`, on each of the four memories. Exclusion by
itself is not inductive: that a thread may take the lock when the word is 0 says nothing
of stores still in buffers. `IInv` adds

* `ReleaseIsLast`: a buffered store to the lock is a release of 0, the last of its
  buffer, by a thread that is outside;
* `OwnerKeepsLock`: a thread inside, or whose release is still buffered, keeps the
  word at 1;
* `OwnerBuffers`: stores to `data` and `flag` are buffered only by a writer that
  owns the lock, so that no late store of an earlier section arrives in a later one;
* `DataBeforeFlag`: in memory, `flag` may be ahead of `data` only while the store to
  `data` is in the buffer of a writer;
* `ReaderSnapshot`: what a reader has loaded in its section is what memory holds.

The argument at each step: a release can commit only when it is first in its buffer,
hence, being last, alone; so when the word returns to 0 the buffer of its owner is
empty, and `FreeMeansVisible` follows. A reader inside owns the lock, hence no
other thread has data in flight, and both its loads return memory.

### The MCS lock of 2-DPDK

`McsLockProofs` treats the four memories at once: the only order of commits it uses is
that of a release. This is the point of the proof, since on ARM the initialising stores
of a node can be committed after its predecessor has linked to it and handed the lock
over. `IInv` adds to `TailIsLast`

* `Line`, `HolderIsFirst`, `Behind`, `LinkerIsBehind`: the history variable `arrivals`
  is the line of the threads between their exchange and their release, without
  repetition; who is inside is first; and `prev` names the node of the thread before;
* `NextWords`, `NextStores`: a `next` that is set, in memory or in a buffer, names the
  thread behind, or its owner has left; only the owner clears it and only the thread
  behind sets it;
* `LockedStores`, `StillLocked`: `locked` is cleared, in memory or in a buffer, only for
  the first of the line; whoever waits further back is locked *as it sees the word
  itself*, in memory or in its own buffer;
* `NoTailStores`: the tail pointer is only changed by read-modify-writes;
* `PassReady`: at the hand-off `next` is set for good.

`OneToken` follows: a `locked` that is 0 for its waiting owner belongs to the first of
the line. `Fifo` is the step simulation: the exchange is `Arrive`, the failed spin
`Enter`, the release or the compare-and-exchange `Leave`, and every other step, commits
included, leaves `arrivals` and the threads inside alone. `InitCompletes` states that on
SC and TSO a node is initialised before its predecessor can see it; the run `Mcs_link`
shows the same formula violated on ARM.

### The driver of 2-DPDK

The lock is proved for threads with nodes of their own, and `main` does not give them any:
both threads read the node's number from `&i` while `main` counts it up, so that they can
share one. That `NeverTogether` holds all the same is due to there being two threads, each of
which goes through the lock once. `DInv` says why, on all four memories:

* `ThreadStores`, `MainStores`, `MainLoop`: who may have which store in its buffer, and how
  far `i` has come when each thread is created;
* `LineOfTwo`, `TailIsSet`: the line holds at most two threads and the second of two waits,
  because the tail is not NULL as long as the other thread has still to come;
* `LockedSeen`: a thread that has set its `locked` sees it at 1, in memory or in its own
  buffer, until the other is `Gone`, that is, has left with its buffer empty; a shared node
  makes both write 1 to the same word, and the 0 can only come from the release of the other;
* `ReleaseLast`: that release is the last store of its thread, so nothing follows it;
* `SecondIsAlone`: who got inside after waiting is alone.

`Together` follows from `LineOfTwo`, which the others carry over the end of the wait.
`PassesOn` needs `ClearedFirst`, `NextIsSet` and
`NextStays`: a `next` that is set was set by the thread behind, whose own `next = NULL` to
the same word, if the node is shared, came first.

`OwnNodes` is a simulation: as long as the nodes differ, the state is one of `McsLock`, with
`i` left out of the memory and a thread that has not read its node yet taken for one at the
first statement of `rte_mcslock_lock` with the node the other does not have (`LockPc`,
`LockNode`). Every step of the program is a step or a stutter of the lock, except the one
that reads a node: with it the two mappings of the nodes may be exchanged, which is harmless
because the lock is still `Untouched`. So the inductive invariant `IInv` of `McsLockProofs`
is carried over (`OwnInv`), and with it the token and the tail.

### The reset handshakes of 24-mysql_rwlock_deadlock and 25-mysql_volatile_bug

The two programs repeat their test for ever, and no step is ordered by more than the words
themselves, so that a late store of one round could meet the next round. On TSO it cannot,
until the reader breaks out early. `InStep` says so by two counts: `Resets`, how many of
the reader's five stores of the round (start = 0, three resets, start = 1) are in memory,
and `Sets`, how many of the writer's three.

* `Buffered`: each buffer holds just the stores of the round that are issued and not yet
  in memory, in their order;
* `Resetting`: while the reader's stores arrive, the writer rests;
* `Setting`: once they have, memory is what the writer's stores so far have made it,
  unless the writer has missed start = 0, when all words stay 0;
* `Peeked`: who has loaded flag = 1 finds data = 1, and a reader that stops its loop has
  a resting writer before it.

A detection contradicts `Peeked`. `EarlyBreak` follows for buffers of any size, where the
run `Reset` has three entries. An early break itself is possible on every memory (run
`Reset_detect`), and after it nothing is claimed but the types.

### The queue locks of 1-Linuxeasy and 3-sel4-dynamic

`LockProofs` has one notion of line for both (`LineOK`), and the step simulation of
`FifoLock` once (`LineArrive`, `LineEnter`, `LineLeave`, `LineStays`).

`QspinInv` is the invariant of the MCS lock in the form of the kernel's code, where the
tail is a thread and the unlock polls `next`: `QspinBehind`, `QspinNext`,
`QspinNextStores`, `QspinLockedStores`, `QspinLocked`, `QspinPassReady`, `QspinTail`.

`ClhInv` has to cope with an allocator. A node is freed by the destructor of the key
while the thread behind still spins on it, `free` may write over it and `malloc` give it
out again, even to that very thread. The lock serves in order all the same, because

* `ClhNodes`: every node has one owner, a thread or the allocator, and the dummy never
  has one; so only its new owner writes 0 to a reused node, when
  it leaves;
* `ClhLocked`, `ClhStores`: a thread in the line keeps its own node locked, and has no
  store to it in flight but the one it is making;
* `ClhBehind`: the thread behind waits for the node of the thread before it, which is
  still there, since a node is freed only after its owner has left the line;
* `ClhTail`, `ClhJoined`: the tail is the dummy until the first exchange, and ever after
  a node that is in the line or has been freed.

Freed nodes do harm to threads that are first in the line only: they may wait for ever
(`QueueLocksReturn`), which is no matter of safety. When all threads have been joined the
tail is a freed node, whatever they did: `DestroyFreesTwice`.

### The lock words

`RwOneOwner` speaks of calls that have returned and is far from inductive. `RwInv` adds

* `RwMutex`: who is inside the mutex is alone there, and no store to the mutex is
  buffered;
* `RwOwner`: there is at most one owner, where a thread owns the lock from its first
  successful decrement of the word on, through the moment it writes its name, until
  its name is in memory, for good; and no thread buffers a name but its own;
* `RwRights`: whoever was granted the lock, is being granted it again, or has read its
  own name in `writer_thread`, owns it;
* `RwWord`: once there is an owner the word is at most HALF in memory, or will be when
  the owner leaves the mutex, so no second first decrement succeeds.

This is why the unlocked reads at lines 97-98 do no harm: a thread can read its own
name only if it wrote it, since names are never taken back and no one writes another
thread's; `recursive` might as well not be read. `WordCounts` adds `RwCounted`: the word,
as the owner reads it, is `RwCount` of the grants made, those counted and the one under
way (`RwMade`); and only the owner's grants move it.

`EventInv` (17) balances the set of threads that have entered against the counters: the
threads inside are the enters less the clean exits and the signals, and the word is 1
only while somebody is inside. `XenInv` (8) ties the takes to the one release, from its
store to its commit. `BuffersInv` (7) says who has a buffer, from the test until the last
of its stores is visible (`BuffersHas`); that any two who have the same one were noted as
sharing it when the second was given it (`BuffersShare`); and that a buffer which somebody
has, with his mark visible, reads as used until a sharer of his has given it back
(`BuffersLost`). A release that becomes visible belongs to a thread that had the buffer,
hence to a sharer of all who still have it, which keeps `BuffersLost`; and whoever is given
such a buffer reads it as free, which is `BuffersLate`.

### The publications

* `MpInv`: the data is in memory or ahead of the flag in the writer's buffer
  (`DataFirst`); who has loaded the flag finds the data in memory. `SbInv` is the
  classical argument on SC.
* `PackageInv`: the mutex of the double check, who leaves it leaves a table
  (`PackageTable`), and on TSO the buckets come before the pointer (`BucketsFirst`).
* `SeqInv`, `ModeInv`: the reader's stamp, or counter, is no newer than what it has
  loaded of the value.
* `RingInv`: `Rising` and `Ahead` for every packet's descriptor and the counter, and the
  consumer, its buffered counts included, behind the producer.
* `PointsInv`: both words of Point n are `Ahead` of the pointer's value n, so what the
  reader sees wrong it has loaded from two Points.
* `ArenaInv`: the words of a slot only grow, and their values are a whole number of laps
  from the slot's number (`Laps`); the y of a Point is `Ahead` of the x of the Points a
  lap later. So a y that does not fit its x is later by a lap at least.

### The stack

`LifoInv`: `push` and `pop` assign one shared pointer. `LifoItem` says that `pop` leaves
the ghost there only when it is done, and goes on only with X while X is the head;
`LifoHead` that X has been linked before it becomes the head.

### The types of Native

`WellTyped` collects them: the invariants above contain the types of their programs, each on
the memories they speak of. The programs that have no invariant (6, 13, 23, 27), or have one
on the strongest of their memories only (9, 10, 18, 20, 21, 26, 28, 29, 30, 32), are
typed by `NativeTypes`, on every memory: a store keeps `Typed`, whatever the model.

### Left to TLC

* Termination and the other properties under fairness: `QueueLocksReturn`, `WakeUpsEnd`,
  `StuckMeansMissedReset`, the joins of `McsDriver` and the termination of `SpinLock`. The
  installed provers have no rule for fairness and ENABLED.
* `ToolRuns`: its programs, tools and reports are given, so its four invariants are facts
  about finitely many computations, with no constant to be general in; TLC's search is
  complete. A proof would be that search written out by hand.

## 6. Plan

1. *(done)* `StoreBuffers`, `SpinLock` and its proofs, `McsLock`/`FifoLock`/`McsDriver`,
   `ResetHandshake`, `UnsafePublish`, `Litmus`, `GenmcCorpus`, `CbmcCorpus`, `ToolRuns`.
2. *(done)* The native programs of `Layer1` on `Machine`: `QueueLocks`, `SharedLocks`,
   `Publications`, `WakeUps`, `Native`; `MachineProofs` and `OneOwner`.
3. *(done)* Theorems: the MCS lock and its refinement of `FifoLock`; every safety property
   of `Native`, the two queue locks' refinement among them; the reset handshakes.
4. *(done)* The driver of the MCS lock on all memories; the types of `Native` as one
   theorem. Every invariant of the runs is now a theorem, but for the four of `ToolRuns`.

## 7. Not modelled

* `generate_ll.sh` and the `.ll` files: clang's conversion of the programs that
  `GenmcCorpus` models; no state but files.
* `IRhunter/loop_irhunter.sh`: a bounded retry loop around two external commands; the
  tool is not in the repository.
* `Layer2/`, `Layer3/` in native form: two or three system calls from two threads. What
  races is inside the kernel, so a model would be of code that is not here. Their
  GenMC adaptations spell the kernel's state out and are in `GenmcCorpus`.
* `14-libfabric.c` is one thread that stores one field once; `19-ompi.cpp` prints a
  pointer.
* `11-MariaDBEasy.c` has no `main` and does not compile as checked in
  (`current->next` of a `void *`): there is no program whose behaviour could be stated.
