-------------------------------- MODULE Native -------------------------------
(***************************************************************************)
(* The native programs of Layer1, each in the module of its family:        *)
(*   QueueLocks     3, 1, 23         SharedLocks    4, 17, 8, 7            *)
(*   Publications   32, 20, 28, 10, 9, 18, 30, 29, 12, 16, 21, 26, 5       *)
(*   WakeUps        6, 13, 27, 15    UnsafePublish  31                     *)
(* A behaviour runs one program on one memory.  Its threads take turns,    *)
(* and their buffered stores become visible, until the program exits.      *)
(***************************************************************************)
EXTENDS QueueLocks, SharedLocks, Publications, WakeUps, UnsafePublish

Thread == {Main, A, B, Unlocker} \cup Contender \cup Taker \cup Requester

Step(t) ==
  /\ ~ Exited
  /\ t \in DOMAIN pc
  /\ \/ QueueLockStep(t)
     \/ SharedLockStep(t)
     \/ PublicationStep(t)
     \/ WakeUpStep(t)
     \/ program = "arena" /\ ArenaStep(t)
  /\ UNCHANGED rigid

FlushStep(t) ==
  /\ ~ Exited
  /\ t \in DOMAIN pc
  /\ Flush(t)
  /\ UNCHANGED rigid

Next == \E t \in Thread : Step(t) \/ FlushStep(t)

(* Every thread is scheduled, and no store stays in its buffer for ever.   *)
Fairness == \A t \in Thread : WF_vars(Step(t)) /\ WF_vars(FlushStep(t))

Init == QueueLockInit \/ SharedLockInit \/ PublicationInit \/ WakeUpInit \/ ArenaInit

Spec      == Init /\ [][Next]_vars /\ Fairness
RelaxSpec == RelaxInit /\ [][Next]_vars /\ Fairness

(* Every program keeps the words, the buffers and the locals it began with *)
TypeOK ==
  /\ program \in QueueLockPrograms \cup SharedLockPrograms \cup PublicationPrograms
                   \cup WakeUpPrograms \cup {"arena"}
  /\ MachineTypeOK
=============================================================================
