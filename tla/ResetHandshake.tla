--------------------------- MODULE ResetHandshake ---------------------------
(***************************************************************************)
(* The two reproducers that repeat one race for ever:                      *)
(*   "rwlock"    Layer1/24-mysql_rwlock_deadlock.c                         *)
(*   "volatile"  Layer1/25-mysql_volatile_bug.c, without the writer's fence *)
(* The reader resets the shared words, starts the writer through start,    *)
(* peeks while done is 0, and stops the writer again.  The programs differ *)
(* in names:                                                               *)
(*     data   lock_writer_thread    log_file_data                          *)
(*     flag   lock_recursive        log_state                              *)
(* and in that 25 loads data only once it has seen flag set, where 24      *)
(* loads both and has no use for data otherwise.                           *)
(***************************************************************************)
EXTENDS Machine

Writer == 1
Reader == 2
ResetThread == {Writer, Reader}
WordLoc     == {"data", "flag", "start", "done"}

WriterPC == {"w_wait", "w_first", "w_fence", "w_second", "w_done", "w_reset"}
ReaderPC == {"r_flag", "r_data", "r_done", "r_start", "r_poll", "r_peek",
             "r_check", "r_stop", "exit"}

ResetTypeOK ==
  /\ SC!MemTypeOK(ResetThread, WordLoc, {0, 1})
  /\ program \in {"rwlock", "volatile"}
  /\ pc \in [ResetThread -> WriterPC \cup ReaderPC]
  /\ pc[Writer] \in WriterPC /\ pc[Reader] \in ReaderPC
  /\ reg \in [ResetThread -> [flag : {0, 1, Unread}, data : {0, 1, Unread}]]
  /\ env \in [early : BOOLEAN]

(* The reader's locals are Unread until the load is done.  env.early: the  *)
(* reader has broken out of its loop while the writer had stores of the    *)
(* round still to make or commit.                                          *)
StartOn(models) ==
  \E p \in {"rwlock", "volatile"} :
    Boot(p, models, [x \in WordLoc |-> 0],
         [t \in ResetThread |-> IF t = Writer THEN "w_wait" ELSE "r_flag"],
         [t \in ResetThread |-> [flag |-> Unread, data |-> Unread]],
         [early |-> FALSE])

-----------------------------------------------------------------------------
(* The writer: wait, data, fence, flag, done, wait for the reset.          *)
AfterFirst == IF program = "rwlock" THEN "w_fence" ELSE "w_second"

WWait == Await(Writer, "w_wait", Load(Writer, "start") = 1, "w_first") /\ Keep

(* Faulty variant: flag is written in place of data.                       *)
WFirstFlag == Write(Writer, "w_first", "flag", 1, AfterFirst) /\ Keep

WFirst  == Write(Writer, "w_first", "data", 1, AfterFirst) /\ Keep
WFence  == ReleaseFence(Writer, "w_fence", "w_second") /\ Keep
WSecond == Write(Writer, "w_second", "flag", 1, "w_done") /\ Keep
WDone   == Write(Writer, "w_done", "done", 1, "w_reset") /\ Keep
WReset  == Await(Writer, "w_reset", Load(Writer, "start") = 0, "w_wait") /\ Keep

-----------------------------------------------------------------------------
(* The reader: reset, start, poll, peek, check, stop.                      *)
WriterBusy == pc[Writer] \in {"w_first", "w_fence", "w_second", "w_done"}
              \/ ~ Drained(Writer)

(* Faulty variant: resets to the locals' sentinel.                         *)
RResetUnread(from, x, to) == Write(Reader, from, x, Unread, to) /\ Keep

RReset(from, x, to) == Write(Reader, from, x, 0, to) /\ Keep

RFlag  == RReset("r_flag", "flag", "r_data")
RData  == RReset("r_data", "data", "r_done")
RDone  == RReset("r_done", "done", "r_start")

(* Faulty variant: start is not set.                                       *)
RStartForgotten == Local(Reader, "r_start", "r_poll") /\ Keep

RStart == Write(Reader, "r_start", "start", 1, "r_poll") /\ Keep

(* while (writer_done == 0)                                                *)
RPoll ==
  Local(Reader, "r_poll", IF Load(Reader, "done") = 0 THEN "r_peek" ELSE "r_stop") /\ Keep

(* The two loads, flag first unless the processor may reorder loads.       *)
RLoadFlag ==
  /\ reg[Reader].flag = Unread
  /\ Read(Reader, "r_peek", "flag", "flag",
          IF reg[Reader].data = Unread THEN "r_peek" ELSE "r_check")
  /\ UNCHANGED env
RLoadData ==
  /\ reg[Reader].data = Unread
  /\ LoadsReorder \/ reg[Reader].flag # Unread
  /\ Read(Reader, "r_peek", "data", "data",
          IF reg[Reader].flag = Unread THEN "r_peek" ELSE "r_check")
  /\ UNCHANGED env

(* flag without data: report and exit(1).  Both: break.  Else: poll again. *)
RCheck ==
  LET r == reg[Reader]
  IN  /\ Local(Reader, "r_check", CASE r.flag = 1 /\ r.data # 1 -> "exit"
                                    [] r.flag = 1 /\ r.data = 1 -> "r_stop"
                                    [] OTHER                    -> "r_poll")
      /\ env' = [early |-> env.early \/ (r.flag = 1 /\ WriterBusy)]
      /\ reg' = [reg EXCEPT ![Reader] = [flag |-> Unread, data |-> Unread]]
RStop == RReset("r_stop", "start", "r_flag")

-----------------------------------------------------------------------------
WriterStep == WWait \/ WFirst \/ WFence \/ WSecond \/ WDone \/ WReset
ReaderStep == \/ RFlag \/ RData \/ RDone \/ RStart \/ RPoll
              \/ RLoadFlag \/ RLoadData \/ RCheck \/ RStop

(* exit(1) ends the process, the writer with it.                           *)
ResetStep(t) ==
  /\ ~ Exited
  /\ \/ t = Writer /\ WriterStep
     \/ t = Reader /\ ReaderStep
  /\ UNCHANGED rigid

ResetFlush(t) == ~ Exited /\ Flush(t) /\ UNCHANGED rigid

ResetNext ==
  \/ \E t \in ResetThread : ResetStep(t) \/ ResetFlush(t)
  \/ Exited /\ UNCHANGED vars

(* On the memories of the two machines, and on the one without buffers.    *)
ResetSpec   == StartOn({"TSO", "ARM"}) /\ [][ResetNext]_vars
ResetSCSpec == StartOn({"SC"}) /\ [][ResetNext]_vars

ResetFairness == \A t \in ResetThread : WF_vars(ResetStep(t)) /\ WF_vars(ResetFlush(t))

ResetFairSpec == ResetSpec /\ ResetFairness

-----------------------------------------------------------------------------
(* Without load or store reordering the check can fail only after the      *)
(* reader has broken out of its loop ahead of the writer's done = 1.       *)
OnlyAfterEarlyBreak == model = "TSO" /\ Exited => env.early

(* The one way for the test to stand still is the writer never seeing      *)
(* start = 0: it waits for the reset while the reader waits for it.        *)
StuckMeansMissedReset ==
  \/ <>Exited
  \/ []<>(pc[Reader] = "r_stop")
  \/ <>[](pc[Writer] = "w_reset" /\ mem["start"] = 1)

(* 24:123 "This test requires an ARM/Weak Memory CPU to fail."             *)
NeverDetects == program = "rwlock" => ~ Exited
=============================================================================
