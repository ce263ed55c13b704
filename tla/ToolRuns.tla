------------------------------ MODULE ToolRuns ------------------------------
(***************************************************************************)
(* The scripts that evaluate the corpora, GENMC&Nidhugg/Layer*/run_genmc_  *)
(* eval.sh, GENMC&Nidhugg/run_nidhugg.sh and CBMC/Layer*/run_cbmc.sh: each *)
(* program is explored twice, on a weaker and on a stronger memory, and    *)
(* what the tool printed and its exit status become a row of the report.   *)
(*                                                                         *)
(* The exploration itself is the tools'.  It is modelled as a breadth-     *)
(* first search, frontier being the executions of one length; it ends with *)
(* the first error or when no execution can be extended.  A tool may also  *)
(* give up, or be stopped, at any moment.                                  *)
(***************************************************************************)
EXTENDS CbmcCorpus

VARIABLES
  prog,       \* the program under test
  tool,       \* the script that runs
  frontier,   \* the states the tool is about to extend
  said,       \* what the tool has printed: "nothing", an answer, or "unsupported"
  status,     \* "running", or the exit status: 0, or 124 after a timeout
  log,        \* what the runs that ended had printed
  row         \* the columns written so far

vars == <<prog, tool, frontier, said, status, log, row>>

Answers == {"error", "race", "no error"}

(* Faulty variant: the columns are filled in the other order.              *)
MemoriesSwapped ==
  [genmc |-> <<"SC", "ARM">>, nidhugg |-> <<"PSO", "SC">>, cbmc |-> <<"PSO", "TSO">>]

(* genmc: the file as it is, on a weak memory, and then a copy in which    *)
(* sed has made every relaxed access seq_cst.  nidhugg: --sc, then --pso.  *)
(* cbmc: --mm tso, then --mm pso.                                          *)
Memories ==
  [genmc |-> <<"ARM", "SC">>, nidhugg |-> <<"SC", "PSO">>, cbmc |-> <<"TSO", "PSO">>]

Corpora == [genmc |-> Corpus, nidhugg |-> Corpus, cbmc |-> CbmcCorpus]

P      == Corpora[tool][prog]
Memory == Memories[tool][Len(row) + 1]

Init ==
  /\ tool \in DOMAIN Memories
  /\ prog \in DOMAIN Corpora[tool]
  /\ frontier = {Start(P)}
  /\ said = "nothing"
  /\ status = "running"
  /\ log = << >>
  /\ row = << >>

-----------------------------------------------------------------------------
(* A run of a tool.                                                        *)
Running   == Len(row) < 2 /\ status = "running"
Exploring == Running /\ said = "nothing"

Violation == \E s \in frontier : Fails(P, s)
Race      == tool = "genmc" /\ \E s \in frontier : s.race

(* The tool extends every execution by one step.                           *)
Extend ==
  /\ Exploring
  /\ frontier # {} /\ ~ Violation /\ ~ Race
  /\ frontier' = UNION {Successors(Memory, P, s) : s \in frontier}
  /\ UNCHANGED <<prog, tool, said, status, log, row>>

Say(text) ==
  /\ said' = text
  /\ frontier' = {}
  /\ UNCHANGED <<prog, tool, status, log, row>>

Answer ==
  /\ Exploring
  /\ \/ Violation /\ Say("error")
     \/ ~ Violation /\ Race /\ Say("race")
     \/ frontier = {} /\ Say("no error")

(* Nidhugg stops at a function it cannot interpret.                        *)
Unsupported == Exploring /\ tool = "nidhugg" /\ Say("unsupported")

Stop(s) ==
  /\ Running
  /\ status' = s
  /\ frontier' = {}
  /\ UNCHANGED <<prog, tool, said, log, row>>

(* The process ends by itself, whether it has answered or not.             *)
Exit == Stop("0")

(* timeout 5s nidhugg, timeout 10s cbmc: the answer may be out already.    *)
Cut == tool \in {"nidhugg", "cbmc"} /\ Stop("124")

-----------------------------------------------------------------------------
(* The script writes a column, and starts the tool on the second memory.   *)
Report(result) ==
  /\ Len(row) < 2 /\ status # "running"
  /\ row' = Append(row, result)
  /\ log' = Append(log, said)
  /\ said' = "nothing"
  /\ status' = "running"
  /\ frontier' = IF row = << >> THEN {Start(P)} ELSE {}
  /\ UNCHANGED <<prog, tool>>

(* The greps of run_genmc_eval.sh: violation, race, No errors.             *)
GenmcResult(success) ==
  CASE said = "error"    -> "FAILED (Assertion)"
    [] said = "race"     -> "FAILED (Data Race)"
    [] said = "no error" -> success
    [] OTHER             -> "ERROR (Unknown Output)"

GenmcColumn ==
  tool = "genmc" /\ Report(GenmcResult(IF row = << >> THEN "SUCCESS (No Bug)" ELSE "SUCCESS (Safe)"))

(* Faulty variant: the exit status is looked at before the output.         *)
NidhuggResultStatusFirst ==
  IF status = "124" THEN "Timeout"
  ELSE IF said = "no error" THEN "Safe"
  ELSE IF said = "error" THEN "Bug Detected"
  ELSE IF said = "unsupported" THEN "Tool Error"
  ELSE "Exception"

(* run_nidhugg.sh: No errors were detected, Error detected:, Unsupported   *)
(* external function, and only then the exit status.                       *)
NidhuggResult ==
  IF said = "no error" THEN "Safe"
  ELSE IF said = "error" THEN "Bug Detected"
  ELSE IF said = "unsupported" THEN "Tool Error"
  ELSE IF status = "124" THEN "Timeout"
  ELSE "Exception"

NidhuggColumn == tool = "nidhugg" /\ Report(NidhuggResult)

(* run_cbmc.sh: VERIFICATION SUCCESSFUL, VERIFICATION FAILED, the status.  *)
CbmcResult ==
  IF said = "no error" THEN "Safe"
  ELSE IF said = "error" THEN "Bug Detected"
  ELSE IF status = "124" THEN "Timeout"
  ELSE "Exception"

CbmcColumn == tool = "cbmc" /\ Report(CbmcResult)

-----------------------------------------------------------------------------
Failed(result)    == result \in {"FAILED (Assertion)", "FAILED (Data Race)"}
Succeeded(result) == result \in {"SUCCESS (No Bug)", "SUCCESS (Safe)"}

Conclusion(r, s) ==
  IF Failed(r) /\ Succeeded(s) THEN "Confirmed WMM Bug"
  ELSE IF Failed(r) /\ Failed(s) THEN "Logic Bug"
  ELSE IF Succeeded(r) THEN "False Negative"
  ELSE "Error (Check genmc_debug.log)"

Conclude ==
  /\ tool = "genmc" /\ Len(row) = 2
  /\ row' = Append(row, Conclusion(row[1], row[2]))
  /\ UNCHANGED <<prog, tool, frontier, said, status, log>>

(* Faulty variant: Safe twice is not told from an error.                   *)
CbmcConclusionWithoutNoBug(tso, pso) ==
  IF tso = "Safe" /\ pso = "Bug Detected" THEN "WMM Bug"
  ELSE IF tso = "Bug Detected" /\ pso = "Bug Detected" THEN "Logic Bug"
  ELSE "Error/Timeout (Check Log)"

CbmcConclusion(tso, pso) ==
  IF tso = "Safe" /\ pso = "Bug Detected" THEN "WMM Bug"
  ELSE IF tso = "Bug Detected" /\ pso = "Bug Detected" THEN "Logic Bug"
  ELSE IF tso = "Safe" /\ pso = "Safe" THEN "No Bug"
  ELSE "Error/Timeout (Check Log)"

CbmcConclude ==
  /\ tool = "cbmc" /\ Len(row) = 2
  /\ row' = Append(row, CbmcConclusion(row[1], row[2]))
  /\ UNCHANGED <<prog, tool, frontier, said, status, log>>

Next ==
  \/ Extend \/ Answer \/ Unsupported \/ Exit \/ Cut
  \/ GenmcColumn \/ Conclude
  \/ NidhuggColumn
  \/ CbmcColumn \/ CbmcConclude

Spec == Init /\ [][Next]_vars

-----------------------------------------------------------------------------
Answered(i)  == log[i] \in Answers
AllAnswered  == \A i \in DOMAIN log : Answered(i)

(* A row of run_genmc_eval.sh is the one that the checked-in               *)
(* genmc_evaluation_report*.csv holds if both runs answered; a run that    *)
(* did not is an ERROR.                                                    *)
GenmcReport ==
  tool = "genmc" /\ Len(row) = 3 =>
    /\ AllAnswered => row = GenmcRow(prog)
    /\ \A i \in 1..2 : row[i] = "ERROR (Unknown Output)" <=> ~ Answered(i)

(* A column of run_nidhugg.sh is the one of nidhugg_summary_report.csv if  *)
(* the run answered, even if timeout struck after the answer, or the       *)
(* checked-in run was cut off, in a loop; without an answer the column is  *)
(* not a verdict.                                                          *)
NidhuggReport ==
  tool = "nidhugg" =>
    \A i \in DOMAIN row :
      LET recorded == NidhuggRow(prog)[i]
      IN  IF Answered(i)
          THEN \/ row[i] = recorded
               \/ recorded = "Timeout" /\ HasSpin(P) /\ row[i] \in {"Safe", "Bug Detected"}
          ELSE row[i] \in {"Tool Error", "Timeout", "Exception"}

(* The rows of run_cbmc.sh are those of the three cbmc_summary_report.csv  *)
(* on TSO and on PSO where CBMC answered and follows the pointers of the   *)
(* program; a run without an answer is not a verdict, and the programs the *)
(* reports call Exception are told so if both runs end by themselves.      *)
CbmcReport ==
  tool = "cbmc" =>
    /\ prog \notin Refused \cup UnsoundPointers =>
         \A i \in DOMAIN row :
           (\A j \in DOMAIN log : j <= i => Answered(j)) => row[i] = CbmcRow(prog)[i]
    /\ \A i \in DOMAIN log : ~ Answered(i) => row[i] \in {"Timeout", "Exception"}
    /\ prog \in Refused /\ Len(row) = 3 /\ row[1] = "Exception" /\ row[2] = "Exception" =>
         row = CbmcRow(prog)

(* So every row the three scripts checked in is what the executions of the *)
(* program call for, except that no execution accounts for the runs that   *)
(* ended without an answer (the timeouts of Nidhugg and the programs CBMC  *)
(* refused) and for 3-sel4-dynamic.c under CBMC.                           *)
ReportsReproduced == GenmcReport /\ NidhuggReport /\ CbmcReport

(* run_genmc_eval.sh concludes "False Negative" without a look at the SC   *)
(* result; yet it never says so of a program that fails under SC.          *)
FalseNegativeIsSafe ==
  Len(row) = 3 /\ row[3] = "False Negative" => ~ Failed(row[2])

(* What the reports lost because CBMC cannot follow pointers: the programs *)
(* of Layer1 that it refused or misjudged fail under PSO and only there,   *)
(* bugs of the memory model, the kind the reports are about; the three     *)
(* that it refused in Layer2 (1-rds.c, 10-smc2.c, 15-tls.c) assert nothing *)
(* and would have been No Bug like the others of their layer.              *)
LostToPointers ==
  tool = "cbmc" /\ Len(row) = 3 /\ AllAnswered =>
    /\ prog \in RefusedPointers \cup UnsoundPointers => row[3] = "WMM Bug"
    /\ prog \in RefusedKernel => row[3] = "No Bug"

(* run_cbmc.sh has no branch for a bug that TSO has and PSO has not, and   *)
(* would call it an error: no program of the corpus, on pointers or not,   *)
(* gets that conclusion unless a run of CBMC ended without an answer.      *)
ErrorMeansNoAnswer ==
  tool = "cbmc" /\ Len(row) = 3 /\ row[3] = "Error/Timeout (Check Log)" => ~ AllAnswered
=============================================================================
