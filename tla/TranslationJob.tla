---------------------------- MODULE TranslationJob ----------------------------
(***************************************************************************)
(* One translation job as process_job of services/translation_jobs.py      *)
(* works through its segments: retries, the pipeline of model stages, QA,  *)
(* quality scores, human review requests, the budget and cancellation, with*)
(* the counters and errors_json of the job row, and what happens when the  *)
(* process stops in the middle and the job is delivered again.             *)
(*                                                                         *)
(* One process works on the job at a time: that is OneProcessorPerJob of   *)
(* JobQueue.  An action ends with a COMMIT or with the last read before    *)
(* one.  A completed model run costs one token.                            *)
(***************************************************************************)
EXTENDS Integers, FiniteSets

CONSTANTS
  N,           (* segments of the job, in the order of _segments_for_job      *)
  Stages,      (* model stages of the pipeline                                *)
  MaxRetries,  (* config max_retries                                          *)
  Configs,     (* the config_json values considered                           *)
  MaxTroubles  (* bound: processes that stop, recoveries of a slow one, and   *)
               (* translations that reviewers reject, in all                  *)

ASSUME ConstantsAssumption ==
  /\ N \in Nat
  /\ Stages \in Nat \ {0}
  /\ MaxRetries \in Nat
  /\ Configs \subseteq [force : BOOLEAN, stopOnError : BOOLEAN,
                        judge : BOOLEAN,      \* there are qa_evaluators
                        quality : BOOLEAN,    \* quality_v2_enabled
                        limit : Nat]          \* max_job_*_tokens, 0 for None
  /\ MaxTroubles \in Nat

VARIABLES
  \* the row of translation_jobs
  config,     (* config_json                                                  *)
  status,
  total, completed, failed, skipped,   (* the *_segments columns              *)
  spent,      (* input_tokens / output_tokens / estimated_cost_usd            *)
  current,    (* current_segment_id, 0 for NULL                               *)
  cancelReq,
  errors,     (* errors_json as Postgres has it                               *)
  \* other tables
  text,       (* whose translation a segment carries                          *)
  runs,       (* tokens of the completed model runs of this job               *)
  low,        (* segments scored below human_review_below                     *)
  reviewed,   (* segments this job requested a review for                     *)
  \* the API's cancel request
  cancel,
  \* the process inside process_job
  pc,
  at,         (* index of the segment in the loop                             *)
  attempt, stage,
  errs,       (* the local list errors                                        *)
  saved,      (* what SQLAlchemy knows of job.errors_json, see Append         *)
  known,      (* the segments as the session loaded them                      *)
  seen,       (* the status that db.refresh(job) loaded                       *)
  \* counts of the model
  late,       (* segments entered after a cancel request was committed        *)
  faults,     (* processes that stopped, recoveries of a slow one             *)
  rejections, (* translations rejected                                        *)
  lost        (* for each segment, translations of others that this job, not  *)
              (* being forced, replaced                                       *)

row     == <<config, status, total, completed, failed, skipped, spent, current, cancelReq, errors>>
tables  == <<text, runs, low, reviewed>>
process == <<pc, at, attempt, stage, errs, saved, known, seen>>
counts  == <<late, faults, rejections, lost>>
vars    == <<row, tables, cancel, process, counts>>

(* errors_json: its translation_error entries, and whether it has entries of *)
(* QA and scoring (qa_error, quality_critical_fail, quality_v2_error,        *)
(* low_quality) and of the budget.                                           *)
ErrorLists == [failures : Nat, quality : BOOLEAN, budget : BOOLEAN]
NoErrors   == [failures |-> 0, quality |-> FALSE, budget |-> FALSE]
HasErrors(e) == e.failures > 0 \/ e.quality \/ e.budget

Finished == {"completed", "completed_with_warnings", "failed", "budget_exceeded"}
Terminal == Finished \union {"cancelled"}
Statuses == Terminal \union {"queued", "running"}
Texts    == {"none", "machine", "other", "rejected"}
Translated == {"machine", "other"}   \* status "translated" and a translated_text
InLoop   == {"gate", "enter", "skip", "stage", "finalize", "judge", "score", "review", "count", "fail"}
Points   == {"idle", "read", "begin"} \union InLoop

TypeOK ==
  /\ config \in Configs
  /\ status \in Statuses
  /\ total \in {0, N}
  /\ completed \in Nat /\ failed \in Nat /\ skipped \in Nat
  /\ spent \in Nat /\ runs \in Nat
  /\ current \in 0..N
  /\ cancelReq \in BOOLEAN
  /\ errors \in ErrorLists /\ errs \in ErrorLists
  /\ text \in [1..N -> Texts] /\ known \in [1..N -> Texts]
  /\ low \subseteq 1..N /\ reviewed \subseteq 1..N
  /\ cancel \in {"none", "sawQueued", "sawRunning", "closed"}
  /\ pc \in Points
  /\ at \in 1..N+1
  /\ pc \in InLoop \ {"gate"} => at <= N
  /\ attempt \in 0..MaxRetries
  /\ stage \in 1..Stages
  /\ saved \in {"fresh", "assigned", "flushed"}
  /\ seen \in Statuses
  /\ late \in Nat
  /\ faults \in Nat /\ rejections \in Nat
  /\ faults + rejections <= MaxTroubles
  /\ lost \in [1..N -> Nat]

(* No segment loaded.                                                        *)
Unread == [s \in 1..N |-> "none"]

(* A queued row as create_job commits it; segments may be translated already.*)
Init ==
  /\ config \in Configs
  /\ status = "queued"
  /\ total = 0 /\ completed = 0 /\ failed = 0 /\ skipped = 0
  /\ spent = 0 /\ runs = 0
  /\ current = 0
  /\ cancelReq = FALSE
  /\ errors = NoErrors /\ errs = NoErrors
  /\ text = Unread /\ known = Unread
  /\ low = {} /\ reviewed = {}
  /\ cancel = "none"
  /\ pc = "idle" /\ at = 1 /\ attempt = 0 /\ stage = 1
  /\ saved = "fresh" /\ seen = "queued"
  /\ late = 0 /\ faults = 0 /\ rejections = 0
  /\ lost = [s \in 1..N |-> 0]

(* Mutant: > instead of >=.                                                  *)
OverBudgetStrictly(tokens) == config.limit # 0 /\ tokens > config.limit

(* _budget_violation                                                         *)
OverBudget(tokens) == config.limit # 0 /\ tokens >= config.limit

(* job.errors_json = errors.  The row object has a list of its own after a   *)
(* refresh ("fresh"), so the first assignment is a change to be flushed      *)
(* ("assigned").  After that flush the attribute and the local are one list: *)
(* appending to it and assigning it again is no change ("flushed").          *)
Assign == IF saved = "flushed" THEN "flushed" ELSE "assigned"
Flush  == IF saved = "assigned" THEN "flushed" ELSE saved

(* errors_json after a flush, and after one that follows an assignment of e. *)
Flushed     == IF saved = "assigned" THEN errs ELSE errors
Assigned(e) == IF saved = "flushed" THEN errors ELSE e

Goto(p) == pc' = p

(* The process leaves process_job, and its local variables with it.          *)
Leave ==
  /\ Goto("idle")
  /\ at' = 1 /\ attempt' = 0 /\ stage' = 1
  /\ errs' = NoErrors /\ saved' = "fresh"
  /\ known' = Unread /\ seen' = "queued"

(* ... after it has written its last status.                                 *)
Return(s) ==
  /\ status' = s
  /\ current' = 0
  /\ Leave

NextSegment == at' = at + 1 /\ Goto("gate")

-------------------------------------------------------------------------------
(* Before the loop.                                                          *)

(* A delivery by the queue; a job in a terminal status is left alone.        *)
Start ==
  /\ pc = "idle"
  /\ status \notin Terminal
  /\ Goto("read")
  /\ UNCHANGED <<row, tables, cancel, at, attempt, stage, errs, saved, known, seen, counts>>

(* Mutant: the segments are not loaded anew.                                 *)
ReadJobOnly ==
  /\ pc = "read"
  /\ seen' = status
  /\ saved' = "fresh"
  /\ Goto("begin")
  /\ UNCHANGED <<row, tables, cancel, known, at, attempt, stage, errs, counts>>

(* db.refresh(job) and _segments_for_job.                                    *)
Read ==
  /\ pc = "read"
  /\ seen' = status
  /\ known' = text
  /\ saved' = "fresh"
  /\ Goto("begin")
  /\ UNCHANGED <<row, tables, cancel, at, attempt, stage, errs, counts>>

(* status = "running" is no change when the refresh has read "running".      *)
Begin ==
  /\ pc = "begin"
  /\ total' = N
  /\ status' = IF seen = "running" THEN status ELSE "running"
  /\ errs' = errors
  /\ Goto("gate")
  /\ seen' = "queued"              \* not looked at again
  /\ UNCHANGED <<config, completed, failed, skipped, spent, current, cancelReq, errors,
                 tables, cancel, at, attempt, stage, saved, known, counts>>

-------------------------------------------------------------------------------
(* The top of the loop: refresh, telemetry, budget, cancellation.            *)

GateBudget ==
  /\ pc = "gate" /\ at <= N
  /\ OverBudget(runs)
  /\ Return("budget_exceeded")
  /\ spent' = runs
  /\ errors' = [errs EXCEPT !.budget = TRUE]
  /\ UNCHANGED <<config, total, completed, failed, skipped, cancelReq, tables, cancel, counts>>

(* Mutant: returns without writing the status.                               *)
GateCancelSilently ==
  /\ pc = "gate" /\ at <= N
  /\ ~OverBudget(runs)
  /\ cancelReq
  /\ Leave
  /\ UNCHANGED <<row, tables, cancel, counts>>

GateCancel ==
  /\ pc = "gate" /\ at <= N
  /\ ~OverBudget(runs)
  /\ cancelReq
  /\ Return("cancelled")
  /\ spent' = runs
  /\ UNCHANGED <<config, total, completed, failed, skipped, cancelReq, errors,
                 tables, cancel, counts>>

(* Mutants: no db.refresh(job), so that the list assigned in an earlier       *)
(* iteration stays the attribute; no budget, no cancellation check.          *)
GatePassUnrefreshed ==
  /\ pc = "gate" /\ at <= N
  /\ ~OverBudget(runs)
  /\ ~cancelReq
  /\ Goto("enter")
  /\ UNCHANGED <<row, tables, cancel, at, attempt, stage, errs, saved, known, seen, counts>>

GatePassAnyBudget ==
  /\ pc = "gate" /\ at <= N
  /\ ~cancelReq
  /\ saved' = "fresh"
  /\ Goto("enter")
  /\ UNCHANGED <<row, tables, cancel, at, attempt, stage, errs, known, seen, counts>>

GatePassCancelled ==
  /\ pc = "gate" /\ at <= N
  /\ ~OverBudget(runs)
  /\ saved' = "fresh"
  /\ Goto("enter")
  /\ UNCHANGED <<row, tables, cancel, at, attempt, stage, errs, known, seen, counts>>

GatePass ==
  /\ pc = "gate" /\ at <= N
  /\ ~OverBudget(runs)
  /\ ~cancelReq
  /\ saved' = "fresh"
  /\ Goto("enter")
  /\ UNCHANGED <<row, tables, cancel, at, attempt, stage, errs, known, seen, counts>>

(* Mutant: translated segments are not skipped.                              *)
EnterAlways ==
  /\ pc = "enter"
  /\ current' = at
  /\ spent' = runs
  /\ Goto("stage")
  /\ attempt' = 0 /\ stage' = 1
  /\ late' = IF cancelReq THEN late + 1 ELSE late
  /\ UNCHANGED <<config, status, total, completed, failed, skipped, cancelReq, errors,
                 tables, cancel, at, errs, saved, known, seen, faults, rejections, lost>>

(* current_segment_id is committed; the segment is skipped if the session    *)
(* loaded it with a translation, whatever it carries by now.                 *)
Enter ==
  /\ pc = "enter"
  /\ current' = at
  /\ spent' = runs
  /\ Goto(IF ~config.force /\ known[at] \in Translated THEN "skip" ELSE "stage")
  /\ attempt' = 0 /\ stage' = 1
  /\ late' = IF cancelReq THEN late + 1 ELSE late
  /\ UNCHANGED <<config, status, total, completed, failed, skipped, cancelReq, errors,
                 tables, cancel, at, errs, saved, known, seen, faults, rejections, lost>>

Skip ==
  /\ pc = "skip"
  /\ skipped' = skipped + 1
  /\ NextSegment
  /\ UNCHANGED <<config, status, total, completed, failed, spent, current, cancelReq, errors,
                 tables, cancel, attempt, stage, errs, saved, known, seen, counts>>

-------------------------------------------------------------------------------
(* run_translation_pipeline, its retries, and a segment that fails.          *)

(* generate_translation_version: one model run, committed with its tokens.   *)
StageDone ==
  /\ pc = "stage"
  /\ runs' = runs + 1
  /\ IF stage < Stages
       THEN stage' = stage + 1 /\ UNCHANGED pc
       ELSE Goto("finalize") /\ UNCHANGED stage
  /\ UNCHANGED <<row, text, low, reviewed, cancel, at, attempt, errs, saved, known, seen, counts>>

(* finalize_translation_version writes the segment it has in the session: if *)
(* that one has status "translated" already, the status is no change and a   *)
(* rejection committed meanwhile stays.                                      *)
Finalize ==
  /\ pc = "finalize"
  /\ text' = [text EXCEPT ![at] =
       IF @ = "rejected" /\ known[at] \in Translated THEN "rejected" ELSE "machine"]
  /\ known' = [known EXCEPT ![at] = "machine"]
  /\ Goto(IF config.judge THEN "judge" ELSE "score")
  /\ attempt' = 0 /\ stage' = 1
  /\ lost' = [lost EXCEPT ![at] = IF text[at] = "other" /\ ~config.force THEN @ + 1 ELSE @]
  /\ UNCHANGED <<row, runs, low, reviewed, cancel, at, errs, saved, seen, late, faults, rejections>>

AttemptFails ==
  /\ pc = "stage"
  /\ attempt < MaxRetries
  /\ attempt' = attempt + 1 /\ stage' = 1
  /\ UNCHANGED <<row, tables, cancel, pc, at, errs, saved, known, seen, counts>>

(* The last attempt fails.  The query of _refresh_job_telemetry flushes the  *)
(* error, so that a budget error appended after it is not written.           *)
SegmentFails ==
  /\ pc = "stage"
  /\ attempt = MaxRetries
  /\ failed' = failed + 1
  /\ spent' = runs
  /\ errors' = Assigned([errs EXCEPT !.failures = @ + 1])
  /\ \/ /\ OverBudget(runs)
        /\ Return("budget_exceeded")
     \/ /\ ~OverBudget(runs)
        /\ errs' = [errs EXCEPT !.failures = @ + 1]
        /\ saved' = "flushed"
        /\ attempt' = 0 /\ stage' = 1
        /\ IF config.stopOnError THEN Goto("fail") /\ UNCHANGED at ELSE NextSegment
        /\ UNCHANGED <<status, current, known, seen>>
  /\ UNCHANGED <<config, total, completed, skipped, cancelReq, tables, cancel, counts>>

(* stop_on_error: the status is a second COMMIT.                             *)
Fail ==
  /\ pc = "fail"
  /\ Return("failed")
  /\ UNCHANGED <<config, total, completed, failed, skipped, spent, cancelReq, errors,
                 tables, cancel, counts>>

-------------------------------------------------------------------------------
(* QA, quality score, review request, and counting a translated segment.     *)

JudgeDone ==
  /\ pc = "judge"
  /\ runs' = runs + 1
  /\ Goto("score")
  /\ UNCHANGED <<row, text, low, reviewed, cancel, at, attempt, stage, errs, saved, known, seen, counts>>

(* qa_error is appended after the last COMMIT of the evaluation.             *)
JudgeFails ==
  /\ pc = "judge"
  /\ errs' = [errs EXCEPT !.quality = TRUE]
  /\ saved' = Assign
  /\ Goto("score")
  /\ UNCHANGED <<row, tables, cancel, at, attempt, stage, known, seen, counts>>

(* evaluate_translation_quality_v2 (its queries flush, its COMMIT commits)   *)
(* and the errors that follow from the score.  Without a score there are     *)
(* none.                                                                     *)
Score(complains, isLow) ==
  /\ pc = "score"
  /\ complains \/ isLow => config.quality \/ (config.judge /\ saved = "fresh")
  /\ errors' = IF config.quality THEN Flushed ELSE errors
  /\ errs' = IF complains THEN [errs EXCEPT !.quality = TRUE] ELSE errs
  /\ LET flushed == IF config.quality THEN Flush ELSE saved
     IN  saved' = IF complains /\ flushed # "flushed" THEN "assigned" ELSE flushed
  /\ low' = IF isLow THEN low \union {at} ELSE low
  /\ Goto(IF isLow THEN "review" ELSE "count")
  /\ UNCHANGED <<config, status, total, completed, failed, skipped, spent, current, cancelReq,
                 text, runs, reviewed, cancel, at, attempt, stage, known, seen, counts>>

(* Mutant: the score is committed, the request is left to somebody else.     *)
RequestReviewNever ==
  /\ pc = "review"
  /\ Goto("count")
  /\ UNCHANGED <<row, tables, cancel, at, attempt, stage, errs, saved, known, seen, counts>>

RequestReview ==
  /\ pc = "review"
  /\ reviewed' = reviewed \union {at}
  /\ errors' = Flushed
  /\ saved' = Flush
  /\ Goto("count")
  /\ UNCHANGED <<config, status, total, completed, failed, skipped, spent, current, cancelReq,
                 text, runs, low, cancel, at, attempt, stage, errs, known, seen, counts>>

Count ==
  /\ pc = "count"
  /\ completed' = completed + 1
  /\ spent' = runs
  /\ \/ /\ OverBudget(runs)
        /\ errors' = IF saved = "fresh" THEN [errs EXCEPT !.budget = TRUE] ELSE Flushed
        /\ Return("budget_exceeded")
     \/ /\ ~OverBudget(runs)
        /\ errors' = Flushed
        /\ saved' = Flush
        /\ NextSegment
        /\ UNCHANGED <<status, current, attempt, stage, errs, known, seen>>
  /\ UNCHANGED <<config, total, failed, skipped, cancelReq, tables, cancel, counts>>

(* Mutant: the status does not look at errors and failures.                  *)
FinishCompleted ==
  /\ pc = "gate" /\ at = N + 1
  /\ spent' = runs
  /\ errors' = Assigned([errs EXCEPT !.budget = @ \/ OverBudget(runs)])
  /\ Return(IF OverBudget(runs) THEN "budget_exceeded" ELSE "completed")
  /\ UNCHANGED <<config, total, completed, failed, skipped, cancelReq, tables, cancel, counts>>

(* After the loop: telemetry and the budget once more, then the last COMMIT. *)
Finish ==
  /\ pc = "gate" /\ at = N + 1
  /\ spent' = runs
  /\ errors' = Assigned([errs EXCEPT !.budget = @ \/ OverBudget(runs)])
  /\ Return(CASE OverBudget(runs)                 -> "budget_exceeded"
              [] ~OverBudget(runs) /\ (failed > 0 \/ HasErrors(errs)) -> "completed_with_warnings"
              [] OTHER                            -> "completed")
  /\ UNCHANGED <<config, total, completed, failed, skipped, cancelReq, tables, cancel, counts>>

-------------------------------------------------------------------------------
(* The rest of the system.                                                   *)

(* cancel_translation_job: read, then commit what follows from the read.     *)
CancelRead ==
  /\ cancel = "none"
  /\ cancel' = CASE status = "queued"  -> "sawQueued"
                 [] status = "running" -> "sawRunning"
                 [] OTHER              -> "closed"
  /\ UNCHANGED <<row, tables, process, counts>>

CancelCommit ==
  /\ cancel \in {"sawQueued", "sawRunning"}
  /\ cancelReq' = TRUE
  /\ status' = IF cancel = "sawQueued" THEN "cancelled" ELSE status
  /\ cancel' = "closed"
  /\ UNCHANGED <<config, total, completed, failed, skipped, spent, current, errors,
                 tables, process, counts>>

(* Another session finalizes a version of the segment: a reviewer, the API.  *)
OthersFinalize(s) ==
  /\ text' = [text EXCEPT ![s] = "other"]
  /\ UNCHANGED <<row, runs, low, reviewed, cancel, process, counts>>

(* resolve_human_review rejects the translation: the text stays, the status  *)
(* becomes needs_review.                                                     *)
OthersReject(s) ==
  /\ text[s] \in Translated
  /\ faults + rejections < MaxTroubles
  /\ rejections' = rejections + 1
  /\ text' = [text EXCEPT ![s] = "rejected"]
  /\ UNCHANGED <<row, runs, low, reviewed, cancel, process, late, faults, lost>>

(* The process dies, or process_job raises: the row stays as committed.      *)
ProcessStops ==
  /\ pc # "idle"
  /\ faults + rejections < MaxTroubles
  /\ faults' = faults + 1
  /\ Leave
  /\ UNCHANGED <<row, tables, cancel, late, rejections, lost>>

(* recover_jobs on a running row nobody has touched for the recovery age,    *)
(* because nobody works on it or (a fault) the work is slow.                 *)
Recover ==
  /\ status = "running"
  /\ \/ pc = "idle" /\ UNCHANGED faults
     \/ pc # "idle" /\ faults + rejections < MaxTroubles /\ faults' = faults + 1
  /\ status' = "queued"
  /\ current' = 0
  /\ UNCHANGED <<config, total, completed, failed, skipped, spent, cancelReq, errors,
                 tables, cancel, process, late, rejections, lost>>

-------------------------------------------------------------------------------
Gate == GateBudget \/ GateCancel \/ GatePass

Segment ==
  \/ Enter \/ Skip \/ StageDone \/ Finalize \/ AttemptFails \/ SegmentFails \/ Fail
  \/ JudgeDone \/ JudgeFails \/ (\E complains, isLow \in BOOLEAN : Score(complains, isLow))
  \/ RequestReview \/ Count

ProcessJob == Start \/ Read \/ Begin \/ Gate \/ Segment \/ Finish

Environment ==
  CancelRead \/ CancelCommit \/ (\E s \in 1..N : OthersFinalize(s) \/ OthersReject(s)) \/ ProcessStops \/ Recover

Next == ProcessJob \/ Environment

Spec == Init /\ [][Next]_vars

(* A live process goes on.  A queued job is delivered, a running one nobody  *)
(* works on is recovered (recover_jobs runs whenever a worker is idle); a    *)
(* delivery of a running row may happen but is not relied on.                *)
Fairness ==
  /\ WF_vars(ProcessJob /\ (pc = "idle" => status = "queued"))
  /\ WF_vars(Recover /\ pc = "idle")
  /\ WF_vars(CancelCommit)

FairSpec == Spec /\ Fairness
-------------------------------------------------------------------------------
(* Safety.                                                                   *)

(* errors_json, as Postgres has it, holds one translation_error for every    *)
(* segment counted in failed_segments, although process_job assigns one and  *)
(* the same list to the column again and again (process_job, errors).        *)
FailuresAreExplained == errors.failures = failed

(* Tokens one turn of the loop may spend: retries that fail in their last    *)
(* stage, an attempt that succeeds, and its judge.                           *)
TurnCost == MaxRetries * (Stages - 1) + Stages + 1

(* The budget is exceeded by less than one turn of the loop.                 *)
BudgetOvershoot == config.limit # 0 => runs < config.limit + TurnCost

(* A job that ends as completed, with warnings or without, is below its limit.*)
FinishedWithinBudget ==
  status \in {"completed", "completed_with_warnings"} /\ config.limit # 0 => runs < config.limit

(* Over all deliveries of the job together, wherever its processes stopped,  *)
(* a job with a limit spends less than one turn of the loop beyond it, and if*)
(* it ends as completed, with warnings or without, it has not even reached it*)
(* (_stop_for_budget at the top of the loop, after every segment, and after  *)
(* the last one).                                                            *)
BudgetIsKept == BudgetOvershoot /\ FinishedWithinBudget

(* "completed" without warnings: every segment carries a translation.        *)
CompletedMeansTranslated ==
  status = "completed" => \A s \in 1..N : text[s] # "none"

(* Unless forced, a job counts no segment as completed that carries no       *)
(* translation, and each once, and once more for every rejection.            *)
CompletedOncePerSegment ==
  ~config.force => completed <= Cardinality({s \in 1..N : text[s] # "none"}) + rejections

(* What the row says is completed has been translated: the job's status, also*)
(* when an earlier delivery of the job had failed on some segments, and the  *)
(* count of its segments, however often it is delivered again (the skip check*)
(* of process_job, the last status).                                         *)
CompletedIsEarned == CompletedMeansTranslated /\ CompletedOncePerSegment

(* At most one segment is entered after a cancel request was committed: the  *)
(* one whose turn had passed its check of cancellation_requested.            *)
CancelStopsSoon == late <= 1

(* A segment scored below human_review_below gets its review request; only a *)
(* process that stops between the two COMMITs leaves one out.                *)
ReviewsMissedByStopsOnly ==
  Cardinality(low \ reviewed) <= faults + (IF pc = "review" THEN 1 ELSE 0)

(* A job without force replaces another session's translation only of a      *)
(* segment that had none, or a rejected one, when this delivery read the     *)
(* segments; and over all its deliveries it does so once for a segment, and  *)
(* once more for every rejection, however often the others translate it.     *)
KeepsOthersWork ==
  [][\A s \in 1..N : text[s] = "other" /\ text'[s] = "machine" =>
        config.force \/ (known[s] \notin Translated /\ lost[s] <= rejections)]_vars

(* A budget_exceeded job says so in errors_json (_stop_for_budget).          *)
BudgetStopIsExplained == status = "budget_exceeded" => errors.budget

(* progress_percent of api/jobs.py is a percentage.                          *)
ProgressIsAPercentage == total > 0 => completed + failed + skipped <= total

(* Liveness.                                                                 *)

(* A queued job ends, through retries, stops and further deliveries.         *)
JobEnds == status = "queued" ~> status \in Terminal
===============================================================================
