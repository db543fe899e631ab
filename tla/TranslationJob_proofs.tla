------------------------- MODULE TranslationJob_proofs -------------------------
(***************************************************************************)
(* Proofs about TranslationJob, for every number of segments, stages and   *)
(* retries, every set of configurations and any number of troubles.        *)
(***************************************************************************)
EXTENDS TranslationJob, FiniteSetTheorems, TLAPS

(* The helpers that every action is written with.                            *)
USE DEF row, tables, process, counts, Goto, Leave, Return, NextSegment

-------------------------------------------------------------------------------
(* Types.                                                                    *)

LEMMA ErrorListsType ==
  ASSUME errors \in ErrorLists, errs \in ErrorLists
  PROVE  /\ NoErrors \in ErrorLists
         /\ Flushed \in ErrorLists
         /\ [errs EXCEPT !.budget = TRUE] \in ErrorLists
         /\ [errs EXCEPT !.quality = TRUE] \in ErrorLists
         /\ [errs EXCEPT !.failures = @ + 1] \in ErrorLists
         /\ [errs EXCEPT !.budget = @ \/ OverBudget(runs)] \in ErrorLists
         /\ Assigned([errs EXCEPT !.failures = @ + 1]) \in ErrorLists
         /\ Assigned([errs EXCEPT !.budget = @ \/ OverBudget(runs)]) \in ErrorLists
<1>1. [errs EXCEPT !.failures = @ + 1] \in ErrorLists
  BY DEF ErrorLists
<1>2. OverBudget(runs) \in BOOLEAN
  BY DEF OverBudget
<1>3. [errs EXCEPT !.budget = @ \/ OverBudget(runs)] \in ErrorLists
  BY <1>2 DEF ErrorLists
<1>4. /\ NoErrors \in ErrorLists
      /\ [errs EXCEPT !.budget = TRUE] \in ErrorLists
      /\ [errs EXCEPT !.quality = TRUE] \in ErrorLists
  BY DEF ErrorLists, NoErrors
<1>5. QED
  BY <1>1, <1>3, <1>4 DEF Flushed, Assigned

LEMMA JobTypeStep == TypeOK /\ [Next]_vars => TypeOK'
<1> SUFFICES ASSUME TypeOK, [Next]_vars PROVE TypeOK'
  OBVIOUS
<1> USE DEF TypeOK, Statuses, Terminal, Finished, InLoop, Points, Texts
<1>0. N \in Nat /\ Stages \in Nat \ {0} /\ MaxRetries \in Nat /\ MaxTroubles \in Nat
  BY ConstantsAssumption
<1>e. /\ NoErrors \in ErrorLists
      /\ Flushed \in ErrorLists
      /\ [errs EXCEPT !.budget = TRUE] \in ErrorLists
      /\ [errs EXCEPT !.quality = TRUE] \in ErrorLists
      /\ [errs EXCEPT !.failures = @ + 1] \in ErrorLists
      /\ [errs EXCEPT !.budget = @ \/ OverBudget(runs)] \in ErrorLists
      /\ Assigned([errs EXCEPT !.failures = @ + 1]) \in ErrorLists
      /\ Assigned([errs EXCEPT !.budget = @ \/ OverBudget(runs)]) \in ErrorLists
  BY ErrorListsType
<1>u. Unread \in [1..N -> Texts]
  BY DEF Unread
<1>1. ASSUME Start PROVE TypeOK'
  BY <1>0, <1>1 DEF Start
<1>2. ASSUME Read PROVE TypeOK'
  BY <1>0, <1>2 DEF Read
<1>3. ASSUME Begin PROVE TypeOK'
  BY <1>0, <1>3 DEF Begin
<1>4. ASSUME GateBudget PROVE TypeOK'
  BY <1>0, <1>e, <1>u, <1>4, SMTT(60) DEF GateBudget
<1>5. ASSUME GateCancel PROVE TypeOK'
  BY <1>0, <1>e, <1>u, <1>5, SMTT(60) DEF GateCancel
<1>6. ASSUME GatePass PROVE TypeOK'
  BY <1>0, <1>6 DEF GatePass
<1>7. ASSUME Enter PROVE TypeOK'
  BY <1>0, <1>7 DEF Enter
<1>8. ASSUME Skip PROVE TypeOK'
  BY <1>0, <1>8 DEF Skip
<1>9. ASSUME StageDone PROVE TypeOK'
  BY <1>0, <1>9 DEF StageDone
<1>10. ASSUME Finalize PROVE TypeOK'
  BY <1>0, <1>10 DEF Finalize
<1>11. ASSUME AttemptFails PROVE TypeOK'
  BY <1>0, <1>11 DEF AttemptFails
<1>12. ASSUME SegmentFails PROVE TypeOK'
  <2>1. errors' \in ErrorLists /\ errs' \in ErrorLists
    BY <1>e, <1>12 DEF SegmentFails
  <2>2. CASE OverBudget(runs)
    BY <1>0, <1>u, <1>12, <2>1, <2>2, SMTT(30) DEF SegmentFails
  <2>3. CASE ~OverBudget(runs)
    <3>1. /\ \/ pc' = "fail" /\ at' = at
             \/ pc' = "gate" /\ at' = at + 1
          /\ at <= N
          /\ saved' = "flushed" /\ attempt' = 0 /\ stage' = 1
          /\ failed' = failed + 1 /\ spent' = runs
          /\ UNCHANGED <<status, current, known, seen>>
          /\ UNCHANGED <<config, total, completed, skipped, cancelReq, tables, cancel, counts>>
      BY <1>12, <2>3 DEF SegmentFails
    <3>2. QED
      BY <1>0, <2>1, <3>1
  <2>4. QED
    BY <2>2, <2>3
<1>13. ASSUME Fail PROVE TypeOK'
  BY <1>0, <1>e, <1>u, <1>13, SMTT(60) DEF Fail
<1>14. ASSUME JudgeDone PROVE TypeOK'
  BY <1>0, <1>14 DEF JudgeDone
<1>15. ASSUME JudgeFails PROVE TypeOK'
  BY <1>0, <1>e, <1>15 DEF JudgeFails, Assign
<1>16. ASSUME NEW complains \in BOOLEAN, NEW isLow \in BOOLEAN, Score(complains, isLow)
      PROVE  TypeOK'
  BY <1>0, <1>e, <1>16 DEF Score, Flush
<1>17. ASSUME RequestReview PROVE TypeOK'
  BY <1>0, <1>e, <1>17, SMTT(60) DEF RequestReview, Flush
<1>18. ASSUME Count PROVE TypeOK'
  <2>1. errors' \in ErrorLists /\ errs' \in ErrorLists
    BY <1>e, <1>18 DEF Count
  <2>2. CASE OverBudget(runs)
    BY <1>0, <1>u, <1>18, <2>1, <2>2, SMTT(30) DEF Count
  <2>3. CASE ~OverBudget(runs)
    <3>1. /\ at' = at + 1 /\ at <= N /\ pc' = "gate"
          /\ saved' \in {"fresh", "assigned", "flushed"}
          /\ completed' = completed + 1 /\ spent' = runs
          /\ UNCHANGED <<status, current, attempt, stage, errs, known, seen>>
          /\ UNCHANGED <<config, total, failed, skipped, cancelReq, tables, cancel, counts>>
      BY <1>18, <2>3 DEF Count, Flush
    <3>2. QED
      BY <1>0, <2>1, <3>1
  <2>4. QED
    BY <2>2, <2>3
<1>19. ASSUME Finish PROVE TypeOK'
  BY <1>0, <1>e, <1>u, <1>19 DEF Finish
<1>20. ASSUME CancelRead PROVE TypeOK'
  BY <1>0, <1>20 DEF CancelRead
<1>21. ASSUME CancelCommit PROVE TypeOK'
  BY <1>0, <1>21 DEF CancelCommit
<1>22. ASSUME NEW s \in 1..N, OthersFinalize(s) \/ OthersReject(s) PROVE TypeOK'
  <2>1. CASE OthersFinalize(s)
    BY <2>1 DEF OthersFinalize
  <2>2. CASE OthersReject(s)
    BY <1>0, <2>2 DEF OthersReject
  <2>3. QED
    BY <1>22, <2>1, <2>2
<1>23. ASSUME ProcessStops PROVE TypeOK'
  <2>1. errs' \in ErrorLists /\ known' \in [1..N -> Texts]
    BY <1>e, <1>u, <1>23 DEF ProcessStops
  <2>2. QED
    BY <1>0, <1>23, <2>1 DEF ProcessStops
<1>24. ASSUME Recover PROVE TypeOK'
  BY <1>0, <1>24 DEF Recover
<1>25. CASE UNCHANGED vars
  BY <1>25 DEF vars
<1>26. QED
  BY <1>1, <1>2, <1>3, <1>4, <1>5, <1>6, <1>7, <1>8, <1>9, <1>10, <1>11, <1>12, <1>13, <1>14, <1>15, <1>16, <1>17, <1>18, <1>19, <1>20, <1>21, <1>22, <1>23, <1>24, <1>25
  DEF Next, ProcessJob, Gate, Segment, Environment

(* The row of a job, its counters and the process's local variables keep      *)
(* their types; inside the loop the index is one of a segment.                *)
THEOREM JobTypeCorrect == Spec => []TypeOK
<1>1. NoErrors \in ErrorLists /\ Unread \in [1..N -> Texts]
  BY DEF NoErrors, ErrorLists, Unread, Texts
<1>2. N \in Nat /\ Stages \in Nat \ {0} /\ MaxRetries \in Nat /\ MaxTroubles \in Nat
  BY ConstantsAssumption
<1>3. Init => TypeOK
  <2> SUFFICES ASSUME Init PROVE TypeOK
    OBVIOUS
  <2>1. /\ status \in Statuses /\ seen \in Statuses
        /\ pc \in Points /\ pc \notin InLoop
    BY DEF Init, Statuses, Points, InLoop
  <2>2. /\ errors \in ErrorLists /\ errs \in ErrorLists
        /\ text \in [1..N -> Texts] /\ known \in [1..N -> Texts]
    BY <1>1 DEF Init
  <2>3. config \in Configs /\ total \in {0, N} /\ current \in 0..N /\ at \in 1..N+1
    BY <1>2 DEF Init
  <2>4. completed \in Nat /\ failed \in Nat /\ skipped \in Nat /\ spent \in Nat /\ runs \in Nat
    BY <1>2 DEF Init
  <2>5. attempt \in 0..MaxRetries /\ stage \in 1..Stages /\ saved \in {"fresh", "assigned", "flushed"}
    BY <1>2 DEF Init
  <2>6. low \subseteq 1..N /\ reviewed \subseteq 1..N /\ cancelReq \in BOOLEAN
    BY <1>2 DEF Init
  <2>7. /\ late \in Nat /\ faults \in Nat /\ rejections \in Nat
        /\ faults + rejections <= MaxTroubles /\ lost \in [1..N -> Nat]
    BY <1>2 DEF Init
  <2>8. cancel \in {"none", "sawQueued", "sawRunning", "closed"}
    BY <1>2 DEF Init
  <2>9. QED
    BY <2>1, <2>2, <2>3, <2>4, <2>5, <2>6, <2>7, <2>8 DEF TypeOK
<1>4. QED
  BY <1>3, JobTypeStep, PTL DEF Spec

-------------------------------------------------------------------------------
(* errors_json and failed_segments.                                           *)

(* The local list has every failure while the loop runs, and the attribute is *)
(* a list of its own from the refresh at the top of the loop until the first  *)
(* error of the turn: without the last part a failure would be lost whose     *)
(* list had been flushed already.                                             *)
ErrorInv ==
  /\ FailuresAreExplained
  /\ pc \in InLoop => errs.failures = failed
  /\ pc \in {"enter", "skip", "stage", "finalize", "judge"} => saved = "fresh"

LEMMA ErrorStep == TypeOK /\ ErrorInv /\ [Next]_vars => ErrorInv'
<1> SUFFICES ASSUME TypeOK, ErrorInv, [Next]_vars PROVE ErrorInv'
  OBVIOUS
<1> USE DEF ErrorInv, FailuresAreExplained, InLoop
<1>t. /\ errors \in ErrorLists /\ errs \in ErrorLists /\ failed \in Nat
      /\ saved \in {"fresh", "assigned", "flushed"}
  BY DEF TypeOK
<1>1. ASSUME Start \/ Read \/ Begin PROVE ErrorInv'
  BY <1>1 DEF Start, Read, Begin
<1>2. ASSUME Gate PROVE ErrorInv'
  BY <1>t, <1>2 DEF Gate, GateBudget, GateCancel, GatePass, ErrorLists
<1>3. ASSUME Enter \/ Skip \/ StageDone \/ Finalize \/ AttemptFails \/ Fail \/ JudgeDone
      PROVE  ErrorInv'
  BY <1>3 DEF Enter, Skip, StageDone, Finalize, AttemptFails, Fail, JudgeDone
<1>4. ASSUME SegmentFails PROVE ErrorInv'
  <2>1. /\ errors' = [errs EXCEPT !.failures = @ + 1]
        /\ failed' = failed + 1
        /\ \/ pc' = "idle"
           \/ pc' \in {"fail", "gate"} /\ errs' = [errs EXCEPT !.failures = @ + 1]
    BY <1>4 DEF SegmentFails, Assigned
  <2>2. QED
    BY <1>t, <1>4, <2>1 DEF SegmentFails, ErrorLists
<1>5. ASSUME JudgeFails PROVE ErrorInv'
  BY <1>t, <1>5 DEF JudgeFails, ErrorLists
<1>6. ASSUME NEW complains \in BOOLEAN, NEW isLow \in BOOLEAN, Score(complains, isLow)
      PROVE  ErrorInv'
  BY <1>t, <1>6 DEF Score, Flushed, ErrorLists
<1>7. ASSUME RequestReview PROVE ErrorInv'
  BY <1>t, <1>7 DEF RequestReview, Flushed
<1>8. ASSUME Count PROVE ErrorInv'
  BY <1>t, <1>8 DEF Count, Flushed, ErrorLists
<1>9. ASSUME Finish PROVE ErrorInv'
  BY <1>t, <1>9 DEF Finish, Assigned, ErrorLists
<1>10. ASSUME CancelRead \/ CancelCommit \/ ProcessStops \/ Recover PROVE ErrorInv'
  BY <1>10 DEF CancelRead, CancelCommit, ProcessStops, Recover
<1>11. ASSUME NEW s \in 1..N, OthersFinalize(s) \/ OthersReject(s) PROVE ErrorInv'
  BY <1>11 DEF OthersFinalize, OthersReject
<1>12. CASE UNCHANGED vars
  BY <1>12 DEF vars
<1>13. QED
  BY <1>1, <1>2, <1>3, <1>4, <1>5, <1>6, <1>7, <1>8, <1>9, <1>10, <1>11, <1>12
  DEF Next, ProcessJob, Segment, Environment

(* Every failed segment has its entry in errors_json as it is stored, over    *)
(* all deliveries of the job and whatever else was reported meanwhile.        *)
THEOREM FailuresExplained == Spec => []FailuresAreExplained
<1>1. Init => ErrorInv
  BY DEF Init, ErrorInv, FailuresAreExplained, NoErrors, InLoop
<1>2. TypeOK /\ ErrorInv /\ [Next]_vars => ErrorInv'
  BY ErrorStep
<1>3. ErrorInv => FailuresAreExplained
  BY DEF ErrorInv
<1>4. QED
  BY <1>1, <1>2, <1>3, JobTypeCorrect, PTL DEF Spec

-------------------------------------------------------------------------------
(* Cancellation.                                                              *)

(* A turn that starts after the request stops at the top of the loop, so that *)
(* nothing has been entered late when a segment is about to be entered.       *)
CancelInv ==
  /\ CancelStopsSoon
  /\ late > 0 => cancelReq
  /\ pc = "enter" => late = 0

LEMMA CancelStep == TypeOK /\ CancelInv /\ [Next]_vars => CancelInv'
<1> SUFFICES ASSUME TypeOK, CancelInv, [Next]_vars PROVE CancelInv'
  OBVIOUS
<1> USE DEF CancelInv, CancelStopsSoon
<1>t. late \in Nat /\ cancelReq \in BOOLEAN
  BY DEF TypeOK
<1>1. ASSUME Start \/ Read \/ Begin \/ Gate PROVE CancelInv'
  BY <1>t, <1>1 DEF Start, Read, Begin, Gate, GateBudget, GateCancel, GatePass
<1>2. ASSUME Enter PROVE CancelInv'
  BY <1>t, <1>2 DEF Enter
<1>3. ASSUME Skip \/ StageDone \/ Finalize \/ AttemptFails \/ SegmentFails \/ Fail PROVE CancelInv'
  BY <1>3 DEF Skip, StageDone, Finalize, AttemptFails, SegmentFails, Fail
<1>4. ASSUME JudgeDone \/ JudgeFails \/ RequestReview \/ Count \/ Finish PROVE CancelInv'
  BY <1>4 DEF JudgeDone, JudgeFails, RequestReview, Count, Finish
<1>5. ASSUME NEW complains \in BOOLEAN, NEW isLow \in BOOLEAN, Score(complains, isLow)
      PROVE  CancelInv'
  BY <1>5 DEF Score
<1>6. ASSUME CancelRead \/ CancelCommit \/ ProcessStops \/ Recover PROVE CancelInv'
  BY <1>6 DEF CancelRead, CancelCommit, ProcessStops, Recover
<1>7. ASSUME NEW s \in 1..N, OthersFinalize(s) \/ OthersReject(s) PROVE CancelInv'
  BY <1>7 DEF OthersFinalize, OthersReject
<1>8. CASE UNCHANGED vars
  BY <1>8 DEF vars
<1>9. QED
  BY <1>1, <1>2, <1>3, <1>4, <1>5, <1>6, <1>7, <1>8 DEF Next, ProcessJob, Segment, Environment

(* At most one segment is entered after a cancel request was committed, in    *)
(* all deliveries of the job together.                                        *)
THEOREM CancelBounded == Spec => []CancelStopsSoon
<1>1. Init => CancelInv
  BY DEF Init, CancelInv, CancelStopsSoon
<1>2. TypeOK /\ CancelInv /\ [Next]_vars => CancelInv'
  BY CancelStep
<1>3. CancelInv => CancelStopsSoon
  BY DEF CancelInv
<1>4. QED
  BY <1>1, <1>2, <1>3, JobTypeCorrect, PTL DEF Spec

-------------------------------------------------------------------------------
(* The budget.                                                                *)

(* Tokens this turn may have spent so far, from where the process is in it.   *)
Spendable ==
  CASE pc \in {"enter", "skip"}  -> 0
    [] pc = "stage"              -> attempt * (Stages - 1) + (stage - 1)
    [] pc \in {"finalize", "judge"} -> TurnCost - 1
    [] OTHER                     -> TurnCost

(* The gate has found the budget not exhausted, so this turn's tokens are all *)
(* that can be over the limit.                                                *)
BudgetInv == config.limit # 0 => runs < config.limit + Spendable

(* An attempt fails before its last stage is done.                            *)
LEMMA AttemptCost ==
  ASSUME NEW a \in Nat, NEW m \in Nat, NEW k \in Nat \ {0}
  PROVE  /\ (a + 1) * (k - 1) = a * (k - 1) + (k - 1)
         /\ a * (k - 1) \in Nat
         /\ a <= m => a * (k - 1) <= m * (k - 1)
<1>1. (a + 1) * (k - 1) = a * (k - 1) + (k - 1)
  OBVIOUS
<1>2. a * (k - 1) \in Nat
  OBVIOUS
<1>3. ASSUME a <= m PROVE a * (k - 1) <= m * (k - 1)
  BY <1>3
<1>4. QED
  BY <1>1, <1>2, <1>3

LEMMA ConfigFixed == [Next]_vars => config' = config
<1>1. ASSUME Start \/ Read \/ Begin \/ Gate PROVE config' = config
  BY <1>1 DEF Start, Read, Begin, Gate, GateBudget, GateCancel, GatePass
<1>2. ASSUME Enter \/ Skip \/ StageDone \/ Finalize \/ AttemptFails \/ SegmentFails \/ Fail
      PROVE  config' = config
  BY <1>2 DEF Enter, Skip, StageDone, Finalize, AttemptFails, SegmentFails, Fail
<1>3. ASSUME JudgeDone \/ JudgeFails \/ RequestReview \/ Count \/ Finish PROVE config' = config
  BY <1>3 DEF JudgeDone, JudgeFails, RequestReview, Count, Finish
<1>4. ASSUME NEW complains \in BOOLEAN, NEW isLow \in BOOLEAN, Score(complains, isLow)
      PROVE  config' = config
  BY <1>4 DEF Score
<1>5. ASSUME CancelRead \/ CancelCommit \/ ProcessStops \/ Recover PROVE config' = config
  BY <1>5 DEF CancelRead, CancelCommit, ProcessStops, Recover
<1>6. ASSUME NEW s \in 1..N, OthersFinalize(s) \/ OthersReject(s) PROVE config' = config
  BY <1>6 DEF OthersFinalize, OthersReject
<1>7. CASE UNCHANGED vars
  BY <1>7 DEF vars
<1>8. QED
  BY <1>1, <1>2, <1>3, <1>4, <1>5, <1>6, <1>7 DEF Next, ProcessJob, Segment, Environment

LEMMA BudgetStep == TypeOK /\ BudgetInv /\ [Next]_vars => BudgetInv'
<1> SUFFICES ASSUME TypeOK, BudgetInv, [Next]_vars PROVE BudgetInv'
  OBVIOUS
<1> SUFFICES ASSUME config.limit # 0 PROVE BudgetInv'
  BY ConfigFixed DEF BudgetInv
<1>t. /\ runs \in Nat /\ config.limit \in Nat
      /\ attempt \in 0..MaxRetries /\ stage \in 1..Stages
      /\ Stages \in Nat \ {0} /\ MaxRetries \in Nat
  BY ConstantsAssumption DEF TypeOK
<1>c. TurnCost \in Nat /\ TurnCost >= Stages + 1
  BY <1>t, AttemptCost DEF TurnCost
<1>s. /\ Spendable \in Nat
      /\ Spendable <= TurnCost
      /\ pc = "stage" => Spendable + 1 <= TurnCost - 1
  <2>1. attempt * (Stages - 1) \in Nat /\ attempt * (Stages - 1) <= MaxRetries * (Stages - 1)
    BY <1>t, AttemptCost
  <2>2. QED
    BY <1>t, <1>c, <2>1 DEF Spendable, TurnCost
<1>b. runs < config.limit + Spendable
  BY DEF BudgetInv
<1>1. ASSUME UNCHANGED <<config, runs>>, pc' \notin {"enter", "skip", "stage", "finalize", "judge"}
      PROVE  BudgetInv'
  BY <1>1, <1>t, <1>s, <1>b, <1>c DEF BudgetInv, Spendable, TurnCost
<1>2. ASSUME UNCHANGED <<config, runs, pc, attempt, stage>> PROVE BudgetInv'
  BY <1>2, <1>b DEF BudgetInv, Spendable, TurnCost
<1>3. ASSUME Start \/ Read \/ Begin \/ GateBudget \/ GateCancel PROVE BudgetInv'
  BY <1>1, <1>3 DEF Start, Read, Begin, GateBudget, GateCancel
<1>4. ASSUME GatePass PROVE BudgetInv'
  BY <1>t, <1>4 DEF GatePass, OverBudget, BudgetInv, Spendable
<1>5. ASSUME Enter PROVE BudgetInv'
  BY <1>t, <1>b, <1>5 DEF Enter, BudgetInv, Spendable
<1>6. ASSUME StageDone PROVE BudgetInv'
  <2>1. CASE stage < Stages
    BY <1>t, <1>b, <1>6, <2>1, AttemptCost DEF StageDone, BudgetInv, Spendable
  <2>2. CASE ~(stage < Stages)
    <3>1. Spendable + 1 <= TurnCost - 1 /\ Spendable' = TurnCost - 1
      BY <1>s, <1>6, <2>2 DEF StageDone, Spendable, TurnCost
    <3>2. QED
      BY <1>t, <1>s, <1>c, <1>b, <1>6, <3>1 DEF StageDone, BudgetInv
  <2>3. QED
    BY <2>1, <2>2
<1>7. ASSUME AttemptFails PROVE BudgetInv'
  <2>1. /\ Spendable = attempt * (Stages - 1) + (stage - 1)
        /\ Spendable' = (attempt + 1) * (Stages - 1)
    BY <1>t, <1>7, AttemptCost DEF AttemptFails, Spendable
  <2>2. Spendable <= Spendable' /\ Spendable' \in Nat
    BY <1>t, <2>1, AttemptCost
  <2>3. QED
    BY <1>t, <1>s, <1>b, <1>7, <2>2 DEF AttemptFails, BudgetInv
<1>8. ASSUME Finalize PROVE BudgetInv'
  BY <1>t, <1>c, <1>b, <1>8 DEF Finalize, BudgetInv, Spendable, TurnCost
<1>9. ASSUME JudgeDone PROVE BudgetInv'
  <2>1. Spendable = TurnCost - 1 /\ Spendable' = TurnCost
    BY <1>9 DEF JudgeDone, Spendable, TurnCost
  <2>2. QED
    BY <1>t, <1>c, <1>b, <1>9, <2>1 DEF JudgeDone, BudgetInv
<1>10. ASSUME Skip \/ SegmentFails \/ Fail \/ JudgeFails \/ RequestReview \/ Count \/ Finish
       PROVE  BudgetInv'
  BY <1>1, <1>10 DEF Skip, SegmentFails, Fail, JudgeFails, RequestReview, Count, Finish
<1>11. ASSUME NEW complains \in BOOLEAN, NEW isLow \in BOOLEAN, Score(complains, isLow)
       PROVE  BudgetInv'
  BY <1>1, <1>11 DEF Score
<1>12. ASSUME CancelRead \/ CancelCommit \/ ProcessStops \/ Recover PROVE BudgetInv'
  BY <1>1, <1>2, <1>12 DEF CancelRead, CancelCommit, ProcessStops, Recover
<1>13. ASSUME NEW s \in 1..N, OthersFinalize(s) \/ OthersReject(s) PROVE BudgetInv'
  BY <1>2, <1>13 DEF OthersFinalize, OthersReject
<1>14. CASE UNCHANGED vars
  BY <1>2, <1>14 DEF vars
<1>15. QED
  BY <1>3, <1>4, <1>5, <1>6, <1>7, <1>8, <1>9, <1>10, <1>11, <1>12, <1>13, <1>14
  DEF Next, ProcessJob, Gate, Segment, Environment

(* The model runs of a job, over all its deliveries, exceed its limit by less *)
(* than one turn of the loop costs.                                           *)
LEMMA BudgetBounded == Spec => []BudgetOvershoot
<1>1. Init => BudgetInv
  <2>1. Stages \in Nat \ {0} /\ MaxRetries \in Nat
    BY ConstantsAssumption
  <2>2. TurnCost \in Nat /\ TurnCost >= 1
    BY <2>1, AttemptCost DEF TurnCost
  <2>3. Init => pc = "idle" /\ runs = 0 /\ config.limit \in Nat
    BY ConstantsAssumption DEF Init
  <2>4. QED
    BY <2>2, <2>3 DEF BudgetInv, Spendable
<1>2. TypeOK /\ BudgetInv /\ [Next]_vars => BudgetInv'
  BY BudgetStep
<1>3. TypeOK /\ BudgetInv => BudgetOvershoot
  <2> SUFFICES ASSUME TypeOK, BudgetInv, config.limit # 0 PROVE runs < config.limit + TurnCost
    BY DEF BudgetOvershoot
  <2>1. /\ runs \in Nat /\ config.limit \in Nat
        /\ attempt \in 0..MaxRetries /\ stage \in 1..Stages
        /\ Stages \in Nat \ {0} /\ MaxRetries \in Nat
    BY ConstantsAssumption DEF TypeOK
  <2>2. attempt * (Stages - 1) \in Nat /\ attempt * (Stages - 1) <= MaxRetries * (Stages - 1)
    BY <2>1, AttemptCost
  <2>3. Spendable \in Nat /\ TurnCost \in Nat /\ Spendable <= TurnCost
    BY <2>1, <2>2 DEF Spendable, TurnCost
  <2>4. QED
    BY <2>1, <2>3 DEF BudgetInv
<1>4. QED
  BY <1>1, <1>2, <1>3, JobTypeCorrect, PTL DEF Spec

-------------------------------------------------------------------------------
(* What a finished job means.                                                 *)

(* The process that writes a finished status has left process_job.            *)
FinishInv ==
  /\ FinishedWithinBudget
  /\ status \in Finished => pc = "idle"

LEMMA FinishStep == TypeOK /\ FinishInv /\ [Next]_vars => FinishInv'
<1> SUFFICES ASSUME TypeOK, FinishInv, [Next]_vars PROVE FinishInv'
  OBVIOUS
<1> USE DEF FinishInv, FinishedWithinBudget, Finished
<1>t. runs \in Nat /\ config.limit \in Nat
  BY ConstantsAssumption DEF TypeOK
<1>c. config' = config
  BY ConfigFixed
<1>1. ASSUME Start \/ Read \/ Begin \/ Gate PROVE FinishInv'
  BY <1>1, <1>c DEF Start, Read, Begin, Gate, GateBudget, GateCancel, GatePass, Terminal
<1>2. ASSUME Enter \/ Skip \/ StageDone \/ Finalize \/ AttemptFails \/ SegmentFails \/ Fail
      PROVE  FinishInv'
  BY <1>2, <1>c DEF Enter, Skip, StageDone, Finalize, AttemptFails, SegmentFails, Fail
<1>3. ASSUME JudgeDone \/ JudgeFails \/ RequestReview \/ Count PROVE FinishInv'
  BY <1>3, <1>c DEF JudgeDone, JudgeFails, RequestReview, Count
<1>4. ASSUME NEW complains \in BOOLEAN, NEW isLow \in BOOLEAN, Score(complains, isLow)
      PROVE  FinishInv'
  BY <1>4, <1>c DEF Score
<1>5. ASSUME Finish PROVE FinishInv'
  BY <1>t, <1>c, <1>5 DEF Finish, OverBudget
<1>6. ASSUME CancelRead \/ CancelCommit \/ ProcessStops \/ Recover PROVE FinishInv'
  BY <1>6, <1>c DEF CancelRead, CancelCommit, ProcessStops, Recover
<1>7. ASSUME NEW s \in 1..N, OthersFinalize(s) \/ OthersReject(s) PROVE FinishInv'
  BY <1>7, <1>c DEF OthersFinalize, OthersReject
<1>8. CASE UNCHANGED vars
  BY <1>8 DEF vars
<1>9. QED
  BY <1>1, <1>2, <1>3, <1>4, <1>5, <1>6, <1>7, <1>8 DEF Next, ProcessJob, Segment, Environment

LEMMA FinishInvariant == Spec => []FinishInv
<1>1. Init => FinishInv
  BY DEF Init, FinishInv, FinishedWithinBudget, Finished
<1>2. TypeOK /\ FinishInv /\ [Next]_vars => FinishInv'
  BY FinishStep
<1>3. QED
  BY <1>1, <1>2, JobTypeCorrect, PTL DEF Spec

(* Over all deliveries of a job the budget is exceeded by less than one turn  *)
(* of the loop, and no job that has reached its limit ends as completed.      *)
THEOREM BudgetKept == Spec => []BudgetIsKept
<1>1. BudgetOvershoot /\ FinishInv => BudgetIsKept
  BY DEF FinishInv, BudgetIsKept
<1>2. QED
  BY <1>1, BudgetBounded, FinishInvariant, PTL

(* Behind the process every segment carries a translation, unless one has     *)
(* failed; what the session has loaded as translated stays so.                *)
Carried(s) == text[s] # "none"

TextInv ==
  /\ CompletedMeansTranslated
  /\ \A s \in 1..N : known[s] # "none" => Carried(s)
  /\ pc \notin InLoop => at = 1
  /\ pc \in InLoop => failed > 0 \/ \A s \in 1..at-1 : Carried(s)
  /\ pc = "skip" => known[at] \in Translated
  /\ pc \in {"judge", "score", "review", "count"} => Carried(at)

(* Steps that leave alone what TextInv is about, or go on inside a segment.   *)
LEMMA TextFrame ==
  ASSUME TypeOK, TextInv, UNCHANGED <<text, known, failed, at>>,
         status' = "completed" => status = "completed",
         pc' \in InLoop <=> pc \in InLoop,
         pc' # "skip" \/ pc' = pc,
         pc' \in {"judge", "score", "review", "count"} =>
           pc \in {"judge", "score", "review", "count"}
  PROVE  TextInv'
  BY DEF TextInv, CompletedMeansTranslated, Carried

LEMMA TextStep == TypeOK /\ FinishInv /\ TextInv /\ [Next]_vars => TextInv'
<1> SUFFICES ASSUME TypeOK, FinishInv, TextInv, [Next]_vars PROVE TextInv'
  OBVIOUS
<1>t. /\ N \in Nat /\ at \in 1..N+1 /\ failed \in Nat
      /\ text \in [1..N -> Texts] /\ known \in [1..N -> Texts]
      /\ pc \in InLoop \ {"gate"} => at <= N
  BY ConstantsAssumption DEF TypeOK
<1>l. ASSUME UNCHANGED <<text, failed>>, pc' = "idle", at' = 1, known' = Unread,
             status' = "completed" => status = "completed"
      PROVE  TextInv'
  BY <1>l, <1>t DEF TextInv, CompletedMeansTranslated, Carried, InLoop, Unread
<1>1. ASSUME Start PROVE TextInv'
  BY <1>1, TextFrame DEF Start, InLoop
<1>2. ASSUME Read PROVE TextInv'
  BY <1>t, <1>2 DEF Read, TextInv, CompletedMeansTranslated, Carried, InLoop
<1>3. ASSUME Begin PROVE TextInv'
  <2>1. at = 1
    BY <1>3 DEF Begin, TextInv, InLoop
  <2>2. QED
    BY <1>t, <1>3, <2>1 DEF Begin, TextInv, CompletedMeansTranslated, Carried, InLoop
<1>4. ASSUME GateBudget \/ GateCancel PROVE TextInv'
  BY <1>l, <1>4 DEF GateBudget, GateCancel
<1>5. ASSUME GatePass PROVE TextInv'
  BY <1>5, TextFrame DEF GatePass, InLoop
<1>6. ASSUME Enter PROVE TextInv'
  BY <1>t, <1>6 DEF Enter, TextInv, CompletedMeansTranslated, Carried, InLoop
<1>7. ASSUME Skip PROVE TextInv'
  <2>1. Carried(at)
    BY <1>t, <1>7 DEF Skip, TextInv, InLoop, Translated
  <2>2. QED
    BY <1>t, <1>7, <2>1 DEF Skip, TextInv, CompletedMeansTranslated, Carried, InLoop
<1>8. ASSUME StageDone \/ AttemptFails PROVE TextInv'
  BY <1>8, TextFrame DEF StageDone, AttemptFails, InLoop
<1>9. ASSUME Finalize PROVE TextInv'
  <2>1. text'[at] # "none" /\ \A s \in 1..N : s # at => text'[s] = text[s] /\ known'[s] = known[s]
    BY <1>t, <1>9 DEF Finalize, InLoop
  <2>2. QED
    BY <1>t, <1>9, <2>1 DEF Finalize, TextInv, CompletedMeansTranslated, Carried, InLoop
<1>10. ASSUME SegmentFails PROVE TextInv'
  <2>1. CASE OverBudget(runs)
    BY <1>t, <1>10, <2>1 DEF SegmentFails, TextInv, CompletedMeansTranslated, Carried, InLoop, Unread
  <2>2. CASE ~OverBudget(runs)
    BY <1>t, <1>10, <2>2 DEF SegmentFails, TextInv, CompletedMeansTranslated, Carried, InLoop
  <2>3. QED
    BY <2>1, <2>2
<1>11. ASSUME Fail PROVE TextInv'
  BY <1>l, <1>11 DEF Fail
<1>12. ASSUME JudgeDone \/ JudgeFails \/ RequestReview PROVE TextInv'
  BY <1>12, TextFrame DEF JudgeDone, JudgeFails, RequestReview, InLoop
<1>13. ASSUME NEW complains \in BOOLEAN, NEW isLow \in BOOLEAN, Score(complains, isLow)
       PROVE  TextInv'
  BY <1>13, TextFrame DEF Score, InLoop
<1>14. ASSUME Count PROVE TextInv'
  <2>1. CASE OverBudget(runs)
    BY <1>l, <1>14, <2>1 DEF Count
  <2>2. CASE ~OverBudget(runs)
    BY <1>t, <1>14, <2>2 DEF Count, TextInv, CompletedMeansTranslated, Carried, InLoop
  <2>3. QED
    BY <2>1, <2>2
<1>15. ASSUME Finish PROVE TextInv'
  <2>1. ASSUME status' = "completed" PROVE \A s \in 1..N : Carried(s)
    BY <1>t, <1>15, <2>1 DEF Finish, TextInv, InLoop
  <2>2. QED
    BY <1>t, <1>15, <2>1 DEF Finish, TextInv, CompletedMeansTranslated, Carried, InLoop, Unread
<1>16. ASSUME CancelRead \/ CancelCommit \/ Recover PROVE TextInv'
  BY <1>16, TextFrame DEF CancelRead, CancelCommit, Recover
<1>17. ASSUME ProcessStops PROVE TextInv'
  BY <1>l, <1>17 DEF ProcessStops
<1>18. ASSUME NEW s \in 1..N, OthersFinalize(s) \/ OthersReject(s) PROVE TextInv'
  <2>1. \A i \in 1..N : text[i] # "none" => text'[i] # "none"
    BY <1>t, <1>18 DEF OthersFinalize, OthersReject
  <2>2. UNCHANGED <<pc, at, failed, known, status>>
    BY <1>18 DEF OthersFinalize, OthersReject
  <2>3. QED
    BY <1>t, <2>1, <2>2 DEF TextInv, CompletedMeansTranslated, Carried
<1>19. CASE UNCHANGED vars
  BY <1>19, TextFrame DEF vars
<1>20. QED
  BY <1>1, <1>2, <1>3, <1>4, <1>5, <1>6, <1>7, <1>8, <1>9, <1>10, <1>11, <1>12, <1>13, <1>14,
     <1>15, <1>16, <1>17, <1>18, <1>19
  DEF Next, ProcessJob, Gate, Segment, Environment

(* A job that is completed without warnings has translated every segment,     *)
(* whichever of its deliveries did it.                                        *)
LEMMA CompletedIsTranslated == Spec => []CompletedMeansTranslated
<1>1. Init => TextInv
  BY DEF Init, TextInv, CompletedMeansTranslated, Carried, InLoop, Unread
<1>2. TypeOK /\ FinishInv /\ TextInv /\ [Next]_vars => TextInv'
  BY TextStep
<1>3. TextInv => CompletedMeansTranslated
  BY DEF TextInv
<1>4. QED
  BY <1>1, <1>2, <1>3, JobTypeCorrect, FinishInvariant, PTL DEF Spec

-------------------------------------------------------------------------------
(* Other sessions' translations.                                              *)

(* A segment is translated because the job is forced, or because its session  *)
(* loaded it without a translation.                                           *)
WorkInv ==
  pc \in {"stage", "finalize"} => config.force \/ known[at] \notin Translated

LEMMA WorkStep == TypeOK /\ WorkInv /\ [Next]_vars => WorkInv'
<1> SUFFICES ASSUME TypeOK, WorkInv, [Next]_vars PROVE WorkInv'
  OBVIOUS
<1> USE DEF WorkInv
<1>1. ASSUME Start \/ Read \/ Begin \/ Gate PROVE WorkInv'
  BY <1>1 DEF Start, Read, Begin, Gate, GateBudget, GateCancel, GatePass
<1>2. ASSUME Enter \/ StageDone \/ AttemptFails PROVE WorkInv'
  BY <1>2 DEF Enter, StageDone, AttemptFails
<1>3. ASSUME Skip \/ Finalize \/ SegmentFails \/ Fail PROVE WorkInv'
  BY <1>3 DEF Skip, Finalize, SegmentFails, Fail
<1>4. ASSUME JudgeDone \/ JudgeFails \/ RequestReview \/ Count \/ Finish PROVE WorkInv'
  BY <1>4 DEF JudgeDone, JudgeFails, RequestReview, Count, Finish
<1>5. ASSUME NEW complains \in BOOLEAN, NEW isLow \in BOOLEAN, Score(complains, isLow)
      PROVE  WorkInv'
  BY <1>5 DEF Score
<1>6. ASSUME CancelRead \/ CancelCommit \/ ProcessStops \/ Recover PROVE WorkInv'
  BY <1>6 DEF CancelRead, CancelCommit, ProcessStops, Recover
<1>7. ASSUME NEW s \in 1..N, OthersFinalize(s) \/ OthersReject(s) PROVE WorkInv'
  BY <1>7 DEF OthersFinalize, OthersReject
<1>8. CASE UNCHANGED vars
  BY <1>8 DEF vars
<1>9. QED
  BY <1>1, <1>2, <1>3, <1>4, <1>5, <1>6, <1>7, <1>8 DEF Next, ProcessJob, Segment, Environment

-------------------------------------------------------------------------------
(* Review requests.                                                           *)

(* Low segments without a review request, but for the one whose request is    *)
(* the next step: each is the work of a process that stopped at that point.   *)
Missed == (low \ reviewed) \ (IF pc = "review" THEN {at} ELSE {})

ReviewInv ==
  /\ IsFiniteSet(low)
  /\ Cardinality(Missed) <= faults
  /\ pc = "review" => at \in low

LEMMA FewerMissed ==
  ASSUME NEW S, NEW T, IsFiniteSet(S), T \subseteq S, NEW k \in Nat, Cardinality(S) <= k
  PROVE  Cardinality(T) <= k
<1>1. IsFiniteSet(T) /\ Cardinality(T) <= Cardinality(S)
  BY FS_Subset
<1>2. Cardinality(T) \in Nat /\ Cardinality(S) \in Nat
  BY <1>1, FS_CardinalityType
<1>3. QED
  BY <1>1, <1>2

LEMMA OneMoreMissed ==
  ASSUME NEW S, NEW x, IsFiniteSet(S), NEW k \in Nat, Cardinality(S) <= k
  PROVE  IsFiniteSet(S \union {x}) /\ Cardinality(S \union {x}) <= k + 1
<1>1. Cardinality(S) \in Nat
  BY FS_CardinalityType
<1>2. IsFiniteSet(S \union {x})
  BY FS_AddElement
<1>3. Cardinality(S \union {x}) = Cardinality(S) \/ Cardinality(S \union {x}) = Cardinality(S) + 1
  BY FS_AddElement
<1>4. QED
  BY <1>1, <1>2, <1>3

(* Steps that leave reviews and scores alone outside the request.             *)
LEMMA ReviewFrame ==
  ASSUME TypeOK, ReviewInv, UNCHANGED <<low, reviewed>>, faults' = faults,
         UNCHANGED <<pc, at>> \/ (pc # "review" /\ pc' # "review")
  PROVE  ReviewInv'
<1>1. Missed' = Missed
  BY DEF Missed
<1>2. QED
  BY <1>1 DEF ReviewInv

LEMMA ReviewStep == TypeOK /\ ReviewInv /\ [Next]_vars => ReviewInv'
<1> SUFFICES ASSUME TypeOK, ReviewInv, [Next]_vars PROVE ReviewInv'
  OBVIOUS
<1>t. /\ faults \in Nat /\ faults' \in Nat
      /\ IsFiniteSet(low) /\ IsFiniteSet(Missed) /\ IsFiniteSet(low \ reviewed)
  BY JobTypeStep, FS_Subset DEF TypeOK, ReviewInv, Missed
<1>1. ASSUME Start \/ Read \/ Begin \/ Gate PROVE ReviewInv'
  BY <1>1, ReviewFrame DEF Start, Read, Begin, Gate, GateBudget, GateCancel, GatePass
<1>2. ASSUME Enter \/ Skip \/ StageDone \/ Finalize \/ AttemptFails \/ SegmentFails \/ Fail
      PROVE  ReviewInv'
  BY <1>2, ReviewFrame
  DEF Enter, Skip, StageDone, Finalize, AttemptFails, SegmentFails, Fail
<1>3. ASSUME JudgeDone \/ JudgeFails \/ Count \/ Finish PROVE ReviewInv'
  BY <1>3, ReviewFrame DEF JudgeDone, JudgeFails, Count, Finish
<1>4. ASSUME NEW complains \in BOOLEAN, NEW isLow \in BOOLEAN, Score(complains, isLow)
      PROVE  ReviewInv'
  <2>1. Missed' \subseteq Missed
    BY <1>4 DEF Score, Missed
  <2>2. IsFiniteSet(low')
    BY <1>4, <1>t, FS_AddElement DEF Score
  <2>3. Cardinality(Missed') <= faults
    BY <1>t, <2>1, FewerMissed DEF ReviewInv
  <2>4. QED
    BY <1>4, <2>2, <2>3 DEF Score, ReviewInv
<1>5. ASSUME RequestReview PROVE ReviewInv'
  <2>1. Missed' = Missed
    BY <1>5 DEF RequestReview, Missed
  <2>2. QED
    BY <1>5, <2>1 DEF RequestReview, ReviewInv
<1>6. ASSUME CancelRead \/ CancelCommit PROVE ReviewInv'
  BY <1>6, ReviewFrame DEF CancelRead, CancelCommit
<1>7. ASSUME ProcessStops PROVE ReviewInv'
  <2>1. Missed' \subseteq Missed \union {at}
    BY <1>7 DEF ProcessStops, Missed
  <2>2. IsFiniteSet(Missed \union {at}) /\ Cardinality(Missed \union {at}) <= faults + 1
    BY <1>t, OneMoreMissed DEF ReviewInv
  <2>3. Cardinality(Missed') <= faults + 1
    BY <1>t, <2>1, <2>2, FewerMissed
  <2>4. QED
    BY <1>7, <2>3 DEF ProcessStops, ReviewInv
<1>8. ASSUME Recover PROVE ReviewInv'
  <2>1. Missed' = Missed /\ faults <= faults' /\ UNCHANGED <<low, pc, at>>
    BY <1>8, <1>t DEF Recover, Missed
  <2>2. Cardinality(Missed) \in Nat
    BY <1>t, FS_CardinalityType
  <2>3. QED
    BY <1>t, <2>1, <2>2 DEF ReviewInv
<1>9. ASSUME NEW s \in 1..N, OthersFinalize(s) \/ OthersReject(s) PROVE ReviewInv'
  BY <1>9, ReviewFrame DEF OthersFinalize, OthersReject
<1>10. CASE UNCHANGED vars
  BY <1>10, ReviewFrame DEF vars
<1>11. QED
  BY <1>1, <1>2, <1>3, <1>4, <1>5, <1>6, <1>7, <1>8, <1>9, <1>10
  DEF Next, ProcessJob, Segment, Environment

(* Each low score whose review request is missing costs a stopped process.    *)
THEOREM ReviewsRequested == Spec => []ReviewsMissedByStopsOnly
<1>1. Init => ReviewInv
  <2> SUFFICES ASSUME Init PROVE ReviewInv
    OBVIOUS
  <2>1. Missed = {}
    BY DEF Init, Missed
  <2>2. QED
    BY <2>1, FS_EmptySet DEF Init, ReviewInv
<1>2. TypeOK /\ ReviewInv /\ [Next]_vars => ReviewInv'
  BY ReviewStep
<1>3. TypeOK /\ ReviewInv => ReviewsMissedByStopsOnly
  <2> SUFFICES ASSUME TypeOK, ReviewInv PROVE ReviewsMissedByStopsOnly
    OBVIOUS
  <2>1. IsFiniteSet(Missed) /\ IsFiniteSet(low \ reviewed) /\ faults \in Nat
    BY FS_Subset DEF TypeOK, ReviewInv, Missed
  <2>2. CASE pc = "review"
    <3>1. low \ reviewed \subseteq Missed \union {at}
      BY DEF Missed
    <3>2. IsFiniteSet(Missed \union {at}) /\ Cardinality(Missed \union {at}) <= faults + 1
      BY <2>1, OneMoreMissed DEF ReviewInv
    <3>3. QED
      BY <2>1, <2>2, <3>1, <3>2, FewerMissed DEF ReviewsMissedByStopsOnly
  <2>3. CASE pc # "review"
    BY <2>1, <2>3, FS_CardinalityType DEF ReviewsMissedByStopsOnly, ReviewInv, Missed
  <2>4. QED
    BY <2>2, <2>3
<1>4. QED
  BY <1>1, <1>2, <1>3, JobTypeCorrect, PTL DEF Spec

-------------------------------------------------------------------------------
(* Counting.  Every count is paid for by a segment that carries a translation *)
(* or by a rejection.  The segments that have paid are translated, and the    *)
(* session knows it of those that it has still to come to.                    *)

Reading == {"begin"} \union InLoop

Due(p) == IF p \in {"judge", "score", "review", "count"} THEN 1 ELSE 0

Paid(C) ==
  /\ \A s \in C : text[s] \in Translated
  /\ \A s \in C : pc \in Reading /\ at <= s => known[s] \in Translated
  /\ completed + Due(pc) <= Cardinality(C) + rejections

CountInv == ~config.force =>
  /\ pc \in {"stage", "finalize"} => known[at] \notin Translated
  /\ \E C \in SUBSET (1..N) : Paid(C)

LEMMA SegmentsFinite ==
  ASSUME NEW C \in SUBSET (1..N)
  PROVE  IsFiniteSet(C) /\ Cardinality(C) \in Nat
<1>1. IsFiniteSet(1..N)
  BY ConstantsAssumption, FS_Interval
<1>2. QED
  BY <1>1, FS_Subset, FS_CardinalityType

(* Steps that count nothing, or what is due, and take no translation back.    *)
LEMMA CountFrame ==
  ASSUME TypeOK, TypeOK', CountInv, config' = config, rejections' = rejections,
         \A s \in 1..N : text[s] \in Translated => text'[s] \in Translated,
         completed' + Due(pc') <= completed + Due(pc),
         pc' \in Reading => pc \in Reading /\ at <= at' /\ known' = known,
         pc' \in {"stage", "finalize"} /\ ~config.force => known'[at'] \notin Translated
  PROVE  CountInv'
<1> SUFFICES ASSUME ~config.force PROVE CountInv'
  BY DEF CountInv
<1>1. PICK C \in SUBSET (1..N) : Paid(C)
  BY DEF CountInv
<1>2. Cardinality(C) \in Nat
  BY SegmentsFinite
<1>3. \A s \in C : text'[s] \in Translated
  BY <1>1 DEF Paid
<1>4. \A s \in C : pc' \in Reading /\ at' <= s => known'[s] \in Translated
  BY <1>1 DEF Paid, TypeOK
<1>5. completed' + Due(pc') <= Cardinality(C) + rejections'
  <2>1. completed + Due(pc) <= Cardinality(C) + rejections
    BY <1>1 DEF Paid
  <2>2. completed \in Nat /\ rejections \in Nat /\ completed' \in Nat
    BY DEF TypeOK
  <2>3. Due(pc) \in 0..1 /\ Due(pc') \in 0..1
    BY DEF Due
  <2>4. completed' \in Nat
    BY <2>2
  <2>5. completed' + Due(pc') \in Nat
    BY <2>2, <2>3
  <2>6. completed + Due(pc) \in Nat
    BY <2>2, <2>3
  <2>7. QED
    BY <1>2, <2>1, <2>2, <2>5, <2>6
<1>6. Paid(C)'
  BY <1>3, <1>4, <1>5 DEF Paid
<1>7. QED
  BY <1>6 DEF CountInv

LEMMA CountStep == TypeOK /\ CountInv /\ [Next]_vars => CountInv'
<1> SUFFICES ASSUME TypeOK, CountInv, [Next]_vars PROVE CountInv'
  OBVIOUS
<1>t. TypeOK' /\ config' = config
  BY JobTypeStep, ConfigFixed
<1>a. completed \in Nat /\ rejections \in Nat /\ at \in 1..N+1 /\ text \in [1..N -> Texts] /\ known \in [1..N -> Texts]
  BY DEF TypeOK
<1> USE DEF Reading, InLoop, Due
<1>1. ASSUME Start PROVE CountInv'
  BY <1>1, <1>a, <1>t, CountFrame DEF Start
<1>2. ASSUME Read PROVE CountInv'
  <2>1. ASSUME NEW C \in SUBSET (1..N), Paid(C) PROVE Paid(C)'
    <3>1. UNCHANGED <<text, completed, rejections>> /\ known' = text /\ pc = "read" /\ pc' = "begin"
      BY <1>2 DEF Read
    <3>2. QED
      BY <2>1, <3>1 DEF Paid
  <2>2. QED
    BY <1>2, <1>t, <2>1 DEF CountInv, Read
<1>3. ASSUME Begin \/ Gate \/ Finish PROVE CountInv'
  <2>1. UNCHANGED <<text, completed, rejections>> /\ pc \in {"begin", "gate"} /\ pc' \in {"gate", "enter", "idle"}
    BY <1>3 DEF Begin, Gate, GateBudget, GateCancel, GatePass, Finish
  <2>2. pc' # "idle" => UNCHANGED <<at, known>>
    BY <1>3 DEF Begin, Gate, GateBudget, GateCancel, GatePass, Finish
  <2>3. QED
    BY <2>1, <2>2, <1>a, <1>t, CountFrame
<1>4. ASSUME Enter PROVE CountInv'
  <2>1. UNCHANGED <<text, completed, rejections, known, at>> /\ pc = "enter" /\ pc' \in {"skip", "stage"}
    BY <1>4 DEF Enter
  <2>2. pc' = "stage" /\ ~config.force => known[at] \notin Translated
    BY <1>4 DEF Enter
  <2>3. QED
    BY <2>1, <2>2, <1>a, <1>t, CountFrame
<1>5. ASSUME Skip \/ StageDone \/ AttemptFails \/ SegmentFails \/ Fail PROVE CountInv'
  <2>1. UNCHANGED <<text, completed, rejections>> /\ pc \in {"skip", "stage", "fail"}
    BY <1>5 DEF Skip, StageDone, AttemptFails, SegmentFails, Fail
  <2>2. pc' \in {"gate", "idle", "stage", "finalize", "fail"}
    BY <1>5 DEF Skip, StageDone, AttemptFails, SegmentFails, Fail
  <2>3. pc' # "idle" => known' = known /\ at' \in {at, at + 1}
    BY <1>5 DEF Skip, StageDone, AttemptFails, SegmentFails, Fail
  <2>4. pc' \in {"stage", "finalize"} => pc = "stage" /\ at' = at
    BY <1>5 DEF Skip, StageDone, AttemptFails, SegmentFails, Fail
  <2>5. pc' \in {"stage", "finalize"} /\ ~config.force => known'[at'] \notin Translated
    BY <2>2, <2>3, <2>4 DEF CountInv
  <2>6. QED
    BY <2>1, <2>2, <2>3, <2>5, <1>a, <1>t, CountFrame
<1>6. ASSUME Finalize PROVE CountInv'
  <2> SUFFICES ASSUME ~config.force PROVE CountInv'
    BY <1>t DEF CountInv
  <2>1. PICK C \in SUBSET (1..N) : Paid(C)
    BY DEF CountInv
  <2>2. at \in 1..N /\ known[at] \notin Translated /\ pc = "finalize"
    BY <1>6, <1>a DEF Finalize, CountInv, TypeOK
  <2>3. at \notin C
    BY <2>1, <2>2 DEF Paid
  <2>4. Cardinality(C \union {at}) = Cardinality(C) + 1 /\ Cardinality(C) \in Nat
    BY <2>3, SegmentsFinite, FS_AddElement
  <2>5. text' = [text EXCEPT ![at] = "machine"] /\ known' = [known EXCEPT ![at] = "machine"]
    BY <1>6, <2>2 DEF Finalize
  <2>6. pc' \in {"judge", "score"} /\ UNCHANGED <<at, completed, rejections>>
    BY <1>6 DEF Finalize
  <2>7. \A s \in C \union {at} : text'[s] \in Translated
    BY <2>1, <2>2, <2>5, <1>a DEF Paid, Translated
  <2>8. \A s \in C \union {at} : at <= s => known'[s] \in Translated
    BY <2>1, <2>2, <2>5, <1>a DEF Paid, Translated
  <2>9. completed + 1 <= Cardinality(C \union {at}) + rejections
    BY <2>1, <2>2, <2>4, <1>a DEF Paid
  <2>10. Paid(C \union {at})'
    BY <2>6, <2>7, <2>8, <2>9 DEF Paid
  <2>11. C \union {at} \in SUBSET (1..N)
    BY <2>2
  <2>12. QED
    BY <2>6, <2>10, <2>11 DEF CountInv
<1>7. ASSUME JudgeDone \/ JudgeFails \/ RequestReview \/ \E complains, isLow \in BOOLEAN : Score(complains, isLow)
      PROVE  CountInv'
  <2>1. /\ UNCHANGED <<text, completed, rejections, known, at>>
        /\ pc \in {"judge", "score", "review"} /\ pc' \in {"score", "review", "count"}
    BY <1>7 DEF JudgeDone, JudgeFails, RequestReview, Score
  <2>2. QED
    BY <2>1, <1>a, <1>t, CountFrame
<1>8. ASSUME Count PROVE CountInv'
  <2>1. UNCHANGED <<text, rejections>> /\ completed' = completed + 1 /\ pc = "count" /\ pc' \in {"gate", "idle"}
    BY <1>8 DEF Count
  <2>2. pc' # "idle" => known' = known /\ at' = at + 1
    BY <1>8 DEF Count
  <2>3. QED
    BY <2>1, <2>2, <1>a, <1>t, CountFrame
<1>9. ASSUME CancelRead \/ CancelCommit \/ Recover PROVE CountInv'
  <2>1. UNCHANGED <<text, completed, rejections, known, at, pc>>
    BY <1>9 DEF CancelRead, CancelCommit, Recover
  <2>2. QED
    BY <2>1, <1>a, <1>t, CountFrame DEF CountInv
<1>10. ASSUME NEW s \in 1..N, OthersFinalize(s) PROVE CountInv'
  <2>1. UNCHANGED <<completed, rejections, known, at, pc>> /\ text' = [text EXCEPT ![s] = "other"]
    BY <1>10 DEF OthersFinalize
  <2>2. \A o \in 1..N : text[o] \in Translated => text'[o] \in Translated
    BY <2>1, <1>a DEF Translated
  <2>3. QED
    BY <2>1, <2>2, <1>a, <1>t, CountFrame DEF CountInv
<1>11. ASSUME NEW s \in 1..N, OthersReject(s) PROVE CountInv'
  <2> SUFFICES ASSUME ~config.force PROVE CountInv'
    BY <1>t DEF CountInv
  <2>1. UNCHANGED <<completed, known, at, pc>> /\ rejections' = rejections + 1 /\ text' = [text EXCEPT ![s] = "rejected"]
    BY <1>11 DEF OthersReject
  <2>2. PICK C \in SUBSET (1..N) : Paid(C)
    BY DEF CountInv
  <2>3. Cardinality(C) \in Nat /\ Cardinality(C \ {s}) \in Nat /\ Cardinality(C) <= Cardinality(C \ {s}) + 1
    <3>1. IsFiniteSet(C) /\ IsFiniteSet(C \ {s})
      BY SegmentsFinite, FS_Subset
    <3>2. QED
      BY <3>1, FS_RemoveElement, FS_CardinalityType
  <2>4. \A o \in C \ {s} : text'[o] \in Translated
    BY <2>1, <2>2, <1>a DEF Paid
  <2>5. completed + Due(pc) <= Cardinality(C \ {s}) + rejections'
    BY <2>1, <2>2, <2>3, <1>a DEF Paid
  <2>6. Paid(C \ {s})'
    BY <2>1, <2>2, <2>4, <2>5 DEF Paid
  <2>7. QED
    BY <2>1, <2>6 DEF CountInv
<1>12. ASSUME ProcessStops PROVE CountInv'
  <2>1. UNCHANGED <<text, completed, rejections>> /\ pc' = "idle"
    BY <1>12 DEF ProcessStops
  <2>2. QED
    BY <2>1, <1>a, <1>t, CountFrame
<1>13. CASE UNCHANGED vars
  <2>1. UNCHANGED <<text, completed, rejections, known, at, pc>>
    BY <1>13 DEF vars
  <2>2. QED
    BY <2>1, <1>a, <1>t, CountFrame DEF CountInv
<1>14. QED
  BY <1>1, <1>2, <1>3, <1>4, <1>5, <1>6, <1>7, <1>8, <1>9, <1>10, <1>11, <1>12, <1>13
  DEF Next, ProcessJob, Segment, Environment

(* Unless forced, a job counts a segment as completed at most once, and once  *)
(* more for every rejection, over all deliveries (the skip check of           *)
(* process_job).                                                              *)
LEMMA CountedOnce == Spec => []CompletedOncePerSegment
<1>1. Init => CountInv
  <2> SUFFICES ASSUME Init PROVE CountInv
    OBVIOUS
  <2>1. Paid({})
    BY FS_EmptySet DEF Init, Paid, Due
  <2>2. QED
    BY <2>1 DEF Init, CountInv
<1>2. TypeOK /\ CountInv /\ [Next]_vars => CountInv'
  BY CountStep
<1>3. TypeOK /\ CountInv => CompletedOncePerSegment
  <2> SUFFICES ASSUME TypeOK, CountInv, ~config.force
               PROVE  completed <= Cardinality({s \in 1..N : text[s] # "none"}) + rejections
    BY DEF CompletedOncePerSegment
  <2> DEFINE T == {s \in 1..N : text[s] # "none"}
  <2>1. PICK C \in SUBSET (1..N) : Paid(C)
    BY DEF CountInv
  <2>2. C \subseteq T
    BY <2>1 DEF Paid, Translated
  <2>3. Cardinality(C) <= Cardinality(T) /\ Cardinality(C) \in Nat /\ Cardinality(T) \in Nat
    BY <2>2, SegmentsFinite, FS_Subset
  <2>4. completed + Due(pc) <= Cardinality(C) + rejections /\ Due(pc) \in Nat
    BY <2>1 DEF Paid, Due
  <2> HIDE DEF T
  <2>5. completed <= Cardinality(T) + rejections
    BY <2>3, <2>4 DEF TypeOK
  <2>6. QED
    BY <2>5 DEF T
<1>4. QED
  BY <1>1, <1>2, <1>3, JobTypeCorrect, PTL DEF Spec

(* What the row says is completed has been translated, for every number of    *)
(* segments and over all deliveries.                                          *)
THEOREM CompletedEarned == Spec => []CompletedIsEarned
<1>1. CompletedMeansTranslated /\ CompletedOncePerSegment => CompletedIsEarned
  BY DEF CompletedIsEarned
<1>2. QED
  BY <1>1, CompletedIsTranslated, CountedOnce, PTL

-------------------------------------------------------------------------------
(* How often a segment loses another session's translation.                   *)

(* The segment carries a translation, and the session knows it if it has      *)
(* still to come to it, so that it will be skipped.                           *)
Held(s) ==
  /\ text[s] \in Translated
  /\ pc \in Reading /\ at <= s => known[s] \in Translated

(* A segment that has lost as many translations as rejections allow is one    *)
(* that this job will skip, until it is rejected again.                       *)
Allowed(s) == lost[s] <= rejections \/ (lost[s] = rejections + 1 /\ Held(s))

LossInv == ~config.force => \A s \in 1..N : Allowed(s)

(* Steps that replace nothing and take no translation back.                   *)
LEMMA LossFrame ==
  ASSUME LossInv, config' = config, rejections' = rejections, lost' = lost,
         \A s \in 1..N : text[s] \in Translated => text'[s] \in Translated,
         pc' \in Reading => pc \in Reading /\ at <= at' /\ known' = known,
         TypeOK, TypeOK'
  PROVE  LossInv'
<1>0. at \in 1..N+1 /\ at' \in 1..N+1 /\ N \in Nat
  BY ConstantsAssumption DEF TypeOK
<1>1. ASSUME NEW s \in 1..N, Held(s) PROVE Held(s)'
  <2>1. pc' \in Reading /\ at' <= s => at <= s
    BY <1>0
  <2>2. QED
    BY <1>1, <2>1 DEF Held
<1>2. QED
  BY <1>1 DEF LossInv, Allowed

LEMMA LossStep == TypeOK /\ WorkInv /\ LossInv /\ [Next]_vars => LossInv'
<1> SUFFICES ASSUME TypeOK, WorkInv, LossInv, [Next]_vars PROVE LossInv'
  OBVIOUS
<1>t. TypeOK' /\ config' = config
  BY JobTypeStep, ConfigFixed
<1>a. /\ rejections \in Nat /\ at \in 1..N+1 /\ lost \in [1..N -> Nat]
      /\ text \in [1..N -> Texts] /\ known \in [1..N -> Texts]
  BY DEF TypeOK
<1> USE DEF Reading, InLoop
<1>1. ASSUME Start \/ ProcessStops \/ Finish \/ Fail PROVE LossInv'
  <2>1. UNCHANGED <<text, rejections, lost>> /\ pc' \in {"idle", "read"}
    BY <1>1 DEF Start, ProcessStops, Finish, Fail
  <2>2. QED
    BY <2>1, <1>t, LossFrame
<1>2. ASSUME Read PROVE LossInv'
  <2>1. UNCHANGED <<text, rejections, lost>> /\ known' = text
    BY <1>2 DEF Read
  <2>2. \A s \in 1..N : Held(s) => Held(s)'
    BY <2>1 DEF Held
  <2>3. QED
    BY <1>t, <2>1, <2>2 DEF LossInv, Allowed
<1>3. ASSUME Begin \/ Gate \/ Enter \/ Skip \/ StageDone \/ AttemptFails \/ SegmentFails PROVE LossInv'
  <2>1. UNCHANGED <<text, rejections, lost>> /\ pc \in Reading
    BY <1>3 DEF Begin, Gate, GateBudget, GateCancel, GatePass, Enter, Skip, StageDone, AttemptFails,
                SegmentFails
  <2>2. pc' # "idle" => known' = known /\ at' \in {at, at + 1}
    BY <1>3 DEF Begin, Gate, GateBudget, GateCancel, GatePass, Enter, Skip, StageDone, AttemptFails,
                SegmentFails
  <2>3. QED
    BY <2>1, <2>2, <1>a, <1>t, LossFrame
<1>4. ASSUME Finalize PROVE LossInv'
  <2> SUFFICES ASSUME ~config.force PROVE LossInv'
    BY <1>t DEF LossInv
  <2>1. at \in 1..N /\ known[at] \notin Translated /\ pc = "finalize"
    BY <1>4, <1>a DEF Finalize, WorkInv, TypeOK
  <2>2. /\ text' = [text EXCEPT ![at] = "machine"] /\ known' = [known EXCEPT ![at] = "machine"]
        /\ UNCHANGED <<at, rejections>>
    BY <1>4, <2>1 DEF Finalize
  <2>3. lost[at] <= rejections
    BY <2>1 DEF LossInv, Allowed, Held
  <2>4. Held(at)'
    BY <2>1, <2>2, <1>a DEF Held, Translated
  <2>5. /\ lost'[at] \in {lost[at], lost[at] + 1}
        /\ \A s \in 1..N : s # at => lost'[s] = lost[s]
    BY <1>4, <2>1, <1>a DEF Finalize
  <2>6. Allowed(at)'
    BY <1>a, <2>1, <2>2, <2>3, <2>4, <2>5 DEF Allowed
  <2>7. ASSUME NEW s \in 1..N, s # at PROVE Allowed(s)'
    <3>1. Held(s) => Held(s)'
      BY <2>1, <2>2, <2>7, <1>a DEF Held
    <3>2. QED
      BY <3>1, <2>2, <2>5, <2>7 DEF LossInv, Allowed
  <2>8. \A s \in 1..N : Allowed(s)'
    BY <2>2, <2>6, <2>7
  <2>9. QED
    BY <2>8 DEF LossInv
<1>5. ASSUME \/ JudgeDone \/ JudgeFails \/ RequestReview \/ Count
             \/ \E complains, isLow \in BOOLEAN : Score(complains, isLow)
      PROVE  LossInv'
  <2>1. UNCHANGED <<text, rejections, lost>> /\ pc \in Reading
    BY <1>5 DEF JudgeDone, JudgeFails, RequestReview, Score, Count
  <2>2. pc' # "idle" => known' = known /\ at' \in {at, at + 1}
    BY <1>5 DEF JudgeDone, JudgeFails, RequestReview, Score, Count
  <2>3. QED
    BY <2>1, <2>2, <1>a, <1>t, LossFrame
<1>6. ASSUME CancelRead \/ CancelCommit \/ Recover PROVE LossInv'
  <2>1. UNCHANGED <<text, rejections, lost, known, at, pc>>
    BY <1>6 DEF CancelRead, CancelCommit, Recover
  <2>2. QED
    BY <2>1, <1>a, <1>t, LossFrame
<1>7. ASSUME NEW s \in 1..N, OthersFinalize(s) PROVE LossInv'
  <2>1. UNCHANGED <<rejections, lost, known, at, pc>> /\ text' = [text EXCEPT ![s] = "other"]
    BY <1>7 DEF OthersFinalize
  <2>2. \A o \in 1..N : text[o] \in Translated => text'[o] \in Translated
    BY <2>1, <1>a DEF Translated
  <2>3. QED
    BY <2>1, <2>2, <1>a, <1>t, LossFrame
<1>8. ASSUME NEW s \in 1..N, OthersReject(s) PROVE LossInv'
  <2>1. rejections' = rejections + 1 /\ lost' = lost
    BY <1>8 DEF OthersReject
  <2>2. ~config.force => \A o \in 1..N : lost[o] <= rejections + 1
    BY <1>a DEF LossInv, Allowed
  <2>3. QED
    BY <2>1, <2>2, <1>t DEF LossInv, Allowed
<1>9. CASE UNCHANGED vars
  <2>1. UNCHANGED <<text, rejections, lost, known, at, pc>>
    BY <1>9 DEF vars
  <2>2. QED
    BY <2>1, <1>a, <1>t, LossFrame
<1>10. QED
  BY <1>1, <1>2, <1>3, <1>4, <1>5, <1>6, <1>7, <1>8, <1>9
  DEF Next, ProcessJob, Segment, Environment

(* Only Finalize makes a machine translation of a reviewer's.                 *)
LEMMA ReplaceStep ==
  ASSUME TypeOK, WorkInv, LossInv, [Next]_vars,
         NEW s \in 1..N, text[s] = "other", text'[s] = "machine"
  PROVE  config.force \/ (known[s] \notin Translated /\ lost[s] <= rejections)
<1>1. ASSUME text' = text PROVE FALSE
  BY <1>1
<1>2. ASSUME Finalize, ~config.force PROVE known[s] \notin Translated /\ lost[s] <= rejections
  <2>1. s = at /\ pc = "finalize"
    BY <1>2 DEF Finalize, TypeOK
  <2>2. known[s] \notin Translated
    BY <1>2, <2>1 DEF WorkInv
  <2>3. s <= at
    BY <2>1 DEF TypeOK
  <2>4. ~Held(s)
    BY <2>1, <2>2, <2>3 DEF Held, Reading, InLoop
  <2>5. QED
    BY <1>2, <2>2, <2>4 DEF LossInv, Allowed
<1>3. ASSUME NEW i \in 1..N, OthersFinalize(i) \/ OthersReject(i) PROVE FALSE
  BY <1>3 DEF OthersFinalize, OthersReject, TypeOK
<1>4. ASSUME \/ Start \/ Read \/ Begin \/ Gate \/ Enter \/ Skip \/ StageDone \/ AttemptFails
             \/ SegmentFails \/ Fail
      PROVE  text' = text
  BY <1>4 DEF Start, Read, Begin, Gate, GateBudget, GateCancel, GatePass, Enter, Skip, StageDone,
              AttemptFails, SegmentFails, Fail
<1>5. ASSUME \/ JudgeDone \/ JudgeFails \/ RequestReview \/ Count \/ Finish
             \/ CancelRead \/ CancelCommit \/ ProcessStops \/ Recover
      PROVE  text' = text
  BY <1>5 DEF JudgeDone, JudgeFails, RequestReview, Count, Finish, CancelRead, CancelCommit,
              ProcessStops, Recover
<1>6. ASSUME NEW complains \in BOOLEAN, NEW isLow \in BOOLEAN, Score(complains, isLow)
      PROVE  text' = text
  BY <1>6 DEF Score
<1>7. CASE UNCHANGED vars
  BY <1>1, <1>7 DEF vars
<1>8. QED
  BY <1>1, <1>2, <1>3, <1>4, <1>5, <1>6, <1>7 DEF Next, ProcessJob, Segment, Environment

(* A job that is not forced overwrites another session's translation only of  *)
(* a segment that had none when the delivery loaded it; however many          *)
(* deliveries there are and however often others translate the segment, it    *)
(* does so at most once, and once more for every rejection.                   *)
THEOREM OthersWorkKept == Spec => KeepsOthersWork
<1>1. Init => WorkInv /\ LossInv
  BY DEF Init, WorkInv, LossInv, Allowed
<1>2. TypeOK /\ WorkInv /\ LossInv /\ [Next]_vars => WorkInv' /\ LossInv'
  BY WorkStep, LossStep
<1>3. TypeOK /\ WorkInv /\ LossInv /\ [Next]_vars =>
        [\A s \in 1..N : text[s] = "other" /\ text'[s] = "machine" =>
            config.force \/ (known[s] \notin Translated /\ lost[s] <= rejections)]_vars
  BY ReplaceStep
<1>4. QED
  BY <1>1, <1>2, <1>3, JobTypeCorrect, PTL DEF Spec, KeepsOthersWork
===============================================================================
