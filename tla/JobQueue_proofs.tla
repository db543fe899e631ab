---------------------------- MODULE JobQueue_proofs ----------------------------
(***************************************************************************)
(* Proofs about JobQueue, for every set of jobs and workers, every kind of *)
(* fault that a theorem does not exclude, and any number of faults.        *)
(***************************************************************************)
EXTENDS JobQueue, FiniteSetTheorems, TLAPS

(* The helpers that every action is written with.                            *)
USE DEF redis, rows, api, worker, NoFault, Fault, Occurs, Lapse, Goto, Hold, Write, PushRaises, Die

-------------------------------------------------------------------------------
(* Types.                                                                    *)

LEMMA FaultType ==
  ASSUME faults \in 0..MaxFaults, NEW kind, Fault(kind)
  PROVE  faults' \in 0..MaxFaults
  BY ConstantsAssumption

LEMMA PushRaisesType ==
  ASSUME TypeOK, NEW j \in Jobs, PushRaises(j)
  PROVE  queue' \in Seq(Jobs) /\ faults' \in 0..MaxFaults /\ enqueued' \subseteq Jobs
<1>1. CASE Fault("push_error") /\ UNCHANGED queue
  BY <1>1, FaultType DEF TypeOK
<1>2. CASE Fault("lost_reply") /\ queue' = Append(queue, j)
  <2>1. queue' \in Seq(Jobs)
    BY <1>2 DEF TypeOK
  <2>2. QED
    BY <1>2, <2>1, FaultType DEF TypeOK
<1>3. QED
  BY <1>1, <1>2

LEMMA TypeStep == TypeOK /\ [Next]_vars => TypeOK'
<1> SUFFICES ASSUME TypeOK, [Next]_vars PROVE TypeOK'
  OBVIOUS
<1> USE ConstantsAssumption DEF TypeOK, Statuses, Terminal, InJob, Leased, Transit, Points
<1>1. ASSUME NEW j \in Jobs, CheckKey(j) PROVE TypeOK'
  BY <1>1 DEF CheckKey
<1>2. ASSUME NEW j \in Jobs, InsertRow(j) PROVE TypeOK'
  BY <1>2 DEF InsertRow
<1>3. ASSUME NEW j \in Jobs, SubmitMark(j) PROVE TypeOK'
  BY <1>3 DEF SubmitMark
<1>4. ASSUME NEW j \in Jobs, SubmitPush(j) PROVE TypeOK'
  BY <1>4 DEF SubmitPush
<1>5. ASSUME NEW j \in Jobs, SubmitPushError(j) PROVE TypeOK'
  <2>1. queue' \in Seq(Jobs) /\ faults' \in 0..MaxFaults /\ enqueued' \subseteq Jobs
    BY <1>5, PushRaisesType DEF SubmitPushError
  <2>2. QED
    BY <1>5, <2>1 DEF SubmitPushError
<1>6. ASSUME NEW j \in Jobs, SubmitCrash(j) PROVE TypeOK'
  BY <1>6 DEF SubmitCrash
<1>7. ASSUME NEW j \in Jobs, CancelRead(j) PROVE TypeOK'
  BY <1>7 DEF CancelRead
<1>8. ASSUME NEW j \in Jobs, CancelCommit(j) PROVE TypeOK'
  BY <1>8 DEF CancelCommit
<1>9. ASSUME NEW j \in Jobs, Expire(j) \/ ExpireLate(j) PROVE TypeOK'
  <2>1. CASE Expire(j)
    BY <2>1 DEF Expire
  <2>2. CASE ExpireLate(j)
    BY <2>2 DEF ExpireLate
  <2>3. QED
    BY <1>9, <2>1, <2>2
<1>10. ASSUME NEW j \in Jobs, Age(j) \/ AgeAtWork(j) PROVE TypeOK'
  BY <1>10 DEF Age, AgeAtWork
<1>11. ASSUME NEW w \in Workers, RecoverSelect(w) PROVE TypeOK'
  BY <1>11 DEF RecoverSelect
<1>12. ASSUME NEW w \in Workers, NEW j \in Jobs, RecoverMark(w, j) PROVE TypeOK'
  <2>1. CASE j \in enqueued
    BY <1>12, <2>1 DEF RecoverMark
  <2>2. CASE j \notin enqueued
    <3>1. pc' = [pc EXCEPT ![w] = "push"] /\ item' = [item EXCEPT ![w] = j]
      BY <1>12, <2>2 DEF RecoverMark
    <3>2. \A v \in Workers :
            pc'[v] \in Transit \union Leased \union {"claim"} => item'[v] \in Jobs
      BY <3>1
    <3>3. /\ todo' \in [Workers -> SUBSET Jobs] /\ enqueued' \subseteq Jobs
          /\ pc' \in [Workers -> Points] /\ item' \in [Workers -> Jobs \union {None}]
      BY <1>12, <3>1 DEF RecoverMark
    <3>4. QED
      BY <1>12, <3>2, <3>3 DEF RecoverMark
  <2>3. QED
    BY <2>1, <2>2
<1>13. ASSUME NEW w \in Workers, RecoverPush(w) PROVE TypeOK'
  BY <1>13 DEF RecoverPush
<1>14. ASSUME NEW w \in Workers, RecoverCommit(w) PROVE TypeOK'
  BY <1>14 DEF RecoverCommit
<1>15. ASSUME NEW w \in Workers, Pop(w) PROVE TypeOK'
  BY <1>15 DEF Pop
<1>16. ASSUME NEW w \in Workers, PopTimeout(w) \/ Unmark(w) PROVE TypeOK'
  BY <1>16 DEF PopTimeout, Unmark
<1>17. ASSUME NEW w \in Workers, Acquire(w) \/ Skip(w) PROVE TypeOK'
  <2>1. CASE Acquire(w)
    BY <2>1 DEF Acquire
  <2>2. CASE Skip(w)
    BY <2>2 DEF Skip
  <2>3. QED
    BY <1>17, <2>1, <2>2
<1>18. ASSUME NEW w \in Workers, Load(w) \/ Refresh(w) PROVE TypeOK'
  <2>1. CASE Load(w)
    BY <2>1 DEF Load
  <2>2. CASE Refresh(w)
    BY <2>2 DEF Refresh
  <2>3. QED
    BY <1>18, <2>1, <2>2
<1>19. ASSUME NEW w \in Workers, Begin(w) PROVE TypeOK'
  BY <1>19 DEF Begin
<1>20. ASSUME NEW w \in Workers, NextSegment(w) PROVE TypeOK'
  <2>1. CASE item[w] \in cancelReq
    BY <1>20, <2>1 DEF NextSegment
  <2>2. CASE item[w] \notin cancelReq
    <3>1. item[w] \in Jobs /\ status[item[w]] \in Statuses
      BY <1>20 DEF NextSegment
    <3>2. QED
      BY <1>20, <2>2, <3>1 DEF NextSegment
  <2>3. QED
    BY <2>1, <2>2
<1>21. ASSUME NEW w \in Workers, Finish(w) PROVE TypeOK'
  BY <1>21 DEF Finish
<1>22. ASSUME NEW w \in Workers, Release(w) PROVE TypeOK'
  <2>1. CASE lease[item[w]] = w
    <3>1. item[w] \in Jobs
      BY <1>22 DEF Release
    <3>2. lease' \in [Jobs -> Workers \union {None}]
      BY <1>22, <2>1, <3>1 DEF Release
    <3>3. gauge' \in [Workers -> Int]
      BY <1>22, <2>1 DEF Release
    <3>4. QED
      BY <1>22, <2>1, <3>2, <3>3 DEF Release
  <2>2. CASE lease[item[w]] # w
    BY <1>22, <2>2 DEF Release
  <2>3. QED
    BY <2>1, <2>2
<1>23. ASSUME NEW w \in Workers, RecoverPushError(w) PROVE TypeOK'
  <2>1. queue' \in Seq(Jobs) /\ faults' \in 0..MaxFaults /\ enqueued' \subseteq Jobs
    BY <1>23, PushRaisesType DEF RecoverPushError
  <2>2. QED
    BY <1>23, <2>1 DEF RecoverPushError
<1>24. ASSUME NEW w \in Workers, JobError(w) \/ ReleaseError(w) PROVE TypeOK'
  <2>1. CASE JobError(w)
    BY <2>1 DEF JobError
  <2>2. CASE ReleaseError(w)
    BY <2>2 DEF ReleaseError
  <2>3. QED
    BY <1>24, <2>1, <2>2
<1>25. ASSUME NEW w \in Workers, Crash(w) PROVE TypeOK'
  BY <1>25 DEF Crash
<1>26. CASE UNCHANGED vars
  BY <1>26 DEF vars
<1>27. QED
  BY <1>1, <1>2, <1>3, <1>4, <1>5, <1>6, <1>7, <1>8, <1>9, <1>10, <1>11, <1>12,
     <1>13, <1>14, <1>15, <1>16, <1>17, <1>18, <1>19, <1>20, <1>21, <1>22,
     <1>23, <1>24, <1>25, <1>26
  DEF Next, Submission, WorkerStep, WorkerFault

(* Every variable of the model keeps the type its store or program gives it. *)
THEOREM TypeCorrect == Spec => []TypeOK
<1>1. Init => TypeOK
  BY ConstantsAssumption DEF Init, TypeOK, Statuses, Points, Transit, Leased, InJob
<1>2. QED
  BY <1>1, TypeStep, PTL DEF Spec

-------------------------------------------------------------------------------
(* The marker protocol: a member of the marker set has at most one token, its *)
(* entry on the list or the process that is about to push it or to unmark it. *)

MarkedBy(j) == submit[j] = "marked"
HeldBy(w, j) == pc[w] \in Transit /\ item[w] = j

QueueInv ==
  /\ QueueHasNoDuplicates
  /\ \A i \in DOMAIN queue :
       /\ queue[i] \in enqueued
       /\ ~MarkedBy(queue[i])
       /\ \A w \in Workers : ~HeldBy(w, queue[i])
  /\ \A j \in Jobs : MarkedBy(j) => j \in enqueued /\ \A w \in Workers : ~HeldBy(w, j)
  /\ \A v, w \in Workers : \A j \in Jobs :
       HeldBy(w, j) => j \in enqueued /\ (HeldBy(v, j) => v = w)

(* Steps that touch neither the list nor the markers and put nobody between   *)
(* the two Redis calls.                                                       *)
LEMMA QueueFrame ==
  ASSUME QueueInv, UNCHANGED <<queue, enqueued>>,
         \A j \in Jobs : MarkedBy(j)' => MarkedBy(j),
         \A w \in Workers : \A j \in Jobs : HeldBy(w, j)' => HeldBy(w, j),
         TypeOK
  PROVE  QueueInv'
<1>1. \A i \in DOMAIN queue : queue[i] \in Jobs
  BY DEF TypeOK
<1>2. QED
  BY <1>1 DEF QueueInv, QueueHasNoDuplicates

(* SADD of a job that is not a member, by the process the token goes to.      *)
LEMMA QueueMark ==
  ASSUME TypeOK, QueueInv, NEW j \in Jobs, j \notin enqueued,
         enqueued' = enqueued \union {j}, UNCHANGED queue,
         \A i \in Jobs : MarkedBy(i)' => MarkedBy(i) \/ i = j,
         \A w \in Workers : \A i \in Jobs : HeldBy(w, i)' => HeldBy(w, i) \/ i = j,
         MarkedBy(j)' => \A w \in Workers : ~HeldBy(w, j)',
         \A v, w \in Workers : HeldBy(v, j)' /\ HeldBy(w, j)' => v = w
  PROVE  QueueInv'
<1>1. \A i \in DOMAIN queue : queue[i] \in Jobs
  BY DEF TypeOK
<1>2. QED
  BY <1>1 DEF QueueInv, QueueHasNoDuplicates

(* RPUSH by the process that holds the token.                                 *)
LEMMA QueuePush ==
  ASSUME TypeOK, QueueInv, NEW j \in Jobs, j \in enqueued,
         \A i \in DOMAIN queue : queue[i] # j,
         queue' = Append(queue, j), UNCHANGED enqueued,
         \A i \in Jobs : MarkedBy(i)' => MarkedBy(i) /\ i # j,
         \A w \in Workers : \A i \in Jobs : HeldBy(w, i)' => HeldBy(w, i) /\ i # j
  PROVE  QueueInv'
<1>1. \A i \in DOMAIN queue : queue[i] \in Jobs
  BY DEF TypeOK
<1>2. /\ DOMAIN queue = 1..Len(queue)
      /\ DOMAIN queue' = 1..(Len(queue) + 1)
      /\ \A i \in DOMAIN queue : queue'[i] = queue[i]
      /\ queue'[Len(queue) + 1] = j
      /\ Len(queue) \in Nat
  BY DEF TypeOK
<1>3. \A i \in DOMAIN queue' : i \in DOMAIN queue \/ i = Len(queue) + 1
  BY <1>2
<1>4. QueueHasNoDuplicates'
  BY <1>2, <1>3 DEF QueueInv, QueueHasNoDuplicates
<1>5. \A i \in DOMAIN queue' :
        /\ queue'[i] \in enqueued'
        /\ ~MarkedBy(queue[i])'
        /\ \A w \in Workers : ~HeldBy(w, queue[i])'
  BY <1>1, <1>2, <1>3 DEF QueueInv
<1>6. QED
  BY <1>4, <1>5 DEF QueueInv

(* BLPOP: the token goes from the list to the worker.                         *)
LEMMA QueuePop ==
  ASSUME TypeOK, QueueInv, NEW w \in Workers, Pop(w)
  PROVE  QueueInv'
<1>1. /\ queue # <<>> /\ queue \in Seq(Jobs)
      /\ Head(queue) = queue[1] /\ 1 \in DOMAIN queue /\ queue[1] \in Jobs
      /\ \A i \in DOMAIN queue' : i + 1 \in DOMAIN queue /\ queue'[i] = queue[i + 1]
      /\ \A i \in DOMAIN queue' : i \in Nat /\ i + 1 # 1 /\ queue[i + 1] \in Jobs
  BY DEF Pop, TypeOK
<1>2. \A v \in Workers : \A j \in Jobs :
        HeldBy(v, j)' => HeldBy(v, j) \/ (v = w /\ j = queue[1])
  BY <1>1 DEF Pop, HeldBy, TypeOK, Transit
<1>3. \A j \in Jobs : MarkedBy(j)' = MarkedBy(j)
  BY DEF Pop, MarkedBy, api
<1>4. \A i \in DOMAIN queue' : queue'[i] # queue[1]
  BY <1>1 DEF QueueInv, QueueHasNoDuplicates
<1>5. QueueHasNoDuplicates'
  BY <1>1 DEF QueueInv, QueueHasNoDuplicates
<1>6. enqueued' = enqueued
  BY DEF Pop
<1>7. QED
  BY <1>1, <1>2, <1>3, <1>4, <1>5, <1>6 DEF QueueInv

(* SREM by the process that holds the token, which lets go of it.             *)
LEMMA QueueUnmark ==
  ASSUME TypeOK, QueueInv, NEW j \in Jobs,
         \A i \in DOMAIN queue : queue[i] # j,
         enqueued' = enqueued \ {j}, UNCHANGED queue,
         \A i \in Jobs : MarkedBy(i)' => MarkedBy(i) /\ i # j,
         \A w \in Workers : \A i \in Jobs : HeldBy(w, i)' => HeldBy(w, i) /\ i # j
  PROVE  QueueInv'
<1>1. \A i \in DOMAIN queue : queue[i] \in Jobs
  BY DEF TypeOK
<1>2. QED
  BY <1>1 DEF QueueInv, QueueHasNoDuplicates

(* The operators the lemmas above do not need expanded.                       *)
LEMMA QueueStep ==
  ASSUME "lost_reply" \notin Faults, TypeOK, QueueInv, [Next]_vars
  PROVE  QueueInv'
<1> USE DEF MarkedBy, HeldBy, Transit
<1>1. ASSUME NEW j \in Jobs,
             CheckKey(j) \/ InsertRow(j) \/ SubmitCrash(j) \/ CancelRead(j) \/ CancelCommit(j)
      PROVE  QueueInv'
  <2>1. UNCHANGED <<queue, enqueued, pc, item>>
    BY <1>1 DEF CheckKey, InsertRow, SubmitCrash, CancelRead, CancelCommit
  <2>2. \A i \in Jobs : MarkedBy(i)' => MarkedBy(i)
    BY <1>1 DEF CheckKey, InsertRow, SubmitCrash, CancelRead, CancelCommit, TypeOK
  <2>3. QED
    BY <2>1, <2>2, QueueFrame
<1>2. ASSUME NEW j \in Jobs, SubmitMark(j) PROVE QueueInv'
  <2>1. CASE j \in enqueued
    <3>1. enqueued' = enqueued /\ UNCHANGED <<queue, pc, item>>
      BY <1>2, <2>1 DEF SubmitMark
    <3>2. \A i \in Jobs : MarkedBy(i)' => MarkedBy(i)
      BY <1>2, <2>1 DEF SubmitMark, TypeOK
    <3>3. QED
      BY <3>1, <3>2, QueueFrame
  <2>2. CASE j \notin enqueued
    <3>1. enqueued' = enqueued \union {j} /\ UNCHANGED <<queue, pc, item>>
      BY <1>2 DEF SubmitMark
    <3>2. \A i \in Jobs : MarkedBy(i)' => MarkedBy(i) \/ i = j
      BY <1>2, <2>2 DEF SubmitMark, TypeOK
    <3>3. \A w \in Workers : ~HeldBy(w, j)
      BY <2>2 DEF QueueInv
    <3>4. QED
      BY <2>2, <3>1, <3>2, <3>3, QueueMark
  <2>3. QED
    BY <2>1, <2>2
<1>3. ASSUME NEW j \in Jobs, SubmitPush(j) PROVE QueueInv'
  <2>1. /\ j \in enqueued
        /\ \A i \in DOMAIN queue : queue[i] # j
        /\ \A w \in Workers : ~HeldBy(w, j)
    BY <1>3 DEF SubmitPush, QueueInv
  <2>2. \A i \in Jobs : MarkedBy(i)' => MarkedBy(i) /\ i # j
    BY <1>3 DEF SubmitPush, TypeOK
  <2>3. queue' = Append(queue, j) /\ UNCHANGED <<enqueued, pc, item>>
    BY <1>3 DEF SubmitPush
  <2>4. QED
    BY <2>1, <2>2, <2>3, QueuePush
<1>4. ASSUME NEW j \in Jobs, SubmitPushError(j) PROVE QueueInv'
  <2>1. /\ \A i \in DOMAIN queue : queue[i] # j
        /\ \A w \in Workers : ~HeldBy(w, j)
    BY <1>4 DEF SubmitPushError, QueueInv
  <2>2. \A i \in Jobs : MarkedBy(i)' => MarkedBy(i) /\ i # j
    BY <1>4 DEF SubmitPushError, TypeOK
  <2>3. enqueued' = enqueued \ {j} /\ UNCHANGED <<queue, pc, item>>
    BY <1>4 DEF SubmitPushError
  <2>4. QED
    BY <2>1, <2>2, <2>3, QueueUnmark
<1>5. ASSUME NEW j \in Jobs, Expire(j) \/ ExpireLate(j) \/ Age(j) \/ AgeAtWork(j)
      PROVE  QueueInv'
  <2>1. UNCHANGED <<queue, enqueued, submit, pc, item>>
    BY <1>5 DEF Expire, ExpireLate, Age, AgeAtWork
  <2>2. QED
    BY <2>1, QueueFrame
<1>6. ASSUME NEW w \in Workers, NEW j \in Jobs, RecoverMark(w, j) PROVE QueueInv'
  <2>1. CASE j \in enqueued
    <3>1. enqueued' = enqueued /\ UNCHANGED <<queue, submit, pc, item>>
      BY <1>6, <2>1 DEF RecoverMark
    <3>2. QED
      BY <3>1, QueueFrame
  <2>2. CASE j \notin enqueued
    <3>1. enqueued' = enqueued \union {j} /\ UNCHANGED <<queue, submit>>
      BY <1>6 DEF RecoverMark
    <3>2. \A v \in Workers : \A i \in Jobs : HeldBy(v, i)' => HeldBy(v, i) \/ (v = w /\ i = j)
      BY <1>6, <2>2 DEF RecoverMark, TypeOK
    <3>3. ~MarkedBy(j) /\ \A v \in Workers : ~HeldBy(v, j)
      BY <2>2 DEF QueueInv
    <3>4. QED
      BY <2>2, <3>1, <3>2, <3>3, QueueMark
  <2>3. QED
    BY <2>1, <2>2
<1>7. ASSUME NEW w \in Workers, RecoverPush(w) PROVE QueueInv'
  <2>1. item[w] \in Jobs /\ HeldBy(w, item[w])
    BY <1>7 DEF RecoverPush, TypeOK
  <2>2. /\ item[w] \in enqueued
        /\ ~MarkedBy(item[w])
        /\ \A i \in DOMAIN queue : queue[i] # item[w]
        /\ \A v \in Workers : HeldBy(v, item[w]) => v = w
    BY <2>1 DEF QueueInv
  <2>3. \A v \in Workers : \A i \in Jobs : HeldBy(v, i)' => HeldBy(v, i) /\ v # w
    BY <1>7 DEF RecoverPush, TypeOK
  <2>4. queue' = Append(queue, item[w]) /\ UNCHANGED <<enqueued, submit>>
    BY <1>7 DEF RecoverPush
  <2>5. \A v \in Workers : \A i \in Jobs : HeldBy(v, i)' => HeldBy(v, i) /\ i # item[w]
    BY <2>2, <2>3
  <2>6. QED
    BY <2>1, <2>2, <2>4, <2>5, QueuePush
<1>8. ASSUME NEW w \in Workers, Unmark(w) \/ RecoverPushError(w) PROVE QueueInv'
  <2>1. item[w] \in Jobs /\ HeldBy(w, item[w])
    BY <1>8 DEF Unmark, RecoverPushError, TypeOK
  <2>2. /\ ~MarkedBy(item[w])
        /\ \A i \in DOMAIN queue : queue[i] # item[w]
        /\ \A v \in Workers : HeldBy(v, item[w]) => v = w
    BY <2>1 DEF QueueInv
  <2>3. \A v \in Workers : \A i \in Jobs : HeldBy(v, i)' => HeldBy(v, i) /\ v # w
    BY <1>8 DEF Unmark, RecoverPushError, TypeOK
  <2>4. enqueued' = enqueued \ {item[w]} /\ UNCHANGED <<queue, submit>>
    BY <1>8 DEF Unmark, RecoverPushError
  <2>5. \A v \in Workers : \A i \in Jobs : HeldBy(v, i)' => HeldBy(v, i) /\ i # item[w]
    BY <2>2, <2>3
  <2>6. QED
    BY <2>1, <2>2, <2>4, <2>5, QueueUnmark
<1>9. ASSUME NEW w \in Workers, Pop(w) PROVE QueueInv'
  BY <1>9, QueuePop
<1>10. ASSUME NEW w \in Workers,
              \/ RecoverSelect(w) \/ RecoverCommit(w) \/ PopTimeout(w) \/ Acquire(w) \/ Skip(w)
              \/ Load(w) \/ Refresh(w) \/ Begin(w) \/ NextSegment(w) \/ Finish(w) \/ Release(w)
              \/ JobError(w) \/ ReleaseError(w) \/ Crash(w)
       PROVE  QueueInv'
  <2>1. UNCHANGED <<queue, enqueued, submit>>
    BY <1>10 DEF RecoverSelect, RecoverCommit, PopTimeout, Acquire, Skip, Load, Refresh, Begin,
                 NextSegment, Finish, Release, JobError, ReleaseError, Crash
  <2>2. \A v \in Workers : \A i \in Jobs : HeldBy(v, i)' => HeldBy(v, i)
    BY <1>10 DEF RecoverSelect, RecoverCommit, PopTimeout, Acquire, Skip, Load, Refresh, Begin,
                 NextSegment, Finish, Release, JobError, ReleaseError, Crash, TypeOK
  <2>3. QED
    BY <2>1, <2>2, QueueFrame
<1>11. CASE UNCHANGED vars
  BY <1>11, QueueFrame DEF vars
<1>12. QED
  BY <1>1, <1>2, <1>3, <1>4, <1>5, <1>6, <1>7, <1>8, <1>9, <1>10, <1>11
  DEF Next, Submission, WorkerStep, WorkerFault

LEMMA QueueInvariant ==
  ASSUME "lost_reply" \notin Faults
  PROVE  Spec => []QueueInv
<1>1. Init => QueueInv
  BY DEF Init, QueueInv, QueueHasNoDuplicates, MarkedBy, HeldBy, Transit
<1>2. TypeOK /\ QueueInv /\ [Next]_vars => QueueInv'
  BY QueueStep
<1>3. QED
  BY <1>1, <1>2, TypeCorrect, PTL DEF Spec

(* enqueue_job never puts a job on the list twice, for any number of          *)
(* requests, workers and recoveries, crashes in the windows included, unless  *)
(* the reply of an RPUSH that was applied gets lost.                          *)
THEOREM NoDuplicates ==
  ASSUME "lost_reply" \notin Faults
  PROVE  Spec => []QueueHasNoDuplicates
<1>1. QueueInv => QueueHasNoDuplicates
  BY DEF QueueInv
<1>2. QED
  BY <1>1, QueueInvariant, PTL

-------------------------------------------------------------------------------
(* The lease, when renewals reach Redis in time.                              *)

LEMMA LeaseStep ==
  ASSUME "late_heartbeat" \notin Faults, TypeOK, ProcessorsOwnTheLease, [Next]_vars
  PROVE  ProcessorsOwnTheLease'
<1> USE ConstantsAssumption DEF ProcessorsOwnTheLease, Leased, InJob
(* Steps that take nobody into the lease and leave the leases alone.          *)
<1>1. ASSUME UNCHANGED lease,
             \A w \in Workers : pc'[w] \in Leased => pc[w] \in Leased /\ item'[w] = item[w]
      PROVE  ProcessorsOwnTheLease'
  BY <1>1
<1>2. ASSUME NEW j \in Jobs,
             \/ Submission(j) \/ SubmitPushError(j) \/ SubmitCrash(j)
             \/ CancelRead(j) \/ CancelCommit(j) \/ Age(j) \/ AgeAtWork(j)
      PROVE  ProcessorsOwnTheLease'
  <2>1. UNCHANGED <<lease, pc, item>>
    BY <1>2 DEF Submission, CheckKey, InsertRow, SubmitMark, SubmitPush, SubmitPushError,
                SubmitCrash, CancelRead, CancelCommit, Age, AgeAtWork
  <2>2. QED
    BY <2>1, <1>1
<1>3. ASSUME NEW j \in Jobs, Expire(j) PROVE ProcessorsOwnTheLease'
  <2>1. \A w \in Workers : pc[w] \in Leased => item[w] # j
    BY <1>3 DEF Expire, Renewing
  <2>2. QED
    BY <1>3, <2>1 DEF Expire, TypeOK
<1>4. ASSUME NEW j \in Jobs, ExpireLate(j) PROVE ProcessorsOwnTheLease'
  BY <1>4 DEF ExpireLate
<1>5. ASSUME NEW w \in Workers, Acquire(w) PROVE ProcessorsOwnTheLease'
  <2>1. item[w] \in Jobs
    BY <1>5 DEF Acquire, TypeOK
  <2>2. \A v \in Workers : pc[v] \in Leased => item[v] # item[w]
    BY <1>5 DEF Acquire
  <2>3. QED
    BY <1>5, <2>1, <2>2 DEF Acquire, TypeOK
<1>6. ASSUME NEW w \in Workers, Release(w) PROVE ProcessorsOwnTheLease'
  <2>1. item[w] \in Jobs /\ lease[item[w]] = w
    BY <1>6 DEF Release, TypeOK
  <2>2. \A v \in Workers : v # w /\ pc[v] \in Leased => item[v] # item[w]
    BY <2>1
  <2>3. \A v \in Workers : pc'[v] \in Leased => v # w /\ pc[v] \in Leased /\ item'[v] = item[v]
    BY <1>6 DEF Release, TypeOK
  <2>4. QED
    BY <1>6, <2>1, <2>2, <2>3 DEF Release, TypeOK
<1>7. ASSUME NEW w \in Workers, NEW j \in Jobs, RecoverMark(w, j) PROVE ProcessorsOwnTheLease'
  <2>1. UNCHANGED lease /\ \A v \in Workers : pc'[v] \in Leased => pc[v] \in Leased /\ item'[v] = item[v]
    BY <1>7 DEF RecoverMark, TypeOK
  <2>2. QED
    BY <2>1, <1>1
<1>8. ASSUME NEW w \in Workers,
             \/ RecoverSelect(w) \/ RecoverPush(w) \/ RecoverCommit(w) \/ Pop(w) \/ PopTimeout(w)
             \/ Unmark(w) \/ Skip(w) \/ RecoverPushError(w) \/ ReleaseError(w) \/ Crash(w)
      PROVE  ProcessorsOwnTheLease'
  <2>1. UNCHANGED lease
    BY <1>8 DEF RecoverSelect, RecoverPush, RecoverCommit, Pop, PopTimeout, Unmark, Skip,
                RecoverPushError, ReleaseError, Crash
  <2>2. \A v \in Workers : pc'[v] \in Leased => pc[v] \in Leased /\ item'[v] = item[v]
    BY <1>8 DEF RecoverSelect, RecoverPush, RecoverCommit, Pop, PopTimeout, Unmark, Skip,
                RecoverPushError, ReleaseError, Crash, TypeOK
  <2>3. QED
    BY <2>1, <2>2, <1>1
<1>9. ASSUME NEW w \in Workers,
             \/ Load(w) \/ Refresh(w) \/ Begin(w) \/ NextSegment(w) \/ Finish(w) \/ JobError(w)
      PROVE  ProcessorsOwnTheLease'
  <2>1. UNCHANGED <<lease, item>>
    BY <1>9 DEF Load, Refresh, Begin, NextSegment, Finish, JobError
  <2>2. \A v \in Workers : pc'[v] \in Leased => pc[v] \in Leased
    BY <1>9 DEF Load, Refresh, Begin, NextSegment, Finish, JobError, TypeOK
  <2>3. QED
    BY <2>1, <2>2, <1>1
<1>10. CASE UNCHANGED vars
  BY <1>10 DEF vars
<1>11. QED
  BY <1>2, <1>3, <1>4, <1>5, <1>6, <1>7, <1>8, <1>9, <1>10
  DEF Next, WorkerStep, WorkerFault

(* Without late renewals the worker inside claimed_job_lease owns the lease.  *)
THEOREM LeaseOwnership ==
  ASSUME "late_heartbeat" \notin Faults
  PROVE  Spec => []ProcessorsOwnTheLease
<1>1. Init => ProcessorsOwnTheLease
  BY DEF Init, ProcessorsOwnTheLease, Leased, InJob
<1>2. TypeOK /\ ProcessorsOwnTheLease /\ [Next]_vars => ProcessorsOwnTheLease'
  BY LeaseStep
<1>3. QED
  BY <1>1, <1>2, TypeCorrect, PTL DEF Spec

(* Hence a job is processed by one worker at a time.                          *)
THEOREM MutualExclusion ==
  ASSUME "late_heartbeat" \notin Faults
  PROVE  Spec => []OneProcessorPerJob
<1>1. ProcessorsOwnTheLease => OneProcessorPerJob
  BY DEF ProcessorsOwnTheLease, OneProcessorPerJob, Leased
<1>2. QED
  BY <1>1, LeaseOwnership, PTL

LEMMA NotDoneStep ==
  ASSUME TypeOK, ProcessorsOwnTheLease, NotDoneWhileProcessed, [Next]_vars
  PROVE  NotDoneWhileProcessed'
<1> DEFINE Past == {"refresh", "begin", "run"}
<1> USE DEF NotDoneWhileProcessed
(* It is enough that nobody enters and no status becomes "done".              *)
<1>1. ASSUME \A w \in Workers : pc'[w] \in Past => pc[w] \in Past /\ item'[w] = item[w],
             \A j \in Jobs : status'[j] = "done" => status[j] = "done"
      PROVE  NotDoneWhileProcessed'
  <2>1. \A w \in Workers : pc[w] \in Past => item[w] \in Jobs
    BY DEF TypeOK, Leased, InJob
  <2>2. QED
    BY <1>1, <2>1
<1>2. ASSUME NEW j \in Jobs,
             \/ Submission(j) \/ SubmitPushError(j) \/ SubmitCrash(j) \/ CancelRead(j)
             \/ CancelCommit(j) \/ Expire(j) \/ ExpireLate(j) \/ Age(j) \/ AgeAtWork(j)
      PROVE  NotDoneWhileProcessed'
  <2>1. UNCHANGED <<pc, item>>
    BY <1>2 DEF Submission, CheckKey, InsertRow, SubmitMark, SubmitPush, SubmitPushError,
                SubmitCrash, CancelRead, CancelCommit, Expire, ExpireLate, Age, AgeAtWork
  <2>2. \A i \in Jobs : status'[i] = "done" => status[i] = "done"
    BY <1>2 DEF Submission, CheckKey, InsertRow, SubmitMark, SubmitPush, SubmitPushError,
                SubmitCrash, CancelRead, CancelCommit, Expire, ExpireLate, Age, AgeAtWork, TypeOK
  <2>3. QED
    BY <2>1, <2>2, <1>1
<1>3. ASSUME NEW w \in Workers, NEW j \in Jobs, RecoverMark(w, j) PROVE NotDoneWhileProcessed'
  <2>1. UNCHANGED status /\ \A v \in Workers : pc'[v] \in Past => pc[v] \in Past /\ item'[v] = item[v]
    BY <1>3 DEF RecoverMark, TypeOK
  <2>2. QED
    BY <2>1, <1>1
<1>4. ASSUME NEW w \in Workers,
             \/ RecoverSelect(w) \/ RecoverPush(w) \/ RecoverCommit(w) \/ Pop(w) \/ PopTimeout(w)
             \/ Unmark(w) \/ Acquire(w) \/ Skip(w) \/ Release(w) \/ RecoverPushError(w)
             \/ JobError(w) \/ ReleaseError(w) \/ Crash(w)
      PROVE  NotDoneWhileProcessed'
  <2>1. \A v \in Workers : pc'[v] \in Past => pc[v] \in Past /\ item'[v] = item[v]
    BY <1>4 DEF RecoverSelect, RecoverPush, RecoverCommit, Pop, PopTimeout, Unmark, Acquire, Skip,
                Release, RecoverPushError, JobError, ReleaseError, Crash, TypeOK
  <2>2. \A i \in Jobs : status'[i] = "done" => status[i] = "done"
    BY <1>4 DEF RecoverSelect, RecoverPush, RecoverCommit, Pop, PopTimeout, Unmark, Acquire, Skip,
                Release, RecoverPushError, JobError, ReleaseError, Crash
  <2>3. QED
    BY <2>1, <2>2, <1>1
<1>5. ASSUME NEW w \in Workers, Load(w) PROVE NotDoneWhileProcessed'
  BY <1>5 DEF Load, TypeOK, Terminal
<1>6. ASSUME NEW w \in Workers, Refresh(w) \/ Begin(w) \/ NextSegment(w) PROVE NotDoneWhileProcessed'
  <2>1. UNCHANGED item /\ \A v \in Workers : pc'[v] \in Past => pc[v] \in Past
    BY <1>6 DEF Refresh, Begin, NextSegment, TypeOK
  <2>2. \A i \in Jobs : status'[i] = "done" => status[i] = "done"
    BY <1>6 DEF Refresh, Begin, NextSegment, TypeOK
  <2>3. QED
    BY <2>1, <2>2, <1>1
<1>7. ASSUME NEW w \in Workers, Finish(w) PROVE NotDoneWhileProcessed'
  <2>1. item[w] \in Jobs /\ lease[item[w]] = w
    BY <1>7 DEF Finish, TypeOK, ProcessorsOwnTheLease, Leased, InJob
  <2>2. \A v \in Workers : pc[v] \in Past /\ v # w => item[v] # item[w]
    BY <2>1 DEF ProcessorsOwnTheLease, Leased, InJob
  <2>3. \A v \in Workers : pc'[v] \in Past => pc[v] \in Past /\ v # w /\ item'[v] = item[v]
    BY <1>7 DEF Finish, TypeOK
  <2>4. \A i \in Jobs : i # item[w] => status'[i] = status[i]
    BY <1>7, <2>1 DEF Finish, TypeOK
  <2>5. \A v \in Workers : pc[v] \in Past => item[v] \in Jobs
    BY DEF TypeOK, Leased, InJob
  <2>6. QED
    BY <2>2, <2>3, <2>4, <2>5
<1>8. CASE UNCHANGED vars
  BY <1>8, <1>1 DEF vars
<1>9. QED
  BY <1>2, <1>3, <1>4, <1>5, <1>6, <1>7, <1>8
  DEF Next, WorkerStep, WorkerFault

(* Nor does anybody report a job as finished while a worker is still on it.   *)
THEOREM NotDoneTooEarly ==
  ASSUME "late_heartbeat" \notin Faults
  PROVE  Spec => []NotDoneWhileProcessed
<1>1. Init => NotDoneWhileProcessed
  BY DEF Init, NotDoneWhileProcessed
<1>2. TypeOK /\ ProcessorsOwnTheLease /\ NotDoneWhileProcessed /\ [Next]_vars
      => NotDoneWhileProcessed'
  BY NotDoneStep
<1>3. QED
  BY <1>1, <1>2, TypeCorrect, LeaseOwnership, PTL DEF Spec

-------------------------------------------------------------------------------
(* The gauge, under every fault.                                              *)

Owned(w) == {j \in Jobs : lease[j] = w}

GaugeInv ==
  \A w \in Workers :
    /\ IsFiniteSet(Owned(w))
    /\ pc[w] # "dead" => gauge[w] = Cardinality(Owned(w)) + lapsed[w]

(* A lease goes from its owner.                                               *)
LEMMA OneOwnedLess ==
  ASSUME TypeOK, GaugeInv, NEW j \in Jobs, NEW w \in Workers, lease[j] = w,
         lease' = [lease EXCEPT ![j] = None]
  PROVE  /\ \A v \in Workers : IsFiniteSet(Owned(v)')
         /\ \A v \in Workers \ {w} : Owned(v)' = Owned(v)
         /\ Cardinality(Owned(w)') = Cardinality(Owned(w)) - 1
<1>1. \A i \in Jobs : lease'[i] = IF i = j THEN None ELSE lease[i]
  BY DEF TypeOK
<1>2. None \notin Workers
  BY ConstantsAssumption
<1>3. Owned(w)' = Owned(w) \ {j} /\ j \in Owned(w)
  BY <1>1, <1>2 DEF Owned
<1>4. \A v \in Workers \ {w} : Owned(v)' = Owned(v)
  BY <1>1, <1>2 DEF Owned
<1>5. IsFiniteSet(Owned(w)') /\ Cardinality(Owned(w)') = Cardinality(Owned(w)) - 1
  BY <1>3, FS_RemoveElement DEF GaugeInv
<1>6. QED
  BY <1>4, <1>5 DEF GaugeInv

LEMMA GaugeStep ==
  ASSUME TypeOK, GaugeInv, [Next]_vars
  PROVE  GaugeInv'
(* Steps that leave the leases and their count alone.                         *)
<1>1. ASSUME lease' = lease, lapsed' = lapsed,
             \A w \in Workers : gauge'[w] = gauge[w] \/ pc'[w] = "dead",
             \A w \in Workers : pc[w] = "dead" => pc'[w] = "dead"
      PROVE  GaugeInv'
  <2>1. \A w \in Workers : Owned(w)' = Owned(w)
    BY <1>1 DEF Owned
  <2>2. QED
    BY <1>1, <2>1 DEF GaugeInv
<1>2. ASSUME NEW j \in Jobs,
             \/ Submission(j) \/ SubmitPushError(j) \/ SubmitCrash(j)
             \/ CancelRead(j) \/ CancelCommit(j) \/ Age(j) \/ AgeAtWork(j)
      PROVE  GaugeInv'
  <2>1. UNCHANGED <<lease, lapsed, pc, gauge>>
    BY <1>2 DEF Submission, CheckKey, InsertRow, SubmitMark, SubmitPush, SubmitPushError,
                SubmitCrash, CancelRead, CancelCommit, Age, AgeAtWork
  <2>2. QED
    BY <2>1, <1>1
<1>3. ASSUME NEW j \in Jobs, Expire(j) \/ ExpireLate(j) PROVE GaugeInv'
  <2>1. UNCHANGED <<pc, gauge>> /\ lease' = [lease EXCEPT ![j] = None] /\ lease[j] \in Workers
    BY <1>3 DEF Expire, ExpireLate, TypeOK
  <2>2. \A w \in Workers :
           lapsed'[w] = IF w = lease[j] THEN lapsed[w] + 1 ELSE lapsed[w]
    BY <1>3, <2>1 DEF Expire, ExpireLate, TypeOK
  <2>3. PICK v \in Workers : v = lease[j]
    BY <2>1
  <2>4. lease[j] = v /\ lease' = [lease EXCEPT ![j] = None]
    BY <2>1, <2>3
  <2>5. /\ \A w \in Workers : IsFiniteSet(Owned(w)')
        /\ \A w \in Workers \ {v} : Owned(w)' = Owned(w)
        /\ Cardinality(Owned(v)') = Cardinality(Owned(v)) - 1
    BY <2>4, OneOwnedLess
  <2>6. Cardinality(Owned(v)) \in Nat
    BY FS_CardinalityType DEF GaugeInv
  <2>7. lapsed[v] \in Nat /\ gauge[v] \in Int
    BY DEF TypeOK
  <2>8. \A w \in Workers :
           lapsed'[w] = IF w = v THEN lapsed[w] + 1 ELSE lapsed[w]
    BY <2>2, <2>3
  <2>9. pc' = pc /\ gauge' = gauge
    BY <2>1
  <2>10. ASSUME NEW w \in Workers, pc'[w] # "dead"
         PROVE  gauge'[w] = Cardinality(Owned(w)') + lapsed'[w]
    <3>1. gauge[w] = Cardinality(Owned(w)) + lapsed[w]
      BY <2>9, <2>10 DEF GaugeInv
    <3>2. CASE w = v
      BY <3>1, <3>2, <2>5, <2>6, <2>7, <2>8, <2>9
    <3>3. CASE w # v
      BY <3>1, <3>3, <2>5, <2>8, <2>9
    <3>4. QED
      BY <3>2, <3>3
  <2>11. QED
    BY <2>5, <2>10 DEF GaugeInv
<1>4. ASSUME NEW w \in Workers, Acquire(w) PROVE GaugeInv'
  <2>1. /\ pc' = [pc EXCEPT ![w] = "load"] /\ gauge' = [gauge EXCEPT ![w] = @ + 1]
        /\ lease' = [lease EXCEPT ![item[w]] = w] /\ lapsed' = lapsed
        /\ pc[w] = "claim" /\ item[w] \in Jobs /\ lease[item[w]] = None
    BY <1>4 DEF Acquire, TypeOK
  <2>2. \A v \in Workers \ {w} : pc'[v] = pc[v] /\ gauge'[v] = gauge[v]
    BY <2>1 DEF TypeOK
  <2>3. gauge'[w] = gauge[w] + 1
    BY <2>1 DEF TypeOK
  <2>4. \A j \in Jobs : lease'[j] = IF j = item[w] THEN w ELSE lease[j]
    BY <2>1 DEF TypeOK
  <2>5. None \notin Workers
    BY ConstantsAssumption
  <2>6. \A v \in Workers \ {w} : Owned(v)' = Owned(v)
    BY <2>1, <2>4, <2>5 DEF Owned
  <2>7. Owned(w)' = Owned(w) \union {item[w]} /\ item[w] \notin Owned(w)
    BY <2>1, <2>4, <2>5 DEF Owned
  <2>8. IsFiniteSet(Owned(w)') /\ Cardinality(Owned(w)') = Cardinality(Owned(w)) + 1
    BY <2>7, FS_AddElement DEF GaugeInv
  <2>9. Cardinality(Owned(w)) \in Nat /\ lapsed[w] \in Nat /\ gauge[w] = Cardinality(Owned(w)) + lapsed[w]
    BY <2>1, FS_CardinalityType DEF GaugeInv, TypeOK
  <2>10. QED
    BY <2>1, <2>2, <2>3, <2>6, <2>8, <2>9 DEF GaugeInv
<1>5. ASSUME NEW w \in Workers, Release(w) PROVE GaugeInv'
  <2>1. pc[w] = "release" /\ pc' = [pc EXCEPT ![w] = "idle"] /\ lapsed' = lapsed /\ item[w] \in Jobs
    BY <1>5 DEF Release, TypeOK, Leased
  <2>2. CASE lease[item[w]] # w
    <3>1. UNCHANGED <<lease, gauge>>
      BY <1>5, <2>2 DEF Release
    <3>2. \A v \in Workers : pc[v] = "dead" => pc'[v] = "dead"
      BY <2>1 DEF TypeOK
    <3>3. QED
      BY <1>1, <2>1, <3>1, <3>2
  <2>3. CASE lease[item[w]] = w
    <3>1. lease' = [lease EXCEPT ![item[w]] = None] /\ gauge' = [gauge EXCEPT ![w] = @ - 1]
      BY <1>5, <2>3 DEF Release
    <3>2. /\ \A v \in Workers : IsFiniteSet(Owned(v)')
          /\ \A v \in Workers \ {w} : Owned(v)' = Owned(v)
          /\ Cardinality(Owned(w)') = Cardinality(Owned(w)) - 1
      BY <2>1, <2>3, <3>1, OneOwnedLess
    <3>3. gauge'[w] = gauge[w] - 1 /\ \A v \in Workers \ {w} : pc'[v] = pc[v] /\ gauge'[v] = gauge[v]
      BY <2>1, <3>1 DEF TypeOK
    <3>4. Cardinality(Owned(w)) \in Nat /\ lapsed[w] \in Nat /\ gauge[w] = Cardinality(Owned(w)) + lapsed[w]
      BY <2>1, FS_CardinalityType DEF GaugeInv, TypeOK
    <3>5. QED
      BY <2>1, <3>2, <3>3, <3>4 DEF GaugeInv
  <2>4. QED
    BY <2>2, <2>3
<1>6. ASSUME NEW w \in Workers,
             \/ RecoverSelect(w) \/ (\E j \in Jobs : RecoverMark(w, j)) \/ RecoverPush(w)
             \/ RecoverCommit(w) \/ Pop(w) \/ PopTimeout(w) \/ Unmark(w) \/ Skip(w)
             \/ Load(w) \/ Refresh(w) \/ Begin(w) \/ NextSegment(w) \/ Finish(w)
             \/ JobError(w) \/ ReleaseError(w)
      PROVE  GaugeInv'
  <2>1. UNCHANGED <<lease, lapsed, gauge>>
    BY <1>6 DEF RecoverSelect, RecoverMark, RecoverPush, RecoverCommit, Pop, PopTimeout, Unmark,
                Skip, Load, Refresh, Begin, NextSegment, Finish, JobError, ReleaseError
  <2>2. \A v \in Workers : pc[v] = "dead" => pc'[v] = "dead"
    BY <1>6 DEF RecoverSelect, RecoverMark, RecoverPush, RecoverCommit, Pop, PopTimeout, Unmark,
                Skip, Load, Refresh, Begin, NextSegment, Finish, JobError, ReleaseError, TypeOK, InJob
  <2>3. QED
    BY <2>1, <2>2, <1>1
<1>7. ASSUME NEW w \in Workers, RecoverPushError(w) \/ Crash(w) PROVE GaugeInv'
  <2>1. /\ UNCHANGED <<lease, lapsed>> /\ pc' = [pc EXCEPT ![w] = "dead"]
        /\ gauge' = [gauge EXCEPT ![w] = 0]
    BY <1>7 DEF RecoverPushError, Crash
  <2>2. pc'[w] = "dead" /\ \A v \in Workers \ {w} : UNCHANGED <<pc[v], gauge[v]>>
    BY <2>1 DEF TypeOK
  <2>3. QED
    BY <2>1, <2>2, <1>1
<1>8. CASE UNCHANGED vars
  BY <1>8, <1>1 DEF vars
<1>9. QED
  BY <1>2, <1>3, <1>4, <1>5, <1>6, <1>7, <1>8
  DEF Next, WorkerStep, WorkerFault

(* ACTIVE_LEASES of a live process counts the leases it owns in Redis and     *)
(* those of its leases that ran out, whatever fails.                          *)
THEOREM GaugeCounts == Spec => []GaugeCountsOwnedLeases
<1>1. Init => GaugeInv
  <2> SUFFICES ASSUME Init, NEW w \in Workers
               PROVE  IsFiniteSet(Owned(w)) /\ gauge[w] = Cardinality(Owned(w)) + lapsed[w]
    BY DEF GaugeInv
  <2>1. Owned(w) = {}
    BY ConstantsAssumption DEF Init, Owned
  <2>2. gauge[w] = 0 /\ lapsed[w] = 0
    BY DEF Init
  <2>3. QED
    BY <2>1, <2>2, FS_EmptySet
<1>2. TypeOK /\ GaugeInv /\ [Next]_vars => GaugeInv'
  BY GaugeStep
<1>3. GaugeInv => GaugeCountsOwnedLeases
  BY DEF GaugeInv, GaugeCountsOwnedLeases, Owned
<1>4. QED
  BY <1>1, <1>2, <1>3, TypeCorrect, PTL DEF Spec

-------------------------------------------------------------------------------
(* No marker without a token, when nobody dies inside the two windows.        *)

LEMMA BackedStep ==
  ASSUME "window_crash" \notin Faults, TypeOK, MarkersAreBacked, [Next]_vars
  PROVE  MarkersAreBacked'
<1> USE DEF MarkersAreBacked, InTransit, Transit
<1>1. ASSUME enqueued' \subseteq enqueued, UNCHANGED queue,
             \A j \in enqueued' : submit[j] = "marked" => submit'[j] = "marked",
             \A w \in Workers : pc[w] \in Transit /\ item[w] \in enqueued' =>
                                 pc'[w] \in Transit /\ item'[w] = item[w]
      PROVE  MarkersAreBacked'
  BY <1>1
<1>2. ASSUME NEW j \in Jobs,
             \/ CheckKey(j) \/ InsertRow(j) \/ SubmitCrash(j) \/ CancelRead(j)
             \/ CancelCommit(j) \/ Expire(j) \/ ExpireLate(j) \/ Age(j) \/ AgeAtWork(j)
      PROVE  MarkersAreBacked'
  <2>1. UNCHANGED <<queue, enqueued, pc, item>>
    BY <1>2 DEF CheckKey, InsertRow, SubmitCrash, CancelRead, CancelCommit,
                Expire, ExpireLate, Age, AgeAtWork
  <2>2. \A i \in Jobs : submit[i] = "marked" => submit'[i] = "marked"
    BY <1>2 DEF CheckKey, InsertRow, SubmitCrash, CancelRead, CancelCommit,
                Expire, ExpireLate, Age, AgeAtWork, TypeOK
  <2>3. QED
    BY <2>1, <2>2, <1>1 DEF TypeOK
<1>3. ASSUME NEW j \in Jobs, SubmitMark(j) PROVE MarkersAreBacked'
  BY <1>3 DEF SubmitMark, TypeOK
<1>4. ASSUME queue \in Seq(Jobs), NEW j \in Jobs, queue' = Append(queue, j)
      PROVE  /\ \E i \in DOMAIN queue' : queue'[i] = j
             /\ \A k \in DOMAIN queue : \E i \in DOMAIN queue' : queue'[i] = queue[k]
  <2>1. /\ DOMAIN queue' = 1..(Len(queue) + 1) /\ DOMAIN queue = 1..Len(queue)
        /\ Len(queue) \in Nat
        /\ queue'[Len(queue) + 1] = j
        /\ \A k \in DOMAIN queue : queue'[k] = queue[k]
    BY <1>4
  <2>2. \A k \in DOMAIN queue : k \in DOMAIN queue'
    BY <2>1
  <2>3. Len(queue) + 1 \in DOMAIN queue'
    BY <2>1
  <2>4. QED
    BY <2>1, <2>2, <2>3
<1>5. ASSUME NEW j \in Jobs, SubmitPush(j) PROVE MarkersAreBacked'
  <2>1. queue \in Seq(Jobs) /\ queue' = Append(queue, j)
    BY <1>5 DEF SubmitPush, TypeOK
  <2>2. UNCHANGED <<enqueued, pc, item>> /\ \A i \in Jobs : i # j => submit'[i] = submit[i]
    BY <1>5 DEF SubmitPush, TypeOK
  <2>3. /\ \E i \in DOMAIN queue' : queue'[i] = j
        /\ \A k \in DOMAIN queue : \E i \in DOMAIN queue' : queue'[i] = queue[k]
    BY <2>1, <1>4
  <2>4. enqueued \subseteq Jobs
    BY DEF TypeOK
  <2>5. QED
    BY <2>2, <2>3, <2>4
<1>6. ASSUME NEW w \in Workers, RecoverPush(w) PROVE MarkersAreBacked'
  <2>1. queue \in Seq(Jobs) /\ queue' = Append(queue, item[w]) /\ item[w] \in Jobs
    BY <1>6 DEF RecoverPush, TypeOK
  <2>2. UNCHANGED <<enqueued, submit>> /\ \A v \in Workers : v # w => pc'[v] = pc[v] /\ item'[v] = item[v]
    BY <1>6 DEF RecoverPush, TypeOK
  <2>3. QED
    BY <2>1, <2>2, <1>4
<1>7. ASSUME NEW j \in Jobs, PushRaises(j)
      PROVE  /\ enqueued' = enqueued \ {j}
             /\ \A k \in DOMAIN queue : \E i \in DOMAIN queue' : queue'[i] = queue[k]
  BY <1>4, <1>7 DEF TypeOK
<1>8. ASSUME NEW j \in Jobs, SubmitPushError(j) PROVE MarkersAreBacked'
  <2>1. UNCHANGED <<pc, item>> /\ \A i \in Jobs : i # j => submit'[i] = submit[i]
    BY <1>8 DEF SubmitPushError, TypeOK
  <2>2. PushRaises(j)
    BY <1>8 DEF SubmitPushError
  <2>3. /\ enqueued' = enqueued \ {j}
        /\ \A k \in DOMAIN queue : \E i \in DOMAIN queue' : queue'[i] = queue[k]
    BY <2>2, <1>7
  <2>4. enqueued \subseteq Jobs
    BY DEF TypeOK
  <2>5. QED
    BY <2>1, <2>3, <2>4
<1>9. ASSUME NEW w \in Workers, RecoverPushError(w) PROVE MarkersAreBacked'
  <2>1. UNCHANGED submit /\ \A v \in Workers : v # w => pc'[v] = pc[v] /\ item'[v] = item[v]
    BY <1>9 DEF RecoverPushError, TypeOK
  <2>2. PushRaises(item[w]) /\ item[w] \in Jobs
    BY <1>9 DEF RecoverPushError, TypeOK
  <2>3. QED
    BY <2>1, <2>2, <1>7
<1>10. ASSUME NEW w \in Workers, NEW j \in Jobs, RecoverMark(w, j) PROVE MarkersAreBacked'
  BY <1>10 DEF RecoverMark, TypeOK
<1>11. ASSUME NEW w \in Workers, Pop(w) PROVE MarkersAreBacked'
  <2>1. /\ queue \in Seq(Jobs) /\ queue # <<>> /\ Head(queue) = queue[1]
        /\ \A k \in DOMAIN queue : k # 1 => k - 1 \in DOMAIN queue' /\ queue'[k - 1] = queue[k]
    BY <1>11 DEF Pop, TypeOK
  <2>2. UNCHANGED <<enqueued, submit>>
    BY <1>11 DEF Pop
  <2>3. pc'[w] \in Transit /\ item'[w] = queue[1]
    BY <1>11, <2>1 DEF Pop, TypeOK
  <2>4. \A v \in Workers : pc[v] \in Transit => pc'[v] = pc[v] /\ item'[v] = item[v]
    BY <1>11 DEF Pop, TypeOK
  <2>5. QED
    BY <2>1, <2>2, <2>3, <2>4
<1>12. ASSUME NEW w \in Workers, Unmark(w) PROVE MarkersAreBacked'
  BY <1>12, <1>1 DEF Unmark, TypeOK
<1>13. ASSUME NEW w \in Workers, Crash(w) PROVE MarkersAreBacked'
  BY <1>13, <1>1 DEF Crash, TypeOK
<1>14. ASSUME NEW w \in Workers,
              \/ RecoverSelect(w) \/ RecoverCommit(w) \/ PopTimeout(w) \/ Acquire(w) \/ Skip(w)
              \/ Load(w) \/ Refresh(w) \/ Begin(w) \/ NextSegment(w) \/ Finish(w) \/ Release(w)
              \/ JobError(w) \/ ReleaseError(w)
       PROVE  MarkersAreBacked'
  <2>1. UNCHANGED <<queue, enqueued, submit>>
    BY <1>14 DEF RecoverSelect, RecoverCommit, PopTimeout, Acquire, Skip, Load, Refresh, Begin,
                 NextSegment, Finish, Release, JobError, ReleaseError
  <2>2. \A v \in Workers : pc[v] \in Transit => pc'[v] = pc[v] /\ item'[v] = item[v]
    BY <1>14 DEF RecoverSelect, RecoverCommit, PopTimeout, Acquire, Skip, Load, Refresh, Begin,
                 NextSegment, Finish, Release, JobError, ReleaseError, InJob, TypeOK
  <2>3. QED
    BY <2>1, <2>2, <1>1
<1>15. CASE UNCHANGED vars
  BY <1>15, <1>1 DEF vars
<1>16. QED
  BY <1>2, <1>3, <1>5, <1>6, <1>8, <1>9, <1>10, <1>11, <1>12, <1>13, <1>14, <1>15
  DEF Next, Submission, WorkerStep, WorkerFault

(* The marker set never refuses a job that nobody is going to deliver, as     *)
(* long as no process dies between SADD and RPUSH or between BLPOP and SREM.  *)
THEOREM NoOrphanMarkers ==
  ASSUME "window_crash" \notin Faults
  PROVE  Spec => []MarkersAreBacked
<1>1. Init => MarkersAreBacked
  BY DEF Init, MarkersAreBacked
<1>2. TypeOK /\ MarkersAreBacked /\ [Next]_vars => MarkersAreBacked'
  BY BackedStep
<1>3. QED
  BY <1>1, <1>2, TypeCorrect, PTL DEF Spec

-------------------------------------------------------------------------------
(* Who may end a lease, with every kind of fault.                             *)

LEMMA OnlyOwnerStep ==
  ASSUME TypeOK, [Next]_vars
  PROVE  \A j \in Jobs : lease[j] # None /\ lease'[j] # lease[j] =>
            /\ lease'[j] = None
            /\ \A w \in Workers \ {lease[j]} : pc'[w] = pc[w]
<1> SUFFICES ASSUME NEW j \in Jobs, lease[j] # None, lease'[j] # lease[j]
             PROVE  lease'[j] = None /\ \A w \in Workers \ {lease[j]} : pc'[w] = pc[w]
  OBVIOUS
<1>1. ASSUME NEW i \in Jobs, Expire(i) \/ ExpireLate(i)
      PROVE  lease'[j] = None /\ UNCHANGED pc
  BY <1>1 DEF Expire, ExpireLate, TypeOK
<1>2. ASSUME NEW w \in Workers, Acquire(w) PROVE FALSE
  BY <1>2 DEF Acquire, TypeOK
<1>3. ASSUME NEW w \in Workers, Release(w)
      PROVE  lease'[j] = None /\ \A v \in Workers \ {lease[j]} : pc'[v] = pc[v]
  <2>1. lease[item[w]] = w /\ item[w] = j
    BY <1>3 DEF Release, TypeOK, Leased
  <2>2. QED
    BY <1>3, <2>1 DEF Release, TypeOK
<1>4. ASSUME NEW i \in Jobs,
             \/ Submission(i) \/ SubmitPushError(i) \/ SubmitCrash(i)
             \/ CancelRead(i) \/ CancelCommit(i) \/ Age(i) \/ AgeAtWork(i)
      PROVE  FALSE
  BY <1>4 DEF Submission, CheckKey, InsertRow, SubmitMark, SubmitPush, SubmitPushError,
              SubmitCrash, CancelRead, CancelCommit, Age, AgeAtWork
<1>5. ASSUME NEW w \in Workers, NEW i \in Jobs, RecoverMark(w, i) PROVE FALSE
  BY <1>5 DEF RecoverMark
<1>6. ASSUME NEW w \in Workers,
             \/ RecoverSelect(w) \/ RecoverPush(w) \/ RecoverCommit(w) \/ Pop(w) \/ PopTimeout(w)
             \/ Unmark(w) \/ Skip(w) \/ Load(w) \/ Refresh(w) \/ Begin(w) \/ NextSegment(w)
             \/ Finish(w) \/ WorkerFault(w)
      PROVE  FALSE
  BY <1>6 DEF RecoverSelect, RecoverPush, RecoverCommit, Pop, PopTimeout, Unmark, Skip, Load,
              Refresh, Begin, NextSegment, Finish, WorkerFault, RecoverPushError, JobError,
              ReleaseError, Crash
<1>7. ~UNCHANGED vars
  BY DEF vars
<1>8. QED
  BY <1>1, <1>2, <1>3, <1>4, <1>5, <1>6, <1>7 DEF Next, WorkerStep

(* A worker that lost its lease cannot delete or take over the lease of the   *)
(* worker that acquired it after it.                                          *)
THEOREM LeaseHandover == Spec => OnlyOwnerReleases
<1>1. TypeOK /\ [Next]_vars =>
        [\A j \in Jobs : lease[j] # None /\ lease'[j] # lease[j] =>
            /\ lease'[j] = None
            /\ \A w \in Workers \ {lease[j]} : pc'[w] = pc[w]]_vars
  BY OnlyOwnerStep
<1>2. QED
  BY <1>1, TypeCorrect, PTL DEF Spec, OnlyOwnerReleases

-------------------------------------------------------------------------------
(* Rows: nothing in Redis, in a worker or in a request names a job whose row  *)
(* has not been inserted.                                                     *)

RowInv ==
  /\ \A j \in Jobs : submit[j] \in {"new", "checked"} => status[j] = "none"
  /\ \A j \in Jobs : submit[j] \in {"committed", "marked"} => status[j] # "none"
  /\ \A j \in Jobs : cancel[j] \in {"sawQueued", "sawRunning"} => status[j] # "none"
  /\ \A i \in DOMAIN queue : status[queue[i]] # "none"
  /\ \A w \in Workers : /\ item[w] # None => status[item[w]] # "none"
                        /\ \A j \in todo[w] \union requeue[w] : status[j] # "none"

(* A step other than InsertRow that keeps the set of rows, and lets nobody    *)
(* name a job that nobody named before.                                       *)
LEMMA RowFrame ==
  ASSUME TypeOK, RowInv,
         \A j \in Jobs : (status'[j] = "none") <=> (status[j] = "none"),
         \A j \in Jobs : submit'[j] \in {"new", "checked"} => submit[j] \in {"new", "checked"},
         \A j \in Jobs : submit'[j] \in {"committed", "marked"} => submit[j] \in {"committed", "marked"},
         \A j \in Jobs : cancel'[j] \in {"sawQueued", "sawRunning"} => status[j] # "none",
         \A i \in DOMAIN queue' : queue'[i] \in Jobs /\ status[queue'[i]] # "none",
         \A w \in Workers : item'[w] # None => item'[w] \in Jobs /\ status[item'[w]] # "none",
         \A w \in Workers : \A j \in todo'[w] \union requeue'[w] : j \in Jobs /\ status[j] # "none"
  PROVE  RowInv'
BY DEF RowInv

LEMMA RowStep ==
  ASSUME TypeOK, RowInv, [Next]_vars
  PROVE  /\ RowInv'
         /\ \A z \in Jobs : status[z] = "none" /\ status'[z] # "none" => InsertRow(z)
<1> DEFINE Same == \A j \in Jobs : (status'[j] = "none") <=> (status[j] = "none")
<1> SUFFICES RowInv' /\ (Same \/ (\E j \in Jobs : InsertRow(j) /\ \A i \in Jobs : i # j => status'[i] = status[i]))
  OBVIOUS
<1> USE ConstantsAssumption
<1>t. /\ \A i \in DOMAIN queue : queue[i] \in Jobs
      /\ \A w \in Workers : item[w] # None => item[w] \in Jobs
      /\ \A w \in Workers : todo[w] \subseteq Jobs /\ requeue[w] \subseteq Jobs
      /\ \A w \in Workers : pc[w] \in Transit \union Leased \union {"claim"} => item[w] \in Jobs /\ item[w] # None
  BY DEF TypeOK
<1>r. /\ \A i \in DOMAIN queue : status[queue[i]] # "none"
      /\ \A w \in Workers : item[w] # None => status[item[w]] # "none"
      /\ \A w \in Workers : \A j \in todo[w] \union requeue[w] : status[j] # "none"
      /\ \A j \in Jobs : cancel[j] \in {"sawQueued", "sawRunning"} => status[j] # "none"
  BY DEF RowInv
<1>1. ASSUME NEW j \in Jobs, InsertRow(j)
      PROVE  RowInv' /\ (InsertRow(j) /\ \A i \in Jobs : i # j => status'[i] = status[i])
  <2>1. /\ UNCHANGED <<queue, cancel, item, todo, requeue>>
        /\ \A i \in Jobs : i # j => status'[i] = status[i] /\ submit'[i] = submit[i]
        /\ \/ submit'[j] = "closed" /\ status'[j] = status[j]
           \/ submit'[j] = "committed" /\ status'[j] = "queued"
        /\ status[j] = "none"
    BY <1>1 DEF InsertRow, TypeOK, RowInv
  <2>2. \A i \in Jobs : status[i] # "none" => status'[i] # "none"
    BY <2>1
  <2>3. QED
    BY <1>1, <1>t, <1>r, <2>1, <2>2 DEF RowInv
<1>2. ASSUME NEW j \in Jobs,
             \/ CheckKey(j) \/ SubmitMark(j) \/ SubmitCrash(j)
             \/ Expire(j) \/ ExpireLate(j) \/ Age(j) \/ AgeAtWork(j)
      PROVE  RowInv' /\ Same
  <2>1. UNCHANGED <<queue, cancel, item, todo, requeue, status>>
    BY <1>2 DEF CheckKey, SubmitMark, SubmitCrash, Expire, ExpireLate, Age, AgeAtWork
  <2>2. \A i \in Jobs : /\ submit'[i] \in {"new", "checked"} => submit[i] \in {"new", "checked"}
                        /\ submit'[i] \in {"committed", "marked"} => submit[i] \in {"committed", "marked"}
    BY <1>2 DEF CheckKey, SubmitMark, SubmitCrash, Expire, ExpireLate, Age, AgeAtWork, TypeOK
  <2>3. QED
    BY <1>t, <1>r, <2>1, <2>2, RowFrame
<1>3. ASSUME queue \in Seq(Jobs), NEW j \in Jobs, status[j] # "none",
             queue' = Append(queue, j) \/ queue' = queue
      PROVE  \A i \in DOMAIN queue' : queue'[i] \in Jobs /\ status[queue'[i]] # "none"
  BY <1>3, <1>t, <1>r
<1>4. ASSUME NEW j \in Jobs, SubmitPush(j) \/ SubmitPushError(j) PROVE RowInv' /\ Same
  <2>1. UNCHANGED <<cancel, item, todo, requeue, status>> /\ status[j] # "none"
    BY <1>4 DEF SubmitPush, SubmitPushError, RowInv
  <2>2. \A i \in Jobs : /\ submit'[i] \in {"new", "checked"} => submit[i] \in {"new", "checked"}
                        /\ submit'[i] \in {"committed", "marked"} => submit[i] \in {"committed", "marked"}
    BY <1>4 DEF SubmitPush, SubmitPushError, TypeOK
  <2>3. queue \in Seq(Jobs) /\ (queue' = Append(queue, j) \/ queue' = queue)
    BY <1>4 DEF SubmitPush, SubmitPushError, TypeOK
  <2>4. QED
    BY <1>t, <1>r, <2>1, <2>2, <2>3, <1>3, RowFrame
<1>5. ASSUME NEW j \in Jobs, CancelRead(j) PROVE RowInv' /\ Same
  <2>1. UNCHANGED <<queue, submit, item, todo, requeue, status>>
        /\ \A i \in Jobs : cancel'[i] = cancel[i] \/ (i = j /\ status[j] # "none")
    BY <1>5 DEF CancelRead, TypeOK
  <2>2. QED
    BY <1>t, <1>r, <2>1, RowFrame
<1>6. ASSUME NEW j \in Jobs, CancelCommit(j) PROVE RowInv' /\ Same
  <2>1. UNCHANGED <<queue, submit, item, todo, requeue>> /\ status[j] # "none"
    BY <1>6, <1>r DEF CancelCommit
  <2>2. \A i \in Jobs : /\ cancel'[i] \in {"sawQueued", "sawRunning"} => cancel[i] \in {"sawQueued", "sawRunning"}
                        /\ status'[i] = status[i] \/ (i = j /\ status'[j] \in {"cancelled", status[j]})
    BY <1>6 DEF CancelCommit, TypeOK
  <2>3. QED
    BY <1>t, <1>r, <2>1, <2>2, RowFrame
<1>7. ASSUME NEW w \in Workers, RecoverSelect(w) PROVE RowInv' /\ Same
  <2>1. UNCHANGED <<queue, submit, cancel, item, status>>
    BY <1>7 DEF RecoverSelect
  <2>2. \A v \in Workers : \A j \in todo'[v] \union requeue'[v] :
          j \in todo[v] \union requeue[v] \/ (j \in Jobs /\ status[j] # "none")
    BY <1>7 DEF RecoverSelect, TypeOK
  <2>3. QED
    BY <1>t, <1>r, <2>1, <2>2, RowFrame
<1>8. ASSUME NEW w \in Workers, NEW j \in Jobs, RecoverMark(w, j) PROVE RowInv' /\ Same
  <2>1. UNCHANGED <<queue, submit, cancel, requeue, status>> /\ status[j] # "none"
    BY <1>8, <1>r DEF RecoverMark
  <2>2. \A v \in Workers : todo'[v] \subseteq todo[v] /\ item'[v] \in {item[v], j}
    BY <1>8 DEF RecoverMark, TypeOK
  <2>3. QED
    BY <1>t, <1>r, <2>1, <2>2, RowFrame
<1>9. ASSUME NEW w \in Workers, RecoverPush(w) \/ RecoverPushError(w) PROVE RowInv' /\ Same
  <2>1. UNCHANGED <<submit, cancel, status>> /\ item[w] \in Jobs /\ status[item[w]] # "none"
    BY <1>9, <1>t, <1>r DEF RecoverPush, RecoverPushError, Transit
  <2>2. \A v \in Workers : /\ todo'[v] \subseteq todo[v] /\ requeue'[v] \subseteq requeue[v]
                           /\ item'[v] \in {item[v], None}
    BY <1>9 DEF RecoverPush, RecoverPushError, TypeOK
  <2>3. queue \in Seq(Jobs) /\ (queue' = Append(queue, item[w]) \/ queue' = queue)
    BY <1>9 DEF RecoverPush, RecoverPushError, TypeOK
  <2>4. \A i \in DOMAIN queue' : queue'[i] \in Jobs /\ status[queue'[i]] # "none"
    BY <2>1, <2>3, <1>3
  <2>5. QED
    BY <1>t, <1>r, <2>1, <2>2, <2>4, RowFrame
<1>10. ASSUME NEW w \in Workers, RecoverCommit(w) PROVE RowInv' /\ Same
  <2>1. UNCHANGED <<queue, submit, cancel, todo, item>>
        /\ \A v \in Workers : requeue'[v] \subseteq requeue[v]
    BY <1>10 DEF RecoverCommit, TypeOK
  <2>2. Same
    BY <1>10, <1>r DEF RecoverCommit
  <2>3. QED
    BY <1>t, <1>r, <2>1, <2>2, RowFrame
<1>11. ASSUME NEW w \in Workers, Pop(w) PROVE RowInv' /\ Same
  <2>1. /\ UNCHANGED <<submit, cancel, todo, requeue, status>>
        /\ \A v \in Workers : item'[v] = item[v] \/ item'[v] = queue[1]
        /\ 1 \in DOMAIN queue
        /\ \A i \in DOMAIN queue' : i + 1 \in DOMAIN queue /\ queue'[i] = queue[i + 1]
    BY <1>11 DEF Pop, TypeOK
  <2>2. QED
    BY <1>t, <1>r, <2>1, RowFrame
<1>12. ASSUME NEW w \in Workers, Begin(w) \/ NextSegment(w) \/ Finish(w) PROVE RowInv' /\ Same
  <2>1. UNCHANGED <<queue, submit, cancel, todo, requeue, item>>
        /\ item[w] \in Jobs /\ status[item[w]] # "none"
    BY <1>12, <1>t, <1>r DEF Begin, NextSegment, Finish, Leased, InJob
  <2>2. \A i \in Jobs : status'[i] = status[i] \/ (i = item[w] /\ status'[i] \in {"running", "cancelled", "done", status[i]})
    BY <1>12, <2>1 DEF Begin, NextSegment, Finish, TypeOK
  <2>3. QED
    BY <1>t, <1>r, <2>1, <2>2, RowFrame
<1>13. ASSUME NEW w \in Workers,
              \/ PopTimeout(w) \/ Unmark(w) \/ Acquire(w) \/ Skip(w) \/ Load(w) \/ Refresh(w)
              \/ Release(w) \/ JobError(w) \/ ReleaseError(w) \/ Crash(w)
       PROVE  RowInv' /\ Same
  <2>1. UNCHANGED <<queue, submit, cancel, status>>
    BY <1>13 DEF PopTimeout, Unmark, Acquire, Skip, Load, Refresh, Release, JobError, ReleaseError, Crash
  <2>2. \A v \in Workers : /\ todo'[v] \subseteq todo[v] /\ requeue'[v] \subseteq requeue[v]
                           /\ item'[v] \in {item[v], None}
    BY <1>13 DEF PopTimeout, Unmark, Acquire, Skip, Load, Refresh, Release, JobError, ReleaseError,
                 Crash, TypeOK
  <2>3. QED
    BY <1>t, <1>r, <2>1, <2>2, RowFrame
<1>14. CASE UNCHANGED vars
  BY <1>14, <1>t, <1>r, RowFrame DEF vars
<1>15. QED
  BY <1>1, <1>2, <1>4, <1>5, <1>6, <1>7, <1>8, <1>9, <1>10, <1>11, <1>12, <1>13, <1>14
  DEF Next, Submission, WorkerStep, WorkerFault

LEMMA RowInvariant == Spec => []RowInv
<1>1. Init => RowInv
  BY DEF Init, RowInv
<1>2. TypeOK /\ RowInv /\ [Next]_vars => RowInv'
  BY RowStep
<1>3. QED
  BY <1>1, <1>2, TypeCorrect, PTL DEF Spec

(* One row per idempotency key, for any number of concurrent requests and     *)
(* whatever happens to them.                                                  *)
THEOREM Idempotency == Spec => []OneRowPerKey
<1>1. Init => OneRowPerKey
  BY ConstantsAssumption DEF Init, OneRowPerKey
<1>2. TypeOK /\ RowInv /\ OneRowPerKey /\ [Next]_vars => OneRowPerKey'
  <2> SUFFICES ASSUME TypeOK, RowInv, OneRowPerKey, [Next]_vars,
                      NEW i \in Keyed, NEW k \in Keyed, status'[i] # "none", status'[k] # "none"
               PROVE  i = k
    BY DEF OneRowPerKey
  <2>1. i \in Jobs /\ k \in Jobs
    BY ConstantsAssumption
  <2>2. ASSUME NEW z \in Keyed, z \in Jobs, InsertRow(z), status'[z] # "none", status[z] = "none"
        PROVE  \A y \in Keyed : status[y] = "none" /\ (y # z => status'[y] = status[y])
    BY <2>2, ConstantsAssumption DEF InsertRow, TypeOK
  <2>3. CASE status[i] # "none" /\ status[k] # "none"
    BY <2>3 DEF OneRowPerKey
  <2>4. CASE status[i] = "none"
    BY <2>1, <2>2, <2>4, RowStep
  <2>5. CASE status[k] = "none"
    BY <2>1, <2>2, <2>5, RowStep
  <2>6. QED
    BY <2>3, <2>4, <2>5
<1>3. QED
  BY <1>1, <1>2, TypeCorrect, RowInvariant, PTL DEF Spec

-------------------------------------------------------------------------------
(* Who may take a finished job out of "done".                                 *)

LEMMA DoneLeftStep ==
  ASSUME TypeOK, RowInv, NotDoneWhileProcessed, [Next]_vars, NEW j \in Jobs,
         status[j] = "done", status'[j] # "done"
  PROVE  \/ cancel[j] = "sawQueued"
         \/ \E w \in Workers : pc[w] = "enqueue" /\ j \in requeue[w]
<1>1. ASSUME NEW i \in Jobs, InsertRow(i) PROVE FALSE
  BY <1>1 DEF InsertRow, TypeOK, RowInv
<1>2. ASSUME NEW i \in Jobs, CancelCommit(i) PROVE cancel[j] = "sawQueued"
  BY <1>2 DEF CancelCommit, TypeOK
<1>3. ASSUME NEW i \in Jobs,
             \/ CheckKey(i) \/ SubmitMark(i) \/ SubmitPush(i) \/ SubmitPushError(i) \/ SubmitCrash(i)
             \/ CancelRead(i) \/ Expire(i) \/ ExpireLate(i) \/ Age(i) \/ AgeAtWork(i)
      PROVE  FALSE
  BY <1>3 DEF CheckKey, SubmitMark, SubmitPush, SubmitPushError, SubmitCrash, CancelRead,
              Expire, ExpireLate, Age, AgeAtWork
<1>4. ASSUME NEW w \in Workers, RecoverCommit(w)
      PROVE  pc[w] = "enqueue" /\ j \in requeue[w]
  BY <1>4 DEF RecoverCommit
<1>5. ASSUME NEW w \in Workers, Begin(w) \/ NextSegment(w) PROVE FALSE
  <2>1. item[w] # j
    BY <1>5 DEF Begin, NextSegment, NotDoneWhileProcessed
  <2>2. QED
    BY <1>5, <2>1 DEF Begin, NextSegment, TypeOK
<1>6. ASSUME NEW w \in Workers, Finish(w) PROVE FALSE
  BY <1>6 DEF Finish, TypeOK
<1>7. ASSUME NEW w \in Workers,
             \/ RecoverSelect(w) \/ RecoverPush(w) \/ Pop(w) \/ PopTimeout(w) \/ Unmark(w)
             \/ Acquire(w) \/ Skip(w) \/ Load(w) \/ Refresh(w) \/ Release(w) \/ WorkerFault(w)
      PROVE  FALSE
  BY <1>7 DEF RecoverSelect, RecoverPush, Pop, PopTimeout, Unmark, Acquire, Skip, Load, Refresh,
              Release, WorkerFault, RecoverPushError, JobError, ReleaseError, Crash
<1>8. ASSUME NEW w \in Workers, NEW i \in Jobs, RecoverMark(w, i) PROVE FALSE
  BY <1>8 DEF RecoverMark
<1>9. ~UNCHANGED vars
  BY DEF vars
<1>10. QED
  BY <1>1, <1>2, <1>3, <1>4, <1>5, <1>6, <1>7, <1>8, <1>9 DEF Next, Submission, WorkerStep

(* Second deliveries, re-enqueued jobs and crashed predecessors never reopen  *)
(* a finished job; only the two lost updates do.                              *)
THEOREM DoneIsStable ==
  ASSUME "late_heartbeat" \notin Faults
  PROVE  Spec => DoneLeftOnlyByStaleWriters
<1>1. TypeOK /\ RowInv /\ NotDoneWhileProcessed /\ [Next]_vars =>
        [\A j \in Jobs : status[j] = "done" /\ status'[j] # "done" =>
            \/ cancel[j] = "sawQueued"
            \/ \E w \in Workers : pc[w] = "enqueue" /\ j \in requeue[w]]_vars
  BY DoneLeftStep
<1>2. QED
  BY <1>1, TypeCorrect, RowInvariant, NotDoneTooEarly, PTL DEF Spec, DoneLeftOnlyByStaleWriters

-------------------------------------------------------------------------------
(* The queue implements DedupQueue.                                           *)

InHand == [w \in Workers |-> IF pc[w] \in Leased \union {"claim"} THEN item[w] ELSE None]

LEMMA RefinementStep ==
  ASSUME "lost_reply" \notin Faults, TypeOK, QueueInv, [Next]_vars
  PROVE  [Promise!Next]_(Promise!vars)
<1> USE DEF Promise!vars, InHand, Leased, InJob
(* Steps of the queue that hand nothing over: the abstract queue stutters.    *)
<1>1. ASSUME UNCHANGED enqueued,
             \A w \in Workers : InHand'[w] = InHand[w]
      PROVE  UNCHANGED Promise!vars
  BY <1>1
<1>2. ASSUME NEW w \in Workers, UNCHANGED enqueued,
             \A v \in Workers : InHand'[v] = IF v = w THEN None ELSE InHand[v]
      PROVE  Promise!Drop(w)
  BY <1>2 DEF Promise!Drop
<1>3. ASSUME NEW j \in Jobs,
             \/ CheckKey(j) \/ InsertRow(j) \/ SubmitPush(j) \/ SubmitCrash(j) \/ CancelRead(j)
             \/ CancelCommit(j) \/ Expire(j) \/ ExpireLate(j) \/ Age(j) \/ AgeAtWork(j)
      PROVE  UNCHANGED Promise!vars
  BY <1>3 DEF CheckKey, InsertRow, SubmitPush, SubmitCrash, CancelRead, CancelCommit,
              Expire, ExpireLate, Age, AgeAtWork
<1>4. ASSUME NEW j \in Jobs, SubmitMark(j) PROVE [Promise!Next]_(Promise!vars)
  <2>1. UNCHANGED <<pc, item>> /\ enqueued' = enqueued \union {j}
    BY <1>4 DEF SubmitMark
  <2>2. CASE j \in enqueued
    BY <2>1, <2>2
  <2>3. CASE j \notin enqueued
    <3>1. Promise!Offer(j)
      BY <2>1, <2>3 DEF Promise!Offer
    <3>2. QED
      BY <3>1 DEF Promise!Next
  <2>4. QED
    BY <2>2, <2>3
<1>5. ASSUME NEW j \in Jobs, SubmitPushError(j) PROVE [Promise!Next]_(Promise!vars)
  <2>1. UNCHANGED <<pc, item>> /\ enqueued' = enqueued \ {j} /\ j \in enqueued
    BY <1>5 DEF SubmitPushError, QueueInv, MarkedBy
  <2>2. Promise!Withdraw(j)
    BY <2>1 DEF Promise!Withdraw
  <2>3. QED
    BY <2>2 DEF Promise!Next
<1>6. ASSUME NEW w \in Workers, NEW j \in Jobs, RecoverMark(w, j)
      PROVE  [Promise!Next]_(Promise!vars)
  <2>1. \A v \in Workers : InHand'[v] = InHand[v]
    BY <1>6 DEF RecoverMark, TypeOK
  <2>2. enqueued' = enqueued \union {j}
    BY <1>6 DEF RecoverMark
  <2>3. CASE j \in enqueued
    BY <1>1, <2>1, <2>2, <2>3
  <2>4. CASE j \notin enqueued
    <3>1. Promise!Offer(j)
      BY <2>1, <2>2, <2>4 DEF Promise!Offer
    <3>2. QED
      BY <3>1 DEF Promise!Next
  <2>5. QED
    BY <2>3, <2>4
<1>7. ASSUME NEW w \in Workers, RecoverPushError(w) PROVE [Promise!Next]_(Promise!vars)
  <2>1. \A v \in Workers : InHand'[v] = InHand[v]
    BY <1>7 DEF RecoverPushError, TypeOK
  <2>2. item[w] \in Jobs /\ item[w] \in enqueued /\ enqueued' = enqueued \ {item[w]}
    BY <1>7 DEF RecoverPushError, TypeOK, QueueInv, HeldBy, Transit
  <2>3. Promise!Withdraw(item[w])
    BY <2>1, <2>2 DEF Promise!Withdraw
  <2>4. QED
    BY <2>2, <2>3 DEF Promise!Next
<1>8. ASSUME NEW w \in Workers, Unmark(w) PROVE [Promise!Next]_(Promise!vars)
  <2>1. item[w] \in Jobs /\ item[w] \in enqueued /\ enqueued' = enqueued \ {item[w]}
    BY <1>8 DEF Unmark, TypeOK, QueueInv, HeldBy, Transit
  <2>2. InHand[w] = None /\ \A v \in Workers : InHand'[v] = IF v = w THEN item[w] ELSE InHand[v]
    BY <1>8 DEF Unmark, TypeOK
  <2>3. InHand' = [InHand EXCEPT ![w] = item[w]]
    BY <2>2
  <2>4. PICK j \in Jobs : j = item[w]
    BY <2>1
  <2>5. Promise!Take(w, j)
    BY <2>1, <2>2, <2>3, <2>4 DEF Promise!Take
  <2>6. QED
    BY <2>5 DEF Promise!Next
<1>9. ASSUME NEW w \in Workers,
             \/ RecoverSelect(w) \/ RecoverPush(w) \/ RecoverCommit(w) \/ Pop(w) \/ PopTimeout(w)
             \/ Acquire(w) \/ Load(w) \/ Refresh(w) \/ Begin(w) \/ NextSegment(w) \/ Finish(w)
             \/ JobError(w)
      PROVE  UNCHANGED Promise!vars
  <2>1. UNCHANGED enqueued
    BY <1>9 DEF RecoverSelect, RecoverPush, RecoverCommit, Pop, PopTimeout, Acquire, Load, Refresh,
                Begin, NextSegment, Finish, JobError
  <2>2. \A v \in Workers : InHand'[v] = InHand[v]
    BY <1>9 DEF RecoverSelect, RecoverPush, RecoverCommit, Pop, PopTimeout, Acquire, Load, Refresh,
                Begin, NextSegment, Finish, JobError, TypeOK
  <2>3. QED
    BY <2>1, <2>2, <1>1
<1>10. ASSUME NEW w \in Workers, Skip(w) \/ Release(w) \/ ReleaseError(w) \/ Crash(w)
       PROVE  Promise!Drop(w)
  <2>1. UNCHANGED enqueued
    BY <1>10 DEF Skip, Release, ReleaseError, Crash
  <2>2. \A v \in Workers : InHand'[v] = IF v = w THEN None ELSE InHand[v]
    BY <1>10 DEF Skip, Release, ReleaseError, Crash, TypeOK
  <2>3. QED
    BY <2>1, <2>2, <1>2
<1>11. CASE UNCHANGED vars
  BY <1>11 DEF vars
<1>12. QED
  BY <1>3, <1>4, <1>5, <1>6, <1>7, <1>8, <1>9, <1>10, <1>11
  DEF Next, Submission, WorkerStep, WorkerFault, Promise!Next

(* Every behaviour of the Redis calls, with crashes anywhere, is one of the   *)
(* duplicate-free queue of DedupQueue.                                        *)
THEOREM Refinement ==
  ASSUME "lost_reply" \notin Faults
  PROVE  Spec => ImplementsDedupQueue
<1>1. Init => Promise!Init
  BY DEF Init, Promise!Init, Leased, InJob
<1>2. TypeOK /\ QueueInv /\ [Next]_vars => [Promise!Next]_(Promise!vars)
  BY RefinementStep
<1>3. QED
  BY <1>1, <1>2, TypeCorrect, QueueInvariant, PTL DEF Spec, ImplementsDedupQueue, Promise!Spec
===============================================================================
