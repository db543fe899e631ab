------------------------------- MODULE JobQueue -------------------------------
(***************************************************************************)
(* Job submission, the Redis queue with its marker set, the per-job Redis  *)
(* lease, the worker loop and recovery, over the status rows of Postgres.  *)
(*                                                                         *)
(* Translates services/job_queue.py, workers/lease.py, the worker loop of  *)
(* workers/translation_worker.py (the vision and figure workers have the   *)
(* same loop), create_job / recover_jobs of services/translation_jobs.py   *)
(* and the cancel endpoint of api/jobs.py.  process_job appears with its   *)
(* reads and commits of the job row; its segments are in TranslationJob.   *)
(*                                                                         *)
(* A worker is one process incarnation: new_worker_id gives every process  *)
(* its own owner name, so a restarted worker is another element of Workers.*)
(***************************************************************************)
EXTENDS Integers, Sequences, FiniteSets

CONSTANTS
  Jobs,       (* the submission requests, each naming the row it would insert *)
  Keyed,      (* the requests that carry one common idempotency_key           *)
  Workers,    (* worker process incarnations                                  *)
  None,       (* no job, no owner                                             *)
  Faults,     (* the kinds of fault the environment may produce               *)
  MaxFaults   (* bound: how many faults in all                                *)

FaultKinds ==
  { "crash",          (* a process dies outside the two windows below         *)
    "window_crash",   (* ... or between SADD and RPUSH, or BLPOP and SREM     *)
    "push_error",     (* RPUSH raises                                         *)
    "lost_reply",     (* RPUSH is applied, its reply lost: it raises as well  *)
    "late_heartbeat", (* no renewal reaches Redis for a whole lease TTL       *)
    "slow_segment",   (* a live process_job leaves its row alone past the     *)
                      (* recovery age (settings: 900 s)                       *)
    "job_error",      (* process_job raises                                   *)
    "release_error" } (* the release of the lease raises                      *)

ASSUME ConstantsAssumption ==
  /\ Keyed \subseteq Jobs
  /\ None \notin Jobs \union Workers
  /\ Faults \subseteq FaultKinds
  /\ MaxFaults \in Nat

VARIABLES
  \* Redis
  queue,      (* the list booktranslate:queue:<name>                          *)
  enqueued,   (* the marker set booktranslate:queued:<name>                   *)
  lease,      (* the key booktranslate:lease:<name>:<job>, its owner          *)
  \* Postgres, one row of translation_jobs per job
  status,     (* "done" stands for the four statuses a finished run writes    *)
  cancelReq,  (* rows with cancellation_requested                             *)
  stale,      (* running rows whose updated_at is past the recovery age       *)
  \* API requests
  submit,     (* how far the submission of a job has come                     *)
  cancel,     (* how far the one cancel request for a job has come            *)
  \* worker processes
  pc,
  item,       (* the job a worker has in its hands                            *)
  todo,       (* recover_jobs: rows still to be enqueued                      *)
  requeue,    (* recover_jobs: rows it will commit as queued                  *)
  seen,       (* process_job: the status its refresh has read                 *)
  gauge,      (* the process's ACTIVE_LEASES gauge                            *)
  lapsed,     (* history: leases of a worker whose TTL ran out                *)
  faults      (* faults so far                                                *)

redis  == <<queue, enqueued, lease>>
rows   == <<status, cancelReq, stale>>
api    == <<submit, cancel>>
worker == <<pc, item, todo, requeue, seen, gauge>>
vars   == <<redis, rows, api, worker, lapsed, faults>>

Statuses == {"none", "queued", "running", "done", "cancelled"}
Terminal == {"done", "cancelled"}

(* Program points of run_worker: recover_jobs ("recover" before its SELECT,  *)
(* "enqueue" in its loop, "push" between SADD and RPUSH), dequeue_job        *)
(* ("idle" before BLPOP, "popped" before SREM), the claim, and process_job.  *)
InJob    == {"load", "refresh", "begin", "run"}
Leased   == InJob \union {"release"}
Transit  == {"push", "popped"}
Points   == {"recover", "enqueue", "idle", "claim", "dead"} \union Transit \union Leased

TypeOK ==
  /\ queue \in Seq(Jobs)
  /\ enqueued \subseteq Jobs
  /\ lease \in [Jobs -> Workers \union {None}]
  /\ status \in [Jobs -> Statuses]
  /\ cancelReq \subseteq Jobs
  /\ stale \subseteq Jobs
  /\ submit \in [Jobs -> {"new", "checked", "committed", "marked", "closed"}]
  /\ cancel \in [Jobs -> {"none", "sawQueued", "sawRunning", "closed"}]
  /\ pc \in [Workers -> Points]
  /\ item \in [Workers -> Jobs \union {None}]
  /\ \A w \in Workers : pc[w] \in Transit \union Leased \union {"claim"} => item[w] \in Jobs
  /\ todo \in [Workers -> SUBSET Jobs]
  /\ requeue \in [Workers -> SUBSET Jobs]
  /\ seen \in [Workers -> Statuses]
  /\ gauge \in [Workers -> Int] /\ lapsed \in [Workers -> Nat]
  /\ faults \in 0..MaxFaults

Init ==
  /\ queue = <<>>
  /\ enqueued = {}
  /\ lease = [j \in Jobs |-> None]
  /\ status = [j \in Jobs |-> "none"]
  /\ cancelReq = {}
  /\ stale = {}
  /\ submit = [j \in Jobs |-> "new"]
  /\ cancel = [j \in Jobs |-> "none"]
  /\ pc = [w \in Workers |-> "recover"]
  /\ item = [w \in Workers |-> None]
  /\ todo = [w \in Workers |-> {}]
  /\ requeue = [w \in Workers |-> {}]
  /\ seen = [w \in Workers |-> "none"]
  /\ gauge = [w \in Workers |-> 0] /\ lapsed = gauge
  /\ faults = 0

Occurs(kind) ==
  /\ kind \in Faults
  /\ faults < MaxFaults
  /\ faults' = faults + 1

Fault(kind) == Occurs(kind) /\ UNCHANGED lapsed
NoFault     == UNCHANGED <<faults, lapsed>>

(* An UPDATE of a row: SQLAlchemy's onupdate sets updated_at to now().       *)
Write(j, s) ==
  /\ status' = [status EXCEPT ![j] = s]
  /\ stale' = stale \ {j}

-------------------------------------------------------------------------------
(* create_job: one submission request per job.                               *)

CheckKey(j) ==
  /\ submit[j] = "new"
  /\ submit' = [submit EXCEPT ![j] =
       IF j \in Keyed /\ \E i \in Keyed : status[i] # "none"
         THEN "closed"                  \* returns the existing job
         ELSE "checked"]
  /\ NoFault /\ UNCHANGED <<redis, rows, cancel, worker>>

(* Mutant: no unique index on idempotency_key.                               *)
InsertRowAnyway(j) ==
  /\ submit[j] = "checked"
  /\ submit' = [submit EXCEPT ![j] = "committed"]
  /\ Write(j, "queued")
  /\ NoFault /\ UNCHANGED <<redis, cancelReq, cancel, worker>>

(* INSERT and COMMIT; the unique index on idempotency_key makes the loser of *)
(* two concurrent requests fail.                                             *)
InsertRow(j) ==
  /\ submit[j] = "checked"
  /\ IF j \in Keyed /\ \E i \in Keyed : status[i] # "none"
       THEN /\ submit' = [submit EXCEPT ![j] = "closed"]
            /\ UNCHANGED <<status, stale>>
       ELSE /\ submit' = [submit EXCEPT ![j] = "committed"]
            /\ Write(j, "queued")
  /\ NoFault /\ UNCHANGED <<redis, cancelReq, cancel, worker>>

(* enqueue_job, its first Redis call: SADD, nothing more if already a member.*)
SubmitMark(j) ==
  /\ submit[j] = "committed"
  /\ enqueued' = enqueued \union {j}
  /\ submit' = [submit EXCEPT ![j] = IF j \in enqueued THEN "closed" ELSE "marked"]
  /\ NoFault /\ UNCHANGED <<queue, lease, rows, cancel, worker>>

SubmitPush(j) ==
  /\ submit[j] = "marked"
  /\ queue' = Append(queue, j)
  /\ submit' = [submit EXCEPT ![j] = "closed"]
  /\ NoFault /\ UNCHANGED <<enqueued, lease, rows, cancel, worker>>

(* Mutant: enqueue_job without its SREM in the except branch.                *)
PushRaisesKeepingMarker(j) ==
  /\ \/ Fault("push_error") /\ UNCHANGED queue
     \/ Fault("lost_reply") /\ queue' = Append(queue, j)
  /\ UNCHANGED <<enqueued, lease>>

(* RPUSH raises, applied or not: the marker is taken back and the request    *)
(* fails after its row has been committed.                                   *)
PushRaises(j) ==
  /\ \/ Fault("push_error") /\ UNCHANGED queue
     \/ Fault("lost_reply") /\ queue' = Append(queue, j)
  /\ enqueued' = enqueued \ {j}
  /\ UNCHANGED lease

SubmitPushError(j) ==
  /\ submit[j] = "marked"
  /\ PushRaises(j)
  /\ submit' = [submit EXCEPT ![j] = "closed"]
  /\ UNCHANGED <<rows, cancel, worker>>

SubmitCrash(j) ==
  /\ \/ submit[j] \in {"checked", "committed"} /\ Fault("crash")
     \/ submit[j] = "marked" /\ Fault("window_crash")
  /\ submit' = [submit EXCEPT ![j] = "closed"]
  /\ UNCHANGED <<redis, rows, cancel, worker>>

-------------------------------------------------------------------------------
(* cancel_translation_job: reads the row, returns if it is terminal, later   *)
(* commits what it decided from that read.  Bound: one request per job.      *)

CancelRead(j) ==
  /\ cancel[j] = "none"
  /\ status[j] # "none"
  /\ cancel' = [cancel EXCEPT ![j] =
       CASE status[j] = "queued"  -> "sawQueued"
         [] status[j] = "running" -> "sawRunning"
         [] OTHER                 -> "closed"]
  /\ NoFault /\ UNCHANGED <<redis, rows, submit, worker>>

CancelCommit(j) ==
  /\ cancel[j] \in {"sawQueued", "sawRunning"}
  /\ cancelReq' = cancelReq \union {j}
  /\ Write(j, IF cancel[j] = "sawQueued" THEN "cancelled" ELSE status[j])
  /\ cancel' = [cancel EXCEPT ![j] = "closed"]
  /\ NoFault /\ UNCHANGED <<redis, submit, worker>>

-------------------------------------------------------------------------------
(* run_worker: recovery, which runs at start and whenever BLPOP times out.   *)

Goto(w, p) == pc' = [pc EXCEPT ![w] = p]
Hold(w, j) == item' = [item EXCEPT ![w] = j]

(* Mutants: recovery of running rows only, of queued rows only.              *)
RecoverSelectRunning(w) ==
  /\ pc[w] = "recover"
  /\ LET abandoned == {j \in Jobs : status[j] = "running" /\ j \in stale}
     IN  /\ requeue' = [requeue EXCEPT ![w] = abandoned]
         /\ todo' = [todo EXCEPT ![w] = abandoned]
  /\ Goto(w, "enqueue")
  /\ NoFault /\ UNCHANGED <<redis, rows, api, item, seen, gauge>>

RecoverSelectQueued(w) ==
  /\ pc[w] = "recover"
  /\ todo' = [todo EXCEPT ![w] = {j \in Jobs : status[j] = "queued"}]
  /\ Goto(w, "enqueue")
  /\ NoFault /\ UNCHANGED <<redis, rows, api, item, requeue, seen, gauge>>

(* recover_jobs: the SELECT, and the rows that are queued or stale.          *)
RecoverSelect(w) ==
  /\ pc[w] = "recover"
  /\ LET abandoned == {j \in Jobs : status[j] = "running" /\ j \in stale}
     IN  /\ requeue' = [requeue EXCEPT ![w] = abandoned]
         /\ todo' = [todo EXCEPT ![w] = {j \in Jobs : status[j] = "queued"} \union abandoned]
  /\ Goto(w, "enqueue")
  /\ NoFault /\ UNCHANGED <<redis, rows, api, item, seen, gauge>>

(* Mutant: the result of SADD is ignored.                                    *)
RecoverMarkBlind(w, j) ==
  /\ pc[w] = "enqueue"
  /\ j \in todo[w]
  /\ todo' = [todo EXCEPT ![w] = @ \ {j}]
  /\ enqueued' = enqueued \union {j}
  /\ Goto(w, "push") /\ Hold(w, j)
  /\ NoFault /\ UNCHANGED <<queue, lease, rows, api, requeue, seen, gauge>>

RecoverMark(w, j) ==
  /\ pc[w] = "enqueue"
  /\ j \in todo[w]
  /\ todo' = [todo EXCEPT ![w] = @ \ {j}]
  /\ enqueued' = enqueued \union {j}
  /\ IF j \in enqueued
       THEN UNCHANGED <<pc, item>>
       ELSE Goto(w, "push") /\ Hold(w, j)
  /\ NoFault /\ UNCHANGED <<queue, lease, rows, api, requeue, seen, gauge>>

RecoverPush(w) ==
  /\ pc[w] = "push"
  /\ queue' = Append(queue, item[w])
  /\ Goto(w, "enqueue") /\ Hold(w, None)
  /\ NoFault /\ UNCHANGED <<enqueued, lease, rows, api, todo, requeue, seen, gauge>>

(* The COMMIT writes the stale rows as they were read: it does not look      *)
(* whether they have moved on since the SELECT.                              *)
RecoverCommit(w) ==
  /\ pc[w] = "enqueue"
  /\ todo[w] = {}
  /\ status' = [j \in Jobs |-> IF j \in requeue[w] THEN "queued" ELSE status[j]]
  /\ stale' = stale \ requeue[w]
  /\ requeue' = [requeue EXCEPT ![w] = {}]
  /\ Goto(w, "idle")
  /\ NoFault /\ UNCHANGED <<redis, cancelReq, api, item, todo, seen, gauge>>

(* The exception of RPUSH leaves recover_jobs and run_worker: the process    *)
(* ends and its transaction rolls back.                                      *)
Die(w) ==
  /\ Goto(w, "dead") /\ Hold(w, None)
  /\ todo' = [todo EXCEPT ![w] = {}]
  /\ requeue' = [requeue EXCEPT ![w] = {}]
  /\ seen' = [seen EXCEPT ![w] = "none"]
  /\ gauge' = [gauge EXCEPT ![w] = 0]

RecoverPushError(w) ==
  /\ pc[w] = "push"
  /\ PushRaises(item[w])
  /\ Die(w)
  /\ UNCHANGED <<rows, api>>

-------------------------------------------------------------------------------
(* run_worker: dequeue_job and the claim of the lease.                       *)

Pop(w) ==
  /\ pc[w] = "idle"
  /\ queue # <<>>
  /\ queue' = Tail(queue)
  /\ Goto(w, "popped") /\ Hold(w, Head(queue))
  /\ NoFault /\ UNCHANGED <<enqueued, lease, rows, api, todo, requeue, seen, gauge>>

PopTimeout(w) ==
  /\ pc[w] = "idle"
  /\ queue = <<>>
  /\ Goto(w, "recover")
  /\ NoFault /\ UNCHANGED <<redis, rows, api, item, todo, requeue, seen, gauge>>

(* Mutant: dequeue_job without its SREM.                                     *)
UnmarkNothing(w) ==
  /\ pc[w] = "popped"
  /\ Goto(w, "claim")
  /\ NoFault /\ UNCHANGED <<redis, rows, api, item, todo, requeue, seen, gauge>>

Unmark(w) ==
  /\ pc[w] = "popped"
  /\ enqueued' = enqueued \ {item[w]}
  /\ Goto(w, "claim")
  /\ NoFault /\ UNCHANGED <<queue, lease, rows, api, item, todo, requeue, seen, gauge>>

(* Mutant: SET without NX.                                                   *)
AcquireAnyway(w) ==
  /\ pc[w] = "claim"
  /\ lease' = [lease EXCEPT ![item[w]] = w]
  /\ gauge' = [gauge EXCEPT ![w] = @ + 1]
  /\ Goto(w, "load")
  /\ NoFault /\ UNCHANGED <<queue, enqueued, rows, api, item, todo, requeue, seen>>

(* acquire_job_lease: SET NX EX.                                             *)
Acquire(w) ==
  /\ pc[w] = "claim"
  /\ lease[item[w]] = None
  /\ lease' = [lease EXCEPT ![item[w]] = w]
  /\ gauge' = [gauge EXCEPT ![w] = @ + 1]
  /\ Goto(w, "load")
  /\ NoFault /\ UNCHANGED <<queue, enqueued, rows, api, item, todo, requeue, seen>>

(* "Skipped ... because another worker owns its lease": the entry is gone.   *)
Skip(w) ==
  /\ pc[w] = "claim"
  /\ lease[item[w]] # None
  /\ Goto(w, "idle") /\ Hold(w, None)
  /\ NoFault /\ UNCHANGED <<redis, rows, api, todo, requeue, seen, gauge>>

-------------------------------------------------------------------------------
(* process_job, its reads and commits of the job row.                        *)

(* Mutant: process_job without its early return for terminal statuses.       *)
LoadAnyStatus(w) ==
  /\ pc[w] = "load"
  /\ Goto(w, "refresh")
  /\ NoFault /\ UNCHANGED <<redis, rows, api, item, todo, requeue, seen, gauge>>

Load(w) ==
  /\ pc[w] = "load"
  /\ Goto(w, IF status[item[w]] \in Terminal THEN "release" ELSE "refresh")
  /\ NoFault /\ UNCHANGED <<redis, rows, api, item, todo, requeue, seen, gauge>>

(* db.refresh(job) after the heading segments are committed; the status is   *)
(* not looked at again.                                                      *)
Refresh(w) ==
  /\ pc[w] = "refresh"
  /\ seen' = [seen EXCEPT ![w] = status[item[w]]]
  /\ Goto(w, "begin")
  /\ NoFault /\ UNCHANGED <<redis, rows, api, item, todo, requeue, gauge>>

(* job.status = "running" and COMMIT: no UPDATE of a column whose value is   *)
(* the one the refresh loaded.                                               *)
Begin(w) ==
  /\ pc[w] = "begin"
  /\ IF seen[w] = "running" THEN UNCHANGED <<status, stale>> ELSE Write(item[w], "running")
  /\ Goto(w, "run")
  /\ seen' = [seen EXCEPT ![w] = "none"]
  /\ NoFault /\ UNCHANGED <<redis, cancelReq, api, item, todo, requeue, gauge>>

(* The top of the segment loop: refresh, stop if a cancel was requested,     *)
(* else commit current_segment_id and work on the segment.                   *)
NextSegment(w) ==
  /\ pc[w] = "run"
  /\ IF item[w] \in cancelReq
       THEN Write(item[w], "cancelled") /\ Goto(w, "release")
       ELSE Write(item[w], status[item[w]]) /\ UNCHANGED pc
  /\ NoFault /\ UNCHANGED <<redis, cancelReq, api, item, todo, requeue, seen, gauge>>

(* After the last segment, or the early exits for budget and stop_on_error.  *)
Finish(w) ==
  /\ pc[w] = "run"
  /\ Write(item[w], "done")
  /\ Goto(w, "release")
  /\ NoFault /\ UNCHANGED <<redis, cancelReq, api, item, todo, requeue, seen, gauge>>

(* "Translation job crashed": the row keeps the status it has.               *)
JobError(w) ==
  /\ pc[w] \in InJob
  /\ Fault("job_error")
  /\ Goto(w, "release")
  /\ seen' = [seen EXCEPT ![w] = "none"]
  /\ UNCHANGED <<redis, rows, api, item, todo, requeue, gauge>>

-------------------------------------------------------------------------------
(* The lease: release, expiry, and what time does to rows.                   *)

(* Mutants: DEL without comparing the owner; the gauge is not decremented.   *)
ReleaseAnyOwner(w) ==
  /\ pc[w] = "release"
  /\ lease' = [lease EXCEPT ![item[w]] = None]
  /\ gauge' = [gauge EXCEPT ![w] = @ - 1]
  /\ Goto(w, "idle") /\ Hold(w, None)
  /\ NoFault /\ UNCHANGED <<queue, enqueued, rows, api, todo, requeue, seen>>

ReleaseUncounted(w) ==
  /\ pc[w] = "release"
  /\ lease' = [lease EXCEPT ![item[w]] = IF @ = w THEN None ELSE @]
  /\ Goto(w, "idle") /\ Hold(w, None)
  /\ NoFault /\ UNCHANGED <<queue, enqueued, rows, api, todo, requeue, seen, gauge>>

(* release_job_lease: DEL if the key still holds this owner.                 *)
Release(w) ==
  /\ pc[w] = "release"
  /\ IF lease[item[w]] = w
       THEN /\ lease' = [lease EXCEPT ![item[w]] = None]
            /\ gauge' = [gauge EXCEPT ![w] = @ - 1]
       ELSE UNCHANGED <<lease, gauge>>
  /\ Goto(w, "idle") /\ Hold(w, None)
  /\ NoFault /\ UNCHANGED <<queue, enqueued, rows, api, todo, requeue, seen>>

ReleaseError(w) ==
  /\ pc[w] = "release"
  /\ Fault("release_error")
  /\ Goto(w, "idle") /\ Hold(w, None)
  /\ UNCHANGED <<redis, rows, api, todo, requeue, seen, gauge>>

(* Mutant: the heartbeat ends when process_job starts to run.                *)
RenewingUntilRun(w, j) == pc[w] \in Leased \ {"run"} /\ item[w] = j

(* The heartbeat task of claimed_job_lease runs for the job in hand.         *)
Renewing(w, j) == pc[w] \in Leased /\ item[w] = j

(* The key's TTL runs out: nobody renews it ...                              *)
Lapse(j) ==
  /\ lease' = [lease EXCEPT ![j] = None]
  /\ lapsed' = [lapsed EXCEPT ![lease[j]] = @ + 1]

Expire(j) ==
  /\ lease[j] # None
  /\ ~Renewing(lease[j], j)
  /\ Lapse(j)
  /\ UNCHANGED <<queue, enqueued, rows, api, worker, faults>>

(* ... or the renewals come too late.  The heartbeat notices ("Lost lease"), *)
(* ends, and process_job goes on.                                            *)
ExpireLate(j) ==
  /\ lease[j] # None
  /\ Renewing(lease[j], j)
  /\ Occurs("late_heartbeat")
  /\ Lapse(j)
  /\ UNCHANGED <<queue, enqueued, rows, api, worker>>

(* The recovery age passes without an UPDATE of a running row.               *)
AtWork(j) == \E w \in Workers : pc[w] = "run" /\ item[w] = j

Age(j) ==
  /\ status[j] = "running" /\ j \notin stale
  /\ ~AtWork(j)
  /\ stale' = stale \union {j}
  /\ NoFault /\ UNCHANGED <<redis, status, cancelReq, api, worker>>

AgeAtWork(j) ==
  /\ status[j] = "running" /\ j \notin stale
  /\ AtWork(j)
  /\ Fault("slow_segment")
  /\ stale' = stale \union {j}
  /\ UNCHANGED <<redis, status, cancelReq, api, worker>>

Crash(w) ==
  /\ pc[w] # "dead"
  /\ IF pc[w] \in Transit THEN Fault("window_crash") ELSE Fault("crash")
  /\ Die(w)
  /\ UNCHANGED <<redis, rows, api>>

-------------------------------------------------------------------------------
Submission(j) ==
  CheckKey(j) \/ InsertRow(j) \/ SubmitMark(j) \/ SubmitPush(j)

WorkerStep(w) ==
  \/ RecoverSelect(w) \/ (\E j \in Jobs : RecoverMark(w, j)) \/ RecoverPush(w) \/ RecoverCommit(w)
  \/ Pop(w) \/ PopTimeout(w) \/ Unmark(w) \/ Acquire(w) \/ Skip(w)
  \/ Load(w) \/ Refresh(w) \/ Begin(w) \/ NextSegment(w) \/ Finish(w)
  \/ Release(w)

WorkerFault(w) ==
  RecoverPushError(w) \/ JobError(w) \/ ReleaseError(w) \/ Crash(w)

Next ==
  \/ \E j \in Jobs :
       \/ Submission(j) \/ SubmitPushError(j) \/ SubmitCrash(j)
       \/ CancelRead(j) \/ CancelCommit(j)
       \/ Expire(j) \/ ExpireLate(j) \/ Age(j) \/ AgeAtWork(j)
  \/ \E w \in Workers : WorkerStep(w) \/ WorkerFault(w)

(* A live process takes its next step; a process_job has finitely many       *)
(* segments, so it does not stay in its loop; a request that was accepted is *)
(* carried on; TTLs run out and time passes.                                 *)
Fairness ==
  /\ \A w \in Workers : WF_vars(WorkerStep(w)) /\ WF_vars(Finish(w))
  /\ \A j \in Jobs : /\ WF_vars(Submission(j) /\ submit[j] # "new")
                     /\ WF_vars(CancelCommit(j))
                     /\ WF_vars(Expire(j))
                     /\ WF_vars(Age(j))

Spec == Init /\ [][Next]_vars

FairSpec == Spec /\ Fairness

-------------------------------------------------------------------------------
(* Safety.                                                                   *)

(* The Redis list never holds a job twice (enqueue_job: SADD before RPUSH),  *)
(* whoever enqueues it: the request that created it or any recovery.  The    *)
(* reply of RPUSH must not get lost.                                         *)
QueueHasNoDuplicates ==
  \A i, k \in DOMAIN queue : queue[i] = queue[k] => i = k

(* A member of the marker set is on the list or in the hands of a live       *)
(* process about to push it or to take its marker away, so that a refused    *)
(* enqueue_job never leaves a job that nobody will deliver.  Crashes inside  *)
(* the two windows are excluded.                                             *)
InTransit(j) ==
  \/ submit[j] = "marked"
  \/ \E w \in Workers : pc[w] \in Transit /\ item[w] = j

MarkersAreBacked ==
  \A j \in enqueued : InTransit(j) \/ \E i \in DOMAIN queue : queue[i] = j

(* The worker that processes a job owns its lease (claimed_job_lease), as    *)
(* long as its renewals reach Redis in time.                                 *)
ProcessorsOwnTheLease ==
  \A w \in Workers : pc[w] \in Leased => lease[item[w]] = w

(* No two live workers process the same job at the same time.                *)
OneProcessorPerJob ==
  \A v, w \in Workers : pc[v] \in InJob /\ pc[w] \in InJob /\ item[v] = item[w] => v = w

(* ACTIVE_LEASES of a live process is never below the number of leases it    *)
(* owns in Redis, and above it by exactly those that ran out: one whose      *)
(* release failed or whose renewals came too late is counted for the life of *)
(* the process, also when the process gets the same lease again, and no      *)
(* other failure moves the gauge (acquire_job_lease, release_job_lease).     *)
GaugeCountsOwnedLeases ==
  \A w \in Workers :
    pc[w] # "dead" => gauge[w] = Cardinality({j \in Jobs : lease[j] = w}) + lapsed[w]

(* While a worker is inside process_job, past its check for terminal         *)
(* statuses, nobody reports the job as finished.                             *)
NotDoneWhileProcessed ==
  \A w \in Workers : pc[w] \in {"refresh", "begin", "run"} => status[item[w]] # "done"

(* Requests with one idempotency_key insert one row, however they interleave.*)
OneRowPerKey ==
  \A i, j \in Keyed : status[i] # "none" /\ status[j] # "none" => i = j

(* A lease goes away only when its owner lets it go or its TTL runs out, and *)
(* never passes from one owner to another in one step: a worker that lost    *)
(* its lease cannot delete its successor's (release_job_lease compares).     *)
OnlyOwnerReleases ==
  [][\A j \in Jobs : lease[j] # None /\ lease'[j] # lease[j] =>
        /\ lease'[j] = None
        /\ \A w \in Workers \ {lease[j]} : pc'[w] = pc[w]]_vars

(* A finished job is taken out of "done" only by a writer whose read of the  *)
(* row is older than the finish: a recovery that had selected it as stale,   *)
(* or a cancel that had seen it queued.  A second delivery never does it.    *)
DoneLeftOnlyByStaleWriters ==
  [][\A j \in Jobs : status[j] = "done" /\ status'[j] # "done" =>
        \/ cancel[j] = "sawQueued"
        \/ \E w \in Workers : pc[w] = "enqueue" /\ j \in requeue[w]]_vars

(* The queue keeps the promise of DedupQueue: a job waits while its marker is *)
(* set, and is in a worker's hands once dequeue_job has taken the marker away.*)
(* The reply of RPUSH must not get lost.                                      *)
Promise == INSTANCE DedupQueue WITH
  waiting <- enqueued,
  inHand  <- [w \in Workers |-> IF pc[w] \in Leased \union {"claim"} THEN item[w] ELSE None]

ImplementsDedupQueue == Promise!Spec

(* Liveness.                                                                 *)

(* Every job whose row was committed reaches a terminal status.              *)
JobsFinish ==
  \A j \in Jobs : status[j] = "queued" ~> status[j] \in Terminal

(* A cancel request that was accepted ends the job.                          *)
CancelEndsTheJob ==
  \A j \in Jobs : cancel[j] \in {"sawQueued", "sawRunning"} ~> status[j] \in Terminal
===============================================================================
