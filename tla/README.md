# TLA+ models of BookTranslate AI

This directory holds TLA+ specifications of the backend (`backend/app`), TLC configurations that
model-check them, and TLAPS proofs of their most important properties. Every definition is
translated from the Python source; `PROJECT.json` maps each of them to the lines it stands for.

    cd tla
    tlasany JobQueue.tla                                     # parse
    tlc -workers 2 -config JobQueue_safety.cfg MCJobQueue    # model-check
    tlapm JobQueue_proofs.tla                                # prove

## 1. The system

A book is uploaded, parsed into chapters and segments, and translated segment by segment by
worker processes that call external models. API processes (FastAPI) and workers (translation,
vision, figure rendering) are separate processes. They share Postgres, reached through one
SQLAlchemy session per request or job, and Redis, which holds the queues, the job leases and
the rate-limit counters. Nothing else synchronises them: there is no row lock except in the
session refresh, and no transaction spans Redis and Postgres.

| Component | State it keeps | Operations | Talks to |
|---|---|---|---|
| Job queue (`services/job_queue.py`) | Redis list per queue, marker set, lease key per job; a Prometheus gauge per process | `enqueue_job`, `dequeue_job`, `acquire/renew/release_job_lease` | called by job creation, recovery and the workers |
| Lease (`workers/lease.py`) | the heartbeat task | `claimed_job_lease` | job queue |
| Worker loop (`workers/*_worker.py`) | the job in hand | recover, dequeue, claim, process | all of the above |
| Jobs (`services/translation_jobs.py`, `api/jobs.py`) | `translation_jobs` rows, heading segments | `create_job`, `recover_jobs`, `process_job`, `ensure_structural_heading_segments`, cancel | queue, engine, QA, reviews |
| Engine (`services/translation_engine.py`) | `translations`, `translation_versions`, `model_runs`, the segment's text | generate a version, finalize one, pipeline | routing, gateway, memory |
| QA and quality (`services/translation_qa.py`, `quality_evaluation.py`) | `qa_results`, quality evaluations | judge a version, score it | gateway, memory |
| Human review (`services/human_review.py`, `api/workbench.py`) | `human_reviews` | request, approve, edit, reject | engine |
| Book QA (`services/book_qa.py`) | `book_qa_reports`, `terminology_issues` | report, terminology audit, decision on an issue | reads segments, versions, reviews, glossary |
| Provider routing (`services/provider_routing.py`) | Redis counters with TTLs (concurrency, requests, tokens), cooldowns | reserve, release, feedback, choose a route | Redis, policies in Postgres |
| Sessions and accounts (`services/sessions.py`, `services/oidc.py`, `api/auth.py`) | `user_sessions`, `app_users` | login, rotate, revoke, create and change users | SCIM |
| SCIM (`api/scim.py`) | users, roles, `is_active` | create, put, patch, delete, group members | sessions |
| Vision jobs (`services/vision_jobs.py`) | `vision_jobs`, extractions, figure segments | create, process per asset, recover | queue, gateway |
| Figure renders (`services/figure_rendering.py`) | render jobs, rendered images | create, process per asset, recover | queue, storage |
| Upload and storage (`api/upload.py`, `storage/`) | stored objects, book rows | upload with clean-up | parsers |
| Documents (`docx_parser.py`, `epub_structured_parser.py`, `segmentation.py`, `document_export.py`, `reconstruction.py`, `epub_export.py`) | chapters, sections, blocks, assets, segments, linked by positions | parse, segment, load, export | upload, jobs |
| Prompts, model gateway, middleware, metrics, frontend, deployment | - | wiring, HTTP, text assembly | - |

What is hard here:

* **Two stores, no common transaction.** A job row is committed first and enqueued afterwards;
  enqueueing itself is two Redis calls (SADD, RPUSH), dequeueing two more (BLPOP, SREM). A crash
  between any two leaves them out of step, and `recover_jobs` is what is meant to repair it.
  Objects in the storage are written before the rows that name them.
* **Leases and TTLs.** A lease lives 180 s and is renewed every 45 s by a task beside
  `process_job`; when a renewal comes too late the task ends and `process_job` goes on. Rate
  counters expire under the calls they count.
* **Stale reads at READ COMMITTED.** The cancel endpoint, recoveries, finalizations, reviews,
  logins, provisioning and reports read rows, do other things, and commit what follows from the read.
* **ORM state.** The session keeps objects across commits (`expire_on_commit=False`). A JSON list
  that is appended to and assigned again is no change to SQLAlchemy; a segment loaded before the
  loop is never read again; an attribute set to the value the session knows is not written.
* **Retries over retries.** Attempts inside a segment, deliveries of a job, recoveries; counters
  that nothing resets; budgets that must hold over all of them.
* **Links by position.** Parser, segmentation, loader and exporters each recompute the positions
  by which chapters, sections, blocks, assets, segments and notes refer to one another.

What makes the components correct:

* queue: no job twice on the list; a marker never blocks a job that nobody will deliver; a job
  handed out once per accepted offer; leases: a worker removes no lease but its own;
* job rows: one row per idempotency key; done is final; every queued job ends; a cancel ends it;
* processing: the budget is kept up to one segment's work, over all deliveries; statuses,
  counters and `errors_json` agree; low scores get their reviews; others' work is not overwritten;
* versions: selected number, final flag and the text of the segment agree; a resolved review is
  applied and stays; the memory has the score of the version it was taken from;
* routing: no more calls in flight than the limit; no capacity refused that is free; cooldowns kept;
* sessions: a refresh token is exchanged once, the cap holds, none outlives a deactivation; a login
  takes no identity or role away;
* uploads and figures: no row without its object; a verdict is earned; a render is current;
* documents: every text of the file is exported once, under its heading, in its translation;
* book QA: after an audit the open issues are its own; a clean report is earned.

`PROJECT.json` lists the hazards of the code one by one, each at its line, with the properties
that cover it.

## 2. The modules

### JobQueue

`JobQueue.tla` models submission, queue, leases, the worker loop, recovery and cancellation, with
any number of jobs and workers. One action is one Redis call or one Postgres commit, or the last
read before one, which is the grain at which processes interleave.

| Variable | Code |
|---|---|
| `queue`, `enqueued`, `lease` | the three Redis keys of `job_queue.py` |
| `status`, `cancelReq`, `stale` | columns of `translation_jobs`; `stale` = `updated_at` older than the recovery age |
| `submit`, `cancel` | where a POST (create) and the cancel request of a job have come to |
| `pc`, `item`, `todo`, `requeue`, `seen` | a worker's program point and its local variables |
| `gauge` | `ACTIVE_LEASES` of the process; `lapsed` is the history of the leases it lost to their TTL |

`create_job` is `CheckKey`, `InsertRow`, `SubmitMark`, `SubmitPush`; `recover_jobs` is
`RecoverSelect`, `RecoverMark`, `RecoverPush`, `RecoverCommit`; `dequeue_job` is `Pop`, `Unmark`;
`claimed_job_lease` is `Acquire`/`Skip`, `Renewing` (the heartbeat) and `Release`; `process_job`
is seen by its reads and commits of the row (`Load`, `Refresh`, `Begin`, `NextSegment`, `Finish`,
`JobError`). `done` stands for the four statuses a finished run writes. Time is abstract: a lease
may expire whenever nobody renews it (`Expire`), and a running row grows stale (`Age`).
A worker is one process incarnation, because `new_worker_id` makes every owner name unique: a
restart is another element of `Workers`.

Faults are kinds of which a run chooses a subset (`Faults`) and a number (`MaxFaults`): a crash,
a crash inside one of the two windows, an RPUSH that raises, one whose reply is lost, a heartbeat
too late, a segment slower than the recovery age, an exception in `process_job`, a failing
release.

### DedupQueue

`DedupQueue.tla` is the abstract specification of what `job_queue.py` promises its callers: a set
of waiting jobs, each handed out once per accepted offer. `JobQueue` implements it under the
mapping `waiting <- enqueued`, `inHand <- the job of a worker from the SREM to the release`: the
job waits as long as its *marker* is set, not as long as it is on the list. The theorem
`Refinement` says so; it needs that replies of RPUSH are not lost.

### TranslationJob

`TranslationJob.tla` models `process_job` on one job: the loop over `N` segments, retries, a
pipeline of `Stages` model calls, QA, score, review request, the three budget checks, the cancel
check, all counters, `errors_json`, and what happens when the process stops and the job is
delivered again. It relies on `OneProcessorPerJob` of JobQueue for having one process at a time.

`errors`/`errs`/`saved` model the one list object that `process_job` keeps assigning to
`job.errors_json`: after a refresh the first assignment is a change to be flushed, after the flush
an append and another assignment is none. `text` and `known` are the segments in Postgres and as
the session loaded them; `lost` is the history of how often the job replaced another session's
translation. A completed model run costs one token; a configuration has one limit.

Which model calls fail, what scores come out, and when other sessions finalize or reject a
translation is nondeterministic.

### TranslationVersions

One translation (a segment in one language) with its versions, its human reviews, the segment's
text and the entry of the translation memory, under concurrent database sessions.

| Variable | Code |
|---|---|
| `translation`, `versions`, `segment` | rows of `translations`, `translation_versions` (by number; score, final flag), `segments.translated_text` and status |
| `reviews`, `memory` | `human_reviews` of these versions; the memory's entry for the segment's hash |
| `sess` | what a session is doing and what its ORM objects believe: the row, the flags it has read, the version it selects |

`generate_translation_version` is `Lookup`, `EnsureTranslation`, `BeginRun`, `RefuseRun` or
`ProviderFails`, `ReadNumber`, `CommitVersion` or `NumberTaken`; `finalize_translation_version` is
`SelectVersions` and `Finalize` (or `StartFinalize` by the API); a resolution is `StartResolve`
(`StartEditor` for the workbench), the same finalization, and `CloseReview`, or `Reject`;
`evaluate_*` is `StartEvaluate`, `Evaluate`. `Assigned` is the ORM rule that only an attribute that
differs from the loaded one is written. From a session's first flush to its COMMIT it holds row
locks, so that part is one action. `TwinFinalizes` is another segment with the same text, which
shares the memory entry.

### QualityScore

The formulas of `quality_evaluation.py` and of the aggregate in `translation_qa.py`, in hundredths
of a percent, over counts of words and sentences and the anchors (numbers, URLs, codes, e-mails). A
`Counter` of anchors is the set of their occurrences, `<<token, n>>` for the n-th of a token, so that
what the code does with two Counters is an intersection or a difference (`Matched`, `Missing`, `Extra`).
A state is a source with a candidate; a step loses or invents one anchor, or empties the candidate.
Which sources and candidates there are at first, what judges answer and the weights are constants
(`Drafts`, `Answers`, `Weights`).

### ProviderRouting

`acquire_route`, `release_route` and the feedback, over policies with three Redis counters each.
Every Redis call is a step (`Incr`, `SetTtl`, `Judge`, `Rollback`, `Reset`), since callers interleave
between them, and any of them may fail or be the last of a process. `TtlPasses` expires a key at
any time. `Choose` and `ReadPolicy` or `ReadFeedback` are the reads of policies and feedback before
that: of an explicit pair first the feedback, then the row; otherwise the rows, then the feedback of
one candidate after another, whose order is free. A read that fails finds no cooldown. `admitted`, `left`, `blurred`, `untimed` are histories: what the window has admitted, what
failures have left, which counters expired under a call in the middle, and which lack a TTL.

### Sessions and Accounts

`Sessions` is one account's `user_sessions`: login (`BeginLogin`, `FinishLogin`), refresh (`Present`,
`SelectForUpdate`, `CheckUser`, `Rotate`), revocation of one and of all, the handlers that change
`is_active` (`ReadAccount`, `WriteAccount`, `SelectSessions`, `CommitSweep`), expiry, and a lost
connection. A statement is a step; `Locked` is the row lock of the refresh, `RowIsFree` that of the
account's row. `Accounts` is `app_users`: bootstrap, users made by administrators and SCIM, OIDC
logins, and the SCIM handlers; a PATCH runs operation by operation, as `_apply_user_payload` and
`revoke_all_user_sessions` commit in between; `partly` is the history of a request that has
committed a part of its changes.

### Figures

One upload (`SaveSource`, `PutImage`, `CommitBook`, `Refreshed`, and the clean-up `DeleteKey`), then
vision and render jobs over its images. A commit that raises, or in which the process stops, may
have succeeded (`Committed`). `_process_asset` with `_create_figure_segments` is `Extract` (the call, and
the texts there are), `ReadPosition` (the maximal position, a statement of its own) and
`CommitExtraction`: new texts after that position, in the order and as often as the model answered
them, old texts superseded. `PositionTaken` is the unique constraint that fails the whole job.
`render_asset` is `ReadSegments`, then `Reuse` of the latest render or `Draw`, `PutRender`, `CommitRender`;
`Regions` is what the fingerprint is computed of, and `Latest` the newest render of a mode, which may
be taken over. Jobs stop, are recovered and delivered again. `stray` is the history of the texts
that may be there twice by what the code does.

### Documents

A file is a sequence of items (headings with levels, texts, captions, tables, images, asides,
breaks, quotations). `DocxItem` and `EpubElement` are the bodies of the parsers' loops, which `Parse` runs
over the file (`read[n]` is the document after n items); `SegmentChapter` the segmentation; `AddHeadings`, `CommitHeadings` the heading segments of a
translation job, where `Allocated` is the position that `allocate_position` gives to a heading that is
missing; `LoadedText`, `Exported` and `ExportedNotes` the loader and both exports. Texts are
identified by their place in the file. `ExpectedFile` and `ExpectedNotes` read the *file* alone, without
chapters, sections, blocks or positions: which lines the export must have, where, and in which
language, chapter by chapter (its title, the rest, the notes that it is first to refer to) and first
the file's title where there is no other. They repeat the known losses so that any other shows.

Abstractions: EPUB headings have no images, and elements are not nested except `p` in `blockquote`; a
table's parts end at a row; an item has at most one note reference.

### BookQA

Reports of a book, each with the five statements and two transactions of `build_book_qa_report`, and
the changes other requests make: new terms, finalized versions, reviews, and decisions on
terminology issues. `ScanIssues` and `DeleteIssues` are one DELETE: its snapshot, and the rows that
are still open when the transactions that hold them have ended. The segments are those loaded
first, because the identity map keeps them for the second SELECT. A score is NULL, zero or
good; whether a translation has a term is chosen freely; a segment that has no version may have
a review as in the code, since versions that are not final can be reviewed.

## 3. What the runs show

| Run | Shows |
|---|---|
| `jobqueue_safety` | queue, markers, leases and statuses stay consistent under a crash, an RPUSH error, a failing or slow `process_job`, a failing release |
| `jobqueue_steps` | one row per idempotency key; leases change hands safely; the gauge is off by exactly the leases that ran out; the queue implements DedupQueue; two faults of any kind but a lost reply |
| `jobqueue_live` | every queued job and every accepted cancel ends, whatever single fault outside the two crash windows happens; also with two jobs, where the other one may keep the workers from finding the queue empty, which is when they recover what is lost |
| `jobqueue_orphan` | (counterexample) a crash inside a window leaves a marker that makes every later enqueue refuse the job |
| `jobqueue_lostlease` | (counterexample) after a late heartbeat two workers process one job |
| `job_safety` | budget, counters, errors, statuses, reviews and cancellation agree in one job, others' translations are replaced in one named race only and not twice by it, and the job ends |
| `job_budget_error` | (counterexample) `budget_exceeded` without its entry in `errors_json` |
| `job_progress` | (counterexample) a redelivered job counts past 100 % |
| `versions` | selection, flags, text, reviews and memory agree in every interleaving of two sessions, up to the races the properties name; the scoring formulas are in range, monotone and capped |
| `routing` | the counters are exactly what calls hold, windows admitted and failures left; TTLs and cooldowns. With it, as a separate system: book reports, audits and decisions on issues |
| `accounts` | rotation, cap and deactivation of one account's sessions; with it, as a separate system, logins and provisioning of two accounts, by requests of several operations that may end half committed |
| `book` | upload, vision and render jobs; with it, as a separate system, every sample file through parser, segmentation, headings, translation and both exports |

Systems that share no state are checked in one run as a disjoint union: a behaviour of the MC
module is a behaviour of one of them.

**Bounds.** JobQueue: two jobs are the least for two list entries and for a pair of requests with
one key. `jobqueue_live` has two jobs without cancel requests, for the list that is never empty while
a lost job waits, or one job that may be cancelled (`OneJobOrNoCancel`): what cancels and another
job's deliveries do to each other is left to the safety runs. Two
workers are the least for a competition over a lease; the third of `jobqueue_steps`
lets a successor take the lease that a first worker has lost and a second one has taken.
One fault suffices for every counterexample found; `jobqueue_steps` allows two, so that a fault
can hit the repair of another. TranslationJob: with two segments there is one before and one
after a segment that fails; two stages let a run be spent before the attempt fails; one retry
gives a first and a last attempt; one trouble is one redelivery, the least with which the
counters of two deliveries meet and a segment could lose two translations. `MixedConfigs` turns each switch of a job on and off and has
jobs with and without a limit, which `LimitsAreReached` ensures can be exceeded.

* TranslationVersions: two sessions, since every race is between two; three versions let an edit
  follow two machine versions; two reviews and four requests let a request come before and after
  every race; one crash. Scores 1 and 2 tell apart a changed score. QualityScore: two tokens, each up to
  twice, so that one can be lost and the other doubled; up to three changes to the anchors of a
  careful candidate, which can compensate one another in three ways, and one in others (`QualityFocus`).
* ProviderRouting: three calls of which two overlap; one policy with one slot and three tokens, of
  which a call needs two, so that a call passes the first limits and fails the last; one without
  limits to fall back to; one failure and one change of a policy. The change gives the first policy
  one request per minute instead, or takes that away, so that calls under the old row and the new one
  meet in the same counters.
* Sessions: a cap of one, three logins, four tokens, two overlapping requests, two changes of
  `is_active` (a deactivation and a reactivation). Accounts: two e-mails, identities and accounts,
  three handlers of which two overlap, PATCHes of two operations.
* Figures: two images, two jobs of each kind, a region text that an answer may have twice, changes of its
  translation, two faults. `FigureFocus` leaves out only combinations: two vision jobs overlap with no
  render job, two render jobs with one vision job and one text, an upload under way with one job.
  Documents: every file of up to three sample items with two
  heading jobs and two translations; of the files of four items those that begin with a
  heading of level 1 or 2, with one translation (`DocumentFocus`).
* BookQA: two reports, one decision, two segments, a term of each of two languages, and four events
  (requests and changes) in all: two overlapping audits after a new term with a decision between
  them, or one report with three changes before or during it.

**Fairness.** A live worker takes its next step; it does not stay in the segment loop for ever
because a job has finitely many segments (`WF(Finish)`); a request that has been accepted runs on;
TTLs run out and rows age. Nothing is assumed of faults, of new requests, or of a particular
worker getting a job. In `job_safety` a *queued* job is delivered, which is what `jobqueue_live`
shows, and a running row nobody works on is recovered; a retry loop ends because its attempts
are counted. The modules of requests (versions, routing, sessions, figures, documents, book QA)
state no fairness: a request may stop anywhere, and their properties are about safety.

**Deviations found.** The four counterexample runs quote the lines of the documentation and tests they
contradict in `PROJECT.json`, `findings`.

### What the code does that a reader may not expect

The properties of the passing runs name the exceptions the code makes. In words:

* Versions: overlapping finalizations leave two final versions, or none (the editor then answers 409
  for good); an approval from a stale read leaves one version selected and another one's text in the
  segment; the memory keeps the text of a version that was rejected; two pending reviews of one
  version make the next review request fail; a run whose process stops stays `running`.
* Sessions: logins that overlap exceed the cap; a session opened during a deactivation, or while the
  account is inactive, works again after a reactivation; a PUT that writes the value it has read
  writes nothing, so a concurrent activation wins; a refused PATCH may have committed the operations
  before a revocation, but then it has deactivated the account; two bootstraps may both create an administrator.
* Jobs: the gauge of active jobs stays one too high for the life of a process for every lease that
  ran out under it or could not be released; a translation that another session finalizes while a
  delivery is on its way to the segment is replaced, once for a segment, and once more for each rejection.
* Routing: a call that read the feedback before a cooldown was set, or while Redis failed, still
  goes to the provider; a slot leaks when the commit between `acquire_route` and the `try` fails; a failure
  between INCR and EXPIRE leaves a counter that never expires.
* Figures: "All vision extractions failed" may be said of a job that succeeded at every asset in one
  delivery or the other, and its counters exceed its total; a vision job that meets another one's
  position stays `running` until it is recovered; one that reads its position just after another's
  commit, but its texts before, adds the same text again; a superseded segment is revived by a late
  translation; reuse is per render mode, the export takes the latest of all modes; an upload that
  fails in `db.refresh`, or whose commit succeeds without a reply, deletes objects that committed rows name.
* Documents: images in DOCX headings, and notes referred to only from a title or a table cell, are
  lost; EPUB text before the first heading comes after it; a `p` in a `blockquote` comes twice; asides
  that share an id overwrite one another in a DOCX; references to DOCX notes are lost in an EPUB; a
  table split by segmentation or with blank edge cells is exported untranslated; two exports of one
  book write the same file.
* Book QA: an audit of one language deletes the open issues of the others, and it checks the
  segment's text whatever language that is in; overlapping audits raise
  an issue twice, or fail the report whose issues the other deleted after its audit was committed; a
  resolved or ignored issue is raised again by the next audit; the audit compares by `casefold()`, the
  prompt's glossary by `lower()`; a review of a translation without a final version is not counted.

## 4. What is proved

`JobQueue_proofs.tla`, for every set of jobs and workers and every number of faults (assuming only
`ConstantsAssumption`: `None` is neither job nor worker, `Keyed \subseteq Jobs`):

* `TypeCorrect`: the type invariant (type invariants are proved and not among the properties of the
  runs; the same for the other modules below).
* `NoDuplicates`, `NoOrphanMarkers`: list and marker set. The invariants are not inductive by
  themselves. `QueueInv` adds that a list entry has its marker, and that a job in transit (between
  SADD and RPUSH, or BLPOP and SREM) is in transit in one process only and not on the list: this is
  what makes RPUSH safe. It holds while no reply of RPUSH is lost; that no marker is left over also
  needs that no process dies inside the windows. Both are hypotheses on `Faults`.
* `LeaseOwnership`, `MutualExclusion`, `NotDoneTooEarly`: if heartbeats are in time, a worker from
  the claim to the release owns the key, so there is one; `Begin` and `NextSegment` are then the only
  writers to a row in process, besides stale recoveries and cancels. (`OneProcessorPerJob`, which
  `MutualExclusion` proves under this hypothesis, is what `jobqueue_lostlease` refutes without it.)
* `LeaseHandover` and `Idempotency` need no hypothesis on faults. `RowInv`, under the second, says
  that a row exists exactly once its request has committed it, and that whatever refers to a job
  (list, marker, hands of a worker) refers to a row.
* `DoneIsStable`: with heartbeats in time, only a recovery or a cancel that had read the row before
  takes it out of `done`. It follows from `RowInv` and `NotDoneTooEarly`.
* `GaugeCounts`: the gauge of active jobs is the number of leases the process holds and of those that
  ran out. It needs no hypothesis on faults: what a process holds is counted as a set (`Owned`), and
  a release that fails or comes too late leaves the gauge as it is.
* `Refinement`: JobQueue implements DedupQueue, one case per action.

Proofs have one step per action and below it one per conjunct it can disturb.

`TranslationJob_proofs.tla`, for every number of segments, stages and retries, every set of
configurations and any number of troubles (`ConstantsAssumption` says that they are numbers and
configurations):

* `JobTypeCorrect`: the type invariant.
* `FailuresExplained`, by `ErrorInv`: the local list has every failure, and `job.errors_json` is a
  list of its own between the refresh of a turn and its first error. The second part is what makes
  the assignment after a failure a change; `GatePassUnrefreshed`, the loop without its refresh,
  breaks it.
* `CancelBounded`, by `CancelInv`: nothing was entered late while a segment is about to be entered.
* `BudgetKept` (`BudgetIsKept`): that the limit is exceeded by less than one turn follows from
  `BudgetInv`, which gives for every program point the tokens the turn can have spent (`Spendable`; a
  failed attempt costs at most `Stages - 1`); that no job over its limit is completed from `FinishInv`:
  the process that wrote a finished status has left.
* `CompletedEarned` (`CompletedIsEarned`), by `TextInv`: the segments behind the loop's index carry a
  translation, unless one has failed; and by `CountInv`: there is a set of translated segments that
  pays for the counts; each count, and each one that is due in the turn, is paid by one of them or by
  a rejection, so the sum is a cardinality and no induction over segments is needed.
* `OthersWorkKept`, by `WorkInv`, that what is translated was loaded without a translation, and by `LossInv`:
  a segment that has lost as many translations as its rejections allow carries one now, and the
  session knows it if it has still to come to it (`Held`), so that it will be skipped.
* `ReviewsRequested`, by `ReviewInv` and the library's facts about the cardinality of finite sets.

`ProviderRouting_proofs.tla`, for all finite sets of calls and policies, every set of rows an
administrator may give a policy, every amount of tokens and any number of failures and changes
(`ConstantsAssumption`):

* `RoutingTypeCorrect`: the type invariant. `Sound` says of every call that the counter it is at is
  limited by the row that was loaded, which what it gives back later depends on.
* `LimitsAreKept`: `LimitsHold` needs `CounterInv`, per policy and counter. What is in use is the
  number of calls that keep something in the counter times its amount, so every step moves both
  sides of the equation by one call's share (`Balanced`, from the library's facts on cardinality).
  That no limit is exceeded is said of the calls that have passed the comparison, or will with the
  value they read before EXPIRE (`Passes`): a call joins them only with a value of the counter that
  is within the limit, and the counter covers them all. A counter is reset only after it expired
  under a call, which is why the equation survives.
* `CountersGoAway` (`CountersExpire`), by `TtlInv`, the same for counters of any value: a rollback may
  leave a negative one.
* `CooldownsHold` (`CooldownHolds`), by `CoolInv`: a call has no policy that cools down on the rest of
  its route, nor among the candidates whose feedback it has read, unless it could not see the cooldown
  (`Shielded`).

`TranslationVersions_proofs.tla`, for every set of sessions and of scores, and any number of versions,
reviews, requests and crashes (`ConstantsAssumption`: bounds and scores are numbers):

* `VersionsTypeCorrect`, and `FlagsAgree` (`FinalFlagsAgree`), `ResolutionsApply`
  (`ResolutionsAreApplied`), `MemoryFollows` (`MemoryFollowsSelection`) and `DecisionsHold`
  (`DecisionsAreFinal`), from one invariant, `VersionsInv`. What a finalization writes depends on what
  its ORM objects believe, so `BelievesRight` has the beliefs of every session: they are what the
  rows are, unless another finalization has been committed since (`stale`), and a version it has not
  read is not final when it writes. `HoldsReview`, `HoldsVersion`, `HoldsRow` and `ScoredRight` say the
  same of the review, the version, the row and the score it goes on with, `EditsHaveOwners` that
  text written for a pending review has a session that will resolve it, or was abandoned by one that
  stopped.
* Of QualityScore, for every finite set of tokens, all drafts, answers and weights
  (`QualityAssumption`): `ScoresGraded` (`ScoresAreGraded`) and `ErrorsDoNotHelp` (`ErrorsNeverHelp`).
  Every state is `Scorable`, a well-typed pair of texts (`QualityTyped`). Each part of the score is in
  range and falls when an anchor is lost or invented (`CounterRange`, `CounterGrows`,
  `ProtectedGrows`, `InventedGrows`), rounding keeps the order (`RoundGrows`), so the weighted sum falls too
  (`WorseScores`). That *only* a candidate with all anchors has the full score is a question of rounding
  and of size: `CounterLess` and `ProtectedShows` have by how much a part falls short, and `FullIs` that it
  survives both roundings while there are at most `MostAnchors` of them, more than fit in a segment.
* `JudgesAreBounded`: for all scores and all weights, negative ones included, the combination with a
  judge lifts no critical failure above "poor", and is otherwise between the two scores, rounding
  included. `AggregateBetween` is the same for the weighted mean of any number of judges, by induction
  over their list.

`BookQA_proofs.tla`, for every book, glossary and number of reports, decisions and changes
(`BookQAAssumption`: what a report counts is finite):

* `BookTypeCorrect`, and `AuditsExact` (`AuditsAreExact`) and `ReportsClean` (`CleanReportsAreEarned`).
  The invariant, `BookInv`, has a part for each stage of a report: what it loaded, counted, found and
  concluded is what a look at the book *now* would give, as long as the book stands still under it
  (`still`), and the open issues are those it has seen, then those it has deleted, as long as no
  other audit or decision is committed (`alone`). That only its own commit takes a report from the
  audit to the reviews is `OthersStay`.
* `ReportsClean` has a hypothesis, `SmallBook`: at most 1818 segments and 3999 places where a term is
  due. The code rounds the parts of the score and the score itself to hundredths, so beyond these
  numbers a single missing review or term is rounded away, and the overall score is 100 although
  the report lists a problem. `PercentIsLow` and `FullScore` derive what the rounding can hide.

`Accounts_proofs.tla`, for all sets of e-mails, identities and handlers and any number of accounts
(`AccountsAssumption`):

* `AccountsTypeCorrect` and `LoginsKeep` (`LoginsKeepAccounts`). `AccountsInv` says that the ids are
  used without gaps (so an insert overwrites no row), that what a handler is about to write differs
  from what it has read only in what its kind of request may change (`Honest`), and that what it has
  read is still there, but for the rows that others have written since (`Follows`). `MergeKeeps` is the
  rule of the ORM on top: a column that was not assigned a new value keeps what is in the row.
* `PartialPatches` (`PartialPatchesDeactivate`): `Parts`, a part of `Honest`, says that what a PATCH goes on
  with after a commit in its middle is an inactive account, as only a deactivation commits there.

The same module has the proofs about Sessions, which is a system of its own, for every set of requests,
every cap and any number of logins, tokens and changes of the account (`SessionsAssumption` says that
they are numbers and the requests finite):

* `DeactivationHolds`: `DeactivationEndsSessions` needs `Swept`, which speaks of the deactivations
  that are under way: whatever is open is among the rows they have selected, or counted as late.
* `SingleUse`: a token that was exchanged is on no row (`Spent`), a token is on one row (`Distinct`),
  and a locked row carries the token that was presented (`Held`) and is locked once (`Exclusive`,
  which is what FOR UPDATE is for: `SelectUnlocked` breaks it). `Unborn` keeps the rows apart that
  logins are about to insert.
* `SessionsCapped` (`SessionsAreCapped`): a login leaves open at most the cap's number of the rows it has
  read, less its own, and all those it has *not* read. The bound by itself is not inductive, since
  what a login may still add depends on what the others have read. `Slack` says it of sets of logins:
  in every set of logins under way there is one that will leave open at most as many counted rows as
  the cap and the requests outside the set allow. The sets are finite, and what happens to their sizes
  are the library's facts on cardinality; the rows a login keeps are counted by their ranks.

`Figures_proofs.tla`:

* `FiguresTypeCorrect`, `RowsHave` (`RowsHaveObjects`), `VerdictsEarned` (`VerdictsAreEarned`) and
  `RendersCurrent` (`RendersAreCurrent`), for any images, jobs, texts and number of faults
  (`FiguresAssumption`), from `FiguresInv`. `Uploading` and `KeepsBook` say which objects the upload has
  stored at each of its steps and which its clean-up takes away; `RowKeys`, `JobKeys` and `Covered` that
  rows and jobs name images of the committed book, and that nothing is stored but these, renders and
  what failures left. `Loop` is about a job between its assets: where it is (`Placed`), that in its
  first delivery the counters sum up to where it is (`Tallied`; not in a later one, as they are not
  reset), and that if nothing has failed or was skipped in *any* delivery, every image before
  this one is done (`Earned`). The verdict `completed` follows from the last, `failed` from the second.
* `FigureTextsUnique` (`FigureTextsAreUnique`), by `TextsInv`: what a job has read of the segments is still
  what they say, but for those that have been added and the strays (`ReadBy`). A job whose position
  is free, and was the last one of what it had read, therefore knows every text there is.

`Documents_proofs.tla`, for all items a file can be made of, files of any length, all notes and any set of
heading jobs (`DocumentsAssumption` says what the fields of an item can be):

* `HeadingsOnce` (`HeadingsAreSegmentedOnce`), by `HeadingsInv`: a chapter has segments for all its
  headings or for none, at the positions `Allocated` gives to them, and what a job is about to insert is
  for chapters that had none, at those same positions. Whoever commits second therefore meets the unique
  constraint. No fact about how the file was parsed is needed.
* `ExportFollows` (`ExportFollowsSource`): what is exported is what was in the file. The invariant of
  Documents is `DocumentInv`, `HeadingsInv` with two more parts: `FileInv`, that what is stored is `Parse`
  of the file; and `RowsInv`, that every segment is a part of a text of its block or the heading it is
  the key of (`TextRow`, `HeadingRow`), every part of every text has its segment (`AllParts`), in order
  (`PartsInOrder`), and only a table can come back bent. That is the half about concurrent jobs. The other
  half is about one file, of any length:
  - `DocumentOK(d, n)` says what the document `d` has of the first `n` items: its chapters are those of the
    file in their order, but for those that have nothing; each block and section comes from an item
    (`BlocksRead`, `SectionsRead`), each text has its block (`TextsRead`), the stack of sections and the
    target of captions are what the nearest headings and tables say (`OnTrack`), and what the blocks will
    print is what the file has so far (`PrintsRead`). `ReadStep` shows that `DocxItem` and `EpubElement`
    keep it for every item, so `ReadingOK` has it of the whole file. It cannot be weaker: without
    `OnTrack` the next heading could open its section anywhere.
  - `ParseLays`: so `Parse` lays the file out (`Laid`), with the title of the file where there is none
    (`UntitledIs`) and the notes after the chapter that refers to them first.
  - `TextsDiffer`, `HeadingsDiffer`, `TextsAreNoHeadings`: nothing in a book is the same text twice; so what
    the export reads of a block is what its own segments say (`SaysReads`), and it prints its item
    (`BlockIsPrinted`).
  - `FlatSkips`: what is joined of the chapters that are kept is what is joined of all chapters of the
    file, since the others are empty; hence `FileExported`. The notes are `NotesExportedDocx` and
    `NotesExportedEpub`.

In all these modules lemmas on the actions' effects come first, then one step per action.

`Parse`, `FlattenSeq` and `Total` are recursive functions over numbers. The induction theorems of the
library take an operator as their parameter, so inductions are made with a least counterexample
instead: a set of numbers that is not empty has a least element (`Least`, from the well-foundedness of
`Nat`), and the step refutes it for the set of the numbers at which a fact fails. That such a function
exists at all is proved in the same way (`ReadingExists`, `FlattensExists`, `SumsExist`).

Only model-checked: liveness (`JobsFinish`, `CancelEndsTheJob`, `JobEnds`), because it needs fairness,
which the prover does not reason about. Every invariant and every other action property of a
passing run is stated by a theorem.

## 5. What is not modelled, and the plan

Left out for good, because it transforms data without shared state or talks to external services:
the gateway's HTTP clients, prompts and the assembly of context, the drawing of images, wording and
formatting of documents, the regular expressions behind the scores' counts, tokens and cost totals
of a report, middleware, metrics, the frontend and the deployment. `remove_queued_marker` and
`has_active_job_lease` are not used by the code that is modelled. Assignments of
reviewers (`api/reviewer.py`) only guard who may open and resolve a review (`api/reviews.py:51`);
their comments are rows that nothing else reads. Of the OIDC login the exchange with
the provider is left to the environment, of authentication the check of a bearer token.

Where a module is narrower than the code:

* TranslationJob has one job of a book; that a job for another language skips the segments that have
  a text, and that two jobs translate one segment, is seen only as "another session's work".
* TranslationVersions has one translation; QA results enter as verdicts.
* Exports that share an output path are not run against each other.

Planned, in this order:

1. the composition of two translation jobs of different languages over one book, with the heading
   segments of Documents;
2. the totals of a book report under concurrent model runs.
