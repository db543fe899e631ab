-------------------------- MODULE TranslationVersions --------------------------
(***************************************************************************)
(* The versions of one translation (a segment in one target language): the *)
(* model runs of translation_engine.py that append them, the finalization  *)
(* that selects one of them, the human reviews that approve, edit or reject*)
(* them, the scores of QA and the entry of the translation memory.         *)
(*                                                                         *)
(* Every request works in a database session of its own.  SQLAlchemy keeps *)
(* the attributes it has loaded (expire_on_commit is off) and writes only  *)
(* those that the request changed, so a session carries what it believes   *)
(* of the row and of the flags.  Between its first flush and its COMMIT a  *)
(* session holds the row locks: that part of a request is one action.      *)
(***************************************************************************)
EXTENDS Integers, Sequences, FiniteSets

CONSTANTS
  Sessions,     (* concurrent requests, and the session of a worker           *)
  Scores,       (* quality scores; 0 is NULL                                  *)
  MaxVersions, MaxReviews, MaxRequests, MaxFaults   (* bounds                 *)

ASSUME ConstantsAssumption ==
  /\ Scores \subseteq Nat \ {0}
  /\ MaxVersions \in Nat /\ MaxReviews \in Nat
  /\ MaxRequests \in Nat /\ MaxFaults \in Nat

VARIABLES
  translation,  (* the row of translations; its existence, status, selection  *)
  versions,     (* translation_versions by version_number                     *)
  segment,      (* whose text segments.translated_text is, and the status     *)
  memory,       (* the translation memory's entry for the segment's hash      *)
  reviews,      (* human_reviews of these versions                            *)
  sess,         (* what every session is doing and what it has loaded         *)
  everFinal,    (* history: versions that were finalized                      *)
  raced,        (* history: a finalization wrote over beliefs that another    *)
                (* finalization had made stale                                *)
  rescoreRaced, (* history: a score was written from a stale one              *)
  abandoned,    (* history: reviews whose resolution ended in the middle      *)
  requests, faults

rows   == <<translation, versions, segment, memory, reviews>>
ghosts == <<everFinal, raced, rescoreRaced, abandoned, requests, faults>>
vars   == <<rows, sess, ghosts>>

Twin    == -1     \* a version of another segment of the book with the same text
NoEntry == [origin |-> 0, score |-> 0]
NoRow   == [exists |-> FALSE, status |-> "none", selected |-> 0]

Idle == [op |-> "none", pc |-> "idle", row |-> NoRow, flags |-> <<>>, target |-> 0,
         num |-> 0, review |-> 0, score |-> 0, stale |-> FALSE, rescored |-> FALSE,
         overtaken |-> FALSE]

Resolving == {"approve", "edit", "editor", "reject"}

Init ==
  /\ translation = NoRow
  /\ versions = <<>>
  /\ segment = [text |-> 0, status |-> "pending"]
  /\ memory = NoEntry
  /\ reviews = <<>>
  /\ sess = [s \in Sessions |-> Idle]
  /\ everFinal = {} /\ raced = FALSE /\ rescoreRaced = FALSE /\ abandoned = {}
  /\ requests = 0 /\ faults = 0

----------------------------------------------------------------------------
(* What a session has loaded.                                                *)

At(s, pc)  == sess[s].pc = pc
Go(s, pc)  == sess' = [sess EXCEPT ![s].pc = pc]
End(s)     == sess' = [sess EXCEPT ![s] = Idle]

Flag(v) == [w \in {v} |-> versions[v].final]

Loaded(v, r, op, pc) ==
  [Idle EXCEPT !.op = op, !.pc = pc, !.row = translation, !.target = v, !.review = r,
               !.score = versions[v].score, !.flags = Flag(v)]

(* The flags a session has, and of the other versions the ones it reads.     *)
Known(flags, read) == [v \in DOMAIN flags \union DOMAIN read |->
                         IF v \in DOMAIN flags THEN flags[v] ELSE read[v]]

Receive(s, request) ==
  /\ At(s, "idle")
  /\ requests < MaxRequests
  /\ requests' = requests + 1
  /\ sess' = [sess EXCEPT ![s] = request]
  /\ UNCHANGED <<rows, everFinal, raced, rescoreRaced, abandoned, faults>>

(* An attribute that already has the value for the session is not written.   *)
Assigned(old, believed, new) == IF believed = new THEN old ELSE new

SetStatus(s, new) ==
  translation' = [translation EXCEPT !.status = Assigned(@, sess[s].row.status, new)]

----------------------------------------------------------------------------
(* A model run.                                                              *)

(* generate_translation_version until acquire_route: a translation that the  *)
(* SELECT does not find is added.                                            *)
Lookup(s) ==
  \E op \in {"generate", "generateFinal", "pipeline"} :
    Receive(s, [Idle EXCEPT !.op = op, !.pc = "begin", !.row = translation])

(* ensure_translation; nothing else is in its transaction.                   *)
EnsureTranslation ==
  /\ ~translation.exists
  /\ translation' = [exists |-> TRUE, status |-> "pending", selected |-> 0]
  /\ UNCHANGED <<versions, segment, memory, reviews, sess, ghosts>>

(* The run is committed with the translation, which is the INSERT of a new   *)
(* one: another session's INSERT makes it fail.                              *)
BeginRun(s) ==
  /\ At(s, "begin")
  /\ translation.exists = sess[s].row.exists
  /\ translation' = IF translation.exists
                      THEN [translation EXCEPT !.status = Assigned(@, sess[s].row.status, "running")]
                      ELSE [exists |-> TRUE, status |-> "running", selected |-> 0]
  /\ sess' = [sess EXCEPT ![s].pc = "call", ![s].row.status = "running"]
  /\ UNCHANGED <<versions, segment, memory, reviews, ghosts>>

(* No route is available, or the INSERT of the translation lost.             *)
RefuseRun(s) ==
  /\ At(s, "begin")
  /\ End(s)
  /\ UNCHANGED <<rows, ghosts>>

ProviderFails(s) ==
  /\ At(s, "call")
  /\ SetStatus(s, "failed")
  /\ End(s)
  /\ UNCHANGED <<versions, segment, memory, reviews, ghosts>>

(* _next_version_number, for a model's text and for a reviewer's.            *)
ReadNumber(s) ==
  /\ \/ At(s, "call")
     \/ At(s, "resolve") /\ sess[s].op \in {"edit", "editor"}
  /\ Len(versions) < MaxVersions
  /\ sess' = [sess EXCEPT ![s].pc = "insert", ![s].num = Len(versions) + 1]
  /\ UNCHANGED <<rows, ghosts>>

(* Mutant: the reviewer's version is committed without being finalized.      *)
CommitVersionUnselected(s) ==
  /\ At(s, "insert")
  /\ sess[s].num = Len(versions) + 1
  /\ versions' = Append(versions, [final |-> FALSE, score |-> sess[s].score, review |-> sess[s].review])
  /\ IF sess[s].review = 0 THEN SetStatus(s, "generated") /\ End(s)
                           ELSE Go(s, "close") /\ UNCHANGED translation
  /\ UNCHANGED <<segment, memory, reviews, ghosts>>

(* The COMMIT of the version and the refreshes; then the next stage of a     *)
(* pipeline of two, or the finalization, if it was asked for.                *)
CommitVersion(s) ==
  LET x       == sess[s]
      byModel == x.review = 0
      score   == IF byModel THEN 0 ELSE x.score
  IN
  /\ At(s, "insert")
  /\ x.num = Len(versions) + 1
  /\ versions' = Append(versions, [final |-> FALSE, score |-> score, review |-> x.review])
  /\ IF byModel THEN SetStatus(s, "generated") ELSE UNCHANGED translation
  /\ sess' = [sess EXCEPT ![s] =
       IF x.op = "generate" THEN Idle
       ELSE [x EXCEPT !.op = IF x.op = "pipeline" THEN "generateFinal" ELSE x.op,
                      !.pc = IF x.op = "pipeline" THEN "begin" ELSE "select",
                      !.target = x.num, !.score = score, !.rescored = FALSE,
                      !.row = IF byModel THEN translation' ELSE x.row,
                      !.stale = x.stale /\ x.flags # <<>>,
                      !.flags = Known([v \in {x.num} |-> FALSE], x.flags)]]
  /\ UNCHANGED <<segment, memory, reviews, ghosts>>

(* The unique constraint on (translation_id, version_number).                *)
NumberTaken(s) ==
  /\ At(s, "insert")
  /\ sess[s].num <= Len(versions)
  /\ End(s)
  /\ UNCHANGED <<rows, ghosts>>

----------------------------------------------------------------------------
(* finalize_translation_version                                              *)

StartFinalize(s) ==
  \E v \in DOMAIN versions :
    Receive(s, Loaded(v, 0, "finalize", "select"))

(* SELECT of all versions: the ones already loaded keep the loaded flag.     *)
SelectVersions(s) ==
  /\ At(s, "select")
  /\ sess' = [sess EXCEPT ![s].pc = "write",
                          ![s].flags = Known(@, [v \in DOMAIN versions |-> versions[v].final])]
  /\ UNCHANGED <<rows, ghosts>>

(* Mutant: only the target's flag is set.                                    *)
FinalFlagsForgetful(s) == [versions EXCEPT ![sess[s].target].final = TRUE]

FinalFlags(s) ==
  [v \in DOMAIN versions |->
     IF v \in DOMAIN sess[s].flags
       THEN [versions[v] EXCEPT !.final = Assigned(@, sess[s].flags[v], v = sess[s].target)]
       ELSE versions[v]]

(* Everything from the first flush to the COMMIT, remember_translation       *)
(* included.                                                                 *)
Finalize(s) ==
  LET target == sess[s].target
      others == {o \in Sessions \ {s} : sess[o].op # "none" /\ sess[o].row.exists}
  IN
  /\ At(s, "write")
  /\ versions' = FinalFlags(s)
  /\ translation' = [translation EXCEPT
                       !.status = Assigned(@, sess[s].row.status, "approved"),
                       !.selected = Assigned(@, sess[s].row.selected, target)]
  /\ segment' = [text |-> target, status |-> "translated"]
  /\ memory' = [origin |-> target, score |-> sess[s].score]
  /\ sess' = [o \in Sessions |->
       CASE o = s -> IF sess[s].op \in Resolving THEN [sess[s] EXCEPT !.pc = "close"] ELSE Idle
         [] o \in others -> [sess[o] EXCEPT !.stale = TRUE]
         [] OTHER -> sess[o]]
  /\ everFinal' = everFinal \union {target}
  /\ raced' = (raced \/ sess[s].stale)
  /\ rescoreRaced' = (rescoreRaced \/ sess[s].rescored)
  /\ UNCHANGED <<reviews, abandoned, requests, faults>>

(* Another segment of the book with the same source_hash is finalized.       *)
TwinEntry == /\ faults < MaxFaults
             /\ faults' = faults + 1
             /\ memory' = [origin |-> Twin, score |-> 0]

TwinFinalizes ==
  /\ memory # NoEntry
  /\ TwinEntry
  /\ UNCHANGED <<translation, versions, segment, reviews, sess, everFinal, raced, rescoreRaced, abandoned, requests>>

Abandon(s) ==
  abandoned' = IF sess[s].review # 0 THEN abandoned \union {sess[s].review} ELSE abandoned

(* Both found no entry: the unique constraint undoes the later finalization. *)
TwinInsertsFirst(s) ==
  /\ At(s, "write")
  /\ memory = NoEntry
  /\ TwinEntry
  /\ End(s) /\ Abandon(s)
  /\ UNCHANGED <<translation, versions, segment, reviews, everFinal, raced, rescoreRaced, requests>>

----------------------------------------------------------------------------
(* Human review.                                                             *)

PendingOf(v) == {r \in DOMAIN reviews : reviews[r].version = v /\ reviews[r].status = "pending"}

(* request_human_review: nothing pending was found.                          *)
RequestReview(s) ==
  \E v \in DOMAIN versions :
    /\ PendingOf(v) = {}
    /\ Receive(s, [Idle EXCEPT !.op = "request", !.pc = "add", !.target = v])

(* The COMMIT of the review; the editor goes on to resolve it.               *)
AddReview(s) ==
  /\ At(s, "add")
  /\ Len(reviews) < MaxReviews
  /\ reviews' = Append(reviews, [version |-> sess[s].target, status |-> "pending"])
  /\ IF sess[s].op = "editor"
       THEN sess' = [sess EXCEPT ![s].pc = "resolve", ![s].review = Len(reviews) + 1]
       ELSE End(s)
  /\ UNCHANGED <<translation, versions, segment, memory, ghosts>>

(* Mutant: no check of review.status.                                        *)
StartResolveAgain(s) ==
  \E r \in DOMAIN reviews, op \in {"approve", "edit", "reject"} :
    Receive(s, Loaded(reviews[r].version, r, op, IF op = "approve" THEN "select" ELSE "resolve"))

(* resolve_human_review until it has its rows.                               *)
StartResolve(s) ==
  \E r \in DOMAIN reviews, op \in {"approve", "edit", "reject"} :
    /\ reviews[r].status = "pending"
    /\ Receive(s, Loaded(reviews[r].version, r, op, IF op = "approve" THEN "select" ELSE "resolve"))

(* save_editor_version: the latest final version, and a pending review of it.*)
(* Two pending reviews, or no final version, end the request.                *)
StartEditor(s) ==
  \E v \in DOMAIN versions :
    /\ versions[v].final
    /\ \A w \in v+1..Len(versions) : ~versions[w].final
    /\ Cardinality(PendingOf(v)) <= 1
    /\ IF PendingOf(v) = {} THEN Receive(s, Loaded(v, 0, "editor", "add"))
       ELSE \E r \in PendingOf(v) : Receive(s, Loaded(v, r, "editor", "resolve"))

Decided(s, new) ==
  /\ reviews' = [reviews EXCEPT ![sess[s].review].status = new]
  /\ sess' = [o \in Sessions |->
       IF o = s THEN Idle
       ELSE [sess[o] EXCEPT !.overtaken = @ \/ sess[o].review = sess[s].review]]

(* Translation, segment and review in one COMMIT.                            *)
Reject(s) ==
  /\ At(s, "resolve") /\ sess[s].op = "reject"
  /\ SetStatus(s, "needs_review")
  /\ segment' = [segment EXCEPT !.status = "needs_review"]
  /\ Decided(s, "rejected")
  /\ UNCHANGED <<versions, memory, ghosts>>

(* The review's COMMIT after the one of the finalization.                    *)
CloseReview(s) ==
  /\ At(s, "close")
  /\ Decided(s, IF sess[s].op = "approve" THEN "approved" ELSE "edited")
  /\ UNCHANGED <<translation, versions, segment, memory, ghosts>>

----------------------------------------------------------------------------
(* evaluate_translation_version and evaluate_translation_quality_v2: the     *)
(* version is loaded, judges are asked, and the score is written to it and   *)
(* to the memory's entry of it.                                              *)
StartEvaluate(s) ==
  \E v \in DOMAIN versions :
    Receive(s, [Idle EXCEPT !.op = "evaluate", !.pc = "score", !.target = v,
                            !.score = versions[v].score])

(* Mutant: the memory's entry keeps its score.                               *)
EvaluateVersionOnly(s) ==
  /\ At(s, "score")
  /\ \E q \in Scores : versions' = [versions EXCEPT ![sess[s].target].score = q]
  /\ End(s)
  /\ UNCHANGED <<translation, segment, memory, reviews, ghosts>>

Evaluate(s) ==
  LET v == sess[s].target IN
  /\ At(s, "score")
  /\ \E q \in Scores :
       /\ versions' = [versions EXCEPT ![v].score = Assigned(@, sess[s].score, q)]
       /\ memory' = IF memory.origin = v THEN [memory EXCEPT !.score = q] ELSE memory
  /\ sess' = [o \in Sessions |->
       IF o = s THEN Idle ELSE [sess[o] EXCEPT !.rescored = @ \/ sess[o].target = v]]
  /\ rescoreRaced' = (rescoreRaced \/ sess[s].rescored)
  /\ UNCHANGED <<translation, segment, reviews, everFinal, raced, abandoned, requests, faults>>

(* The process ends: what was not committed is gone.                         *)
Crash(s) ==
  /\ ~At(s, "idle")
  /\ faults < MaxFaults
  /\ faults' = faults + 1
  /\ End(s) /\ Abandon(s)
  /\ UNCHANGED <<rows, everFinal, raced, rescoreRaced, requests>>

Generate(s) == \/ Lookup(s) \/ BeginRun(s) \/ RefuseRun(s) \/ ProviderFails(s)
               \/ ReadNumber(s) \/ CommitVersion(s) \/ NumberTaken(s)
Select(s)   == StartFinalize(s) \/ SelectVersions(s) \/ Finalize(s) \/ TwinInsertsFirst(s)
Review(s)   == \/ RequestReview(s) \/ AddReview(s) \/ StartResolve(s) \/ StartEditor(s)
               \/ Reject(s) \/ CloseReview(s)
Score(s)    == StartEvaluate(s) \/ Evaluate(s)

Next == \/ EnsureTranslation \/ TwinFinalizes
        \/ \E s \in Sessions : Generate(s) \/ Select(s) \/ Review(s) \/ Score(s) \/ Crash(s)

Spec == Init /\ [][Next]_vars

----------------------------------------------------------------------------
(* The flags, the selected version and the segment's text agree: at most one *)
(* version is final, it is the selected one, and it is the text that readers *)
(* and exports get.  The editor finds a version to edit as soon as one was   *)
(* finalized.  Finalizations that overlap do break this (raced).             *)
FinalFlagsAgree ==
  ~raced =>
    LET finals == {v \in DOMAIN versions : versions[v].final} IN
    /\ finals = IF everFinal = {} THEN {} ELSE {translation.selected}
    /\ segment.text = translation.selected

(* A decision that a review shows was carried out: the approved version, or  *)
(* a version with the reviewer's text, has been finalized.  Text that was    *)
(* finalized for a review that is still pending belongs to a resolution that *)
(* is under way or ended in the middle.                                      *)
ResolutionsAreApplied ==
  \A r \in DOMAIN reviews :
    LET edits == {v \in DOMAIN versions : versions[v].review = r} IN
    /\ reviews[r].status = "approved" => reviews[r].version \in everFinal
    /\ reviews[r].status = "edited" => edits \intersect everFinal # {}
    /\ reviews[r].status = "pending" /\ edits # {} =>
         r \in abandoned \/ \E s \in Sessions : sess[s].review = r

(* The translation memory offers the selected version, with the version's    *)
(* score, or the text of a twin segment: what a reviewer replaced is not     *)
(* suggested to the next translation.                                        *)
MemoryFollowsSelection ==
  ~raced => /\ memory.origin \in {Twin, translation.selected}
            /\ memory.origin > 0 /\ ~rescoreRaced => memory.score = versions[memory.origin].score

(* A resolved review is resolved again only by a session that had loaded it  *)
(* before that decision was committed.                                       *)
DecisionsAreFinal ==
  [][\A r \in DOMAIN reviews :
       reviews[r].status \notin {"pending", reviews'[r].status} =>
         \E s \in Sessions : sess[s].overtaken /\ sess[s].review = r /\ sess'[s] = Idle]_vars

================================================================================
