-------------------------------- MODULE Figures --------------------------------
(***************************************************************************)
(* The figures of one book: the upload that stores its file and images     *)
(* (api/upload.py over storage/), vision jobs that read the text in them   *)
(* (services/vision_jobs.py), translations of that text, and render jobs   *)
(* that draw it (services/figure_rendering.py) for the export.  The queue, *)
(* the leases and the workers' loops are those of JobQueue: one process    *)
(* works on a job at a time, and a job that was interrupted is delivered   *)
(* again.  A step ends with a COMMIT, a call of the storage or of the      *)
(* model, or the reads of one handler.                                     *)
(***************************************************************************)
EXTENDS Integers, Sequences, FiniteSets, SequencesExt

CONSTANTS
  Images,                  (* how many images the book has: 1..Images      *)
  Texts,                   (* what a region of an image may say            *)
  VisionJobs, RenderJobs,
  Modes,                   (* render modes                                 *)
  MaxSegments, MaxWrites, MaxFaults   (* bounds: segments of figure text,  *)
                           (* translations written, failures               *)

Jobs   == VisionJobs \union RenderJobs
Assets == 1..Images
Source == 0        \* the key of the uploaded file; an image's is its asset

ASSUME FiguresAssumption ==
  /\ Images \in Nat \ {0}
  /\ VisionJobs \intersect RenderJobs = {}
  /\ IsFiniteSet(Texts) /\ MaxSegments \in Nat /\ MaxWrites \in Nat /\ MaxFaults \in Nat

VARIABLES
  upload,     (* the upload request: its step, and the image it is at         *)
  book,       (* whether the rows of the book and its assets are committed    *)
  objects,    (* the keys that the storage holds                              *)
  segments,   (* the figure_text segments, by position                        *)
  renders,    (* the rows of figure_renders of every asset, by created_at     *)
  job,        (* the rows of vision_jobs and figure_render_jobs, with what    *)
              (* their process is doing                                       *)
  keys,       (* keys given to rendered images                                *)
  leaked,     (* history: objects that a failure left without a row           *)
  unsure,     (* history: the upload was committed and reported as failed     *)
  extracted,  (* history: <<job, asset>> with a completed extraction          *)
  raced,      (* history: render jobs that another one overtook at their asset*)
  stray,      (* history: segments whose text may be there twice: of an       *)
              (* extraction that read its position after another's commit, or *)
              (* superseded and written again                                 *)
  writes, faults

stored == <<upload, book, objects>>
ghosts == <<leaked, unsure, extracted, raced, stray>>
vars   == <<stored, segments, renders, job, keys, ghosts, writes, faults>>

NoJob == [status |-> "none", mode |-> "none", done |-> 0, failed |-> 0, skipped |-> 0,
          deliveries |-> 0, pc |-> "idle", at |-> 1, seen |-> <<>>, last |-> 0, regions |-> {}, key |-> 0]

Init ==
  /\ upload = [pc |-> "save", at |-> 0]
  /\ book = FALSE /\ objects = {}
  /\ segments = <<>> /\ renders = [a \in Assets |-> <<>>]
  /\ job = [j \in Jobs |-> NoJob]
  /\ keys = Images
  /\ leaked = {} /\ unsure = FALSE /\ extracted = {} /\ raced = {} /\ stray = {}
  /\ writes = 0 /\ faults = 0

Fault == faults < MaxFaults /\ faults' = faults + 1

----------------------------------------------------------------------------
(* upload_book.                                                              *)
UploadAt(pc) == upload.pc = pc
Uploads(pc, at) == upload' = [pc |-> pc, at |-> at]

SaveSource ==          \* _save_upload, put_bytes and parse_document
  /\ UploadAt("save")
  /\ objects' = objects \union {Source}
  /\ Uploads("put", 1)
  /\ UNCHANGED <<book, segments, renders, job, keys, ghosts, writes, faults>>

PutImage ==
  /\ UploadAt("put")
  /\ upload.at <= Images
  /\ objects' = objects \union {upload.at}
  /\ Uploads("put", upload.at + 1)
  /\ UNCHANGED <<book, segments, renders, job, keys, ghosts, writes, faults>>

CommitBook ==
  /\ UploadAt("put")
  /\ upload.at > Images
  /\ book' = TRUE
  /\ Uploads("refresh", upload.at)
  /\ UNCHANGED <<objects, segments, renders, job, keys, ghosts, writes, faults>>

Refreshed ==
  /\ UploadAt("refresh")
  /\ Uploads("end", upload.at)
  /\ UNCHANGED <<book, objects, segments, renders, job, keys, ghosts, writes, faults>>

(* A COMMIT that raises, or in which the process stops, may have succeeded.  *)
Committed == IF upload.at > Images THEN {book, TRUE} ELSE {book}

(* Anything raised from the first flush to db.refresh(book), which is after  *)
(* the commit.  An image whose put_bytes fails may be there, or in part.     *)
UploadFails ==
  /\ UploadAt("put") \/ UploadAt("refresh")
  /\ Fault
  /\ book' \in Committed /\ unsure' = book'
  /\ \E half \in {{}, {upload.at} \intersect Assets} :
       /\ objects' = objects \union half
       /\ leaked' = leaked \union half
  /\ Uploads("clean", upload.at - 1)
  /\ UNCHANGED <<segments, renders, job, keys, extracted, raced, stray, writes>>

(* Mutant: the source file is not among the created keys.                    *)
DeleteImage ==
  /\ UploadAt("clean")
  /\ objects' = objects \ {upload.at}
  /\ Uploads(IF upload.at = 1 THEN "end" ELSE "clean", upload.at - 1)
  /\ UNCHANGED <<book, segments, renders, job, keys, ghosts, writes, faults>>

DeleteKey ==           \* created_storage_keys, in reverse
  /\ UploadAt("clean")
  /\ objects' = objects \ {upload.at}
  /\ Uploads(IF upload.at = Source THEN "end" ELSE "clean", upload.at - 1)
  /\ UNCHANGED <<book, segments, renders, job, keys, ghosts, writes, faults>>

DeleteFails ==         \* which is ignored
  /\ UploadAt("clean")
  /\ Fault
  /\ leaked' = leaked \union {upload.at}
  /\ Uploads(IF upload.at = Source THEN "end" ELSE "clean", upload.at - 1)
  /\ UNCHANGED <<book, objects, segments, renders, job, keys, unsure, extracted, raced, stray, writes>>

ParseFails ==          \* the source is deleted; when that fails it stays
  /\ UploadAt("put") /\ upload.at = 1
  /\ \/ objects' = {} /\ UNCHANGED <<leaked, faults>>
     \/ Fault /\ leaked' = {Source} /\ UNCHANGED objects
  /\ Uploads("end", 0)
  /\ UNCHANGED <<book, segments, renders, job, keys, unsure, extracted, raced, stray, writes>>

UploadStops ==
  /\ upload.pc \in {"put", "refresh", "clean"}
  /\ Fault
  /\ book' \in IF UploadAt("put") THEN Committed ELSE {book}
  /\ leaked' = IF book' THEN leaked ELSE leaked \union objects
  /\ Uploads("end", 0)
  /\ UNCHANGED <<objects, segments, renders, job, keys, unsure, extracted, raced, stray, writes>>

Upload == \/ SaveSource \/ PutImage \/ CommitBook \/ Refreshed
          \/ UploadFails \/ DeleteKey \/ DeleteFails \/ ParseFails \/ UploadStops

----------------------------------------------------------------------------
(* What the two kinds of jobs share: the loop over the assets.               *)
At(j, pc)     == job[j].pc = pc
Set(j, new)   == job' = [job EXCEPT ![j] = new]
Closed        == {"completed", "completed_with_warnings", "failed"}
InTable       == UNCHANGED <<stored, keys, leaked, unsure, writes>>
NoSegment     == UNCHANGED <<segments, extracted, stray>>

Create(j) ==
  /\ book
  /\ job[j].status = "none"
  /\ \E mode \in IF j \in RenderJobs THEN Modes ELSE {"none"} :
       Set(j, [NoJob EXCEPT !.status = "queued", !.mode = mode])
  /\ UNCHANGED <<renders, raced, faults>> /\ NoSegment /\ InTable

Begin(j) ==
  /\ At(j, "idle")
  /\ job[j].status \in {"queued", "running"}
  /\ Set(j, [job[j] EXCEPT !.status = "running", !.pc = "enter", !.at = 1, !.deliveries = @ + 1])
  /\ UNCHANGED <<renders, raced, faults>> /\ NoSegment /\ InTable

(* The commit after an asset, with one more in a column of h: on to the next.*)
Idle(h)    == [h EXCEPT !.pc = "idle", !.seen = <<>>, !.last = 0, !.regions = {}, !.key = 0]
Counted(h) == [Idle(h) EXCEPT !.pc = "enter", !.at = @ + 1]

(* Mutant: a warning only for what was skipped.                              *)
VerdictOfSkipped(j) ==
  CASE job[j].failed = Images -> "failed"
    [] job[j].failed # Images /\ job[j].skipped > 0 -> "completed_with_warnings"
    [] OTHER -> "completed"

(* The status at the end.  A vision job skips nothing.                       *)
Verdict(j) ==
  CASE job[j].failed = Images -> "failed"
    [] job[j].failed # Images /\ job[j].failed + job[j].skipped > 0 -> "completed_with_warnings"
    [] OTHER -> "completed"

Finish(j) ==
  /\ At(j, "enter") /\ job[j].at > Images
  /\ Set(j, [job[j] EXCEPT !.status = Verdict(j), !.pc = "idle"])
  /\ UNCHANGED <<renders, raced, faults>> /\ NoSegment /\ InTable

Stop(j) ==             \* the process stops, or the database refuses a commit
  /\ ~At(j, "idle")
  /\ Fault
  /\ leaked' = IF At(j, "row") THEN leaked \union {job[j].key} ELSE leaked
  /\ Set(j, Idle(job[j]))
  /\ raced' = raced \ {j}
  /\ UNCHANGED <<stored, renders, keys, unsure, writes>> /\ NoSegment

Recover(j) ==          \* recover_vision_jobs, recover_figure_render_jobs
  /\ At(j, "idle") /\ job[j].status = "running"
  /\ Set(j, [job[j] EXCEPT !.status = "queued"])
  /\ UNCHANGED <<renders, raced, faults>> /\ NoSegment /\ InTable

----------------------------------------------------------------------------
(* Vision: _process_asset and _create_figure_segments.                       *)
OfAsset(a)  == {i \in DOMAIN segments : segments[i].asset = a}
LiveOf(a)   == {i \in OfAsset(a) : segments[i].live}

Extract(j) ==          \* the model answers; the segments of the figure are read
  /\ At(j, "enter") /\ job[j].at \in Assets \intersect objects
  /\ \E regions \in SUBSET Texts :
       Set(j, [job[j] EXCEPT !.pc = "extracted", !.regions = regions, !.seen = segments])
  /\ UNCHANGED <<renders, raced, faults>> /\ NoSegment /\ InTable

ReadPosition(j) ==     \* max(Segment.position), a statement of its own
  /\ At(j, "extracted")
  /\ Set(j, [job[j] EXCEPT !.pc = "numbered", !.last = Len(segments)])
  /\ UNCHANGED <<renders, raced, faults>> /\ NoSegment /\ InTable

(* What was read: the texts that are gone are superseded, the new ones get   *)
(* the positions that follow the last one.                                   *)
Superseding(j) ==
  {i \in DOMAIN job[j].seen : /\ job[j].seen[i].asset = job[j].at /\ job[j].seen[i].live
                              /\ job[j].seen[i].text \notin job[j].regions}

NewTexts(j) ==
  job[j].regions \ {job[j].seen[i].text :
                      i \in {k \in DOMAIN job[j].seen : job[j].seen[k].asset = job[j].at /\ job[j].seen[k].live}}

(* Mutant: positions are not unique in a chapter.                            *)
PositionsAnyway(j) == TRUE

(* uq_segment_chapter_position: nobody has taken a position since it was read*)
PositionsFree(j) == NewTexts(j) = {} \/ Len(segments) = job[j].last

(* The new texts come in the order of the answer, and as often as it has them*)
CommitExtraction(j) ==
  /\ At(j, "numbered")
  /\ PositionsFree(j)
  /\ \E texts \in BoundedSeq(NewTexts(j), MaxSegments - Len(segments)) :
       LET new == [n \in DOMAIN texts |->
                     [asset |-> job[j].at, text |-> texts[n], translation |-> 0, live |-> TRUE,
                      extraction |-> Len(segments) + 1]]
       IN  /\ ToSet(texts) = NewTexts(j)
           /\ segments' = [i \in DOMAIN segments |->
                            [segments[i] EXCEPT !.live = @ /\ i \notin Superseding(j)]] \o new
           /\ stray' = IF job[j].last = Len(job[j].seen) THEN stray
                       ELSE stray \union {Len(segments) + n : n \in DOMAIN texts}
  /\ extracted' = extracted \union {<<j, job[j].at>>}
  /\ Set(j, Counted([job[j] EXCEPT !.done = @ + 1]))
  /\ UNCHANGED <<renders, raced, faults>> /\ InTable

(* Another job has taken the position.  The handler of the error commits a   *)
(* session that must be rolled back first, so the job stops there and stays  *)
(* "running".                                                                *)
PositionTaken(j) ==
  /\ At(j, "numbered")
  /\ ~PositionsFree(j)
  /\ Set(j, Idle(job[j]))
  /\ UNCHANGED <<renders, raced, faults>> /\ NoSegment /\ InTable

(* A translation is written to a segment; one that was superseded after the  *)
(* translation job loaded it is live again.                                  *)
Translate(i) ==
  /\ writes < MaxWrites
  /\ writes' = writes + 1
  /\ \E translation \in {1, 2} \ {segments[i].translation} :
       segments' = [segments EXCEPT ![i].translation = translation, ![i].live = TRUE]
  /\ stray' = IF segments[i].live THEN stray ELSE stray \union {i}
  /\ UNCHANGED <<stored, renders, job, keys, leaked, unsure, extracted, raced, faults>>

----------------------------------------------------------------------------
(* Rendering: render_asset.  A fingerprint stands for the regions it is made *)
(* of, the segments with their texts and translations.                       *)
Regions(a)     == [i \in LiveOf(a) |-> segments[i]]
Drawable(a)    == {i \in LiveOf(a) : segments[i].translation # 0}
OfMode(rows, mode) == {n \in DOMAIN rows : rows[n].mode = mode}
Latest(rows, mode) == rows[Max(OfMode(rows, mode))]

(* Mutant: any row with this fingerprint will do.                            *)
ReusableAny(j) ==
  LET rows == renders[job[j].at]
  IN  \E n \in OfMode(rows, job[j].mode) : rows[n].regions = job[j].seen[1]

(* The latest row shows what was read.                                       *)
Reusable(j) ==
  LET rows == renders[job[j].at]
  IN  /\ OfMode(rows, job[j].mode) # {}
      /\ Latest(rows, job[j].mode).regions = job[j].seen[1]

Skip(j) ==             \* NoRenderableFigureText
  /\ At(j, "enter") /\ job[j].at <= Images
  /\ Drawable(job[j].at) = {}
  /\ Set(j, Counted([job[j] EXCEPT !.skipped = @ + 1]))
  /\ UNCHANGED <<renders, raced, faults>> /\ NoSegment /\ InTable

Others(j) == {o \in RenderJobs \ {j} : job[o].pc \in {"latest", "draw", "row"} /\ job[o].at = job[j].at}

ReadSegments(j) ==     \* the first statement of the transaction
  LET a == job[j].at IN
  /\ At(j, "enter") /\ a <= Images
  /\ Drawable(a) # {}
  /\ Set(j, [job[j] EXCEPT !.pc = "latest", !.seen = <<Regions(a), Len(renders[a])>>])
  /\ raced' = (raced \ {j}) \union IF Others(j) = {} THEN {} ELSE {j} \union Others(j)
  /\ UNCHANGED <<renders, faults>> /\ NoSegment /\ InTable

Reuse(j) ==            \* the latest row is read, and returned
  /\ At(j, "latest")
  /\ Reusable(j)
  /\ Set(j, Counted([job[j] EXCEPT !.done = @ + 1]))
  /\ raced' = raced \ {j}
  /\ UNCHANGED <<renders, faults>> /\ NoSegment /\ InTable

Draw(j) ==             \* another one is needed: get_bytes
  /\ At(j, "latest")
  /\ ~Reusable(j) /\ job[j].at \in objects
  /\ Set(j, [job[j] EXCEPT !.pc = "draw"])
  /\ UNCHANGED <<renders, raced, faults>> /\ NoSegment /\ InTable

PutRender(j) ==
  /\ At(j, "draw")
  /\ keys' = keys + 1
  /\ objects' = objects \union {keys + 1}
  /\ Set(j, [job[j] EXCEPT !.pc = "row", !.key = keys + 1])
  /\ UNCHANGED <<upload, book, segments, renders, ghosts, writes, faults>>

DrawFails(j) ==        \* drawing, or storing the image or its SVG sidecar
  /\ At(j, "draw") \/ At(j, "row")
  /\ Fault
  /\ leaked' = IF At(j, "row") THEN leaked \union {job[j].key} ELSE leaked
  /\ Set(j, Counted([job[j] EXCEPT !.failed = @ + 1]))
  /\ raced' = raced \ {j}
  /\ UNCHANGED <<stored, renders, keys, unsure, writes>> /\ NoSegment

(* created_at is the start of the transaction: a job that was overtaken may  *)
(* come before the rows that others committed since.                         *)
CommitRender(j) ==
  LET a    == job[j].at
      rows == renders[a]
      new  == [mode |-> job[j].mode, regions |-> job[j].seen[1], key |-> job[j].key]
  IN
  /\ At(j, "row")
  /\ \E n \in IF j \in raced THEN job[j].seen[2]..Len(rows) ELSE {Len(rows)} :
       renders' = [renders EXCEPT ![a] = SubSeq(rows, 1, n) \o <<new>> \o SubSeq(rows, n + 1, Len(rows))]
  /\ Set(j, Counted([job[j] EXCEPT !.done = @ + 1]))
  /\ raced' = raced \ {j}
  /\ UNCHANGED faults /\ NoSegment /\ InTable

(* The call fails, or the asset's object is not there.                       *)
AssetFails(j) ==
  /\ \/ j \in VisionJobs /\ At(j, "enter") /\ job[j].at <= Images
     \/ j \in RenderJobs /\ At(j, "latest") /\ ~Reusable(j)
  /\ IF job[j].at \in objects THEN Fault ELSE UNCHANGED faults
  /\ Set(j, Counted([job[j] EXCEPT !.failed = @ + 1]))
  /\ raced' = raced \ {j}
  /\ UNCHANGED renders /\ NoSegment /\ InTable

Process(j) == Create(j) \/ Begin(j) \/ AssetFails(j) \/ Finish(j) \/ Stop(j) \/ Recover(j)

Next == \/ Upload
        \/ \E j \in Jobs : Process(j)
        \/ \E j \in VisionJobs : Extract(j) \/ ReadPosition(j) \/ CommitExtraction(j) \/ PositionTaken(j)
        \/ \E j \in RenderJobs : 
             \/ Skip(j) \/ ReadSegments(j) \/ Reuse(j) \/ Draw(j)
             \/ PutRender(j) \/ DrawFails(j) \/ CommitRender(j)
        \/ \E i \in DOMAIN segments : Translate(i)

Spec == Init /\ [][Next]_vars

----------------------------------------------------------------------------
(* No row without its object: the book's file, its images, what was rendered;*)
(* and no object without a row that a failure has not left.  The exception is*)
(* an upload that fails after its commit, in db.refresh: it deletes what the *)
(* rows name.                                                                *)
Named   == (IF book THEN {Source} \union Assets ELSE {})
             \union UNION {{renders[a][n].key : n \in DOMAIN renders[a]} : a \in Assets}
Pending == (IF book \/ UploadAt("end") THEN {} ELSE {Source} \union Assets)
             \union {job[j].key : j \in {r \in RenderJobs : At(r, "row")}}

RowsHaveObjects ==
  /\ unsure \/ Named \subseteq objects
  /\ objects \subseteq Named \union Pending \union leaked

(* A job that ends "completed" has done every asset, and one that ends       *)
(* "failed" none, unless it was delivered again: the columns go on counting, *)
(* and "All vision extractions failed" may be said of a job that failed at   *)
(* one asset in one delivery and at the other in the next.                   *)
DoneBy(j) == IF j \in VisionJobs
               THEN {a \in Assets : <<j, a>> \in extracted}
               ELSE {a \in Assets : OfMode(renders[a], job[j].mode) # {}}

VerdictsAreEarned ==
  \A j \in Jobs :
    /\ job[j].status = "completed" => DoneBy(j) = Assets
    /\ job[j].status = "failed" /\ job[j].deliveries = 1 => job[j].done = 0 /\ \A a \in Assets : <<j, a>> \notin extracted

(* Two live segments of an image with the same text come from one answer of  *)
(* the model: two jobs that extract the same image do not both add its text, *)
(* because the position that the later one has read is taken.  The exceptions*)
(* are the stray segments: the two reads of _create_figure_segments are not  *)
(* one, and a translation revives a segment that was superseded.             *)
FigureTextsAreUnique ==
  \A i, k \in DOMAIN segments \ stray :
    /\ segments[i].live /\ segments[k].live
    /\ segments[i].asset = segments[k].asset /\ segments[i].text = segments[k].text
    => segments[i].extraction = segments[k].extraction

(* A render job leaves, as the newest row of its mode, the one that shows the*)
(* texts and translations it has read, whether it draws or takes over a row: *)
(* also after the text has gone back to what it was before.                  *)
RendersAreCurrent ==
  [][\A j \in RenderJobs :
       job'[j].done > job[j].done /\ j \notin raced =>
         Latest(renders'[job[j].at], job[j].mode).regions = job[j].seen[1]]_vars
================================================================================
