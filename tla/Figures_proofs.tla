---------------------------- MODULE Figures_proofs ----------------------------
(***************************************************************************)
(* Proofs about Figures, for any number of images, texts, vision jobs,     *)
(* render jobs, modes, translations and failures.                          *)
(***************************************************************************)
EXTENDS Figures, FiniteSetTheorems, SequenceTheorems, TLAPS

-------------------------------------------------------------------------------
(* Types.                                                                    *)

Segment == [asset : Assets, text : Texts, translation : {0, 1, 2}, live : BOOLEAN,
            extraction : Nat]

(* What a fingerprint stands for: segments by their positions.               *)
Fingerprint == UNION {[S -> Segment] : S \in SUBSET Nat}

RenderRow == [mode : Modes, regions : Fingerprint, key : Nat]

Steps == {"idle", "enter", "extracted", "numbered", "latest", "draw", "row"}

JobRow ==
  [status : {"none", "queued", "running"} \union Closed, mode : Modes \union {"none"},
   done : Nat, failed : Nat, skipped : Nat, deliveries : Nat, pc : Steps, at : Nat,
   seen : Seq(Segment) \union (Fingerprint \X Nat), last : Nat, regions : SUBSET Texts, key : Nat]

FiguresTypeOK ==
  /\ upload \in [pc : {"save", "put", "refresh", "clean", "end"}, at : Int]
  /\ book \in BOOLEAN /\ unsure \in BOOLEAN
  /\ objects \in SUBSET Nat /\ leaked \in SUBSET Nat
  /\ segments \in Seq(Segment)
  /\ renders \in [Assets -> Seq(RenderRow)]
  /\ job \in [Jobs -> JobRow]
  /\ keys \in Nat /\ keys >= Images
  /\ extracted \in SUBSET (VisionJobs \X Assets) /\ raced \in SUBSET RenderJobs
  /\ stray \in SUBSET Nat /\ writes \in Nat /\ faults \in Nat

-------------------------------------------------------------------------------
(* The invariant.                                                            *)

Original == 0..Images     \* the keys of the file and its images

(* What an upload has stored so far, or still has to clean up.               *)
Uploading ==
  /\ upload.pc = "save" => objects = {} /\ leaked = {} /\ ~book
  /\ upload.pc = "put" => /\ ~book /\ leaked = {}
                          /\ upload.at >= 1 /\ upload.at <= Images + 1
                          /\ \A o \in objects : o < upload.at
  /\ upload.pc = "refresh" => book /\ upload.at = Images + 1
  /\ upload.pc = "clean" => /\ upload.at >= 0 /\ upload.at <= Images
                            /\ book => unsure
                            /\ ~book => \A o \in objects : o <= upload.at \/ o \in leaked
  /\ upload.pc = "end" /\ ~book => \A o \in objects : o \in leaked

(* The book's own objects are there when its rows are; while the images are   *)
(* put, those before the next one.                                           *)
KeepsBook ==
  /\ book /\ ~unsure => \A o \in Original : o \in objects
  /\ upload.pc = "put" => \A o \in Nat : o < upload.at => o \in objects

(* Before there is a book there are no jobs, and nothing is rendered.        *)
Unstarted == ~book => (\A j \in Jobs : job[j] = NoJob) /\ (\A a \in Assets : renders[a] = <<>>)

(* A rendered image is there, under a key of its own, from its put_bytes on. *)
RowKeys == \A a \in Assets : \A n \in DOMAIN renders[a] :
             renders[a][n].key \in objects /\ renders[a][n].key > Images

JobKeys == \A j \in Jobs : job[j].pc = "row" =>
             j \in RenderJobs /\ job[j].key \in objects /\ job[j].key > Images

(* Every object is accounted for.                                            *)
IsNamed(o) == \E a \in Assets : \E n \in DOMAIN renders[a] : renders[a][n].key = o
Covered    == \A o \in objects : \/ o \in Original \/ o \in leaked \/ IsNamed(o)
                                 \/ \E j \in RenderJobs : job[j].pc = "row" /\ job[j].key = o

(* A job h of its process, over the rows that are there.                      *)
Did(j, h, drawn, done) ==
  IF j \in VisionJobs THEN {a \in Assets : <<j, a>> \in done}
  ELSE {a \in Assets : OfMode(drawn[a], h.mode) # {}}

Placed(j, h, drawn) ==
  /\ h.pc # "idle" => h.status = "running" /\ h.deliveries >= 1
  /\ j \in RenderJobs /\ h.status # "none" => h.mode \in Modes
  /\ h.pc = "enter" => h.at >= 1 /\ h.at <= Images + 1
  /\ h.pc \in {"extracted", "numbered", "latest", "draw", "row"} => h.at \in Assets
  /\ h.pc \in {"extracted", "numbered"} => j \in VisionJobs
  /\ h.pc \in {"latest", "draw", "row"} => /\ j \in RenderJobs /\ h.seen \in Fingerprint \X Nat
                                 /\ h.seen[2] <= Len(drawn[h.at])

(* In its first delivery a job has counted every asset it has passed, once;  *)
Tallied(j, h, done) ==
  /\ h.status = "none" => h.deliveries = 0
  /\ h.deliveries = 0 => h.done = 0 /\ h.failed = 0 /\ h.skipped = 0
  /\ h.deliveries = 1 /\ h.pc # "idle" => h.done + h.failed + h.skipped = h.at - 1
  /\ h.done = 0 => \A a \in Assets : <<j, a>> \notin done
  /\ h.status = "failed" /\ h.deliveries = 1 => h.done = 0

(* in all of them together, what it has neither failed nor skipped is done.  *)
Earned(j, h, drawn, done) ==
  /\ h.pc # "idle" /\ h.failed = 0 /\ h.skipped = 0 =>
       \A a \in Assets : a < h.at => a \in Did(j, h, drawn, done)
  /\ h.status = "completed" => \A a \in Assets : a \in Did(j, h, drawn, done)

Loop(j, h, drawn, done) == Placed(j, h, drawn) /\ Tallied(j, h, done) /\ Earned(j, h, drawn, done)

FiguresInv ==
  /\ FiguresTypeOK
  /\ Uploading /\ KeepsBook /\ Unstarted /\ RowKeys /\ JobKeys /\ Covered
  /\ \A j \in Jobs : Loop(j, job[j], renders, extracted)

-------------------------------------------------------------------------------
(* Jobs.                                                                     *)

LEMMA AssetIs == \A a : a \in Assets <=> a \in Nat /\ a >= 1 /\ a <= Images
  BY FiguresAssumption DEF Assets

LEMMA NoJobType ==
  /\ NoJob \in JobRow /\ NoJob.pc = "idle" /\ NoJob.status = "none" /\ NoJob.deliveries = 0
  /\ NoJob.done = 0 /\ NoJob.failed = 0 /\ NoJob.skipped = 0
<1>1. <<>> \in Seq(Segment)
  OBVIOUS
<1>2. QED
  BY <1>1 DEF NoJob, JobRow, Steps

(* A job that has been created is one of a book.                             *)
LEMMA JobHasBook ==
  ASSUME FiguresInv, NEW j \in Jobs, job[j].pc # "idle" \/ job[j].status # "none"
  PROVE  book
  BY NoJobType DEF FiguresInv, Unstarted

(* More rows, and more extractions by other jobs, take nothing away.         *)
Grows(drawn, more) ==
  \A a \in Assets : /\ Len(drawn[a]) <= Len(more[a])
                    /\ \A m \in Modes : OfMode(drawn[a], m) # {} => OfMode(more[a], m) # {}

LEMMA GrowsItself ==
  ASSUME FiguresTypeOK
  PROVE  Grows(renders, renders)
<1>1. \A a \in Assets : Len(renders[a]) \in Nat
  BY LenProperties DEF FiguresTypeOK
<1>2. QED
  BY <1>1 DEF Grows

LEMMA LoopStays ==
  ASSUME FiguresTypeOK, NEW j \in Jobs, NEW h \in JobRow, Loop(j, h, renders, extracted),
         renders' \in [Assets -> Seq(RenderRow)], Grows(renders, renders'),
         \A a \in Assets : <<j, a>> \in extracted' <=> <<j, a>> \in extracted
  PROVE  Loop(j, h, renders', extracted')
<1>1. PICK R : R = renders'
  OBVIOUS
<1>2. PICK X : X = extracted'
  OBVIOUS
<1>3. j \in VisionJobs \/ j \in RenderJobs
  BY DEF Jobs
<1>4. Placed(j, h, renders)
  BY DEF Loop
<1>5. Placed(j, h, R)
  <2>1. CASE h.pc \in {"latest", "draw", "row"}
    <3>1. h.at \in Assets /\ h.seen[2] <= Len(renders[h.at]) /\ h.seen \in Fingerprint \X Nat
      BY <1>4, <2>1 DEF Placed
    <3>2. PICK n \in Nat : n = Len(renders[h.at])
      BY <3>1, LenProperties DEF FiguresTypeOK
    <3>3. PICK m \in Nat : m = Len(R[h.at])
      BY <1>1, <3>1, LenProperties
    <3>4. n <= m
      BY <1>1, <3>1, <3>2, <3>3 DEF Grows
    <3>5. PICK k \in Nat : k = h.seen[2]
      BY <3>1
    <3>6. h.seen[2] <= Len(R[h.at])
      BY <3>1, <3>2, <3>3, <3>4, <3>5
    <3>7. QED
      BY <1>4, <3>6 DEF Placed
  <2>2. CASE h.pc \notin {"latest", "draw", "row"}
    BY <1>4, <2>2 DEF Placed
  <2>3. QED
    BY <2>1, <2>2
<1>6. Tallied(j, h, X)
  BY <1>2 DEF Loop, Tallied
<1>7. Earned(j, h, R, X)
  <2>1. h.status # "none" => \A a \in Assets : a \in Did(j, h, renders, extracted) => a \in Did(j, h, R, X)
    <3>1. CASE j \in VisionJobs
      BY <1>2, <3>1 DEF Did
    <3>2. CASE j \notin VisionJobs
      <4>1. h.status # "none" => h.mode \in Modes
        BY <1>3, <1>4, <3>2 DEF Placed
      <4>2. QED
        BY <1>1, <3>2, <4>1 DEF Did, Grows
    <3>3. QED
      BY <3>1, <3>2
  <2>2. h.pc # "idle" => h.status # "none"
    BY <1>4 DEF Placed
  <2>3. h.status = "completed" => h.status # "none"
    OBVIOUS
  <2>4. QED
    BY <2>1, <2>2, <2>3 DEF Loop, Earned
<1>8. QED
  BY <1>1, <1>2, <1>5, <1>6, <1>7 DEF Loop

(* A job that is not at work, between two deliveries or after its last.      *)
LEMMA LoopRests ==
  ASSUME NEW j \in Jobs, NEW h \in JobRow, NEW g \in JobRow, NEW drawn, NEW done,
         Loop(j, h, drawn, done), g.pc = "idle", g.mode = h.mode, g.done = h.done,
         g.failed = h.failed, g.skipped = h.skipped, g.deliveries = h.deliveries,
         g.status = h.status \/ (g.status \in {"queued", "running"} /\ h.status # "none")
  PROVE  Loop(j, g, drawn, done)
<1>1. Placed(j, g, drawn)
  BY DEF Loop, Placed
<1>2. Tallied(j, g, done)
  BY DEF Loop, Tallied
<1>3. Earned(j, g, drawn, done)
  BY DEF Loop, Earned, Did
<1>4. QED
  BY <1>1, <1>2, <1>3 DEF Loop

(* A job that has read for the asset it is at.                               *)
LEMMA LoopReads ==
  ASSUME NEW j \in Jobs, NEW h \in JobRow, NEW g \in JobRow, NEW drawn, NEW done,
         Loop(j, h, drawn, done), h.pc # "idle", g.pc # "idle",
         g.mode = h.mode, g.done = h.done, g.failed = h.failed, g.skipped = h.skipped,
         g.deliveries = h.deliveries, g.status = h.status, g.at = h.at, h.at \in Assets,
         g.pc \in {"extracted", "numbered", "latest", "draw", "row"},
         g.pc \in {"extracted", "numbered"} => j \in VisionJobs,
         g.pc \in {"latest", "draw", "row"} => /\ j \in RenderJobs /\ g.seen \in Fingerprint \X Nat
                                     /\ g.seen[2] <= Len(drawn[g.at])
  PROVE  Loop(j, g, drawn, done)
<1>1. Placed(j, g, drawn)
  BY DEF Loop, Placed
<1>2. Tallied(j, g, done)
  BY DEF Loop, Tallied
<1>3. Earned(j, g, drawn, done)
  BY DEF Loop, Earned, Did
<1>4. QED
  BY <1>1, <1>2, <1>3 DEF Loop

(* A job that has counted the asset it was at.                               *)
LEMMA LoopCounts ==
  ASSUME NEW j \in Jobs, NEW h \in JobRow, NEW g \in JobRow, NEW drawn, NEW done, NEW more, NEW all,
         Loop(j, h, drawn, done), h.pc # "idle", h.at \in Assets,
         g.pc = "enter", g.at = h.at + 1, g.status = h.status, g.mode = h.mode,
         g.deliveries = h.deliveries,
         \A a \in Assets : a \in Did(j, h, drawn, done) => a \in Did(j, g, more, all),
         \/ /\ g.done = h.done + 1 /\ g.failed = h.failed /\ g.skipped = h.skipped
            /\ h.at \in Did(j, g, more, all)
         \/ /\ g.done = h.done /\ g.failed = h.failed + 1 /\ g.skipped = h.skipped
            /\ \A a \in Assets : <<j, a>> \in all => <<j, a>> \in done
         \/ /\ g.done = h.done /\ g.failed = h.failed /\ g.skipped = h.skipped + 1
            /\ \A a \in Assets : <<j, a>> \in all => <<j, a>> \in done
  PROVE  Loop(j, g, more, all)
<1>1. /\ h.done \in Nat /\ h.failed \in Nat /\ h.skipped \in Nat /\ h.deliveries \in Nat
      /\ h.at \in Nat /\ h.at >= 1 /\ h.at <= Images /\ Images \in Nat
  BY AssetIs, FiguresAssumption DEF JobRow
<1>2. Placed(j, h, drawn) /\ Tallied(j, h, done) /\ Earned(j, h, drawn, done)
  BY DEF Loop
<1>3. h.status = "running" /\ h.deliveries >= 1
  BY <1>2 DEF Placed
<1>4. Placed(j, g, more)
  BY <1>1, <1>2 DEF Placed
<1>5. Tallied(j, g, all)
  <2>1. g.deliveries # 0 /\ g.status # "failed" /\ g.status # "none"
    BY <1>1, <1>3
  <2>2. g.deliveries = 1 => g.done + g.failed + g.skipped = g.at - 1
    <3>1. h.deliveries = 1 => h.done + h.failed + h.skipped = h.at - 1
      BY <1>2 DEF Tallied
    <3>2. QED
      BY <1>1, <3>1
  <2>3. g.done = 0 => \A a \in Assets : <<j, a>> \notin all
    <3>1. g.done = h.done + 1 => g.done # 0
      BY <1>1
    <3>2. h.done = 0 => \A a \in Assets : <<j, a>> \notin done
      BY <1>2 DEF Tallied
    <3>3. QED
      BY <3>1, <3>2
  <2>4. QED
    BY <2>1, <2>2, <2>3 DEF Tallied
<1>6. Earned(j, g, more, all)
  <2>1. ASSUME g.failed = 0, g.skipped = 0, NEW a \in Assets, a < g.at
        PROVE  a \in Did(j, g, more, all)
    <3>1. g.failed # h.failed + 1 /\ g.skipped # h.skipped + 1
      BY <1>1, <2>1
    <3>2. h.failed = 0 /\ h.skipped = 0 /\ h.at \in Did(j, g, more, all)
      BY <2>1, <3>1
    <3>3. CASE a = h.at
      BY <3>2, <3>3
    <3>4. CASE a # h.at
      <4>1. a < h.at
        BY <1>1, <2>1, <3>4, AssetIs
      <4>2. a \in Did(j, h, drawn, done)
        BY <1>2, <3>2, <4>1 DEF Earned
      <4>3. QED
        BY <4>2
    <3>5. QED
      BY <3>3, <3>4
  <2>2. g.status # "completed"
    BY <1>3
  <2>3. QED
    BY <2>1, <2>2 DEF Earned
<1>7. QED
  BY <1>4, <1>5, <1>6 DEF Loop

-------------------------------------------------------------------------------
(* A step of one job, which becomes h.                                       *)

LEMMA JobMoves ==
  ASSUME FiguresInv, NEW j \in Jobs, NEW h \in JobRow, Set(j, h), book,
         UNCHANGED <<upload, book, unsure>>,
         \A o \in objects : o \in objects',
         \A o \in leaked : o \in leaked',
         \A o \in objects' : o \in objects \/ (o > Images /\ h.pc = "row" /\ h.key = o /\ j \in RenderJobs),
         RowKeys', Grows(renders, renders'),
         \A a \in Assets : \A n \in DOMAIN renders[a] : \E m \in DOMAIN renders'[a] : renders'[a][m] = renders[a][n],
         h.pc = "row" => j \in RenderJobs /\ h.key \in objects' /\ h.key > Images,
         job[j].pc = "row" => \/ h.pc = "row" /\ h.key = job[j].key
                              \/ job[j].key \in leaked'
                              \/ \E a \in Assets : \E n \in DOMAIN renders'[a] : renders'[a][n].key = job[j].key,
         \A q \in Jobs : q # j => \A a \in Assets : <<q, a>> \in extracted' <=> <<q, a>> \in extracted,
         Loop(j, h, renders', extracted'),
         objects' \in SUBSET Nat, leaked' \in SUBSET Nat, segments' \in Seq(Segment),
         renders' \in [Assets -> Seq(RenderRow)], keys' \in Nat, keys' >= Images,
         extracted' \in SUBSET (VisionJobs \X Assets), raced' \in SUBSET RenderJobs,
         stray' \in SUBSET Nat, writes' \in Nat, faults' \in Nat
  PROVE  FiguresInv'
<1>1. job \in [Jobs -> JobRow] /\ job' = [job EXCEPT ![j] = h]
  BY DEF FiguresInv, FiguresTypeOK, Set
<1>2. job'[j] = h /\ \A q \in Jobs : q # j => job'[q] = job[q]
  BY <1>1
<1>3. FiguresTypeOK'
  BY <1>1 DEF FiguresInv, FiguresTypeOK
<1>4. ASSUME NEW q \in Jobs PROVE Loop(q, job'[q], renders', extracted')
  <2>1. CASE q = j
    BY <1>2, <2>1
  <2>2. CASE q # j
    <3>1. PICK g \in JobRow : g = job[q] /\ g = job'[q] /\ Loop(q, g, renders, extracted)
      BY <1>1, <1>2, <2>2 DEF FiguresInv
    <3>2. Loop(q, g, renders', extracted')
      BY <2>2, <3>1, LoopStays DEF FiguresInv
    <3>3. QED
      BY <3>1, <3>2
  <2>3. QED
    BY <2>1, <2>2
<1>5. Uploading'
  BY DEF FiguresInv, Uploading
<1>6. KeepsBook'
  BY DEF FiguresInv, Uploading, KeepsBook
<1>7. Unstarted'
  BY DEF Unstarted
<1>8. JobKeys'
  <2>1. ASSUME NEW q \in Jobs, job'[q].pc = "row"
        PROVE  q \in RenderJobs /\ job'[q].key \in objects' /\ job'[q].key > Images
    BY <1>2, <2>1 DEF FiguresInv, JobKeys
  <2>2. QED
    BY <2>1 DEF JobKeys
<1>9. Covered'
  <2>1. ASSUME NEW o \in objects'
        PROVE  \/ o \in Original \/ o \in leaked'
               \/ \E a \in Assets : \E n \in DOMAIN renders'[a] : renders'[a][n].key = o
               \/ \E q \in RenderJobs : job'[q].pc = "row" /\ job'[q].key = o
    <3>1. CASE o \notin objects
      BY <1>2, <2>1, <3>1
    <3>2. CASE o \in objects
      <4>1. \/ o \in Original \/ o \in leaked
            \/ \E a \in Assets : \E n \in DOMAIN renders[a] : renders[a][n].key = o
            \/ \E q \in RenderJobs : job[q].pc = "row" /\ job[q].key = o
        BY <3>2 DEF FiguresInv, Covered, IsNamed
      <4>2. CASE \E a \in Assets : \E n \in DOMAIN renders[a] : renders[a][n].key = o
        <5>1. PICK a \in Assets : \E n \in DOMAIN renders[a] : renders[a][n].key = o
          BY <4>2
        <5>2. PICK n \in DOMAIN renders[a] : renders[a][n].key = o
          BY <5>1
        <5>3. PICK m \in DOMAIN renders'[a] : renders'[a][m] = renders[a][n]
          BY <5>2
        <5>4. renders'[a][m].key = o
          BY <5>2, <5>3
        <5>5. QED
          BY <5>4
      <4>3. CASE \E q \in RenderJobs : job[q].pc = "row" /\ job[q].key = o
        <5>1. PICK q \in RenderJobs : job[q].pc = "row" /\ job[q].key = o
          BY <4>3
        <5>2. q \in Jobs
          BY DEF Jobs
        <5>3. CASE q # j
          BY <1>2, <5>1, <5>2, <5>3
        <5>4. CASE q = j
          BY <1>2, <5>1, <5>4
        <5>5. QED
          BY <5>3, <5>4
      <4>4. QED
        BY <4>1, <4>2, <4>3
    <3>3. QED
      BY <3>1, <3>2
  <2>2. QED
    BY <2>1 DEF Covered, IsNamed
<1>10. QED
  BY <1>3, <1>4, <1>5, <1>6, <1>7, <1>8, <1>9 DEF FiguresInv

(* A step that neither stores nor renders nor extracts.                      *)
LEMMA JobTurns ==
  ASSUME FiguresInv, NEW j \in Jobs, NEW h \in JobRow, Set(j, h), book,
         UNCHANGED <<upload, book, objects, unsure, segments, renders, keys, extracted, stray, writes>>,
         faults' \in Nat, raced' \in SUBSET RenderJobs, leaked' \in SUBSET Nat,
         \A o \in leaked : o \in leaked',
         h.pc # "row",
         job[j].pc = "row" => job[j].key \in leaked',
         Loop(j, h, renders, extracted)
  PROVE  FiguresInv'
<1>1. RowKeys'
  BY DEF FiguresInv, RowKeys
<1>2. Grows(renders, renders')
  BY GrowsItself DEF FiguresInv
<1>3. /\ objects' \in SUBSET Nat /\ segments' \in Seq(Segment)
      /\ renders' \in [Assets -> Seq(RenderRow)] /\ keys' \in Nat /\ keys' >= Images
      /\ extracted' \in SUBSET (VisionJobs \X Assets) /\ stray' \in SUBSET Nat /\ writes' \in Nat
  BY DEF FiguresInv, FiguresTypeOK
<1>4. Loop(j, h, renders', extracted')
  OBVIOUS
<1>5. QED
  BY <1>1, <1>2, <1>3, <1>4, JobMoves

-------------------------------------------------------------------------------
(* The steps of a job.                                                       *)

LEMMA IdleIs ==
  ASSUME NEW h \in JobRow
  PROVE  /\ Idle(h) \in JobRow
         /\ Idle(h).pc = "idle" /\ Idle(h).at = h.at /\ Idle(h).status = h.status
         /\ Idle(h).mode = h.mode /\ Idle(h).deliveries = h.deliveries
         /\ Idle(h).done = h.done /\ Idle(h).failed = h.failed /\ Idle(h).skipped = h.skipped
<1>1. <<>> \in Seq(Segment)
  OBVIOUS
<1>2. QED
  BY <1>1 DEF Idle, JobRow, Steps

LEMMA CountedIs ==
  ASSUME NEW h \in JobRow
  PROVE  /\ Counted(h) \in JobRow
         /\ Counted(h).pc = "enter" /\ Counted(h).at = h.at + 1 /\ Counted(h).status = h.status
         /\ Counted(h).mode = h.mode /\ Counted(h).deliveries = h.deliveries
         /\ Counted(h).done = h.done /\ Counted(h).failed = h.failed /\ Counted(h).skipped = h.skipped
<1>1. PICK i \in JobRow : /\ i = Idle(h) /\ i.at = h.at /\ i.status = h.status /\ i.mode = h.mode
                          /\ i.deliveries = h.deliveries /\ i.done = h.done
                          /\ i.failed = h.failed /\ i.skipped = h.skipped
  BY IdleIs
<1>2. PICK n \in Nat : n = h.at + 1
  BY DEF JobRow
<1>3. PICK g : g = Counted(h)
  OBVIOUS
<1>4. g = [i EXCEPT !.pc = "enter", !.at = n]
  BY <1>1, <1>2, <1>3 DEF Counted
<1>5. g \in JobRow
  BY <1>2, <1>4 DEF JobRow, Steps
<1>6. /\ g.pc = "enter" /\ g.at = n /\ g.status = i.status /\ g.mode = i.mode
      /\ g.deliveries = i.deliveries /\ g.done = i.done /\ g.failed = i.failed /\ g.skipped = i.skipped
  BY <1>4 DEF JobRow
<1>7. QED
  BY <1>1, <1>2, <1>3, <1>5, <1>6

(* The row of a job, and what the invariant says of it.                      *)
LEMMA JobIs ==
  ASSUME FiguresInv, NEW j \in Jobs
  PROVE  /\ job[j] \in JobRow /\ Loop(j, job[j], renders, extracted)
         /\ faults \in Nat /\ raced \in SUBSET RenderJobs /\ leaked \in SUBSET Nat
         /\ job[j].pc = "row" => j \in RenderJobs /\ job[j].key \in Nat
         /\ job[j].pc \in {"extracted", "numbered", "latest", "draw", "row"} => job[j].at \in Assets
         /\ job[j].pc = "enter" /\ job[j].at <= Images => job[j].at \in Assets
<1>1. /\ job[j] \in JobRow /\ Loop(j, job[j], renders, extracted)
      /\ faults \in Nat /\ raced \in SUBSET RenderJobs /\ leaked \in SUBSET Nat
  BY DEF FiguresInv, FiguresTypeOK
<1>2. job[j].pc = "row" => j \in RenderJobs /\ job[j].key \in Nat
  BY <1>1 DEF FiguresInv, JobKeys, JobRow
<1>3. job[j].pc \in {"extracted", "numbered", "latest", "draw", "row"} => job[j].at \in Assets
  BY <1>1 DEF Loop, Placed
<1>4. job[j].pc = "enter" /\ job[j].at <= Images => job[j].at \in Assets
  BY <1>1, AssetIs DEF Loop, Placed, JobRow
<1>5. QED
  BY <1>1, <1>2, <1>3, <1>4

(* An asset that was skipped, or at which the job failed.                    *)
LEMMA JobCounts ==
  ASSUME FiguresInv, NEW j \in Jobs, NEW h, Set(j, Counted(h)), job[j].pc # "idle", job[j].at \in Assets,
         \/ h = [job[j] EXCEPT !.failed = @ + 1]
         \/ h = [job[j] EXCEPT !.skipped = @ + 1],
         UNCHANGED <<stored, unsure, segments, renders, keys, extracted, stray, writes>>,
         faults' \in Nat, raced' \in SUBSET RenderJobs, leaked' \in SUBSET Nat,
         \A o \in leaked : o \in leaked',
         job[j].pc = "row" => job[j].key \in leaked'
  PROVE  FiguresInv'
<1>1. PICK x \in JobRow : x = job[j] /\ Loop(j, x, renders, extracted)
  BY JobIs
<1>2. /\ h \in JobRow /\ h.at = x.at /\ h.status = x.status /\ h.mode = x.mode
      /\ h.deliveries = x.deliveries /\ h.done = x.done
      /\ \/ h.failed = x.failed + 1 /\ h.skipped = x.skipped
         \/ h.failed = x.failed /\ h.skipped = x.skipped + 1
  <2>1. PICK f \in Nat, s \in Nat : f = x.failed + 1 /\ s = x.skipped + 1
    BY DEF JobRow
  <2>2. h = [x EXCEPT !.failed = f] \/ h = [x EXCEPT !.skipped = s]
    BY <1>1, <2>1
  <2>3. QED
    BY <2>1, <2>2 DEF JobRow
<1>3. PICK g \in JobRow : g = Counted(h) /\ g.pc = "enter" /\ g.at = h.at + 1 /\ g.status = h.status
                          /\ g.mode = h.mode /\ g.deliveries = h.deliveries
                          /\ g.done = h.done /\ g.failed = h.failed /\ g.skipped = h.skipped
  BY <1>2, CountedIs
<1>4. \A a \in Assets : a \in Did(j, x, renders, extracted) => a \in Did(j, g, renders, extracted)
  BY <1>2, <1>3 DEF Did
<1>5. x.pc # "idle" /\ x.at \in Assets /\ g.at = x.at + 1
  BY <1>1, <1>2, <1>3
<1>6. Loop(j, g, renders, extracted)
  BY <1>1, <1>2, <1>3, <1>4, <1>5, LoopCounts
<1>7. book
  BY JobHasBook
<1>8. Set(j, g) /\ g.pc # "row"
  BY <1>3
<1>9. QED
  BY <1>6, <1>7, <1>8, JobTurns DEF stored

LEMMA CreateKeeps ==
  ASSUME FiguresInv, NEW j \in Jobs, Create(j)
  PROVE  FiguresInv'
<1>1. PICK mode \in IF j \in RenderJobs THEN Modes ELSE {"none"} :
        Set(j, [NoJob EXCEPT !.status = "queued", !.mode = mode])
  BY DEF Create
<1>2. book /\ job[j].status = "none"
  BY DEF Create
<1>3. PICK x \in JobRow : x = job[j] /\ Loop(j, x, renders, extracted)
  BY JobIs
<1>4. x.pc # "row"
  BY <1>2, <1>3 DEF Loop, Placed
<1>5. PICK h : h = [NoJob EXCEPT !.status = "queued", !.mode = mode]
  OBVIOUS
<1>6. mode \in Modes \union {"none"} /\ (j \in RenderJobs => mode \in Modes)
  BY <1>1
<1>7. /\ h \in JobRow /\ h.pc = "idle" /\ h.status = "queued" /\ h.mode = mode /\ h.deliveries = 0
      /\ h.done = 0 /\ h.failed = 0 /\ h.skipped = 0
  BY <1>5, <1>6, NoJobType DEF JobRow
<1>8. Placed(j, h, renders)
  BY <1>6, <1>7 DEF Placed
<1>9. Tallied(j, h, extracted)
  BY <1>2, <1>3, <1>7 DEF Loop, Tallied
<1>10. Earned(j, h, renders, extracted)
  BY <1>7 DEF Earned
<1>11. Loop(j, h, renders, extracted)
  BY <1>8, <1>9, <1>10 DEF Loop
<1>12. QED
  BY <1>1, <1>2, <1>3, <1>4, <1>5, <1>7, <1>11, JobIs, JobTurns DEF Create, InTable, NoSegment, stored

LEMMA BeginKeeps ==
  ASSUME FiguresInv, NEW j \in Jobs, Begin(j)
  PROVE  FiguresInv'
<1>1. PICK x \in JobRow : x = job[j] /\ Loop(j, x, renders, extracted)
  BY JobIs
<1>2. x.pc = "idle" /\ x.status \in {"queued", "running"}
  BY <1>1 DEF Begin, At
<1>3. PICK h : h = [job[j] EXCEPT !.status = "running", !.pc = "enter", !.at = 1, !.deliveries = @ + 1]
  OBVIOUS
<1>4. /\ h \in JobRow /\ h.pc = "enter" /\ h.status = "running" /\ h.at = 1 /\ h.mode = x.mode
      /\ h.deliveries = x.deliveries + 1 /\ h.done = x.done /\ h.failed = x.failed /\ h.skipped = x.skipped
  <2>1. PICK n \in Nat : n = x.deliveries + 1
    BY DEF JobRow
  <2>2. h = [x EXCEPT !.status = "running", !.pc = "enter", !.at = 1, !.deliveries = n]
    BY <1>1, <1>3, <2>1
  <2>3. QED
    BY <2>1, <2>2 DEF JobRow, Steps
<1>5. Images \in Nat /\ Images >= 1 /\ x.deliveries \in Nat
  BY FiguresAssumption DEF JobRow
<1>6. Placed(j, h, renders)
  BY <1>1, <1>2, <1>4, <1>5 DEF Loop, Placed
<1>7. Tallied(j, h, extracted)
  <2>1. h.deliveries # 0 /\ (h.deliveries = 1 => x.deliveries = 0)
    BY <1>4, <1>5
  <2>2. h.deliveries = 1 => h.done + h.failed + h.skipped = h.at - 1
    BY <1>1, <1>4, <2>1 DEF Loop, Tallied
  <2>3. QED
    BY <1>1, <1>4, <2>1, <2>2 DEF Loop, Tallied
<1>8. Earned(j, h, renders, extracted)
  BY <1>4, AssetIs DEF Earned
<1>9. Loop(j, h, renders, extracted)
  BY <1>6, <1>7, <1>8 DEF Loop
<1>10. book
  BY <1>1, <1>2, JobHasBook
<1>11. QED
  BY <1>1, <1>2, <1>3, <1>4, <1>9, <1>10, JobIs, JobTurns DEF Begin, InTable, NoSegment, stored

(* The end of the loop, where the columns say what became of every asset.    *)
LEMMA VerdictIs ==
  ASSUME NEW j \in Jobs, job[j] \in JobRow
  PROVE  /\ Verdict(j) \in Closed
         /\ Verdict(j) = "completed" => job[j].failed = 0 /\ job[j].skipped = 0
         /\ Verdict(j) = "failed" => job[j].failed = Images
<1>1. job[j].failed \in Nat /\ job[j].skipped \in Nat /\ Images \in Nat \ {0}
  BY FiguresAssumption DEF JobRow
<1>2. QED
  BY <1>1 DEF Verdict, Closed

LEMMA FinishKeeps ==
  ASSUME FiguresInv, NEW j \in Jobs, Finish(j)
  PROVE  FiguresInv'
<1>1. PICK x \in JobRow : x = job[j] /\ Loop(j, x, renders, extracted)
  BY JobIs
<1>2. x.pc = "enter" /\ x.at > Images
  BY <1>1 DEF Finish, At
<1>3. PICK v \in Closed : /\ v = Verdict(j)
                          /\ v = "completed" => x.failed = 0 /\ x.skipped = 0
                          /\ v = "failed" => x.failed = Images
  BY <1>1, VerdictIs
<1>4. PICK h : h = [job[j] EXCEPT !.status = v, !.pc = "idle"]
  OBVIOUS
<1>5. /\ h \in JobRow /\ h.pc = "idle" /\ h.status = v /\ h.mode = x.mode
      /\ h.deliveries = x.deliveries /\ h.done = x.done /\ h.failed = x.failed /\ h.skipped = x.skipped
  BY <1>1, <1>3, <1>4 DEF JobRow, Steps
<1>6. /\ Images \in Nat /\ Images >= 1 /\ x.at \in Nat /\ x.at = Images + 1
      /\ x.done \in Nat /\ x.failed \in Nat /\ x.skipped \in Nat /\ x.deliveries >= 1
      /\ x.status = "running"
  BY <1>1, <1>2, FiguresAssumption DEF JobRow, Loop, Placed
<1>7. Placed(j, h, renders)
  BY <1>1, <1>5, <1>6 DEF Loop, Placed
<1>8. Tallied(j, h, extracted)
  <2>1. v \notin {"none"}
    BY <1>3 DEF Closed
  <2>2. x.deliveries = 1 => x.done + x.failed + x.skipped = x.at - 1
    BY <1>1, <1>2 DEF Loop, Tallied
  <2>3. v = "failed" /\ x.deliveries = 1 => x.done = 0
    BY <1>3, <1>6, <2>2
  <2>4. QED
    BY <1>1, <1>5, <2>1, <2>3 DEF Loop, Tallied
<1>9. Earned(j, h, renders, extracted)
  <2>1. ASSUME v = "completed", NEW a \in Assets PROVE a \in Did(j, h, renders, extracted)
    <3>1. a < x.at
      BY <1>6, AssetIs
    <3>2. a \in Did(j, x, renders, extracted)
      BY <1>1, <1>2, <1>3, <2>1, <3>1 DEF Loop, Earned
    <3>3. QED
      BY <1>5, <3>2 DEF Did
  <2>2. QED
    BY <1>5, <2>1 DEF Earned
<1>10. Loop(j, h, renders, extracted)
  BY <1>7, <1>8, <1>9 DEF Loop
<1>11. book
  BY <1>1, <1>2, JobHasBook
<1>12. QED
  BY <1>1, <1>2, <1>3, <1>4, <1>5, <1>10, <1>11, JobIs, JobTurns DEF Finish, InTable, NoSegment, stored

LEMMA StopKeeps ==
  ASSUME FiguresInv, NEW j \in Jobs, Stop(j)
  PROVE  FiguresInv'
<1>1. PICK x \in JobRow : x = job[j] /\ Loop(j, x, renders, extracted)
  BY JobIs
<1>2. PICK h \in JobRow : h = Idle(job[j])
  BY <1>1, IdleIs
<1>4. /\ h.pc = "idle" /\ h.status = x.status /\ h.mode = x.mode
      /\ h.deliveries = x.deliveries /\ h.done = x.done /\ h.failed = x.failed /\ h.skipped = x.skipped
  BY <1>1, <1>2, IdleIs
<1>5. Loop(j, h, renders, extracted)
  BY <1>1, <1>4, LoopRests
<1>6. /\ faults' \in Nat /\ raced' \in SUBSET RenderJobs /\ leaked' \in SUBSET Nat
      /\ \A o \in leaked : o \in leaked'
      /\ job[j].pc = "row" => job[j].key \in leaked'
  BY JobIs DEF Stop, Fault, At
<1>7. book
  BY JobHasBook DEF Stop, At
<1>8. QED
  BY <1>2, <1>4, <1>5, <1>6, <1>7, JobTurns DEF Stop, NoSegment, stored

LEMMA RecoverKeeps ==
  ASSUME FiguresInv, NEW j \in Jobs, Recover(j)
  PROVE  FiguresInv'
<1>1. PICK x \in JobRow : x = job[j] /\ Loop(j, x, renders, extracted)
  BY JobIs
<1>2. x.pc = "idle" /\ x.status = "running"
  BY <1>1 DEF Recover, At
<1>3. PICK h : h = [job[j] EXCEPT !.status = "queued"]
  OBVIOUS
<1>4. /\ h \in JobRow /\ h.pc = "idle" /\ h.status = "queued" /\ h.mode = x.mode
      /\ h.deliveries = x.deliveries /\ h.done = x.done /\ h.failed = x.failed /\ h.skipped = x.skipped
  BY <1>1, <1>2, <1>3 DEF JobRow
<1>5. Loop(j, h, renders, extracted)
  BY <1>1, <1>2, <1>4, LoopRests
<1>6. book
  BY <1>1, <1>2, JobHasBook
<1>7. QED
  BY <1>1, <1>2, <1>3, <1>4, <1>5, <1>6, JobIs, JobTurns DEF Recover, InTable, NoSegment, stored

LEMMA PositionTakenKeeps ==
  ASSUME FiguresInv, NEW j \in Jobs, PositionTaken(j)
  PROVE  FiguresInv'
<1>1. PICK x \in JobRow : x = job[j] /\ Loop(j, x, renders, extracted)
  BY JobIs
<1>2. x.pc = "numbered"
  BY <1>1 DEF PositionTaken, At
<1>3. PICK h \in JobRow : h = Idle(job[j])
  BY <1>1, IdleIs
<1>5. /\ h.pc = "idle" /\ h.status = x.status /\ h.mode = x.mode
      /\ h.deliveries = x.deliveries /\ h.done = x.done /\ h.failed = x.failed /\ h.skipped = x.skipped
  BY <1>1, <1>3, IdleIs
<1>6. Loop(j, h, renders, extracted)
  BY <1>1, <1>5, LoopRests
<1>7. book
  BY <1>1, <1>2, JobHasBook
<1>8. QED
  BY <1>1, <1>2, <1>3, <1>5, <1>6, <1>7, JobIs, JobTurns DEF PositionTaken, InTable, NoSegment, stored

LEMMA ExtractKeeps ==
  ASSUME FiguresInv, NEW j \in VisionJobs, Extract(j)
  PROVE  FiguresInv'
<1> j \in Jobs
  BY DEF Jobs
<1>1. PICK x \in JobRow : x = job[j] /\ Loop(j, x, renders, extracted)
  BY JobIs
<1>2. x.pc = "enter" /\ x.at \in Assets
  BY <1>1 DEF Extract, At
<1>3. PICK regions \in SUBSET Texts :
        Set(j, [job[j] EXCEPT !.pc = "extracted", !.regions = regions, !.seen = segments])
  BY DEF Extract
<1>4. PICK h : h = [job[j] EXCEPT !.pc = "extracted", !.regions = regions, !.seen = segments]
  OBVIOUS
<1>5. segments \in Seq(Segment)
  BY DEF FiguresInv, FiguresTypeOK
<1>6. /\ h \in JobRow /\ h.pc = "extracted" /\ h.status = x.status /\ h.mode = x.mode /\ h.at = x.at
      /\ h.deliveries = x.deliveries /\ h.done = x.done /\ h.failed = x.failed /\ h.skipped = x.skipped
  BY <1>1, <1>3, <1>4, <1>5 DEF JobRow, Steps
<1>7. Loop(j, h, renders, extracted)
  BY <1>1, <1>2, <1>6, LoopReads
<1>8. book
  BY <1>1, <1>2, JobHasBook
<1>9. QED
  BY <1>1, <1>2, <1>3, <1>4, <1>6, <1>7, <1>8, JobIs, JobTurns DEF Extract, InTable, NoSegment, stored

LEMMA ReadPositionKeeps ==
  ASSUME FiguresInv, NEW j \in VisionJobs, ReadPosition(j)
  PROVE  FiguresInv'
<1> j \in Jobs
  BY DEF Jobs
<1>1. PICK x \in JobRow : x = job[j] /\ Loop(j, x, renders, extracted)
  BY JobIs
<1>2. x.pc = "extracted" /\ x.at \in Assets
  BY <1>1, JobIs DEF ReadPosition, At
<1>3. PICK n \in Nat : n = Len(segments)
  BY LenProperties DEF FiguresInv, FiguresTypeOK
<1>4. PICK h : h = [job[j] EXCEPT !.pc = "numbered", !.last = n]
  OBVIOUS
<1>5. Set(j, h)
  BY <1>3, <1>4 DEF ReadPosition
<1>6. /\ h \in JobRow /\ h.pc = "numbered" /\ h.status = x.status /\ h.mode = x.mode /\ h.at = x.at
      /\ h.deliveries = x.deliveries /\ h.done = x.done /\ h.failed = x.failed /\ h.skipped = x.skipped
  BY <1>1, <1>3, <1>4 DEF JobRow, Steps
<1>7. Loop(j, h, renders, extracted)
  BY <1>1, <1>2, <1>6, LoopReads
<1>8. book
  BY <1>1, <1>2, JobHasBook
<1>9. QED
  BY <1>1, <1>2, <1>5, <1>6, <1>7, <1>8, JobIs, JobTurns DEF ReadPosition, InTable, NoSegment, stored

LEMMA SkipKeeps ==
  ASSUME FiguresInv, NEW j \in Jobs, Skip(j)
  PROVE  FiguresInv'
<1>1. job[j].pc = "enter" /\ job[j].at \in Assets
  BY JobIs DEF Skip, At
<1>2. PICK h : h = [job[j] EXCEPT !.skipped = @ + 1] /\ Set(j, Counted(h))
  BY DEF Skip
<1>3. QED
  BY <1>1, <1>2, JobIs, JobCounts DEF Skip, InTable, NoSegment

LEMMA DrawFailsKeeps ==
  ASSUME FiguresInv, NEW j \in Jobs, DrawFails(j)
  PROVE  FiguresInv'
<1>1. job[j].pc \in {"latest", "draw", "row"} /\ job[j].at \in Assets
  BY JobIs DEF DrawFails, At
<1>2. PICK h : h = [job[j] EXCEPT !.failed = @ + 1] /\ Set(j, Counted(h))
  BY DEF DrawFails
<1>3. /\ faults' \in Nat /\ raced' \in SUBSET RenderJobs /\ leaked' \in SUBSET Nat
      /\ \A o \in leaked : o \in leaked'
      /\ job[j].pc = "row" => job[j].key \in leaked'
  BY JobIs DEF DrawFails, Fault, At
<1>4. QED
  BY <1>1, <1>2, <1>3, JobCounts DEF DrawFails, NoSegment

LEMMA AssetFailsKeeps ==
  ASSUME FiguresInv, NEW j \in Jobs, AssetFails(j)
  PROVE  FiguresInv'
<1>1. job[j].pc \in {"enter", "latest"} /\ job[j].at \in Assets
  BY JobIs DEF AssetFails, At
<1>2. PICK h : h = [job[j] EXCEPT !.failed = @ + 1] /\ Set(j, Counted(h))
  BY DEF AssetFails
<1>3. faults' \in Nat /\ raced' \in SUBSET RenderJobs
  BY JobIs DEF AssetFails, Fault
<1>4. QED
  BY <1>1, <1>2, <1>3, JobIs, JobCounts DEF AssetFails, InTable, NoSegment

-------------------------------------------------------------------------------
(* The steps that read, store, render and extract.                           *)

LEMMA SegmentsAre ==
  ASSUME FiguresInv
  PROVE  /\ segments \in Seq(Segment) /\ Len(segments) \in Nat /\ DOMAIN segments = 1..Len(segments)
         /\ \A i \in DOMAIN segments : segments[i] \in Segment
  BY LenProperties DEF FiguresInv, FiguresTypeOK

LEMMA RowsAre ==
  ASSUME FiguresInv, NEW a \in Assets
  PROVE  /\ renders[a] \in Seq(RenderRow) /\ Len(renders[a]) \in Nat
         /\ DOMAIN renders[a] = 1..Len(renders[a])
         /\ \A i \in DOMAIN renders[a] : renders[a][i] \in RenderRow
  BY LenProperties DEF FiguresInv, FiguresTypeOK

LEMMA RegionsType ==
  ASSUME FiguresInv, NEW a \in Assets
  PROVE  Regions(a) \in Fingerprint
<1>1. LiveOf(a) \in SUBSET Nat /\ \A i \in LiveOf(a) : segments[i] \in Segment
  BY SegmentsAre DEF LiveOf, OfAsset
<1>2. Regions(a) \in [LiveOf(a) -> Segment]
  BY <1>1 DEF Regions
<1>3. QED
  BY <1>1, <1>2 DEF Fingerprint

LEMMA ReuseKeeps ==
  ASSUME FiguresInv, NEW j \in RenderJobs, Reuse(j)
  PROVE  FiguresInv'
<1> j \in Jobs /\ j \notin VisionJobs
  BY FiguresAssumption DEF Jobs
<1>1. PICK x \in JobRow : x = job[j] /\ Loop(j, x, renders, extracted)
  BY JobIs
<1>2. x.pc = "latest" /\ x.at \in Assets
  BY <1>1, JobIs DEF Reuse, At
<1>3. book
  BY <1>1, <1>2, JobHasBook
<1>4. OfMode(renders[x.at], x.mode) # {}
  BY <1>1 DEF Reuse, Reusable
<1>5. PICK h : h = [job[j] EXCEPT !.done = @ + 1] /\ Set(j, Counted(h))
  BY DEF Reuse
<1>6. PICK n \in Nat : n = x.done + 1
  BY DEF JobRow
<1>7. h = [x EXCEPT !.done = n]
  BY <1>1, <1>5, <1>6
<1>8. /\ h \in JobRow /\ h.at = x.at /\ h.status = x.status /\ h.mode = x.mode
      /\ h.deliveries = x.deliveries /\ h.done = x.done + 1
      /\ h.failed = x.failed /\ h.skipped = x.skipped
  BY <1>6, <1>7 DEF JobRow
<1>9. PICK g \in JobRow : g = Counted(h) /\ g.pc = "enter" /\ g.at = h.at + 1 /\ g.status = h.status
                          /\ g.mode = h.mode /\ g.deliveries = h.deliveries
                          /\ g.done = h.done /\ g.failed = h.failed /\ g.skipped = h.skipped
  BY <1>8, CountedIs
<1>10. \A a \in Assets : a \in Did(j, x, renders, extracted) => a \in Did(j, g, renders, extracted)
  BY <1>8, <1>9 DEF Did
<1>11. x.at \in Did(j, g, renders, extracted)
  BY <1>2, <1>4, <1>8, <1>9 DEF Did
<1>12. x.pc # "idle" /\ g.at = x.at + 1
  BY <1>2, <1>8, <1>9
<1>13. Loop(j, g, renders, extracted)
  BY <1>1, <1>2, <1>8, <1>9, <1>10, <1>11, <1>12, LoopCounts
<1>14. raced' \in SUBSET RenderJobs
  BY JobIs DEF Reuse
<1>15. QED
  BY <1>1, <1>2, <1>3, <1>5, <1>9, <1>13, <1>14, JobIs, JobTurns DEF Reuse, InTable, NoSegment, stored

LEMMA ReadSegmentsKeeps ==
  ASSUME FiguresInv, NEW j \in RenderJobs, ReadSegments(j)
  PROVE  FiguresInv'
<1> j \in Jobs
  BY DEF Jobs
<1>1. PICK x \in JobRow : x = job[j] /\ Loop(j, x, renders, extracted)
  BY JobIs
<1>2. x.pc = "enter" /\ x.at \in Assets
  BY <1>1, JobIs DEF ReadSegments, At
<1>3. book
  BY <1>1, <1>2, JobHasBook
<1>4. <<Regions(x.at), Len(renders[x.at])>> \in Fingerprint \X Nat
  BY <1>2, RegionsType, RowsAre
<1>5. PICK s \in Fingerprint \X Nat : s = <<Regions(x.at), Len(renders[x.at])>> /\ s[2] = Len(renders[x.at])
  BY <1>4
<1>6. PICK h : h = [job[j] EXCEPT !.pc = "latest", !.seen = s] /\ Set(j, h)
  BY <1>1, <1>5 DEF ReadSegments
<1>7. /\ h \in JobRow /\ h.pc = "latest" /\ h.status = x.status /\ h.mode = x.mode /\ h.at = x.at
      /\ h.deliveries = x.deliveries /\ h.done = x.done /\ h.failed = x.failed /\ h.skipped = x.skipped
      /\ h.seen = s
  BY <1>1, <1>5, <1>6 DEF JobRow, Steps
<1>8. h.seen \in Fingerprint \X Nat /\ h.seen[2] <= Len(renders[h.at])
  BY <1>2, <1>5, <1>7, RowsAre
<1>9. Loop(j, h, renders, extracted)
  BY <1>1, <1>2, <1>7, <1>8, LoopReads
<1>10. raced' \in SUBSET RenderJobs
  BY JobIs DEF ReadSegments, Others
<1>11. QED
  BY <1>1, <1>2, <1>3, <1>6, <1>7, <1>9, <1>10, JobIs, JobTurns DEF ReadSegments, InTable, NoSegment, stored

LEMMA DrawKeeps ==
  ASSUME FiguresInv, NEW j \in RenderJobs, Draw(j)
  PROVE  FiguresInv'
<1> j \in Jobs
  BY DEF Jobs
<1>1. PICK x \in JobRow : x = job[j] /\ Loop(j, x, renders, extracted)
  BY JobIs
<1>2. x.pc = "latest" /\ x.at \in Assets
  BY <1>1, JobIs DEF Draw, At
<1>3. book
  BY <1>1, <1>2, JobHasBook
<1>4. PICK h : h = [job[j] EXCEPT !.pc = "draw"] /\ Set(j, h)
  BY DEF Draw
<1>5. /\ h \in JobRow /\ h.pc = "draw" /\ h.status = x.status /\ h.mode = x.mode /\ h.at = x.at
      /\ h.deliveries = x.deliveries /\ h.done = x.done /\ h.failed = x.failed /\ h.skipped = x.skipped
      /\ h.seen = x.seen
  BY <1>1, <1>4 DEF JobRow, Steps
<1>6. h.seen \in Fingerprint \X Nat /\ h.seen[2] <= Len(renders[h.at])
  BY <1>1, <1>2, <1>5 DEF Loop, Placed
<1>7. Loop(j, h, renders, extracted)
  BY <1>1, <1>2, <1>5, <1>6, LoopReads
<1>8. QED
  BY <1>1, <1>2, <1>3, <1>4, <1>5, <1>7, JobIs, JobTurns DEF Draw, InTable, NoSegment, stored

LEMMA PutRenderKeeps ==
  ASSUME FiguresInv, NEW j \in RenderJobs, PutRender(j)
  PROVE  FiguresInv'
<1> j \in Jobs
  BY DEF Jobs
<1>1. PICK x \in JobRow : x = job[j] /\ Loop(j, x, renders, extracted)
  BY JobIs
<1>2. x.pc = "draw" /\ x.at \in Assets
  BY <1>1, JobIs DEF PutRender, At
<1>3. book
  BY <1>1, <1>2, JobHasBook
<1>4. PICK k \in Nat : k = keys + 1 /\ k > Images
  BY FiguresAssumption DEF FiguresInv, FiguresTypeOK
<1>5. PICK h : h = [job[j] EXCEPT !.pc = "row", !.key = k]
  OBVIOUS
<1>6. Set(j, h) /\ objects' = objects \union {k} /\ keys' = k
  BY <1>4, <1>5 DEF PutRender
<1>7. /\ h \in JobRow /\ h.pc = "row" /\ h.status = x.status /\ h.mode = x.mode /\ h.at = x.at
      /\ h.deliveries = x.deliveries /\ h.done = x.done /\ h.failed = x.failed /\ h.skipped = x.skipped
      /\ h.seen = x.seen /\ h.key = k
  BY <1>1, <1>4, <1>5 DEF JobRow, Steps
<1>8. h.seen \in Fingerprint \X Nat /\ h.seen[2] <= Len(renders[h.at])
  BY <1>1, <1>2, <1>7 DEF Loop, Placed
<1>9. Loop(j, h, renders, extracted)
  BY <1>1, <1>2, <1>7, <1>8, LoopReads
<1>10. UNCHANGED <<upload, book, segments, renders, leaked, unsure, extracted, raced, stray, writes, faults>>
  BY DEF PutRender, ghosts
<1>11. RowKeys'
  BY <1>6, <1>10 DEF FiguresInv, RowKeys
<1>12. Grows(renders, renders')
  BY <1>10, GrowsItself DEF FiguresInv
<1>13. Loop(j, h, renders', extracted')
  BY <1>9, <1>10
<1>14. /\ objects' \in SUBSET Nat /\ leaked' \in SUBSET Nat /\ segments' \in Seq(Segment)
       /\ renders' \in [Assets -> Seq(RenderRow)] /\ keys' \in Nat /\ keys' >= Images
       /\ extracted' \in SUBSET (VisionJobs \X Assets) /\ raced' \in SUBSET RenderJobs
       /\ stray' \in SUBSET Nat /\ writes' \in Nat /\ faults' \in Nat
  BY <1>4, <1>6, <1>10, FiguresAssumption DEF FiguresInv, FiguresTypeOK
<1>15. \A o \in objects' : o \in objects \/ (o > Images /\ h.pc = "row" /\ h.key = o /\ j \in RenderJobs)
  BY <1>4, <1>6, <1>7
<1>16. /\ \A o \in objects : o \in objects'
       /\ \A o \in leaked : o \in leaked'
       /\ h.key \in objects' /\ h.key > Images
       /\ job[j].pc # "row"
  BY <1>1, <1>2, <1>4, <1>6, <1>7, <1>10
<1>17. QED
  BY <1>3, <1>6, <1>7, <1>10, <1>11, <1>12, <1>13, <1>14, <1>15, <1>16, JobMoves

(* The new segments of an extraction, and what it leaves of the others.      *)
Added(j, texts) ==
  [n \in DOMAIN texts |->
     [asset |-> job[j].at, text |-> texts[n], translation |-> 0, live |-> TRUE,
      extraction |-> Len(segments) + 1]]

Kept(j) ==
  [i \in DOMAIN segments |-> [segments[i] EXCEPT !.live = @ /\ i \notin Superseding(j)]]

LEMMA TextsAre ==
  ASSUME FiguresInv, NEW j \in Jobs, NEW n, NEW texts \in BoundedSeq(NewTexts(j), n)
  PROVE  \E l \in Nat : texts \in [1..l -> NewTexts(j)] /\ NewTexts(j) \in SUBSET Texts
<1>1. NewTexts(j) \in SUBSET Texts
  BY JobIs DEF NewTexts, JobRow
<1>2. PICK l \in 0..n : texts \in [1..l -> NewTexts(j)]
  BY DEF BoundedSeq, SeqOf
<1>3. QED
  BY <1>1, <1>2

LEMMA AddedType ==
  ASSUME FiguresInv, NEW j \in Jobs, job[j].at \in Assets, NEW l \in Nat,
         NEW texts \in [1..l -> NewTexts(j)], NewTexts(j) \in SUBSET Texts
  PROVE  /\ Added(j, texts) \in Seq(Segment) /\ Len(Added(j, texts)) = l
         /\ \A n \in 1..l : /\ Added(j, texts)[n].asset = job[j].at /\ Added(j, texts)[n].text = texts[n]
                             /\ Added(j, texts)[n].extraction = Len(segments) + 1
<1>1. PICK c \in Assets : c = job[j].at
  OBVIOUS
<1>2. PICK e \in Nat : e = Len(segments) + 1
  BY LenProperties DEF FiguresInv, FiguresTypeOK
<1>3. PICK new : new = Added(j, texts)
  OBVIOUS
<1>4. DOMAIN texts = 1..l
  OBVIOUS
<1>5. new = [n \in 1..l |-> [asset |-> c, text |-> texts[n], translation |-> 0, live |-> TRUE, extraction |-> e]]
  BY <1>1, <1>2, <1>3, <1>4 DEF Added
<1>6. \A n \in 1..l : texts[n] \in Texts
  OBVIOUS
<1>7. /\ new \in [1..l -> Segment]
      /\ \A n \in 1..l : new[n].asset = c /\ new[n].text = texts[n] /\ new[n].extraction = e
  BY <1>5, <1>6 DEF Segment
<1>8. new \in Seq(Segment) /\ Len(new) = l
  BY <1>7, LenProperties
<1>9. QED
  BY <1>1, <1>2, <1>3, <1>7, <1>8

LEMMA KeptType ==
  ASSUME FiguresInv, NEW j \in Jobs
  PROVE  /\ Kept(j) \in Seq(Segment) /\ Len(Kept(j)) = Len(segments)
         /\ \A i \in 1..Len(segments) :
              /\ Kept(j)[i].asset = segments[i].asset /\ Kept(j)[i].text = segments[i].text
              /\ Kept(j)[i].extraction = segments[i].extraction
              /\ Kept(j)[i].live => segments[i].live /\ i \notin Superseding(j)
<1>1. PICK n \in Nat : DOMAIN segments = 1..n /\ n = Len(segments)
  BY SegmentsAre
<1>2. PICK old : old = Kept(j)
  OBVIOUS
<1>3. ASSUME NEW i \in 1..n
      PROVE  /\ old[i] \in Segment
             /\ old[i].asset = segments[i].asset /\ old[i].text = segments[i].text
             /\ old[i].extraction = segments[i].extraction
             /\ old[i].live => segments[i].live /\ i \notin Superseding(j)
  <2>1. PICK s \in Segment : s = segments[i]
    BY <1>1, SegmentsAre
  <2>2. PICK b \in BOOLEAN : b = (s.live /\ i \notin Superseding(j))
    BY DEF Segment
  <2>3. old[i] = [s EXCEPT !.live = b]
    BY <1>1, <1>2, <2>1, <2>2 DEF Kept
  <2>4. /\ old[i] \in Segment /\ old[i].asset = s.asset /\ old[i].text = s.text
        /\ old[i].extraction = s.extraction /\ old[i].live = b
    BY <2>3 DEF Segment
  <2>5. QED
    BY <2>1, <2>2, <2>4
<1>4. old \in [1..n -> Segment]
  BY <1>1, <1>2, <1>3 DEF Kept
<1>5. old \in Seq(Segment) /\ Len(old) = n
  BY <1>4, LenProperties
<1>6. QED
  BY <1>1, <1>2, <1>3, <1>5

(* What the commit of an extraction writes.                                  *)
Extracts(j, l, texts) ==
  /\ NewTexts(j) \in SUBSET Texts
  /\ segments' = Kept(j) \o Added(j, texts)
  /\ stray' = IF job[j].last = Len(job[j].seen) THEN stray
              ELSE stray \union {Len(segments) + n : n \in 1..l}

LEMMA ExtractionIs ==
  ASSUME FiguresInv, NEW j \in VisionJobs, CommitExtraction(j)
  PROVE  \E l \in Nat : \E texts \in [1..l -> NewTexts(j)] : Extracts(j, l, texts)
<1> j \in Jobs
  BY DEF Jobs
<1>1. PICK texts \in BoundedSeq(NewTexts(j), MaxSegments - Len(segments)) :
        /\ segments' = Kept(j) \o Added(j, texts)
        /\ stray' = IF job[j].last = Len(job[j].seen) THEN stray
                    ELSE stray \union {Len(segments) + n : n \in DOMAIN texts}
  BY DEF CommitExtraction, Kept, Added
<1>2. PICK l \in Nat : texts \in [1..l -> NewTexts(j)] /\ NewTexts(j) \in SUBSET Texts
  BY <1>1, TextsAre
<1>3. DOMAIN texts = 1..l
  BY <1>2
<1>4. Extracts(j, l, texts)
  BY <1>1, <1>2, <1>3 DEF Extracts
<1>5. QED
  BY <1>2, <1>4

LEMMA CommitExtractionKeeps ==
  ASSUME FiguresInv, NEW j \in VisionJobs, CommitExtraction(j)
  PROVE  FiguresInv'
<1> j \in Jobs
  BY DEF Jobs
<1>1. PICK x \in JobRow : x = job[j] /\ Loop(j, x, renders, extracted)
  BY JobIs
<1>2. x.pc = "numbered" /\ x.at \in Assets
  BY <1>1, JobIs DEF CommitExtraction, At
<1>3. book
  BY <1>1, <1>2, JobHasBook
<1>4. PICK h : h = [job[j] EXCEPT !.done = @ + 1] /\ Set(j, Counted(h))
  BY DEF CommitExtraction
<1>5. extracted' = extracted \union {<<j, x.at>>}
  BY <1>1 DEF CommitExtraction
<1>6. /\ h \in JobRow /\ h.at = x.at /\ h.status = x.status /\ h.mode = x.mode
      /\ h.deliveries = x.deliveries /\ h.done = x.done + 1
      /\ h.failed = x.failed /\ h.skipped = x.skipped
  <2>1. PICK n \in Nat : n = x.done + 1
    BY DEF JobRow
  <2>2. h = [x EXCEPT !.done = n]
    BY <1>1, <1>4, <2>1
  <2>3. QED
    BY <2>1, <2>2 DEF JobRow
<1>7. PICK g \in JobRow : g = Counted(h) /\ g.pc = "enter" /\ g.at = h.at + 1 /\ g.status = h.status
                          /\ g.mode = h.mode /\ g.deliveries = h.deliveries
                          /\ g.done = h.done /\ g.failed = h.failed /\ g.skipped = h.skipped
  BY <1>6, CountedIs
<1>8. PICK X : X = extracted'
  OBVIOUS
<1>9. /\ \A a \in Assets : a \in Did(j, x, renders, extracted) => a \in Did(j, g, renders, X)
      /\ x.at \in Did(j, g, renders, X)
  BY <1>2, <1>5, <1>8 DEF Did
<1>10. Loop(j, g, renders, X)
  <2>1. x.pc # "idle" /\ g.at = x.at + 1
    BY <1>2, <1>6, <1>7
  <2>2. QED
    BY <1>1, <1>2, <1>6, <1>7, <1>9, <2>1, LoopCounts
<1>11. UNCHANGED <<upload, book, objects, renders, keys, leaked, unsure, raced, writes, faults>>
  BY DEF CommitExtraction, InTable, stored
<1>12. segments' \in Seq(Segment) /\ stray' \in SUBSET Nat
  <2>1. PICK l \in Nat : \E texts \in [1..l -> NewTexts(j)] : Extracts(j, l, texts)
    BY ExtractionIs
  <2>2. PICK texts \in [1..l -> NewTexts(j)] : Extracts(j, l, texts)
    BY <2>1
  <2>3. Kept(j) \in Seq(Segment) /\ Added(j, texts) \in Seq(Segment)
    BY <1>1, <1>2, <2>2, KeptType, AddedType DEF Extracts
  <2>4. segments' \in Seq(Segment)
    BY <2>2, <2>3, ConcatProperties DEF Extracts
  <2>5. stray' \in SUBSET Nat
    <3>1. PICK m \in Nat : m = Len(segments)
      BY SegmentsAre
    <3>2. stray' = stray \/ stray' = stray \union {m + n : n \in 1..l}
      BY <2>2, <3>1 DEF Extracts
    <3>3. stray \in SUBSET Nat
      BY DEF FiguresInv, FiguresTypeOK
    <3>4. \A n \in 1..l : m + n \in Nat
      OBVIOUS
    <3>5. {m + n : n \in 1..l} \in SUBSET Nat
      BY <3>4
    <3>6. QED
      BY <3>2, <3>3, <3>5
  <2>6. QED
    BY <2>4, <2>5
<1>13. /\ objects' \in SUBSET Nat /\ leaked' \in SUBSET Nat
       /\ renders' \in [Assets -> Seq(RenderRow)] /\ keys' \in Nat /\ keys' >= Images
       /\ raced' \in SUBSET RenderJobs /\ writes' \in Nat /\ faults' \in Nat
  BY <1>11 DEF FiguresInv, FiguresTypeOK
<1>14. extracted' \in SUBSET (VisionJobs \X Assets)
  BY <1>2, <1>5 DEF FiguresInv, FiguresTypeOK
<1>15. RowKeys'
  BY <1>11 DEF FiguresInv, RowKeys
<1>16. Grows(renders, renders')
  BY <1>11, GrowsItself DEF FiguresInv
<1>17. Loop(j, g, renders', extracted')
  BY <1>8, <1>10, <1>11
<1>18. Set(j, g) /\ g.pc # "row" /\ job[j].pc # "row"
  BY <1>1, <1>2, <1>4, <1>7
<1>19. \A q \in Jobs : q # j => \A a \in Assets : <<q, a>> \in extracted' <=> <<q, a>> \in extracted
  BY <1>5
<1>20. QED
  BY <1>3, <1>11, <1>12, <1>13, <1>14, <1>15, <1>16, <1>17, <1>18, <1>19, JobMoves

(* A row among the others.                                                   *)
Insert(drawn, n, new) == SubSeq(drawn, 1, n) \o <<new>> \o SubSeq(drawn, n + 1, Len(drawn))

Inserts(drawn, l, n, new, all) ==
  /\ all \in Seq(RenderRow) /\ Len(all) = l + 1
  /\ \A i \in 1..l + 1 : all[i] = IF i <= n THEN drawn[i] ELSE IF i = n + 1 THEN new ELSE drawn[i - 1]

LEMMA Inserted ==
  ASSUME NEW drawn \in Seq(RenderRow), NEW n \in Nat, n <= Len(drawn), NEW new \in RenderRow
  PROVE  Inserts(drawn, Len(drawn), n, new, Insert(drawn, n, new))
<1> DEFINE S == RenderRow
<1> HIDE DEF S
<1>1. PICK l \in Nat : l = Len(drawn) /\ drawn \in [1..l -> S] /\ n <= l
  BY LenProperties DEF S
<1>2. drawn \in Seq(S) /\ new \in S
  BY DEF S
<1>3. PICK s : s = SubSeq(drawn, 1, n)
  OBVIOUS
<1>4. PICK t : t = SubSeq(drawn, n + 1, l)
  OBVIOUS
<1>5. s \in Seq(S) /\ Len(s) = n /\ \A i \in 1..n : s[i] = drawn[i]
  <2>1. \A i \in 1..n : drawn[i] \in S
    BY <1>1
  <2>2. 1 \in Int /\ n \in Int
    BY <1>1
  <2>3. /\ SubSeq(drawn, 1, n) \in Seq(S)
        /\ Len(SubSeq(drawn, 1, n)) = IF 1 <= n THEN n - 1 + 1 ELSE 0
        /\ \A i \in 1..n - 1 + 1 : SubSeq(drawn, 1, n)[i] = drawn[1 + i - 1]
    BY <2>1, <2>2, SubSeqProperties
  <2>4. QED
    BY <1>1, <1>3, <2>3
<1>6. t \in Seq(S) /\ Len(t) = l - n /\ \A i \in 1..l - n : t[i] = drawn[n + i]
  <2>1. \A i \in (n + 1)..l : drawn[i] \in S
    BY <1>1
  <2>2. n + 1 \in Int /\ l \in Int
    BY <1>1
  <2>3. /\ SubSeq(drawn, n + 1, l) \in Seq(S)
        /\ Len(SubSeq(drawn, n + 1, l)) = IF n + 1 <= l THEN l - (n + 1) + 1 ELSE 0
        /\ \A i \in 1..l - (n + 1) + 1 : SubSeq(drawn, n + 1, l)[i] = drawn[n + 1 + i - 1]
    BY <2>1, <2>2, SubSeqProperties
  <2>4. /\ t \in Seq(S)
        /\ Len(t) = IF n + 1 <= l THEN l - (n + 1) + 1 ELSE 0
        /\ \A i \in 1..l - (n + 1) + 1 : t[i] = drawn[n + 1 + i - 1]
    BY <1>4, <2>3
  <2>5. Len(t) = l - n
    <3>1. n \in Nat /\ l \in Nat /\ n <= l
      BY <1>1
    <3>2. n + 1 <= l \/ n = l
      BY <3>1
    <3>3. QED
      BY <2>4, <3>1, <3>2
  <2>6. ASSUME NEW i \in 1..l - n PROVE t[i] = drawn[n + i]
    <3>1. i \in 1..l - (n + 1) + 1 /\ n + 1 + i - 1 = n + i
      BY <1>1
    <3>2. QED
      BY <2>4, <3>1
  <2>7. QED
    BY <2>4, <2>5, <2>6
<1>7. <<new>> \in Seq(S) /\ Len(<<new>>) = 1 /\ <<new>>[1] = new
  BY <1>2
<1>8. PICK u : u = s \o <<new>>
  OBVIOUS
<1>9. u \in Seq(S) /\ Len(u) = n + 1 /\ \A i \in 1..n + 1 : u[i] = IF i <= n THEN s[i] ELSE new
  <2>1. /\ u \in Seq(S) /\ Len(u) = Len(s) + Len(<<new>>)
        /\ \A i \in 1..Len(s) + Len(<<new>>) : u[i] = IF i <= Len(s) THEN s[i] ELSE <<new>>[i - Len(s)]
    BY <1>5, <1>7, <1>8, ConcatProperties
  <2>2. QED
    BY <1>1, <1>5, <1>7, <2>1
<1>10. Insert(drawn, n, new) = u \o t
  BY <1>1, <1>3, <1>4, <1>8 DEF Insert
<1>11. /\ u \o t \in Seq(S) /\ Len(u \o t) = Len(u) + Len(t)
       /\ \A i \in 1..Len(u) + Len(t) : (u \o t)[i] = IF i <= Len(u) THEN u[i] ELSE t[i - Len(u)]
  BY <1>6, <1>9, ConcatProperties
<1>12. PICK v : v = u \o t
  OBVIOUS
<1>13. v \in Seq(S) /\ Len(v) = l + 1
  <2>1. v \in Seq(S) /\ Len(v) = Len(u) + Len(t)
    BY <1>11, <1>12
  <2>2. n + 1 + (l - n) = l + 1
    BY <1>1
  <2>3. QED
    BY <1>6, <1>9, <2>1, <2>2
<1>14. ASSUME NEW i \in 1..l + 1
       PROVE  v[i] = IF i <= n THEN drawn[i] ELSE IF i = n + 1 THEN new ELSE drawn[i - 1]
  <2>1. v[i] = IF i <= n + 1 THEN u[i] ELSE t[i - (n + 1)]
    BY <1>1, <1>6, <1>9, <1>11, <1>12
  <2>2. CASE i <= n
    BY <1>1, <1>5, <1>9, <2>1, <2>2
  <2>3. CASE i = n + 1
    BY <1>1, <1>9, <2>1, <2>3
  <2>4. CASE i > n + 1
    BY <1>1, <1>6, <2>1, <2>4
  <2>5. QED
    BY <1>1, <2>2, <2>3, <2>4
<1>15. QED
  <2>1. Inserts(drawn, l, n, new, v)
    BY <1>13, <1>14 DEF Inserts, S
  <2>2. v = Insert(drawn, n, new)
    BY <1>10, <1>12
  <2>3. QED
    BY <1>1, <2>1, <2>2

LEMMA TranslateKeeps ==
  ASSUME FiguresInv, NEW i \in DOMAIN segments, Translate(i)
  PROVE  FiguresInv'
<1>1. PICK w \in {1, 2} : segments' = [segments EXCEPT ![i].translation = w, ![i].live = TRUE]
  BY DEF Translate
<1>2. PICK s \in Segment : s = segments[i]
  BY SegmentsAre
<1>3. PICK r : r = [s EXCEPT !.translation = w, !.live = TRUE]
  OBVIOUS
<1>4. r \in Segment
  BY <1>3 DEF Segment
<1>5. segments' = [segments EXCEPT ![i] = r]
  BY <1>1, <1>2, <1>3, SegmentsAre
<1>6. segments' \in Seq(Segment)
  BY <1>4, <1>5, SegmentsAre, ExceptSeq
<1>7. writes' \in Nat
  BY DEF FiguresInv, FiguresTypeOK, Translate
<1>8. UNCHANGED <<upload, book, objects, renders, job, keys, leaked, unsure, extracted, raced, faults>>
  BY DEF Translate, stored
<1>9. FiguresTypeOK'
  <2>1. stray' \in SUBSET Nat
    BY SegmentsAre DEF Translate, FiguresInv, FiguresTypeOK
  <2>2. QED
    BY <1>6, <1>7, <1>8, <2>1 DEF FiguresInv, FiguresTypeOK
<1>10. Uploading' /\ KeepsBook' /\ Unstarted' /\ RowKeys' /\ JobKeys' /\ Covered'
  BY <1>8 DEF FiguresInv, Uploading, KeepsBook, Unstarted, RowKeys, JobKeys, Covered, IsNamed
<1>11. \A j \in Jobs : Loop(j, job'[j], renders', extracted')
  BY <1>8 DEF FiguresInv
<1>12. QED
  BY <1>9, <1>10, <1>11 DEF FiguresInv

(* The row that a render job adds, and where.                                *)
LEMMA RowAdded ==
  ASSUME FiguresInv, NEW j \in RenderJobs, CommitRender(j)
  PROVE  \E new \in RenderRow : \E n \in 0..Len(renders[job[j].at]) :
           /\ new.mode = job[j].mode /\ new.regions = job[j].seen[1] /\ new.key = job[j].key
           /\ j \notin raced => n = Len(renders[job[j].at])
           /\ renders' = [renders EXCEPT ![job[j].at] = Insert(renders[job[j].at], n, new)]
<1> j \in Jobs
  BY DEF Jobs
<1>1. PICK x \in JobRow : x = job[j] /\ Loop(j, x, renders, extracted)
  BY JobIs
<1>2. x.pc = "row" /\ x.at \in Assets
  BY <1>1, JobIs DEF CommitRender, At
<1>3. x.mode \in Modes /\ x.seen \in Fingerprint \X Nat /\ x.seen[2] <= Len(renders[x.at]) /\ x.key \in Nat
  BY <1>1, <1>2 DEF Loop, Placed, JobRow
<1>4. PICK l \in Nat : l = Len(renders[x.at])
  BY <1>2, RowsAre
<1>5. PICK k \in Nat : k = x.seen[2] /\ k <= l
  BY <1>3, <1>4
<1>6. PICK new : new = [mode |-> x.mode, regions |-> x.seen[1], key |-> x.key]
  OBVIOUS
<1>7. new \in RenderRow /\ new.mode = x.mode /\ new.regions = x.seen[1] /\ new.key = x.key
  BY <1>3, <1>6 DEF RenderRow
<1>8. PICK n \in IF j \in raced THEN k..l ELSE {l} : renders' = [renders EXCEPT ![x.at] = Insert(renders[x.at], n, new)]
  BY <1>1, <1>4, <1>5, <1>6 DEF CommitRender, Insert
<1>9. n \in 0..l /\ (j \notin raced => n = l)
  BY <1>4, <1>5, <1>8
<1>10. QED
  BY <1>1, <1>4, <1>7, <1>8, <1>9

LEMMA CommitRenderKeeps ==
  ASSUME FiguresInv, NEW j \in RenderJobs, CommitRender(j)
  PROVE  FiguresInv'
<1> j \in Jobs /\ j \notin VisionJobs
  BY FiguresAssumption DEF Jobs
<1>1. PICK x \in JobRow : x = job[j] /\ Loop(j, x, renders, extracted)
  BY JobIs
<1>2. x.pc = "row" /\ x.at \in Assets
  BY <1>1, JobIs DEF CommitRender, At
<1>3. book
  BY <1>1, <1>2, JobHasBook
<1>4. PICK h : h = [job[j] EXCEPT !.done = @ + 1] /\ Set(j, Counted(h))
  BY DEF CommitRender
<1>5. /\ h \in JobRow /\ h.at = x.at /\ h.status = x.status /\ h.mode = x.mode
      /\ h.deliveries = x.deliveries /\ h.done = x.done + 1
      /\ h.failed = x.failed /\ h.skipped = x.skipped
  <2>1. PICK n \in Nat : n = x.done + 1
    BY DEF JobRow
  <2>2. h = [x EXCEPT !.done = n]
    BY <1>1, <1>4, <2>1
  <2>3. QED
    BY <2>1, <2>2 DEF JobRow
<1>6. PICK g \in JobRow : g = Counted(h) /\ g.pc = "enter" /\ g.at = h.at + 1 /\ g.status = h.status
                          /\ g.mode = h.mode /\ g.deliveries = h.deliveries
                          /\ g.done = h.done /\ g.failed = h.failed /\ g.skipped = h.skipped
  BY <1>5, CountedIs
<1>7. UNCHANGED <<upload, book, objects, segments, keys, leaked, unsure, extracted, stray, writes, faults>>
      /\ raced' = raced \ {j}
  BY DEF CommitRender, InTable, NoSegment, stored
<1>8. PICK drawn : drawn = renders[x.at] /\ drawn \in Seq(RenderRow)
  BY <1>2, RowsAre
<1>9. PICK l \in Nat : l = Len(drawn) /\ DOMAIN drawn = 1..l
  BY <1>2, <1>8, RowsAre
<1>10. PICK new \in RenderRow, n \in 0..l :
         /\ new.mode = x.mode /\ new.key = x.key
         /\ renders' = [renders EXCEPT ![x.at] = Insert(drawn, n, new)]
  BY <1>1, <1>8, <1>9, RowAdded
<1>11. PICK all : all = Insert(drawn, n, new)
  OBVIOUS
<1>12. /\ all \in Seq(RenderRow) /\ Len(all) = l + 1
       /\ \A i \in 1..l + 1 : all[i] = IF i <= n THEN drawn[i] ELSE IF i = n + 1 THEN new ELSE drawn[i - 1]
  <2>1. n \in Nat /\ n <= Len(drawn) /\ new \in RenderRow
    BY <1>9, <1>10
  <2>2. Inserts(drawn, Len(drawn), n, new, Insert(drawn, n, new))
    BY <1>8, <2>1, Inserted
  <2>3. Inserts(drawn, l, n, new, all)
    BY <1>9, <1>11, <2>2
  <2>4. QED
    BY <2>3 DEF Inserts
<1>13. DOMAIN all = 1..l + 1
  BY <1>12, LenProperties
<1>14. PICK R : R = renders'
  OBVIOUS
<1>15. /\ R \in [Assets -> Seq(RenderRow)] /\ R[x.at] = all
       /\ \A a \in Assets : a # x.at => R[a] = renders[a]
  BY <1>2, <1>10, <1>11, <1>12, <1>14 DEF FiguresInv, FiguresTypeOK
<1>16. n + 1 \in DOMAIN all /\ all[n + 1] = new
  BY <1>12, <1>13
<1>17. \A i \in DOMAIN drawn : \E m \in DOMAIN all : all[m] = drawn[i]
  <2>1. ASSUME NEW i \in 1..l PROVE \E m \in 1..l + 1 : all[m] = drawn[i]
    <3>1. CASE i <= n
      BY <1>12, <2>1, <3>1
    <3>2. CASE i > n
      <4>1. i + 1 \in 1..l + 1 /\ ~(i + 1 <= n) /\ i + 1 # n + 1 /\ i + 1 - 1 = i
        BY <2>1, <3>2
      <4>2. all[i + 1] = drawn[i]
        BY <1>12, <4>1
      <4>3. QED
        BY <4>1, <4>2
    <3>3. QED
      BY <2>1, <3>1, <3>2
  <2>2. QED
    BY <1>9, <1>13, <2>1
<1>18. \A m \in DOMAIN all : all[m] = new \/ \E i \in DOMAIN drawn : all[m] = drawn[i]
  <2>1. ASSUME NEW m \in 1..l + 1 PROVE all[m] = new \/ \E i \in 1..l : all[m] = drawn[i]
    <3>1. CASE m <= n
      BY <1>12, <2>1, <3>1
    <3>2. CASE m = n + 1
      BY <1>12, <2>1, <3>2
    <3>3. CASE m > n + 1
      <4>1. m - 1 \in 1..l /\ ~(m <= n) /\ m # n + 1
        BY <2>1, <3>3
      <4>2. all[m] = drawn[m - 1]
        BY <1>12, <4>1
      <4>3. QED
        BY <4>1, <4>2
    <3>4. QED
      BY <2>1, <3>1, <3>2, <3>3
  <2>2. QED
    BY <1>9, <1>13, <2>1
<1>19. \A a \in Assets : \A i \in DOMAIN renders[a] : \E m \in DOMAIN R[a] : R[a][m] = renders[a][i]
  BY <1>8, <1>15, <1>17
<1>20. Grows(renders, R)
  <2>1. ASSUME NEW a \in Assets PROVE Len(renders[a]) <= Len(R[a])
    <3>1. Len(renders[a]) \in Nat
      BY RowsAre
    <3>2. CASE a = x.at
      BY <1>8, <1>9, <1>12, <1>15, <3>2
    <3>3. CASE a # x.at
      BY <1>15, <3>1, <3>3
    <3>4. QED
      BY <3>2, <3>3
  <2>2. ASSUME NEW a \in Assets, NEW m \in Modes, OfMode(renders[a], m) # {} PROVE OfMode(R[a], m) # {}
    <3>1. PICK i \in DOMAIN renders[a] : renders[a][i].mode = m
      BY <2>2 DEF OfMode
    <3>2. PICK k \in DOMAIN R[a] : R[a][k] = renders[a][i]
      BY <1>19
    <3>3. R[a][k].mode = m
      BY <3>1, <3>2
    <3>4. QED
      BY <3>3 DEF OfMode
  <2>3. QED
    BY <2>1, <2>2 DEF Grows
<1>21. RowKeys'
  <2>1. ASSUME NEW a \in Assets, NEW m \in DOMAIN R[a]
        PROVE  R[a][m].key \in objects /\ R[a][m].key > Images
    <3>1. CASE a = x.at
      <4>1. x.key \in objects /\ x.key > Images
        BY <1>1, <1>2 DEF FiguresInv, JobKeys
      <4>2. \A i \in DOMAIN drawn : drawn[i].key \in objects /\ drawn[i].key > Images
        BY <1>2, <1>8 DEF FiguresInv, RowKeys
      <4>3. R[a][m] = new \/ \E i \in DOMAIN drawn : R[a][m] = drawn[i]
        BY <1>15, <1>18, <2>1, <3>1
      <4>4. CASE R[a][m] = new
        BY <1>10, <4>1, <4>4
      <4>5. CASE \E i \in DOMAIN drawn : R[a][m] = drawn[i]
        <5>1. PICK i \in DOMAIN drawn : R[a][m] = drawn[i]
          BY <4>5
        <5>2. QED
          BY <4>2, <5>1
      <4>6. QED
        BY <4>3, <4>4, <4>5
    <3>2. CASE a # x.at
      BY <1>15, <2>1, <3>2 DEF FiguresInv, RowKeys
    <3>3. QED
      BY <3>1, <3>2
  <2>2. QED
    BY <1>7, <1>14, <2>1 DEF RowKeys
<1>22. Loop(j, g, R, extracted)
  <2>1. OfMode(R[x.at], x.mode) # {}
    BY <1>10, <1>15, <1>16 DEF OfMode
  <2>2. x.mode \in Modes
    BY <1>1, <1>2 DEF Loop, Placed
  <2>3. \A a \in Assets : a \in Did(j, x, renders, extracted) => a \in Did(j, g, R, extracted)
    BY <1>5, <1>6, <1>20, <2>2 DEF Did, Grows
  <2>4. x.at \in Did(j, g, R, extracted)
    BY <1>2, <1>5, <1>6, <2>1 DEF Did
  <2>5. x.pc # "idle" /\ g.at = x.at + 1
    BY <1>2, <1>5, <1>6
  <2>6. QED
    BY <1>1, <1>2, <1>5, <1>6, <2>3, <2>4, <2>5, LoopCounts
<1>23. /\ objects' \in SUBSET Nat /\ leaked' \in SUBSET Nat /\ segments' \in Seq(Segment)
       /\ keys' \in Nat /\ keys' >= Images /\ extracted' \in SUBSET (VisionJobs \X Assets)
       /\ raced' \in SUBSET RenderJobs /\ stray' \in SUBSET Nat /\ writes' \in Nat /\ faults' \in Nat
  BY <1>7 DEF FiguresInv, FiguresTypeOK
<1>24. \E a \in Assets : \E m \in DOMAIN R[a] : R[a][m].key = job[j].key
  BY <1>1, <1>2, <1>10, <1>15, <1>16
<1>25. Set(j, g) /\ g.pc # "row"
  BY <1>4, <1>6
<1>26. QED
  BY <1>3, <1>7, <1>14, <1>15, <1>19, <1>20, <1>21, <1>22, <1>23, <1>24, <1>25, JobMoves

-------------------------------------------------------------------------------
(* The steps of the upload.                                                  *)

LEMMA UploadMoves ==
  ASSUME FiguresInv, UNCHANGED <<segments, renders, job, keys, extracted, raced, stray, writes>>,
         upload' \in [pc : {"save", "put", "refresh", "clean", "end"}, at : Int],
         book' \in BOOLEAN, book => book', unsure' \in BOOLEAN, faults' \in Nat,
         objects' \in SUBSET Nat, leaked' \in SUBSET Nat,
         \A o \in objects : o > Images => o \in objects',
         \A o \in objects' : o \in objects \/ o \in Original,
         \A o \in leaked : o \in leaked',
         Uploading', KeepsBook'
  PROVE  FiguresInv'
<1>1. FiguresTypeOK'
  BY DEF FiguresInv, FiguresTypeOK
<1>2. Unstarted'
  BY DEF FiguresInv, Unstarted
<1>3. RowKeys' /\ JobKeys'
  BY DEF FiguresInv, RowKeys, JobKeys
<1>4. Covered'
  BY DEF FiguresInv, Covered, IsNamed
<1>5. \A j \in Jobs : Loop(j, job'[j], renders', extracted')
  BY DEF FiguresInv
<1>6. QED
  BY <1>1, <1>2, <1>3, <1>4, <1>5 DEF FiguresInv

LEMMA UploadIs ==
  ASSUME FiguresInv
  PROVE  /\ upload.at \in Int /\ Images \in Nat /\ Images >= 1 /\ book \in BOOLEAN /\ unsure \in BOOLEAN
         /\ \A o : o \in objects \/ o \in leaked => o \in Nat
         /\ \A o : o \in Original <=> o \in Nat /\ o <= Images
         /\ faults \in Nat /\ Uploading /\ KeepsBook
<1>1. Images \in Nat /\ Images >= 1
  BY FiguresAssumption
<1>2. \A o : o \in Original <=> o \in Nat /\ o <= Images
  BY <1>1 DEF Original
<1>3. /\ upload.at \in Int /\ book \in BOOLEAN /\ unsure \in BOOLEAN
      /\ objects \in SUBSET Nat /\ leaked \in SUBSET Nat
      /\ faults \in Nat /\ Uploading /\ KeepsBook
  BY DEF FiguresInv, FiguresTypeOK
<1>4. QED
  BY <1>1, <1>2, <1>3

LEMMA SaveSourceKeeps ==
  ASSUME FiguresInv, SaveSource
  PROVE  FiguresInv'
<1>1. /\ upload.pc = "save" /\ upload'.pc = "put" /\ upload'.at = 1
      /\ upload' \in [pc : {"save", "put", "refresh", "clean", "end"}, at : Int]
      /\ objects' = objects \union {0} /\ book' = book /\ unsure' = unsure /\ faults' = faults /\ leaked' = leaked
  BY DEF SaveSource, UploadAt, Uploads, Source, ghosts
<1>2. objects = {} /\ leaked = {} /\ ~book
  BY <1>1, UploadIs DEF Uploading
<1>3. Uploading'
  BY <1>1, <1>2, UploadIs DEF Uploading
<1>4. KeepsBook'
  BY <1>1, <1>2, UploadIs DEF KeepsBook
<1>5. \A o \in objects' : o \in objects \/ o \in Original
  BY <1>1, UploadIs
<1>6. QED
  BY <1>1, <1>2, <1>3, <1>4, <1>5, UploadIs, UploadMoves DEF SaveSource, ghosts

LEMMA PutImageKeeps ==
  ASSUME FiguresInv, PutImage
  PROVE  FiguresInv'
<1>1. /\ upload.pc = "put" /\ upload.at <= Images /\ upload'.pc = "put" /\ upload'.at = upload.at + 1
      /\ upload' \in [pc : {"save", "put", "refresh", "clean", "end"}, at : Int]
      /\ objects' = objects \union {upload.at} /\ book' = book /\ unsure' = unsure /\ faults' = faults
      /\ leaked' = leaked
  BY UploadIs DEF PutImage, UploadAt, Uploads, ghosts
<1>2. /\ ~book /\ leaked = {} /\ upload.at >= 1 /\ \A o \in objects : o < upload.at
      /\ \A o \in Nat : o < upload.at => o \in objects
  BY <1>1, UploadIs DEF Uploading, KeepsBook
<1>3. Uploading'
  BY <1>1, <1>2, UploadIs DEF Uploading
<1>4. KeepsBook'
  <2>1. ASSUME NEW o \in Nat, o < upload.at + 1 PROVE o \in objects'
    <3>1. o < upload.at \/ o = upload.at
      BY <2>1, UploadIs
    <3>2. QED
      BY <1>1, <1>2, <3>1
  <2>2. QED
    BY <1>1, <1>2, <2>1 DEF KeepsBook
<1>5. /\ \A o \in objects' : o \in objects \/ o \in Original
      /\ objects' \in SUBSET Nat
  BY <1>1, <1>2, UploadIs
<1>6. QED
  BY <1>1, <1>2, <1>3, <1>4, <1>5, UploadIs, UploadMoves DEF PutImage, ghosts

LEMMA CommitBookKeeps ==
  ASSUME FiguresInv, CommitBook
  PROVE  FiguresInv'
<1>1. /\ upload.pc = "put" /\ upload.at > Images /\ upload'.pc = "refresh" /\ upload'.at = upload.at
      /\ upload' \in [pc : {"save", "put", "refresh", "clean", "end"}, at : Int]
      /\ objects' = objects /\ book' = TRUE /\ unsure' = unsure /\ faults' = faults /\ leaked' = leaked
  BY UploadIs DEF CommitBook, UploadAt, Uploads, ghosts
<1>2. /\ upload.at = Images + 1 /\ \A o \in Nat : o < upload.at => o \in objects
  BY <1>1, UploadIs DEF Uploading, KeepsBook
<1>3. Uploading'
  BY <1>1, <1>2, UploadIs DEF Uploading
<1>4. KeepsBook'
  BY <1>1, <1>2, UploadIs DEF KeepsBook, Original
<1>5. QED
  BY <1>1, <1>3, <1>4, UploadIs, UploadMoves DEF CommitBook, ghosts

LEMMA RefreshedKeeps ==
  ASSUME FiguresInv, Refreshed
  PROVE  FiguresInv'
<1>1. /\ upload.pc = "refresh" /\ upload'.pc = "end"
      /\ upload' \in [pc : {"save", "put", "refresh", "clean", "end"}, at : Int]
      /\ objects' = objects /\ book' = book /\ unsure' = unsure /\ faults' = faults /\ leaked' = leaked
  BY UploadIs DEF Refreshed, UploadAt, Uploads, ghosts
<1>2. book
  BY <1>1, UploadIs DEF Uploading
<1>3. Uploading'
  BY <1>1, <1>2 DEF Uploading
<1>4. KeepsBook'
  BY <1>1, UploadIs DEF KeepsBook, Original
<1>5. QED
  BY <1>1, <1>3, <1>4, UploadIs, UploadMoves DEF Refreshed, ghosts

LEMMA CommittedIs ==
  ASSUME FiguresInv, NEW b \in Committed
  PROVE  b \in BOOLEAN /\ (book => b) /\ (b # book => upload.at > Images)
  BY UploadIs DEF Committed

LEMMA UploadFailsKeeps ==
  ASSUME FiguresInv, UploadFails
  PROVE  FiguresInv'
<1>1. PICK half \in {{}, {upload.at} \intersect Assets} :
        objects' = objects \union half /\ leaked' = leaked \union half
  BY DEF UploadFails
<1>2. /\ upload.pc \in {"put", "refresh"} /\ upload'.pc = "clean" /\ upload'.at = upload.at - 1
      /\ upload' \in [pc : {"save", "put", "refresh", "clean", "end"}, at : Int]
      /\ book' \in BOOLEAN /\ (book => book') /\ unsure' = book' /\ faults' \in Nat
  <2>1. book' \in BOOLEAN /\ (book => book') /\ unsure' = book'
    BY CommittedIs DEF UploadFails
  <2>2. QED
    BY <2>1, UploadIs DEF UploadFails, UploadAt, Uploads, Fault
<1>3. /\ upload.at >= 1 /\ upload.at <= Images + 1
      /\ ~book => \A o \in objects : o < upload.at
  BY <1>2, UploadIs DEF Uploading
<1>4. \A o \in half : o \in Original
  BY <1>1, UploadIs, AssetIs
<1>5. Uploading'
  <2>1. ASSUME ~book, NEW o \in objects' PROVE o <= upload.at - 1 \/ o \in leaked'
    <3>1. CASE o \in objects
      BY <1>3, <2>1, <3>1, UploadIs
    <3>2. CASE o \in half
      BY <1>1, <3>2
    <3>3. QED
      BY <1>1, <2>1, <3>1, <3>2
  <2>2. upload.at - 1 >= 0 /\ upload.at - 1 <= Images
    BY <1>3, UploadIs
  <2>3. ~book' => ~book
    BY <1>2
  <2>4. QED
    BY <1>2, <2>1, <2>2, <2>3 DEF Uploading
<1>6. KeepsBook'
  BY <1>2 DEF KeepsBook
<1>7. objects' \in SUBSET Nat /\ leaked' \in SUBSET Nat
  BY <1>1, <1>4, UploadIs
<1>8. \A o \in objects' : o \in objects \/ o \in Original
  BY <1>1, <1>4
<1>9. /\ \A o \in objects : o \in objects'
      /\ \A o \in leaked : o \in leaked'
  BY <1>1
<1>10. QED
  BY <1>2, <1>5, <1>6, <1>7, <1>8, <1>9, UploadIs, UploadMoves DEF UploadFails

(* A key that is deleted, or whose deletion fails.                           *)
LEMMA DeletesKeep ==
  ASSUME FiguresInv, DeleteKey \/ DeleteFails
  PROVE  FiguresInv'
<1>1. /\ upload.pc = "clean" /\ upload'.at = upload.at - 1
      /\ upload'.pc = IF upload.at = 0 THEN "end" ELSE "clean"
      /\ upload' \in [pc : {"save", "put", "refresh", "clean", "end"}, at : Int]
      /\ book' = book /\ unsure' = unsure /\ faults' \in Nat
      /\ \/ objects' = objects \ {upload.at} /\ leaked' = leaked
         \/ objects' = objects /\ leaked' = leaked \union {upload.at}
  BY UploadIs DEF DeleteKey, DeleteFails, UploadAt, Uploads, Source, Fault, ghosts
<1>2. /\ upload.at >= 0 /\ upload.at <= Images /\ (book => unsure)
      /\ ~book => \A o \in objects : o <= upload.at \/ o \in leaked
  BY <1>1, UploadIs DEF Uploading
<1>3. Uploading'
  <2>1. ASSUME ~book, NEW o \in objects' PROVE o <= upload.at - 1 \/ o \in leaked'
    <3>1. o \in objects /\ o \in Nat /\ (o <= upload.at \/ o \in leaked)
      BY <1>1, <1>2, <2>1, UploadIs
    <3>2. CASE o \in leaked
      BY <1>1, <3>2
    <3>3. CASE o = upload.at
      BY <1>1, <2>1, <3>3
    <3>4. CASE o <= upload.at /\ o # upload.at
      BY <3>1, <3>4, UploadIs
    <3>5. QED
      BY <3>1, <3>2, <3>3, <3>4
  <2>2. CASE upload.at = 0
    <3>1. ASSUME ~book, NEW o \in objects' PROVE o \in leaked'
      <4>1. o \in Nat /\ ~(o <= upload.at - 1)
        BY <1>1, <2>2, <3>1, UploadIs
      <4>2. QED
        BY <2>1, <3>1, <4>1
    <3>2. QED
      BY <1>1, <2>2, <3>1 DEF Uploading
  <2>3. CASE upload.at # 0
    <3>1. upload.at - 1 >= 0 /\ upload.at - 1 <= Images
      BY <1>2, <2>3, UploadIs
    <3>2. QED
      BY <1>1, <1>2, <2>1, <2>3, <3>1 DEF Uploading
  <2>4. QED
    BY <2>2, <2>3
<1>4. KeepsBook'
  BY <1>1, <1>2 DEF KeepsBook
<1>5. /\ objects' \in SUBSET Nat /\ leaked' \in SUBSET Nat
      /\ \A o \in objects : o > Images => o \in objects'
      /\ \A o \in objects' : o \in objects
      /\ \A o \in leaked : o \in leaked'
  BY <1>1, <1>2, UploadIs
<1>6. QED
  BY <1>1, <1>3, <1>4, <1>5, UploadIs, UploadMoves DEF DeleteKey, DeleteFails, ghosts

LEMMA ParseFailsKeeps ==
  ASSUME FiguresInv, ParseFails
  PROVE  FiguresInv'
<1>1. /\ upload.pc = "put" /\ upload.at = 1 /\ upload'.pc = "end"
      /\ upload' \in [pc : {"save", "put", "refresh", "clean", "end"}, at : Int]
      /\ book' = book /\ unsure' = unsure /\ faults' \in Nat
      /\ \/ objects' = {} /\ leaked' = leaked
         \/ objects' = objects /\ leaked' = {0}
  BY UploadIs DEF ParseFails, UploadAt, Uploads, Source, Fault
<1>2. ~book /\ leaked = {} /\ \A o \in objects : o = 0
  BY <1>1, UploadIs DEF Uploading
<1>3. Uploading'
  BY <1>1, <1>2 DEF Uploading
<1>4. KeepsBook'
  BY <1>1, <1>2 DEF KeepsBook
<1>5. /\ objects' \in SUBSET Nat /\ leaked' \in SUBSET Nat
      /\ \A o \in objects : o > Images => o \in objects'
      /\ \A o \in objects' : o \in objects
      /\ \A o \in leaked : o \in leaked'
  BY <1>1, <1>2, UploadIs
<1>6. QED
  BY <1>1, <1>3, <1>4, <1>5, UploadIs, UploadMoves DEF ParseFails

LEMMA UploadStopsKeeps ==
  ASSUME FiguresInv, UploadStops
  PROVE  FiguresInv'
<1>1. /\ upload.pc \in {"put", "refresh", "clean"} /\ upload'.pc = "end"
      /\ upload' \in [pc : {"save", "put", "refresh", "clean", "end"}, at : Int]
      /\ book' \in BOOLEAN /\ (book => book')
      /\ book' # book => upload.pc = "put" /\ upload.at > Images
      /\ unsure' = unsure /\ faults' \in Nat /\ objects' = objects
      /\ leaked' = IF book' THEN leaked ELSE leaked \union objects
  <2>1. /\ book' \in BOOLEAN /\ (book => book')
        /\ book' # book => upload.pc = "put" /\ upload.at > Images
    BY CommittedIs, UploadIs DEF UploadStops, UploadAt
  <2>2. QED
    BY <2>1, UploadIs DEF UploadStops, UploadAt, Uploads, Fault
<1>2. Uploading'
  BY <1>1 DEF Uploading
<1>3. KeepsBook'
  <2>1. ASSUME book', ~unsure' PROVE \A o \in Original : o \in objects
    <3>1. CASE book
      BY <1>1, <2>1, <3>1, UploadIs DEF KeepsBook
    <3>2. CASE ~book
      <4>1. upload.pc = "put" /\ upload.at > Images
        BY <1>1, <2>1, <3>2
      <4>2. \A o \in Original : o \in Nat /\ o < upload.at
        BY <4>1, UploadIs
      <4>3. QED
        BY <4>1, <4>2, UploadIs DEF KeepsBook
    <3>3. QED
      BY <3>1, <3>2
  <2>2. QED
    BY <1>1, <2>1 DEF KeepsBook
<1>4. /\ objects' \in SUBSET Nat /\ leaked' \in SUBSET Nat
      /\ \A o \in leaked : o \in leaked'
  BY <1>1, UploadIs
<1>5. QED
  BY <1>1, <1>2, <1>3, <1>4, UploadIs, UploadMoves DEF UploadStops

-------------------------------------------------------------------------------
(* Every step.                                                               *)

LEMMA InitHolds == Init => FiguresInv
<1> SUFFICES ASSUME Init PROVE FiguresInv
  OBVIOUS
<1>1. /\ upload.pc = "save" /\ upload.at = 0
      /\ upload \in [pc : {"save", "put", "refresh", "clean", "end"}, at : Int]
      /\ ~book /\ objects = {} /\ leaked = {} /\ unsure = FALSE /\ extracted = {} /\ raced = {}
      /\ renders = [a \in Assets |-> <<>>] /\ job = [j \in Jobs |-> NoJob] /\ keys = Images
  BY DEF Init
<1>2. segments \in Seq(Segment) /\ renders \in [Assets -> Seq(RenderRow)]
  BY <1>1 DEF Init
<1>3. FiguresTypeOK
  <2>1. job \in [Jobs -> JobRow]
    BY <1>1, NoJobType
  <2>2. keys \in Nat /\ keys >= Images /\ writes \in Nat /\ faults \in Nat
    BY <1>1, FiguresAssumption DEF Init
  <2>3. /\ objects \in SUBSET Nat /\ leaked \in SUBSET Nat /\ book \in BOOLEAN /\ unsure \in BOOLEAN
        /\ extracted \in SUBSET (VisionJobs \X Assets) /\ raced \in SUBSET RenderJobs
        /\ stray \in SUBSET Nat
    BY <1>1 DEF Init
  <2>4. QED
    BY <1>1, <1>2, <2>1, <2>2, <2>3 DEF FiguresTypeOK
<1>4. Uploading /\ KeepsBook /\ Unstarted
  BY <1>1 DEF Uploading, KeepsBook, Unstarted
<1>5. RowKeys /\ JobKeys /\ Covered
  BY <1>1, NoJobType DEF RowKeys, JobKeys, Covered
<1>6. ASSUME NEW j \in Jobs PROVE Loop(j, job[j], renders, extracted)
  <2>1. PICK h \in JobRow : /\ h = job[j] /\ h.pc = "idle" /\ h.status = "none" /\ h.deliveries = 0
                            /\ h.done = 0 /\ h.failed = 0 /\ h.skipped = 0
    BY <1>1, NoJobType
  <2>2. Placed(j, h, renders)
    BY <2>1 DEF Placed
  <2>3. Tallied(j, h, extracted)
    BY <1>1, <2>1 DEF Tallied
  <2>4. Earned(j, h, renders, extracted)
    BY <2>1 DEF Earned
  <2>5. QED
    BY <2>1, <2>2, <2>3, <2>4 DEF Loop
<1>7. QED
  BY <1>3, <1>4, <1>5, <1>6 DEF FiguresInv

LEMMA Keeps == FiguresInv /\ [Next]_vars => FiguresInv'
<1> SUFFICES ASSUME FiguresInv, [Next]_vars PROVE FiguresInv'
  OBVIOUS
<1>1. CASE Upload
  BY <1>1, SaveSourceKeeps, PutImageKeeps, CommitBookKeeps, RefreshedKeeps, UploadFailsKeeps,
     DeletesKeep, ParseFailsKeeps, UploadStopsKeeps DEF Upload
<1>2. ASSUME NEW j \in Jobs, Process(j) PROVE FiguresInv'
  BY <1>2, CreateKeeps, BeginKeeps, AssetFailsKeeps, FinishKeeps, StopKeeps, RecoverKeeps DEF Process
<1>3. ASSUME NEW j \in VisionJobs,
             Extract(j) \/ ReadPosition(j) \/ CommitExtraction(j) \/ PositionTaken(j)
      PROVE  FiguresInv'
  <2>1. j \in Jobs
    BY DEF Jobs
  <2>2. QED
    BY <1>3, <2>1, ExtractKeeps, ReadPositionKeeps, CommitExtractionKeeps, PositionTakenKeeps
<1>4. ASSUME NEW j \in RenderJobs,
             \/ Skip(j) \/ ReadSegments(j) \/ Reuse(j) \/ Draw(j)
             \/ PutRender(j) \/ DrawFails(j) \/ CommitRender(j)
      PROVE  FiguresInv'
  <2>1. j \in Jobs
    BY DEF Jobs
  <2>2. QED
    BY <1>4, <2>1, SkipKeeps, ReadSegmentsKeeps, ReuseKeeps, DrawKeeps,
       PutRenderKeeps, DrawFailsKeeps, CommitRenderKeeps
<1>5. ASSUME NEW i \in DOMAIN segments, Translate(i) PROVE FiguresInv'
  BY <1>5, TranslateKeeps
<1>6. CASE UNCHANGED vars
  <2>1. UNCHANGED <<upload, book, objects, segments, renders, job, keys, leaked, unsure, extracted, raced,
                    stray, writes, faults>>
    BY <1>6 DEF vars, stored, ghosts
  <2>2. FiguresTypeOK'
    BY <2>1 DEF FiguresInv, FiguresTypeOK
  <2>3. Uploading' /\ KeepsBook' /\ Unstarted' /\ RowKeys' /\ JobKeys' /\ Covered'
    BY <2>1 DEF FiguresInv, Uploading, KeepsBook, Unstarted, RowKeys, JobKeys, Covered, IsNamed
  <2>4. \A j \in Jobs : Loop(j, job'[j], renders', extracted')
    BY <2>1 DEF FiguresInv
  <2>5. QED
    BY <2>2, <2>3, <2>4 DEF FiguresInv
<1>7. QED
  BY <1>1, <1>2, <1>3, <1>4, <1>5, <1>6 DEF Next

THEOREM FiguresInvariant == Spec => []FiguresInv
<1>1. FiguresInv /\ [Next]_vars => FiguresInv'
  BY Keeps
<1>2. QED
  BY <1>1, InitHolds, PTL DEF Spec

(* Every variable keeps its type: what the columns of the jobs and the rows  *)
(* of vision_jobs.py, figure_rendering.py and upload.py can hold.            *)
THEOREM FiguresTypeCorrect == Spec => []FiguresTypeOK
<1>1. FiguresInv => FiguresTypeOK
  BY DEF FiguresInv
<1>2. QED
  BY <1>1, FiguresInvariant, PTL

(* No row names an object that the storage does not hold, and no object is   *)
(* there without a row that names it, a step that still will, or a failure   *)
(* that left it: upload_book's clean-up and the order of put_bytes and COMMIT*)
(* in render_asset, however many images, jobs and failures there are.        *)
THEOREM RowsHave == Spec => []RowsHaveObjects
<1>1. FiguresInv => RowsHaveObjects
  <2> SUFFICES ASSUME FiguresInv PROVE RowsHaveObjects
    OBVIOUS
  <2>1. \A o : o \in Original <=> o = Source \/ o \in Assets
    BY FiguresAssumption DEF Original, Source, Assets
  <2>2. ASSUME NEW o
        PROVE  o \in Named <=> \/ book /\ o \in Original
                               \/ \E a \in Assets : \E n \in DOMAIN renders[a] : renders[a][n].key = o
    BY <2>1 DEF Named
  <2>3. ASSUME ~unsure, NEW o \in Named PROVE o \in objects
    <3>1. CASE book /\ o \in Original
      BY <2>3, <3>1 DEF FiguresInv, KeepsBook
    <3>2. CASE \E a \in Assets : \E n \in DOMAIN renders[a] : renders[a][n].key = o
      BY <3>2 DEF FiguresInv, RowKeys
    <3>3. QED
      BY <2>2, <2>3, <3>1, <3>2
  <2>4. ASSUME NEW o \in objects PROVE o \in Named \union Pending \union leaked
    <3>1. \/ o \in Original \/ o \in leaked
          \/ \E a \in Assets : \E n \in DOMAIN renders[a] : renders[a][n].key = o
          \/ \E j \in RenderJobs : job[j].pc = "row" /\ job[j].key = o
      BY <2>4 DEF FiguresInv, Covered, IsNamed
    <3>2. CASE o \in Original
      <4>1. CASE book
        BY <2>2, <3>2, <4>1
      <4>2. CASE ~book /\ ~UploadAt("end")
        BY <2>1, <3>2, <4>2 DEF Pending
      <4>3. CASE ~book /\ UploadAt("end")
        BY <2>4, <4>3 DEF FiguresInv, Uploading, UploadAt
      <4>4. QED
        BY <4>1, <4>2, <4>3
    <3>3. CASE \E j \in RenderJobs : job[j].pc = "row" /\ job[j].key = o
      BY <3>3 DEF Pending, At
    <3>4. QED
      BY <2>2, <3>1, <3>2, <3>3
  <2>5. QED
    BY <2>3, <2>4 DEF RowsHaveObjects
<1>2. QED
  BY <1>1, FiguresInvariant, PTL

(* "completed" is said only of a job that has done every asset, whatever     *)
(* failed and was delivered again, and "failed" in a job's first delivery    *)
(* only when nothing was done: process_vision_job, process_figure_render_job.*)
THEOREM VerdictsEarned == Spec => []VerdictsAreEarned
<1>1. FiguresInv => VerdictsAreEarned
  <2> SUFFICES ASSUME FiguresInv, NEW j \in Jobs
               PROVE  /\ job[j].status = "completed" => DoneBy(j) = Assets
                      /\ job[j].status = "failed" /\ job[j].deliveries = 1 =>
                           job[j].done = 0 /\ \A a \in Assets : <<j, a>> \notin extracted
    BY DEF VerdictsAreEarned
  <2>1. Tallied(j, job[j], extracted) /\ Earned(j, job[j], renders, extracted)
    BY JobIs DEF Loop
  <2>2. DoneBy(j) = Did(j, job[j], renders, extracted) /\ DoneBy(j) \in SUBSET Assets
    BY DEF DoneBy, Did
  <2>3. job[j].status = "completed" => DoneBy(j) = Assets
    BY <2>1, <2>2 DEF Earned
  <2>4. job[j].status = "failed" /\ job[j].deliveries = 1 =>
           job[j].done = 0 /\ \A a \in Assets : <<j, a>> \notin extracted
    BY <2>1 DEF Tallied
  <2>5. QED
    BY <2>3, <2>4
<1>2. QED
  BY <1>1, FiguresInvariant, PTL

(* Only a render job's own commit, or its taking over of a row, counts       *)
(* another asset as done.                                                    *)
Raises(j) == job'[j].done > job[j].done

LEMMA OtherSteps ==
  ASSUME FiguresInv, NEW k \in Jobs, NEW h, Set(k, h), h.done \in Nat, h.done <= job[k].done, NEW j \in Jobs
  PROVE  ~Raises(j)
<1>1. PICK x \in JobRow, y \in JobRow : x = job[j] /\ y = job[k]
  BY JobIs
<1>2. x.done \in Nat /\ y.done \in Nat
  BY DEF JobRow
<1>3. job'[j] = IF j = k THEN h ELSE x
  BY <1>1 DEF FiguresInv, FiguresTypeOK, Set
<1>4. QED
  BY <1>1, <1>2, <1>3 DEF Raises

LEMMA JobsRest ==
  ASSUME FiguresInv, UNCHANGED job, NEW j \in Jobs
  PROVE  ~Raises(j)
<1>1. PICK x \in JobRow : x = job[j] /\ x = job'[j]
  BY JobIs
<1>2. x.done \in Nat
  BY DEF JobRow
<1>3. QED
  BY <1>1, <1>2 DEF Raises

(* A step that leaves the column done as it was.                             *)
LEMMA DoneStays ==
  ASSUME FiguresInv, NEW j \in Jobs, NEW k \in Jobs,
         \/ Process(k) \/ Extract(k) \/ ReadPosition(k) \/ PositionTaken(k)
         \/ Skip(k) \/ ReadSegments(k) \/ Draw(k) \/ PutRender(k) \/ DrawFails(k)
  PROVE  ~Raises(j)
<1>1. PICK x \in JobRow : x = job[k]
  BY JobIs
<1>2. x.done \in Nat
  BY DEF JobRow
<1>3. ASSUME NEW h, Set(k, h), h.done = x.done \/ h.done = 0 PROVE ~Raises(j)
  BY <1>1, <1>2, <1>3, OtherSteps
<1>4. CASE Create(k)
  <2>1. PICK mode : Set(k, [NoJob EXCEPT !.status = "queued", !.mode = mode])
    BY <1>4 DEF Create
  <2>2. [NoJob EXCEPT !.status = "queued", !.mode = mode].done = 0
    BY DEF NoJob
  <2>3. QED
    BY <1>3, <2>1, <2>2
<1>5. CASE Begin(k)
  <2>1. PICK h : Set(k, h) /\ h = [x EXCEPT !.status = "running", !.pc = "enter", !.at = 1, !.deliveries = @ + 1]
    BY <1>1, <1>5 DEF Begin
  <2>2. h.done = x.done
    BY <2>1 DEF JobRow
  <2>3. QED
    BY <1>3, <2>1, <2>2
<1>6. CASE Finish(k)
  <2>1. PICK v, h : Set(k, h) /\ h = [x EXCEPT !.status = v, !.pc = "idle"]
    BY <1>1, <1>6 DEF Finish
  <2>2. h.done = x.done
    BY <2>1 DEF JobRow
  <2>3. QED
    BY <1>3, <2>1, <2>2
<1>7. CASE Stop(k)
  <2>1. PICK h : Set(k, h) /\ h = Idle(x)
    BY <1>1, <1>7 DEF Stop
  <2>2. h.done = x.done
    BY <2>1, IdleIs
  <2>3. QED
    BY <1>3, <2>1, <2>2
<1>8. CASE Recover(k)
  <2>1. PICK h : Set(k, h) /\ h = [x EXCEPT !.status = "queued"]
    BY <1>1, <1>8 DEF Recover
  <2>2. h.done = x.done
    BY <2>1 DEF JobRow
  <2>3. QED
    BY <1>3, <2>1, <2>2
<1>9. CASE Extract(k)
  <2>1. PICK r, h : Set(k, h) /\ h = [x EXCEPT !.pc = "extracted", !.regions = r, !.seen = segments]
    BY <1>1, <1>9 DEF Extract
  <2>2. h.done = x.done
    BY <2>1 DEF JobRow
  <2>3. QED
    BY <1>3, <2>1, <2>2
<1>10. CASE PositionTaken(k)
  <2>1. PICK h : Set(k, h) /\ h = Idle(x)
    BY <1>1, <1>10 DEF PositionTaken
  <2>2. h.done = x.done
    BY <2>1, IdleIs
  <2>3. QED
    BY <1>3, <2>1, <2>2
<1>11. CASE PutRender(k)
  <2>1. PICK h : Set(k, h) /\ h = [x EXCEPT !.pc = "row", !.key = keys + 1]
    BY <1>1, <1>11 DEF PutRender
  <2>2. h.done = x.done
    BY <2>1 DEF JobRow
  <2>3. QED
    BY <1>3, <2>1, <2>2
<1>12. CASE Skip(k) \/ DrawFails(k) \/ AssetFails(k)
  <2>1. PICK h : Set(k, Counted(h)) /\ (h = [x EXCEPT !.skipped = @ + 1] \/ h = [x EXCEPT !.failed = @ + 1])
    BY <1>1, <1>12 DEF Skip, DrawFails, AssetFails
  <2>2. PICK f \in Nat, s \in Nat : f = x.failed + 1 /\ s = x.skipped + 1
    BY DEF JobRow
  <2>3. h = [x EXCEPT !.skipped = s] \/ h = [x EXCEPT !.failed = f]
    BY <2>1, <2>2
  <2>4. h \in JobRow /\ h.done = x.done
    BY <2>2, <2>3 DEF JobRow
  <2>5. Counted(h).done = x.done
    BY <2>4, CountedIs
  <2>6. QED
    BY <1>3, <2>1, <2>5
<1>13. CASE ReadPosition(k) \/ Draw(k) \/ ReadSegments(k)
  <2>1. PICK p, s, l, h : /\ Set(k, h)
                          /\ \/ h = [x EXCEPT !.pc = p, !.last = l] \/ h = [x EXCEPT !.pc = p]
                             \/ h = [x EXCEPT !.pc = p, !.seen = s]
    BY <1>1, <1>13 DEF ReadPosition, Draw, ReadSegments
  <2>2. h.done = x.done
    BY <2>1 DEF JobRow
  <2>3. QED
    BY <1>3, <2>1, <2>2
<1>14. QED
  BY <1>4, <1>5, <1>6, <1>7, <1>8, <1>9, <1>10, <1>11, <1>12, <1>13 DEF Process

(* A job does not raise the column of another.                               *)
LEMMA OwnColumn ==
  ASSUME FiguresInv, NEW j \in Jobs, NEW k \in Jobs, NEW h, Set(k, h), j # k
  PROVE  ~Raises(j)
<1>1. PICK x \in JobRow : x = job[j] /\ x = job'[j]
  BY JobIs DEF FiguresInv, FiguresTypeOK, Set
<1>2. x.done \in Nat
  BY DEF JobRow
<1>3. QED
  BY <1>1, <1>2 DEF Raises

(* A row at the end is the latest of its mode.                               *)
LEMMA LatestIsLast ==
  ASSUME NEW drawn \in Seq(RenderRow), NEW new \in RenderRow, NEW all, all = Insert(drawn, Len(drawn), new)
  PROVE  Latest(all, new.mode) = new
<1>1. PICK l \in Nat : l = Len(drawn)
  BY LenProperties
<1>2. Inserts(drawn, Len(drawn), l, new, Insert(drawn, l, new))
  BY <1>1, Inserted
<1>3. all \in Seq(RenderRow) /\ Len(all) = l + 1 /\ all[l + 1] = new
  BY <1>1, <1>2 DEF Inserts
<1>4. DOMAIN all = 1..l + 1
  BY <1>3, LenProperties
<1>5. l + 1 \in OfMode(all, new.mode) /\ \A n \in OfMode(all, new.mode) : n \in 1..l + 1
  BY <1>3, <1>4 DEF OfMode
<1>6. Max(OfMode(all, new.mode)) = l + 1
  <2>1. PICK S : S = OfMode(all, new.mode)
    OBVIOUS
  <2>2. l + 1 \in S /\ \A n \in S : l + 1 >= n /\ n \in Nat
    BY <1>5, <2>1
  <2>3. \A m \in S : (\A n \in S : m >= n) => m = l + 1
    BY <2>2
  <2>4. Max(S) = l + 1
    BY <2>2, <2>3 DEF Max
  <2>5. QED
    BY <2>1, <2>4
<1>7. QED
  BY <1>3, <1>6 DEF Latest

(* The newest row of a mode shows what the job that counts it has read, also *)
(* when the text went back to what it was: render_asset compares with the    *)
(* last row and with no other, and its rows are in the order of created_at    *)
(* unless another job drew the same asset at the same time.                  *)
THEOREM RendersCurrent == Spec => RendersAreCurrent
<1>1. FiguresInv /\ [Next]_vars =>
        [\A j \in RenderJobs :
           job'[j].done > job[j].done /\ j \notin raced =>
             Latest(renders'[job[j].at], job[j].mode).regions = job[j].seen[1]]_vars
  <2> SUFFICES ASSUME FiguresInv, [Next]_vars, NEW j \in RenderJobs, Raises(j), j \notin raced
               PROVE  Latest(renders'[job[j].at], job[j].mode).regions = job[j].seen[1]
    BY DEF Raises
  <2>1. j \in Jobs /\ j \notin VisionJobs
    BY FiguresAssumption DEF Jobs
  <2>2. CASE Upload
    <3>1. UNCHANGED job
      BY <2>2 DEF Upload, SaveSource, PutImage, CommitBook, Refreshed, UploadFails, DeleteKey, DeleteFails,
                  ParseFails, UploadStops
    <3>2. QED
      BY <2>1, <3>1, JobsRest
  <2>3. CASE \E i \in DOMAIN segments : Translate(i)
    BY <2>1, <2>3, JobsRest DEF Translate
  <2>4. CASE UNCHANGED vars
    BY <2>1, <2>4, JobsRest DEF vars
  <2>5. CASE \E k \in Jobs : Process(k)
    BY <2>1, <2>5, DoneStays
  <2>6. ASSUME NEW k \in VisionJobs,
               Extract(k) \/ ReadPosition(k) \/ CommitExtraction(k) \/ PositionTaken(k)
        PROVE  FALSE
    <3>1. k \in Jobs /\ k # j
      BY <2>1 DEF Jobs
    <3>2. CASE CommitExtraction(k)
      BY <2>1, <3>1, <3>2, OwnColumn DEF CommitExtraction
    <3>3. QED
      BY <2>1, <2>6, <3>1, <3>2, DoneStays
  <2>7. ASSUME NEW k \in RenderJobs,
               Skip(k) \/ ReadSegments(k) \/ Draw(k) \/ PutRender(k) \/ DrawFails(k)
        PROVE  FALSE
    <3>1. k \in Jobs
      BY DEF Jobs
    <3>2. QED
      BY <2>1, <2>7, <3>1, DoneStays
  <2>8. ASSUME NEW k \in RenderJobs, Reuse(k)
        PROVE  Latest(renders'[job[j].at], job[j].mode).regions = job[j].seen[1]
    <3>1. k \in Jobs
      BY DEF Jobs
    <3>2. k = j
      <4>1. \E h : Set(k, h)
        BY <2>8 DEF Reuse
      <4>2. QED
        BY <2>1, <3>1, <4>1, OwnColumn
    <3>3. QED
      BY <2>8, <3>2 DEF Reuse, Reusable
  <2>9. ASSUME NEW k \in RenderJobs, CommitRender(k)
        PROVE  Latest(renders'[job[j].at], job[j].mode).regions = job[j].seen[1]
    <3>1. k \in Jobs
      BY DEF Jobs
    <3>2. k = j
      BY <2>1, <2>9, <3>1, OwnColumn DEF CommitRender
    <3>3. PICK a \in Assets : a = job[j].at
      BY <2>1, <2>9, <3>2, JobIs DEF CommitRender, At
    <3>4. PICK new \in RenderRow, n \in 0..Len(renders[job[j].at]) :
            /\ new.mode = job[j].mode /\ new.regions = job[j].seen[1]
            /\ j \notin raced => n = Len(renders[job[j].at])
            /\ renders' = [renders EXCEPT ![job[j].at] = Insert(renders[job[j].at], n, new)]
      BY <2>9, <3>2, RowAdded
    <3>5. PICK drawn \in Seq(RenderRow) : drawn = renders[a]
      BY RowsAre
    <3>6. PICK all : all = Insert(drawn, Len(drawn), new)
      OBVIOUS
    <3>7. renders'[a] = all
      BY <3>3, <3>4, <3>5, <3>6 DEF FiguresInv, FiguresTypeOK
    <3>8. Latest(all, new.mode) = new
      BY <3>4, <3>6, LatestIsLast
    <3>9. QED
      BY <3>3, <3>4, <3>7, <3>8
  <2>10. QED
    BY <2>2, <2>3, <2>4, <2>5, <2>6, <2>7, <2>8, <2>9 DEF Next
<1>2. QED
  BY <1>1, FiguresInvariant, PTL DEF Spec, RendersAreCurrent

-------------------------------------------------------------------------------
(* The texts of an image.                                                    *)

(* What a vision job has read is still so, but for what has been added since *)
(* and what a translation has revived.                                       *)
ReadBy(h) ==
  /\ h.seen \in Seq(Segment) /\ Len(h.seen) <= Len(segments)
  /\ \A i \in 1..Len(h.seen) :
       /\ segments[i].asset = h.seen[i].asset /\ segments[i].text = h.seen[i].text
       /\ segments[i].live => h.seen[i].live \/ i \in stray

Numbered(h) == h.last <= Len(segments) /\ Len(h.seen) <= h.last

Follows(h) ==
  /\ h.pc \in {"extracted", "numbered"} => ReadBy(h)
  /\ h.pc = "numbered" => Numbered(h)

TextsInv ==
  /\ FigureTextsAreUnique
  /\ \A j \in VisionJobs : Follows(job[j])

(* More segments, of which those that were there have kept what they say,    *)
(* and become live only as stray ones.                                       *)
MoreTexts ==
  /\ segments' \in Seq(Segment) /\ Len(segments) <= Len(segments')
  /\ \A i \in 1..Len(segments) :
       /\ segments'[i].asset = segments[i].asset /\ segments'[i].text = segments[i].text
       /\ segments'[i].live => segments[i].live \/ i \in stray'
  /\ \A i \in stray : i \in stray'

LEMMA ReadsLast ==
  ASSUME FiguresInv, MoreTexts, NEW h \in JobRow
  PROVE  /\ ReadBy(h) => ReadBy(h)'
         /\ Numbered(h) => Numbered(h)'
<1>1. PICK m \in Nat : m = Len(segments)
  BY SegmentsAre
<1>2. PICK n \in Nat : n = Len(segments') /\ m <= n
  BY <1>1, LenProperties DEF MoreTexts
<1>3. ASSUME ReadBy(h) PROVE ReadBy(h)'
  <2>1. PICK k \in Nat : k = Len(h.seen) /\ k <= m
    BY <1>1, <1>3, LenProperties DEF ReadBy
  <2>2. ASSUME NEW i \in 1..k
        PROVE  /\ segments'[i].asset = h.seen[i].asset /\ segments'[i].text = h.seen[i].text
               /\ segments'[i].live => h.seen[i].live \/ i \in stray'
    <3>1. i \in 1..Len(segments) /\ i \in 1..Len(h.seen)
      BY <1>1, <2>1
    <3>2. QED
      BY <1>3, <3>1 DEF ReadBy, MoreTexts
  <2>3. h.seen \in Seq(Segment) /\ Len(h.seen) <= Len(segments')
    BY <1>2, <1>3, <2>1 DEF ReadBy
  <2>4. QED
    BY <2>1, <2>2, <2>3 DEF ReadBy
<1>4. ASSUME Numbered(h) PROVE Numbered(h)'
  <2>1. h.last \in Nat /\ h.last <= m
    BY <1>1, <1>4 DEF Numbered, JobRow
  <2>2. h.last <= Len(segments')
    BY <1>2, <2>1
  <2>3. QED
    BY <1>4, <2>2 DEF Numbered
<1>5. QED
  BY <1>3, <1>4

(* No segment is added.                                                      *)
LEMMA NoTextAdded ==
  ASSUME FiguresInv, TextsInv, MoreTexts, Len(segments') = Len(segments),
         \A i \in DOMAIN segments : segments'[i].extraction = segments[i].extraction
  PROVE  FigureTextsAreUnique'
<1>1. DOMAIN segments' = DOMAIN segments /\ DOMAIN segments = 1..Len(segments)
  BY SegmentsAre, LenProperties DEF MoreTexts
<1>2. ASSUME NEW i \in DOMAIN segments \ stray', NEW k \in DOMAIN segments \ stray',
             segments'[i].live, segments'[k].live,
             segments'[i].asset = segments'[k].asset, segments'[i].text = segments'[k].text
      PROVE  segments'[i].extraction = segments'[k].extraction
  <2>1. i \in 1..Len(segments) /\ k \in 1..Len(segments)
    BY <1>1
  <2>2. i \notin stray /\ k \notin stray
    BY DEF MoreTexts
  <2>3. /\ segments[i].live /\ segments[k].live
        /\ segments[i].asset = segments[k].asset /\ segments[i].text = segments[k].text
    BY <1>2, <2>1 DEF MoreTexts
  <2>4. segments[i].extraction = segments[k].extraction
    BY <2>2, <2>3 DEF TextsInv, FigureTextsAreUnique
  <2>5. QED
    BY <2>4
<1>3. QED
  BY <1>1, <1>2 DEF FigureTextsAreUnique

(* The step of a vision job that reads, or that counts what it has read, and *)
(* every step of the others.                                                 *)
LEMMA TextsTurn ==
  ASSUME FiguresInv, TextsInv, MoreTexts, FigureTextsAreUnique', NEW j \in Jobs, NEW h, Set(j, h),
         j \in VisionJobs => Follows(h)'
  PROVE  TextsInv'
<1>1. ASSUME NEW q \in VisionJobs PROVE Follows(job[q])'
  <2>1. q \in Jobs
    BY DEF Jobs
  <2>2. PICK g : g = job'[q]
    OBVIOUS
  <2>3. CASE q = j
    <3>1. g = h
      BY <2>1, <2>2, <2>3 DEF Set, FiguresInv, FiguresTypeOK
    <3>2. Follows(g)'
      BY <1>1, <2>3, <3>1
    <3>3. QED
      BY <2>2, <3>2 DEF Follows, ReadBy, Numbered
  <2>4. CASE q # j
    <3>1. g = job[q] /\ g \in JobRow
      BY <2>1, <2>2, <2>4 DEF Set, FiguresInv, FiguresTypeOK
    <3>2. Follows(g)
      BY <3>1 DEF TextsInv
    <3>3. Follows(g)'
      BY <3>1, <3>2, ReadsLast DEF Follows
    <3>4. QED
      BY <2>2, <3>3 DEF Follows, ReadBy, Numbered
  <2>5. QED
    BY <2>3, <2>4
<1>2. QED
  BY <1>1 DEF TextsInv

LEMMA TextsStay ==
  ASSUME FiguresInv, TextsInv, UNCHANGED <<segments, stray>>
  PROVE  MoreTexts /\ FigureTextsAreUnique'
<1>1. PICK m \in Nat : m = Len(segments) /\ segments \in Seq(Segment)
  BY SegmentsAre
<1>2. MoreTexts
  BY <1>1 DEF MoreTexts
<1>3. FigureTextsAreUnique'
  BY DEF TextsInv, FigureTextsAreUnique
<1>4. QED
  BY <1>2, <1>3

LEMMA TextsRest ==
  ASSUME FiguresInv, TextsInv, UNCHANGED <<segments, stray, job>>
  PROVE  TextsInv'
  BY DEF TextsInv, FigureTextsAreUnique, Follows, ReadBy, Numbered

(* A step after which the job is not reading.                                *)
LEMMA TextsLeft ==
  ASSUME FiguresInv, TextsInv, UNCHANGED <<segments, stray>>, NEW j \in Jobs, NEW h, Set(j, h),
         h.pc \notin {"extracted", "numbered"}
  PROVE  TextsInv'
<1>1. Follows(h)'
  BY DEF Follows
<1>2. QED
  BY <1>1, TextsStay, TextsTurn

LEMMA ProcessTexts ==
  ASSUME FiguresInv, TextsInv, NEW j \in Jobs, Process(j) \/ PositionTaken(j)
  PROVE  TextsInv'
<1>1. PICK x \in JobRow : x = job[j]
  BY JobIs
<1>2. UNCHANGED <<segments, stray>>
  BY DEF Process, Create, Begin, AssetFails, Finish, Stop, Recover, PositionTaken, NoSegment
<1>3. CASE Create(j)
  <2>1. PICK mode : Set(j, [NoJob EXCEPT !.status = "queued", !.mode = mode])
    BY <1>3 DEF Create
  <2>2. [NoJob EXCEPT !.status = "queued", !.mode = mode].pc = "idle"
    BY DEF NoJob
  <2>3. QED
    BY <1>2, <2>1, <2>2, TextsLeft
<1>4. CASE Begin(j)
  <2>1. PICK h : Set(j, h) /\ h = [x EXCEPT !.status = "running", !.pc = "enter", !.at = 1, !.deliveries = @ + 1]
    BY <1>1, <1>4 DEF Begin
  <2>2. h.pc = "enter"
    BY <2>1 DEF JobRow
  <2>3. QED
    BY <1>2, <2>1, <2>2, TextsLeft
<1>5. CASE AssetFails(j)
  <2>1. PICK h : h = [x EXCEPT !.failed = @ + 1] /\ Set(j, Counted(h))
    BY <1>1, <1>5 DEF AssetFails
  <2>2. x.failed + 1 \in Nat
    BY DEF JobRow
  <2>3. h \in JobRow
    BY <2>1, <2>2 DEF JobRow
  <2>4. QED
    BY <1>2, <2>1, <2>3, CountedIs, TextsLeft
<1>6. CASE Finish(j)
  <2>1. PICK v, h : Set(j, h) /\ h = [x EXCEPT !.status = v, !.pc = "idle"]
    BY <1>1, <1>6 DEF Finish
  <2>2. h.pc = "idle"
    BY <2>1 DEF JobRow
  <2>3. QED
    BY <1>2, <2>1, <2>2, TextsLeft
<1>7. CASE Stop(j) \/ PositionTaken(j)
  <2>1. Set(j, Idle(x))
    BY <1>1, <1>7 DEF Stop, PositionTaken
  <2>2. QED
    BY <1>2, <2>1, IdleIs, TextsLeft
<1>8. CASE Recover(j)
  <2>1. PICK h : Set(j, h) /\ h = [x EXCEPT !.status = "queued"]
    BY <1>1, <1>8 DEF Recover
  <2>2. h.pc = "idle"
    BY <1>1, <1>8, <2>1 DEF Recover, At, JobRow
  <2>3. QED
    BY <1>2, <2>1, <2>2, TextsLeft
<1>9. QED
  BY <1>3, <1>4, <1>5, <1>6, <1>7, <1>8 DEF Process

(* The steps of a render job say nothing of the texts.                       *)
LEMMA RenderTexts ==
  ASSUME FiguresInv, TextsInv, NEW j \in RenderJobs,
         \/ Skip(j) \/ ReadSegments(j) \/ Reuse(j) \/ Draw(j)
         \/ PutRender(j) \/ DrawFails(j) \/ CommitRender(j)
  PROVE  TextsInv'
<1>1. j \in Jobs /\ j \notin VisionJobs
  BY FiguresAssumption DEF Jobs
<1>2. UNCHANGED <<segments, stray>>
  BY DEF Skip, ReadSegments, Reuse, Draw, PutRender, DrawFails, CommitRender, NoSegment, ghosts
<1>3. PICK h : Set(j, h)
  BY DEF Skip, ReadSegments, Reuse, Draw, PutRender, DrawFails, CommitRender
<1>4. QED
  BY <1>1, <1>2, <1>3, TextsStay, TextsTurn

LEMMA ExtractTexts ==
  ASSUME FiguresInv, TextsInv, NEW j \in VisionJobs, Extract(j)
  PROVE  TextsInv'
<1> j \in Jobs
  BY DEF Jobs
<1>1. PICK x \in JobRow : x = job[j]
  BY JobIs
<1>2. UNCHANGED <<segments, stray>>
  BY DEF Extract, NoSegment
<1>3. PICK regions : Set(j, [x EXCEPT !.pc = "extracted", !.regions = regions, !.seen = segments])
  BY <1>1 DEF Extract
<1>4. PICK h : h = [x EXCEPT !.pc = "extracted", !.regions = regions, !.seen = segments]
  OBVIOUS
<1>5. h.pc = "extracted" /\ h.seen = segments
  BY <1>4 DEF JobRow
<1>6. PICK m \in Nat : m = Len(segments) /\ segments \in Seq(Segment)
  BY SegmentsAre
<1>7. Follows(h)'
  BY <1>2, <1>5, <1>6 DEF Follows, ReadBy
<1>8. QED
  BY <1>2, <1>3, <1>4, <1>7, TextsStay, TextsTurn

LEMMA PositionTexts ==
  ASSUME FiguresInv, TextsInv, NEW j \in VisionJobs, ReadPosition(j)
  PROVE  TextsInv'
<1> j \in Jobs
  BY DEF Jobs
<1>1. PICK x \in JobRow : x = job[j]
  BY JobIs
<1>2. UNCHANGED <<segments, stray>>
  BY DEF ReadPosition, NoSegment
<1>3. PICK m \in Nat : m = Len(segments)
  BY SegmentsAre
<1>4. PICK h : h = [x EXCEPT !.pc = "numbered", !.last = m]
  OBVIOUS
<1>5. Set(j, h)
  BY <1>1, <1>3, <1>4 DEF ReadPosition
<1>6. h.pc = "numbered" /\ h.last = m /\ h.seen = x.seen
  BY <1>4 DEF JobRow
<1>7. ReadBy(x)
  BY <1>1 DEF TextsInv, Follows, ReadPosition, At
<1>8. ReadBy(h)' /\ Numbered(h)'
  BY <1>2, <1>3, <1>6, <1>7 DEF ReadBy, Numbered
<1>9. QED
  BY <1>2, <1>5, <1>6, <1>8, TextsStay, TextsTurn DEF Follows

(* A translation that revives a segment makes it a stray one.                *)
LEMMA TranslateTexts ==
  ASSUME FiguresInv, FiguresInv', TextsInv, NEW i \in DOMAIN segments, Translate(i)
  PROVE  TextsInv'
<1>1. PICK w \in {1, 2} : segments' = [segments EXCEPT ![i].translation = w, ![i].live = TRUE]
  BY DEF Translate
<1>2. PICK n \in Nat : n = Len(segments) /\ DOMAIN segments = 1..n
  BY SegmentsAre
<1>3. DOMAIN segments' = 1..n
  BY <1>1, <1>2
<1>4. segments' \in Seq(Segment)
  BY DEF FiguresInv, FiguresTypeOK
<1>5. Len(segments') = n
  BY <1>2, <1>3, <1>4, LenProperties
<1>6. stray' = IF segments[i].live THEN stray ELSE stray \union {i}
  BY DEF Translate
<1>7. ASSUME NEW k \in 1..n
      PROVE  /\ segments'[k].asset = segments[k].asset /\ segments'[k].text = segments[k].text
             /\ segments'[k].extraction = segments[k].extraction
             /\ segments'[k].live => segments[k].live \/ k \in stray'
  <2>1. PICK s \in Segment : s = segments[k]
    BY <1>2, SegmentsAre
  <2>2. PICK r : r = [s EXCEPT !.translation = w, !.live = TRUE]
    OBVIOUS
  <2>3. r.asset = s.asset /\ r.text = s.text /\ r.extraction = s.extraction
    BY <2>2 DEF Segment
  <2>4. CASE k = i
    <3>1. segments'[k] = r
      BY <1>1, <1>2, <2>1, <2>2, <2>4
    <3>2. QED
      BY <1>6, <2>1, <2>3, <2>4, <3>1
  <2>5. CASE k # i
    BY <1>1, <1>2, <2>5
  <2>6. QED
    BY <2>4, <2>5
<1>8. MoreTexts
  BY <1>2, <1>4, <1>5, <1>6, <1>7 DEF MoreTexts
<1>9. FigureTextsAreUnique'
  BY <1>2, <1>5, <1>7, <1>8, NoTextAdded
<1>10. UNCHANGED job
  BY DEF Translate
<1>11. ASSUME NEW q \in VisionJobs PROVE Follows(job[q])'
  <2>1. PICK g \in JobRow : g = job[q]
    BY JobIs DEF Jobs
  <2>2. Follows(g)
    BY <2>1 DEF TextsInv
  <2>3. Follows(g)'
    BY <1>8, <2>2, ReadsLast DEF Follows
  <2>4. QED
    BY <1>10, <2>1, <2>3 DEF Follows, ReadBy, Numbered
<1>12. QED
  BY <1>9, <1>11 DEF TextsInv

(* The texts that an extraction adds: no other live segment of the image has *)
(* one of them, unless it was added between the two reads, or is stray.      *)
LEMMA ExtractionTexts ==
  ASSUME FiguresInv, FiguresInv', TextsInv, NEW j \in VisionJobs, CommitExtraction(j)
  PROVE  TextsInv'
<1> j \in Jobs
  BY DEF Jobs
<1>1. PICK x \in JobRow : x = job[j] /\ x.at \in Assets
  BY JobIs DEF CommitExtraction, At
<1>2. PICK l \in Nat : \E texts \in [1..l -> NewTexts(j)] : Extracts(j, l, texts)
  BY ExtractionIs
<1>3. PICK texts \in [1..l -> NewTexts(j)] : Extracts(j, l, texts)
  BY <1>2
<1>4. PICK m \in Nat : m = Len(segments) /\ DOMAIN segments = 1..m
  BY SegmentsAre
<1>5. PICK old : /\ old = Kept(j) /\ old \in Seq(Segment) /\ Len(old) = m
                 /\ \A i \in 1..m :
                      /\ old[i].asset = segments[i].asset /\ old[i].text = segments[i].text
                      /\ old[i].extraction = segments[i].extraction
                      /\ old[i].live => segments[i].live
  BY <1>4, KeptType
<1>6. PICK new : /\ new = Added(j, texts) /\ new \in Seq(Segment) /\ Len(new) = l
                 /\ \A n \in 1..l : /\ new[n].asset = x.at /\ new[n].text = texts[n]
                                    /\ new[n].extraction = m + 1
  BY <1>1, <1>3, <1>4, AddedType DEF Extracts
<1>7. segments' = old \o new
  BY <1>3, <1>5, <1>6 DEF Extracts
<1>8. /\ segments' \in Seq(Segment) /\ Len(segments') = m + l /\ DOMAIN segments' = 1..(m + l)
      /\ \A i \in 1..m : segments'[i] = old[i]
      /\ \A i \in (m + 1)..(m + l) : segments'[i] = new[i - m]
  <2>1. /\ old \o new \in Seq(Segment) /\ Len(old \o new) = m + l
        /\ \A i \in 1..(m + l) : (old \o new)[i] = IF i <= m THEN old[i] ELSE new[i - m]
    BY <1>5, <1>6, ConcatProperties
  <2>2. DOMAIN (old \o new) = 1..(m + l)
    BY <2>1, LenProperties
  <2>3. QED
    BY <1>7, <2>1, <2>2
<1>9. stray' = IF x.last = Len(x.seen) THEN stray ELSE stray \union {m + n : n \in 1..l}
  BY <1>1, <1>3, <1>4 DEF Extracts
<1>10. \A i \in stray : i \in stray'
  BY <1>9
<1>11. MoreTexts
  BY <1>4, <1>5, <1>8, <1>10 DEF MoreTexts
<1>12. ReadBy(x)
  BY <1>1 DEF TextsInv, Follows, CommitExtraction, At
<1>13. l = 0 \/ m = x.last
  BY <1>1, <1>3, <1>4 DEF CommitExtraction, PositionsFree
<1>14. ASSUME NEW i \in 1..m, NEW n \in 1..l, i \notin stray', m + n \notin stray',
              old[i].live, old[i].asset = x.at, old[i].text = texts[n]
       PROVE  FALSE
  <2>1. x.last = Len(x.seen) /\ i \notin stray
    BY <1>9, <1>10, <1>14
  <2>2. m = Len(x.seen)
    BY <1>13, <2>1
  <2>3. x.seen \in Seq(Segment)
    BY <1>12 DEF ReadBy
  <2>4. i \in DOMAIN x.seen
    BY <2>2, <2>3, LenProperties
  <2>5. x.seen[i].asset = x.at /\ x.seen[i].text = texts[n] /\ x.seen[i].live
    <3>1. segments[i].live /\ segments[i].asset = x.at /\ segments[i].text = texts[n]
      BY <1>5, <1>14
    <3>2. i \in 1..Len(x.seen)
      BY <2>2
    <3>3. QED
      BY <1>12, <2>1, <3>1, <3>2 DEF ReadBy
  <2>6. texts[n] \in NewTexts(j)
    BY <1>3
  <2>7. QED
    BY <1>1, <2>4, <2>5, <2>6 DEF NewTexts
<1>15. FigureTextsAreUnique'
  <2>1. ASSUME NEW i \in (1..(m + l)) \ stray', NEW k \in (1..(m + l)) \ stray',
               segments'[i].live, segments'[k].live,
               segments'[i].asset = segments'[k].asset, segments'[i].text = segments'[k].text
        PROVE  segments'[i].extraction = segments'[k].extraction
    <3>1. CASE i <= m /\ k <= m
      <4>1. i \in 1..m /\ k \in 1..m /\ i \notin stray /\ k \notin stray
        BY <1>10, <3>1
      <4>2. /\ segments[i].live /\ segments[k].live
            /\ segments[i].asset = segments[k].asset /\ segments[i].text = segments[k].text
            /\ segments'[i].extraction = segments[i].extraction
            /\ segments'[k].extraction = segments[k].extraction
        BY <1>5, <1>8, <2>1, <4>1
      <4>3. segments[i].extraction = segments[k].extraction
        BY <1>4, <4>1, <4>2 DEF TextsInv, FigureTextsAreUnique
      <4>4. QED
        BY <4>2, <4>3
    <3>2. CASE i > m /\ k > m
      <4>1. i \in (m + 1)..(m + l) /\ k \in (m + 1)..(m + l) /\ i - m \in 1..l /\ k - m \in 1..l
        BY <3>2
      <4>2. QED
        BY <1>6, <1>8, <4>1
    <3>3. CASE i <= m /\ k > m
      <4>1. PICK n \in 1..l : k = m + n /\ k - m = n /\ k \in (m + 1)..(m + l) /\ i \in 1..m
        BY <3>3
      <4>2. segments'[i] = old[i] /\ segments'[k] = new[n]
        BY <1>8, <4>1
      <4>3. old[i].live /\ old[i].asset = x.at /\ old[i].text = texts[n]
        BY <1>6, <2>1, <4>1, <4>2
      <4>4. QED
        BY <1>14, <2>1, <4>1, <4>3
    <3>4. CASE i > m /\ k <= m
      <4>1. PICK n \in 1..l : i = m + n /\ i - m = n /\ i \in (m + 1)..(m + l) /\ k \in 1..m
        BY <3>4
      <4>2. segments'[k] = old[k] /\ segments'[i] = new[n]
        BY <1>8, <4>1
      <4>3. old[k].live /\ old[k].asset = x.at /\ old[k].text = texts[n]
        BY <1>6, <2>1, <4>1, <4>2
      <4>4. QED
        BY <1>14, <2>1, <4>1, <4>3
    <3>5. QED
      BY <3>1, <3>2, <3>3, <3>4
  <2>2. QED
    BY <1>8, <2>1 DEF FigureTextsAreUnique
<1>16. PICK h : h = [x EXCEPT !.done = @ + 1] /\ Set(j, Counted(h))
  BY <1>1 DEF CommitExtraction
<1>17. h \in JobRow
  <2>1. x.done + 1 \in Nat
    BY DEF JobRow
  <2>2. QED
    BY <1>16, <2>1 DEF JobRow
<1>18. Follows(Counted(h))'
  BY <1>17, CountedIs DEF Follows
<1>19. QED
  BY <1>11, <1>15, <1>16, <1>18, TextsTurn

LEMMA TextsKept == FiguresInv /\ FiguresInv' /\ TextsInv /\ [Next]_vars => TextsInv'
<1> SUFFICES ASSUME FiguresInv, FiguresInv', TextsInv, [Next]_vars PROVE TextsInv'
  OBVIOUS
<1>1. CASE Upload
  <2>1. UNCHANGED <<segments, stray, job>>
    BY <1>1 DEF Upload, SaveSource, PutImage, CommitBook, Refreshed, UploadFails, DeleteKey,
                DeleteFails, ParseFails, UploadStops, ghosts
  <2>2. QED
    BY <2>1, TextsRest
<1>2. ASSUME NEW j \in Jobs, Process(j) PROVE TextsInv'
  BY <1>2, ProcessTexts
<1>3. ASSUME NEW j \in VisionJobs,
             Extract(j) \/ ReadPosition(j) \/ CommitExtraction(j) \/ PositionTaken(j)
      PROVE  TextsInv'
  <2>1. j \in Jobs
    BY DEF Jobs
  <2>2. QED
    BY <1>3, <2>1, ExtractTexts, PositionTexts, ExtractionTexts, ProcessTexts
<1>4. ASSUME NEW j \in RenderJobs,
             \/ Skip(j) \/ ReadSegments(j) \/ Reuse(j) \/ Draw(j)
             \/ PutRender(j) \/ DrawFails(j) \/ CommitRender(j)
      PROVE  TextsInv'
  BY <1>4, RenderTexts
<1>5. ASSUME NEW i \in DOMAIN segments, Translate(i) PROVE TextsInv'
  BY <1>5, TranslateTexts
<1>6. CASE UNCHANGED vars
  <2>1. UNCHANGED <<segments, stray, job>>
    BY <1>6 DEF vars, ghosts
  <2>2. QED
    BY <2>1, TextsRest
<1>7. QED
  BY <1>1, <1>2, <1>3, <1>4, <1>5, <1>6 DEF Next

(* However many vision jobs read the same image at once, and however often   *)
(* they are interrupted: two of them do not both add a text of it, because   *)
(* the position the later one has read is taken (uq_segment_chapter_position *)
(* against _create_figure_segments).                                         *)
THEOREM FigureTextsUnique == Spec => []FigureTextsAreUnique
<1>1. Init => TextsInv
  <2> SUFFICES ASSUME Init PROVE TextsInv
    OBVIOUS
  <2>1. FigureTextsAreUnique
    BY DEF Init, FigureTextsAreUnique
  <2>2. ASSUME NEW j \in VisionJobs PROVE Follows(job[j])
    <3>1. job[j].pc = "idle"
      BY NoJobType DEF Init, Jobs
    <3>2. QED
      BY <3>1 DEF Follows
  <2>3. QED
    BY <2>1, <2>2 DEF TextsInv
<1>2. TextsInv => FigureTextsAreUnique
  BY DEF TextsInv
<1>3. QED
  BY <1>1, <1>2, TextsKept, FiguresInvariant, PTL DEF Spec
===============================================================================
