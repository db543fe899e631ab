----------------------------- MODULE BookQA_proofs -----------------------------
(***************************************************************************)
(* Proofs about BookQA, for any book, glossary, number of reports and of   *)
(* decisions, and any number of changes under them.                        *)
(***************************************************************************)
EXTENDS BookQA, FiniteSetTheorems, TLAPS

-------------------------------------------------------------------------------
(* Types.                                                                    *)

Text == [written : BOOLEAN, kept : SUBSET Terms]

Keys == {<<r, t, s>> : r \in Reports, t \in Terms, s \in Segments}

Stages == {"idle", "finals", "scan", "delete", "audit", "commit", "reviews", "insert", "done", "failed"}

Problems == {"coverage", "quality", "terminology", "reviews"}

ScoreSet == SUBSET (Segments \X {0, 100})

Report ==
  [pc : Stages, language : Languages \union {"none"}, texts : {<<>>} \union [Segments -> Text],
   scores : ScoreSet, final : SUBSET Segments,
   scanned : SUBSET Keys, deleted : SUBSET Keys, found : SUBSET Places, chances : Nat,
   problems : SUBSET Problems, overall : Nat, still : BOOLEAN, alone : BOOLEAN]

Status == {"open", "resolved"}

Decision ==
  {NoEdit, [NoEdit EXCEPT !.pc = "done"]}
    \union [pc : {"loaded"}, issue : Keys, loaded : Status, wanted : Status]

BookTypeOK ==
  /\ glossary \in SUBSET Terms
  /\ texts \in [Segments -> Text]
  /\ finals \in [Languages -> [Segments -> {"none", "unscored", "zero", "good"}]]
  /\ verdicts \in [Languages -> [Segments -> {"none", "pending", "resolved"}]]
  /\ DOMAIN issues \in SUBSET Keys /\ issues \in [DOMAIN issues -> Status]
  /\ report \in [Reports -> Report]
  /\ edit \in [Editors -> Decision]
  /\ events \in Nat

(* A book is small when no rounding hides a problem of it: see               *)
(* PercentIsLow and FullScore.                                               *)
SmallBook == Cardinality(Segments) <= 1818 /\ Cardinality(Places) <= 3999

-------------------------------------------------------------------------------
(* Percentages.                                                              *)

LEMMA PercentType ==
  ASSUME NEW n \in Nat, NEW d \in Nat, n <= d
  PROVE  Percent(n, d) \in Nat /\ Percent(n, d) <= 10000
<1>1. CASE d = 0
  BY <1>1 DEF Percent
<1>2. CASE d > 0
  <2> DEFINE q == (20000 * n + d) \div (2 * d)
  <2>1. q \in Int /\ q * (2 * d) <= 20000 * n + d /\ 20000 * n + d < q * (2 * d) + 2 * d
    BY <1>2
  <2>2. q = Percent(n, d)
    BY <1>2 DEF Percent
  <2> HIDE DEF q
  <2>3. q >= 0
    <3>1. SUFFICES ASSUME q <= -1 PROVE FALSE
      BY <2>1
    <3>2. q * (2 * d) <= (-1) * (2 * d)
      BY <1>2, <2>1, <3>1
    <3>3. QED
      BY <1>2, <2>1, <3>2
  <2>4. q <= 10000
    <3>1. SUFFICES ASSUME q >= 10001 PROVE FALSE
      BY <2>1
    <3>2. q * (2 * d) >= 10001 * (2 * d)
      BY <1>2, <2>1, <3>1
    <3>3. QED
      BY <1>2, <2>1, <3>2
  <2>5. q \in Int
    BY <2>1
  <2>6. q \in Nat
    BY <2>3, <2>5
  <2>7. QED
    BY <2>2, <2>4, <2>6
<1>3. QED
  BY <1>1, <1>2

(* Nothing missing is all of it, however many there are.                     *)
LEMMA PercentFull ==
  ASSUME NEW d \in Nat
  PROVE  Percent(d, d) = 10000
<1>1. CASE d = 0
  BY <1>1 DEF Percent
<1>2. CASE d > 0
  <2> DEFINE q == (20000 * d + d) \div (2 * d)
  <2>1. q \in Int /\ q * (2 * d) <= 20000 * d + d /\ 20000 * d + d < q * (2 * d) + 2 * d
    BY <1>2
  <2>2. q = Percent(d, d)
    BY <1>2 DEF Percent
  <2> HIDE DEF q
  <2>3. q >= 10000
    <3>1. SUFFICES ASSUME q <= 9999 PROVE FALSE
      BY <2>1
    <3>2. q * (2 * d) <= 9999 * (2 * d)
      BY <1>2, <2>1, <3>1
    <3>3. QED
      BY <1>2, <2>1, <3>2
  <2>4. q <= 10000
    <3>1. Percent(d, d) <= 10000
      BY PercentType
    <3>2. QED
      BY <2>2, <3>1
  <2>5. q \in Int
    BY <2>1
  <2>6. q = 10000
    BY <2>3, <2>4, <2>5
  <2>7. QED
    BY <2>2, <2>6
<1>3. QED
  BY <1>1, <1>2

(* What one missing of d costs at least.                                     *)
LEMMA PercentIsLow ==
  ASSUME NEW n \in Nat, NEW d \in Nat, n < d
  PROVE  /\ d <= 1818 => Percent(n, d) <= 9994
         /\ d <= 3999 => Percent(n, d) <= 9997
<1> DEFINE q == (20000 * n + d) \div (2 * d)
<1>1. d > 0
  OBVIOUS
<1>2. q \in Int /\ q * (2 * d) <= 20000 * n + d
  BY <1>1
<1>3. q = Percent(n, d)
  BY <1>1 DEF Percent
<1> HIDE DEF q
<1>4. ASSUME d <= 1818 PROVE q <= 9994
  <2>1. SUFFICES ASSUME q >= 9995 PROVE FALSE
    BY <1>2
  <2>2. q * (2 * d) >= 9995 * (2 * d)
    BY <1>1, <1>2, <2>1
  <2>3. QED
    BY <1>1, <1>2, <1>4, <2>2
<1>5. ASSUME d <= 3999 PROVE q <= 9997
  <2>1. SUFFICES ASSUME q >= 9998 PROVE FALSE
    BY <1>2
  <2>2. q * (2 * d) >= 9998 * (2 * d)
    BY <1>1, <1>2, <2>1
  <2>3. QED
    BY <1>1, <1>2, <1>5, <2>2
<1>6. QED
  BY <1>3, <1>4, <1>5

(* The overall score: the weights of the four parts, in hundredths.          *)
Overall(coverage, quality, consistency, reviewed) ==
  (25 * coverage + 40 * quality + 25 * consistency + 10 * reviewed + 50) \div 100

(* It is full only if what is missing of the parts is rounded away.          *)
LEMMA FullScore ==
  ASSUME NEW c \in Nat, NEW q \in Nat, NEW t \in Nat, NEW v \in Nat,
         c <= 10000, q <= 10000, t <= 10000, v <= 10000
  PROVE  /\ Overall(c, q, t, v) \in Nat /\ Overall(c, q, t, v) <= 10000
         /\ Overall(c, q, t, v) = 10000 => c >= 9998 /\ q >= 9999 /\ t >= 9998 /\ v >= 9995
BY DEF Overall

-------------------------------------------------------------------------------
(* The invariant: what a report under way knows, as long as the book stands  *)
(* still and no other audit or decision is committed.                        *)

Under(x) == x.pc \notin {"idle", "done", "failed"}

Due(l)     == {y \in Places : y[1] \in glossary /\ TermLanguage[y[1]] = l}
Missing(l) == {y \in Due(l) : Lacks(texts[y[2]], y[1])}
Finals(l)  == {s \in Segments : finals[l][s] # "none"}
Scores(l)  == {<<s, Points(finals[l][s])>> : s \in ScoredFinals(l)}

Clean(l) ==
  /\ \A s \in Segments : texts[s].written
  /\ \A y \in Due(l) : y[1] \in texts[y[2]].kept
  /\ \A s \in Segments : finals[l][s] # "none" => finals[l][s] # "zero" /\ verdicts[l][s] # "pending"

(* The open issues are those it has seen, and then those it has deleted.     *)
Audits(x) ==
  /\ x.pc = "delete" /\ x.alone => x.scanned = Open
  /\ x.pc \in {"audit", "commit"} /\ x.alone => x.deleted = Open

Loads(x) == Under(x) =>
  /\ x.language \in Languages /\ x.texts \in [Segments -> Text]
  /\ x.still => x.texts = texts

Scored(x) == x.pc \in {"scan", "delete", "audit", "commit", "reviews"} =>
  /\ Cardinality(x.scores) <= Cardinality(Segments)
  /\ x.still => x.final = Finals(x.language) /\ x.scores = Scores(x.language)

Finds(x) == x.pc \in {"commit", "reviews"} =>
  /\ x.chances <= Cardinality(Places) /\ Cardinality(x.found) <= x.chances
  /\ x.still => x.found = Missing(x.language)

Judges(x) == x.pc = "insert" =>
  /\ x.overall <= 10000
  /\ SmallBook => /\ x.overall = 10000 => x.problems = {}
                  /\ x.still => (x.problems = {} <=> Clean(x.language))

Sound(x) == Audits(x) /\ Loads(x) /\ Scored(x) /\ Finds(x) /\ Judges(x)

BookInv == BookTypeOK /\ \A r \in Reports : Sound(report[r])

-------------------------------------------------------------------------------
(* The records that the actions give to a report.                            *)

LEMMA NoReportType ==
  NoReport \in Report /\ NoReport.pc = "idle" /\ NoReport.still /\ NoReport.alone
  BY DEF NoReport, Report, Stages, ScoreSet

LEMMA LeftRecord ==
  ASSUME NEW p \in {"done", "failed"}
  PROVE  LET y == [NoReport EXCEPT !.pc = p]
         IN  y \in Report /\ y.pc = p
  BY DEF NoReport, Report, Stages, ScoreSet

LEMMA StartedRecord ==
  ASSUME NEW l \in Languages, NEW t \in [Segments -> Text]
  PROVE  LET y == [NoReport EXCEPT !.pc = "finals", !.language = l, !.texts = t]
         IN  y \in Report /\ y.pc = "finals" /\ y.language = l /\ y.texts = t
  BY DEF NoReport, Report, Stages, ScoreSet

LEMMA StillRecord ==
  ASSUME NEW x \in Report
  PROVE  LET y == [x EXCEPT !.still = FALSE]
         IN  /\ y \in Report /\ y.pc = x.pc /\ y.language = x.language /\ y.texts = x.texts
             /\ y.scores = x.scores /\ y.final = x.final /\ y.found = x.found /\ y.chances = x.chances
             /\ y.scanned = x.scanned /\ y.deleted = x.deleted
             /\ y.problems = x.problems /\ y.overall = x.overall /\ ~y.still /\ y.alone = x.alone
  BY DEF Report

LEMMA AloneRecord ==
  ASSUME NEW x \in Report
  PROVE  LET y == [x EXCEPT !.alone = FALSE]
         IN  /\ y \in Report /\ y.pc = x.pc /\ y.language = x.language /\ y.texts = x.texts
             /\ y.scores = x.scores /\ y.final = x.final /\ y.found = x.found /\ y.chances = x.chances
             /\ y.scanned = x.scanned /\ y.deleted = x.deleted
             /\ y.problems = x.problems /\ y.overall = x.overall /\ y.still = x.still /\ ~y.alone
  BY DEF Report

LEMMA LoadedRecord ==
  ASSUME NEW i \in Keys, NEW a \in Status, NEW b \in Status
  PROVE  [pc |-> "loaded", issue |-> i, loaded |-> a, wanted |-> b] \in Decision
  BY DEF Decision

LEMMA NoEditType == NoEdit \in Decision /\ [NoEdit EXCEPT !.pc = "done"] \in Decision
  BY DEF Decision

-------------------------------------------------------------------------------
(* What a step does to the reports that do not take it.                      *)

Tables == <<glossary, texts, finals, verdicts>>

LEMMA SoundStays ==
  ASSUME NEW x, Sound(x), UNCHANGED Tables,
         Open' = Open \/ x.pc \notin {"delete", "audit", "commit"}
  PROVE  Sound(x)'
<1>1. Audits(x)'
  BY DEF Sound, Audits
<1>2. Loads(x)'
  BY DEF Sound, Loads, Tables
<1>3. Scored(x)'
  BY DEF Sound, Scored, Finals, Scores, ScoredFinals, Tables
<1>4. Finds(x)'
  BY DEF Sound, Finds, Missing, Due, Tables
<1>5. Judges(x)'
  BY DEF Sound, Judges, Clean, Due, Tables
<1>6. QED
  BY <1>1, <1>2, <1>3, <1>4, <1>5 DEF Sound

(* A report whose book has moved.                                            *)
LEMMA SoundMoved ==
  ASSUME NEW x \in Report, Sound(x), Open' = Open
  PROVE  Sound([x EXCEPT !.still = FALSE])'
<1> DEFINE y == [x EXCEPT !.still = FALSE]
<1>1. /\ y.pc = x.pc /\ y.language = x.language /\ y.texts = x.texts /\ y.scores = x.scores
      /\ y.found = x.found /\ y.chances = x.chances /\ y.scanned = x.scanned /\ y.deleted = x.deleted
      /\ y.problems = x.problems /\ y.overall = x.overall /\ ~y.still /\ y.alone = x.alone
  BY StillRecord
<1> HIDE DEF y
<1>2. Audits(y)'
  BY <1>1 DEF Sound, Audits
<1>3. Loads(y)' /\ Scored(y)'
  BY <1>1 DEF Sound, Loads, Scored, Under
<1>4. Finds(y)' /\ Judges(y)'
  BY <1>1 DEF Sound, Finds, Judges
<1>5. QED
  BY <1>2, <1>3, <1>4 DEF Sound, y

(* A report whose audit is no longer alone.                                  *)
LEMMA SoundJoined ==
  ASSUME NEW x \in Report, Sound(x), UNCHANGED Tables
  PROVE  Sound([x EXCEPT !.alone = FALSE])'
<1> DEFINE y == [x EXCEPT !.alone = FALSE]
<1>1. /\ y.pc = x.pc /\ y.language = x.language /\ y.texts = x.texts
      /\ y.scores = x.scores /\ y.final = x.final /\ y.found = x.found /\ y.chances = x.chances
      /\ y.problems = x.problems /\ y.overall = x.overall /\ y.still = x.still /\ ~y.alone
  BY AloneRecord
<1> HIDE DEF y
<1>2. Audits(y)'
  BY <1>1 DEF Audits
<1>3. Loads(y)'
  BY <1>1 DEF Sound, Loads, Under, Tables
<1>4. Scored(y)'
  BY <1>1 DEF Sound, Scored, Finals, Scores, ScoredFinals, Tables
<1>5. Finds(y)'
  BY <1>1 DEF Sound, Finds, Missing, Due, Tables
<1>6. Judges(y)'
  BY <1>1 DEF Sound, Judges, Clean, Due, Tables
<1>7. QED
  BY <1>2, <1>3, <1>4, <1>5, <1>6 DEF Sound, y

LEMMA SoundLeft ==
  ASSUME NEW x, x.pc \in {"idle", "done", "failed"}
  PROVE  Sound(x) /\ Sound(x)'
  BY DEF Sound, Audits, Loads, Under, Scored, Finds, Judges

LEMMA SoundNow ==
  ASSUME NEW q \in Reports, NEW y, report'[q] = y, Sound(y)'
  PROVE  Sound(report[q])'
<1>1. Audits(report[q])'
  BY DEF Sound, Audits
<1>2. Loads(report[q])'
  BY DEF Sound, Loads, Under
<1>3. Scored(report[q])'
  BY DEF Sound, Scored
<1>4. Finds(report[q])'
  BY DEF Sound, Finds
<1>5. Judges(report[q])'
  BY DEF Sound, Judges
<1>6. QED
  BY <1>1, <1>2, <1>3, <1>4, <1>5 DEF Sound

(* One report takes a step that leaves the book alone.                       *)
LEMMA OneMoves ==
  ASSUME BookInv, NEW r \in Reports, NEW y \in Report, Note(r, y),
         UNCHANGED <<issues, edit>>, events' \in Nat, UNCHANGED Tables, Sound(y)'
  PROVE  BookInv'
<1>1. report \in [Reports -> Report] /\ \A q \in Reports : Sound(report[q])
  BY DEF BookInv, BookTypeOK
<1>2. report' = [report EXCEPT ![r] = y]
  BY DEF Note
<1>3. Open' = Open
  BY DEF Open
<1>4. ASSUME NEW q \in Reports PROVE Sound(report[q])'
  <2>1. CASE q = r
    BY <1>1, <1>2, <2>1, SoundNow
  <2>2. CASE q # r
    <3>1. PICK x : x = report[q]
      OBVIOUS
    <3>2. report'[q] = x /\ Sound(x)
      BY <1>1, <1>2, <2>2, <3>1
    <3>3. Sound(x)'
      BY <1>3, <3>2, SoundStays
    <3>4. QED
      BY <3>2, <3>3, SoundNow
  <2>3. QED
    BY <2>1, <2>2
<1>5. BookTypeOK'
  BY <1>1, <1>2 DEF BookInv, BookTypeOK, Tables
<1>6. QED
  BY <1>4, <1>5 DEF BookInv

-------------------------------------------------------------------------------
(* The book changes under the reports.                                       *)

LEMMA ChangeKeeps ==
  ASSUME BookInv, Change, glossary' \in SUBSET Terms, texts' \in [Segments -> Text],
         finals' \in [Languages -> [Segments -> {"none", "unscored", "zero", "good"}]],
         verdicts' \in [Languages -> [Segments -> {"none", "pending", "resolved"}]]
  PROVE  BookInv'
<1>1. report \in [Reports -> Report] /\ \A q \in Reports : Sound(report[q])
  BY DEF BookInv, BookTypeOK
<1>2. report' = Moved /\ issues' = issues /\ edit' = edit /\ events' = events + 1
  BY DEF Change, Event
<1>3. Open' = Open
  BY <1>2 DEF Open
<1>4. ASSUME NEW q \in Reports PROVE report'[q] \in Report /\ Sound(report[q])'
  <2>1. PICK x \in Report : x = report[q] /\ Sound(x)
    BY <1>1
  <2>2. CASE x.pc \in {"idle", "done", "failed"}
    <3>1. report'[q] = x
      BY <1>2, <2>1, <2>2 DEF Moved, Ended
    <3>2. Sound(x)'
      BY <2>2, SoundLeft
    <3>3. QED
      BY <3>1, <3>2, SoundNow
  <2>3. CASE x.pc \notin {"idle", "done", "failed"}
    <3> DEFINE y == [x EXCEPT !.still = FALSE]
    <3>1. report'[q] = y
      BY <1>2, <2>1, <2>3 DEF Moved, Ended
    <3>2. y \in Report /\ Sound(y)'
      BY <1>3, <2>1, StillRecord, SoundMoved
    <3> HIDE DEF y
    <3>3. QED
      BY <3>1, <3>2, SoundNow
  <2>4. QED
    BY <2>2, <2>3
<1>5. report' \in [Reports -> Report]
  BY <1>2, <1>4 DEF Moved
<1>6. BookTypeOK'
  BY <1>2, <1>5 DEF BookInv, BookTypeOK
<1>7. QED
  BY <1>4, <1>6 DEF BookInv

LEMMA AddTermStep ==
  ASSUME BookInv, NEW t \in Terms, AddTerm(t)
  PROVE  BookInv'
  BY ChangeKeeps DEF AddTerm, BookInv, BookTypeOK

LEMMA TranslateStep ==
  ASSUME BookInv, NEW s \in Segments, NEW l \in Languages, NEW score \in {"unscored", "zero", "good"},
         NEW kept \in SUBSET Terms, Translate(s, l, kept, score)
  PROVE  BookInv'
<1> DEFINE new == [written |-> TRUE, kept |-> kept]
<1>1. new \in Text
  BY DEF Text
<1>2. texts' = [texts EXCEPT ![s] = new]
  BY DEF Translate
<1> HIDE DEF new
<1>3. texts' \in [Segments -> Text]
  BY <1>1, <1>2 DEF BookInv, BookTypeOK
<1>4. finals' \in [Languages -> [Segments -> {"none", "unscored", "zero", "good"}]]
  BY DEF Translate, BookInv, BookTypeOK
<1>5. QED
  BY <1>3, <1>4, ChangeKeeps DEF Translate, BookInv, BookTypeOK

LEMMA ChangeReviewStep ==
  ASSUME BookInv, NEW l \in Languages, NEW s \in Segments, NEW status \in {"pending", "resolved"},
         ChangeReview(l, s, status)
  PROVE  BookInv'
<1>1. verdicts' \in [Languages -> [Segments -> {"none", "pending", "resolved"}]]
  BY DEF ChangeReview, BookInv, BookTypeOK
<1>2. QED
  BY <1>1, ChangeKeeps DEF ChangeReview, BookInv, BookTypeOK

-------------------------------------------------------------------------------
(* The steps of a report.                                                    *)

LEMMA LeaveStep ==
  ASSUME BookInv, NEW r \in Reports, NEW p \in {"done", "failed"}, Leave(r, p),
         UNCHANGED <<issues, events, edit>>, UNCHANGED Tables
  PROVE  BookInv'
<1> DEFINE y == [NoReport EXCEPT !.pc = p]
<1>1. y \in Report /\ y.pc = p
  BY LeftRecord
<1>2. Note(r, y)
  BY DEF Leave, Note
<1> HIDE DEF y
<1>3. Sound(y)'
  BY <1>1, SoundLeft
<1>4. events' \in Nat
  BY DEF BookInv, BookTypeOK
<1>5. QED
  BY <1>1, <1>2, <1>3, <1>4, OneMoves

LEMMA StartReportStep ==
  ASSUME BookInv, NEW r \in Reports, NEW l \in Languages, StartReport(r, l)
  PROVE  BookInv'
<1> DEFINE y == [NoReport EXCEPT !.pc = "finals", !.language = l, !.texts = texts]
<1>1. texts \in [Segments -> Text] /\ events' \in Nat
  BY DEF BookInv, BookTypeOK, StartReport, Event
<1>2. y \in Report /\ y.pc = "finals" /\ y.language = l /\ y.texts = texts
  BY <1>1, StartedRecord
<1>3. Note(r, y) /\ UNCHANGED <<issues, edit>> /\ UNCHANGED Tables
  BY DEF StartReport, Book, Tables
<1> HIDE DEF y
<1>4. PICK z : z = y
  OBVIOUS
<1>5. Sound(z)'
  <2>1. texts' = texts /\ z.pc = "finals" /\ z.language = l /\ z.texts = texts
    BY <1>2, <1>3, <1>4 DEF Tables
  <2>2. Audits(z)' /\ Scored(z)' /\ Finds(z)' /\ Judges(z)'
    BY <2>1 DEF Audits, Scored, Finds, Judges
  <2>3. Loads(z)'
    BY <1>1, <2>1 DEF Loads
  <2>4. QED
    BY <2>2, <2>3 DEF Sound
<1>6. QED
  BY <1>1, <1>2, <1>3, <1>4, <1>5, OneMoves

LEMMA ReadFinalsStep ==
  ASSUME BookInv, NEW r \in Reports, ReadFinals(r)
  PROVE  BookInv'
<1>1. PICK x \in Report : x = report[r] /\ Sound(x) /\ x.pc = "finals"
  BY DEF ReadFinals, Doing, BookInv, BookTypeOK
<1>2. x.language \in Languages /\ x.texts \in [Segments -> Text] /\ (x.still => x.texts = texts)
  BY <1>1 DEF Sound, Loads, Under
<1>3. PICK F \in SUBSET Segments : F = Finals(x.language)
  BY DEF Finals
<1>4. Scores(x.language) \in ScoreSet
  <2>1. \A s \in ScoredFinals(x.language) : s \in Segments /\ finals[x.language][s] \in {"zero", "good"}
    BY <1>2 DEF ScoredFinals, BookInv, BookTypeOK
  <2>2. \A s \in ScoredFinals(x.language) : Points(finals[x.language][s]) \in {0, 100}
    BY <2>1 DEF Points
  <2>3. QED
    BY <2>1, <2>2 DEF Scores, ScoreSet
<1>5. PICK S \in ScoreSet : S = Scores(x.language) /\ Cardinality(S) <= Cardinality(Segments)
  <2> DEFINE S == Scores(x.language)
             f == [p \in S |-> p[1]]
  <2>1. \A p \in S : p[1] \in Segments /\ p = <<p[1], Points(finals[x.language][p[1]])>>
    BY DEF Scores, ScoredFinals
  <2> HIDE DEF S
  <2>2. f \in Injection(S, Segments)
    BY <2>1 DEF Injection, IsInjective
  <2>3. IsFiniteSet(Segments)
    BY BookQAAssumption
  <2> HIDE DEF f
  <2>4. Cardinality(S) <= Cardinality(Segments)
    BY <2>2, <2>3, FS_Injection
  <2>5. QED
    BY <1>4, <2>4 DEF S
<1> DEFINE y == [x EXCEPT !.pc = "scan", !.final = F, !.scores = S]
<1>6. Note(r, y) /\ UNCHANGED <<issues, edit, events>> /\ UNCHANGED Tables
  BY <1>1, <1>3, <1>5 DEF ReadFinals, Book, Step, Tables, Finals, Scores
<1>7. /\ y \in Report /\ y.pc = "scan" /\ y.final = F /\ y.scores = S
      /\ y.language = x.language /\ y.texts = x.texts /\ y.still = x.still
  BY DEF Report, Stages
<1> HIDE DEF y
<1>8. PICK z : z = y
  OBVIOUS
<1>9. Sound(z)'
  <2>1. /\ z.pc = "scan" /\ z.final = F /\ z.scores = S
        /\ z.language = x.language /\ z.texts = x.texts /\ z.still = x.still
    BY <1>7, <1>8
  <2>2. F = Finals(x.language)' /\ S = Scores(x.language)' /\ texts' = texts
    BY <1>3, <1>5, <1>6 DEF Finals, Scores, ScoredFinals, Tables
  <2>3. Audits(z)' /\ Finds(z)' /\ Judges(z)'
    BY <2>1 DEF Audits, Finds, Judges
  <2>4. Loads(z)'
    BY <1>2, <2>1, <2>2 DEF Loads
  <2>5. Scored(z)'
    BY <1>5, <2>1, <2>2 DEF Scored
  <2>6. QED
    BY <2>3, <2>4, <2>5 DEF Sound
<1>10. events' \in Nat
  BY <1>6 DEF BookInv, BookTypeOK
<1>11. QED
  BY <1>6, <1>7, <1>8, <1>9, <1>10, OneMoves

LEMMA OpenType == BookTypeOK => Open \in SUBSET Keys
  BY DEF BookTypeOK, Open

LEMMA ScanIssuesStep ==
  ASSUME BookInv, NEW r \in Reports, ScanIssues(r)
  PROVE  BookInv'
<1>1. PICK x \in Report : x = report[r] /\ Sound(x) /\ x.pc = "scan"
  BY DEF ScanIssues, Doing, BookInv, BookTypeOK
<1>2. PICK I \in SUBSET Keys : I = Open
  BY OpenType DEF BookInv
<1> DEFINE y == [x EXCEPT !.pc = "delete", !.scanned = I]
<1>3. Note(r, y) /\ UNCHANGED <<issues, edit, events>> /\ UNCHANGED Tables
  BY <1>1, <1>2 DEF ScanIssues, Book, Step, Tables
<1>4. /\ y \in Report /\ y.pc = "delete" /\ y.scanned = I
      /\ y.language = x.language /\ y.texts = x.texts /\ y.still = x.still
      /\ y.final = x.final /\ y.scores = x.scores
  BY DEF Report, Stages
<1> HIDE DEF y
<1>5. PICK z : z = y
  OBVIOUS
<1>6. Sound(z)
  <2>1. /\ z.pc = "delete" /\ z.scanned = I
        /\ z.language = x.language /\ z.texts = x.texts /\ z.still = x.still
        /\ z.final = x.final /\ z.scores = x.scores
    BY <1>4, <1>5
  <2>2. Audits(z) /\ Finds(z) /\ Judges(z)
    BY <1>2, <2>1 DEF Audits, Finds, Judges
  <2>3. Loads(z) /\ Scored(z)
    BY <1>1, <2>1 DEF Sound, Loads, Under, Scored
  <2>4. QED
    BY <2>2, <2>3 DEF Sound
<1>7. Sound(z)' /\ events' \in Nat
  <2>1. Open' = Open
    BY <1>3 DEF Open
  <2>2. QED
    BY <1>3, <1>6, <2>1, SoundStays DEF BookInv, BookTypeOK
<1>8. QED
  BY <1>3, <1>4, <1>5, <1>7, OneMoves

LEMMA DeleteIssuesStep ==
  ASSUME BookInv, NEW r \in Reports, DeleteIssues(r)
  PROVE  BookInv'
<1>1. PICK x \in Report : x = report[r] /\ Sound(x) /\ x.pc = "delete"
  BY DEF DeleteIssues, Doing, BookInv, BookTypeOK
<1>2. PICK I \in SUBSET Keys : I = x.scanned \cap Open
  BY OpenType DEF BookInv
<1> DEFINE y == [x EXCEPT !.pc = "audit", !.scanned = {}, !.deleted = I]
<1>3. Note(r, y) /\ UNCHANGED <<issues, edit, events>> /\ UNCHANGED Tables
  BY <1>1, <1>2 DEF DeleteIssues, Book, Step, Tables
<1>4. /\ y \in Report /\ y.pc = "audit" /\ y.deleted = I /\ y.alone = x.alone
      /\ y.language = x.language /\ y.texts = x.texts /\ y.still = x.still
      /\ y.final = x.final /\ y.scores = x.scores
  BY DEF Report, Stages
<1> HIDE DEF y
<1>5. PICK z : z = y
  OBVIOUS
<1>6. Sound(z)
  <2>1. /\ z.pc = "audit" /\ z.deleted = I /\ z.alone = x.alone
        /\ z.language = x.language /\ z.texts = x.texts /\ z.still = x.still
        /\ z.final = x.final /\ z.scores = x.scores
    BY <1>4, <1>5
  <2>2. Audits(z)
    BY <1>1, <1>2, <2>1 DEF Sound, Audits
  <2>3. Finds(z) /\ Judges(z)
    BY <2>1 DEF Finds, Judges
  <2>4. Loads(z) /\ Scored(z)
    BY <1>1, <2>1 DEF Sound, Loads, Under, Scored
  <2>5. QED
    BY <2>2, <2>3, <2>4 DEF Sound
<1>7. Sound(z)' /\ events' \in Nat
  <2>1. Open' = Open
    BY <1>3 DEF Open
  <2>2. QED
    BY <1>3, <1>6, <2>1, SoundStays DEF BookInv, BookTypeOK
<1>8. QED
  BY <1>3, <1>4, <1>5, <1>7, OneMoves

LEMMA PlacesFinite ==
  /\ IsFiniteSet(Places) /\ Cardinality(Places) \in Nat
  /\ \A l : Missing(l) \in SUBSET Due(l) /\ Due(l) \in SUBSET Places
  /\ \A S \in SUBSET Places : IsFiniteSet(S) /\ Cardinality(S) \in Nat /\ Cardinality(S) <= Cardinality(Places)
<1>1. IsFiniteSet(Terms \X Segments) /\ Places \in SUBSET (Terms \X Segments)
  BY FS_Product, BookQAAssumption
<1>2. IsFiniteSet(Places) /\ Cardinality(Places) \in Nat
  BY <1>1, FS_Subset, FS_CardinalityType
<1>3. \A S \in SUBSET Places : IsFiniteSet(S) /\ Cardinality(S) <= Cardinality(Places)
  BY <1>2, FS_Subset
<1>4. \A S \in SUBSET Places : Cardinality(S) \in Nat
  BY <1>3, FS_CardinalityType
<1>5. \A l : Missing(l) \in SUBSET Due(l) /\ Due(l) \in SUBSET Places
  BY DEF Missing, Due
<1>6. QED
  BY <1>2, <1>3, <1>4, <1>5

LEMMA AuditStep ==
  ASSUME BookInv, NEW r \in Reports, Audit(r)
  PROVE  BookInv'
<1>1. PICK x \in Report : x = report[r] /\ Sound(x) /\ x.pc = "audit"
  BY DEF Audit, Doing, BookInv, BookTypeOK
<1>2. x.language \in Languages /\ x.texts \in [Segments -> Text] /\ (x.still => x.texts = texts)
  BY <1>1 DEF Sound, Loads, Under
<1>3. PICK D \in SUBSET Places : D = Due(x.language)
  BY PlacesFinite
<1>4. PICK n \in Nat : n = Cardinality(D) /\ n <= Cardinality(Places)
  BY <1>3, PlacesFinite
<1>5. PICK F \in SUBSET D : F = {p \in D : Lacks(x.texts[p[2]], p[1])}
  OBVIOUS
<1>6. F \in SUBSET Places /\ Cardinality(F) <= n
  <2>1. IsFiniteSet(D)
    BY PlacesFinite
  <2>2. Cardinality(F) <= Cardinality(D)
    BY <2>1, FS_Subset
  <2>3. QED
    BY <1>4, <2>2
<1> DEFINE y == [x EXCEPT !.pc = "commit", !.chances = n, !.found = F]
<1>7. Note(r, y) /\ UNCHANGED <<issues, edit, events>> /\ UNCHANGED Tables
  <2>1. Chances(r) = D
    BY <1>1, <1>3 DEF Chances, Due
  <2>2. QED
    BY <1>1, <1>4, <1>5, <2>1 DEF Audit, Book, Step, Tables
<1>8. /\ y \in Report /\ y.pc = "commit" /\ y.chances = n /\ y.found = F
      /\ y.deleted = x.deleted /\ y.alone = x.alone
      /\ y.language = x.language /\ y.texts = x.texts /\ y.still = x.still
      /\ y.final = x.final /\ y.scores = x.scores
  BY <1>6 DEF Report, Stages
<1> HIDE DEF y
<1>9. PICK z : z = y
  OBVIOUS
<1>10. Sound(z)
  <2>1. /\ z.pc = "commit" /\ z.chances = n /\ z.found = F
        /\ z.deleted = x.deleted /\ z.alone = x.alone
        /\ z.language = x.language /\ z.texts = x.texts /\ z.still = x.still
        /\ z.final = x.final /\ z.scores = x.scores
    BY <1>8, <1>9
  <2>2. Audits(z) /\ Judges(z)
    BY <1>1, <2>1 DEF Sound, Audits, Judges
  <2>3. Loads(z) /\ Scored(z)
    BY <1>1, <2>1 DEF Sound, Loads, Under, Scored
  <2>4. x.still => F = Missing(x.language)
    BY <1>2, <1>3, <1>5 DEF Missing
  <2>5. Finds(z)
    BY <1>4, <1>6, <2>1, <2>4 DEF Finds
  <2>6. QED
    BY <2>2, <2>3, <2>5 DEF Sound
<1>11. Sound(z)' /\ events' \in Nat
  <2>1. Open' = Open
    BY <1>7 DEF Open
  <2>2. QED
    BY <1>7, <1>10, <2>1, SoundStays DEF BookInv, BookTypeOK
<1>12. QED
  BY <1>7, <1>8, <1>9, <1>11, OneMoves

(* Restated over what the audit has found, the issues it commits are its own *)
(* and the ones that it has not deleted.                                     *)
LEMMA CommitOpens ==
  ASSUME BookTypeOK, NEW r \in Reports, CommitAudit(r)
  PROVE  /\ Open' = NewIssues(r) \union (Open \ report[r].deleted)
         /\ DOMAIN issues' \in SUBSET Keys /\ issues' \in [DOMAIN issues' -> Status]
<1> DEFINE N == NewIssues(r)
           K == N \union (DOMAIN issues \ report[r].deleted)
<1>1. issues' = [i \in K |-> IF i \in N THEN "open" ELSE issues[i]]
  BY DEF CommitAudit
<1>2. N \in SUBSET Keys
  <2>1. report[r].found \in SUBSET (Terms \X Segments)
    BY BookQAAssumption DEF BookTypeOK, Report
  <2>2. \A p \in report[r].found : p[1] \in Terms /\ p[2] \in Segments
    BY <2>1
  <2>3. QED
    BY <2>2 DEF NewIssues, Keys
<1>3. K \in SUBSET Keys /\ \A i \in K \ N : i \in DOMAIN issues
  BY <1>2 DEF BookTypeOK
<1>4. DOMAIN issues' = K
  BY <1>1
<1>5. \A i \in K : issues'[i] = IF i \in N THEN "open" ELSE issues[i]
  BY <1>1
<1>6. issues' \in [K -> Status]
  <2>1. \A i \in K : (IF i \in N THEN "open" ELSE issues[i]) \in Status
    BY <1>3 DEF BookTypeOK, Status
  <2> HIDE DEF K, N
  <2>2. QED
    BY <1>1, <2>1
<1>7. \A i \in K : issues'[i] = "open" <=> i \in N \/ issues[i] = "open"
  BY <1>5
<1>8. Open' = {i \in K : issues'[i] = "open"}
  BY <1>4 DEF Open
<1>9. Open' = N \union (Open \ report[r].deleted)
  <2>1. \A i : i \in K <=> i \in N \/ (i \in DOMAIN issues /\ i \notin report[r].deleted)
    OBVIOUS
  <2> HIDE DEF K, N
  <2>2. QED
    BY <1>7, <1>8, <2>1 DEF Open
<1>10. QED
  BY <1>3, <1>4, <1>6, <1>9

LEMMA JoinedSound ==
  ASSUME BookInv, NEW q \in Reports, UNCHANGED Tables, report'[q] = Joined[q]
  PROVE  report'[q] \in Report /\ Sound(report[q])'
<1>1. PICK x \in Report : x = report[q] /\ Sound(x)
  BY DEF BookInv, BookTypeOK
<1>2. CASE x.pc \in {"delete", "audit", "commit"}
  <2> DEFINE y == [x EXCEPT !.alone = FALSE]
  <2>1. report'[q] = y
    BY <1>1, <1>2 DEF Joined
  <2>2. y \in Report /\ Sound(y)'
    BY <1>1, AloneRecord, SoundJoined
  <2> HIDE DEF y
  <2>3. QED
    BY <2>1, <2>2, SoundNow
<1>3. CASE x.pc \notin {"delete", "audit", "commit"}
  <2>1. report'[q] = x
    BY <1>1, <1>3 DEF Joined
  <2>2. Sound(x)'
    BY <1>1, <1>3, SoundStays
  <2>3. QED
    BY <2>1, <2>2, SoundNow
<1>4. QED
  BY <1>2, <1>3

LEMMA CommitAuditStep ==
  ASSUME BookInv, NEW r \in Reports, CommitAudit(r)
  PROVE  BookInv'
<1>1. PICK x \in Report : x = report[r] /\ Sound(x) /\ x.pc = "commit"
  BY DEF CommitAudit, Doing, BookInv, BookTypeOK
<1>2. UNCHANGED Tables /\ edit' = edit /\ events' = events
  BY DEF CommitAudit, Step, Book, Tables
<1>3. PICK w \in Report :
        /\ w = Joined[r] /\ w.pc = "commit" /\ w.language = x.language /\ w.texts = x.texts
        /\ w.scores = x.scores /\ w.final = x.final /\ w.found = x.found /\ w.chances = x.chances
        /\ w.still = x.still
  <2> DEFINE w == [x EXCEPT !.alone = FALSE]
  <2>1. w = Joined[r]
    BY <1>1 DEF Joined
  <2>2. /\ w \in Report /\ w.pc = "commit" /\ w.language = x.language /\ w.texts = x.texts
        /\ w.scores = x.scores /\ w.final = x.final /\ w.found = x.found /\ w.chances = x.chances
        /\ w.still = x.still
    BY <1>1, AloneRecord
  <2> HIDE DEF w
  <2>3. QED
    BY <2>1, <2>2
<1> DEFINE y == [[w EXCEPT !.pc = "reviews"] EXCEPT !.deleted = {}]
<1>4. /\ y \in Report /\ y.pc = "reviews"
      /\ y.language = w.language /\ y.texts = w.texts /\ y.still = w.still
      /\ y.final = w.final /\ y.scores = w.scores /\ y.found = w.found /\ y.chances = w.chances
  BY DEF Report, Stages
<1>5. report' = [[Joined EXCEPT ![r].pc = "reviews"] EXCEPT ![r].deleted = {}]
  BY DEF CommitAudit
<1>6. report'[r] = y /\ \A q \in Reports : q # r => report'[q] = Joined[q]
  <2>1. Joined = [q \in Reports |-> Joined[q]]
    BY DEF Joined
  <2> HIDE DEF y
  <2>2. \A q \in Reports : q # r => report'[q] = Joined[q]
    BY <1>5, <2>1
  <2>3. report'[r] = [[Joined[r] EXCEPT !.pc = "reviews"] EXCEPT !.deleted = {}]
    BY <1>5, <2>1
  <2>4. QED
    BY <1>3, <2>2, <2>3 DEF y
<1> HIDE DEF y
<1>7. PICK z : z = y
  OBVIOUS
<1>8. Sound(z)'
  <2>1. /\ z.pc = "reviews"
        /\ z.language = x.language /\ z.texts = x.texts /\ z.still = x.still
        /\ z.final = x.final /\ z.scores = x.scores /\ z.found = x.found /\ z.chances = x.chances
    BY <1>3, <1>4, <1>7
  <2>2. Audits(z) /\ Judges(z)
    BY <2>1 DEF Audits, Judges
  <2>3. Loads(z) /\ Scored(z) /\ Finds(z)
    BY <1>1, <2>1 DEF Sound, Loads, Under, Scored, Finds
  <2>4. Sound(z)
    BY <2>2, <2>3 DEF Sound
  <2>5. QED
    BY <1>2, <2>1, <2>4, SoundStays
<1>9. ASSUME NEW q \in Reports PROVE report'[q] \in Report /\ Sound(report[q])'
  <2>1. CASE q = r
    BY <1>4, <1>6, <1>7, <1>8, <2>1, SoundNow
  <2>2. CASE q # r
    BY <1>2, <1>6, <2>2, JoinedSound
  <2>3. QED
    BY <2>1, <2>2
<1>10. report' \in [Reports -> Report]
  <2>1. report' = [q \in Reports |-> report'[q]]
    BY <1>5 DEF Joined
  <2>2. QED
    BY <1>9, <2>1
<1>11. BookTypeOK'
  BY <1>2, <1>10, CommitOpens DEF BookInv, BookTypeOK, Tables
<1>12. QED
  BY <1>9, <1>11 DEF BookInv

-------------------------------------------------------------------------------
(* The decisions.                                                            *)

LEMMA LoadIssueStep ==
  ASSUME BookInv, NEW e \in Editors, NEW i \in DOMAIN issues, NEW wanted \in {"open", "resolved"},
         LoadIssue(e, i, wanted)
  PROVE  BookInv'
<1> DEFINE d == [pc |-> "loaded", issue |-> i, loaded |-> issues[i], wanted |-> wanted]
<1>1. edit' = [edit EXCEPT ![e] = d]
  BY DEF LoadIssue
<1>2. i \in Keys /\ issues[i] \in Status /\ wanted \in Status
  BY DEF BookInv, BookTypeOK, Status
<1>3. d \in Decision
  BY <1>2, LoadedRecord
<1> HIDE DEF d
<1>4. edit' \in [Editors -> Decision]
  BY <1>1, <1>3 DEF BookInv, BookTypeOK
<1>5. UNCHANGED <<issues, report>> /\ UNCHANGED Tables /\ events' \in Nat
  BY DEF LoadIssue, Event, Tables, BookInv, BookTypeOK
<1>6. ASSUME NEW q \in Reports PROVE Sound(report[q])'
  <2>1. PICK x : x = report[q] /\ Sound(x)
    BY DEF BookInv
  <2>2. Open' = Open
    BY <1>5 DEF Open
  <2>3. Sound(x)' /\ report'[q] = x
    BY <1>5, <2>1, <2>2, SoundStays
  <2>4. QED
    BY <2>3, SoundNow
<1>7. BookTypeOK'
  BY <1>4, <1>5 DEF BookInv, BookTypeOK, Tables
<1>8. QED
  BY <1>6, <1>7 DEF BookInv

LEMMA DecideIssueStep ==
  ASSUME BookInv, NEW e \in Editors, DecideIssue(e)
  PROVE  BookInv'
<1> DEFINE i == edit[e].issue
           done == [NoEdit EXCEPT !.pc = "done"]
<1>1. edit' = [edit EXCEPT ![e] = done] /\ events' = events /\ UNCHANGED Tables
  BY DEF DecideIssue, Tables
<1>2. done \in Decision
  BY NoEditType
<1> HIDE DEF done
<1>3. edit' \in [Editors -> Decision]
  BY <1>1, <1>2 DEF BookInv, BookTypeOK
<1>4. CASE UNCHANGED <<issues, report>>
  <2>1. Open' = Open
    BY <1>4 DEF Open
  <2>2. ASSUME NEW q \in Reports PROVE Sound(report[q])'
    <3>1. PICK x : x = report[q] /\ Sound(x)
      BY DEF BookInv
    <3>2. Sound(x)' /\ report'[q] = x
      BY <1>1, <1>4, <2>1, <3>1, SoundStays
    <3>3. QED
      BY <3>2, SoundNow
  <2>3. BookTypeOK'
    BY <1>1, <1>3, <1>4 DEF BookInv, BookTypeOK, Tables
  <2>4. QED
    BY <2>2, <2>3 DEF BookInv
<1>5. CASE /\ i \in DOMAIN issues /\ report' = Joined
           /\ issues' = [issues EXCEPT ![i] = edit[e].wanted] /\ edit[e].wanted # edit[e].loaded
           /\ edit[e].pc = "loaded"
  <2>1. ASSUME NEW q \in Reports PROVE report'[q] \in Report /\ Sound(report[q])'
    BY <1>1, <1>5, JoinedSound
  <2>2. report' \in [Reports -> Report]
    BY <1>5, <2>1 DEF Joined
  <2>3. edit[e].wanted \in Status
    <3>1. edit[e] \in Decision
      BY DEF BookInv, BookTypeOK
    <3>2. NoEdit.pc # "loaded" /\ [NoEdit EXCEPT !.pc = "done"].pc # "loaded"
      BY DEF NoEdit
    <3>3. QED
      BY <1>5, <3>1, <3>2 DEF Decision
  <2>4. DOMAIN issues' = DOMAIN issues /\ issues' \in [DOMAIN issues -> Status]
    BY <1>5, <2>3 DEF BookInv, BookTypeOK
  <2>5. BookTypeOK'
    BY <1>1, <1>3, <2>2, <2>4 DEF BookInv, BookTypeOK, Tables
  <2>6. QED
    BY <2>1, <2>5 DEF BookInv
<1>6. QED
  BY <1>4, <1>5 DEF DecideIssue

-------------------------------------------------------------------------------
(* The four parts of the score and the problems, of a report x.              *)

Written(x)  == {s \in Segments : x.texts[s].written}
Full(x)     == {y \in x.scores : y[2] = 100}
Counted(x)  == {s \in x.final : verdicts[x.language][s] # "none"}
Pending(x)  == {s \in Counted(x) : verdicts[x.language][s] = "pending"}

Coverage(x)    == Percent(Cardinality(Written(x)), Cardinality(Segments))
Consistency(x) == Percent(x.chances - Cardinality(x.found), x.chances)
Reviewed(x)    == Percent(Cardinality(Counted(x) \ Pending(x)), Cardinality(Counted(x)))

Found(x) == {p \in Problems :
  CASE p = "coverage"    -> Coverage(x) < 10000
    [] p = "quality"     -> \E y \in x.scores : y[2] < 80
    [] p = "terminology" -> x.found # {}
    [] p = "reviews"     -> Pending(x) # {}}

LEMMA FoundIs ==
  ASSUME NEW x
  PROVE  /\ Found(x) \in SUBSET Problems
         /\ Found(x) = {} <=> /\ ~(Coverage(x) < 10000)
                              /\ \A y \in x.scores : ~(y[2] < 80)
                              /\ x.found = {} /\ Pending(x) = {}
<1> DEFINE c == Coverage(x) < 10000
           q == \E y \in x.scores : y[2] < 80
           t == x.found # {}
           v == Pending(x) # {}
           P == {p \in Problems : CASE p = "coverage" -> c [] p = "quality" -> q
                                    [] p = "terminology" -> t [] p = "reviews" -> v}
<1>1. Found(x) = P
  BY DEF Found
<1>2. /\ "coverage" \in P <=> c
      /\ "quality" \in P <=> q
      /\ "terminology" \in P <=> t
      /\ "reviews" \in P <=> v
  <2> HIDE DEF c, q, t, v
  <2>1. QED
    BY DEF Problems
<1>3. P \in SUBSET Problems
  OBVIOUS
<1>4. P = {} <=> ~c /\ ~q /\ ~t /\ ~v
  <2> HIDE DEF c, q, t, v, P
  <2>1. QED
    BY <1>2, <1>3 DEF Problems
<1>5. QED
  <2> HIDE DEF P
  <2>1. QED
    BY <1>1, <1>3, <1>4

(* A part of a finite set, in percent.                                       *)
LEMMA ShareOf ==
  ASSUME NEW S, IsFiniteSet(S), NEW T \in SUBSET S
  PROVE  LET p == Percent(Cardinality(T), Cardinality(S))
         IN  /\ p \in Nat /\ p <= 10000
             /\ T = S => p = 10000
             /\ T # S /\ Cardinality(S) <= 1818 => p <= 9994
<1> DEFINE n == Cardinality(T)
           d == Cardinality(S)
<1>1. n \in Nat /\ d \in Nat /\ n <= d /\ (T # S => n # d)
  <2>1. IsFiniteSet(T) /\ n <= d /\ (n = d => T = S)
    BY FS_Subset
  <2>2. n \in Nat /\ d \in Nat
    BY <2>1, FS_CardinalityType
  <2>3. QED
    BY <2>1, <2>2
<1>2. T = S => n = d
  OBVIOUS
<1> HIDE DEF n, d
<1>3. Percent(n, d) \in Nat /\ Percent(n, d) <= 10000
  BY <1>1, PercentType
<1>4. n = d => Percent(n, d) = 10000
  BY <1>1, PercentFull
<1>5. n # d /\ d <= 1818 => Percent(n, d) <= 9994
  <2>1. n # d => n < d
    BY <1>1
  <2>2. QED
    BY <1>1, <2>1, PercentIsLow
<1>6. QED
  BY <1>1, <1>2, <1>3, <1>4, <1>5 DEF n, d

LEMMA AverageIs ==
  ASSUME NEW x \in Report, Cardinality(x.scores) <= Cardinality(Segments)
  PROVE  /\ Average(x.scores) \in Nat /\ Average(x.scores) <= 10000
         /\ SmallBook /\ Average(x.scores) >= 9995 => \A y \in x.scores : ~(y[2] < 80)
<1>1. x.scores \in SUBSET (Segments \X {0, 100}) /\ IsFiniteSet(x.scores)
  <2>1. IsFiniteSet({0}) /\ {0, 100} = {0} \union {100}
    BY FS_Singleton
  <2>2. IsFiniteSet({0, 100})
    BY <2>1, FS_AddElement
  <2>3. IsFiniteSet(Segments \X {0, 100})
    BY <2>2, FS_Product, BookQAAssumption
  <2>4. x.scores \in SUBSET (Segments \X {0, 100})
    BY DEF Report, ScoreSet
  <2>5. QED
    BY <2>3, <2>4, FS_Subset
<1>2. Full(x) \in SUBSET x.scores
  BY DEF Full
<1>3. CASE x.scores = {}
  BY <1>3 DEF Average
<1>4. CASE x.scores # {}
  <2> DEFINE p == Percent(Cardinality(Full(x)), Cardinality(x.scores))
  <2>1. Average(x.scores) = p
    BY <1>4 DEF Average, Full
  <2>2. /\ p \in Nat /\ p <= 10000
        /\ Full(x) # x.scores /\ Cardinality(x.scores) <= 1818 => p <= 9994
    BY <1>1, <1>2, ShareOf
  <2> HIDE DEF p
  <2>3. Cardinality(x.scores) \in Nat /\ Cardinality(Segments) \in Nat
    BY <1>1, BookQAAssumption, FS_CardinalityType
  <2>4. SmallBook => Cardinality(x.scores) <= 1818
    BY <2>3 DEF SmallBook
  <2>5. SmallBook /\ p >= 9995 => Full(x) = x.scores
    BY <2>2, <2>4
  <2>6. Full(x) = x.scores => \A y \in x.scores : y[2] = 100
    BY DEF Full
  <2>7. QED
    BY <2>1, <2>2, <2>5, <2>6
<1>5. QED
  BY <1>3, <1>4

LEMMA ReviewsAre ==
  ASSUME NEW x \in Report
  PROVE  /\ Reviewed(x) \in Nat /\ Reviewed(x) <= 10000
         /\ SmallBook /\ Reviewed(x) >= 9995 => Pending(x) = {}
<1>1. Counted(x) \in SUBSET Segments /\ Pending(x) \in SUBSET Counted(x)
  BY DEF Report, Counted, Pending
<1>2. IsFiniteSet(Segments) /\ Cardinality(Segments) \in Nat
  BY BookQAAssumption, FS_CardinalityType
<1>3. IsFiniteSet(Counted(x)) /\ Cardinality(Counted(x)) <= Cardinality(Segments)
  BY <1>1, <1>2, FS_Subset
<1>4. Cardinality(Counted(x)) \in Nat
  BY <1>3, FS_CardinalityType
<1>5. SmallBook => Cardinality(Counted(x)) <= 1818
  BY <1>2, <1>3, <1>4 DEF SmallBook
<1> DEFINE T == Counted(x) \ Pending(x)
<1>6. T \in SUBSET Counted(x) /\ (T = Counted(x) => Pending(x) = {})
  BY <1>1
<1>7. Reviewed(x) = Percent(Cardinality(T), Cardinality(Counted(x)))
  BY DEF Reviewed
<1> HIDE DEF T
<1>8. /\ Reviewed(x) \in Nat /\ Reviewed(x) <= 10000
      /\ T # Counted(x) /\ Cardinality(Counted(x)) <= 1818 => Reviewed(x) <= 9994
  BY <1>3, <1>6, <1>7, ShareOf
<1>9. QED
  BY <1>5, <1>6, <1>8

LEMMA CoverageIs ==
  ASSUME NEW x \in Report
  PROVE  /\ Coverage(x) \in Nat /\ Coverage(x) <= 10000
         /\ Written(x) = Segments => Coverage(x) = 10000
         /\ SmallBook /\ Coverage(x) >= 9995 => Written(x) = Segments
<1>1. IsFiniteSet(Segments) /\ Written(x) \in SUBSET Segments
  BY BookQAAssumption DEF Written
<1>2. /\ Coverage(x) \in Nat /\ Coverage(x) <= 10000
      /\ Written(x) = Segments => Coverage(x) = 10000
      /\ Written(x) # Segments /\ Cardinality(Segments) <= 1818 => Coverage(x) <= 9994
  BY <1>1, ShareOf DEF Coverage
<1>3. QED
  BY <1>2 DEF SmallBook

LEMMA ConsistencyIs ==
  ASSUME NEW x \in Report, x.chances <= Cardinality(Places), Cardinality(x.found) <= x.chances
  PROVE  /\ Consistency(x) \in Nat /\ Consistency(x) <= 10000
         /\ SmallBook /\ Consistency(x) >= 9998 => x.found = {}
<1>1. x.chances \in Nat /\ x.found \in SUBSET Places
  BY DEF Report
<1>2. IsFiniteSet(x.found) /\ Cardinality(x.found) \in Nat /\ Cardinality(Places) \in Nat
  BY <1>1, PlacesFinite
<1> DEFINE d == x.chances
           k == Cardinality(x.found)
           n == d - k
<1>3. d \in Nat /\ k \in Nat /\ n \in Nat /\ n <= d /\ (k # 0 => n < d)
  BY <1>1, <1>2
<1>4. k = 0 => x.found = {}
  BY <1>2, FS_EmptySet
<1>5. SmallBook => d <= 3999
  BY <1>1, <1>2 DEF SmallBook
<1>6. Consistency(x) = Percent(n, d)
  BY DEF Consistency
<1> HIDE DEF n, d, k
<1>7. Percent(n, d) \in Nat /\ Percent(n, d) <= 10000
  BY <1>3, PercentType
<1>8. n < d /\ d <= 3999 => Percent(n, d) <= 9997
  BY <1>3, PercentIsLow
<1>9. QED
  BY <1>3, <1>4, <1>5, <1>6, <1>7, <1>8

(* The problems of a report of a book that stood still are those of the book.*)
LEMMA ProblemsAre ==
  ASSUME BookTypeOK, SmallBook, NEW x \in Report, x.still, x.language \in Languages,
         x.texts = texts, x.final = Finals(x.language), x.scores = Scores(x.language),
         x.found = Missing(x.language)
  PROVE  Found(x) = {} <=> Clean(x.language)
<1> DEFINE l == x.language
<1>1. Coverage(x) \in Nat /\ (~(Coverage(x) < 10000) <=> \A s \in Segments : texts[s].written)
  <2>1. Written(x) = {s \in Segments : texts[s].written}
    BY DEF Written
  <2>2. Written(x) = Segments <=> \A s \in Segments : texts[s].written
    BY <2>1
  <2>3. /\ Coverage(x) \in Nat /\ Coverage(x) <= 10000
        /\ Written(x) = Segments => Coverage(x) = 10000
        /\ Coverage(x) >= 9995 => Written(x) = Segments
    BY CoverageIs
  <2>4. QED
    BY <2>2, <2>3
<1>2. (\A y \in x.scores : ~(y[2] < 80)) <=> \A s \in Segments : finals[l][s] # "zero"
  <2>1. \A s \in ScoredFinals(l) : s \in Segments /\ finals[l][s] \in {"zero", "good"}
    BY DEF ScoredFinals, BookTypeOK
  <2>2. \A s \in Segments : finals[l][s] = "zero" => s \in ScoredFinals(l)
    BY DEF ScoredFinals
  <2>3. \A s \in ScoredFinals(l) : (Points(finals[l][s]) < 80 <=> finals[l][s] = "zero")
    BY <2>1 DEF Points
  <2>4. \A y \in x.scores : \E s \in ScoredFinals(l) : y[2] = Points(finals[l][s])
    BY DEF Scores
  <2>5. \A s \in ScoredFinals(l) : \E y \in x.scores : y[2] = Points(finals[l][s])
    <3>1. SUFFICES ASSUME NEW s \in ScoredFinals(l)
                   PROVE  \E y \in x.scores : y[2] = Points(finals[l][s])
      OBVIOUS
    <3>2. <<s, Points(finals[l][s])>> \in x.scores
      BY DEF Scores
    <3>3. QED
      BY <3>2
  <2> HIDE DEF l
  <2>6. QED
    BY <2>1, <2>2, <2>3, <2>4, <2>5
<1>3. x.found = {} <=> \A y \in Due(l) : texts[y[2]].written /\ y[1] \in texts[y[2]].kept
  BY DEF Missing, Lacks
<1>4. Pending(x) = {} <=> \A s \in Segments : finals[l][s] # "none" => verdicts[l][s] # "pending"
  BY DEF Pending, Counted, Finals
<1>5. Found(x) = {} <=> /\ ~(Coverage(x) < 10000)
                        /\ \A y \in x.scores : ~(y[2] < 80)
                        /\ x.found = {} /\ Pending(x) = {}
  BY FoundIs
<1>6. \A y \in Due(l) : y[2] \in Segments
  BY BookQAAssumption DEF Due
<1>7. Clean(l) <=> /\ \A s \in Segments : texts[s].written
                   /\ \A y \in Due(l) : y[1] \in texts[y[2]].kept
                   /\ \A s \in Segments : finals[l][s] # "none" => finals[l][s] # "zero" /\ verdicts[l][s] # "pending"
  BY DEF Clean
<1> HIDE DEF l
<1>8. Found(x) = {} <=> Clean(l)
  BY <1>1, <1>2, <1>3, <1>4, <1>5, <1>6, <1>7
<1>9. QED
  BY <1>8 DEF l

(* A full score leaves room for no problem.                                  *)
LEMMA FullScoreIsClean ==
  ASSUME NEW x \in Report, Cardinality(x.scores) <= Cardinality(Segments),
         x.chances <= Cardinality(Places), Cardinality(x.found) <= x.chances
  PROVE  LET n == Overall(Coverage(x), Average(x.scores), Consistency(x), Reviewed(x))
         IN  /\ n \in Nat /\ n <= 10000
             /\ SmallBook /\ n = 10000 => Found(x) = {}
<1>1. PICK c : c = Coverage(x)
  OBVIOUS
<1>2. PICK q : q = Average(x.scores)
  OBVIOUS
<1>3. PICK t : t = Consistency(x)
  OBVIOUS
<1>4. PICK v : v = Reviewed(x)
  OBVIOUS
<1>5. /\ c \in Nat /\ c <= 10000
      /\ Written(x) = Segments => c = 10000
      /\ SmallBook /\ c >= 9995 => Written(x) = Segments
  BY <1>1, CoverageIs
<1>6. /\ q \in Nat /\ q <= 10000
      /\ SmallBook /\ q >= 9995 => \A y \in x.scores : ~(y[2] < 80)
  BY <1>2, AverageIs
<1>7. t \in Nat /\ t <= 10000 /\ (SmallBook /\ t >= 9998 => x.found = {})
  BY <1>3, ConsistencyIs
<1>8. v \in Nat /\ v <= 10000 /\ (SmallBook /\ v >= 9995 => Pending(x) = {})
  BY <1>4, ReviewsAre
<1>9. PICK n : n = Overall(c, q, t, v)
  OBVIOUS
<1>10. /\ n \in Nat /\ n <= 10000
       /\ n = 10000 => c >= 9998 /\ q >= 9999 /\ t >= 9998 /\ v >= 9995
  BY <1>5, <1>6, <1>7, <1>8, <1>9, FullScore
<1>11. ASSUME SmallBook, n = 10000 PROVE Found(x) = {}
  <2>1. c >= 9998 /\ q >= 9999 /\ t >= 9998 /\ v >= 9995
    BY <1>10, <1>11
  <2>2. ~(c < 10000) /\ (\A y \in x.scores : ~(y[2] < 80)) /\ x.found = {} /\ Pending(x) = {}
    BY <1>5, <1>6, <1>7, <1>8, <1>11, <2>1
  <2>3. QED
    BY <1>1, <2>2, FoundIs
<1>12. QED
  BY <1>1, <1>2, <1>3, <1>4, <1>9, <1>10, <1>11

LEMMA ReadReviewsStep ==
  ASSUME BookInv, NEW r \in Reports, ReadReviews(r)
  PROVE  BookInv'
<1>1. PICK x \in Report : x = report[r] /\ Sound(x) /\ x.pc = "reviews"
  BY DEF ReadReviews, Doing, BookInv, BookTypeOK
<1>2. x.language \in Languages /\ x.texts \in [Segments -> Text] /\ (x.still => x.texts = texts)
  BY <1>1 DEF Sound, Loads, Under
<1>3. /\ Cardinality(x.scores) <= Cardinality(Segments)
      /\ x.still => x.final = Finals(x.language) /\ x.scores = Scores(x.language)
  BY <1>1 DEF Sound, Scored
<1>4. /\ x.chances <= Cardinality(Places) /\ Cardinality(x.found) <= x.chances
      /\ x.still => x.found = Missing(x.language)
  BY <1>1 DEF Sound, Finds
<1>5. PICK n \in Nat : /\ n = Overall(Coverage(x), Average(x.scores), Consistency(x), Reviewed(x))
                       /\ n <= 10000
                       /\ SmallBook /\ n = 10000 => Found(x) = {}
  BY <1>3, <1>4, FullScoreIsClean
<1>6. PICK P \in SUBSET Problems : P = Found(x)
  BY FoundIs
<1>7. n <= 10000
  BY <1>5
<1>8. SmallBook /\ n = 10000 => P = {}
  BY <1>5, <1>6
<1>9. SmallBook /\ x.still => (P = {} <=> Clean(x.language))
  BY <1>2, <1>3, <1>4, <1>6, ProblemsAre DEF BookInv
<1> DEFINE y == [x EXCEPT !.pc = "insert", !.overall = n, !.problems = P]
<1>10. Note(r, y) /\ UNCHANGED <<issues, edit, events>> /\ UNCHANGED Tables
  <2>1. Note(r, [report[r] EXCEPT !.pc = "insert",
          !.overall = Overall(Coverage(report[r]), Average(report[r].scores), Consistency(report[r]),
                              Reviewed(report[r])),
          !.problems = Found(report[r])])
    BY DEF ReadReviews, Overall, Coverage, Consistency, Reviewed, Written, Counted, Pending, Found, Problems
  <2>2. y = [report[r] EXCEPT !.pc = "insert",
          !.overall = Overall(Coverage(report[r]), Average(report[r].scores), Consistency(report[r]),
                              Reviewed(report[r])),
          !.problems = Found(report[r])]
    BY <1>1, <1>5, <1>6
  <2>3. UNCHANGED <<issues, edit, events>> /\ UNCHANGED Tables
    BY DEF ReadReviews, Book, Step, Tables
  <2> HIDE DEF y
  <2>4. QED
    BY <2>1, <2>2, <2>3
<1>11. /\ y \in Report /\ y.pc = "insert" /\ y.overall = n /\ y.problems = P
       /\ y.language = x.language /\ y.texts = x.texts /\ y.still = x.still
  BY DEF Report, Stages
<1> HIDE DEF y
<1>12. PICK z : z = y
  OBVIOUS
<1>13. Sound(z)
  <2>1. /\ z.pc = "insert" /\ z.overall = n /\ z.problems = P
        /\ z.language = x.language /\ z.texts = x.texts /\ z.still = x.still
    BY <1>11, <1>12
  <2>2. Audits(z) /\ Scored(z) /\ Finds(z)
    BY <2>1 DEF Audits, Scored, Finds
  <2>3. Loads(z)
    BY <1>2, <2>1 DEF Loads
  <2>4. Judges(z)
    BY <1>7, <1>8, <1>9, <2>1 DEF Judges
  <2>5. QED
    BY <2>2, <2>3, <2>4 DEF Sound
<1>14. Sound(z)' /\ events' \in Nat
  <2>1. Open' = Open
    BY <1>10 DEF Open
  <2>2. QED
    BY <1>10, <1>13, <2>1, SoundStays DEF BookInv, BookTypeOK
<1>15. QED
  BY <1>10, <1>11, <1>12, <1>14, OneMoves

-------------------------------------------------------------------------------
(* The invariant.                                                            *)

LEMMA BookStart == BookInit => BookInv
<1> SUFFICES ASSUME BookInit PROVE BookInv
  OBVIOUS
<1>1. ASSUME NEW q \in Reports PROVE Sound(report[q])
  <2>1. report[q].pc = "idle"
    BY NoReportType DEF BookInit
  <2>2. QED
    BY <2>1, SoundLeft
<1>2. report \in [Reports -> Report]
  BY NoReportType DEF BookInit
<1>3. texts \in [Segments -> Text]
  BY DEF BookInit, Text, NoText
<1>4. edit \in [Editors -> Decision]
  BY NoEditType DEF BookInit
<1>5. DOMAIN issues \in SUBSET Keys /\ issues \in [DOMAIN issues -> Status]
  BY DEF BookInit
<1>6. BookTypeOK
  BY <1>2, <1>3, <1>4, <1>5 DEF BookInit, BookTypeOK
<1>7. QED
  BY <1>1, <1>6 DEF BookInv

LEMMA BookIdles ==
  ASSUME BookInv, UNCHANGED bookVars
  PROVE  BookInv'
<1>1. UNCHANGED Tables /\ UNCHANGED <<issues, report, edit, events>>
  BY DEF bookVars, Tables
<1>2. ASSUME NEW q \in Reports PROVE Sound(report[q])'
  <2>1. PICK x : x = report[q] /\ Sound(x)
    BY DEF BookInv
  <2>2. Open' = Open
    BY <1>1 DEF Open
  <2>3. Sound(x)' /\ report'[q] = x
    BY <1>1, <2>1, <2>2, SoundStays
  <2>4. QED
    BY <2>3, SoundNow
<1>3. BookTypeOK'
  BY <1>1 DEF BookInv, BookTypeOK, Tables
<1>4. QED
  BY <1>2, <1>3 DEF BookInv

(* The steps of one report.                                                  *)
ReportSteps(r) ==
  \/ \E l \in Languages : StartReport(r, l)
  \/ ReadFinals(r) \/ ScanIssues(r) \/ DeleteIssues(r) \/ Audit(r) \/ CommitAudit(r)
  \/ RefreshFails(r) \/ ReadReviews(r) \/ InsertReport(r) \/ StopReport(r)

LEMMA ReportStepsKeep ==
  ASSUME BookInv, NEW r \in Reports, ReportSteps(r)
  PROVE  BookInv'
<1>1. CASE RefreshFails(r) \/ StopReport(r) \/ InsertReport(r)
  <2>1. /\ Leave(r, "failed") \/ Leave(r, "done")
        /\ UNCHANGED <<issues, events, edit>> /\ UNCHANGED Tables
    BY <1>1 DEF RefreshFails, StopReport, InsertReport, Step, Book, Tables
  <2>2. QED
    BY <2>1, LeaveStep
<1>2. QED
  BY <1>1, StartReportStep, ReadFinalsStep, ScanIssuesStep, DeleteIssuesStep, AuditStep,
     CommitAuditStep, ReadReviewsStep DEF ReportSteps

LEMMA BookStep == BookInv /\ [BookNext]_bookVars => BookInv'
<1> SUFFICES ASSUME BookInv, [BookNext]_bookVars PROVE BookInv'
  OBVIOUS
<1>1. ASSUME NEW t \in Terms, AddTerm(t) PROVE BookInv'
  BY <1>1, AddTermStep
<1>2. ASSUME NEW s \in Segments, NEW l \in Languages, NEW score \in {"unscored", "zero", "good"},
             NEW kept \in SUBSET {x[1] : x \in {x \in Places : x[2] = s}}, Translate(s, l, kept, score)
      PROVE  BookInv'
  <2>1. kept \in SUBSET Terms
    BY BookQAAssumption
  <2>2. QED
    BY <1>2, <2>1, TranslateStep
<1>3. ASSUME NEW l \in Languages, NEW s \in Segments, NEW status \in {"pending", "resolved"},
             ChangeReview(l, s, status)
      PROVE  BookInv'
  BY <1>3, ChangeReviewStep
<1>4. ASSUME NEW r \in Reports, ReportSteps(r) PROVE BookInv'
  BY <1>4, ReportStepsKeep
<1>5. ASSUME NEW e \in Editors, NEW i \in DOMAIN issues, NEW wanted \in {"open", "resolved"},
             LoadIssue(e, i, wanted)
      PROVE  BookInv'
  BY <1>5, LoadIssueStep
<1>6. ASSUME NEW e \in Editors, DecideIssue(e) PROVE BookInv'
  BY <1>6, DecideIssueStep
<1>7. CASE UNCHANGED bookVars
  BY <1>7, BookIdles
<1>8. QED
  BY <1>1, <1>2, <1>3, <1>4, <1>5, <1>6, <1>7 DEF BookNext, ReportSteps

LEMMA BookInvariant == BookSpec => []BookInv
  BY BookStart, BookStep, PTL DEF BookSpec

-------------------------------------------------------------------------------
(* The types of book_qa.py's rows hold whatever the requests do.             *)
THEOREM BookTypeCorrect == BookSpec => []BookTypeOK
<1>1. BookInv => BookTypeOK
  BY DEF BookInv
<1>2. QED
  BY <1>1, BookInvariant, PTL

LEMMA CleanFromInv ==
  ASSUME SmallBook, BookInv
  PROVE  CleanReportsAreEarned
<1>1. ASSUME NEW r \in Reports, Doing(r, "insert")
      PROVE  /\ 0 <= report[r].overall /\ report[r].overall <= 10000
             /\ report[r].overall = 10000 => report[r].problems = {}
             /\ report[r].still => (report[r].problems = {} <=> Clean(report[r].language))
             /\ Chances(r) = Due(report[r].language)
  <2>1. PICK x \in Report : x = report[r] /\ x.pc = "insert" /\ Sound(x)
    BY <1>1 DEF BookInv, BookTypeOK, Doing
  <2>2. /\ x.overall <= 10000
        /\ x.overall = 10000 => x.problems = {}
        /\ x.still => (x.problems = {} <=> Clean(x.language))
    BY <2>1 DEF Sound, Judges
  <2>3. 0 <= x.overall
    BY DEF Report
  <2>4. Chances(r) = Due(x.language)
    BY <2>1 DEF Chances, Due
  <2>5. QED
    BY <2>1, <2>2, <2>3, <2>4
<1>2. QED
  BY <1>1 DEF CleanReportsAreEarned, Clean

(* A report of a book that stood still lists no problem exactly when the     *)
(* book has none, and only a report without problems has the full score      *)
(* (generate_book_report), in a book that no rounding is too coarse for.     *)
THEOREM ReportsClean ==
  ASSUME SmallBook
  PROVE  BookSpec => []CleanReportsAreEarned
<1>1. BookInv => CleanReportsAreEarned
  BY CleanFromInv
<1>2. QED
  BY <1>1, BookInvariant, PTL

-------------------------------------------------------------------------------
(* The audits: only its own commit takes a report to the reviews.            *)

LEMMA OthersStay ==
  ASSUME BookInv, [BookNext]_bookVars, NEW r \in Reports, Doing(r, "commit"),
         report'[r].pc = "reviews"
  PROVE  CommitAudit(r)
<1>1. PICK x \in Report : x = report[r] /\ x.pc = "commit" /\ report \in [Reports -> Report]
  BY DEF Doing, BookInv, BookTypeOK
<1>2. report'[r] # x
  BY <1>1
<1>3. ~(report' = report)
  BY <1>1, <1>2
<1>4. ~(report' = Moved)
  <2>1. Moved[r] = [x EXCEPT !.still = FALSE]
    BY <1>1 DEF Moved, Ended
  <2>2. [x EXCEPT !.still = FALSE].pc = "commit"
    BY <1>1, StillRecord
  <2>3. QED
    BY <2>1, <2>2
<1>5. ~(report' = Joined)
  <2>1. Joined[r] = [x EXCEPT !.alone = FALSE]
    BY <1>1 DEF Joined
  <2>2. [x EXCEPT !.alone = FALSE].pc = "commit"
    BY <1>1, AloneRecord
  <2>3. QED
    BY <2>1, <2>2
<1>6. ASSUME NEW q \in Reports, q # r, NEW y, Note(q, y) PROVE FALSE
  BY <1>1, <1>2, <1>6 DEF Note
<1>7. ASSUME NEW p \in {"done", "failed"}, Leave(r, p) PROVE FALSE
  <2>1. report'[r] = [NoReport EXCEPT !.pc = p]
    BY <1>1, <1>7 DEF Leave
  <2>2. report'[r].pc = p
    BY <2>1, LeftRecord
  <2>3. QED
    BY <2>2
<1>8. ASSUME NEW q \in Reports, q # r, CommitAudit(q) PROVE FALSE
  <2>1. report'[r] = Joined[r]
    BY <1>8 DEF CommitAudit, Joined
  <2>2. Joined[r] = [x EXCEPT !.alone = FALSE]
    BY <1>1 DEF Joined
  <2>3. [x EXCEPT !.alone = FALSE].pc = "commit"
    BY <1>1, AloneRecord
  <2>4. QED
    BY <2>1, <2>2, <2>3
<1>9. ASSUME NEW q \in Reports, ReportSteps(q) PROVE q = r /\ CommitAudit(r)
  <2>1. CASE q # r
    <3>1. (\E y : Note(q, y)) \/ CommitAudit(q)
      BY <1>9 DEF ReportSteps, StartReport, ReadFinals, ScanIssues, DeleteIssues, Audit, RefreshFails,
                  ReadReviews, InsertReport, StopReport, Leave, Note
    <3>2. QED
      BY <1>6, <1>8, <2>1, <3>1
  <2>2. CASE q = r
    <3>1. \A p \in Stages : Doing(r, p) => p = "commit"
      BY <1>1 DEF Doing
    <3>2. \/ CommitAudit(r) \/ StopReport(r)
      BY <1>9, <2>2, <3>1 DEF ReportSteps, StartReport, ReadFinals, ScanIssues, DeleteIssues, Audit,
                              RefreshFails, ReadReviews, InsertReport, Stages
    <3>3. ~StopReport(r)
      BY <1>7 DEF StopReport
    <3>4. QED
      BY <2>2, <3>2, <3>3
  <2>3. QED
    BY <2>1, <2>2
<1>10. ASSUME NEW e \in Editors, DecideIssue(e) PROVE FALSE
  BY <1>3, <1>5, <1>10 DEF DecideIssue
<1>11. QED
  <2>1. CASE UNCHANGED bookVars
    BY <1>3, <2>1 DEF bookVars
  <2>2. CASE \/ \E t \in Terms : AddTerm(t)
             \/ \E s \in Segments, l \in Languages, score \in {"unscored", "zero", "good"} :
                  \E kept \in SUBSET {w[1] : w \in {v \in Places : v[2] = s}} : Translate(s, l, kept, score)
             \/ \E l \in Languages, s \in Segments, status \in {"pending", "resolved"} : ChangeReview(l, s, status)
    <3>1. Change
      BY <2>2 DEF AddTerm, Translate, ChangeReview
    <3>2. QED
      BY <1>4, <3>1 DEF Change
  <2>3. CASE \E q \in Reports : ReportSteps(q)
    BY <1>9, <2>3
  <2>4. CASE \E e \in Editors : \/ \E i \in DOMAIN issues, wanted \in {"open", "resolved"} : LoadIssue(e, i, wanted)
                               \/ DecideIssue(e)
    <3>1. ASSUME NEW e \in Editors, NEW i \in DOMAIN issues, NEW wanted \in {"open", "resolved"},
                 LoadIssue(e, i, wanted)
          PROVE  FALSE
      BY <1>3, <3>1 DEF LoadIssue
    <3>2. QED
      BY <1>10, <2>4, <3>1
  <2>5. QED
    BY <2>1, <2>2, <2>3, <2>4 DEF BookNext, ReportSteps

LEMMA AuditFromInv ==
  ASSUME BookInv, [BookNext]_bookVars, NEW r \in Reports, Doing(r, "commit"),
         report'[r].pc = "reviews"
  PROVE  /\ report[r].alone => Open' = NewIssues(r)
         /\ report[r].still => report[r].found = {x \in Chances(r) : Lacks(texts[x[2]], x[1])}
<1>1. PICK x \in Report : x = report[r] /\ x.pc = "commit" /\ Sound(x)
  BY DEF BookInv, BookTypeOK, Doing
<1>2. Open' = NewIssues(r) \union (Open \ x.deleted)
  BY <1>1, OthersStay, CommitOpens DEF BookInv
<1>3. x.alone => x.deleted = Open
  BY <1>1 DEF Sound, Audits
<1>4. x.alone => Open' = NewIssues(r)
  BY <1>2, <1>3
<1>5. x.still => x.found = Missing(x.language)
  BY <1>1 DEF Sound, Finds
<1>6. Missing(x.language) = {y \in Chances(r) : Lacks(texts[y[2]], y[1])}
  BY <1>1 DEF Missing, Chances, Due
<1>7. QED
  BY <1>1, <1>4, <1>5, <1>6

(* An audit that nothing interleaves with leaves exactly its own issues open *)
(* and, of a book that stood still, they are the places that lack a term     *)
(* when it commits (run_terminology_audit).                                  *)
THEOREM AuditsExact == BookSpec => AuditsAreExact
<1>1. BookInv /\ [BookNext]_bookVars =>
        [\A r \in Reports :
           Doing(r, "commit") /\ report'[r].pc = "reviews" =>
             /\ report[r].alone => Open' = NewIssues(r)
             /\ report[r].still => report[r].found = {x \in Chances(r) : Lacks(texts[x[2]], x[1])}]_bookVars
  BY AuditFromInv
<1>2. QED
  BY <1>1, BookInvariant, PTL DEF BookSpec, AuditsAreExact
===============================================================================
