-------------------------------- MODULE BookQA --------------------------------
(***************************************************************************)
(* The quality report of a book (book_qa.py) and the terminology audit it  *)
(* runs, beside the requests that change what it reads: new glossary terms,*)
(* translations, reviews, and the decisions on terminology issues.         *)
(*                                                                         *)
(* A report is one database session of two transactions under READ         *)
(* COMMITTED: every SELECT sees what is committed when it runs, a DELETE   *)
(* waits for the rows another transaction has deleted, and the Segment rows*)
(* that the session has loaded once are not read again.                    *)
(***************************************************************************)
EXTENDS Integers, FiniteSets

CONSTANTS
  Segments, Terms, Languages, Reports, Editors,
  TermLanguage,  (* [Terms -> Languages]: glossary_terms.target_language      *)
  Places,        (* the pairs of a term and a segment whose source text has it*)
  MaxEvents      (* bound: requests and changes of what a report reads        *)

ASSUME BookQAAssumption ==
  /\ IsFiniteSet(Segments) /\ IsFiniteSet(Terms)
  /\ TermLanguage \in [Terms -> Languages]
  /\ Places \subseteq Terms \X Segments
  /\ MaxEvents \in Nat

VARIABLES
  glossary,   (* the terms of the book, all of them active and approved       *)
  texts,      (* segments.translated_text: the terms it has in translation    *)
  finals,     (* the score of the final version, by language and segment      *)
  verdicts,   (* the human review of that translation                         *)
  issues,     (* terminology_issues: the status of each                       *)
  report,     (* the requests for a report                                    *)
  edit,       (* the requests that set the status of an issue                 *)
  events

bookVars == <<glossary, texts, finals, verdicts, issues, report, edit, events>>

NoText   == [written |-> FALSE, kept |-> {}]
NoReport == [pc |-> "idle", language |-> "none", texts |-> <<>>, scores |-> {}, final |-> {},
             scanned |-> {}, deleted |-> {}, found |-> {}, chances |-> 0,
             problems |-> {}, overall |-> 0, still |-> TRUE, alone |-> TRUE]
NoEdit   == [pc |-> "idle", issue |-> <<>>, loaded |-> "none", wanted |-> "none"]

BookInit ==
  /\ glossary = {}
  /\ texts = [s \in Segments |-> NoText]
  /\ finals = [l \in Languages |-> [s \in Segments |-> "none"]]
  /\ verdicts = [l \in Languages |-> [s \in Segments |-> "none"]]
  /\ issues = <<>>
  /\ report = [r \in Reports |-> NoReport]
  /\ edit = [e \in Editors |-> NoEdit]
  /\ events = 0

----------------------------------------------------------------------------
(* What changes under a report.                                              *)

(* History: the reports under way see a book that has changed.               *)
Ended(r) == report[r].pc \in {"idle", "done", "failed"}
Moved    == [r \in Reports |-> IF Ended(r) THEN report[r] ELSE [report[r] EXCEPT !.still = FALSE]]

(* History: another audit or a decision has been committed.                  *)
Joined == [r \in Reports |-> IF report[r].pc \in {"delete", "audit", "commit"}
                             THEN [report[r] EXCEPT !.alone = FALSE] ELSE report[r]]

Event == events < MaxEvents /\ events' = events + 1

Change ==
  /\ Event
  /\ report' = Moved
  /\ UNCHANGED <<issues, edit>>

AddTerm(t) ==
  /\ t \notin glossary
  /\ Change
  /\ glossary' = glossary \union {t}
  /\ UNCHANGED <<texts, finals, verdicts>>

(* A version is finalized: its text becomes the segment's, whatever the      *)
(* language of the one before.                                               *)
Translate(s, l, kept, score) ==
  /\ Change
  /\ texts' = [texts EXCEPT ![s] = [written |-> TRUE, kept |-> kept]]
  /\ finals' = [finals EXCEPT ![l][s] = score]
  /\ UNCHANGED <<glossary, verdicts>>

(* A review is requested of a version, final or not, and is resolved.        *)
ChangeReview(l, s, status) ==
  /\ verdicts[l][s] = (IF status = "pending" THEN "none" ELSE "pending")
  /\ Change
  /\ verdicts' = [verdicts EXCEPT ![l][s] = status]
  /\ UNCHANGED <<glossary, texts, finals>>

----------------------------------------------------------------------------
(* The report.                                                               *)

Doing(r, pc) == report[r].pc = pc
Note(r, x) == report' = [report EXCEPT ![r] = x]
Leave(r, pc) == report' = [report EXCEPT ![r] = [NoReport EXCEPT !.pc = pc]]
Book == UNCHANGED <<glossary, texts, finals, verdicts, edit>>
Step == Book /\ UNCHANGED events

StartReport(r, l) ==
  /\ Doing(r, "idle")
  /\ Note(r, [NoReport EXCEPT !.pc = "finals", !.language = l, !.texts = texts])
  /\ Event /\ UNCHANGED issues /\ Book

(* quality_score: NULL is "unscored", zero is a score.                       *)
Points(score) == CASE score = "zero" -> 0 [] score = "good" -> 100

(* Mutant: a score of zero is taken for none.                                *)
ScoresOfTruth(l) == {s \in Segments : finals[l][s] \notin {"none", "unscored", "zero"}}

ScoredFinals(l) == {s \in Segments : finals[l][s] \notin {"none", "unscored"}}

ReadFinals(r) ==
  LET l == report[r].language IN
  /\ Doing(r, "finals")
  /\ Note(r, [report[r] EXCEPT !.pc = "scan", !.final = {s \in Segments : finals[l][s] # "none"},
                               !.scores = {<<s, Points(finals[l][s])>> : s \in ScoredFinals(l)}])
  /\ UNCHANGED issues /\ Step

(* The DELETE of the open issues, of whatever language: the rows its         *)
(* snapshot shows, and then those of them that are open when the transactions*)
(* that hold them have ended.                                                *)
Open == {i \in DOMAIN issues : issues[i] = "open"}

ScanIssues(r) ==
  /\ Doing(r, "scan")
  /\ Note(r, [report[r] EXCEPT !.pc = "delete", !.scanned = Open])
  /\ UNCHANGED issues /\ Step

HeldBy(r) == report[r].deleted

(* Mutant: the open issues stay.                                            *)
DeleteNothing(r) ==
  /\ Doing(r, "delete")
  /\ Note(r, [report[r] EXCEPT !.pc = "audit", !.scanned = {}])
  /\ UNCHANGED issues /\ Step

DeleteIssues(r) ==
  /\ Doing(r, "delete")
  /\ \A q \in Reports \ {r} : HeldBy(q) \cap report[r].scanned = {}
  /\ Note(r, [report[r] EXCEPT !.pc = "audit", !.scanned = {}, !.deleted = report[r].scanned \cap Open])
  /\ UNCHANGED issues /\ Step

(* One issue for every place of a required term where the text, as loaded at *)
(* the start, is missing or lacks it.                                        *)
Chances(r) == {x \in Places : x[1] \in glossary /\ TermLanguage[x[1]] = report[r].language}
Lacks(text, t) == ~text.written \/ t \notin text.kept

Audit(r) ==
  /\ Doing(r, "audit")
  /\ Note(r, [report[r] EXCEPT !.pc = "commit", !.chances = Cardinality(Chances(r)),
                               !.found = {x \in Chances(r) : Lacks(report[r].texts[x[2]], x[1])}])
  /\ UNCHANGED issues /\ Step

NewIssues(r) == {<<r, x[1], x[2]>> : x \in report[r].found}

CommitAudit(r) ==
  /\ Doing(r, "commit")
  /\ issues' = [i \in NewIssues(r) \union (DOMAIN issues \ report[r].deleted) |->
                  IF i \in NewIssues(r) THEN "open" ELSE issues[i]]
  /\ report' = [Joined EXCEPT ![r].pc = "reviews", ![r].deleted = {}]
  /\ Step

(* The refresh of an issue that another audit has deleted by now fails.      *)
RefreshFails(r) ==
  /\ Doing(r, "reviews")
  /\ ~(NewIssues(r) \subseteq DOMAIN issues)
  /\ Leave(r, "failed")
  /\ UNCHANGED issues /\ Step

(* The reviews of the translations that had a final version.  The scores are *)
(* in hundredths of a percent, rounded; the mean of scores that are 0 or 100 *)
(* is the share of those that are 100.                                       *)
Percent(n, d) == IF d = 0 THEN 10000 ELSE (20000 * n + d) \div (2 * d)

Average(scores) == IF scores = {} THEN 0
                   ELSE Percent(Cardinality({x \in scores : x[2] = 100}), Cardinality(scores))

ReadReviews(r) ==
  LET x == report[r]
      counted == {s \in x.final : verdicts[x.language][s] # "none"}
      pending == {s \in counted : verdicts[x.language][s] = "pending"}
      coverage == Percent(Cardinality({s \in Segments : x.texts[s].written}), Cardinality(Segments))
      consistency == Percent(x.chances - Cardinality(x.found), x.chances)
      reviewed == Percent(Cardinality(counted \ pending), Cardinality(counted))
  IN
  /\ Doing(r, "reviews")
  /\ NewIssues(r) \subseteq DOMAIN issues
  /\ Note(r, [x EXCEPT !.pc = "insert",
       !.overall = (25 * coverage + 40 * Average(x.scores) + 25 * consistency + 10 * reviewed + 50) \div 100,
       !.problems = {p \in {"coverage", "quality", "terminology", "reviews"} :
         CASE p = "coverage"    -> coverage < 10000
           [] p = "quality"     -> \E y \in x.scores : y[2] < 80
           [] p = "terminology" -> x.found # {}
           [] p = "reviews"     -> pending # {}}])
  /\ UNCHANGED issues /\ Step

InsertReport(r) ==
  /\ Doing(r, "insert")
  /\ Leave(r, "done")
  /\ UNCHANGED issues /\ Step

(* The process stops: the transaction that is open is rolled back, an audit  *)
(* that is committed stays.                                                  *)
StopReport(r) ==
  /\ ~Ended(r)
  /\ Leave(r, "failed")
  /\ UNCHANGED issues /\ Step

----------------------------------------------------------------------------
(* The decision on an issue; "resolved" stands for "ignored" too.            *)

LoadIssue(e, i, wanted) ==
  /\ edit[e].pc = "idle"
  /\ edit' = [edit EXCEPT ![e] = [pc |-> "loaded", issue |-> i, loaded |-> issues[i], wanted |-> wanted]]
  /\ UNCHANGED <<glossary, texts, finals, verdicts, issues, report>>
  /\ Event

(* Only a status that differs from the loaded one is written; the write waits*)
(* for a transaction that has deleted the row, and fails if the row is gone. *)
DecideIssue(e) ==
  LET i == edit[e].issue
      written == edit[e].wanted # edit[e].loaded
  IN
  /\ edit[e].pc = "loaded"
  /\ written => \A r \in Reports : i \notin HeldBy(r)
  /\ edit' = [edit EXCEPT ![e] = [NoEdit EXCEPT !.pc = "done"]]
  /\ IF written /\ i \in DOMAIN issues
     THEN /\ issues' = [issues EXCEPT ![i] = edit[e].wanted]
          /\ report' = Joined
     ELSE UNCHANGED <<issues, report>>
  /\ UNCHANGED <<glossary, texts, finals, verdicts, events>>

BookNext ==
  \/ \E t \in Terms : AddTerm(t)
  \/ \E s \in Segments, l \in Languages, score \in {"unscored", "zero", "good"} :
       \E kept \in SUBSET {x[1] : x \in {x \in Places : x[2] = s}} : Translate(s, l, kept, score)
  \/ \E l \in Languages, s \in Segments, status \in {"pending", "resolved"} : ChangeReview(l, s, status)
  \/ \E r \in Reports :
       \/ \E l \in Languages : StartReport(r, l)
       \/ ReadFinals(r) \/ ScanIssues(r) \/ DeleteIssues(r) \/ Audit(r) \/ CommitAudit(r)
       \/ RefreshFails(r) \/ ReadReviews(r) \/ InsertReport(r) \/ StopReport(r)
  \/ \E e \in Editors :
       \/ \E i \in DOMAIN issues, wanted \in {"open", "resolved"} : LoadIssue(e, i, wanted)
       \/ DecideIssue(e)

BookSpec == BookInit /\ [][BookNext]_bookVars

----------------------------------------------------------------------------
(* An audit with no other audit and no decision between its DELETE and its   *)
(* COMMIT leaves exactly its own issues open, each place once; and if the    *)
(* book stood still they are the places that lack a term now.                *)
AuditsAreExact ==
  [][\A r \in Reports :
       Doing(r, "commit") /\ report'[r].pc = "reviews" =>
         /\ report[r].alone => Open' = NewIssues(r)
         /\ report[r].still => report[r].found = {x \in Chances(r) : Lacks(texts[x[2]], x[1])}]_bookVars

(* A report of a book that stood still lists no problem exactly when every   *)
(* segment has a text, no text lacks a required term, no final version is    *)
(* scored low and no review of a translation with one is pending; and only a *)
(* report without problems has the full score, as long as the book is not so *)
(* large that one of 1819 reviews or of 4001 segments is rounded away.       *)
CleanReportsAreEarned ==
  \A r \in Reports :
    LET l == report[r].language IN
    Doing(r, "insert") =>
      /\ 0 <= report[r].overall /\ report[r].overall <= 10000
      /\ report[r].overall = 10000 => report[r].problems = {}
      /\ report[r].still =>
           (report[r].problems = {} <=>
              /\ \A s \in Segments : texts[s].written
              /\ \A x \in Chances(r) : x[1] \in texts[x[2]].kept
              /\ \A s \in Segments : finals[l][s] # "none" =>
                   finals[l][s] # "zero" /\ verdicts[l][s] # "pending")
===============================================================================
