----------------------------- MODULE QualityScore -----------------------------
(***************************************************************************)
(* The scores of a translation: the deterministic one, the judges' and     *)
(* their combination, of services/quality_evaluation.py and                *)
(* services/translation_qa.py.  Scores are in hundredths of a point, as    *)
(* both round to two decimals.  Of the texts only what the scores count is *)
(* kept: words, sentences, glossary terms, leaked phrases, style marks, and*)
(* the anchors (URLs, addresses, code, numbers) that have to be preserved. *)
(* A Counter of anchors is the set of their occurrences, <<token, n>> for  *)
(* the n-th of a token, so that the common part of two is an intersection. *)
(***************************************************************************)
EXTENDS Integers, Sequences, FiniteSets

CONSTANTS
  Tokens, MaxCount,   \* of anchors: what they can be, how often each occurs
  Drafts,             \* sources with the candidates that are scored first
  Answers,            \* what judges answer: six scores
  Weights             \* of the deterministic score and of judges

VARIABLE pair         \* the source and the candidate that is scored

Full   == 10000
Kinds  == {"url", "email", "code", "number"}
Capped == 5900        \* of a critical failure

Occurrences == Tokens \X (1..MaxCount)

(* phrases: how many four words in a row the source has; 0 if it is shorter. *)
(* marks: what _style_score finds.                                           *)
Texts == [source : [Kinds -> SUBSET Occurrences], cand : [Kinds -> SUBSET Occurrences],
          words : Nat, candWords : Nat, sentences : Nat \ {0}, candSentences : Nat,
          terms : Nat, kept : Nat, phrases : Nat, leaked : Nat,
          marks : [spaces : 0..1, punctuation : 0..1, brackets : 0..3]]

ASSUME QualityAssumption ==
  /\ IsFiniteSet(Tokens) /\ MaxCount \in Nat
  /\ Drafts \subseteq Texts
  /\ \A x \in Drafts : x.leaked <= x.phrases
  /\ Answers \subseteq [1..6 -> 0..Full]
  /\ Weights \subseteq Int

AtLeast(a, b) == IF a < b THEN b ELSE a
AtMost(a, b)  == IF a < b THEN a ELSE b

(* n/d to the nearest hundredth, within 0 to 100.                            *)
Round(n, d) == AtLeast(0, AtMost(Full, (2 * n + d) \div (2 * d)))

Matched(src, cand) == Cardinality(src \intersect cand)

(* Mutant: only how many they are is compared.                               *)
MissingByNumber(src, cand) == AtLeast(0, Cardinality(src) - Cardinality(cand))

Missing(src, cand) == Cardinality(src \ cand)

Extra(src, cand) == Cardinality(cand \ src)

(* Mutant: the share of the candidate's anchors instead of the source's.     *)
CounterScoreOfCandidate(src, cand) ==
  IF cand = {} THEN Full ELSE Round(Full * Matched(src, cand), Cardinality(cand))

CounterScore(src, cand) ==
  IF src = {} THEN Full ELSE Round(Full * Matched(src, cand), Cardinality(src))

(* URLs, addresses and code, weighted by how many the source has.            *)
ProtectedCount(src) == Cardinality(src.url) + Cardinality(src.email) + Cardinality(src.code)

ProtectedScore(src, cand) ==
  LET Share(k) == Cardinality(src[k]) * CounterScore(src[k], cand[k])
  IN  IF ProtectedCount(src) = 0 THEN Full
      ELSE Round(Share("url") + Share("email") + Share("code"), ProtectedCount(src))

LengthScore(n, m) ==    \* of a candidate with m words for n
  CASE n > 0 /\ 100*m < 45*n -> Round(100 * m * Full, 45 * n)
    [] n > 0 /\ 10*m > 28*n  -> Round(Full * n - 300 * (10*m - 28*n), n)
    [] OTHER                 -> Full

SentenceScore(n, m) == IF 2*m >= n THEN Full ELSE Round(2 * m * Full, n)

TerminologyScore(terms, kept) == IF terms = 0 THEN Full ELSE Round(kept * Full, terms)

LeakageScore(phrases, leaked) ==
  IF leaked = 0 THEN Full ELSE Round(Full * phrases - AtMost(phrases, 3 * leaked) * Full, phrases)

StyleScore(marks) ==
  Round(Full - 1000 * marks.spaces - 1000 * marks.punctuation - 1200 * marks.brackets, 1)

HallucinationScore(x) ==
  LET extra(k) == Extra(x.source[k], x.cand[k]) IN
  Round(Full - AtMost(Full, AtMost(7000, 2000 * extra("number"))
                          + AtMost(3000, 1500 * (extra("url") + extra("email")))
                          + AtMost(3000, 1000 * extra("code"))
                          + IF x.words > 0 /\ 10 * x.candWords > 28 * x.words THEN 2000 ELSE 0), 1)

(* score_translation_deterministically, of a pair of texts x.                *)
Deterministic(x) ==
  LET blank     == x.candSentences = 0     \* else at least 1
      numbers   == CounterScore(x.source.number, x.cand.number)
      protected == ProtectedScore(x.source, x.cand)
      length    == IF blank THEN 0 ELSE LengthScore(x.words, x.candWords)
      sentences == IF blank THEN 0 ELSE SentenceScore(x.sentences, x.candSentences)
      complete  == Round(25 * length + 15 * sentences + 30 * numbers + 30 * protected, 100)
      technical == Round(45 * numbers + 55 * protected, 100)
      invented  == HallucinationScore(x)
      style     == IF blank THEN 0 ELSE StyleScore(x.marks)
      score     == Round(25 * complete + 20 * TerminologyScore(x.terms, x.kept) + 25 * technical
                         + 20 * invented + 5 * LeakageScore(x.phrases, x.leaked) + 5 * style, 100)
      critical  == \/ blank
                   \/ Missing(x.source.url, x.cand.url) > 0
                   \/ Missing(x.source.email, x.cand.email) > 0
                   \/ numbers < 5000     \* Full without numbers in the source
                   \/ protected < 5000
                   \/ invented < 5000
  IN  [score |-> IF critical THEN AtMost(score, Capped) ELSE score, critical |-> critical]

NoJudge == -1

(* combine_quality_scores                                                    *)
Combine(score, judge, scoreWeight, judgeWeight, critical) ==
  LET a == AtLeast(0, scoreWeight)
      b == AtLeast(0, judgeWeight)
      combined == IF judge = NoJudge \/ a + b = 0 THEN score
                  ELSE Round(a * score + b * judge, a + b)
  IN  IF critical THEN AtMost(combined, Capped) ELSE combined

(* A judge's answer: semantic_accuracy, terminology, completeness, fluency,  *)
(* technical_integrity, style.                                               *)
Overall(s) == Round(30*s[1] + 20*s[2] + 15*s[3] + 15*s[4] + 10*s[5] + 10*s[6], 100)

Verdict(score) ==
  CASE score >= 9000                 -> "excellent"
    [] 8000 <= score /\ score < 9000 -> "good"
    [] 7000 <= score /\ score < 8000 -> "acceptable"
    [] 6000 <= score /\ score < 7000 -> "needs_review"
    [] OTHER                         -> "poor"

(* The scores of several judges by weight; without a positive weight the     *)
(* divisor is their number and the sum is 0.                                 *)
Total(s) == LET sum[n \in 0..Len(s)] == IF n = 0 THEN 0 ELSE sum[n - 1] + s[n]
            IN  sum[Len(s)]

Aggregate(scores, weights) ==
  LET w     == [n \in DOMAIN scores |-> AtLeast(0, weights[n])]
      total == Total(w)
  IN  Round(Total([n \in DOMAIN scores |-> w[n] * scores[n]]),
            IF total = 0 THEN Len(scores) ELSE total)

----------------------------------------------------------------------------
(* A candidate and its revisions.                                            *)
NoPair == [none |-> TRUE]    \* nothing is scored

ScoreInit == pair \in Drafts

(* The candidate loses an anchor of the source, or invents one: of a token   *)
(* the last that it has, or the next.                                        *)
Lose(k, t, n) ==
  /\ <<t, n>> \in pair.source[k] \intersect pair.cand[k]
  /\ <<t, n + 1>> \notin pair.cand[k]
  /\ pair' = [pair EXCEPT !.cand[k] = @ \ {<<t, n>>}]

Invent(k, t, n) ==
  /\ <<t, n>> \notin pair.source[k] \union pair.cand[k]
  /\ n > 1 => <<t, n - 1>> \in pair.cand[k]
  /\ pair' = [pair EXCEPT !.cand[k] = @ \union {<<t, n>>}]

(* An empty candidate.                                                       *)
Empty ==
  /\ pair.candSentences > 0
  /\ pair' = [pair EXCEPT !.cand = [k \in Kinds |-> {}], !.candWords = 0, !.candSentences = 0,
                            !.kept = 0, !.leaked = 0]

Revise == \/ \E k \in Kinds, t \in Tokens, n \in 1..MaxCount : Lose(k, t, n) \/ Invent(k, t, n)
          \/ Empty

QualitySpec == ScoreInit /\ [][Revise]_pair

(* A segment has at most 3500 characters (segment_chapter), so 1750 anchors. *)
MostAnchors == 1750

(* A candidate with nothing to find fault with but its anchors, of a source  *)
(* that is not so long that one anchor is rounded away.                      *)
Careful(x) ==
  /\ x.candSentences > 0 /\ 2 * x.candSentences >= x.sentences
  /\ 100 * x.candWords >= 45 * x.words /\ 10 * x.candWords <= 28 * x.words
  /\ x.kept = x.terms /\ x.leaked = 0
  /\ x.marks = [spaces |-> 0, punctuation |-> 0, brackets |-> 0]
  /\ Cardinality(x.source.number) <= MostAnchors /\ ProtectedCount(x.source) <= MostAnchors

Between(a, b) == AtMost(a, b)..AtLeast(a, b)

(* Of careful candidates exactly those that keep every anchor and invent none*)
(* have the full score; no score is out of range; no judge lifts a critical  *)
(* failure above "poor", whatever the weights, and with any other score a    *)
(* judge's is combined and averaged to something between the two.            *)
ScoresAreGraded ==
  pair # NoPair =>
    LET d == Deterministic(pair) IN
    /\ d.score \in 0..Full
    /\ Careful(pair) => (d.score = Full <=> pair.source = pair.cand)
    /\ Careful(pair) /\ pair.source = pair.cand => ~d.critical
    /\ \A a \in Answers, v, w \in Weights :
         LET j == Overall(a)
             c == Combine(d.score, j, v, w, d.critical) IN
         /\ IF d.critical THEN Verdict(c) = "poor" ELSE c \in Between(d.score, j)
         /\ v > 0 \/ w > 0 => Aggregate(<<d.score, j>>, <<v, w>>) \in Between(d.score, j)

(* A revision that loses an anchor or invents one never raises the score, and*)
(* neither that nor an empty candidate takes a critical failure away.        *)
ErrorsNeverHelp ==
  [][pair # NoPair =>
       /\ pair'.candSentences > 0 => Deterministic(pair').score <= Deterministic(pair).score
       /\ Deterministic(pair).critical => Deterministic(pair').critical]_pair
===============================================================================
