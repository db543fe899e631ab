------------------------ MODULE MCTranslationVersions ------------------------
(* The run of TranslationVersions, with the candidates of QualityScore as a  *)
(* second, separate system: a behaviour is one of either.                    *)
EXTENDS TranslationVersions, QualityScore, TLC

SessionSymmetry == Permutations(Sessions)

MCInit == Init /\ (pair = NoPair \/ ScoreInit)

MCNext == \/ pair = NoPair /\ Next /\ UNCHANGED pair
          \/ pair # NoPair /\ Revise /\ UNCHANGED vars

MCSpec == MCInit /\ [][MCNext]_<<vars, pair>>

(* Faithful candidates, and some that are too short, too long or careless.   *)
Once(t, n) == {<<t, m>> : m \in 1..n}

Kept(urls, numbers, codes, emails) ==
  LET anchors == [url |-> urls, number |-> Once("a", numbers), code |-> Once("a", codes), email |-> Once("a", emails)]
  IN  [source |-> anchors, cand |-> anchors, words |-> 10, candWords |-> 9, sentences |-> 2, candSentences |-> 2,
       terms |-> 2, kept |-> 2, phrases |-> 7, leaked |-> 0,
       marks |-> [spaces |-> 0, punctuation |-> 0, brackets |-> 0]]

Samples ==
  {Kept(Once("a", m) \union Once("b", n), o, c, 1 - c) : m \in 0..1, n \in 0..1, o \in 0..2, c \in 0..1}
  \union
  {[Kept(Once("a", 1), 1, 0, 0) EXCEPT
      !.candWords = w, !.candSentences = s, !.kept = k, !.leaked = l,
      !.marks = [spaces |-> 1, punctuation |-> p, brackets |-> 3 * p]] :
     w \in {1, 4, 5, 28, 29, 70}, s \in 1..2, k \in 0..2, l \in {0, 1, 3}, p \in 0..1}

(* Three anchors are lost or invented in a careful candidate, one in others. *)
Changed(k) == Missing(pair.source[k], pair.cand[k]) + Extra(pair.source[k], pair.cand[k])

QualityFocus ==
  pair = NoPair \/ pair.candSentences = 0
    \/ Changed("url") + Changed("email") + Changed("code") + Changed("number") <= IF Careful(pair) THEN 3 ELSE 1

SampleAnswers ==
  {[n \in 1..6 |-> j] : j \in {0, 5900, 6000, 8999, 10000}} \union {<<9000, 10000, 8000, 7000, 0, 4000>>}

SampleWeights == {-1, 0, 1, 3}
===============================================================================
