--------------------------- MODULE MCProviderRouting ---------------------------
(* The run of ProviderRouting, with the reports of BookQA as a second,       *)
(* separate system: a behaviour is one of either.                            *)
EXTENDS ProviderRouting, BookQA

VARIABLE subject    \* which of the two moves

CONSTANTS p1, p2

Row(status, slots, requests, tokens) ==
  [status |-> status, limit |-> <<slots, requests, tokens>>]

(* A policy with two of the limits, where a call gives back what it has when *)
(* the tokens of the window are used up, which an administrator may change to*)
(* one request per minute, or back; and one without limits to fall back to,  *)
(* which may be disabled.                                                    *)
TwoPolicies ==
  (p1 :> {Row("enabled", 1, 0, 3), Row("enabled", 0, 1, 0)}) @@
  (p2 :> {Row("enabled", 0, 0, 0), Row("disabled", 0, 0, 0)})

(* A term of each of two languages, both in the first segment.               *)
TermLanguages == [t \in Terms |-> IF t = "other" THEN "de" ELSE "ru"]
BothInFirst   == {<<"plain", "s1">>, <<"other", "s1">>}

MCSymmetry == Permutations(Calls) \union Permutations(Reports)

MCInit == /\ Init /\ BookInit
          /\ policy[p2].status = "enabled"
          /\ \/ subject = "routing"
             \/ subject = "book" /\ policy[p1].limit[1] = 1

MCNext == /\ UNCHANGED subject
          /\ \/ subject = "routing" /\ Next /\ UNCHANGED bookVars
             \/ subject = "book" /\ BookNext /\ UNCHANGED vars

MCSpec == MCInit /\ [][MCNext]_<<vars, bookVars, subject>>
================================================================================
