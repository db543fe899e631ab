--------------------------- MODULE MCTranslationJob ---------------------------
(* Configurations for the runs of TranslationJob.                            *)
EXTENDS TranslationJob

Config(force, stopOnError, judge, quality, limit) ==
  [force |-> force, stopOnError |-> stopOnError, judge |-> judge,
   quality |-> quality, limit |-> limit]

(* The defaults with a judge, without and with a limit; a forced job with no  *)
(* score at all; the judge's score alone, with stop_on_error.                *)
MixedConfigs ==
  { Config(FALSE, FALSE, TRUE,  TRUE,  0),
    Config(FALSE, FALSE, TRUE,  TRUE,  3),
    Config(TRUE,  FALSE, FALSE, FALSE, 3),
    Config(FALSE, TRUE,  TRUE,  FALSE, 0) }

(* Every limit is reached within one turn of the loop, or there is none.     *)
ASSUME LimitsAreReached == \A c \in Configs : c.limit <= TurnCost
===============================================================================
