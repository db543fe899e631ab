------------------------------ MODULE MCJobQueue ------------------------------
(* Model values for the runs of JobQueue.                                    *)
EXTENDS JobQueue, TLC

(* Jobs without idempotency keys are interchangeable, and so are workers.    *)
JobAndWorkerSymmetry == Permutations(Jobs) \union Permutations(Workers)

(* The behaviours of the liveness run: two jobs without cancel requests, or  *)
(* one job that may be cancelled.                                            *)
OneJobOrNoCancel ==
  \/ Cardinality({j \in Jobs : submit[j] # "new"}) <= 1
  \/ \A j \in Jobs : cancel[j] = "none"

LiveSpec == Init /\ [][Next /\ OneJobOrNoCancel']_vars /\ Fairness

(* With one fault fewer than processes, some worker survives.                *)
ASSUME SomeWorkerSurvives == MaxFaults < Cardinality(Workers)
===============================================================================
