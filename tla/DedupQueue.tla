------------------------------ MODULE DedupQueue ------------------------------
(***************************************************************************)
(* What services/job_queue.py promises its callers: a work queue without   *)
(* duplicates.  An offer of a job that is already waiting is refused; a    *)
(* job that waits is handed to one worker, once per accepted offer.        *)
(* Nothing is said about order: it is a set.  A job that a crash leaves    *)
(* waiting for ever is allowed here; liveness is JobQueue!JobsFinish.      *)
(***************************************************************************)

CONSTANTS Jobs, Workers, None

VARIABLES
  waiting,    (* accepted offers not handed out yet       *)
  inHand      (* the job each worker has been handed      *)

vars == <<waiting, inHand>>

Init ==
  /\ waiting = {}
  /\ inHand = [w \in Workers |-> None]

(* enqueue_job returns True.                                                 *)
Offer(j) ==
  /\ j \notin waiting
  /\ waiting' = waiting \union {j}
  /\ UNCHANGED inHand

(* enqueue_job raises: the offer is taken back.                              *)
Withdraw(j) ==
  /\ j \in waiting
  /\ waiting' = waiting \ {j}
  /\ UNCHANGED inHand

(* dequeue_job returns the job.                                              *)
Take(w, j) ==
  /\ j \in waiting
  /\ inHand[w] = None
  /\ waiting' = waiting \ {j}
  /\ inHand' = [inHand EXCEPT ![w] = j]

(* The worker is through with the job, skips it or dies.                     *)
Drop(w) ==
  /\ inHand' = [inHand EXCEPT ![w] = None]
  /\ UNCHANGED waiting

Next ==
  \/ \E j \in Jobs : Offer(j) \/ Withdraw(j)
  \/ \E w \in Workers : Drop(w) \/ \E j \in Jobs : Take(w, j)

Spec == Init /\ [][Next]_vars
===============================================================================
