---------------------------- MODULE ProviderRouting ----------------------------
(***************************************************************************)
(* The choice of a provider and its limits, services/provider_routing.py:  *)
(* acquire_route reserves a slot, a request and tokens in three Redis      *)
(* counters per policy, release_route gives the slot back, and what the    *)
(* provider answers may put it on a cooldown.  Every Redis call is a step  *)
(* of its own; INCR and EXPIRE are two.                                    *)
(***************************************************************************)
EXTENDS Integers, Sequences, FiniteSets, SequencesExt

CONSTANTS
  Calls,        (* model calls that may be under way at the same time         *)
  Policies,     (* provider and model pairs                                   *)
  Settings,     (* the rows a pair may have: its status, "none" without a row,*)
                (* and <<max_concurrency, requests_, tokens_per_minute>>, with*)
                (* 0 for None                                                 *)
  Tokens,       (* estimated tokens of a call                                 *)
  MaxCalls, MaxFaults, MaxChanges   (* bounds                                 *)

Kinds == 1..3
Slots == 1
Unlimited == [k \in Kinds |-> 0]
Rows  == [status : {"enabled", "disabled", "none"}, limit : [Kinds -> Nat]]

ASSUME ConstantsAssumption ==
  /\ IsFiniteSet(Calls) /\ IsFiniteSet(Policies)
  /\ Settings \in [Policies -> SUBSET Rows]
  /\ Tokens \in Nat \ {0}
  /\ MaxCalls \in Nat /\ MaxFaults \in Nat /\ MaxChanges \in Nat

VARIABLES
  policy,     (* rows of provider_model_policies                              *)
  counter,    (* Redis: by policy and kind; an absent key counts as 0         *)
  timed,      (* the counters with a TTL                                      *)
  cooling,    (* policies whose feedback has a cooldown_until to come         *)
  call,       (* what every call is doing                                     *)
  admitted,   (* history: requests and tokens admitted in this window         *)
  left,       (* history: amounts that failures left in a counter             *)
  blurred,    (* history: counters that expired under a call in the middle    *)
  untimed,    (* history: counters whose EXPIRE a failure prevented           *)
  started, faults, changes

redis  == <<counter, timed, cooling>>
ghosts == <<admitted, left, blurred, untimed>>
bounds == <<started, faults, changes>>
vars   == <<policy, redis, call, ghosts, bounds>>

Idle == [pc |-> "idle", route |-> <<>>, unread |-> {}, warm |-> {}, kind |-> 0, count |-> 0,
         done |-> FALSE, overlaps |-> {}]

Zero == [p \in Policies |-> Unlimited]

Init ==
  /\ policy \in [Policies -> Rows \intersect UNION {Settings[p] : p \in Policies}]
  /\ \A p \in Policies : policy[p] \in Settings[p]
  /\ counter = Zero /\ admitted = Zero /\ left = Zero
  /\ timed = [p \in Policies |-> {}] /\ blurred = timed /\ untimed = timed
  /\ cooling = [p \in Policies |-> FALSE]
  /\ call = [c \in Calls |-> Idle]
  /\ started = 0 /\ faults = 0 /\ changes = 0

Fault == faults < MaxFaults /\ faults' = faults + 1

----------------------------------------------------------------------------
(* A call's route is the sequence of candidates left to try, each with the   *)
(* limits as they were loaded; the first one is being tried.  Before that, it*)
(* is unread of which candidates the feedback, or the row, is still to be    *)
(* read, and those that may be tried are warm.                               *)
At(c, pc) == call[c].pc = pc
Tries(c)  == call[c].pc \notin {"idle", "policy", "feedback"}
Policy(c) == Head(call[c].route).policy
Limit(c)  == Head(call[c].route).limit
Amount(k) == IF k = 3 THEN Tokens ELSE 1

Reserve(record, k) ==   \* what is limited and follows k; else the route is taken
  LET limit == Head(record.route).limit
      above == {j \in Kinds : j > k /\ limit[j] > 0}
  IN  IF above = {} THEN [record EXCEPT !.pc = "call", !.kind = 0, !.count = 0]
      ELSE [record EXCEPT !.pc = "incr", !.kind = Min(above), !.count = 0]

(* The loop over the candidates, which raises at its end.                    *)
Try(record) == IF record.route = <<>> THEN Idle ELSE Reserve(record, 0)

(* After _rollback of k: the kinds reserved before it, then the next         *)
(* candidate; nothing more after a release.                                  *)
GiveBack(record, k) ==
  LET limit == Head(record.route).limit
      below == {j \in Kinds : j < k /\ limit[j] > 0}
  IN  CASE record.done                 -> Idle
        [] ~record.done /\ below # {} -> [record EXCEPT !.pc = "rollback", !.kind = Max(below), !.count = 0]
        [] OTHER                       -> Try([record EXCEPT !.route = Tail(@)])

(* A pair on a cooldown is ruled out, unless Redis fails: _load_feedback then*)
(* returns none.  A call overlaps a cooldown that it could not see.          *)
Sees(p)   == IF cooling[p] THEN Fault ELSE UNCHANGED faults
Unseen(p) == IF cooling[p] THEN {p} ELSE {}

(* Mutant: the feedback of an explicitly requested pair is not read.         *)
ChooseCooling(c) ==
  /\ At(c, "idle")
  /\ started < MaxCalls
  /\ started' = started + 1
  /\ \E p \in Policies :
       call' = [call EXCEPT ![c] =
                 [Idle EXCEPT !.pc = "policy", !.unread = {[policy |-> p, limit |-> Unlimited]}]]
  /\ UNCHANGED <<policy, redis, ghosts, faults, changes>>

(* acquire_route.  The feedback of an explicit pair is read, and then its    *)
(* policy; or all enabled policies, of which some may be of another role or  *)
(* provider, and then the feedback of each.                                  *)
Choose(c) ==
  /\ At(c, "idle")
  /\ started < MaxCalls
  /\ started' = started + 1
  /\ \/ \E p \in Policies :
          /\ Sees(p)
          /\ call' = [call EXCEPT ![c] =
                       [Idle EXCEPT !.pc = "policy", !.unread = {[policy |-> p, limit |-> Unlimited]},
                                    !.overlaps = Unseen(p)]]
     \/ \E able \in SUBSET {p \in Policies : policy[p].status = "enabled"} \ {{}} :
          /\ call' = [call EXCEPT ![c] =
                       [Idle EXCEPT !.pc = "feedback",
                                    !.unread = {[policy |-> p, limit |-> policy[p].limit] : p \in able}]]
          /\ UNCHANGED faults
  /\ UNCHANGED <<policy, redis, ghosts, changes>>

ReadPolicy(c) ==       \* the row of an explicit pair, which may be disabled
  /\ At(c, "policy")
  /\ \E x \in call[c].unread :
       call' = [call EXCEPT ![c] =
                 IF policy[x.policy].status = "disabled" THEN Idle
                 ELSE Try([@ EXCEPT !.unread = {},
                             !.route = <<[policy |-> x.policy, limit |-> policy[x.policy].limit]>>])]
  /\ UNCHANGED <<policy, redis, ghosts, bounds>>

(* The feedback of a candidate keeps it, or rules it out: by a cooldown, or  *)
(* because it says that too little capacity is left.                         *)
Keep(record, x) == [record EXCEPT !.unread = @ \ {x}, !.warm = @ \union {x},
                                  !.overlaps = (@ \ {x.policy}) \union Unseen(x.policy)]
Drop(record, x) == [record EXCEPT !.unread = @ \ {x}]

(* After the last one those that are kept are sorted by the strategy.        *)
Sort(record) ==
  IF record.unread # {} THEN {record}
  ELSE {Try([record EXCEPT !.warm = {}, !.route = order]) : order \in SetToSeqs(record.warm)}

ReadFeedback(c) ==
  /\ At(c, "feedback")
  /\ \E x \in call[c].unread :
       \/ Sees(x.policy) /\ \E next \in Sort(Keep(call[c], x)) : call' = [call EXCEPT ![c] = next]
       \/ UNCHANGED faults /\ \E next \in Sort(Drop(call[c], x)) : call' = [call EXCEPT ![c] = next]
  /\ UNCHANGED <<policy, redis, ghosts, started, changes>>

(* When the last limit is passed, the request and its tokens are admitted.   *)
Continue(c, record) ==
  /\ call' = [call EXCEPT ![c] = record]
  /\ admitted' = IF record.pc # "call" THEN admitted
                 ELSE [admitted EXCEPT ![Policy(c)] = [k \in Kinds |->
                         @[k] + IF k # Slots /\ Limit(c)[k] > 0 THEN Amount(k) ELSE 0]]

Judge(c, n) ==    \* the comparison with the limit of the value n read
  IF n > Limit(c)[call[c].kind] THEN [call[c] EXCEPT !.pc = "rollback", !.count = 0]
                                ELSE Reserve(call[c], call[c].kind)

(* INCR or INCRBY; the key of the slots gets a new TTL every time, the       *)
(* others get theirs from the first of a window.                             *)
Incr(c) ==
  LET p == Policy(c)
      k == call[c].kind
      n == counter[p][k] + Amount(k)
  IN
  /\ At(c, "incr")
  /\ counter' = [counter EXCEPT ![p][k] = n]
  /\ Continue(c, IF k = Slots \/ n = Amount(k) THEN [call[c] EXCEPT !.pc = "expire", !.count = n]
                 ELSE Judge(c, n))
  /\ UNCHANGED <<policy, timed, cooling, left, blurred, untimed, bounds>>

(* Mutant: only the slots' key gets a TTL.                                   *)
SetTtlOfSlots(p, k) ==
  /\ timed' = [timed EXCEPT ![p] = IF k = Slots THEN @ \union {k} ELSE @]
  /\ untimed' = [untimed EXCEPT ![p] = @ \ {k}]

SetTtl(p, k) == /\ timed' = [timed EXCEPT ![p] = @ \union {k}]
                /\ untimed' = [untimed EXCEPT ![p] = @ \ {k}]

Expire(c) ==
  /\ At(c, "expire")
  /\ IF counter[Policy(c)][call[c].kind] # 0 THEN SetTtl(Policy(c), call[c].kind)
                                             ELSE UNCHANGED <<timed, untimed>>
  /\ Continue(c, Judge(c, call[c].count))
  /\ UNCHANGED <<policy, counter, cooling, left, blurred, bounds>>

(* Mutant: DECRBY of one, whatever was reserved.                             *)
RollbackOne(c) ==
  LET p == Policy(c)
      k == call[c].kind
      n == counter[p][k] - 1
  IN
  /\ At(c, "rollback")
  /\ counter' = [counter EXCEPT ![p][k] = n]
  /\ call' = [call EXCEPT ![c] = IF n < 0 THEN [@ EXCEPT !.pc = "reset"] ELSE GiveBack(@, k)]
  /\ UNCHANGED <<policy, timed, cooling, ghosts, bounds>>

(* _rollback: DECRBY, and SET 0 EX 65 of a counter that was gone.            *)
Rollback(c) ==
  LET p == Policy(c)
      k == call[c].kind
      n == counter[p][k] - Amount(k)
  IN
  /\ At(c, "rollback")
  /\ counter' = [counter EXCEPT ![p][k] = n]
  /\ call' = [call EXCEPT ![c] = IF n < 0 THEN [@ EXCEPT !.pc = "reset"] ELSE GiveBack(@, k)]
  /\ UNCHANGED <<policy, timed, cooling, ghosts, bounds>>

Reset(c) ==
  /\ At(c, "reset")
  /\ counter' = [counter EXCEPT ![Policy(c)][call[c].kind] = 0]
  /\ SetTtl(Policy(c), call[c].kind)
  /\ call' = [call EXCEPT ![c] = GiveBack(@, @.kind)]
  /\ UNCHANGED <<policy, cooling, admitted, left, blurred, bounds>>

(* The provider has answered: record_provider_feedback and _error may set a  *)
(* cooldown, or overwrite it; QA judges and answers without limits record    *)
(* nothing.  Then release_route, in a finally.                               *)
Answer(c) ==
  LET p == Policy(c)
      released == IF Limit(c)[Slots] > 0
                    THEN [call[c] EXCEPT !.pc = "rollback", !.kind = Slots, !.done = TRUE]
                    ELSE Idle
  IN
  /\ At(c, "call")
  /\ \E cool \in {cooling[p], TRUE, FALSE} :
       /\ cooling' = [cooling EXCEPT ![p] = cool]
       /\ call' = [o \in Calls |->
            CASE o = c -> released
              [] o # c /\ cool /\ ~At(o, "idle") -> [call[o] EXCEPT !.overlaps = @ \union {p}]
              [] OTHER -> call[o]]
  /\ UNCHANGED <<policy, counter, timed, ghosts, bounds>>

----------------------------------------------------------------------------
(* Time, administration and failures.                                        *)

(* What call c has in the counter of kind k of its policy and may give back. *)
Holds(c, p, k) ==
  /\ Tries(c) /\ Policy(c) = p /\ Limit(c)[k] > 0
  /\ CASE At(c, "incr") -> k < call[c].kind
       [] At(c, "reset") -> k < call[c].kind
       [] At(c, "call") -> k = Slots
       [] OTHER -> k <= call[c].kind

Resets(c, p, k) == At(c, "reset") /\ Policy(c) = p /\ call[c].kind = k

(* The TTL of a counter passes: 300 s, 60 s or 65 s.                         *)
TtlPasses(p, k) ==
  /\ k \in timed[p]
  /\ counter' = [counter EXCEPT ![p][k] = 0]
  /\ timed' = [timed EXCEPT ![p] = @ \ {k}]
  /\ admitted' = [admitted EXCEPT ![p][k] = 0]
  /\ left' = [left EXCEPT ![p][k] = 0]
  /\ blurred' = [blurred EXCEPT ![p] =
       IF \E c \in Calls : Holds(c, p, k) \/ Resets(c, p, k)
         THEN @ \union {k} ELSE @ \ {k}]
  /\ UNCHANGED <<policy, cooling, call, untimed, bounds>>

CooldownPasses(p) ==
  /\ cooling[p]
  /\ cooling' = [cooling EXCEPT ![p] = FALSE]
  /\ UNCHANGED <<policy, counter, timed, call, ghosts, bounds>>

(* upsert_policy and delete_policy; a policy that is created again has a new *)
(* id and thereby new counters, so a deleted one stays away here.            *)
ChangePolicy(p) ==
  /\ changes < MaxChanges
  /\ changes' = changes + 1
  /\ policy[p].status # "none"
  /\ policy' \in {[policy EXCEPT ![p] = row] : row \in Settings[p] \ {policy[p]}}
  /\ UNCHANGED <<redis, call, ghosts, started, faults>>

(* The process stops, Redis fails in _reserve, or the COMMIT between         *)
(* acquire_route and the try statement fails: nothing is given back.         *)
Fail(c) ==
  /\ ~At(c, "idle")
  /\ Fault
  /\ left' = [p \in Policies |-> [k \in Kinds |->
               left[p][k] + IF Holds(c, p, k) THEN Amount(k) ELSE 0]]
  /\ untimed' = IF At(c, "expire") \/ At(c, "reset")
                   THEN [untimed EXCEPT ![Policy(c)] = @ \union {call[c].kind}] ELSE untimed
  /\ call' = [call EXCEPT ![c] = Idle]
  /\ UNCHANGED <<policy, redis, admitted, blurred, started, changes>>

(* Redis fails in _rollback, which ignores it.                               *)
LoseRollback(c) ==
  LET k == call[c].kind IN
  /\ At(c, "rollback")
  /\ Fault
  /\ left' = [left EXCEPT ![Policy(c)][k] = @ + Amount(k)]
  /\ call' = [call EXCEPT ![c] = GiveBack(@, k)]
  /\ UNCHANGED <<policy, redis, admitted, blurred, untimed, started, changes>>

Route(c) == \/ Choose(c) \/ ReadPolicy(c) \/ ReadFeedback(c)
            \/ Incr(c) \/ Expire(c) \/ Rollback(c) \/ Reset(c) \/ Answer(c)

Next == \/ \E c \in Calls : Route(c) \/ Fail(c) \/ LoseRollback(c)
        \/ \E p \in Policies : \/ \E k \in Kinds : TtlPasses(p, k)
                               \/ CooldownPasses(p) \/ ChangePolicy(p)

Spec == Init /\ [][Next]_vars

----------------------------------------------------------------------------
(* A counter is what its calls have in it, what was admitted in its window   *)
(* and what failures left, and so no more calls run, and no more requests    *)
(* and tokens are admitted in a window, than a row of the policy allows.     *)
(* Only a TTL that passes under a call that is in the middle blurs a counter,*)
(* until it expires with no such call; then it may be too low, never too     *)
(* high: capacity that is free is not refused.                               *)
LimitsHold ==
  \A p \in Policies, k \in Kinds :
    LET holders == {c \in Calls : Holds(c, p, k)}
        inUse   == Cardinality(holders) * Amount(k) + admitted[p][k] + left[p][k]
        allowed(n) == \E row \in Settings[p] : n <= row.limit[k]
    IN
    /\ counter[p][k] <= inUse
    /\ k \notin blurred[p] =>
         /\ counter[p][k] = inUse
         /\ allowed(admitted[p][k])
         /\ k = Slots => allowed(Cardinality({c \in holders : At(c, "call")}))

(* A counter that limits calls goes away some time: it has a TTL, or a call  *)
(* is about to set it.  Between the two calls a failure leaves a counter     *)
(* that never expires.                                                       *)
CountersExpire ==
  \A p \in Policies : \A k \in Kinds \ timed[p] :
    counter[p][k] > 0 =>
      \/ k \in untimed[p]
      \/ \E c \in Calls : /\ At(c, "expire") \/ At(c, "reset")
                          /\ Policy(c) = p /\ call[c].kind = k

(* A cooldown ends in time, or by the answer of a call that could not know it*)
(* because it had read the feedback before, or because Redis failed then: no *)
(* other call is sent to the provider.                                       *)
CooldownHolds ==
  [][\A p \in Policies : cooling[p] /\ ~cooling'[p] /\ call' # call =>
       \E c \in Calls : At(c, "call") /\ Policy(c) = p /\ p \in call[c].overlaps]_vars
===============================================================================
