------------------------ MODULE ProviderRouting_proofs -------------------------
(***************************************************************************)
(* Proofs about ProviderRouting, for every finite set of calls, all        *)
(* policies and settings and any number of failures and changes.           *)
(***************************************************************************)
EXTENDS ProviderRouting, FiniteSetTheorems, TLAPS

(* A call that tries no candidate yet, or none any more.                     *)
Resting == {"idle", "policy", "feedback"}

USE DEF redis, ghosts, bounds, At, Policy, Limit, Slots, Resting, Tries

-------------------------------------------------------------------------------
(* Types.                                                                    *)

Candidate == {it \in [policy : Policies, limit : [Kinds -> Nat]] :
                \E row \in Settings[it.policy] : row.limit = it.limit}

Lists == {S \in SUBSET [policy : Policies, limit : [Kinds -> Nat]] : IsFiniteSet(S)}

Places == {"idle", "policy", "feedback", "incr", "expire", "rollback", "reset", "call"}

Record == [pc : Places, route : Seq(Candidate), unread : Lists, warm : Lists, kind : 0..3, count : Int,
           done : BOOLEAN, overlaps : SUBSET Policies]

AtCounter == {"incr", "expire", "rollback", "reset"}

(* A call has a policy that it tries and a limited counter that it is at; one*)
(* that has its answer gives back its slot.                                  *)
Sound(x) ==
  /\ x \in Record
  /\ x.pc = "feedback" => x.unread \subseteq Candidate /\ x.warm \subseteq Candidate
  /\ x.pc \notin Resting => x.route # <<>>
  /\ x.pc \in AtCounter => x.kind \in Kinds /\ Head(x.route).limit[x.kind] > 0
  /\ x.done => x.pc \in {"rollback", "reset"} /\ x.kind = Slots

RoutingTypeOK ==
  /\ policy \in [Policies -> Rows]
  /\ \A p \in Policies : policy[p] \in Settings[p]
  /\ counter \in [Policies -> [Kinds -> Int]]
  /\ timed \in [Policies -> SUBSET Kinds]
  /\ cooling \in [Policies -> BOOLEAN]
  /\ call \in [Calls -> Record] /\ \A c \in Calls : Sound(call[c])
  /\ admitted \in [Policies -> [Kinds -> Nat]] /\ left \in [Policies -> [Kinds -> Nat]]
  /\ blurred \in [Policies -> SUBSET Kinds] /\ untimed \in [Policies -> SUBSET Kinds]
  /\ started \in Nat /\ faults \in Nat /\ changes \in Nat

(* What stays when a call moves within a candidate.                          *)
Same(x, y) == y.route = x.route /\ y.done = x.done /\ y.overlaps = x.overlaps

(* The first place at a candidate: nothing is reserved yet.                  *)
Fresh(x) ==
  /\ x.pc \in {"call", "incr"}
  /\ \A j \in Kinds : (x.pc = "incr" => j < x.kind) => Head(x.route).limit[j] = 0

LEMMA KindsAre == Kinds = {1, 2, 3}
  BY DEF Kinds

LEMMA MinOfKinds ==
  ASSUME NEW S \in SUBSET Kinds, S # {}
  PROVE  Min(S) \in S /\ \A j \in S : Min(S) <= j
<1>1. \E x \in S : \A y \in S : x =< y
  <2>1. S \subseteq {1, 2, 3} /\ (1 \in S \/ 2 \in S \/ 3 \in S)
    BY KindsAre
  <2>2. CASE 1 \in S
    BY <2>1, <2>2
  <2>3. CASE 1 \notin S /\ 2 \in S
    BY <2>1, <2>3
  <2>4. CASE 1 \notin S /\ 2 \notin S
    BY <2>1, <2>4
  <2>5. QED
    BY <2>2, <2>3, <2>4
<1>2. QED
  BY <1>1 DEF Min

LEMMA MaxOfKinds ==
  ASSUME NEW S \in SUBSET Kinds, S # {}
  PROVE  Max(S) \in S /\ \A j \in S : Max(S) >= j
<1>1. \E x \in S : \A y \in S : x >= y
  <2>1. S \subseteq {1, 2, 3} /\ (1 \in S \/ 2 \in S \/ 3 \in S)
    BY KindsAre
  <2>2. CASE 3 \in S
    BY <2>1, <2>2
  <2>3. CASE 3 \notin S /\ 2 \in S
    BY <2>1, <2>3
  <2>4. CASE 3 \notin S /\ 2 \notin S
    BY <2>1, <2>4
  <2>5. QED
    BY <2>2, <2>3, <2>4
<1>2. QED
  BY <1>1 DEF Max

LEMMA HeadIsCandidate ==
  ASSUME NEW x \in Record, x.route # <<>>
  PROVE  /\ Head(x.route) \in Candidate /\ Head(x.route).policy \in Policies
         /\ Head(x.route).limit \in [Kinds -> Nat]
         /\ \E row \in Settings[Head(x.route).policy] : row.limit = Head(x.route).limit
<1>1. x.route \in Seq(Candidate)
  BY DEF Record
<1>2. Head(x.route) \in Candidate
  BY <1>1
<1>3. QED
  BY <1>2 DEF Candidate

LEMMA IdleIsSound == Sound(Idle) /\ Idle.pc = "idle"
<1>1. {} \in Lists
  BY FS_EmptySet DEF Lists
<1>2. QED
  BY <1>1 DEF Idle, Sound, Record, Places, AtCounter

(* The records that the actions give to a call.                              *)
LEMMA AtCall ==
  ASSUME NEW x \in Record
  PROVE  LET y == [x EXCEPT !.pc = "call", !.kind = 0, !.count = 0]
         IN  y \in Record /\ y.pc = "call" /\ y.kind = 0 /\ Same(x, y)
<1> DEFINE z == [x EXCEPT !.pc = "call", !.kind = 0]
           y == [z EXCEPT !.count = 0]
<1>1. [x EXCEPT !.pc = "call", !.kind = 0, !.count = 0] = y
  BY DEF Record
<1>2. "call" \in Places /\ 0 \in 0..3
  BY DEF Places
<1>3. z \in Record /\ z.pc = "call" /\ z.kind = 0 /\ Same(x, z)
  BY <1>2 DEF Record, Same
<1> HIDE DEF z
<1>4. y \in Record /\ y.pc = z.pc /\ y.kind = z.kind /\ Same(z, y)
  BY <1>3 DEF Record, Same
<1> HIDE DEF y
<1>5. QED
  BY <1>1, <1>3, <1>4 DEF Same

LEMMA AtIncr ==
  ASSUME NEW x \in Record, NEW m \in 0..3
  PROVE  LET y == [x EXCEPT !.pc = "incr", !.kind = m, !.count = 0]
         IN  y \in Record /\ y.pc = "incr" /\ y.kind = m /\ Same(x, y)
<1> DEFINE z == [x EXCEPT !.pc = "incr", !.kind = m]
           y == [z EXCEPT !.count = 0]
<1>1. [x EXCEPT !.pc = "incr", !.kind = m, !.count = 0] = y
  BY DEF Record
<1>2. "incr" \in Places /\ m \in 0..3
  BY DEF Places
<1>3. z \in Record /\ z.pc = "incr" /\ z.kind = m /\ Same(x, z)
  BY <1>2 DEF Record, Same
<1> HIDE DEF z
<1>4. y \in Record /\ y.pc = z.pc /\ y.kind = z.kind /\ Same(z, y)
  BY <1>3 DEF Record, Same
<1> HIDE DEF y
<1>5. QED
  BY <1>1, <1>3, <1>4 DEF Same

LEMMA AtRollback ==
  ASSUME NEW x \in Record, NEW m \in 0..3
  PROVE  LET y == [x EXCEPT !.pc = "rollback", !.kind = m, !.count = 0]
         IN  y \in Record /\ y.pc = "rollback" /\ y.kind = m /\ Same(x, y)
<1> DEFINE z == [x EXCEPT !.pc = "rollback", !.kind = m]
           y == [z EXCEPT !.count = 0]
<1>1. [x EXCEPT !.pc = "rollback", !.kind = m, !.count = 0] = y
  BY DEF Record
<1>2. "rollback" \in Places /\ m \in 0..3
  BY DEF Places
<1>3. z \in Record /\ z.pc = "rollback" /\ z.kind = m /\ Same(x, z)
  BY <1>2 DEF Record, Same
<1> HIDE DEF z
<1>4. y \in Record /\ y.pc = z.pc /\ y.kind = z.kind /\ Same(z, y)
  BY <1>3 DEF Record, Same
<1> HIDE DEF y
<1>5. QED
  BY <1>1, <1>3, <1>4 DEF Same

LEMMA AtExpire ==
  ASSUME NEW x \in Record, NEW n \in Int
  PROVE  LET y == [x EXCEPT !.pc = "expire", !.count = n]
         IN  y \in Record /\ y.pc = "expire" /\ y.kind = x.kind /\ y.count = n /\ Same(x, y)
<1>1. \A pc \in Places : LET y == [x EXCEPT !.pc = pc, !.count = n]
                          IN  y \in Record /\ y.pc = pc /\ y.kind = x.kind /\ y.count = n /\ Same(x, y)
  BY DEF Record, Same
<1>2. "expire" \in Places
  BY DEF Places
<1>3. QED
  BY <1>1, <1>2

LEMMA AtRefusal ==
  ASSUME NEW x \in Record
  PROVE  LET y == [x EXCEPT !.pc = "rollback", !.count = 0]
         IN  y \in Record /\ y.pc = "rollback" /\ y.kind = x.kind /\ Same(x, y)
<1> DEFINE z == [x EXCEPT !.pc = "rollback"]
           y == [z EXCEPT !.count = 0]
<1>1. [x EXCEPT !.pc = "rollback", !.count = 0] = y
  BY DEF Record
<1>2. z \in Record /\ z.pc = "rollback" /\ z.kind = x.kind /\ Same(x, z)
  BY DEF Record, Same, Places
<1> HIDE DEF z
<1>3. y \in Record /\ y.pc = z.pc /\ y.kind = z.kind /\ Same(z, y)
  BY <1>2 DEF Record, Same
<1> HIDE DEF y
<1>4. QED
  BY <1>1, <1>2, <1>3 DEF Same

LEMMA AtReset ==
  ASSUME NEW x \in Record
  PROVE  LET y == [x EXCEPT !.pc = "reset"]
         IN  y \in Record /\ y.pc = "reset" /\ y.kind = x.kind /\ Same(x, y)
  BY DEF Record, Places, Same

LEMMA AtRelease ==
  ASSUME NEW x \in Record
  PROVE  LET y == [x EXCEPT !.pc = "rollback", !.kind = Slots, !.done = TRUE]
         IN  y \in Record /\ y.pc = "rollback" /\ y.kind = 1 /\ y.route = x.route /\ y.done /\ y.overlaps = x.overlaps
<1>1. \A pc \in Places, k \in 0..3, d \in BOOLEAN :
        LET y == [x EXCEPT !.pc = pc, !.kind = k, !.done = d]
        IN  y \in Record /\ y.pc = pc /\ y.kind = k /\ y.route = x.route /\ y.done = d /\ y.overlaps = x.overlaps
  BY DEF Record
<1>2. "rollback" \in Places /\ Slots \in 0..3
  BY DEF Places
<1>3. QED
  BY <1>1, <1>2

LEMMA NextCandidate ==
  ASSUME NEW x \in Record, x.route # <<>>
  PROVE  LET y == [x EXCEPT !.route = Tail(@)]
         IN  y \in Record /\ y.route = Tail(x.route) /\ y.done = x.done /\ y.overlaps = x.overlaps
<1>1. Tail(x.route) \in Seq(Candidate)
  BY DEF Record
<1> DEFINE t == Tail(x.route)
<1> HIDE DEF t
<1>2. LET y == [x EXCEPT !.route = t]
      IN  y \in Record /\ y.route = t /\ y.done = x.done /\ y.overlaps = x.overlaps
  BY <1>1 DEF Record, t
<1>3. QED
  BY <1>2 DEF t

(* What follows a reservation: the call, or the next counter that is limited.*)
LEMMA ReserveGoesOn ==
  ASSUME NEW x \in Record, x.route # <<>>, ~x.done, NEW k \in 0..3
  PROVE  LET y == Reserve(x, k)
             limit == Head(x.route).limit
         IN  /\ Sound(y) /\ Same(x, y) /\ y.pc \in {"call", "incr"}
             /\ y.pc = "incr" => y.kind > k
             /\ \A j \in Kinds : j > k /\ (y.pc = "incr" => j < y.kind) => limit[j] = 0
<1> DEFINE limit == Head(x.route).limit
           above == {j \in Kinds : j > k /\ limit[j] > 0}
<1>1. limit \in [Kinds -> Nat]
  BY HeadIsCandidate
<1>2. CASE above = {}
  <2> DEFINE y == [x EXCEPT !.pc = "call", !.kind = 0, !.count = 0]
  <2>1. Reserve(x, k) = y
    BY <1>2 DEF Reserve
  <2>2. y \in Record /\ y.pc = "call" /\ Same(x, y)
    BY AtCall
  <2>3. \A j \in Kinds : j > k => limit[j] = 0
    BY <1>1, <1>2
  <2> HIDE DEF y, limit
  <2>4. Sound(y)
    BY <2>2 DEF Sound, Same, AtCounter
  <2>5. QED
    BY <2>1, <2>2, <2>3, <2>4 DEF limit
<1>3. CASE above # {}
  <2> DEFINE m == Min(above)
             y == [x EXCEPT !.pc = "incr", !.kind = m, !.count = 0]
  <2>1. Reserve(x, k) = y
    BY <1>3 DEF Reserve
  <2>2. m \in above /\ \A j \in above : m <= j
    BY <1>3, MinOfKinds
  <2>3. m \in 0..3 /\ m \in Kinds
    BY <2>2 DEF Kinds
  <2> HIDE DEF m
  <2>4. y \in Record /\ y.pc = "incr" /\ y.kind = m /\ Same(x, y)
    BY <2>3, AtIncr
  <2>5. m > k /\ limit[m] > 0 /\ \A j \in Kinds : j > k /\ j < m => limit[j] = 0
    BY <1>1, <2>2, <2>3 DEF Kinds
  <2> HIDE DEF y
  <2>6. Sound(y)
    BY <2>3, <2>4, <2>5 DEF Sound, Same
  <2> HIDE DEF limit
  <2>7. QED
    BY <2>1, <2>4, <2>5, <2>6 DEF limit
<1>4. QED
  BY <1>2, <1>3

(* A try of the candidates that are left.                                    *)
LEMMA TryGoesOn ==
  ASSUME NEW x \in Record, ~x.done
  PROVE  LET y == Try(x)
         IN  y = Idle \/ (x.route # <<>> /\ Sound(y) /\ Same(x, y) /\ Fresh(y))
<1>1. CASE x.route = <<>>
  BY <1>1 DEF Try
<1>2. CASE x.route # <<>>
  <2> DEFINE y == Reserve(x, 0)
             limit == Head(x.route).limit
  <2>1. Try(x) = y
    BY <1>2 DEF Try
  <2>2. /\ Sound(y) /\ Same(x, y) /\ y.pc \in {"call", "incr"}
        /\ \A j \in Kinds : j > 0 /\ (y.pc = "incr" => j < y.kind) => limit[j] = 0
    BY <1>2, ReserveGoesOn
  <2> HIDE DEF y, limit
  <2>3. \A j \in Kinds : j > 0
    BY DEF Kinds
  <2>4. Head(y.route).limit = limit
    BY <2>2 DEF Same, limit
  <2>5. QED
    BY <1>2, <2>1, <2>2, <2>3, <2>4 DEF Fresh
<1>3. QED
  BY <1>1, <1>2

(* What follows a rollback of the counter that a call is at.                 *)
GaveBack(x, y) ==
  LET limit == Head(x.route).limit
  IN  /\ Sound(y)
      /\ \/ /\ Same(x, y) /\ y.pc = "rollback" /\ ~x.done /\ y.kind < x.kind
            /\ \A j \in Kinds : j < x.kind /\ j > y.kind => limit[j] = 0
         \/ /\ \A j \in Kinds : j < x.kind => limit[j] = 0
            /\ \/ y = Idle
               \/ /\ y.route = Tail(x.route) /\ y.overlaps = x.overlaps
                  /\ Fresh(y) /\ ~x.done /\ ~y.done

LEMMA GiveBackGoesOn ==
  ASSUME NEW x, Sound(x), x.pc \in {"rollback", "reset"}
  PROVE  GaveBack(x, GiveBack(x, x.kind))
<1> DEFINE k == x.kind
           limit == Head(x.route).limit
           below == {j \in Kinds : j < k /\ limit[j] > 0}
<1>0. x \in Record /\ x.route # <<>> /\ k \in Kinds /\ k \in 0..3 /\ limit \in [Kinds -> Nat] /\ x.done \in BOOLEAN
  <2>1. x \in Record /\ x.route # <<>> /\ k \in Kinds
    BY DEF Sound, AtCounter
  <2>2. x.done \in BOOLEAN /\ k \in 0..3
    BY <2>1 DEF Record
  <2>3. QED
    BY <2>1, <2>2, HeadIsCandidate
<1>1. CASE x.done
  <2>1. k = 1
    BY <1>1 DEF Sound
  <2>2. \A j \in Kinds : ~(j < k)
    BY <2>1 DEF Kinds
  <2>3. QED
    BY <1>1, <2>2, IdleIsSound DEF GiveBack, GaveBack
<1>2. CASE ~x.done /\ below # {}
  <2> DEFINE m == Max(below)
             y == [x EXCEPT !.pc = "rollback", !.kind = m, !.count = 0]
  <2>1. GiveBack(x, k) = y
    BY <1>2 DEF GiveBack
  <2>2. m \in below /\ \A j \in below : m >= j
    BY <1>2, MaxOfKinds
  <2>3. m \in 0..3 /\ m \in Kinds
    BY <2>2 DEF Kinds
  <2> HIDE DEF m
  <2>4. y \in Record /\ y.pc = "rollback" /\ y.kind = m /\ Same(x, y)
    BY <1>0, <2>3, AtRollback
  <2>5. m < k /\ limit[m] > 0 /\ \A j \in Kinds : j < k /\ j > m => limit[j] = 0
    BY <1>0, <2>2, <2>3 DEF Kinds
  <2> HIDE DEF y, k
  <2>6. Sound(y)
    BY <1>0, <1>2, <2>3, <2>4, <2>5 DEF Sound, Same
  <2> HIDE DEF limit
  <2>7. QED
    BY <1>2, <2>1, <2>4, <2>5, <2>6 DEF limit, k, GaveBack
<1>3. CASE ~x.done /\ below = {}
  <2> DEFINE z == [x EXCEPT !.route = Tail(@)]
             y == Try(z)
  <2>1. GiveBack(x, k) = y
    BY <1>3 DEF GiveBack
  <2>2. \A j \in Kinds : j < k => limit[j] = 0
    BY <1>0, <1>3
  <2>3. z \in Record /\ z.route = Tail(x.route) /\ z.done = x.done /\ z.overlaps = x.overlaps
    BY <1>0, NextCandidate
  <2> HIDE DEF z
  <2>4. y = Idle \/ (z.route # <<>> /\ Sound(y) /\ Same(z, y) /\ Fresh(y))
    BY <1>3, <2>3, TryGoesOn
  <2> HIDE DEF y, limit
  <2>5. QED
    BY <1>3, <2>1, <2>2, <2>3, <2>4, IdleIsSound DEF limit, Same, GaveBack
<1>4. QED
  BY <1>0, <1>1, <1>2, <1>3

-------------------------------------------------------------------------------
(* What every action does to the record of its call.                         *)
OnlyCall(c) == \A o \in Calls \ {c} : call'[o] = call[o]

Given(c, y) == call' = [call EXCEPT ![c] = y]

LEMMA GivenIs ==
  ASSUME RoutingTypeOK, NEW c \in Calls, NEW y, Given(c, y)
  PROVE  /\ call'[c] = y /\ OnlyCall(c)
         /\ Sound(y) => call' \in [Calls -> Record] /\ \A o \in Calls : Sound(call'[o])
<1>1. call \in [Calls -> Record] /\ \A o \in Calls : Sound(call[o])
  BY DEF RoutingTypeOK
<1>2. call'[c] = y /\ OnlyCall(c)
  BY <1>1 DEF Given, OnlyCall
<1>3. ASSUME Sound(y)
      PROVE  call' \in [Calls -> Record] /\ \A o \in Calls : Sound(call'[o])
  <2>1. y \in Record
    BY <1>3 DEF Sound
  <2>2. call' \in [Calls -> Record]
    BY <1>1, <2>1 DEF Given
  <2>3. QED
    BY <1>1, <1>2, <1>3, <2>2 DEF OnlyCall
<1>4. QED
  BY <1>2, <1>3

LEMMA Amounts == \A k \in Kinds : Amount(k) \in Nat /\ Amount(k) > 0
  BY ConstantsAssumption DEF Amount

LEMMA CallIs ==
  ASSUME RoutingTypeOK, NEW c \in Calls, call[c].pc \notin Resting
  PROVE  /\ call[c] \in Record /\ Sound(call[c]) /\ call[c].route # <<>>
         /\ Policy(c) \in Policies /\ Limit(c) \in [Kinds -> Nat]
         /\ \E row \in Settings[Policy(c)] : row.limit = Limit(c)
         /\ call[c].pc \in AtCounter => call[c].kind \in Kinds /\ call[c].kind \in 0..3 /\ Limit(c)[call[c].kind] > 0
<1>1. call[c] \in Record /\ Sound(call[c])
  BY DEF RoutingTypeOK
<1>2. call[c].route # <<>> /\ call[c].kind \in 0..3
  BY <1>1 DEF Sound, Record
<1>3. QED
  BY <1>1, <1>2, HeadIsCandidate DEF Sound

(* A call that goes on has none of the policies that are cooling down among  *)
(* those that it has let pass, or overlaps the cooldown.                     *)
Pairs(list) == {it.policy : it \in list}

Shielded(x, cold) ==
  /\ x.pc = "policy" => \A p \in Pairs(x.unread) : cold[p] => p \in x.overlaps
  /\ x.pc = "feedback" => \A p \in Pairs(x.warm) : cold[p] => p \in x.overlaps
  /\ x.pc \notin Resting /\ ~x.done =>
       \A i \in DOMAIN x.route : cold[x.route[i].policy] => x.route[i].policy \in x.overlaps

LEMMA IdleIsShielded == \A cold : Shielded(Idle, cold)
  BY IdleIsSound DEF Shielded

LEMMA PolicyIsCandidate ==
  ASSUME RoutingTypeOK, NEW p \in Policies
  PROVE  [policy |-> p, limit |-> policy[p].limit] \in Candidate
<1>1. policy[p].limit \in [Kinds -> Nat] /\ policy[p] \in Settings[p]
  BY DEF RoutingTypeOK, Rows
<1>2. QED
  BY <1>1 DEF Candidate

(* The steps before the first candidate is tried.                            *)
Starts(c) == Choose(c) \/ ReadPolicy(c) \/ ReadFeedback(c)

LEMMA StartFrame ==
  ASSUME RoutingTypeOK, NEW c \in Calls, Starts(c)
  PROVE  /\ started' \in Nat /\ faults' \in Nat /\ UNCHANGED <<policy, redis, ghosts, changes>>
<1>1. started \in Nat /\ faults \in Nat
  BY DEF RoutingTypeOK
<1>2. ASSUME NEW p, Sees(p)
      PROVE  faults' \in Nat
  BY <1>1, <1>2 DEF Sees, Fault
<1>3. CASE Choose(c)
  <2>1. started' = started + 1 /\ UNCHANGED <<policy, redis, ghosts, changes>>
    BY <1>3 DEF Choose
  <2>2. (\E p \in Policies : Sees(p)) \/ UNCHANGED faults
    BY <1>3 DEF Choose
  <2>3. QED
    BY <1>1, <1>2, <2>1, <2>2
<1>4. CASE ReadPolicy(c)
  BY <1>1, <1>4 DEF ReadPolicy
<1>5. CASE ReadFeedback(c)
  BY <1>1, <1>2, <1>5 DEF ReadFeedback
<1>6. QED
  BY <1>3, <1>4, <1>5 DEF Starts

(* What a step before the first candidate makes of a record.                 *)
Begun(x, y) ==
  /\ Sound(y) /\ (y.pc \in Resting \/ Fresh(y))
  /\ Shielded(x, cooling) => Shielded(y, cooling)

LEMMA ChooseMove ==
  ASSUME RoutingTypeOK, NEW c \in Calls, Choose(c)
  PROVE  call[c].pc = "idle" /\ \E y : Given(c, y) /\ Begun(call[c], y)
<1>0. call[c].pc = "idle"
  BY DEF Choose
<1>1. Idle \in Record /\ ~Idle.done /\ Idle.warm = {} /\ Idle.overlaps = {}
  BY IdleIsSound DEF Sound, Idle
<1>2. ASSUME NEW p \in Policies,
             Given(c, [Idle EXCEPT !.pc = "policy", !.unread = {[policy |-> p, limit |-> Unlimited]},
                                   !.overlaps = Unseen(p)])
      PROVE  \E y : Given(c, y) /\ Begun(call[c], y)
  <2> DEFINE list == {[policy |-> p, limit |-> Unlimited]}
             y == [Idle EXCEPT !.pc = "policy", !.unread = list, !.overlaps = Unseen(p)]
  <2>1. list \in Lists /\ Pairs(list) = {p}
    <3>1. [policy |-> p, limit |-> Unlimited] \in [policy : Policies, limit : [Kinds -> Nat]]
      BY DEF Unlimited
    <3>2. IsFiniteSet(list)
      BY FS_Singleton
    <3>3. QED
      BY <3>1, <3>2 DEF Lists, Pairs
  <2>2. Unseen(p) \in SUBSET Policies /\ (cooling[p] => p \in Unseen(p))
    BY DEF Unseen
  <2> HIDE DEF list
  <2>3. y \in Record /\ y.pc = "policy" /\ y.unread = list /\ y.overlaps = Unseen(p) /\ ~y.done
    BY <1>1, <2>1, <2>2 DEF Record, Places
  <2>4. Given(c, y)
    BY <1>2 DEF list
  <2> HIDE DEF y
  <2>5. Sound(y) /\ Shielded(y, cooling)
    BY <2>1, <2>2, <2>3 DEF Sound, Shielded, AtCounter
  <2>6. QED
    BY <2>3, <2>4, <2>5 DEF Begun
<1>3. ASSUME NEW able \in SUBSET Policies,
             Given(c, [Idle EXCEPT !.pc = "feedback",
                                   !.unread = {[policy |-> p, limit |-> policy[p].limit] : p \in able}])
      PROVE  \E y : Given(c, y) /\ Begun(call[c], y)
  <2> DEFINE list == {[policy |-> p, limit |-> policy[p].limit] : p \in able}
             y == [Idle EXCEPT !.pc = "feedback", !.unread = list]
  <2>1. list \subseteq Candidate
    BY PolicyIsCandidate
  <2>2. IsFiniteSet(list)
    <3>1. IsFiniteSet(able)
      BY ConstantsAssumption, FS_Subset
    <3> DEFINE f == [p \in able |-> [policy |-> p, limit |-> policy[p].limit]]
    <3>2. f \in Surjection(able, list)
      BY DEF Surjection
    <3>3. QED
      BY <3>1, <3>2, FS_Surjection
  <2>3. list \in Lists
    BY <2>1, <2>2 DEF Lists, Candidate
  <2> HIDE DEF list
  <2>4. y \in Record /\ y.pc = "feedback" /\ y.unread = list /\ y.warm = {} /\ ~y.done
    BY <1>1, <2>3 DEF Record, Places
  <2>5. Given(c, y)
    BY <1>3 DEF list
  <2> HIDE DEF y
  <2>6. Sound(y) /\ Shielded(y, cooling)
    BY <2>1, <2>4 DEF Sound, Shielded, AtCounter, Pairs
  <2>7. QED
    BY <2>4, <2>5, <2>6 DEF Begun
<1>4. QED
  BY <1>0, <1>2, <1>3 DEF Choose, Given

(* A route of candidates that have passed is tried.                          *)
LEMMA TryBegins ==
  ASSUME NEW x, NEW z \in Record, ~z.done,
         Shielded(x, cooling) =>
           \A i \in DOMAIN z.route : cooling[z.route[i].policy] => z.route[i].policy \in z.overlaps
  PROVE  Begun(x, Try(z))
<1> DEFINE y == Try(z)
<1>1. y = Idle \/ (Sound(y) /\ Same(z, y) /\ Fresh(y))
  BY TryGoesOn
<1> HIDE DEF y
<1>2. CASE y = Idle
  BY <1>2, IdleIsSound, IdleIsShielded DEF Begun, y
<1>3. CASE Sound(y) /\ Same(z, y) /\ Fresh(y)
  <2>1. Shielded(x, cooling) => Shielded(y, cooling)
    BY <1>3 DEF Same, Shielded, Fresh
  <2>2. QED
    BY <1>3, <2>1 DEF Begun, y
<1>4. QED
  BY <1>1, <1>2, <1>3

LEMMA ReadPolicyMove ==
  ASSUME RoutingTypeOK, NEW c \in Calls, ReadPolicy(c)
  PROVE  call[c].pc = "policy" /\ \E y : Given(c, y) /\ Begun(call[c], y)
<1> DEFINE x == call[c]
<1>0. x.pc = "policy" /\ x \in Record /\ Sound(x) /\ ~x.done
  BY DEF ReadPolicy, RoutingTypeOK, Sound
<1>1. PICK it \in x.unread :
        Given(c, IF policy[it.policy].status = "disabled" THEN Idle
                 ELSE Try([x EXCEPT !.unread = {},
                             !.route = <<[policy |-> it.policy, limit |-> policy[it.policy].limit]>>]))
  <2>1. \E it \in x.unread : call' = [call EXCEPT ![c] =
          IF policy[it.policy].status = "disabled" THEN Idle
          ELSE Try([call[c] EXCEPT !.unread = {},
                      !.route = <<[policy |-> it.policy, limit |-> policy[it.policy].limit]>>])]
    BY DEF ReadPolicy, RoutingTypeOK
  <2>2. QED
    BY <2>1 DEF Given
<1>2. CASE policy[it.policy].status = "disabled"
  BY <1>0, <1>1, <1>2, IdleIsSound, IdleIsShielded DEF Begun
<1>3. CASE policy[it.policy].status # "disabled"
  <2> DEFINE cand == [policy |-> it.policy, limit |-> policy[it.policy].limit]
             route == <<cand>>
             z == [x EXCEPT !.unread = {}, !.route = route]
  <2>1. it.policy \in Policies /\ it.policy \in Pairs(x.unread)
    BY <1>0, <1>1 DEF Record, Lists, Pairs
  <2>2. cand \in Candidate /\ cand.policy = it.policy
    BY <2>1, PolicyIsCandidate
  <2> HIDE DEF cand
  <2>3. route \in Seq(Candidate) /\ {} \in Lists /\ \A i \in DOMAIN route : route[i] = cand
    BY <2>2, FS_EmptySet DEF Lists
  <2> HIDE DEF route
  <2>4. z \in Record /\ z.route = route /\ z.done = x.done /\ z.overlaps = x.overlaps
    BY <1>0, <2>3 DEF Record
  <2>5. Given(c, Try(z))
    BY <1>1, <1>3 DEF route, cand
  <2> HIDE DEF z
  <2>6. Shielded(x, cooling) =>
          \A i \in DOMAIN z.route : cooling[z.route[i].policy] => z.route[i].policy \in z.overlaps
    BY <1>0, <2>1, <2>2, <2>3, <2>4 DEF Shielded
  <2>7. Begun(x, Try(z))
    BY <1>0, <2>4, <2>6, TryBegins
  <2>8. QED
    BY <1>0, <2>5, <2>7
<1>4. QED
  BY <1>2, <1>3

(* After the feedback of one candidate the next is read, or those that are   *)
(* kept are tried in any order.                                              *)
LEMMA SortBegins ==
  ASSUME NEW x, NEW r \in Record, r.pc = "feedback", ~r.done, Sound(r),
         Shielded(x, cooling) => Shielded(r, cooling), NEW y \in Sort(r)
  PROVE  Begun(x, y)
<1>1. CASE r.unread # {}
  BY <1>1 DEF Sort, Begun
<1>2. CASE r.unread = {}
  <2>1. PICK order \in SetToSeqs(r.warm) : y = Try([r EXCEPT !.warm = {}, !.route = order])
    BY <1>2 DEF Sort
  <2>2. r.warm \subseteq Candidate /\ Cardinality(r.warm) \in Nat
    BY FS_CardinalityType DEF Sound, Record, Lists
  <2>3. order \in [1..Cardinality(r.warm) -> r.warm]
    BY <2>1 DEF SetToSeqs
  <2>4. order \in Seq(Candidate) /\ \A i \in DOMAIN order : order[i] \in r.warm
    BY <2>2, <2>3
  <2> DEFINE z == [r EXCEPT !.warm = {}, !.route = order]
  <2>5. {} \in Lists
    BY FS_EmptySet DEF Lists
  <2>6. z \in Record /\ z.route = order /\ z.done = r.done /\ z.overlaps = r.overlaps
    BY <2>4, <2>5 DEF Record
  <2>7. y = Try(z)
    BY <2>1
  <2> HIDE DEF z
  <2>8. Shielded(r, cooling) =>
          \A i \in DOMAIN z.route : cooling[z.route[i].policy] => z.route[i].policy \in z.overlaps
    BY <2>4, <2>6 DEF Shielded, Pairs
  <2>9. QED
    BY <2>6, <2>7, <2>8, TryBegins
<1>3. QED
  BY <1>1, <1>2

LEMMA KeepGoesOn ==
  ASSUME NEW x \in Record, Sound(x), x.pc = "feedback", NEW it \in x.unread
  PROVE  LET r == Keep(x, it)
         IN  /\ r \in Record /\ r.pc = "feedback" /\ ~r.done /\ Sound(r)
             /\ Shielded(x, cooling) => Shielded(r, cooling)
<1> DEFINE fewer == x.unread \ {it}
           more == x.warm \union {it}
           met == (x.overlaps \ {it.policy}) \union Unseen(it.policy)
           r == [x EXCEPT !.unread = fewer, !.warm = more, !.overlaps = met]
<1>1. Keep(x, it) = r
  BY DEF Keep, Record
<1>2. /\ x.unread \in Lists /\ x.warm \in Lists /\ x.overlaps \in SUBSET Policies
      /\ x.unread \subseteq Candidate /\ x.warm \subseteq Candidate /\ ~x.done
  BY DEF Sound, Record
<1>3. it \in Candidate /\ it.policy \in Policies /\ it \in [policy : Policies, limit : [Kinds -> Nat]]
  BY <1>2 DEF Candidate
<1>4. fewer \in Lists /\ fewer \subseteq Candidate
  BY <1>2, FS_Subset DEF Lists
<1>5. more \in Lists /\ more \subseteq Candidate
  BY <1>2, <1>3, FS_AddElement DEF Lists
<1>6. met \in SUBSET Policies
  BY <1>2, <1>3 DEF Unseen
<1>7. Shielded(x, cooling) => \A p \in Pairs(more) : cooling[p] => p \in met
  BY DEF Shielded, Pairs, Unseen
<1> HIDE DEF fewer, more, met
<1>8. /\ r \in Record /\ r.pc = x.pc /\ r.done = x.done
      /\ r.unread = fewer /\ r.warm = more /\ r.overlaps = met
  BY <1>4, <1>5, <1>6 DEF Record
<1> HIDE DEF r
<1>9. Sound(r)
  BY <1>2, <1>4, <1>5, <1>8 DEF Sound, AtCounter
<1>10. Shielded(x, cooling) => Shielded(r, cooling)
  BY <1>7, <1>8 DEF Shielded
<1>11. QED
  BY <1>1, <1>2, <1>8, <1>9, <1>10

LEMMA DropGoesOn ==
  ASSUME NEW x \in Record, Sound(x), x.pc = "feedback", NEW it
  PROVE  LET r == Drop(x, it)
         IN  /\ r \in Record /\ r.pc = "feedback" /\ ~r.done /\ Sound(r)
             /\ Shielded(x, cooling) => Shielded(r, cooling)
<1> DEFINE fewer == x.unread \ {it}
           r == [x EXCEPT !.unread = fewer]
<1>1. Drop(x, it) = r
  BY DEF Drop, Record
<1>2. x.unread \in Lists /\ x.unread \subseteq Candidate /\ x.warm \subseteq Candidate /\ ~x.done
  BY DEF Sound, Record
<1>3. fewer \in Lists /\ fewer \subseteq Candidate
  BY <1>2, FS_Subset DEF Lists
<1> HIDE DEF fewer
<1>4. /\ r \in Record /\ r.pc = x.pc /\ r.done = x.done
      /\ r.unread = fewer /\ r.warm = x.warm /\ r.overlaps = x.overlaps
  BY <1>3 DEF Record
<1> HIDE DEF r
<1>5. Sound(r)
  BY <1>2, <1>3, <1>4 DEF Sound, AtCounter
<1>6. Shielded(x, cooling) => Shielded(r, cooling)
  BY <1>4 DEF Shielded
<1>7. QED
  BY <1>1, <1>2, <1>4, <1>5, <1>6

LEMMA ReadFeedbackMove ==
  ASSUME RoutingTypeOK, NEW c \in Calls, ReadFeedback(c)
  PROVE  call[c].pc = "feedback" /\ \E y : Given(c, y) /\ Begun(call[c], y)
<1> DEFINE x == call[c]
<1>0. x.pc = "feedback" /\ x \in Record /\ Sound(x)
  BY DEF ReadFeedback, RoutingTypeOK
<1>1. PICK it \in x.unread : \E r \in {Keep(x, it), Drop(x, it)} : \E y \in Sort(r) : Given(c, y)
  BY DEF ReadFeedback, Given
<1>2. PICK r \in {Keep(x, it), Drop(x, it)} : \E y \in Sort(r) : Given(c, y)
  BY <1>1
<1>3. PICK y \in Sort(r) : Given(c, y)
  BY <1>2
<1>4. /\ r \in Record /\ r.pc = "feedback" /\ ~r.done /\ Sound(r)
      /\ Shielded(x, cooling) => Shielded(r, cooling)
  BY <1>0, <1>1, <1>2, KeepGoesOn, DropGoesOn
<1>5. Begun(x, y)
  BY <1>3, <1>4, SortBegins
<1>6. QED
  BY <1>0, <1>3, <1>5

LEMMA StartMove ==
  ASSUME RoutingTypeOK, NEW c \in Calls, Starts(c)
  PROVE  /\ call[c].pc \in Resting
         /\ \E y : /\ Given(c, y) /\ Sound(y) /\ (y.pc \in Resting \/ Fresh(y))
                   /\ Shielded(call[c], cooling) => Shielded(y, cooling)
  BY ChooseMove, ReadPolicyMove, ReadFeedbackMove DEF Starts, Begun

(* The comparison of n with the limit, and what is admitted after the last.  *)
Judged(c, n, y) ==
  LET x == call[c]
      k == x.kind
  IN  /\ Given(c, y) /\ Sound(y) /\ Same(x, y)
      /\ \/ n > Limit(c)[k] /\ y.pc = "rollback" /\ y.kind = k
         \/ /\ n <= Limit(c)[k] /\ y.pc \in {"call", "incr"}
            /\ y.pc = "incr" => y.kind > k
            /\ \A j \in Kinds : j > k /\ (y.pc = "incr" => j < y.kind) => Limit(c)[j] = 0
      /\ admitted' = IF y.pc # "call" THEN admitted
                     ELSE [admitted EXCEPT ![Policy(c)] = [j \in Kinds |->
                             @[j] + IF j # Slots /\ Limit(c)[j] > 0 THEN Amount(j) ELSE 0]]

LEMMA JudgeMove ==
  ASSUME RoutingTypeOK, NEW c \in Calls, call[c].pc \in {"incr", "expire"}, NEW n \in Int,
         Continue(c, Judge(c, n))
  PROVE  Judged(c, n, Judge(c, n))
<1> DEFINE x == call[c]
           k == x.kind
           y == Judge(c, n)
<1>1. /\ x \in Record /\ Sound(x) /\ x.route # <<>> /\ ~x.done
      /\ Limit(c) \in [Kinds -> Nat] /\ k \in Kinds /\ k \in 0..3 /\ Limit(c)[k] > 0
  <2>1. x.pc \notin Resting /\ x.pc \in AtCounter
    BY DEF AtCounter
  <2>2. /\ x \in Record /\ Sound(x) /\ x.route # <<>>
        /\ Limit(c) \in [Kinds -> Nat] /\ k \in Kinds /\ k \in 0..3 /\ Limit(c)[k] > 0
    BY <2>1, CallIs
  <2>3. ~x.done
    BY <2>2 DEF Sound
  <2>4. QED
    BY <2>2, <2>3
<1>2. CASE n > Limit(c)[k]
  <2>1. y = [x EXCEPT !.pc = "rollback", !.count = 0]
    BY <1>2 DEF Judge
  <2>2. y \in Record /\ y.pc = "rollback" /\ y.kind = k /\ Same(x, y)
    BY <1>1, <2>1, AtRefusal
  <2> HIDE DEF y
  <2>3. Sound(y)
    BY <1>1, <2>2 DEF Sound, Same
  <2>4. QED
    BY <1>2, <2>2, <2>3 DEF Continue, Judged, Given, y
<1>3. CASE ~(n > Limit(c)[k])
  <2>1. y = Reserve(x, k)
    BY <1>3 DEF Judge
  <2>2. /\ Sound(y) /\ Same(x, y) /\ y.pc \in {"call", "incr"}
        /\ y.pc = "incr" => y.kind > k
        /\ \A j \in Kinds : j > k /\ (y.pc = "incr" => j < y.kind) => Limit(c)[j] = 0
    BY <1>1, <2>1, ReserveGoesOn
  <2>3. n <= Limit(c)[k]
    BY <1>1, <1>3
  <2> HIDE DEF y
  <2>4. QED
    BY <2>2, <2>3 DEF Continue, Judged, Given, y
<1>4. QED
  BY <1>2, <1>3

LEMMA IncrMove ==
  ASSUME RoutingTypeOK, NEW c \in Calls, Incr(c)
  PROVE  LET x == call[c]
             k == x.kind
             n == counter[Policy(c)][k] + Amount(k)
         IN  /\ x.pc = "incr"
             /\ counter' = [counter EXCEPT ![Policy(c)][k] = n]
             /\ \E y : \/ /\ Given(c, y) /\ Sound(y) /\ Same(x, y)
                          /\ y.pc = "expire" /\ y.kind = k /\ y.count = n /\ admitted' = admitted
                       \/ Judged(c, n, y) /\ n # Amount(k)
<1> DEFINE x == call[c]
           k == x.kind
           n == counter[Policy(c)][k] + Amount(k)
<1>1. /\ x.pc = "incr" /\ counter' = [counter EXCEPT ![Policy(c)][k] = n]
      /\ Continue(c, IF k = Slots \/ n = Amount(k) THEN [x EXCEPT !.pc = "expire", !.count = n] ELSE Judge(c, n))
  BY DEF Incr
<1>2. /\ x \in Record /\ Sound(x) /\ x.route # <<>> /\ Policy(c) \in Policies
      /\ Limit(c) \in [Kinds -> Nat] /\ k \in Kinds /\ k \in 0..3 /\ Limit(c)[k] > 0
  BY <1>1, CallIs DEF AtCounter
<1>3. n \in Int
  BY <1>2, Amounts DEF RoutingTypeOK
<1> HIDE DEF n
<1>4. CASE k = Slots \/ n = Amount(k)
  <2> DEFINE y == [x EXCEPT !.pc = "expire", !.count = n]
  <2>1. Continue(c, y)
    BY <1>1, <1>4
  <2>2. y \in Record /\ y.pc = "expire" /\ y.kind = x.kind /\ y.count = n /\ Same(x, y)
    BY <1>2, <1>3, AtExpire
  <2> HIDE DEF y
  <2>3. Sound(y)
    BY <1>1, <1>2, <2>2 DEF Sound, Same
  <2>4. Given(c, y) /\ admitted' = admitted
    BY <2>1, <2>2 DEF Given, Continue
  <2>5. QED
    BY <1>1, <2>2, <2>3, <2>4 DEF n
<1>5. CASE ~(k = Slots \/ n = Amount(k))
  <2>1. Continue(c, Judge(c, n))
    BY <1>1, <1>5
  <2>2. Judged(c, n, Judge(c, n))
    BY <1>1, <1>3, <2>1, JudgeMove
  <2>3. QED
    BY <1>1, <1>5, <2>2 DEF n
<1>6. QED
  BY <1>4, <1>5

LEMMA ExpireMove ==
  ASSUME RoutingTypeOK, NEW c \in Calls, Expire(c)
  PROVE  call[c].pc = "expire" /\ \E y : Judged(c, call[c].count, y)
<1>1. call[c].pc = "expire" /\ Continue(c, Judge(c, call[c].count))
  BY DEF Expire
<1>2. call[c].count \in Int
  BY DEF RoutingTypeOK, Record
<1>3. QED
  BY <1>1, <1>2, JudgeMove

LEMMA RollbackMove ==
  ASSUME RoutingTypeOK, NEW c \in Calls, Rollback(c)
  PROVE  LET x == call[c]
             k == x.kind
             n == counter[Policy(c)][k] - Amount(k)
         IN  /\ x.pc = "rollback"
             /\ counter' = [counter EXCEPT ![Policy(c)][k] = n]
             /\ \E y : /\ Given(c, y) /\ Sound(y)
                       /\ \/ n < 0 /\ y.pc = "reset" /\ y.kind = k /\ Same(x, y)
                          \/ ~(n < 0) /\ GaveBack(x, y)
<1> DEFINE x == call[c]
           k == x.kind
           n == counter[Policy(c)][k] - Amount(k)
<1>1. /\ x.pc = "rollback" /\ counter' = [counter EXCEPT ![Policy(c)][k] = n]
      /\ Given(c, IF n < 0 THEN [x EXCEPT !.pc = "reset"] ELSE GiveBack(x, k))
  <2>1. call' = [call EXCEPT ![c] = IF n < 0 THEN [call[c] EXCEPT !.pc = "reset"] ELSE GiveBack(call[c], k)]
    BY DEF Rollback, RoutingTypeOK
  <2>2. QED
    BY <2>1 DEF Rollback, Given
<1>2. x \in Record /\ Sound(x)
  BY <1>1, CallIs
<1> HIDE DEF n
<1>3. CASE n < 0
  <2> DEFINE y == [x EXCEPT !.pc = "reset"]
  <2>1. Given(c, y)
    BY <1>1, <1>3
  <2>2. y \in Record /\ y.pc = "reset" /\ y.kind = k /\ Same(x, y)
    BY <1>2, AtReset
  <2> HIDE DEF y
  <2>3. Sound(y)
    BY <1>1, <1>2, <2>2 DEF Sound, Same, AtCounter
  <2>4. QED
    BY <1>1, <1>3, <2>1, <2>2, <2>3 DEF n
<1>4. CASE ~(n < 0)
  <2> DEFINE y == GiveBack(x, k)
  <2>1. Given(c, y)
    BY <1>1, <1>4
  <2>2. GaveBack(x, y)
    BY <1>1, <1>2, GiveBackGoesOn
  <2> HIDE DEF y
  <2>3. Sound(y)
    BY <2>2 DEF GaveBack
  <2>4. QED
    BY <1>1, <1>4, <2>1, <2>2, <2>3 DEF n
<1>5. QED
  BY <1>3, <1>4

LEMMA GiveBackMove ==
  ASSUME RoutingTypeOK, NEW c \in Calls, Reset(c) \/ LoseRollback(c)
  PROVE  /\ call[c].pc \in {"reset", "rollback"}
         /\ \E y : Given(c, y) /\ Sound(y) /\ GaveBack(call[c], y)
<1>1. call[c].pc \in {"reset", "rollback"}
  BY DEF Reset, LoseRollback
<1>2. Given(c, GiveBack(call[c], call[c].kind))
  BY DEF Reset, LoseRollback, Given, RoutingTypeOK
<1>3. Sound(call[c])
  BY <1>1, CallIs
<1>4. GaveBack(call[c], GiveBack(call[c], call[c].kind))
  BY <1>1, <1>3, GiveBackGoesOn
<1>5. QED
  BY <1>1, <1>2, <1>4 DEF GaveBack

(* An answer: the caller goes on to its release, the others may be told.     *)
Told(x, y, p) ==
  /\ y.pc = x.pc /\ y.kind = x.kind /\ y.count = x.count /\ y.route = x.route /\ y.done = x.done
  /\ y.unread = x.unread /\ y.warm = x.warm
  /\ y.overlaps = x.overlaps \/ y.overlaps = x.overlaps \union {p}

LEMMA AnswerMove ==
  ASSUME RoutingTypeOK, NEW c \in Calls, Answer(c)
  PROVE  LET x == call[c]
             y == call'[c]
         IN  /\ x.pc = "call" /\ call' \in [Calls -> Record] /\ \A o \in Calls : Sound(call'[o])
             /\ \/ Limit(c)[Slots] > 0 /\ y.pc = "rollback" /\ y.kind = Slots /\ y.route = x.route /\ y.done
                \/ Limit(c)[Slots] = 0 /\ y = Idle
             /\ \A o \in Calls \ {c} : Told(call[o], call'[o], Policy(c))
             /\ \E cool \in BOOLEAN :
                  /\ cooling' = [cooling EXCEPT ![Policy(c)] = cool]
                  /\ cool => \A o \in Calls \ {c} : call[o].pc # "idle" => Policy(c) \in call'[o].overlaps
<1> DEFINE x == call[c]
           p == Policy(c)
           released == IF Limit(c)[Slots] > 0
                         THEN [x EXCEPT !.pc = "rollback", !.kind = Slots, !.done = TRUE]
                         ELSE Idle
<1>1. /\ x.pc = "call" /\ \E cool \in {cooling[p], TRUE, FALSE} :
           /\ cooling' = [cooling EXCEPT ![p] = cool]
           /\ call' = [o \in Calls |->
                CASE o = c -> released
                  [] o # c /\ cool /\ ~At(o, "idle") -> [call[o] EXCEPT !.overlaps = @ \union {p}]
                  [] OTHER -> call[o]]
  BY DEF Answer
<1>2. /\ x \in Record /\ x.route # <<>> /\ p \in Policies /\ Limit(c) \in [Kinds -> Nat]
  BY <1>1, CallIs
<1>3. PICK cool \in BOOLEAN :
           /\ cooling' = [cooling EXCEPT ![p] = cool]
           /\ call' = [o \in Calls |->
                CASE o = c -> released
                  [] o # c /\ cool /\ ~At(o, "idle") -> [call[o] EXCEPT !.overlaps = @ \union {p}]
                  [] OTHER -> call[o]]
  BY <1>1, <1>2 DEF RoutingTypeOK
<1>4. /\ Sound(released)
      /\ \/ Limit(c)[Slots] > 0 /\ released.pc = "rollback" /\ released.kind = Slots /\ released.route = x.route /\ released.done
         \/ Limit(c)[Slots] = 0 /\ released = Idle
  <2>0. 1 \in Kinds
    BY DEF Kinds
  <2>1. CASE Limit(c)[Slots] > 0
    <3> DEFINE y == [x EXCEPT !.pc = "rollback", !.kind = Slots, !.done = TRUE]
    <3>1. y \in Record /\ y.pc = "rollback" /\ y.kind = 1 /\ y.route = x.route /\ y.done
      BY <1>2, AtRelease
    <3>2. released = y
      BY <2>1
    <3> HIDE DEF y, released
    <3>3. Sound(y)
      BY <1>2, <2>0, <2>1, <3>1 DEF Sound, AtCounter
    <3>4. QED
      BY <2>1, <3>1, <3>2, <3>3
  <2>2. CASE ~(Limit(c)[Slots] > 0)
    <3>1. released = Idle /\ Limit(c)[Slots] = 0
      BY <1>2, <2>0, <2>2
    <3>2. QED
      BY <3>1, IdleIsSound
  <2>3. QED
    BY <2>1, <2>2
<1> HIDE DEF released
<1>5. call'[c] = released
  BY <1>3
<1>6. ASSUME NEW o \in Calls \ {c}
      PROVE  /\ Told(call[o], call'[o], p) /\ call'[o] \in Record /\ Sound(call'[o])
             /\ cool /\ call[o].pc # "idle" => p \in call'[o].overlaps
  <2>1. call[o] \in Record /\ Sound(call[o])
    BY DEF RoutingTypeOK
  <2>2. CASE cool /\ call[o].pc # "idle"
    <3> DEFINE y == [call[o] EXCEPT !.overlaps = @ \union {p}]
    <3>1. call'[o] = y
      BY <1>3, <2>2
    <3>2. /\ y \in Record /\ Told(call[o], y, p) /\ y.overlaps = call[o].overlaps \union {p}
      BY <1>2, <2>1 DEF Record, Told
    <3> HIDE DEF y
    <3>3. Sound(y)
      BY <2>1, <3>2 DEF Sound, Told
    <3>4. QED
      BY <3>1, <3>2, <3>3
  <2>3. CASE ~(cool /\ call[o].pc # "idle")
    <3>1. call'[o] = call[o]
      BY <1>3, <2>3
    <3>2. QED
      BY <2>1, <2>3, <3>1 DEF Told
  <2>4. QED
    BY <2>2, <2>3
<1>7. call' \in [Calls -> Record] /\ \A o \in Calls : Sound(call'[o])
  <2>1. \A o \in Calls : call'[o] \in Record /\ Sound(call'[o])
    BY <1>4, <1>5, <1>6 DEF Sound
  <2>2. DOMAIN call' = Calls /\ call' = [o \in Calls |-> call'[o]]
    BY <1>3
  <2>3. QED
    BY <2>1, <2>2
<1>8. QED
  BY <1>1, <1>3, <1>4, <1>5, <1>6, <1>7

LEMMA FailMove ==
  ASSUME RoutingTypeOK, NEW c \in Calls, Fail(c)
  PROVE  call[c].pc # "idle" /\ Given(c, Idle) /\ Sound(Idle)
  BY IdleIsSound DEF Fail, Given

-------------------------------------------------------------------------------
(* Type correctness.                                                         *)
LEMMA NextIs ==
  ASSUME [Next]_vars
  PROVE  \/ \E c \in Calls : \/ Starts(c) \/ Incr(c) \/ Expire(c) \/ Rollback(c)
                             \/ Reset(c) \/ Answer(c) \/ Fail(c) \/ LoseRollback(c)
         \/ \E p \in Policies : (\E k \in Kinds : TtlPasses(p, k)) \/ CooldownPasses(p) \/ ChangePolicy(p)
         \/ UNCHANGED vars
  BY DEF Next, Route, Starts

LEMMA CallsTyped ==
  ASSUME RoutingTypeOK, NEW c \in Calls,
         Starts(c) \/ Incr(c) \/ Expire(c) \/ Rollback(c) \/ Reset(c) \/ Answer(c) \/ Fail(c) \/ LoseRollback(c)
  PROVE  call' \in [Calls -> Record] /\ \A o \in Calls : Sound(call'[o])
<1>1. CASE Answer(c)
  BY <1>1, AnswerMove
<1>2. CASE ~Answer(c)
  <2>1. \E y : Given(c, y) /\ Sound(y)
    BY <1>2, StartMove, IncrMove, ExpireMove, RollbackMove, GiveBackMove, FailMove DEF Judged
  <2>2. QED
    BY <2>1, GivenIs
<1>3. QED
  BY <1>1, <1>2

LEMMA AdmittedTyped ==
  ASSUME RoutingTypeOK, NEW c \in Calls, NEW n, NEW y, Judged(c, n, y), Policy(c) \in Policies
  PROVE  admitted' \in [Policies -> [Kinds -> Nat]]
<1>1. CASE y.pc # "call"
  BY <1>1 DEF Judged, RoutingTypeOK
<1>2. CASE y.pc = "call"
  <2> DEFINE p == Policy(c)
             more == [j \in Kinds |-> admitted[p][j] + IF j # Slots /\ Limit(c)[j] > 0 THEN Amount(j) ELSE 0]
  <2>1. admitted' = [admitted EXCEPT ![p] = more]
    BY <1>2 DEF Judged, RoutingTypeOK
  <2>2. admitted \in [Policies -> [Kinds -> Nat]]
    BY DEF RoutingTypeOK
  <2>3. more \in [Kinds -> Nat]
    BY <2>2, Amounts
  <2> HIDE DEF more, p
  <2>4. QED
    BY <2>1, <2>2, <2>3
<1>3. QED
  BY <1>1, <1>2

LEMMA TypesInit ==
  ASSUME Init
  PROVE  RoutingTypeOK
<1>1. /\ policy \in [Policies -> Rows] /\ \A p \in Policies : policy[p] \in Settings[p]
  BY DEF Init
<1>2. Zero \in [Policies -> [Kinds -> Nat]] /\ Zero \in [Policies -> [Kinds -> Int]]
  BY DEF Zero, Unlimited
<1>3. /\ counter \in [Policies -> [Kinds -> Int]] /\ admitted \in [Policies -> [Kinds -> Nat]]
      /\ left \in [Policies -> [Kinds -> Nat]]
  BY <1>2 DEF Init
<1>4. /\ timed \in [Policies -> SUBSET Kinds] /\ blurred \in [Policies -> SUBSET Kinds]
      /\ untimed \in [Policies -> SUBSET Kinds] /\ cooling \in [Policies -> BOOLEAN]
      /\ started \in Nat /\ faults \in Nat /\ changes \in Nat
  BY DEF Init
<1>5. call \in [Calls -> Record] /\ \A c \in Calls : Sound(call[c])
  <2>1. Idle \in Record
    BY IdleIsSound DEF Sound
  <2>2. call = [c \in Calls |-> Idle]
    BY DEF Init
  <2>3. QED
    BY <2>1, <2>2, IdleIsSound
<1>6. QED
  BY <1>1, <1>3, <1>4, <1>5 DEF RoutingTypeOK

LEMMA TypesStep ==
  ASSUME RoutingTypeOK, [Next]_vars
  PROVE  RoutingTypeOK'
<1> USE DEF RoutingTypeOK
<1>1. ASSUME NEW c \in Calls, Starts(c)
      PROVE  RoutingTypeOK'
  <2>1. call' \in [Calls -> Record] /\ \A o \in Calls : Sound(call'[o])
    BY <1>1, CallsTyped
  <2>2. started' \in Nat /\ faults' \in Nat /\ UNCHANGED <<policy, redis, ghosts, changes>>
    BY <1>1, StartFrame
  <2>3. QED
    BY <2>1, <2>2
<1>2. ASSUME NEW c \in Calls, Incr(c)
      PROVE  RoutingTypeOK'
  <2> DEFINE p == Policy(c)
             k == call[c].kind
             n == counter[p][k] + Amount(k)
  <2>1. call' \in [Calls -> Record] /\ \A o \in Calls : Sound(call'[o])
    BY <1>2, CallsTyped
  <2>2. call[c].pc = "incr" /\ p \in Policies /\ k \in Kinds
    BY <1>2, IncrMove, CallIs DEF AtCounter
  <2>3. n \in Int
    BY <2>2, Amounts
  <2>4. counter' = [counter EXCEPT ![p][k] = n]
    BY <1>2, IncrMove
  <2> HIDE DEF n, k, p
  <2>5. counter' \in [Policies -> [Kinds -> Int]]
    BY <2>2, <2>3, <2>4
  <2>6. admitted' \in [Policies -> [Kinds -> Nat]]
    BY <1>2, <2>2, IncrMove, AdmittedTyped DEF p
  <2>7. QED
    BY <1>2, <2>1, <2>5, <2>6 DEF Incr
<1>3. ASSUME NEW c \in Calls, Expire(c)
      PROVE  RoutingTypeOK'
  <2> DEFINE p == Policy(c)
             k == call[c].kind
  <2>1. call' \in [Calls -> Record] /\ \A o \in Calls : Sound(call'[o])
    BY <1>3, CallsTyped
  <2>2. p \in Policies /\ k \in Kinds
    BY <1>3, ExpireMove, CallIs DEF AtCounter
  <2>3. admitted' \in [Policies -> [Kinds -> Nat]]
    BY <1>3, <2>2, ExpireMove, AdmittedTyped
  <2>4. timed' \in [Policies -> SUBSET Kinds] /\ untimed' \in [Policies -> SUBSET Kinds]
    <3>1. \/ SetTtl(p, k)
          \/ UNCHANGED <<timed, untimed>>
      BY <1>3 DEF Expire
    <3>2. CASE SetTtl(p, k)
      BY <2>2, <3>2 DEF SetTtl
    <3>3. QED
      BY <3>1, <3>2
  <2>5. QED
    BY <1>3, <2>1, <2>3, <2>4 DEF Expire
<1>4. ASSUME NEW c \in Calls, Rollback(c)
      PROVE  RoutingTypeOK'
  <2> DEFINE p == Policy(c)
             k == call[c].kind
             n == counter[p][k] - Amount(k)
  <2>1. call' \in [Calls -> Record] /\ \A o \in Calls : Sound(call'[o])
    BY <1>4, CallsTyped
  <2>2. p \in Policies /\ k \in Kinds
    BY <1>4, RollbackMove, CallIs DEF AtCounter
  <2>3. n \in Int
    BY <2>2, Amounts
  <2>4. counter' = [counter EXCEPT ![p][k] = n]
    BY <1>4, RollbackMove
  <2> HIDE DEF n, k, p
  <2>5. counter' \in [Policies -> [Kinds -> Int]]
    BY <2>2, <2>3, <2>4
  <2>6. QED
    BY <1>4, <2>1, <2>5 DEF Rollback
<1>5. ASSUME NEW c \in Calls, Reset(c)
      PROVE  RoutingTypeOK'
  <2> DEFINE p == Policy(c)
             k == call[c].kind
  <2>1. call' \in [Calls -> Record] /\ \A o \in Calls : Sound(call'[o])
    BY <1>5, CallsTyped
  <2>2. p \in Policies /\ k \in Kinds
    BY <1>5, CallIs DEF AtCounter, Reset
  <2>3. /\ counter' \in [Policies -> [Kinds -> Int]]
        /\ timed' \in [Policies -> SUBSET Kinds] /\ untimed' \in [Policies -> SUBSET Kinds]
    BY <1>5, <2>2 DEF Reset, SetTtl
  <2>4. QED
    BY <1>5, <2>1, <2>3 DEF Reset
<1>6. ASSUME NEW c \in Calls, Answer(c)
      PROVE  RoutingTypeOK'
  <2>1. call' \in [Calls -> Record] /\ \A o \in Calls : Sound(call'[o])
    BY <1>6, CallsTyped
  <2>2. cooling' \in [Policies -> BOOLEAN]
    BY <1>6, AnswerMove
  <2>3. QED
    BY <1>6, <2>1, <2>2 DEF Answer
<1>7. ASSUME NEW c \in Calls, Fail(c)
      PROVE  RoutingTypeOK'
  <2>1. call' \in [Calls -> Record] /\ \A o \in Calls : Sound(call'[o])
    BY <1>7, CallsTyped
  <2>2. call[c].pc \in AtCounter => Policy(c) \in Policies /\ call[c].kind \in Kinds
    BY CallIs DEF AtCounter
  <2>3. left' = [p \in Policies |-> [k \in Kinds |->
                  left[p][k] + IF Holds(c, p, k) THEN Amount(k) ELSE 0]]
    BY <1>7 DEF Fail
  <2>4. \A p \in Policies, k \in Kinds : left[p][k] + (IF Holds(c, p, k) THEN Amount(k) ELSE 0) \in Nat
    BY Amounts
  <2>5. untimed' \in [Policies -> SUBSET Kinds]
    BY <1>7, <2>2 DEF Fail, AtCounter
  <2>6. left' \in [Policies -> [Kinds -> Nat]]
    BY <2>3, <2>4
  <2>7. QED
    BY <1>7, <2>1, <2>5, <2>6 DEF Fail, Fault
<1>8. ASSUME NEW c \in Calls, LoseRollback(c)
      PROVE  RoutingTypeOK'
  <2> DEFINE p == Policy(c)
             k == call[c].kind
  <2>1. call' \in [Calls -> Record] /\ \A o \in Calls : Sound(call'[o])
    BY <1>8, CallsTyped
  <2>2. p \in Policies /\ k \in Kinds
    BY <1>8, CallIs DEF AtCounter, LoseRollback
  <2>3. left' = [left EXCEPT ![p][k] = left[p][k] + Amount(k)]
    BY <1>8 DEF LoseRollback
  <2>4. left[p][k] + Amount(k) \in Nat
    BY <2>2, Amounts
  <2>5. left' \in [Policies -> [Kinds -> Nat]]
    BY <2>2, <2>3, <2>4
  <2>6. QED
    BY <1>8, <2>1, <2>5 DEF LoseRollback, Fault
<1>9. ASSUME NEW p \in Policies, NEW k \in Kinds, TtlPasses(p, k)
      PROVE  RoutingTypeOK'
  <2>1. /\ counter' \in [Policies -> [Kinds -> Int]] /\ admitted' \in [Policies -> [Kinds -> Nat]]
        /\ left' \in [Policies -> [Kinds -> Nat]]
        /\ timed' \in [Policies -> SUBSET Kinds] /\ blurred' \in [Policies -> SUBSET Kinds]
    BY <1>9 DEF TtlPasses
  <2>2. QED
    BY <1>9, <2>1 DEF TtlPasses
<1>10. ASSUME NEW p \in Policies, CooldownPasses(p)
       PROVE  RoutingTypeOK'
  BY <1>10 DEF CooldownPasses
<1>11. ASSUME NEW p \in Policies, ChangePolicy(p)
       PROVE  RoutingTypeOK'
  <2>1. PICK row \in Settings[p] : policy' = [policy EXCEPT ![p] = row]
    BY <1>11 DEF ChangePolicy
  <2>2. row \in Rows
    BY ConstantsAssumption
  <2>3. policy' \in [Policies -> Rows] /\ \A q \in Policies : policy'[q] \in Settings[q]
    BY <2>1, <2>2
  <2>4. QED
    BY <1>11, <2>3 DEF ChangePolicy
<1>12. CASE UNCHANGED vars
  BY <1>12 DEF vars
<1>13. QED
  BY NextIs, <1>1, <1>2, <1>3, <1>4, <1>5, <1>6, <1>7, <1>8, <1>9, <1>10, <1>11, <1>12

(* The type invariant.                                                       *)
THEOREM RoutingTypeCorrect == Spec => []RoutingTypeOK
<1>1. Init => RoutingTypeOK
  BY TypesInit
<1>2. RoutingTypeOK /\ [Next]_vars => RoutingTypeOK'
  BY TypesStep
<1>3. QED
  BY <1>1, <1>2, PTL DEF Spec

-------------------------------------------------------------------------------
(* A counter without a TTL is zero, or a call is about to give it one, or    *)
(* the one that was has failed.                                              *)
Pending(c, p, k) == call[c].pc \in {"expire", "reset"} /\ Policy(c) = p /\ call[c].kind = k

TtlInv ==
  \A p \in Policies, k \in Kinds :
    k \notin timed[p] /\ counter[p][k] # 0 => k \in untimed[p] \/ \E c \in Calls : Pending(c, p, k)

(* A step of another call, or one that keeps the counter as it is.           *)
LEMMA TtlFrame ==
  ASSUME TtlInv, NEW c \in Calls, NEW p \in Policies, NEW k \in Kinds,
         k \notin timed'[p], counter'[p][k] # 0,
         timed' = timed, counter[p][k] # 0 \/ (k \in untimed'[p]) \/ Pending(c, p, k)',
         k \in untimed[p] => k \in untimed'[p],
         Pending(c, p, k) => Pending(c, p, k)' \/ k \in untimed'[p],
         \A o \in Calls \ {c} : Pending(o, p, k) => Pending(o, p, k)'
  PROVE  k \in untimed'[p] \/ \E o \in Calls : Pending(o, p, k)'
<1>1. CASE counter[p][k] # 0
  <2>1. k \in untimed[p] \/ \E o \in Calls : Pending(o, p, k)
    BY <1>1 DEF TtlInv
  <2>2. CASE k \in untimed[p]
    BY <2>2
  <2>3. ASSUME NEW o \in Calls, Pending(o, p, k)
        PROVE  k \in untimed'[p] \/ \E d \in Calls : Pending(d, p, k)'
    <3>1. CASE o = c
      BY <2>3, <3>1
    <3>2. CASE o # c
      BY <2>3, <3>2
    <3>3. QED
      BY <3>1, <3>2
  <2>4. QED
    BY <2>1, <2>2, <2>3
<1>2. CASE counter[p][k] = 0
  BY <1>2
<1>3. QED
  BY <1>1, <1>2

LEMMA PendingFrame ==
  ASSUME NEW c \in Calls, OnlyCall(c)
  PROVE  \A o \in Calls \ {c} : \A p, k : Pending(o, p, k) => Pending(o, p, k)'
  BY DEF OnlyCall, Pending

LEMMA TtlStep ==
  ASSUME RoutingTypeOK, TtlInv, [Next]_vars
  PROVE  TtlInv'
<1> SUFFICES ASSUME NEW p \in Policies, NEW k \in Kinds, k \notin timed'[p], counter'[p][k] # 0
             PROVE  k \in untimed'[p] \/ \E c \in Calls : Pending(c, p, k)'
  BY DEF TtlInv
<1> DEFINE Goal == k \in untimed'[p] \/ \E c \in Calls : Pending(c, p, k)'
<1>1. ASSUME NEW c \in Calls, Starts(c)
      PROVE  Goal
  <2>1. call[c].pc \in Resting /\ OnlyCall(c)
    BY <1>1, StartMove, GivenIs
  <2>2. timed' = timed /\ counter' = counter /\ untimed' = untimed
    BY <1>1, StartFrame
  <2>3. ~Pending(c, p, k)
    BY <2>1 DEF Pending
  <2>4. QED
    BY <2>1, <2>2, <2>3, TtlFrame, PendingFrame
<1>2. ASSUME NEW c \in Calls, Incr(c)
      PROVE  Goal
  <2> DEFINE q == Policy(c)
             j == call[c].kind
             n == counter[q][j] + Amount(j)
  <2>1. /\ call[c].pc = "incr" /\ q \in Policies /\ j \in Kinds
    BY <1>2, IncrMove, CallIs DEF AtCounter
  <2>2. counter' = [counter EXCEPT ![q][j] = n]
    BY <1>2, IncrMove
  <2>3. timed' = timed /\ untimed' = untimed
    BY <1>2 DEF Incr
  <2>4. ~Pending(c, p, k)
    BY <2>1 DEF Pending
  <2>5. PICK y : /\ Given(c, y)
                 /\ \/ Same(call[c], y) /\ y.pc = "expire" /\ y.kind = j
                    \/ n # Amount(j)
    BY <1>2, IncrMove DEF Judged
  <2>6. call'[c] = y /\ OnlyCall(c)
    BY <2>5, GivenIs
  <2>7. counter[p][k] # 0 \/ Pending(c, p, k)'
    <3>1. CASE p = q /\ k = j
      <4>1. CASE n # Amount(j)
        <5>1. counter[q][j] \in Int /\ Amount(j) \in Nat
          BY <2>1, Amounts DEF RoutingTypeOK
        <5>2. QED
          BY <3>1, <4>1, <5>1
      <4>2. CASE Same(call[c], y) /\ y.pc = "expire" /\ y.kind = j
        BY <2>6, <3>1, <4>2 DEF Pending, Same
      <4>3. QED
        BY <2>5, <4>1, <4>2
    <3>2. CASE ~(p = q /\ k = j)
      <4>1. counter'[p][k] = counter[p][k]
        BY <2>1, <2>2, <3>2 DEF RoutingTypeOK
      <4>2. QED
        BY <4>1
    <3>3. QED
      BY <3>1, <3>2
  <2>8. QED
    BY <2>3, <2>4, <2>6, <2>7, TtlFrame, PendingFrame
<1>3. ASSUME NEW c \in Calls, Expire(c)
      PROVE  Goal
  <2> DEFINE q == Policy(c)
             j == call[c].kind
  <2>1. q \in Policies /\ j \in Kinds /\ call[c].pc = "expire"
    BY <1>3, ExpireMove, CallIs DEF AtCounter
  <2>2. OnlyCall(c)
    BY <1>3, ExpireMove, GivenIs DEF Judged
  <2>3. counter' = counter /\ IF counter[q][j] # 0 THEN SetTtl(q, j) ELSE UNCHANGED <<timed, untimed>>
    BY <1>3 DEF Expire
  <2>4. ~Pending(c, p, k)
    <3>1. CASE p = q /\ k = j
      <4>1. SetTtl(q, j)
        BY <2>3, <3>1
      <4>2. k \in timed'[p]
        BY <2>1, <3>1, <4>1 DEF SetTtl, RoutingTypeOK
      <4>3. QED
        BY <4>2
    <3>2. CASE ~(p = q /\ k = j)
      BY <3>2 DEF Pending
    <3>3. QED
      BY <3>1, <3>2
  <2>5. k \notin timed[p] /\ (k \in untimed[p] => k \in untimed'[p])
    <3>1. CASE UNCHANGED <<timed, untimed>>
      BY <3>1
    <3>2. CASE SetTtl(q, j)
      <4>1. ~(p = q /\ k = j)
        BY <2>1, <3>2 DEF SetTtl, RoutingTypeOK
      <4>2. QED
        BY <2>1, <3>2, <4>1 DEF SetTtl, RoutingTypeOK
    <3>3. QED
      BY <2>3, <3>1, <3>2
  <2>6. k \in untimed[p] \/ \E o \in Calls : Pending(o, p, k)
    BY <2>3, <2>5 DEF TtlInv
  <2>7. QED
    BY <2>2, <2>4, <2>5, <2>6, PendingFrame
<1>4. ASSUME NEW c \in Calls, Rollback(c)
      PROVE  Goal
  <2> DEFINE q == Policy(c)
             j == call[c].kind
             n == counter[q][j] - Amount(j)
  <2>1. call[c].pc = "rollback" /\ q \in Policies /\ j \in Kinds
    BY <1>4, RollbackMove, CallIs DEF AtCounter
  <2>2. counter' = [counter EXCEPT ![q][j] = n]
    BY <1>4, RollbackMove
  <2>3. timed' = timed /\ untimed' = untimed
    BY <1>4 DEF Rollback
  <2>4. ~Pending(c, p, k)
    BY <2>1 DEF Pending
  <2>5. PICK y : /\ Given(c, y)
                 /\ \/ n < 0 /\ y.pc = "reset" /\ y.kind = j /\ Same(call[c], y)
                    \/ ~(n < 0)
    BY <1>4, RollbackMove
  <2>6. call'[c] = y /\ OnlyCall(c)
    BY <2>5, GivenIs
  <2>7. counter[p][k] # 0 \/ Pending(c, p, k)'
    <3>1. CASE p = q /\ k = j
      <4>0. counter[q][j] \in Int /\ Amount(j) \in Nat /\ Amount(j) > 0
        BY <2>1, Amounts DEF RoutingTypeOK
      <4>1. CASE ~(n < 0)
        BY <3>1, <4>0, <4>1
      <4>2. CASE n < 0 /\ y.pc = "reset" /\ y.kind = j /\ Same(call[c], y)
        BY <2>6, <3>1, <4>2 DEF Pending, Same
      <4>3. QED
        BY <2>5, <4>1, <4>2
    <3>2. CASE ~(p = q /\ k = j)
      <4>1. counter'[p][k] = counter[p][k]
        BY <2>1, <2>2, <3>2 DEF RoutingTypeOK
      <4>2. QED
        BY <4>1
    <3>3. QED
      BY <3>1, <3>2
  <2>8. QED
    BY <2>3, <2>4, <2>6, <2>7, TtlFrame, PendingFrame
<1>5. ASSUME NEW c \in Calls, Reset(c)
      PROVE  Goal
  <2> DEFINE q == Policy(c)
             j == call[c].kind
  <2>1. q \in Policies /\ j \in Kinds /\ call[c].pc = "reset"
    BY <1>5, CallIs DEF AtCounter, Reset
  <2>2. OnlyCall(c)
    BY <1>5, GiveBackMove, GivenIs
  <2>3. counter' = [counter EXCEPT ![q][j] = 0] /\ SetTtl(q, j)
    BY <1>5 DEF Reset
  <2>4. ~(p = q /\ k = j)
    BY <2>1, <2>3 DEF SetTtl, RoutingTypeOK
  <2>5. /\ counter'[p][k] = counter[p][k] /\ k \notin timed[p]
        /\ k \in untimed[p] => k \in untimed'[p]
    BY <2>1, <2>3, <2>4 DEF SetTtl, RoutingTypeOK
  <2>6. k \in untimed[p] \/ \E o \in Calls : Pending(o, p, k)
    BY <2>5 DEF TtlInv
  <2>7. ~Pending(c, p, k)
    BY <2>4 DEF Pending
  <2>8. QED
    BY <2>2, <2>5, <2>6, <2>7, PendingFrame
<1>6. ASSUME NEW c \in Calls, Answer(c)
      PROVE  Goal
  <2>1. \A o \in Calls \ {c} : Pending(o, p, k) => Pending(o, p, k)'
    BY <1>6, AnswerMove DEF Told, Pending
  <2>2. ~Pending(c, p, k)
    BY <1>6, AnswerMove DEF Pending
  <2>3. timed' = timed /\ counter' = counter /\ untimed' = untimed
    BY <1>6 DEF Answer
  <2>4. QED
    BY <2>1, <2>2, <2>3, TtlFrame
<1>7. ASSUME NEW c \in Calls, Fail(c)
      PROVE  Goal
  <2>1. call[c].pc # "idle" /\ OnlyCall(c)
    BY <1>7, FailMove, GivenIs
  <2>2. timed' = timed /\ counter' = counter
    BY <1>7 DEF Fail
  <2>3. untimed' = IF call[c].pc = "expire" \/ call[c].pc = "reset"
                     THEN [untimed EXCEPT ![Policy(c)] = @ \union {call[c].kind}] ELSE untimed
    BY <1>7 DEF Fail
  <2>4. call[c].pc \in {"expire", "reset"} => Policy(c) \in Policies
    BY CallIs
  <2>5. k \in untimed[p] => k \in untimed'[p]
    BY <2>3, <2>4 DEF RoutingTypeOK
  <2>6. Pending(c, p, k) => k \in untimed'[p]
    BY <2>3, <2>4 DEF RoutingTypeOK, Pending
  <2>7. QED
    BY <2>1, <2>2, <2>5, <2>6, TtlFrame, PendingFrame
<1>8. ASSUME NEW c \in Calls, LoseRollback(c)
      PROVE  Goal
  <2>1. call[c].pc = "rollback" /\ OnlyCall(c)
    BY <1>8, GiveBackMove, GivenIs DEF LoseRollback
  <2>2. timed' = timed /\ counter' = counter /\ untimed' = untimed
    BY <1>8 DEF LoseRollback
  <2>3. ~Pending(c, p, k)
    BY <2>1 DEF Pending
  <2>4. QED
    BY <2>1, <2>2, <2>3, TtlFrame, PendingFrame
<1>9. ASSUME NEW q \in Policies, NEW j \in Kinds, TtlPasses(q, j)
      PROVE  Goal
  <2>1. call' = call /\ untimed' = untimed /\ counter' = [counter EXCEPT ![q][j] = 0] /\ timed' = [timed EXCEPT ![q] = @ \ {j}]
    BY <1>9 DEF TtlPasses
  <2>2. ~(p = q /\ k = j)
    BY <2>1 DEF RoutingTypeOK
  <2>3. counter'[p][k] = counter[p][k] /\ k \notin timed[p]
    BY <2>1, <2>2 DEF RoutingTypeOK
  <2>4. k \in untimed[p] \/ \E o \in Calls : Pending(o, p, k)
    BY <2>3 DEF TtlInv
  <2>5. QED
    BY <2>1, <2>4 DEF Pending
<1>10. ASSUME call' = call, untimed' = untimed, counter' = counter, timed' = timed
       PROVE  Goal
  BY <1>10 DEF TtlInv, Pending
<1>11. ASSUME NEW q \in Policies, CooldownPasses(q) \/ ChangePolicy(q)
       PROVE  Goal
  BY <1>10, <1>11 DEF CooldownPasses, ChangePolicy
<1>12. CASE UNCHANGED vars
  BY <1>10, <1>12 DEF vars
<1>13. QED
  BY NextIs, <1>1, <1>2, <1>3, <1>4, <1>5, <1>6, <1>7, <1>8, <1>9, <1>11, <1>12

(* CountersExpire: a counter that limits calls goes away some time.          *)
THEOREM CountersGoAway == Spec => []CountersExpire
<1>1. Init => RoutingTypeOK /\ TtlInv
  BY TypesInit DEF Init, TtlInv, Zero, Unlimited
<1>2. (RoutingTypeOK /\ TtlInv) /\ [Next]_vars => (RoutingTypeOK /\ TtlInv)'
  BY TypesStep, TtlStep
<1>3. RoutingTypeOK /\ TtlInv => CountersExpire
  <2> SUFFICES ASSUME RoutingTypeOK, TtlInv, NEW p \in Policies, NEW k \in Kinds, k \notin timed[p], counter[p][k] > 0
               PROVE  \/ k \in untimed[p]
                      \/ \E c \in Calls : Pending(c, p, k)
    BY DEF CountersExpire, Pending
  <2>1. counter[p][k] # 0
    BY DEF RoutingTypeOK
  <2>2. QED
    BY <2>1 DEF TtlInv
<1>4. QED
  BY <1>1, <1>2, <1>3, PTL DEF Spec

-------------------------------------------------------------------------------
(* Every call is shielded from the cooldowns that it has passed.             *)
CoolInv == \A c \in Calls : Shielded(call[c], cooling)

LEMMA SameIsShielded ==
  ASSUME NEW x, x.pc \notin Resting, NEW y, y.pc \notin Resting, Same(x, y), NEW cold, Shielded(x, cold)
  PROVE  Shielded(y, cold)
  BY DEF Same, Shielded

LEMMA GaveBackIsShielded ==
  ASSUME NEW x, Sound(x), x.pc \notin Resting, NEW y, GaveBack(x, y), NEW cold, Shielded(x, cold)
  PROVE  Shielded(y, cold)
<1>1. x \in Record /\ x.route # <<>>
  BY DEF Sound
<1>2. CASE Same(x, y) /\ y.pc = "rollback"
  BY <1>2, SameIsShielded
<1>3. CASE y = Idle
  BY <1>3, IdleIsShielded
<1>4. CASE y.route = Tail(x.route) /\ y.overlaps = x.overlaps /\ ~x.done /\ Fresh(y)
  <2>1. x.route \in Seq(Candidate)
    BY <1>1 DEF Record
  <2>2. \A i \in DOMAIN y.route : i + 1 \in DOMAIN x.route /\ y.route[i] = x.route[i + 1]
    BY <1>1, <1>4, <2>1
  <2>3. \A i \in DOMAIN x.route : cold[x.route[i].policy] => x.route[i].policy \in x.overlaps
    BY <1>4 DEF Shielded
  <2>4. QED
    BY <1>4, <2>2, <2>3 DEF Shielded, Fresh
<1>5. QED
  BY <1>2, <1>3, <1>4 DEF GaveBack

LEMMA CoolGiven ==
  ASSUME RoutingTypeOK, CoolInv, NEW c \in Calls, NEW y, Given(c, y), Shielded(y, cooling), cooling' = cooling
  PROVE  CoolInv'
<1>1. call'[c] = y /\ OnlyCall(c)
  BY GivenIs
<1>2. \A o \in Calls : Shielded(call'[o], cooling)
  BY <1>1 DEF CoolInv, OnlyCall
<1>3. QED
  BY <1>2 DEF CoolInv

(* One that is told of a new cooldown, or of the end of one.                 *)
LEMMA ToldIsShielded ==
  ASSUME NEW x \in Record, NEW y, NEW p, Told(x, y, p), NEW cold \in [Policies -> BOOLEAN], Shielded(x, cold),
         NEW cool \in BOOLEAN, x.pc # "idle" => (cool => p \in y.overlaps)
  PROVE  Shielded(y, [cold EXCEPT ![p] = cool])
<1> DEFINE cold2 == [cold EXCEPT ![p] = cool]
<1>1. ASSUME NEW S \in SUBSET Policies, x.pc # "idle", \A q \in S : cold[q] => q \in x.overlaps
      PROVE  \A q \in S : cold2[q] => q \in y.overlaps
  <2> SUFFICES ASSUME NEW q \in S, cold2[q]
               PROVE  q \in y.overlaps
    OBVIOUS
  <2>1. CASE q = p
    BY <1>1, <2>1
  <2>2. CASE q # p
    <3>1. cold[q]
      BY <2>2
    <3>2. QED
      BY <1>1, <3>1 DEF Told
  <2>3. QED
    BY <2>1, <2>2
<1> HIDE DEF cold2
<1>2. x.unread \in Lists /\ x.warm \in Lists /\ x.route \in Seq(Candidate)
  BY DEF Record
<1>3. Pairs(x.unread) \in SUBSET Policies /\ Pairs(x.warm) \in SUBSET Policies
  BY <1>2 DEF Lists, Pairs
<1>4. {x.route[i].policy : i \in DOMAIN x.route} \in SUBSET Policies
  BY <1>2 DEF Candidate
<1>5. CASE x.pc = "policy"
  <2>1. \A q \in Pairs(x.unread) : cold2[q] => q \in y.overlaps
    BY <1>1, <1>3, <1>5 DEF Shielded
  <2>2. QED
    BY <1>5, <2>1 DEF Shielded, Told, cold2
<1>6. CASE x.pc = "feedback"
  <2>1. \A q \in Pairs(x.warm) : cold2[q] => q \in y.overlaps
    BY <1>1, <1>3, <1>6 DEF Shielded
  <2>2. QED
    BY <1>6, <2>1 DEF Shielded, Told, cold2
<1>7. CASE x.pc \notin Resting
  <2>1. CASE x.done
    BY <1>7, <2>1 DEF Shielded, Told
  <2>2. CASE ~x.done
    <3>1. \A i \in DOMAIN x.route : cold[x.route[i].policy] => x.route[i].policy \in x.overlaps
      BY <1>7, <2>2 DEF Shielded
    <3>2. \A i \in DOMAIN x.route : cold2[x.route[i].policy] => x.route[i].policy \in y.overlaps
      BY <1>1, <1>4, <1>7, <3>1
    <3>3. QED
      BY <1>7, <3>2 DEF Shielded, Told, cold2
  <2>3. QED
    BY <2>1, <2>2 DEF Told
<1>8. CASE x.pc = "idle"
  BY <1>8 DEF Shielded, Told
<1>9. QED
  BY <1>5, <1>6, <1>7, <1>8

LEMMA HeadOnRoute ==
  ASSUME NEW x \in Record, x.route # <<>>
  PROVE  \E i \in DOMAIN x.route : Head(x.route) = x.route[i]
<1>1. x.route \in Seq(Candidate)
  BY DEF Record
<1>2. 1 \in DOMAIN x.route /\ Head(x.route) = x.route[1]
  BY <1>1
<1>3. QED
  BY <1>2

LEMMA CoolStep ==
  ASSUME RoutingTypeOK, CoolInv, [Next]_vars
  PROVE  CoolInv'
<1>1. ASSUME NEW c \in Calls, Starts(c)
      PROVE  CoolInv'
  <2>1. PICK y : Given(c, y) /\ (Shielded(call[c], cooling) => Shielded(y, cooling))
    BY <1>1, StartMove
  <2>2. Shielded(y, cooling)
    BY <2>1 DEF CoolInv
  <2>3. cooling' = cooling
    BY <1>1, StartFrame
  <2>4. QED
    BY <2>1, <2>2, <2>3, CoolGiven
<1>2. ASSUME NEW c \in Calls, Incr(c) \/ Expire(c)
      PROVE  CoolInv'
  <2>1. PICK y : Given(c, y) /\ Same(call[c], y) /\ call[c].pc \notin Resting /\ y.pc \notin Resting
    BY <1>2, IncrMove, ExpireMove DEF Judged
  <2>2. Shielded(call[c], cooling)
    BY DEF CoolInv
  <2>3. Shielded(y, cooling)
    BY <2>1, <2>2, SameIsShielded
  <2>4. QED
    BY <1>2, <2>1, <2>3, CoolGiven DEF Incr, Expire
<1>3. ASSUME NEW c \in Calls, Rollback(c) \/ Reset(c) \/ LoseRollback(c)
      PROVE  CoolInv'
  <2>1. PICK y : /\ Given(c, y) /\ call[c].pc \notin Resting
                 /\ (Same(call[c], y) /\ y.pc = "reset") \/ GaveBack(call[c], y)
    BY <1>3, RollbackMove, GiveBackMove
  <2>2. Shielded(call[c], cooling) /\ Sound(call[c])
    BY DEF CoolInv, RoutingTypeOK
  <2>3. Shielded(y, cooling)
    BY <2>1, <2>2, SameIsShielded, GaveBackIsShielded
  <2>4. QED
    BY <1>3, <2>1, <2>3, CoolGiven DEF Rollback, Reset, LoseRollback
<1>4. ASSUME NEW c \in Calls, Answer(c)
      PROVE  CoolInv'
  <2> DEFINE p == Policy(c)
  <2>1. PICK cool \in BOOLEAN :
           /\ cooling' = [cooling EXCEPT ![p] = cool]
           /\ cool => \A o \in Calls \ {c} : call[o].pc # "idle" => p \in call'[o].overlaps
    BY <1>4, AnswerMove
  <2>2. Shielded(call'[c], cooling')
    <3>1. call'[c] = Idle \/ (call'[c].done /\ call'[c].pc = "rollback")
      BY <1>4, AnswerMove
    <3>2. QED
      BY <3>1, IdleIsShielded DEF Shielded
  <2>3. ASSUME NEW o \in Calls \ {c}
        PROVE  Shielded(call'[o], cooling')
    <3>1. Told(call[o], call'[o], p) /\ Shielded(call[o], cooling)
      BY <1>4, AnswerMove DEF CoolInv
    <3>2. call[o].pc # "idle" => (cool => p \in call'[o].overlaps)
      BY <2>1
    <3>3. call[o] \in Record
      BY DEF RoutingTypeOK
    <3>4. cooling \in [Policies -> BOOLEAN]
      BY DEF RoutingTypeOK
    <3>5. QED
      BY <2>1, <3>1, <3>2, <3>3, <3>4, ToldIsShielded
  <2>4. QED
    BY <2>2, <2>3 DEF CoolInv
<1>5. ASSUME NEW c \in Calls, Fail(c)
      PROVE  CoolInv'
  BY <1>5, FailMove, CoolGiven, IdleIsShielded DEF Fail
<1>6. ASSUME NEW p \in Policies, CooldownPasses(p)
      PROVE  CoolInv'
  <2>1. call' = call /\ cooling' = [cooling EXCEPT ![p] = FALSE]
    BY <1>6 DEF CooldownPasses
  <2>2. \A q : cooling'[q] => cooling[q]
    <3>1. SUFFICES ASSUME NEW q, cooling'[q]
                   PROVE  cooling[q]
      OBVIOUS
    <3>2. CASE q \in Policies
      BY <2>1, <3>1, <3>2 DEF RoutingTypeOK
    <3>3. CASE q \notin Policies
      BY <2>1, <3>1, <3>3 DEF RoutingTypeOK
    <3>4. QED
      BY <3>2, <3>3
  <2>3. QED
    BY <2>1, <2>2 DEF CoolInv, Shielded
<1>7. CASE call' = call /\ cooling' = cooling
  BY <1>7 DEF CoolInv
<1>8. ASSUME NEW p \in Policies, (\E k \in Kinds : TtlPasses(p, k)) \/ ChangePolicy(p)
      PROVE  CoolInv'
  BY <1>7, <1>8 DEF TtlPasses, ChangePolicy
<1>9. CASE UNCHANGED vars
  BY <1>7, <1>9 DEF vars
<1>10. QED
  BY NextIs, <1>1, <1>2, <1>3, <1>4, <1>5, <1>6, <1>8, <1>9

LEMMA CooldownStep ==
  ASSUME RoutingTypeOK, CoolInv, [Next]_vars, NEW p \in Policies, cooling[p], ~cooling'[p], call' # call
  PROVE  \E c \in Calls : At(c, "call") /\ Policy(c) = p /\ p \in call[c].overlaps
<1>1. PICK c \in Calls : Answer(c)
  <2>1. ASSUME cooling' = cooling \/ call' = call
        PROVE  FALSE
    BY <2>1
  <2>2. ~UNCHANGED vars
    BY <2>1 DEF vars
  <2>3. QED
    BY NextIs, <2>1, <2>2 DEF Starts, Choose, ReadPolicy, ReadFeedback, Incr, Expire, Rollback,
       Reset, Fail, LoseRollback, TtlPasses, CooldownPasses, ChangePolicy
<1>2. call[c].pc = "call"
  BY <1>1, AnswerMove
<1>3. Policy(c) = p
  BY <1>1, AnswerMove DEF RoutingTypeOK
<1>4. call[c] \in Record /\ Sound(call[c]) /\ call[c].route # <<>>
  BY <1>2, CallIs
<1>5. ~call[c].done
  BY <1>2, <1>4 DEF Sound
<1>6. PICK i \in DOMAIN call[c].route : Head(call[c].route) = call[c].route[i]
  BY <1>4, HeadOnRoute
<1>7. Shielded(call[c], cooling)
  BY DEF CoolInv
<1>8. p \in call[c].overlaps
  BY <1>2, <1>3, <1>5, <1>6, <1>7 DEF Shielded
<1>9. QED
  BY <1>2, <1>3, <1>8

(* CooldownHolds: a cooldown ends in time, or by the answer of a call that   *)
(* read the feedback before it was set, or when Redis failed.                *)
THEOREM CooldownsHold == Spec => CooldownHolds
<1>1. Init => RoutingTypeOK /\ CoolInv
  <2>1. Init => CoolInv
    BY IdleIsShielded DEF Init, CoolInv
  <2>2. QED
    BY <2>1, TypesInit
<1>2. (RoutingTypeOK /\ CoolInv) /\ [Next]_vars => (RoutingTypeOK /\ CoolInv)'
  BY TypesStep, CoolStep
<1>3. RoutingTypeOK /\ CoolInv /\ [Next]_vars =>
        [\A p \in Policies : cooling[p] /\ ~cooling'[p] /\ call' # call =>
           \E c \in Calls : At(c, "call") /\ Policy(c) = p /\ p \in call[c].overlaps]_vars
  BY CooldownStep
<1>4. QED
  BY <1>1, <1>2, <1>3, PTL DEF Spec, CooldownHolds

-------------------------------------------------------------------------------
(* What a call has in a counter, as Holds says it of its record, and what    *)
(* of that has passed the comparison, or will.                               *)
Mine(x, p, k) == x.pc \notin Resting /\ Head(x.route).policy = p /\ Head(x.route).limit[k] > 0

Keeps(x, p, k) ==
  /\ Mine(x, p, k)
  /\ \/ x.pc \in {"incr", "reset"} /\ k < x.kind
     \/ x.pc \in {"expire", "rollback"} /\ k <= x.kind
     \/ x.pc = "call" /\ k = Slots

Passes(x, p, k) ==
  /\ Keeps(x, p, k) /\ x.pc \in {"incr", "expire", "call"}
  /\ x.pc = "expire" /\ k = x.kind => x.count <= Head(x.route).limit[k]

Holders(p, k) == {c \in Calls : Keeps(call[c], p, k)}
Passers(p, k) == {c \in Calls : Passes(call[c], p, k)}

InUse(p, k)  == Cardinality(Holders(p, k)) * Amount(k)
Passed(p, k) == Cardinality(Passers(p, k)) * Amount(k)

Allowed(p, k, n) == \E row \in Settings[p] : n <= row.limit[k]

(* The counter is what its calls have in it, and no more passes than a row of*)
(* the policy allows; a counter that is reset was blurred.                   *)
CounterInv(p, k) ==
  /\ counter[p][k] <= InUse(p, k) + admitted[p][k] + left[p][k]
  /\ k \notin blurred[p] =>
       /\ counter[p][k] = InUse(p, k) + admitted[p][k] + left[p][k]
       /\ Allowed(p, k, Passed(p, k) + admitted[p][k])
  /\ \A c \in Calls : Resets(c, p, k) => k \in blurred[p]

LimitInv == \A p \in Policies, k \in Kinds : CounterInv(p, k)

LEMMA KeepsIsHolds ==
  ASSUME RoutingTypeOK, NEW c \in Calls, NEW p, NEW k
  PROVE  Keeps(call[c], p, k) <=> Holds(c, p, k)
<1>1. call[c].pc \in Places
  BY DEF RoutingTypeOK, Record
<1>2. CASE call[c].pc \in Resting
  BY <1>2 DEF Keeps, Mine, Holds
<1>3. CASE call[c].pc = "incr"
  BY <1>3 DEF Keeps, Mine, Holds
<1>4. CASE call[c].pc = "reset"
  BY <1>4 DEF Keeps, Mine, Holds
<1>5. CASE call[c].pc = "call"
  BY <1>5 DEF Keeps, Mine, Holds
<1>6. CASE call[c].pc \in {"expire", "rollback"}
  BY <1>6 DEF Keeps, Mine, Holds
<1>7. QED
  BY <1>1, <1>2, <1>3, <1>4, <1>5, <1>6 DEF Places

LEMMA IdleKeeps == \A p, k : ~Keeps(Idle, p, k) /\ ~Passes(Idle, p, k)
  BY IdleIsSound DEF Keeps, Mine, Passes

LEMMA FreshKeeps ==
  ASSUME NEW x, Fresh(x), NEW p, NEW k \in Kinds
  PROVE  ~Keeps(x, p, k) /\ ~Passes(x, p, k)
<1>1. CASE x.pc = "call"
  <2>1. Head(x.route).limit[k] = 0
    BY <1>1 DEF Fresh
  <2>2. QED
    BY <2>1 DEF Keeps, Mine, Passes
<1>2. CASE x.pc = "incr"
  <2>1. k < x.kind => Head(x.route).limit[k] = 0
    BY <1>2 DEF Fresh
  <2>2. QED
    BY <1>2, <2>1 DEF Keeps, Mine, Passes
<1>3. QED
  BY <1>1, <1>2 DEF Fresh

(* After a rollback a call has what it reserved before.                      *)
LEMMA GaveBackKeeps ==
  ASSUME NEW x, Sound(x), x.pc \in {"rollback", "reset"}, NEW y, GaveBack(x, y), NEW p, NEW k \in Kinds
  PROVE  /\ Keeps(y, p, k) <=> Mine(x, p, k) /\ k < x.kind
         /\ ~Passes(y, p, k)
<1>0. x \in Record /\ x.route # <<>> /\ x.kind \in Kinds
  BY DEF Sound, AtCounter
<1>1. CASE Same(x, y) /\ y.pc = "rollback" /\ y.kind < x.kind
           /\ \A j \in Kinds : j < x.kind /\ j > y.kind => Head(x.route).limit[j] = 0
  <2>1. y.kind \in Kinds
    BY <1>1 DEF GaveBack, Sound, AtCounter
  <2>2. Head(y.route) = Head(x.route)
    BY <1>1 DEF Same
  <2>3. k <= y.kind \/ (k < x.kind /\ k > y.kind) \/ ~(k < x.kind)
    BY <1>0, <2>1 DEF Kinds
  <2>4. k <= y.kind => k < x.kind
    BY <1>0, <1>1, <2>1 DEF Kinds
  <2>5. Mine(y, p, k) <=> Mine(x, p, k)
    BY <1>1, <2>2 DEF Mine
  <2>6. Keeps(y, p, k) <=> Mine(x, p, k) /\ k <= y.kind
    BY <1>1, <2>5 DEF Keeps
  <2>7. k < x.kind /\ k > y.kind => ~Mine(x, p, k)
    BY <1>1 DEF Mine
  <2>8. QED
    BY <1>1, <2>3, <2>4, <2>6, <2>7 DEF Passes
<1>2. CASE /\ \A j \in Kinds : j < x.kind => Head(x.route).limit[j] = 0
           /\ y = Idle \/ Fresh(y)
  <2>1. ~(Mine(x, p, k) /\ k < x.kind)
    BY <1>2 DEF Mine
  <2>2. QED
    BY <1>2, <2>1, IdleKeeps, FreshKeeps
<1>3. QED
  BY <1>1, <1>2 DEF GaveBack

-------------------------------------------------------------------------------
(* Sums.                                                                     *)
LEMMA SetsFinite ==
  ASSUME NEW S \in SUBSET Calls
  PROVE  IsFiniteSet(S) /\ Cardinality(S) \in Nat
  BY ConstantsAssumption, FS_Subset, FS_CardinalityType

LEMMA ShareOfOne ==
  ASSUME NEW S \in SUBSET Calls, NEW c \in Calls, NEW a \in Nat
  PROVE  /\ Cardinality(S \ {c}) * a \in Nat
         /\ Cardinality(S) * a = Cardinality(S \ {c}) * a + (IF c \in S THEN a ELSE 0)
<1> DEFINE n == Cardinality(S \ {c})
<1>1. IsFiniteSet(S) /\ Cardinality(S) \in Nat /\ n \in Nat
  BY SetsFinite
<1>2. n = IF c \in S THEN Cardinality(S) - 1 ELSE Cardinality(S)
  BY <1>1, FS_RemoveElement
<1>3. n * a \in Nat /\ (n + 1) * a = n * a + a
  BY <1>1
<1>4. CASE c \in S
  <2>1. Cardinality(S) = n + 1
    BY <1>1, <1>2, <1>4
  <2> HIDE DEF n
  <2>2. QED
    BY <1>3, <1>4, <2>1 DEF n
<1>5. CASE c \notin S
  <2>1. Cardinality(S) = n
    BY <1>1, <1>2, <1>5
  <2> HIDE DEF n
  <2>2. QED
    BY <1>3, <1>5, <2>1 DEF n
<1>6. QED
  BY <1>4, <1>5

(* The share of one call that changes.                                       *)
LEMMA Share ==
  ASSUME NEW S \in SUBSET Calls, NEW T \in SUBSET Calls, NEW c \in Calls, S \ {c} = T \ {c}, NEW a \in Nat
  PROVE  /\ Cardinality(S) * a \in Nat /\ Cardinality(T) * a \in Nat
         /\ Cardinality(T) * a + (IF c \in S THEN a ELSE 0) = Cardinality(S) * a + (IF c \in T THEN a ELSE 0)
<1>1. Cardinality(S) * a = Cardinality(S \ {c}) * a + (IF c \in S THEN a ELSE 0)
  BY ShareOfOne
<1>2. Cardinality(T) * a = Cardinality(S \ {c}) * a + (IF c \in T THEN a ELSE 0)
  BY ShareOfOne
<1>3. Cardinality(S \ {c}) * a \in Nat
  BY ShareOfOne
<1> DEFINE n == Cardinality(S \ {c}) * a
<1> HIDE DEF n
<1>4. QED
  BY <1>1, <1>2, <1>3 DEF n

LEMMA FewerSum ==
  ASSUME NEW T \in SUBSET Calls, NEW S \in SUBSET T, NEW a \in Nat
  PROVE  Cardinality(S) * a <= Cardinality(T) * a
<1>1. IsFiniteSet(T) /\ Cardinality(S) \in Nat /\ Cardinality(T) \in Nat
  BY SetsFinite
<1>2. Cardinality(S) <= Cardinality(T)
  BY <1>1, FS_Subset
<1>3. QED
  BY <1>1, <1>2

LEMMA EmptySum ==
  ASSUME NEW a \in Nat
  PROVE  Cardinality({}) * a = 0
  BY FS_EmptySet

LEMMA SumsAre ==
  ASSUME NEW p, NEW k \in Kinds
  PROVE  /\ InUse(p, k) \in Nat /\ Passed(p, k) \in Nat /\ Passed(p, k) <= InUse(p, k)
         /\ \A c \in Holders(p, k) : InUse(p, k) >= Amount(k)
<1>1. /\ Holders(p, k) \in SUBSET Calls /\ Passers(p, k) \in SUBSET Holders(p, k) /\ Amount(k) \in Nat
      /\ Passers(p, k) \in SUBSET Calls
  BY Amounts DEF Holders, Passers, Passes
<1>2. Passed(p, k) <= InUse(p, k)
  BY <1>1, FewerSum DEF Passed, InUse
<1>3. InUse(p, k) \in Nat /\ Passed(p, k) \in Nat
  <2>1. Cardinality(Holders(p, k)) \in Nat /\ Cardinality(Passers(p, k)) \in Nat
    BY <1>1, SetsFinite
  <2>2. QED
    BY <1>1, <2>1 DEF InUse, Passed
<1>4. ASSUME NEW c \in Holders(p, k)
      PROVE  InUse(p, k) >= Amount(k)
  <2>1. c \in Calls /\ {c} \in SUBSET Holders(p, k)
    BY <1>1
  <2>2. Cardinality({c}) * Amount(k) <= InUse(p, k)
    BY <1>1, <2>1, FewerSum DEF InUse
  <2>3. Cardinality({c}) = 1
    BY FS_Singleton
  <2>4. QED
    BY <1>1, <1>3, <2>2, <2>3
<1>5. QED
  BY <1>2, <1>3, <1>4

(* What others keep while one call moves.                                    *)
OthersKeep(c) ==
  \A o \in Calls \ {c}, p \in Policies, k \in Kinds :
    /\ Keeps(call'[o], p, k) <=> Keeps(call[o], p, k)
    /\ Passes(call'[o], p, k) <=> Passes(call[o], p, k)
    /\ Resets(o, p, k)' => Resets(o, p, k)

LEMMA OthersKeepTheirs ==
  ASSUME NEW c \in Calls, OnlyCall(c)
  PROVE  OthersKeep(c)
  BY DEF OnlyCall, OthersKeep, Resets

LEMMA SumsMove ==
  ASSUME NEW c \in Calls, OthersKeep(c), NEW p \in Policies, NEW k \in Kinds
  PROVE  /\ InUse(p, k)' + (IF Keeps(call[c], p, k) THEN Amount(k) ELSE 0)
              = InUse(p, k) + (IF Keeps(call'[c], p, k) THEN Amount(k) ELSE 0)
         /\ Passed(p, k)' + (IF Passes(call[c], p, k) THEN Amount(k) ELSE 0)
              = Passed(p, k) + (IF Passes(call'[c], p, k) THEN Amount(k) ELSE 0)
<1>1. Holders(p, k)' = {o \in Calls : Keeps(call'[o], p, k)} /\ Passers(p, k)' = {o \in Calls : Passes(call'[o], p, k)}
  BY DEF Holders, Passers, Keeps, Passes, Mine
<1>2. Holders(p, k) \ {c} = Holders(p, k)' \ {c} /\ Passers(p, k) \ {c} = Passers(p, k)' \ {c}
  BY <1>1 DEF OthersKeep, Holders, Passers
<1>3. /\ Holders(p, k) \in SUBSET Calls /\ Holders(p, k)' \in SUBSET Calls
      /\ Passers(p, k) \in SUBSET Calls /\ Passers(p, k)' \in SUBSET Calls
  BY <1>1 DEF Holders, Passers
<1>4. Amount(k) \in Nat
  BY Amounts
<1>5. /\ c \in Holders(p, k) <=> Keeps(call[c], p, k)
      /\ c \in Holders(p, k)' <=> Keeps(call'[c], p, k)
      /\ c \in Passers(p, k) <=> Passes(call[c], p, k)
      /\ c \in Passers(p, k)' <=> Passes(call'[c], p, k)
  BY <1>1 DEF Holders, Passers
<1>6. InUse(p, k)' = Cardinality(Holders(p, k)') * Amount(k) /\ Passed(p, k)' = Cardinality(Passers(p, k)') * Amount(k)
  BY DEF InUse, Passed, Amount
<1>7. Cardinality(Holders(p, k)') * Amount(k) + (IF c \in Holders(p, k) THEN Amount(k) ELSE 0)
        = Cardinality(Holders(p, k)) * Amount(k) + (IF c \in Holders(p, k)' THEN Amount(k) ELSE 0)
  BY <1>2, <1>3, <1>4, Share
<1>8. Cardinality(Passers(p, k)') * Amount(k) + (IF c \in Passers(p, k) THEN Amount(k) ELSE 0)
        = Cardinality(Passers(p, k)) * Amount(k) + (IF c \in Passers(p, k)' THEN Amount(k) ELSE 0)
  BY <1>2, <1>3, <1>4, Share
<1>9. QED
  BY <1>5, <1>6, <1>7, <1>8 DEF InUse, Passed

(* The amount that counts while b holds.                                     *)
If(b, k) == IF b THEN Amount(k) ELSE 0

(* A counter moves by what its calls, the window and failures move.          *)
LEMMA Balanced ==
  ASSUME RoutingTypeOK, RoutingTypeOK', NEW c \in Calls, OthersKeep(c),
         NEW p \in Policies, NEW k \in Kinds, CounterInv(p, k), blurred' = blurred,
         counter'[p][k] + If(Keeps(call[c], p, k), k) + admitted[p][k] + left[p][k]
           = counter[p][k] + If(Keeps(call'[c], p, k), k) + admitted'[p][k] + left'[p][k],
         \/ If(Passes(call'[c], p, k), k) + admitted'[p][k] <= If(Passes(call[c], p, k), k) + admitted[p][k]
         \/ Allowed(p, k, counter'[p][k]),
         Resets(c, p, k)' => k \in blurred[p]
  PROVE  CounterInv(p, k)'
<1> DEFINE use == InUse(p, k)       use2 == InUse(p, k)'
           pass == Passed(p, k)     pass2 == Passed(p, k)'
           h == If(Keeps(call[c], p, k), k)      h2 == If(Keeps(call'[c], p, k), k)
           v == If(Passes(call[c], p, k), k)     v2 == If(Passes(call'[c], p, k), k)
<1>1. /\ counter[p][k] \in Int /\ counter'[p][k] \in Int /\ admitted[p][k] \in Nat /\ admitted'[p][k] \in Nat
      /\ left[p][k] \in Nat /\ left'[p][k] \in Nat
  BY DEF RoutingTypeOK
<1>2. use \in Nat /\ pass \in Nat /\ pass <= use
  BY SumsAre
<1>3. use2 \in Nat /\ pass2 \in Nat /\ pass2 <= use2
  <2>1. /\ Holders(p, k)' \in SUBSET Calls /\ Passers(p, k)' \in SUBSET Holders(p, k)' /\ Amount(k) \in Nat
    BY Amounts DEF Holders, Passers, Passes
  <2>2. Cardinality(Passers(p, k)') * Amount(k) <= Cardinality(Holders(p, k)') * Amount(k)
    BY <2>1, FewerSum
  <2>3. Cardinality(Holders(p, k)') \in Nat /\ Cardinality(Passers(p, k)') \in Nat
    BY <2>1, SetsFinite
  <2>4. use2 = Cardinality(Holders(p, k)') * Amount(k) /\ pass2 = Cardinality(Passers(p, k)') * Amount(k)
    BY DEF InUse, Passed, Amount
  <2>5. QED
    BY <2>1, <2>2, <2>3, <2>4
<1>4. use2 + h = use + h2 /\ pass2 + v = pass + v2
  BY SumsMove DEF If
<1>5. h \in Nat /\ h2 \in Nat /\ v \in Nat /\ v2 \in Nat
  BY Amounts DEF If
<1>6. /\ counter[p][k] <= use + admitted[p][k] + left[p][k]
      /\ k \notin blurred[p] => /\ counter[p][k] = use + admitted[p][k] + left[p][k]
                               /\ Allowed(p, k, pass + admitted[p][k])
  BY DEF CounterInv
<1> HIDE DEF use, use2, pass, pass2, h, h2, v, v2
<1>7. counter'[p][k] + h + admitted[p][k] + left[p][k] = counter[p][k] + h2 + admitted'[p][k] + left'[p][k]
  BY DEF h, h2
<1>8. counter'[p][k] <= use2 + admitted'[p][k] + left'[p][k]
  BY <1>1, <1>2, <1>3, <1>4, <1>5, <1>6, <1>7
<1>9. ASSUME k \notin blurred[p]
      PROVE  /\ counter'[p][k] = use2 + admitted'[p][k] + left'[p][k]
             /\ Allowed(p, k, pass2 + admitted'[p][k])
  <2>1. counter'[p][k] = use2 + admitted'[p][k] + left'[p][k]
    BY <1>1, <1>2, <1>3, <1>4, <1>5, <1>6, <1>7, <1>9
  <2>2. \A row \in Settings[p] : row.limit[k] \in Nat
    BY ConstantsAssumption DEF Rows
  <2>3. CASE v2 + admitted'[p][k] <= v + admitted[p][k]
    <3>1. pass2 + admitted'[p][k] <= pass + admitted[p][k]
      BY <1>1, <1>2, <1>3, <1>4, <1>5, <2>3
    <3>2. PICK row \in Settings[p] : pass + admitted[p][k] <= row.limit[k]
      BY <1>6, <1>9 DEF Allowed
    <3>3. pass2 + admitted'[p][k] <= row.limit[k]
      BY <1>1, <1>2, <1>3, <2>2, <3>1, <3>2
    <3>4. QED
      BY <2>1, <3>3 DEF Allowed
  <2>4. CASE Allowed(p, k, counter'[p][k])
    <3>1. PICK row \in Settings[p] : counter'[p][k] <= row.limit[k]
      BY <2>4 DEF Allowed
    <3>2. pass2 + admitted'[p][k] <= row.limit[k]
      BY <1>1, <1>3, <2>1, <2>2, <3>1
    <3>3. QED
      BY <2>1, <3>2 DEF Allowed
  <2>5. QED
    BY <2>3, <2>4 DEF v, v2
<1>10. \A o \in Calls : Resets(o, p, k)' => k \in blurred[p]
  BY DEF CounterInv, OthersKeep
<1>11. CounterInv(p, k)' <=>
         /\ counter'[p][k] <= use2 + admitted'[p][k] + left'[p][k]
         /\ k \notin blurred'[p] =>
              /\ counter'[p][k] = use2 + admitted'[p][k] + left'[p][k]
              /\ Allowed(p, k, pass2 + admitted'[p][k])
         /\ \A o \in Calls : Resets(o, p, k)' => k \in blurred'[p]
  BY DEF CounterInv, Allowed, use2, pass2
<1>12. QED
  BY <1>8, <1>9, <1>10, <1>11

(* The shares of a call that is judged: what passes the last comparison is   *)
(* admitted, a slot is kept.                                                 *)
LEMMA JudgedShares ==
  ASSUME RoutingTypeOK, NEW c \in Calls, call[c].pc \in {"incr", "expire"}, NEW n, NEW y, Judged(c, n, y),
         NEW p \in Policies, NEW k \in Kinds
  PROVE  LET has == If(Mine(call[c], p, k) /\ k <= call[c].kind, k)
         IN  /\ If(Keeps(y, p, k), k) + admitted'[p][k] = admitted[p][k] + has
             /\ \/ ~Passes(y, p, k) /\ admitted'[p][k] = admitted[p][k]
                \/ /\ n <= Limit(c)[call[c].kind]
                   /\ If(Passes(y, p, k), k) + admitted'[p][k] = admitted[p][k] + has
<1> DEFINE x == call[c]
           j == x.kind
           mine == Mine(x, p, k)
<1>1. /\ x \in Record /\ Policy(c) \in Policies /\ Limit(c) \in [Kinds -> Nat] /\ j \in Kinds
  BY CallIs DEF AtCounter
<1>2. Same(x, y)
  BY DEF Judged
<1>3. y.pc \notin Resting => (Mine(y, p, k) <=> mine)
  BY <1>2 DEF Same, Mine
<1>4. admitted[p][k] \in Nat /\ Amount(k) \in Nat
  BY Amounts DEF RoutingTypeOK
<1>5. CASE y.pc = "rollback" /\ y.kind = j
  <2>1. Keeps(y, p, k) <=> mine /\ k <= j
    BY <1>3, <1>5 DEF Keeps
  <2>2. ~Passes(y, p, k) /\ admitted' = admitted
    BY <1>5 DEF Passes, Judged
  <2>3. QED
    BY <1>4, <2>1, <2>2 DEF If
<1>6. CASE n <= Limit(c)[j] /\ y.pc = "incr"
  <2>1. y.kind > j /\ \A i \in Kinds : i > j /\ i < y.kind => Limit(c)[i] = 0
    BY <1>6 DEF Judged
  <2>2. y.kind \in Kinds
    BY <1>6 DEF Judged, Sound, AtCounter
  <2>3. mine => ~(k > j /\ k < y.kind)
    BY <1>1, <2>1 DEF Mine
  <2>4. mine => (k < y.kind <=> k <= j)
    BY <1>1, <2>1, <2>2, <2>3 DEF Kinds
  <2>5. Keeps(y, p, k) <=> mine /\ k <= j
    BY <1>3, <1>6, <2>4 DEF Keeps
  <2>6. Passes(y, p, k) <=> Keeps(y, p, k)
    BY <1>6 DEF Passes
  <2>7. admitted' = admitted
    BY <1>6 DEF Judged
  <2>8. QED
    BY <1>4, <1>6, <2>5, <2>6, <2>7 DEF If
<1>7. CASE n <= Limit(c)[j] /\ y.pc = "call"
  <2>1. \A i \in Kinds : i > j => Limit(c)[i] = 0
    BY <1>7 DEF Judged
  <2>2. mine => k <= j
    <3>1. mine => ~(k > j)
      BY <1>1, <2>1 DEF Mine
    <3>2. QED
      BY <1>1, <3>1 DEF Kinds
  <2>3. Keeps(y, p, k) <=> mine /\ k = Slots
    BY <1>3, <1>7 DEF Keeps
  <2>4. Passes(y, p, k) <=> Keeps(y, p, k)
    BY <1>7 DEF Passes
  <2>5. admitted' = [admitted EXCEPT ![Policy(c)] = [i \in Kinds |->
                       @[i] + IF i # Slots /\ Limit(c)[i] > 0 THEN Amount(i) ELSE 0]]
    BY <1>7 DEF Judged
  <2>6. admitted'[p][k] = admitted[p][k] + If(mine /\ k # Slots, k)
    <3>1. CASE p = Policy(c)
      <4>1. admitted'[p][k] = admitted[p][k] + IF k # Slots /\ Limit(c)[k] > 0 THEN Amount(k) ELSE 0
        BY <1>1, <2>5, <3>1 DEF RoutingTypeOK
      <4>2. mine <=> Limit(c)[k] > 0
        BY <3>1 DEF Mine
      <4>3. QED
        BY <4>1, <4>2 DEF If
    <3>2. CASE p # Policy(c)
      <4>1. admitted'[p][k] = admitted[p][k] /\ ~mine
        BY <1>1, <2>5, <3>2 DEF RoutingTypeOK, Mine
      <4>2. QED
        BY <1>4, <4>1 DEF If
    <3>3. QED
      BY <3>1, <3>2
  <2>7. QED
    BY <1>4, <1>7, <2>2, <2>3, <2>4, <2>6 DEF If
<1>8. QED
  BY <1>5, <1>6, <1>7 DEF Judged

LEMMA LimitInit ==
  ASSUME Init
  PROVE  LimitInv
<1> SUFFICES ASSUME NEW p \in Policies, NEW k \in Kinds
             PROVE  CounterInv(p, k)
  BY DEF LimitInv
<1>1. RoutingTypeOK
  BY TypesInit
<1>2. \A c \in Calls : call[c] = Idle
  BY DEF Init
<1>3. Holders(p, k) = {} /\ Passers(p, k) = {}
  BY <1>2, IdleKeeps DEF Holders, Passers
<1>4. InUse(p, k) = 0 /\ Passed(p, k) = 0
  BY <1>3, EmptySum, Amounts DEF InUse, Passed
<1>5. counter[p][k] = 0 /\ admitted[p][k] = 0 /\ left[p][k] = 0
  BY DEF Init, Zero, Unlimited
<1>6. Allowed(p, k, 0)
  <2>1. policy[p] \in Settings[p] /\ policy[p].limit[k] \in Nat
    BY <1>1 DEF RoutingTypeOK, Rows
  <2>2. 0 <= policy[p].limit[k]
    BY <2>1
  <2>3. QED
    BY <2>1, <2>2 DEF Allowed
<1>7. \A c \in Calls : ~Resets(c, p, k)
  BY <1>2, IdleIsSound DEF Resets
<1>8. QED
  BY <1>4, <1>5, <1>6, <1>7 DEF CounterInv

(* The limits of a candidate are those of a row.                             *)
LEMMA LimitIsAllowed ==
  ASSUME RoutingTypeOK, NEW c \in Calls, call[c].pc \notin Resting, NEW k, NEW n, n <= Limit(c)[k]
  PROVE  Allowed(Policy(c), k, n)
  BY CallIs DEF Allowed

(* A call at rest, or at a fresh candidate, has nothing.                     *)
LEMMA StartLimits ==
  ASSUME RoutingTypeOK, RoutingTypeOK', LimitInv, NEW c \in Calls, Starts(c)
  PROVE  LimitInv'
<1>1. PICK y : Given(c, y) /\ (y.pc \in Resting \/ Fresh(y))
  BY StartMove
<1>2. call[c].pc \in Resting /\ call'[c] = y /\ OnlyCall(c)
  BY <1>1, StartMove, GivenIs
<1>3. OthersKeep(c)
  BY <1>2, OthersKeepTheirs
<1>4. counter' = counter /\ admitted' = admitted /\ left' = left /\ blurred' = blurred
  BY StartFrame
<1>5. ASSUME NEW p \in Policies, NEW k \in Kinds
      PROVE  CounterInv(p, k)'
  <2>1. ~Keeps(call[c], p, k) /\ ~Passes(call[c], p, k)
    BY <1>2 DEF Keeps, Passes, Mine
  <2>2. ~Keeps(call'[c], p, k) /\ ~Passes(call'[c], p, k)
    BY <1>1, <1>2, FreshKeeps DEF Keeps, Passes, Mine
  <2>3. ~Resets(c, p, k)'
    BY <1>1, <1>2 DEF Fresh, Resets
  <2>4. CounterInv(p, k)
    BY DEF LimitInv
  <2>5. If(FALSE, k) + admitted'[p][k] <= If(FALSE, k) + admitted[p][k]
    BY <1>4 DEF RoutingTypeOK, If
  <2>6. /\ If(Keeps(call[c], p, k), k) = If(Keeps(call'[c], p, k), k)
        /\ If(Passes(call'[c], p, k), k) + admitted'[p][k] <= If(Passes(call[c], p, k), k) + admitted[p][k]
    BY <2>1, <2>2, <2>5 DEF If
  <2>7. QED
    BY <1>3, <1>4, <2>3, <2>4, <2>6, Balanced
<1>6. QED
  BY <1>5 DEF LimitInv

LEMMA IncrLimits ==
  ASSUME RoutingTypeOK, RoutingTypeOK', LimitInv, NEW c \in Calls, Incr(c)
  PROVE  LimitInv'
<1> DEFINE x == call[c]
           j == x.kind
           n == counter[Policy(c)][j] + Amount(j)
<1>1. /\ x.pc = "incr" /\ Policy(c) \in Policies /\ j \in Kinds /\ counter' = [counter EXCEPT ![Policy(c)][j] = n]
      /\ Limit(c) \in [Kinds -> Nat] /\ Limit(c)[j] > 0 /\ x.route # <<>>
  BY IncrMove, CallIs DEF AtCounter
<1>2. PICK y : \/ /\ Given(c, y) /\ Same(x, y)
                  /\ y.pc = "expire" /\ y.kind = j /\ y.count = n /\ admitted' = admitted
               \/ Judged(c, n, y)
  BY IncrMove
<1>3. call'[c] = y /\ OnlyCall(c) /\ OthersKeep(c)
  BY <1>2, GivenIs, OthersKeepTheirs DEF Judged
<1>4. left' = left /\ blurred' = blurred
  BY DEF Incr
<1>5. ASSUME NEW p \in Policies, NEW k \in Kinds
      PROVE  CounterInv(p, k)'
  <2> DEFINE mine == Mine(x, p, k)
             here == p = Policy(c) /\ k = j
  <2>1. Amount(k) \in Nat /\ counter[p][k] \in Int /\ admitted[p][k] \in Nat /\ left[p][k] \in Nat
    BY Amounts DEF RoutingTypeOK
  <2>2. counter'[p][k] = counter[p][k] + If(here, k)
    <3>1. CASE here
      BY <1>1, <3>1 DEF RoutingTypeOK, If
    <3>2. CASE ~here
      BY <1>1, <2>1, <3>2 DEF RoutingTypeOK, If
    <3>3. QED
      BY <3>1, <3>2
  <2>3. here => mine
    BY <1>1 DEF Mine
  <2>4. Keeps(x, p, k) <=> mine /\ k < j
    BY <1>1 DEF Keeps
  <2>5. Passes(x, p, k) <=> mine /\ k < j
    BY <1>1, <2>4 DEF Passes
  <2>6. mine /\ k <= j <=> (mine /\ k < j) \/ here
    BY <1>1, <2>3 DEF Mine, Kinds
  <2>7. here => ~(k < j)
    BY <1>1 DEF Kinds
  <2>8. If(mine /\ k <= j, k) = If(mine /\ k < j, k) + If(here, k)
    BY <2>1, <2>6, <2>7 DEF If
  <2>9. here /\ n <= Limit(c)[j] => Allowed(p, k, counter'[p][k])
    <3>1. here => counter'[p][k] = n
      BY <1>1 DEF RoutingTypeOK
    <3>2. QED
      BY <1>1, <3>1, LimitIsAllowed
  <2>10. CounterInv(p, k)
    BY DEF LimitInv
  <2>11. ~Resets(c, p, k)'
    BY <1>2, <1>3 DEF Resets, Judged
  <2>12. CASE Given(c, y) /\ Same(x, y) /\ y.pc = "expire" /\ y.kind = j /\ y.count = n /\ admitted' = admitted
    <3>1. Keeps(y, p, k) <=> mine /\ k <= j
      BY <1>1, <2>12 DEF Keeps, Mine, Same
    <3>2. Passes(y, p, k) => mine /\ k <= j /\ (k = j => n <= Limit(c)[j])
      BY <2>12, <3>1 DEF Passes, Same
    <3>3. If(Keeps(y, p, k), k) = If(Keeps(x, p, k), k) + If(here, k)
      BY <2>4, <2>8, <3>1 DEF If
    <3>4. Passes(y, p, k) => Passes(x, p, k) \/ (here /\ n <= Limit(c)[j])
      BY <2>5, <2>6, <3>2
    <3>5. \/ If(Passes(y, p, k), k) + admitted'[p][k] <= If(Passes(x, p, k), k) + admitted[p][k]
          \/ Allowed(p, k, counter'[p][k])
      BY <2>1, <2>9, <2>12, <3>4 DEF If
    <3>6. If(Keeps(x, p, k), k) \in Nat /\ If(here, k) \in Nat
      BY <2>1 DEF If
    <3> HIDE DEF here, mine, x, n, j
    <3>7. counter'[p][k] + If(Keeps(x, p, k), k) + admitted[p][k] + left[p][k]
            = counter[p][k] + If(Keeps(y, p, k), k) + admitted'[p][k] + left'[p][k]
      BY <1>4, <2>1, <2>2, <2>12, <3>3, <3>6
    <3>8. QED
      BY <1>3, <1>4, <2>10, <2>11, <3>5, <3>7, Balanced DEF x
  <2>13. CASE Judged(c, n, y)
    <3>1. /\ If(Keeps(y, p, k), k) + admitted'[p][k] = admitted[p][k] + If(mine /\ k <= j, k)
          /\ \/ ~Passes(y, p, k) /\ admitted'[p][k] = admitted[p][k]
             \/ /\ n <= Limit(c)[j]
                /\ If(Passes(y, p, k), k) + admitted'[p][k] = admitted[p][k] + If(mine /\ k <= j, k)
      BY <1>1, <2>13, JudgedShares
    <3>2. If(Keeps(x, p, k), k) = If(mine /\ k < j, k) /\ If(Passes(x, p, k), k) = If(mine /\ k < j, k)
      BY <2>4, <2>5 DEF If
    <3>3. /\ If(mine /\ k < j, k) \in Nat /\ If(here, k) \in Nat /\ If(Keeps(y, p, k), k) \in Nat
          /\ If(Passes(y, p, k), k) \in Nat /\ admitted'[p][k] \in Nat
      BY <2>1 DEF If, RoutingTypeOK
    <3>4. \/ If(Passes(y, p, k), k) + admitted'[p][k] <= If(Passes(x, p, k), k) + admitted[p][k]
          \/ Allowed(p, k, counter'[p][k])
      <4>1. CASE ~Passes(y, p, k) /\ admitted'[p][k] = admitted[p][k]
        <5>1. If(Passes(y, p, k), k) = 0
          BY <4>1 DEF If
        <5>2. If(Passes(x, p, k), k) \in Nat
          BY <2>1 DEF If
        <5>3. QED
          BY <2>1, <4>1, <5>1, <5>2
      <4>2. CASE /\ n <= Limit(c)[j]
                 /\ If(Passes(y, p, k), k) + admitted'[p][k] = admitted[p][k] + If(mine /\ k <= j, k)
        <5>1. CASE here
          BY <2>9, <4>2, <5>1
        <5>2. CASE ~here
          <6>1. If(here, k) = 0
            BY <5>2 DEF If
          <6> HIDE DEF here, mine, x, n, j
          <6>2. QED
            BY <2>1, <2>8, <3>2, <3>3, <4>2, <6>1
        <5>3. QED
          BY <5>1, <5>2
      <4>3. QED
        BY <3>1, <4>1, <4>2
    <3> HIDE DEF here, mine, x, n, j
    <3>5. counter'[p][k] + If(Keeps(x, p, k), k) + admitted[p][k] + left[p][k]
            = counter[p][k] + If(Keeps(y, p, k), k) + admitted'[p][k] + left'[p][k]
      BY <1>4, <2>1, <2>2, <2>8, <3>1, <3>2, <3>3
    <3>6. QED
      BY <1>3, <1>4, <2>10, <2>11, <3>4, <3>5, Balanced DEF x
  <2>14. QED
    BY <1>2, <2>12, <2>13
<1>6. QED
  BY <1>5 DEF LimitInv

LEMMA ExpireLimits ==
  ASSUME RoutingTypeOK, RoutingTypeOK', LimitInv, NEW c \in Calls, Expire(c)
  PROVE  LimitInv'
<1> DEFINE x == call[c]
           j == x.kind
<1>1. x.pc = "expire" /\ j \in Kinds
  BY ExpireMove, CallIs DEF AtCounter
<1>2. PICK y : Judged(c, x.count, y)
  BY ExpireMove
<1>3. call'[c] = y /\ OnlyCall(c) /\ OthersKeep(c)
  BY <1>2, GivenIs, OthersKeepTheirs DEF Judged
<1>4. counter' = counter /\ left' = left /\ blurred' = blurred
  BY DEF Expire
<1>5. ASSUME NEW p \in Policies, NEW k \in Kinds
      PROVE  CounterInv(p, k)'
  <2> DEFINE mine == Mine(x, p, k)
  <2>1. /\ Amount(k) \in Nat /\ counter[p][k] \in Int /\ admitted[p][k] \in Nat /\ left[p][k] \in Nat
        /\ admitted'[p][k] \in Nat
    BY Amounts DEF RoutingTypeOK
  <2>2. Keeps(x, p, k) <=> mine /\ k <= j
    BY <1>1 DEF Keeps
  <2>3. Passes(x, p, k) <=> mine /\ k <= j /\ (k = j => x.count <= Limit(c)[j])
    BY <1>1, <2>2 DEF Passes
  <2>4. /\ If(Keeps(y, p, k), k) + admitted'[p][k] = admitted[p][k] + If(mine /\ k <= j, k)
        /\ \/ ~Passes(y, p, k) /\ admitted'[p][k] = admitted[p][k]
           \/ /\ x.count <= Limit(c)[j]
              /\ If(Passes(y, p, k), k) + admitted'[p][k] = admitted[p][k] + If(mine /\ k <= j, k)
    BY <1>1, <1>2, JudgedShares
  <2>5. CounterInv(p, k)
    BY DEF LimitInv
  <2>6. ~Resets(c, p, k)'
    BY <1>2, <1>3 DEF Resets, Judged
  <2>7. If(Keeps(x, p, k), k) = If(mine /\ k <= j, k)
    BY <2>2 DEF If
  <2>8. If(Passes(x, p, k), k) \in Nat /\ If(Passes(y, p, k), k) \in Nat /\ If(Keeps(x, p, k), k) \in Nat /\ If(Keeps(y, p, k), k) \in Nat
    BY <2>1 DEF If
  <2>9. If(Passes(y, p, k), k) + admitted'[p][k] <= If(Passes(x, p, k), k) + admitted[p][k]
    <3>1. CASE ~Passes(y, p, k) /\ admitted'[p][k] = admitted[p][k]
      <4>1. If(Passes(y, p, k), k) = 0
        BY <3>1 DEF If
      <4>2. QED
        BY <2>1, <2>8, <3>1, <4>1
    <3>2. CASE /\ x.count <= Limit(c)[j]
               /\ If(Passes(y, p, k), k) + admitted'[p][k] = admitted[p][k] + If(mine /\ k <= j, k)
      <4>1. If(Passes(x, p, k), k) = If(mine /\ k <= j, k)
        BY <2>3, <3>2 DEF If
      <4> HIDE DEF mine, x, j
      <4>2. QED
        BY <2>1, <2>8, <3>2, <4>1
    <3>3. QED
      BY <2>4, <3>1, <3>2
  <2> HIDE DEF mine, x, j
  <2>10. counter'[p][k] + If(Keeps(x, p, k), k) + admitted[p][k] + left[p][k]
           = counter[p][k] + If(Keeps(y, p, k), k) + admitted'[p][k] + left'[p][k]
    BY <1>4, <2>1, <2>4, <2>7, <2>8
  <2>11. QED
    BY <1>3, <1>4, <2>5, <2>6, <2>9, <2>10, Balanced DEF x
<1>6. QED
  BY <1>5 DEF LimitInv

LEMMA GaveBackPlace ==
  ASSUME NEW x, NEW y, GaveBack(x, y)
  PROVE  y.pc # "reset"
  BY IdleIsSound DEF GaveBack, Fresh

LEMMA RollbackLimits ==
  ASSUME RoutingTypeOK, RoutingTypeOK', LimitInv, NEW c \in Calls, Rollback(c)
  PROVE  LimitInv'
<1> DEFINE x == call[c]
           j == x.kind
           n == counter[Policy(c)][j] - Amount(j)
<1>1. /\ x.pc = "rollback" /\ Policy(c) \in Policies /\ j \in Kinds /\ counter' = [counter EXCEPT ![Policy(c)][j] = n]
      /\ Limit(c)[j] > 0 /\ Sound(x)
  BY RollbackMove, CallIs DEF AtCounter
<1>2. PICK y : /\ Given(c, y)
               /\ \/ n < 0 /\ y.pc = "reset" /\ y.kind = j /\ Same(x, y)
                  \/ ~(n < 0) /\ GaveBack(x, y)
  BY RollbackMove
<1>3. call'[c] = y /\ OnlyCall(c) /\ OthersKeep(c)
  BY <1>2, GivenIs, OthersKeepTheirs
<1>4. left' = left /\ blurred' = blurred /\ admitted' = admitted
  BY DEF Rollback
<1>5. ASSUME NEW p \in Policies, NEW k \in Kinds
      PROVE  CounterInv(p, k)'
  <2> DEFINE mine == Mine(x, p, k)
             here == p = Policy(c) /\ k = j
  <2>1. Amount(k) \in Nat /\ counter[p][k] \in Int /\ admitted[p][k] \in Nat /\ left[p][k] \in Nat
    BY Amounts DEF RoutingTypeOK
  <2>2. counter'[p][k] = counter[p][k] - If(here, k)
    <3>1. CASE here
      BY <1>1, <3>1 DEF RoutingTypeOK, If
    <3>2. CASE ~here
      BY <1>1, <2>1, <3>2 DEF RoutingTypeOK, If
    <3>3. QED
      BY <3>1, <3>2
  <2>3. Keeps(x, p, k) <=> mine /\ k <= j
    BY <1>1 DEF Keeps
  <2>4. Keeps(y, p, k) <=> mine /\ k < j
    <3>1. CASE n < 0 /\ y.pc = "reset" /\ y.kind = j /\ Same(x, y)
      BY <1>1, <3>1 DEF Keeps, Mine, Same
    <3>2. CASE GaveBack(x, y)
      BY <1>1, <3>2, GaveBackKeeps
    <3>3. QED
      BY <1>2, <3>1, <3>2
  <2>5. ~Passes(x, p, k) /\ ~Passes(y, p, k)
    <3>1. CASE n < 0 /\ y.pc = "reset" /\ y.kind = j /\ Same(x, y)
      BY <1>1, <3>1 DEF Passes
    <3>2. CASE GaveBack(x, y)
      BY <1>1, <3>2, GaveBackKeeps DEF Passes
    <3>3. QED
      BY <1>2, <3>1, <3>2
  <2>6. mine /\ k <= j <=> (mine /\ k < j) \/ here
    BY <1>1 DEF Mine, Kinds
  <2>7. here => ~(k < j)
    BY <1>1 DEF Kinds
  <2>8. If(Keeps(x, p, k), k) = If(Keeps(y, p, k), k) + If(here, k)
    BY <2>1, <2>3, <2>4, <2>6, <2>7 DEF If
  <2>9. CounterInv(p, k)
    BY DEF LimitInv
  <2>10. Resets(c, p, k)' => k \in blurred[p]
    <3>1. SUFFICES ASSUME Resets(c, p, k)', k \notin blurred[p]
                   PROVE  FALSE
      OBVIOUS
    <3>2. n < 0 /\ y.kind = j /\ Same(x, y)
      BY <1>2, <1>3, <3>1, GaveBackPlace DEF Resets
    <3>3. here
      BY <1>3, <3>1, <3>2 DEF Resets, Same
    <3>4. c \in Holders(p, k)
      BY <2>3, <2>6, <3>3 DEF Holders
    <3>5. counter[p][k] = InUse(p, k) + admitted[p][k] + left[p][k]
      BY <2>9, <3>1 DEF CounterInv
    <3>6. InUse(p, k) \in Nat /\ InUse(p, k) >= Amount(k)
      BY <3>4, SumsAre
    <3>7. counter[p][k] - Amount(k) < 0
      BY <3>2, <3>3
    <3>8. QED
      BY <2>1, <3>5, <3>6, <3>7
  <2>11. /\ If(Keeps(x, p, k), k) \in Nat /\ If(Keeps(y, p, k), k) \in Nat /\ If(here, k) \in Nat
    BY <2>1 DEF If
  <2>12. If(Passes(y, p, k), k) + admitted'[p][k] <= If(Passes(x, p, k), k) + admitted[p][k]
    BY <1>4, <2>1, <2>5 DEF If
  <2> HIDE DEF here, mine, x, n, j
  <2>13. counter'[p][k] + If(Keeps(x, p, k), k) + admitted[p][k] + left[p][k]
           = counter[p][k] + If(Keeps(y, p, k), k) + admitted'[p][k] + left'[p][k]
    BY <1>4, <2>1, <2>2, <2>8, <2>11
  <2>14. QED
    BY <1>3, <1>4, <2>9, <2>10, <2>12, <2>13, Balanced DEF x
<1>6. QED
  BY <1>5 DEF LimitInv

(* A reset is of a blurred counter: there is less in it than calls have.     *)
LEMMA ResetLimits ==
  ASSUME RoutingTypeOK, RoutingTypeOK', LimitInv, NEW c \in Calls, Reset(c)
  PROVE  LimitInv'
<1> DEFINE x == call[c]
           j == x.kind
<1>1. /\ x.pc = "reset" /\ Policy(c) \in Policies /\ j \in Kinds /\ counter' = [counter EXCEPT ![Policy(c)][j] = 0]
      /\ Sound(x)
  BY CallIs DEF AtCounter, Reset
<1>2. PICK y : Given(c, y) /\ GaveBack(x, y)
  BY GiveBackMove
<1>3. call'[c] = y /\ OnlyCall(c) /\ OthersKeep(c)
  BY <1>2, GivenIs, OthersKeepTheirs
<1>4. left' = left /\ blurred' = blurred /\ admitted' = admitted
  BY DEF Reset
<1>5. ASSUME NEW p \in Policies, NEW k \in Kinds
      PROVE  CounterInv(p, k)'
  <2> DEFINE mine == Mine(x, p, k)
  <2>1. Amount(k) \in Nat /\ counter[p][k] \in Int /\ admitted[p][k] \in Nat /\ left[p][k] \in Nat
    BY Amounts DEF RoutingTypeOK
  <2>2. Keeps(x, p, k) <=> mine /\ k < j
    BY <1>1 DEF Keeps
  <2>3. (Keeps(y, p, k) <=> mine /\ k < j) /\ ~Passes(x, p, k) /\ ~Passes(y, p, k)
    BY <1>1, <1>2, GaveBackKeeps DEF Passes
  <2>4. CounterInv(p, k)
    BY DEF LimitInv
  <2>5. ~Resets(c, p, k)'
    BY <1>2, <1>3, GaveBackPlace DEF Resets
  <2>6. CASE p = Policy(c) /\ k = j
    <3>1. k \in blurred[p]
      BY <1>1, <2>4, <2>6 DEF CounterInv, Resets
    <3>2. InUse(p, k)' \in Nat
      <4>1. InUse(p, k) \in Nat
        BY SumsAre
      <4>2. InUse(p, k)' + If(Keeps(x, p, k), k) = InUse(p, k) + If(Keeps(y, p, k), k)
        BY <1>3, SumsMove DEF If
      <4>3. If(Keeps(x, p, k), k) = If(Keeps(y, p, k), k) /\ If(Keeps(y, p, k), k) \in Nat
        BY <2>1, <2>2, <2>3 DEF If
      <4>4. InUse(p, k)' \in Nat
        <5>1. Holders(p, k)' \in SUBSET Calls
          BY DEF Holders
        <5>2. Cardinality(Holders(p, k)') \in Nat
          BY <5>1, SetsFinite
        <5>3. InUse(p, k)' = Cardinality(Holders(p, k)') * Amount(k)
          BY DEF InUse, Amount
        <5>4. QED
          BY <2>1, <5>2, <5>3
      <4>5. QED
        BY <4>4
    <3>3. counter'[p][k] = 0
      BY <1>1, <2>6 DEF RoutingTypeOK
    <3>4. counter'[p][k] <= InUse(p, k)' + admitted'[p][k] + left'[p][k]
      BY <1>4, <2>1, <3>2, <3>3
    <3>5. \A o \in Calls : Resets(o, p, k)' => k \in blurred'[p]
      BY <1>4, <3>1
    <3>6. QED
      BY <1>4, <3>1, <3>4, <3>5 DEF CounterInv
  <2>7. CASE ~(p = Policy(c) /\ k = j)
    <3>1. counter'[p][k] = counter[p][k]
      BY <1>1, <2>7 DEF RoutingTypeOK
    <3>2. If(Keeps(x, p, k), k) = If(Keeps(y, p, k), k)
      BY <2>2, <2>3 DEF If
    <3>3. If(Passes(y, p, k), k) + admitted'[p][k] <= If(Passes(x, p, k), k) + admitted[p][k]
      BY <1>4, <2>1, <2>3 DEF If
    <3>4. QED
      BY <1>3, <1>4, <2>4, <2>5, <3>1, <3>2, <3>3, Balanced
  <2>8. QED
    BY <2>6, <2>7
<1>6. QED
  BY <1>5 DEF LimitInv

LEMMA LoseLimits ==
  ASSUME RoutingTypeOK, RoutingTypeOK', LimitInv, NEW c \in Calls, LoseRollback(c)
  PROVE  LimitInv'
<1> DEFINE x == call[c]
           j == x.kind
<1>1. /\ x.pc = "rollback" /\ Policy(c) \in Policies /\ j \in Kinds /\ Limit(c)[j] > 0 /\ Sound(x)
      /\ left' = [left EXCEPT ![Policy(c)][j] = @ + Amount(j)]
  BY CallIs DEF AtCounter, LoseRollback
<1>2. PICK y : Given(c, y) /\ GaveBack(x, y)
  BY GiveBackMove
<1>3. call'[c] = y /\ OnlyCall(c) /\ OthersKeep(c)
  BY <1>2, GivenIs, OthersKeepTheirs
<1>4. counter' = counter /\ blurred' = blurred /\ admitted' = admitted
  BY DEF LoseRollback
<1>5. ASSUME NEW p \in Policies, NEW k \in Kinds
      PROVE  CounterInv(p, k)'
  <2> DEFINE mine == Mine(x, p, k)
             here == p = Policy(c) /\ k = j
  <2>1. Amount(k) \in Nat /\ counter[p][k] \in Int /\ admitted[p][k] \in Nat /\ left[p][k] \in Nat
    BY Amounts DEF RoutingTypeOK
  <2>2. left'[p][k] = left[p][k] + If(here, k)
    <3>1. CASE here
      BY <1>1, <3>1 DEF RoutingTypeOK, If
    <3>2. CASE ~here
      BY <1>1, <2>1, <3>2 DEF RoutingTypeOK, If
    <3>3. QED
      BY <3>1, <3>2
  <2>3. Keeps(x, p, k) <=> mine /\ k <= j
    BY <1>1 DEF Keeps
  <2>4. (Keeps(y, p, k) <=> mine /\ k < j) /\ ~Passes(x, p, k) /\ ~Passes(y, p, k)
    BY <1>1, <1>2, GaveBackKeeps DEF Passes
  <2>5. mine /\ k <= j <=> (mine /\ k < j) \/ here
    BY <1>1 DEF Mine, Kinds
  <2>6. here => ~(k < j)
    BY <1>1 DEF Kinds
  <2>7. If(Keeps(x, p, k), k) = If(Keeps(y, p, k), k) + If(here, k)
    BY <2>1, <2>3, <2>4, <2>5, <2>6 DEF If
  <2>8. CounterInv(p, k)
    BY DEF LimitInv
  <2>9. ~Resets(c, p, k)'
    BY <1>2, <1>3, GaveBackPlace DEF Resets
  <2>10. If(Keeps(x, p, k), k) \in Nat /\ If(Keeps(y, p, k), k) \in Nat /\ If(here, k) \in Nat
    BY <2>1 DEF If
  <2>11. If(Passes(y, p, k), k) + admitted'[p][k] <= If(Passes(x, p, k), k) + admitted[p][k]
    BY <1>4, <2>1, <2>4 DEF If
  <2> HIDE DEF here, mine, x, j
  <2>12. counter'[p][k] + If(Keeps(x, p, k), k) + admitted[p][k] + left[p][k]
           = counter[p][k] + If(Keeps(y, p, k), k) + admitted'[p][k] + left'[p][k]
    BY <1>4, <2>1, <2>2, <2>7, <2>10
  <2>13. QED
    BY <1>3, <1>4, <2>8, <2>9, <2>11, <2>12, Balanced DEF x
<1>6. QED
  BY <1>5 DEF LimitInv

LEMMA AnswerLimits ==
  ASSUME RoutingTypeOK, RoutingTypeOK', LimitInv, NEW c \in Calls, Answer(c)
  PROVE  LimitInv'
<1> DEFINE x == call[c]
           y == call'[c]
<1>1. /\ x.pc = "call" /\ Limit(c) \in [Kinds -> Nat]
      /\ \/ Limit(c)[Slots] > 0 /\ y.pc = "rollback" /\ y.kind = Slots /\ y.route = x.route
         \/ Limit(c)[Slots] = 0 /\ y = Idle
  BY AnswerMove, CallIs
<1>2. OthersKeep(c)
  BY AnswerMove DEF OthersKeep, Told, Keeps, Passes, Mine, Resets
<1>3. counter' = counter /\ blurred' = blurred /\ admitted' = admitted /\ left' = left
  BY DEF Answer
<1>4. ASSUME NEW p \in Policies, NEW k \in Kinds
      PROVE  CounterInv(p, k)'
  <2>1. admitted[p][k] \in Nat /\ Amount(k) \in Nat
    BY Amounts DEF RoutingTypeOK
  <2>2. Keeps(x, p, k) <=> Mine(x, p, k) /\ k = 1
    BY <1>1 DEF Keeps
  <2>3. Keeps(y, p, k) <=> Mine(x, p, k) /\ k = 1
    <3>1. CASE Limit(c)[Slots] > 0 /\ y.pc = "rollback" /\ y.kind = Slots /\ y.route = x.route
      <4>1. Keeps(y, p, k) <=> Mine(x, p, k) /\ k <= 1
        BY <1>1, <3>1 DEF Keeps, Mine
      <4>2. k <= 1 <=> k = 1
        BY DEF Kinds
      <4>3. QED
        BY <4>1, <4>2
    <3>2. CASE Limit(c)[Slots] = 0 /\ y = Idle
      <4>1. ~Keeps(y, p, k)
        BY <3>2, IdleKeeps
      <4>2. ~(Mine(x, p, k) /\ k = 1)
        BY <3>2 DEF Mine
      <4>3. QED
        BY <4>1, <4>2
    <3>3. QED
      BY <1>1, <3>1, <3>2
  <2>4. ~Passes(y, p, k)
    BY <1>1, IdleKeeps DEF Passes
  <2>5. ~Resets(c, p, k)'
    BY <1>1, IdleIsSound DEF Resets
  <2>6. CounterInv(p, k)
    BY DEF LimitInv
  <2>7. If(Keeps(x, p, k), k) = If(Keeps(y, p, k), k)
    BY <2>2, <2>3 DEF If
  <2>8. If(Passes(y, p, k), k) + admitted'[p][k] <= If(Passes(x, p, k), k) + admitted[p][k]
    BY <1>3, <2>1, <2>4 DEF If
  <2>9. QED
    BY <1>2, <1>3, <2>5, <2>6, <2>7, <2>8, Balanced
<1>5. QED
  BY <1>4 DEF LimitInv

LEMMA FailLimits ==
  ASSUME RoutingTypeOK, RoutingTypeOK', LimitInv, NEW c \in Calls, Fail(c)
  PROVE  LimitInv'
<1> DEFINE x == call[c]
<1>1. Given(c, Idle)
  BY FailMove
<1>2. call'[c] = Idle /\ OnlyCall(c) /\ OthersKeep(c)
  BY <1>1, GivenIs, OthersKeepTheirs
<1>3. counter' = counter /\ blurred' = blurred /\ admitted' = admitted
  BY DEF Fail
<1>4. \A p \in Policies, k \in Kinds : left'[p][k] = left[p][k] + IF Holds(c, p, k) THEN Amount(k) ELSE 0
  BY DEF Fail
<1>5. ASSUME NEW p \in Policies, NEW k \in Kinds
      PROVE  CounterInv(p, k)'
  <2>1. Amount(k) \in Nat /\ counter[p][k] \in Int /\ admitted[p][k] \in Nat /\ left[p][k] \in Nat
    BY Amounts DEF RoutingTypeOK
  <2>2. left'[p][k] = left[p][k] + If(Keeps(x, p, k), k)
    BY <1>4, KeepsIsHolds DEF If
  <2>3. ~Keeps(call'[c], p, k) /\ ~Passes(call'[c], p, k)
    BY <1>2, IdleKeeps
  <2>4. If(Keeps(call'[c], p, k), k) = 0 /\ If(Keeps(x, p, k), k) \in Nat
    BY <2>1, <2>3 DEF If
  <2>5. If(Passes(call'[c], p, k), k) + admitted'[p][k] <= If(Passes(x, p, k), k) + admitted[p][k]
    BY <1>3, <2>1, <2>3 DEF If
  <2>6. ~Resets(c, p, k)'
    BY <1>2, IdleIsSound DEF Resets
  <2>7. CounterInv(p, k)
    BY DEF LimitInv
  <2>8. counter'[p][k] + If(Keeps(x, p, k), k) + admitted[p][k] + left[p][k]
          = counter[p][k] + If(Keeps(call'[c], p, k), k) + admitted'[p][k] + left'[p][k]
    BY <1>3, <2>1, <2>2, <2>4
  <2>9. QED
    BY <1>2, <1>3, <2>5, <2>6, <2>7, <2>8, Balanced
<1>6. QED
  BY <1>5 DEF LimitInv

(* A counter that expires starts anew; it is exact unless a call has         *)
(* something in it or is about to reset it.                                  *)
LEMMA TtlLimits ==
  ASSUME RoutingTypeOK, LimitInv, NEW q \in Policies, NEW j \in Kinds, TtlPasses(q, j)
  PROVE  LimitInv'
<1>1. /\ call' = call /\ counter' = [counter EXCEPT ![q][j] = 0]
      /\ admitted' = [admitted EXCEPT ![q][j] = 0] /\ left' = [left EXCEPT ![q][j] = 0]
      /\ blurred' = [blurred EXCEPT ![q] =
           IF \E c \in Calls : Holds(c, q, j) \/ Resets(c, q, j) THEN @ \union {j} ELSE @ \ {j}]
  BY DEF TtlPasses
<1>2. ASSUME NEW p \in Policies, NEW k \in Kinds
      PROVE  CounterInv(p, k)'
  <2>1. InUse(p, k)' = InUse(p, k) /\ Passed(p, k)' = Passed(p, k) /\ \A c : Resets(c, p, k)' <=> Resets(c, p, k)
    BY <1>1 DEF InUse, Passed, Holders, Passers, Keeps, Passes, Mine, Amount, Resets
  <2>2. CASE p = q /\ k = j
    <3>1. counter'[p][k] = 0 /\ admitted'[p][k] = 0 /\ left'[p][k] = 0
      BY <1>1, <2>2 DEF RoutingTypeOK
    <3>2. InUse(p, k) \in Nat
      BY SumsAre
    <3>3. k \in blurred'[p] <=> \E c \in Calls : Holds(c, p, k) \/ Resets(c, p, k)
      BY <1>1, <2>2 DEF RoutingTypeOK
    <3>4. ASSUME k \notin blurred'[p]
          PROVE  InUse(p, k) = 0 /\ Passed(p, k) = 0 /\ Allowed(p, k, 0)
      <4>1. Holders(p, k) = {}
        BY <3>3, <3>4, KeepsIsHolds DEF Holders
      <4>2. Passers(p, k) = {}
        BY <4>1 DEF Holders, Passers, Passes
      <4>3. InUse(p, k) = 0 /\ Passed(p, k) = 0
        BY <4>1, <4>2, EmptySum, Amounts DEF InUse, Passed
      <4>4. policy[p] \in Settings[p] /\ policy[p].limit[k] \in Nat
        BY DEF RoutingTypeOK, Rows
      <4>5. 0 <= policy[p].limit[k]
        BY <4>4
      <4>6. QED
        BY <4>3, <4>4, <4>5 DEF Allowed
    <3>5. counter'[p][k] <= InUse(p, k)' + admitted'[p][k] + left'[p][k]
      BY <2>1, <3>1, <3>2
    <3>6. \A c \in Calls : Resets(c, p, k)' => k \in blurred'[p]
      BY <2>1, <3>3
    <3>7. k \notin blurred'[p] => /\ counter'[p][k] = InUse(p, k)' + admitted'[p][k] + left'[p][k]
                                 /\ Allowed(p, k, Passed(p, k)' + admitted'[p][k])
      BY <2>1, <3>1, <3>4
    <3>8. QED
      BY <3>5, <3>6, <3>7 DEF CounterInv, Allowed
  <2>3. CASE ~(p = q /\ k = j)
    <3>1. /\ counter'[p][k] = counter[p][k] /\ admitted'[p][k] = admitted[p][k] /\ left'[p][k] = left[p][k]
          /\ k \in blurred'[p] <=> k \in blurred[p]
      BY <1>1, <2>3 DEF RoutingTypeOK
    <3>2. CounterInv(p, k)
      BY DEF LimitInv
    <3>3. QED
      BY <2>1, <3>1, <3>2 DEF CounterInv, Allowed
  <2>4. QED
    BY <2>2, <2>3
<1>3. QED
  BY <1>2 DEF LimitInv

LEMMA LimitStep ==
  ASSUME RoutingTypeOK, LimitInv, [Next]_vars
  PROVE  LimitInv'
<1>0. RoutingTypeOK'
  BY TypesStep
<1>1. CASE call' = call /\ counter' = counter /\ admitted' = admitted /\ left' = left /\ blurred' = blurred
  <2>1. ASSUME NEW p \in Policies, NEW k \in Kinds
        PROVE  CounterInv(p, k)'
    <3>1. InUse(p, k)' = InUse(p, k) /\ Passed(p, k)' = Passed(p, k) /\ \A c : Resets(c, p, k)' <=> Resets(c, p, k)
      BY <1>1 DEF InUse, Passed, Holders, Passers, Keeps, Passes, Mine, Amount, Resets
    <3>2. CounterInv(p, k)
      BY DEF LimitInv
    <3>3. QED
      BY <1>1, <3>1, <3>2 DEF CounterInv, Allowed
  <2>2. QED
    BY <2>1 DEF LimitInv
<1>2. ASSUME NEW p \in Policies, CooldownPasses(p) \/ ChangePolicy(p)
      PROVE  LimitInv'
  BY <1>1, <1>2 DEF CooldownPasses, ChangePolicy
<1>3. CASE UNCHANGED vars
  BY <1>1, <1>3 DEF vars
<1>4. QED
  BY <1>0, <1>2, <1>3, NextIs, StartLimits, IncrLimits, ExpireLimits, RollbackLimits, ResetLimits, LoseLimits,
     AnswerLimits, FailLimits, TtlLimits

LEMMA CounterInvIsExact ==
  ASSUME RoutingTypeOK, LimitInv
  PROVE  LimitsHold
<1> SUFFICES ASSUME NEW p \in Policies, NEW k \in Kinds
             PROVE  LET holders == {c \in Calls : Holds(c, p, k)}
                        inUse   == Cardinality(holders) * Amount(k) + admitted[p][k] + left[p][k]
                        allowed(n) == \E row \in Settings[p] : n <= row.limit[k]
                    IN  /\ counter[p][k] <= inUse
                        /\ k \notin blurred[p] =>
                             /\ counter[p][k] = inUse
                             /\ allowed(admitted[p][k])
                             /\ k = Slots => allowed(Cardinality({c \in holders : At(c, "call")}))
  BY DEF LimitsHold
<1> DEFINE holders == {c \in Calls : Holds(c, p, k)}
           calling == {c \in holders : call[c].pc = "call"}
<1>1. holders = Holders(p, k)
  BY KeepsIsHolds DEF Holders
<1>2. CounterInv(p, k)
  BY DEF LimitInv
<1>3. Cardinality(holders) * Amount(k) = InUse(p, k)
  BY <1>1 DEF InUse
<1>4. ASSUME k \notin blurred[p]
      PROVE  /\ \E row \in Settings[p] : admitted[p][k] <= row.limit[k]
             /\ k = Slots => \E row \in Settings[p] : Cardinality(calling) <= row.limit[k]
  <2>1. PICK row \in Settings[p] : Passed(p, k) + admitted[p][k] <= row.limit[k]
    BY <1>2, <1>4 DEF CounterInv, Allowed
  <2>2. row.limit[k] \in Nat /\ admitted[p][k] \in Nat /\ Passed(p, k) \in Nat
    BY ConstantsAssumption, SumsAre DEF Rows, RoutingTypeOK
  <2>3. admitted[p][k] <= row.limit[k] /\ Passed(p, k) <= row.limit[k]
    BY <2>1, <2>2
  <2>4. ASSUME k = Slots
        PROVE  Cardinality(calling) <= row.limit[k]
    <3>1. calling \in SUBSET Passers(p, k) /\ Passers(p, k) \in SUBSET Calls
      BY <1>1 DEF Holders, Passers, Passes
    <3>2. Cardinality(calling) <= Cardinality(Passers(p, k)) /\ Cardinality(calling) \in Nat /\ Cardinality(Passers(p, k)) \in Nat
      BY <3>1, SetsFinite, FS_Subset
    <3>3. Passed(p, k) = Cardinality(Passers(p, k))
      <4>1. Amount(k) = 1
        BY <2>4 DEF Amount
      <4>2. QED
        BY <3>2, <4>1 DEF Passed
    <3> HIDE DEF calling
    <3>4. QED
      BY <2>2, <2>3, <3>2, <3>3
  <2>5. QED
    BY <2>3, <2>4
<1>5. QED
  BY <1>2, <1>3, <1>4 DEF CounterInv

(* LimitsHold: as long as no counter expires under a call, it is exactly     *)
(* what is in use, and no row's limit is exceeded.                           *)
THEOREM LimitsAreKept == Spec => []LimitsHold
<1>1. Init => RoutingTypeOK /\ LimitInv
  BY TypesInit, LimitInit
<1>2. (RoutingTypeOK /\ LimitInv) /\ [Next]_vars => (RoutingTypeOK /\ LimitInv)'
  BY TypesStep, LimitStep
<1>3. RoutingTypeOK /\ LimitInv => LimitsHold
  BY CounterInvIsExact
<1>4. QED
  BY <1>1, <1>2, <1>3, PTL DEF Spec
================================================================================
