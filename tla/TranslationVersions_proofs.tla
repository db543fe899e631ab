---------------------- MODULE TranslationVersions_proofs ----------------------
(***************************************************************************)
(* Proofs about TranslationVersions, for every set of sessions and of      *)
(* scores and for every bound, and, at the end, about QualityScore, for    *)
(* all texts with any finite number of anchors.                            *)
(***************************************************************************)
EXTENDS TranslationVersions, QualityScore, SequenceTheorems, FiniteSetTheorems, WellFoundedInduction, TLAPS

-------------------------------------------------------------------------------
(* Types.                                                                    *)

Operations == {"none", "generate", "generateFinal", "pipeline", "finalize", "request", "evaluate",
               "approve", "edit", "editor", "reject"}
Places     == {"idle", "begin", "call", "insert", "select", "write", "add", "resolve", "close", "score"}
Statuses   == {"none", "pending", "running", "failed", "generated", "approved", "needs_review"}

TranslationRow == [exists : BOOLEAN, status : Statuses, selected : Nat]
VersionRow == [final : BOOLEAN, score : Nat, review : Nat]
ReviewRow == [version : Nat, status : {"pending", "approved", "edited", "rejected"}]
Flags   == UNION {[V -> BOOLEAN] : V \in SUBSET Nat}
Request == [op : Operations, pc : Places, row : TranslationRow, flags : Flags, target : Nat, num : Nat,
            review : Nat, score : Nat, stale : BOOLEAN, rescored : BOOLEAN, overtaken : BOOLEAN]

VersionsTypeOK ==
  /\ translation \in TranslationRow
  /\ versions \in Seq(VersionRow)
  /\ segment \in [text : Nat, status : {"pending", "translated", "needs_review"}]
  /\ memory \in [origin : Nat \union {Twin}, score : Nat]
  /\ reviews \in Seq(ReviewRow)
  /\ sess \in [Sessions -> Request]
  /\ everFinal \subseteq Nat /\ abandoned \subseteq Nat
  /\ raced \in BOOLEAN /\ rescoreRaced \in BOOLEAN
  /\ requests \in 0..MaxRequests /\ faults \in 0..MaxFaults

-------------------------------------------------------------------------------
(* The inductive invariant.                                                  *)

(* A step of an operation is one that the operation has.                     *)
Course(x) ==
  /\ x.op = "none" <=> x.pc = "idle"
  /\ x.pc \in {"begin", "call"} => x.op \in {"generate", "generateFinal", "pipeline"}
  /\ x.pc = "insert" => x.op \in {"generate", "generateFinal", "pipeline", "edit", "editor"}
  /\ x.pc \in {"select", "write"} => x.op \in {"generateFinal", "finalize", "approve", "edit", "editor"}
  /\ x.pc = "resolve" => x.op \in {"edit", "editor", "reject"}
  /\ x.pc = "add" => x.op \in {"request", "editor"}
  /\ x.pc = "close" => x.op \in {"approve", "edit", "editor"}
  /\ x.pc = "score" => x.op = "evaluate"

(* A session resolves one review, and no other has one.                      *)
HoldsReview(x) ==
  /\ x.review = 0 <=> x.op \notin Resolving \/ x.pc = "add"
  /\ x.review # 0 => /\ x.review \in DOMAIN reviews
                     /\ reviews[x.review].status # "pending" => x.overtaken
                     /\ x.op = "approve" => reviews[x.review].version = x.target

(* The version of a session is there; of a reviewer it has the review, and   *)
(* when the review is about to be closed it was finalized.                   *)
HoldsVersion(x) ==
  /\ x.pc \in {"add", "select", "write", "close", "score"} => x.target \in DOMAIN versions
  /\ x.pc \in {"select", "write", "close"} /\ x.op \in {"edit", "editor"} =>
       versions[x.target].review = x.review
  /\ x.pc = "close" => x.target \in everFinal

(* Only rows that exist are read and written.                                *)
HoldsRow(x) ==
  /\ x.pc \in {"call", "insert", "resolve", "select", "write", "close"} => translation.exists
  /\ x.row.exists => translation.exists
  /\ x.op = "none" => ~x.row.exists
  /\ x.pc \in {"select", "write"} => x.row.exists
  /\ x.op \in Resolving => x.row.exists /\ DOMAIN x.flags # {}
  /\ DOMAIN x.flags # {} => x.row.exists
  /\ DOMAIN x.flags \subseteq DOMAIN versions
  /\ x.pc \in {"select", "write"} => x.target \in DOMAIN x.flags

(* What a session believes of the row and of the flags is so until another   *)
(* finalization, and a version it has not read is not final when it writes.  *)
BelievesRight(x) ==
  x.row.exists /\ ~x.stale /\ x.pc # "close" =>
    /\ x.row.selected = translation.selected
    /\ \A v \in DOMAIN x.flags : x.flags[v] = versions[v].final
    /\ x.pc = "write" => \A v \in DOMAIN versions \ DOMAIN x.flags : ~versions[v].final

(* The score it has is the version's until another session has scored it.    *)
ScoredRight(x) ==
  x.pc \in {"select", "write", "score"} /\ ~x.rescored => x.score = versions[x.target].score

Sound(x) == /\ Course(x) /\ HoldsReview(x) /\ HoldsVersion(x) /\ HoldsRow(x)
            /\ BelievesRight(x) /\ ScoredRight(x)

(* Nothing precedes the row, and versions and memory refer to what there is. *)
RowsAreSound ==
  /\ ~translation.exists => versions = <<>> /\ everFinal = {} /\ translation.selected = 0
  /\ \A v \in DOMAIN versions : versions[v].review \in DOMAIN reviews \union {0}
  /\ memory.origin \in DOMAIN versions \union {0, Twin}
  /\ \A r \in DOMAIN reviews : reviews[r].version \in DOMAIN versions

(* Text that was written for a pending review has a session that goes on, or *)
(* was abandoned.                                                            *)
EditsHaveOwners ==
  \A v \in DOMAIN versions :
    LET r == versions[v].review IN
    r # 0 /\ reviews[r].status = "pending" =>
      r \in abandoned \/ \E s \in Sessions : /\ sess[s].review = r
                                             /\ sess[s].pc \in {"select", "write", "close"}

VersionsInv ==
  /\ VersionsTypeOK
  /\ \A s \in Sessions : Sound(sess[s])
  /\ RowsAreSound
  /\ EditsHaveOwners
  /\ FinalFlagsAgree
  /\ ResolutionsAreApplied
  /\ MemoryFollowsSelection

-------------------------------------------------------------------------------
(* The records that the actions give to a session.                           *)

LEMMA IdleRecord ==
  /\ Idle \in Request
  /\ Idle.op = "none" /\ Idle.pc = "idle" /\ Idle.row = NoRow /\ DOMAIN Idle.flags = {}
  /\ Idle.target = 0 /\ Idle.num = 0 /\ Idle.review = 0 /\ Idle.score = 0
  /\ ~Idle.stale /\ ~Idle.rescored /\ ~Idle.overtaken
  /\ NoRow.exists = FALSE /\ NoRow.selected = 0
  BY DEF Idle, NoRow, Request, Operations, Places, TranslationRow, Statuses, Flags

(* What a session has when it has just loaded its rows.                      *)
Fresh(y, op, pc, row, flags, v, r, q) ==
  /\ y \in Request
  /\ y.op = op /\ y.pc = pc /\ y.row = row /\ y.flags = flags /\ y.target = v /\ y.review = r
  /\ y.score = q /\ ~y.stale /\ ~y.rescored /\ ~y.overtaken

LEMMA FlagType ==
  ASSUME VersionsTypeOK, NEW v \in DOMAIN versions
  PROVE  /\ v \in Nat \ {0} /\ versions[v] \in VersionRow
         /\ Flag(v) \in Flags /\ DOMAIN Flag(v) = {v} /\ Flag(v)[v] = versions[v].final
<1>1. v \in 1..Len(versions) /\ Len(versions) \in Nat /\ versions[v] \in VersionRow
  BY LenProperties, ElementOfSeq DEF VersionsTypeOK
<1>2. versions[v].final \in BOOLEAN
  BY <1>1 DEF VersionRow
<1>3. Flag(v) \in [{v} -> BOOLEAN] /\ {v} \in SUBSET Nat
  BY <1>1, <1>2 DEF Flag
<1>4. DOMAIN Flag(v) = {v} /\ Flag(v)[v] = versions[v].final
  BY DEF Flag
<1>5. Flag(v) \in Flags
  BY <1>3 DEF Flags
<1> QED BY <1>1, <1>4, <1>5

LEMMA RowRecord ==
  ASSUME NEW op \in Operations, NEW pc \in Places, NEW row \in TranslationRow
  PROVE  Fresh([Idle EXCEPT !.op = op, !.pc = pc, !.row = row], op, pc, row, Idle.flags, 0, 0, 0)
<1>1. ASSUME NEW z \in Request
      PROVE  LET y == [z EXCEPT !.op = op, !.pc = pc, !.row = row]
             IN  /\ y \in Request /\ y.op = op /\ y.pc = pc /\ y.row = row /\ y.flags = z.flags
                 /\ y.target = z.target /\ y.review = z.review /\ y.score = z.score
                 /\ y.stale = z.stale /\ y.rescored = z.rescored /\ y.overtaken = z.overtaken
  BY <1>1 DEF Request
<1> QED BY <1>1, IdleRecord DEF Fresh

LEMMA TargetRecord ==
  ASSUME NEW op \in Operations, NEW pc \in Places, NEW v \in Nat, NEW q \in Nat
  PROVE  /\ Fresh([Idle EXCEPT !.op = op, !.pc = pc, !.target = v, !.score = q],
                  op, pc, NoRow, Idle.flags, v, 0, q)
         /\ Fresh([Idle EXCEPT !.op = op, !.pc = pc, !.target = v],
                  op, pc, NoRow, Idle.flags, v, 0, 0)
<1>1. ASSUME NEW z \in Request
      PROVE  LET y == [z EXCEPT !.op = op, !.pc = pc, !.target = v, !.score = q]
             IN  /\ y \in Request /\ y.op = op /\ y.pc = pc /\ y.row = z.row /\ y.flags = z.flags
                 /\ y.target = v /\ y.review = z.review /\ y.score = q
                 /\ y.stale = z.stale /\ y.rescored = z.rescored /\ y.overtaken = z.overtaken
  BY <1>1 DEF Request
<1>2. ASSUME NEW z \in Request
      PROVE  LET y == [z EXCEPT !.op = op, !.pc = pc, !.target = v]
             IN  /\ y \in Request /\ y.op = op /\ y.pc = pc /\ y.row = z.row /\ y.flags = z.flags
                 /\ y.target = v /\ y.review = z.review /\ y.score = z.score
                 /\ y.stale = z.stale /\ y.rescored = z.rescored /\ y.overtaken = z.overtaken
  BY <1>2 DEF Request
<1> QED BY <1>1, <1>2, IdleRecord DEF Fresh

LEMMA FullRecord ==
  ASSUME NEW op \in Operations, NEW pc \in Places, NEW row \in TranslationRow, NEW v \in Nat,
         NEW r \in Nat, NEW q \in Nat, NEW f \in Flags
  PROVE  Fresh([Idle EXCEPT !.op = op, !.pc = pc, !.row = row, !.target = v, !.review = r,
                            !.score = q, !.flags = f], op, pc, row, f, v, r, q)
<1>1. ASSUME NEW z \in Request
      PROVE  LET y == [z EXCEPT !.op = op, !.pc = pc, !.row = row, !.target = v, !.review = r,
                                !.score = q, !.flags = f]
             IN  /\ y \in Request /\ y.op = op /\ y.pc = pc /\ y.row = row /\ y.flags = f
                 /\ y.target = v /\ y.review = r /\ y.score = q
                 /\ y.stale = z.stale /\ y.rescored = z.rescored /\ y.overtaken = z.overtaken
  BY <1>1 DEF Request
<1> QED BY <1>1, IdleRecord DEF Fresh

LEMMA LoadedRecord ==
  ASSUME VersionsTypeOK, NEW v \in DOMAIN versions, NEW r \in Nat,
         NEW op \in Operations, NEW pc \in Places
  PROVE  Fresh(Loaded(v, r, op, pc), op, pc, translation, Flag(v), v, r, versions[v].score)
<1>1. v \in Nat /\ versions[v].score \in Nat /\ translation \in TranslationRow /\ Flag(v) \in Flags
  BY FlagType DEF VersionsTypeOK, VersionRow
<1> QED BY <1>1, FullRecord DEF Loaded

-------------------------------------------------------------------------------
(* What an action makes of the sessions.                                     *)

(* Only s moves.                                                             *)
Moves(s, y) ==
  /\ y \in Request
  /\ sess' \in [Sessions -> Request]
  /\ sess'[s] = y
  /\ \A o \in Sessions \ {s} : sess'[o] = sess[o]

LEMMA MovesTo ==
  ASSUME VersionsTypeOK, NEW s \in Sessions, NEW y \in Request, sess' = [sess EXCEPT ![s] = y]
  PROVE  Moves(s, y)
  BY DEF Moves, VersionsTypeOK

LEMMA EndMove ==
  ASSUME VersionsTypeOK, NEW s \in Sessions, End(s)
  PROVE  Moves(s, Idle)
  BY MovesTo, IdleRecord DEF End

LEMMA ReceiveMove ==
  ASSUME VersionsTypeOK, NEW s \in Sessions, NEW y \in Request, Receive(s, y)
  PROVE  /\ Moves(s, y) /\ sess[s].pc = "idle"
         /\ requests' \in 0..MaxRequests
         /\ UNCHANGED <<rows, everFinal, raced, rescoreRaced, abandoned, faults>>
<1>1. sess' = [sess EXCEPT ![s] = y] /\ sess[s].pc = "idle"
      /\ UNCHANGED <<rows, everFinal, raced, rescoreRaced, abandoned, faults>>
  BY DEF Receive, At
<1>2. requests' \in 0..MaxRequests
  BY ConstantsAssumption DEF Receive, VersionsTypeOK
<1> QED BY <1>1, <1>2, MovesTo

(* What a session keeps when it goes on.                                     *)
Keeps(x, y) ==
  /\ y.op = x.op /\ y.target = x.target /\ y.score = x.score
  /\ y.stale = x.stale /\ y.rescored = x.rescored /\ y.overtaken = x.overtaken

LEMMA BeginRunMove ==
  ASSUME VersionsTypeOK, NEW s \in Sessions, BeginRun(s)
  PROVE  LET x == sess[s]  y == sess'[s] IN
         /\ Moves(s, y) /\ Keeps(x, y)
         /\ y.pc = "call" /\ y.flags = x.flags /\ y.review = x.review
         /\ y.row.exists = x.row.exists /\ y.row.selected = x.row.selected
<1> DEFINE x == sess[s]  z == [x.row EXCEPT !.status = "running"]
           y == [x EXCEPT !.pc = "call", !.row = z]
<1>1. x \in Request /\ x.row \in TranslationRow
  BY DEF VersionsTypeOK, Request
<1>2. z \in TranslationRow /\ z.exists = x.row.exists /\ z.selected = x.row.selected
  BY <1>1 DEF TranslationRow, Statuses
<1>3. sess' = [sess EXCEPT ![s] = y]
  BY <1>1 DEF BeginRun, VersionsTypeOK, Request
<1>4. ASSUME NEW q \in Request, NEW r \in TranslationRow
      PROVE  LET w == [q EXCEPT !.pc = "call", !.row = r]
             IN  w \in Request /\ Keeps(q, w) /\ w.pc = "call" /\ w.row = r /\ w.flags = q.flags /\ w.review = q.review
  BY <1>4 DEF Request, Keeps, Places
<1>5. y \in Request /\ Keeps(x, y) /\ y.pc = "call" /\ y.row = z /\ y.flags = x.flags /\ y.review = x.review
  <2> HIDE DEF z
  <2> QED BY <1>1, <1>2, <1>4
<1> HIDE DEF y
<1>6. Moves(s, y)
  BY <1>3, <1>5, MovesTo
<1> QED BY <1>2, <1>5, <1>6 DEF Moves

LEMMA ReadNumberMove ==
  ASSUME VersionsTypeOK, NEW s \in Sessions, ReadNumber(s)
  PROVE  LET x == sess[s]  y == sess'[s] IN
         /\ Moves(s, y) /\ Keeps(x, y)
         /\ y.pc = "insert" /\ y.flags = x.flags /\ y.review = x.review /\ y.row = x.row
<1> DEFINE x == sess[s]  y == [x EXCEPT !.pc = "insert", !.num = Len(versions) + 1]
<1>1. x \in Request /\ Len(versions) + 1 \in Nat
  BY LenProperties DEF VersionsTypeOK
<1>2. sess' = [sess EXCEPT ![s] = y]
  BY <1>1 DEF ReadNumber, VersionsTypeOK
<1>3. ASSUME NEW q \in Request, NEW n \in Nat
      PROVE  LET w == [q EXCEPT !.pc = "insert", !.num = n]
             IN  w \in Request /\ Keeps(q, w) /\ w.pc = "insert" /\ w.row = q.row /\ w.flags = q.flags /\ w.review = q.review
  BY <1>3 DEF Request, Keeps, Places
<1>4. y \in Request /\ Keeps(x, y) /\ y.pc = "insert" /\ y.row = x.row /\ y.flags = x.flags /\ y.review = x.review
  BY <1>1, <1>3
<1> HIDE DEF y
<1> QED BY <1>2, <1>4, MovesTo DEF Moves

LEMMA KnownType ==
  ASSUME NEW f \in Flags, NEW g \in Flags
  PROVE  /\ Known(f, g) \in Flags /\ DOMAIN Known(f, g) = DOMAIN f \union DOMAIN g
         /\ \A v \in DOMAIN f : Known(f, g)[v] = f[v]
         /\ \A v \in DOMAIN g \ DOMAIN f : Known(f, g)[v] = g[v]
<1>1. DOMAIN f \in SUBSET Nat /\ DOMAIN g \in SUBSET Nat
      /\ f \in [DOMAIN f -> BOOLEAN] /\ g \in [DOMAIN g -> BOOLEAN]
  BY DEF Flags
<1>2. Known(f, g) \in [DOMAIN f \union DOMAIN g -> BOOLEAN] /\ DOMAIN f \union DOMAIN g \in SUBSET Nat
  BY <1>1 DEF Known
<1>3. Known(f, g) \in Flags
  BY <1>2 DEF Flags
<1> QED BY <1>3 DEF Known

LEMMA VersionFlags ==
  ASSUME VersionsTypeOK
  PROVE  LET f == [v \in DOMAIN versions |-> versions[v].final]
         IN  f \in Flags /\ DOMAIN f = DOMAIN versions /\ \A v \in DOMAIN versions : f[v] = versions[v].final
<1> DEFINE f == [v \in DOMAIN versions |-> versions[v].final]
<1>1. DOMAIN versions \in SUBSET Nat /\ f \in [DOMAIN versions -> BOOLEAN]
  BY FlagType DEF VersionRow
<1>2. f \in Flags
  BY <1>1 DEF Flags
<1> QED BY <1>2

LEMMA SelectVersionsMove ==
  ASSUME VersionsTypeOK, NEW s \in Sessions, SelectVersions(s)
  PROVE  LET x == sess[s]  y == sess'[s] IN
         /\ Moves(s, y) /\ Keeps(x, y)
         /\ y.pc = "write" /\ y.review = x.review /\ y.row = x.row
         /\ DOMAIN y.flags = DOMAIN x.flags \union DOMAIN versions
         /\ \A v \in DOMAIN x.flags : y.flags[v] = x.flags[v]
         /\ \A v \in DOMAIN versions \ DOMAIN x.flags : y.flags[v] = versions[v].final
<1> DEFINE x == sess[s]  g == [v \in DOMAIN versions |-> versions[v].final]
           f == Known(x.flags, g)
           y == [x EXCEPT !.pc = "write", !.flags = f]
<1>1. x \in Request /\ x.flags \in Flags
  BY DEF VersionsTypeOK, Request
<1>2. g \in Flags /\ DOMAIN g = DOMAIN versions /\ \A v \in DOMAIN versions : g[v] = versions[v].final
  BY VersionFlags
<1>3. sess' = [sess EXCEPT ![s] = y]
  BY <1>1 DEF SelectVersions, VersionsTypeOK, Request
<1> HIDE DEF g
<1>4. /\ f \in Flags /\ DOMAIN f = DOMAIN x.flags \union DOMAIN versions
      /\ \A v \in DOMAIN x.flags : f[v] = x.flags[v]
      /\ \A v \in DOMAIN versions \ DOMAIN x.flags : f[v] = versions[v].final
  <2>1. /\ f \in Flags /\ DOMAIN f = DOMAIN x.flags \union DOMAIN g
        /\ \A v \in DOMAIN x.flags : f[v] = x.flags[v]
        /\ \A v \in DOMAIN g \ DOMAIN x.flags : f[v] = g[v]
    BY <1>1, <1>2, KnownType
  <2> HIDE DEF f
  <2> QED BY <2>1, <1>2
<1> HIDE DEF f
<1>5. ASSUME NEW q \in Request, NEW h \in Flags
      PROVE  LET w == [q EXCEPT !.pc = "write", !.flags = h]
             IN  w \in Request /\ Keeps(q, w) /\ w.pc = "write" /\ w.row = q.row /\ w.flags = h /\ w.review = q.review
  BY <1>5 DEF Request, Keeps, Places
<1>6. y \in Request /\ Keeps(x, y) /\ y.pc = "write" /\ y.row = x.row /\ y.flags = f /\ y.review = x.review
  BY <1>1, <1>4, <1>5
<1> HIDE DEF y
<1> QED BY <1>3, <1>4, <1>6, MovesTo DEF Moves

(* The COMMIT of a version, in three cases.                                  *)
LEMMA CommitVersionMove ==
  ASSUME VersionsTypeOK, NEW s \in Sessions, CommitVersion(s), sess[s].op # "generate"
  PROVE  LET x == sess[s]  y == sess'[s] IN
         /\ Moves(s, y)
         /\ y.op = IF x.op = "pipeline" THEN "generateFinal" ELSE x.op
         /\ y.pc = IF x.op = "pipeline" THEN "begin" ELSE "select"
         /\ y.target = x.num /\ y.review = x.review /\ ~y.rescored /\ y.overtaken = x.overtaken
         /\ y.score = IF x.review = 0 THEN 0 ELSE x.score
         /\ y.row = IF x.review = 0 THEN translation' ELSE x.row
         /\ y.stale = (x.stale /\ x.flags # <<>>)
         /\ DOMAIN y.flags = DOMAIN x.flags \union {x.num}
         /\ y.flags[x.num] = FALSE
         /\ \A v \in DOMAIN x.flags \ {x.num} : y.flags[v] = x.flags[v]
<1> DEFINE x == sess[s]
           op == IF x.op = "pipeline" THEN "generateFinal" ELSE x.op
           pc == IF x.op = "pipeline" THEN "begin" ELSE "select"
           q  == IF x.review = 0 THEN 0 ELSE x.score
           row == IF x.review = 0 THEN translation' ELSE x.row
           stale == x.stale /\ x.flags # <<>>
           g == [v \in {x.num} |-> FALSE]
           f == Known(g, x.flags)
           y == [x EXCEPT !.op = op, !.pc = pc, !.target = x.num, !.score = q, !.rescored = FALSE,
                          !.row = row, !.stale = stale, !.flags = f]
<1>1. x \in Request /\ x.flags \in Flags /\ x.num \in Nat /\ x.row \in TranslationRow
  BY DEF VersionsTypeOK, Request
<1>2. translation' \in TranslationRow
  <2>1. ASSUME NEW t \in TranslationRow, NEW e \in Statuses
        PROVE  [t EXCEPT !.status = e] \in TranslationRow
    BY <2>1 DEF TranslationRow
  <2>2. translation' = translation \/ translation' = [translation EXCEPT !.status = "generated"]
    BY DEF CommitVersion, SetStatus, Assigned, VersionsTypeOK, TranslationRow
  <2> QED BY <2>1, <2>2 DEF VersionsTypeOK, Statuses
<1>3. sess' = [sess EXCEPT ![s] = y]
  BY DEF CommitVersion
<1>4. g \in Flags /\ DOMAIN g = {x.num} /\ g[x.num] = FALSE
  <2>1. g \in [{x.num} -> BOOLEAN] /\ {x.num} \in SUBSET Nat
    BY <1>1
  <2> QED BY <2>1 DEF Flags
<1> HIDE DEF g
<1>5. /\ f \in Flags /\ DOMAIN f = DOMAIN x.flags \union {x.num}
      /\ f[x.num] = FALSE
      /\ \A v \in DOMAIN x.flags \ {x.num} : f[v] = x.flags[v]
  <2>1. /\ f \in Flags /\ DOMAIN f = DOMAIN g \union DOMAIN x.flags
        /\ \A v \in DOMAIN g : f[v] = g[v]
        /\ \A v \in DOMAIN x.flags \ DOMAIN g : f[v] = x.flags[v]
    BY <1>1, <1>4, KnownType
  <2> HIDE DEF f
  <2> QED BY <2>1, <1>4
<1>6. op \in Operations /\ pc \in Places /\ q \in Nat /\ row \in TranslationRow /\ stale \in BOOLEAN
  BY <1>1, <1>2 DEF Request, Operations, Places
<1>7. /\ y \in Request /\ y.op = op /\ y.pc = pc /\ y.target = x.num /\ y.review = x.review
      /\ ~y.rescored /\ y.overtaken = x.overtaken /\ y.score = q /\ y.row = row
      /\ y.stale = stale /\ y.flags = f
  <2> HIDE DEF op, pc, q, row, stale, f
  <2> QED BY <1>1, <1>5, <1>6 DEF Request
<1>8. Moves(s, y)
  <2> HIDE DEF y
  <2> QED BY <1>3, <1>7, MovesTo
<1> HIDE DEF y, f
<1> QED BY <1>5, <1>7, <1>8 DEF Moves

LEMMA AddReviewMove ==
  ASSUME VersionsTypeOK, NEW s \in Sessions, AddReview(s)
  PROVE  \/ sess[s].op # "editor" /\ Moves(s, Idle)
         \/ LET x == sess[s]  y == sess'[s] IN
            /\ sess[s].op = "editor"
            /\ Moves(s, y) /\ Keeps(x, y)
            /\ y.pc = "resolve" /\ y.flags = x.flags /\ y.row = x.row /\ y.review = Len(reviews) + 1
<1> DEFINE x == sess[s]  y == [x EXCEPT !.pc = "resolve", !.review = Len(reviews) + 1]
<1>1. x \in Request /\ Len(reviews) + 1 \in Nat
  BY LenProperties DEF VersionsTypeOK
<1>2. ASSUME NEW q \in Request, NEW n \in Nat
      PROVE  LET w == [q EXCEPT !.pc = "resolve", !.review = n]
             IN  w \in Request /\ Keeps(q, w) /\ w.pc = "resolve" /\ w.row = q.row /\ w.flags = q.flags /\ w.review = n
  BY <1>2 DEF Request, Keeps, Places
<1>3. CASE x.op = "editor"
  <2>1. sess' = [sess EXCEPT ![s] = y]
    BY <1>1, <1>3 DEF AddReview, VersionsTypeOK
  <2>2. y \in Request /\ Keeps(x, y) /\ y.pc = "resolve" /\ y.row = x.row /\ y.flags = x.flags
        /\ y.review = Len(reviews) + 1
    BY <1>1, <1>2
  <2> HIDE DEF y
  <2> QED BY <1>3, <2>1, <2>2, MovesTo DEF Moves
<1>4. CASE x.op # "editor"
  BY <1>4, EndMove DEF AddReview
<1> QED BY <1>3, <1>4

(* The actions that others notice.                                           *)
LEMMA FinalizeMove ==
  ASSUME VersionsTypeOK, NEW s \in Sessions, Finalize(s)
  PROVE  /\ sess' \in [Sessions -> Request]
         /\ IF sess[s].op \in Resolving
              THEN /\ Keeps(sess[s], sess'[s]) /\ sess'[s].pc = "close" /\ sess'[s].flags = sess[s].flags
                   /\ sess'[s].row = sess[s].row /\ sess'[s].review = sess[s].review
              ELSE sess'[s] = Idle
         /\ \A o \in Sessions \ {s} :
              IF sess[o].op # "none" /\ sess[o].row.exists
                THEN LET x == sess[o]  y == sess'[o] IN
                     /\ y.op = x.op /\ y.pc = x.pc /\ y.target = x.target /\ y.score = x.score
                     /\ y.row = x.row /\ y.flags = x.flags /\ y.review = x.review
                     /\ y.stale /\ y.rescored = x.rescored /\ y.overtaken = x.overtaken
                ELSE sess'[o] = sess[o]
<1>1. \A o \in Sessions : sess[o] \in Request
  BY DEF VersionsTypeOK
<1>2. sess' = [o \in Sessions |->
        CASE o = s -> IF sess[s].op \in Resolving THEN [sess[s] EXCEPT !.pc = "close"] ELSE Idle
          [] o \in {p \in Sessions \ {s} : sess[p].op # "none" /\ sess[p].row.exists} ->
               [sess[o] EXCEPT !.stale = TRUE]
          [] OTHER -> sess[o]]
  BY DEF Finalize
<1>3. \A o \in Sessions : sess'[o] =
        IF o = s THEN IF sess[s].op \in Resolving THEN [sess[s] EXCEPT !.pc = "close"] ELSE Idle
        ELSE IF sess[o].op # "none" /\ sess[o].row.exists THEN [sess[o] EXCEPT !.stale = TRUE]
        ELSE sess[o]
  BY <1>2
<1>4. ASSUME NEW x \in Request
      PROVE  LET y == [x EXCEPT !.stale = TRUE] IN
             /\ y \in Request
             /\ y.op = x.op /\ y.pc = x.pc /\ y.target = x.target /\ y.score = x.score
             /\ y.row = x.row /\ y.flags = x.flags /\ y.review = x.review
             /\ y.stale /\ y.rescored = x.rescored /\ y.overtaken = x.overtaken
  BY <1>4 DEF Request
<1>5. ASSUME NEW x \in Request
      PROVE  LET y == [x EXCEPT !.pc = "close"] IN
             /\ y \in Request
             /\ Keeps(x, y) /\ y.pc = "close" /\ y.flags = x.flags /\ y.row = x.row /\ y.review = x.review
  BY <1>5 DEF Request, Keeps, Places
<1>6. \A o \in Sessions : sess'[o] \in Request
  BY <1>1, <1>3, <1>4, <1>5, IdleRecord
<1>7. sess' \in [Sessions -> Request]
  BY <1>2, <1>6
<1>8. ASSUME NEW o \in Sessions \ {s}
      PROVE  IF sess[o].op # "none" /\ sess[o].row.exists
                THEN LET x == sess[o]  y == sess'[o] IN
                     /\ y.op = x.op /\ y.pc = x.pc /\ y.target = x.target /\ y.score = x.score
                     /\ y.row = x.row /\ y.flags = x.flags /\ y.review = x.review
                     /\ y.stale /\ y.rescored = x.rescored /\ y.overtaken = x.overtaken
                ELSE sess'[o] = sess[o]
  <2> DEFINE z == [sess[o] EXCEPT !.stale = TRUE]
  <2>1. /\ z \in Request
        /\ z.op = sess[o].op /\ z.pc = sess[o].pc /\ z.target = sess[o].target /\ z.score = sess[o].score
        /\ z.row = sess[o].row /\ z.flags = sess[o].flags /\ z.review = sess[o].review
        /\ z.stale /\ z.rescored = sess[o].rescored /\ z.overtaken = sess[o].overtaken
    BY <1>1, <1>4
  <2>2. sess'[o] = IF sess[o].op # "none" /\ sess[o].row.exists THEN z ELSE sess[o]
    BY <1>3
  <2> HIDE DEF z
  <2> QED BY <2>1, <2>2
<1>9. IF sess[s].op \in Resolving
        THEN /\ Keeps(sess[s], sess'[s]) /\ sess'[s].pc = "close" /\ sess'[s].flags = sess[s].flags
             /\ sess'[s].row = sess[s].row /\ sess'[s].review = sess[s].review
        ELSE sess'[s] = Idle
  BY <1>1, <1>3, <1>5
<1> QED BY <1>7, <1>8, <1>9

LEMMA DecidedMove ==
  ASSUME VersionsTypeOK, NEW s \in Sessions, NEW new, Decided(s, new)
  PROVE  /\ sess' \in [Sessions -> Request]
         /\ sess'[s] = Idle
         /\ \A o \in Sessions \ {s} :
              LET x == sess[o]  y == sess'[o] IN
              /\ y.op = x.op /\ y.pc = x.pc /\ y.target = x.target /\ y.score = x.score
              /\ y.row = x.row /\ y.flags = x.flags /\ y.review = x.review
              /\ y.stale = x.stale /\ y.rescored = x.rescored
              /\ y.overtaken = (x.overtaken \/ x.review = sess[s].review)
<1>1. \A o \in Sessions : sess[o] \in Request
  BY DEF VersionsTypeOK
<1>2. ASSUME NEW x \in Request, NEW b \in BOOLEAN
      PROVE  LET y == [x EXCEPT !.overtaken = b] IN
             /\ y \in Request
             /\ y.op = x.op /\ y.pc = x.pc /\ y.target = x.target /\ y.score = x.score
             /\ y.row = x.row /\ y.flags = x.flags /\ y.review = x.review
             /\ y.stale = x.stale /\ y.rescored = x.rescored /\ y.overtaken = b
  BY <1>2 DEF Request
<1>3. /\ sess' \in [Sessions -> {sess'[o] : o \in Sessions}]
      /\ \A o \in Sessions : sess'[o] =
        IF o = s THEN Idle
        ELSE [sess[o] EXCEPT !.overtaken = sess[o].overtaken \/ sess[o].review = sess[s].review]
  BY <1>1 DEF Decided, Request
<1>4. ASSUME NEW o \in Sessions \ {s}
      PROVE  /\ sess'[o] \in Request
             /\ LET x == sess[o]  y == sess'[o] IN
                /\ y.op = x.op /\ y.pc = x.pc /\ y.target = x.target /\ y.score = x.score
                /\ y.row = x.row /\ y.flags = x.flags /\ y.review = x.review
                /\ y.stale = x.stale /\ y.rescored = x.rescored
                /\ y.overtaken = (x.overtaken \/ x.review = sess[s].review)
  <2> DEFINE b == sess[o].overtaken \/ sess[o].review = sess[s].review
  <2>1. b \in BOOLEAN /\ sess[o] \in Request
    BY <1>1 DEF Request
  <2>2. sess'[o] = [sess[o] EXCEPT !.overtaken = b]
    BY <1>3
  <2> DEFINE z == [sess[o] EXCEPT !.overtaken = b]
  <2>3. b = (sess[o].overtaken \/ sess[o].review = sess[s].review)
    OBVIOUS
  <2> HIDE DEF b
  <2>4. /\ z \in Request
        /\ z.op = sess[o].op /\ z.pc = sess[o].pc /\ z.target = sess[o].target /\ z.score = sess[o].score
        /\ z.row = sess[o].row /\ z.flags = sess[o].flags /\ z.review = sess[o].review
        /\ z.stale = sess[o].stale /\ z.rescored = sess[o].rescored /\ z.overtaken = b
    BY <1>2, <2>1
  <2>5. sess'[o] = z
    BY <2>2
  <2> HIDE DEF z
  <2> QED BY <2>3, <2>4, <2>5
<1>5. sess'[s] = Idle /\ sess'[s] \in Request
  BY <1>3, IdleRecord
<1>6. sess' \in [Sessions -> Request]
  BY <1>3, <1>4, <1>5
<1> QED BY <1>4, <1>5, <1>6

LEMMA EvaluateMove ==
  ASSUME VersionsTypeOK, NEW s \in Sessions, Evaluate(s)
  PROVE  /\ sess' \in [Sessions -> Request]
         /\ sess'[s] = Idle
         /\ \A o \in Sessions \ {s} :
              LET x == sess[o]  y == sess'[o] IN
              /\ y.op = x.op /\ y.pc = x.pc /\ y.target = x.target /\ y.score = x.score
              /\ y.row = x.row /\ y.flags = x.flags /\ y.review = x.review
              /\ y.stale = x.stale /\ y.overtaken = x.overtaken
              /\ y.rescored = (x.rescored \/ x.target = sess[s].target)
<1>1. \A o \in Sessions : sess[o] \in Request
  BY DEF VersionsTypeOK
<1>2. ASSUME NEW x \in Request, NEW b \in BOOLEAN
      PROVE  LET y == [x EXCEPT !.rescored = b] IN
             /\ y \in Request
             /\ y.op = x.op /\ y.pc = x.pc /\ y.target = x.target /\ y.score = x.score
             /\ y.row = x.row /\ y.flags = x.flags /\ y.review = x.review
             /\ y.stale = x.stale /\ y.rescored = b /\ y.overtaken = x.overtaken
  BY <1>2 DEF Request
<1>3. /\ sess' \in [Sessions -> {sess'[o] : o \in Sessions}]
      /\ \A o \in Sessions : sess'[o] =
        IF o = s THEN Idle
        ELSE [sess[o] EXCEPT !.rescored = sess[o].rescored \/ sess[o].target = sess[s].target]
  BY <1>1 DEF Evaluate, Request
<1>4. ASSUME NEW o \in Sessions \ {s}
      PROVE  /\ sess'[o] \in Request
             /\ LET x == sess[o]  y == sess'[o] IN
                /\ y.op = x.op /\ y.pc = x.pc /\ y.target = x.target /\ y.score = x.score
                /\ y.row = x.row /\ y.flags = x.flags /\ y.review = x.review
                /\ y.stale = x.stale /\ y.overtaken = x.overtaken
                /\ y.rescored = (x.rescored \/ x.target = sess[s].target)
  <2> DEFINE b == sess[o].rescored \/ sess[o].target = sess[s].target
  <2>1. b \in BOOLEAN /\ sess[o] \in Request
    BY <1>1 DEF Request
  <2>2. sess'[o] = [sess[o] EXCEPT !.rescored = b]
    BY <1>3
  <2> DEFINE z == [sess[o] EXCEPT !.rescored = b]
  <2>3. b = (sess[o].rescored \/ sess[o].target = sess[s].target)
    OBVIOUS
  <2> HIDE DEF b
  <2>4. /\ z \in Request
        /\ z.op = sess[o].op /\ z.pc = sess[o].pc /\ z.target = sess[o].target /\ z.score = sess[o].score
        /\ z.row = sess[o].row /\ z.flags = sess[o].flags /\ z.review = sess[o].review
        /\ z.stale = sess[o].stale /\ z.overtaken = sess[o].overtaken /\ z.rescored = b
    BY <1>2, <2>1
  <2>5. sess'[o] = z
    BY <2>2
  <2> HIDE DEF z
  <2> QED BY <2>3, <2>4, <2>5
<1>5. sess'[s] = Idle /\ sess'[s] \in Request
  BY <1>3, IdleRecord
<1>6. sess' \in [Sessions -> Request]
  BY <1>3, <1>4, <1>5
<1> QED BY <1>4, <1>5, <1>6

-------------------------------------------------------------------------------
(* Steps that leave versions and reviews alone.                              *)

LEMMA IdleIsSound ==
  ASSUME NEW s \in Sessions, sess'[s] = Idle
  PROVE  Sound(sess[s])'
  BY IdleRecord DEF Sound, Course, HoldsReview, HoldsVersion, HoldsRow, BelievesRight, ScoredRight, Resolving

LEMMA StatusOnly ==
  ASSUME VersionsTypeOK, NEW s \in Sessions, NEW new \in Statuses, SetStatus(s, new)
  PROVE  /\ translation' \in TranslationRow
         /\ translation'.exists = translation.exists /\ translation'.selected = translation.selected
<1>1. PICK e : translation' = [translation EXCEPT !.status = e] /\ e \in Statuses
  <2>1. translation' = [translation EXCEPT !.status = Assigned(translation.status, sess[s].row.status, new)]
    BY DEF SetStatus, VersionsTypeOK, TranslationRow
  <2>2. Assigned(translation.status, sess[s].row.status, new) \in Statuses
    BY DEF Assigned, VersionsTypeOK, TranslationRow
  <2> QED BY <2>1, <2>2
<1> QED BY <1>1 DEF VersionsTypeOK, TranslationRow

(* A version's text written for a review is owned by a session.              *)
Owns(x) == x.review # 0 /\ x.pc \in {"select", "write", "close"}

LEMMA StaysSound ==
  ASSUME versions' = versions, reviews' = reviews, everFinal' = everFinal,
         translation.exists => translation'.exists, translation'.selected = translation.selected,
         NEW o, sess'[o] = sess[o], Sound(sess[o])
  PROVE  Sound(sess[o])'
<1>1. Course(sess[o])'
  BY DEF Sound, Course
<1>2. HoldsReview(sess[o])'
  BY DEF Sound, HoldsReview
<1>3. HoldsVersion(sess[o])'
  BY DEF Sound, HoldsVersion
<1>4. HoldsRow(sess[o])'
  BY DEF Sound, HoldsRow
<1>5. BelievesRight(sess[o])'
  BY DEF Sound, BelievesRight
<1>6. ScoredRight(sess[o])'
  BY DEF Sound, ScoredRight
<1> QED BY <1>1, <1>2, <1>3, <1>4, <1>5, <1>6 DEF Sound

LEMMA Framed ==
  ASSUME VersionsInv, VersionsTypeOK',
         versions' = versions, reviews' = reviews, everFinal' = everFinal,
         segment'.text = segment.text, memory' = memory \/ memory'.origin = Twin,
         translation.exists => translation'.exists, translation'.selected = translation.selected,
         raced' = raced, rescoreRaced' = rescoreRaced, abandoned \subseteq abandoned',
         \A o \in Sessions :
           \/ sess'[o] = sess[o]
           \/ /\ Sound(sess[o])'
              /\ Owns(sess[o]) => \/ sess[o].review \in abandoned'
                                  \/ sess'[o].review = sess[o].review /\ Owns(sess'[o])
  PROVE  VersionsInv'
<1>1. \A o \in Sessions : Sound(sess[o])'
  BY StaysSound DEF VersionsInv
<1>2. RowsAreSound'
  BY DEF VersionsInv, RowsAreSound, Twin
<1>3. EditsHaveOwners'
  <2> SUFFICES ASSUME NEW v \in DOMAIN versions, versions[v].review # 0,
                      reviews[versions[v].review].status = "pending",
                      versions[v].review \notin abandoned'
               PROVE  \E t \in Sessions : /\ sess'[t].review = versions[v].review
                                          /\ sess'[t].pc \in {"select", "write", "close"}
    BY DEF EditsHaveOwners
  <2>1. PICK t \in Sessions : sess[t].review = versions[v].review /\ Owns(sess[t])
    BY DEF VersionsInv, EditsHaveOwners, Owns
  <2> QED BY <2>1 DEF Owns
<1>4. FinalFlagsAgree'
  BY DEF VersionsInv, FinalFlagsAgree
<1>5. ResolutionsAreApplied'
  <2> SUFFICES ASSUME NEW r \in DOMAIN reviews
               PROVE  LET edits == {v \in DOMAIN versions : versions[v].review = r} IN
                      /\ reviews[r].status = "approved" => reviews[r].version \in everFinal
                      /\ reviews[r].status = "edited" => edits \intersect everFinal # {}
                      /\ reviews[r].status = "pending" /\ edits # {} =>
                           r \in abandoned' \/ \E s \in Sessions : sess'[s].review = r
    BY DEF ResolutionsAreApplied
  <2>1. r # 0
    BY LenProperties DEF VersionsInv, VersionsTypeOK
  <2> QED BY <1>3, <2>1 DEF VersionsInv, ResolutionsAreApplied, EditsHaveOwners
<1>6. MemoryFollowsSelection'
  BY DEF VersionsInv, MemoryFollowsSelection, Twin
<1> QED BY <1>1, <1>2, <1>3, <1>4, <1>5, <1>6 DEF VersionsInv

-------------------------------------------------------------------------------
(* Every step preserves the invariant: those that only move a session.       *)

(* What a session that moves shows about the versions, the reviews and the   *)
(* rows, when only it moves.                                                 *)
LEMMA OneMoves ==
  ASSUME VersionsInv, NEW s \in Sessions, NEW y, Moves(s, y), Sound(sess[s])',
         versions' = versions, reviews' = reviews, everFinal' = everFinal,
         segment' = segment, memory' = memory, translation' \in TranslationRow,
         translation.exists => translation'.exists, translation'.selected = translation.selected,
         raced' = raced, rescoreRaced' = rescoreRaced,
         abandoned \subseteq abandoned', abandoned' \subseteq Nat,
         requests' \in 0..MaxRequests, faults' \in 0..MaxFaults,
         Owns(sess[s]) => sess[s].review \in abandoned' \/ (y.review = sess[s].review /\ Owns(y))
  PROVE  VersionsInv'
<1>1. VersionsTypeOK'
  BY DEF VersionsInv, VersionsTypeOK, Moves
<1>2. \A o \in Sessions :
           \/ sess'[o] = sess[o]
           \/ /\ Sound(sess[o])'
              /\ Owns(sess[o]) => \/ sess[o].review \in abandoned'
                                  \/ sess'[o].review = sess[o].review /\ Owns(sess'[o])
  BY DEF Moves
<1> QED BY <1>1, <1>2, Framed

(* A request that arrives.                                                   *)
LEMMA Received ==
  ASSUME VersionsInv, NEW s \in Sessions, NEW y \in Request, Receive(s, y), Sound(sess[s])'
  PROVE  VersionsInv'
<1>1. Moves(s, y) /\ sess[s].pc = "idle" /\ requests' \in 0..MaxRequests
      /\ UNCHANGED <<rows, everFinal, raced, rescoreRaced, abandoned, faults>>
  BY ReceiveMove DEF VersionsInv
<1>2. ~Owns(sess[s])
  BY <1>1 DEF Owns
<1> QED BY <1>1, <1>2, OneMoves DEF rows, VersionsInv, VersionsTypeOK

LEMMA LookupStep ==
  ASSUME VersionsInv, NEW s \in Sessions, Lookup(s)
  PROVE  VersionsInv'
<1>1. PICK op \in {"generate", "generateFinal", "pipeline"} :
        Receive(s, [Idle EXCEPT !.op = op, !.pc = "begin", !.row = translation])
  BY DEF Lookup
<1> DEFINE y == [Idle EXCEPT !.op = op, !.pc = "begin", !.row = translation]
<1>2. Fresh(y, op, "begin", translation, Idle.flags, 0, 0, 0)
  <2>1. op \in Operations /\ "begin" \in Places /\ translation \in TranslationRow
    BY DEF VersionsInv, VersionsTypeOK, Operations, Places
  <2> QED BY <2>1, RowRecord
<1> HIDE DEF y
<1>3. Moves(s, y) /\ UNCHANGED rows
  BY <1>1, <1>2, ReceiveMove DEF VersionsInv, Fresh, y
<1>4. Sound(sess[s])'
  BY <1>2, <1>3, IdleRecord DEF Moves, Fresh, rows, Sound, Course, HoldsReview, HoldsVersion, HoldsRow,
       BelievesRight, ScoredRight, Resolving
<1> QED BY <1>1, <1>2, <1>4, Received DEF Fresh, y

(* A request that works on the rows it has loaded.                           *)
LEMMA LoadedSound ==
  ASSUME VersionsInv, NEW s \in Sessions, NEW v \in DOMAIN versions, NEW r \in Nat, NEW op, NEW pc,
         NEW y, Fresh(y, op, pc, translation, Flag(v), v, r, versions[v].score),
         Moves(s, y), UNCHANGED <<rows, everFinal>>,
         \/ op = "finalize" /\ pc = "select" /\ r = 0
         \/ op = "approve" /\ pc = "select" /\ r # 0
         \/ op \in {"edit", "reject", "editor"} /\ pc = "resolve" /\ r # 0
         \/ op = "editor" /\ pc = "add" /\ r = 0,
         r # 0 => r \in DOMAIN reviews /\ reviews[r].status = "pending" /\ reviews[r].version = v
  PROVE  Sound(sess[s])'
<1>1. /\ v \in Nat \ {0} /\ versions[v] \in VersionRow
      /\ DOMAIN Flag(v) = {v} /\ Flag(v)[v] = versions[v].final
  BY FlagType DEF VersionsInv
<1>2. translation.exists
  <2>1. versions # <<>>
    OBVIOUS
  <2> QED BY <2>1 DEF VersionsInv, RowsAreSound
<1>3. sess'[s] = y /\ translation' = translation /\ versions' = versions /\ reviews' = reviews /\ everFinal' = everFinal
  BY DEF Moves, rows
<1>4. Course(y)' /\ HoldsReview(y)'
  BY <1>3 DEF Fresh, Course, HoldsReview, Resolving
<1>5. HoldsVersion(y)'
  BY <1>3 DEF Fresh, HoldsVersion
<1>6. HoldsRow(y)'
  BY <1>1, <1>2, <1>3 DEF Fresh, HoldsRow, Resolving
<1>7. BelievesRight(y)' /\ ScoredRight(y)'
  BY <1>1, <1>3 DEF Fresh, BelievesRight, ScoredRight
<1> QED BY <1>3, <1>4, <1>5, <1>6, <1>7 DEF Sound, Course, HoldsReview, HoldsVersion, HoldsRow, BelievesRight, ScoredRight

LEMMA LoadedStep ==
  ASSUME VersionsInv, NEW s \in Sessions, NEW v \in DOMAIN versions, NEW r \in Nat, NEW op, NEW pc,
         Receive(s, Loaded(v, r, op, pc)),
         \/ op = "finalize" /\ pc = "select" /\ r = 0
         \/ op = "approve" /\ pc = "select" /\ r # 0
         \/ op \in {"edit", "reject", "editor"} /\ pc = "resolve" /\ r # 0
         \/ op = "editor" /\ pc = "add" /\ r = 0,
         r # 0 => r \in DOMAIN reviews /\ reviews[r].status = "pending" /\ reviews[r].version = v
  PROVE  VersionsInv'
<1> DEFINE y == Loaded(v, r, op, pc)
<1>1. op \in Operations /\ pc \in Places
  BY DEF Operations, Places
<1>2. Fresh(y, op, pc, translation, Flag(v), v, r, versions[v].score)
  BY <1>1, LoadedRecord DEF VersionsInv
<1> HIDE DEF y
<1>3. Moves(s, y) /\ UNCHANGED <<rows, everFinal>>
  BY <1>2, ReceiveMove DEF VersionsInv, Fresh, y
<1>4. Sound(sess[s])'
  BY <1>2, <1>3, LoadedSound
<1> QED BY <1>2, <1>4, Received DEF Fresh, y

LEMMA StartFinalizeStep ==
  ASSUME VersionsInv, NEW s \in Sessions, StartFinalize(s)
  PROVE  VersionsInv'
  BY LoadedStep DEF StartFinalize

LEMMA StartResolveStep ==
  ASSUME VersionsInv, NEW s \in Sessions, StartResolve(s)
  PROVE  VersionsInv'
<1>1. PICK r \in DOMAIN reviews, op \in {"approve", "edit", "reject"} :
        /\ reviews[r].status = "pending"
        /\ Receive(s, Loaded(reviews[r].version, r, op, IF op = "approve" THEN "select" ELSE "resolve"))
  BY DEF StartResolve
<1>2. r \in Nat /\ r # 0
  BY LenProperties DEF VersionsInv, VersionsTypeOK
<1>3. reviews[r].version \in DOMAIN versions
  BY DEF VersionsInv, RowsAreSound
<1> QED BY <1>1, <1>2, <1>3, LoadedStep

LEMMA StartEditorStep ==
  ASSUME VersionsInv, NEW s \in Sessions, StartEditor(s)
  PROVE  VersionsInv'
<1>1. PICK v \in DOMAIN versions :
        \/ Receive(s, Loaded(v, 0, "editor", "add"))
        \/ \E r \in PendingOf(v) : Receive(s, Loaded(v, r, "editor", "resolve"))
  BY DEF StartEditor
<1>2. CASE Receive(s, Loaded(v, 0, "editor", "add"))
  BY <1>2, LoadedStep
<1>3. CASE \E r \in PendingOf(v) : Receive(s, Loaded(v, r, "editor", "resolve"))
  <2>1. PICK r \in PendingOf(v) : Receive(s, Loaded(v, r, "editor", "resolve"))
    BY <1>3
  <2>2. r \in DOMAIN reviews /\ reviews[r].status = "pending" /\ reviews[r].version = v
    BY DEF PendingOf
  <2>3. r \in Nat /\ r # 0
    BY <2>2, LenProperties DEF VersionsInv, VersionsTypeOK
  <2> QED BY <2>1, <2>2, <2>3, LoadedStep
<1> QED BY <1>1, <1>2, <1>3

LEMMA RequestReviewStep ==
  ASSUME VersionsInv, NEW s \in Sessions, RequestReview(s)
  PROVE  VersionsInv'
<1>1. PICK v \in DOMAIN versions : Receive(s, [Idle EXCEPT !.op = "request", !.pc = "add", !.target = v])
  BY DEF RequestReview
<1> DEFINE y == [Idle EXCEPT !.op = "request", !.pc = "add", !.target = v]
<1>2. Fresh(y, "request", "add", NoRow, Idle.flags, v, 0, 0)
  BY TargetRecord, FlagType DEF VersionsInv, Operations, Places
<1> HIDE DEF y
<1>3. Moves(s, y) /\ UNCHANGED rows
  BY <1>1, <1>2, ReceiveMove DEF VersionsInv, Fresh, y
<1>4. Sound(sess[s])'
  BY <1>2, <1>3, IdleRecord DEF Moves, Fresh, rows, Sound, Course, HoldsReview, HoldsVersion, HoldsRow,
       BelievesRight, ScoredRight, Resolving
<1> QED BY <1>1, <1>2, <1>4, Received DEF Fresh, y

LEMMA StartEvaluateStep ==
  ASSUME VersionsInv, NEW s \in Sessions, StartEvaluate(s)
  PROVE  VersionsInv'
<1>1. PICK v \in DOMAIN versions :
        Receive(s, [Idle EXCEPT !.op = "evaluate", !.pc = "score", !.target = v, !.score = versions[v].score])
  BY DEF StartEvaluate
<1> DEFINE y == [Idle EXCEPT !.op = "evaluate", !.pc = "score", !.target = v, !.score = versions[v].score]
<1>2. Fresh(y, "evaluate", "score", NoRow, Idle.flags, v, 0, versions[v].score)
  <2>1. v \in Nat /\ versions[v].score \in Nat
    BY FlagType DEF VersionsInv, VersionRow
  <2> QED BY <2>1, TargetRecord DEF Operations, Places
<1> HIDE DEF y
<1>3. Moves(s, y) /\ UNCHANGED rows
  BY <1>1, <1>2, ReceiveMove DEF VersionsInv, Fresh, y
<1>4. Sound(sess[s])'
  BY <1>2, <1>3, IdleRecord DEF Moves, Fresh, rows, Sound, Course, HoldsReview, HoldsVersion, HoldsRow,
       BelievesRight, ScoredRight, Resolving
<1> QED BY <1>1, <1>2, <1>4, Received DEF Fresh, y

(* A session that ends without a decision.                                   *)
LEMMA Ended ==
  ASSUME VersionsInv, NEW s \in Sessions, End(s),
         versions' = versions, reviews' = reviews, everFinal' = everFinal,
         segment' = segment, memory' = memory, translation' \in TranslationRow,
         translation.exists => translation'.exists, translation'.selected = translation.selected,
         raced' = raced, rescoreRaced' = rescoreRaced,
         requests' = requests, faults' \in 0..MaxFaults,
         Abandon(s) \/ (UNCHANGED abandoned /\ ~Owns(sess[s]))
  PROVE  VersionsInv'
<1>1. Moves(s, Idle)
  BY EndMove DEF VersionsInv
<1>2. Sound(sess[s])'
  BY <1>1, IdleIsSound DEF Moves
<1>3. sess[s].review \in Nat
  BY DEF VersionsInv, VersionsTypeOK, Request
<1>4. /\ abandoned \subseteq abandoned' /\ abandoned' \subseteq Nat
      /\ Owns(sess[s]) => sess[s].review \in abandoned'
  BY <1>3 DEF Abandon, Owns, VersionsInv, VersionsTypeOK
<1> QED BY <1>1, <1>2, <1>4, OneMoves DEF VersionsInv, VersionsTypeOK

LEMMA RefuseRunStep ==
  ASSUME VersionsInv, NEW s \in Sessions, RefuseRun(s)
  PROVE  VersionsInv'
  BY Ended DEF RefuseRun, At, Owns, rows, ghosts, VersionsInv, VersionsTypeOK

LEMMA ProviderFailsStep ==
  ASSUME VersionsInv, NEW s \in Sessions, ProviderFails(s)
  PROVE  VersionsInv'
<1>1. /\ translation' \in TranslationRow
      /\ translation'.exists = translation.exists /\ translation'.selected = translation.selected
  BY StatusOnly DEF ProviderFails, VersionsInv, Statuses
<1> QED BY <1>1, Ended DEF ProviderFails, At, Owns, ghosts, VersionsInv, VersionsTypeOK

LEMMA NumberTakenStep ==
  ASSUME VersionsInv, NEW s \in Sessions, NumberTaken(s)
  PROVE  VersionsInv'
  BY Ended DEF NumberTaken, At, Owns, rows, ghosts, VersionsInv, VersionsTypeOK

LEMMA CrashStep ==
  ASSUME VersionsInv, NEW s \in Sessions, Crash(s)
  PROVE  VersionsInv'
<1>1. faults' \in 0..MaxFaults
  BY ConstantsAssumption DEF Crash, VersionsInv, VersionsTypeOK
<1> QED BY <1>1, Ended DEF Crash, rows, VersionsInv, VersionsTypeOK

(* A session that goes on with what it has.                                  *)
LEMMA GoesOn ==
  ASSUME VersionsInv, NEW s \in Sessions, Moves(s, sess'[s]), Keeps(sess[s], sess'[s]),
         sess'[s].review = sess[s].review,
         sess'[s].row.exists = sess[s].row.exists, sess'[s].row.selected = sess[s].row.selected,
         sess'[s].flags = sess[s].flags,
         versions' = versions, reviews' = reviews, everFinal' = everFinal,
         translation.exists => translation'.exists, translation'.selected = translation.selected,
         \/ sess[s].pc = "begin" /\ sess'[s].pc = "call" /\ translation'.exists
         \/ sess[s].pc = "call" /\ sess'[s].pc = "insert"
         \/ sess[s].pc = "resolve" /\ sess'[s].pc = "insert" /\ sess[s].op \in {"edit", "editor"}
  PROVE  Sound(sess[s])'
<1> DEFINE x == sess[s]  y == sess'[s]
<1>1. Sound(x)
  BY DEF VersionsInv
<1>2. Course(sess[s])'
  BY <1>1 DEF Keeps, Sound, Course
<1>3. HoldsReview(sess[s])'
  BY <1>1 DEF Keeps, Sound, Course, HoldsReview, Resolving
<1>4. HoldsVersion(sess[s])'
  BY <1>1 DEF Keeps, Sound, HoldsVersion
<1>5. HoldsRow(sess[s])'
  BY <1>1 DEF Keeps, Sound, Course, HoldsRow
<1>6. BelievesRight(sess[s])'
  BY <1>1 DEF Keeps, Sound, BelievesRight
<1>7. ScoredRight(sess[s])'
  BY <1>1 DEF Keeps, Sound, ScoredRight
<1> QED BY <1>2, <1>3, <1>4, <1>5, <1>6, <1>7 DEF Sound

LEMMA BeginRunStep ==
  ASSUME VersionsInv, NEW s \in Sessions, BeginRun(s)
  PROVE  VersionsInv'
<1>1. LET x == sess[s]  y == sess'[s] IN
      /\ Moves(s, y) /\ Keeps(x, y) /\ y.pc = "call" /\ y.flags = x.flags /\ y.review = x.review
      /\ y.row.exists = x.row.exists /\ y.row.selected = x.row.selected
  BY BeginRunMove DEF VersionsInv
<1>2. /\ translation' \in TranslationRow /\ translation'.exists
      /\ translation'.selected = translation.selected
  <2>1. CASE translation.exists
    <3>1. SetStatus(s, "running")
      BY <2>1 DEF BeginRun, SetStatus
    <3> QED BY <2>1, <3>1, StatusOnly DEF VersionsInv, Statuses
  <2>2. CASE ~translation.exists
    BY <2>2 DEF BeginRun, VersionsInv, RowsAreSound, TranslationRow, Statuses
  <2> QED BY <2>1, <2>2
<1>3. sess[s].pc = "begin" /\ UNCHANGED <<versions, segment, memory, reviews, ghosts>>
  BY DEF BeginRun, At
<1>4. Sound(sess[s])'
  BY <1>1, <1>2, <1>3, GoesOn DEF ghosts
<1> QED BY <1>1, <1>2, <1>3, <1>4, OneMoves DEF ghosts, Owns, VersionsInv, VersionsTypeOK

LEMMA ReadNumberStep ==
  ASSUME VersionsInv, NEW s \in Sessions, ReadNumber(s)
  PROVE  VersionsInv'
<1>1. LET x == sess[s]  y == sess'[s] IN
      /\ Moves(s, y) /\ Keeps(x, y) /\ y.pc = "insert" /\ y.flags = x.flags /\ y.review = x.review
      /\ y.row = x.row
  BY ReadNumberMove DEF VersionsInv
<1>2. /\ UNCHANGED <<rows, ghosts>>
      /\ \/ sess[s].pc = "call"
         \/ sess[s].pc = "resolve" /\ sess[s].op \in {"edit", "editor"}
  BY DEF ReadNumber, At
<1>3. Sound(sess[s])'
  BY <1>1, <1>2, GoesOn DEF rows, ghosts
<1> QED BY <1>1, <1>2, <1>3, OneMoves DEF rows, ghosts, Owns, VersionsInv, VersionsTypeOK

LEMMA SelectVersionsStep ==
  ASSUME VersionsInv, NEW s \in Sessions, SelectVersions(s)
  PROVE  VersionsInv'
<1> DEFINE x == sess[s]  y == sess'[s]
<1>1. /\ Moves(s, y) /\ Keeps(x, y)
      /\ y.pc = "write" /\ y.review = x.review /\ y.row = x.row
      /\ DOMAIN y.flags = DOMAIN x.flags \union DOMAIN versions
      /\ \A v \in DOMAIN x.flags : y.flags[v] = x.flags[v]
      /\ \A v \in DOMAIN versions \ DOMAIN x.flags : y.flags[v] = versions[v].final
  BY SelectVersionsMove DEF VersionsInv
<1>2. x.pc = "select" /\ UNCHANGED <<rows, ghosts>>
  BY DEF SelectVersions, At
<1>3. Sound(x)
  BY DEF VersionsInv
<1>4. Course(sess[s])' /\ HoldsReview(sess[s])' /\ HoldsVersion(sess[s])'
  BY <1>1, <1>2, <1>3 DEF Keeps, Sound, Course, HoldsReview, HoldsVersion, rows, ghosts
<1>5. HoldsRow(sess[s])'
  BY <1>1, <1>2, <1>3 DEF Keeps, Sound, HoldsRow, rows, ghosts
<1>6. BelievesRight(sess[s])'
  BY <1>1, <1>2, <1>3 DEF Keeps, Sound, BelievesRight, HoldsRow, rows, ghosts
<1>7. ScoredRight(sess[s])'
  BY <1>1, <1>2, <1>3 DEF Keeps, Sound, ScoredRight, rows, ghosts
<1>8. Sound(sess[s])'
  BY <1>4, <1>5, <1>6, <1>7 DEF Sound
<1> QED BY <1>1, <1>2, <1>8, OneMoves DEF rows, ghosts, Owns, VersionsInv, VersionsTypeOK

(* Steps of others that touch the row or the memory.                         *)
LEMMA EnsureTranslationStep ==
  ASSUME VersionsInv, EnsureTranslation
  PROVE  VersionsInv'
<1>1. translation' \in TranslationRow /\ translation'.selected = translation.selected /\ ~translation.exists
  BY DEF EnsureTranslation, VersionsInv, RowsAreSound, TranslationRow, Statuses
<1>2. UNCHANGED <<versions, segment, memory, reviews, sess, ghosts>>
  BY DEF EnsureTranslation
<1>3. VersionsTypeOK'
  BY <1>1, <1>2 DEF VersionsInv, VersionsTypeOK, ghosts
<1> QED BY <1>1, <1>2, <1>3, Framed DEF ghosts

LEMMA TwinType ==
  ASSUME VersionsInv, TwinEntry
  PROVE  /\ faults' \in 0..MaxFaults
         /\ memory' \in [origin : Nat \union {Twin}, score : Nat] /\ memory'.origin = Twin
  BY ConstantsAssumption DEF TwinEntry, VersionsInv, VersionsTypeOK

LEMMA TwinFinalizesStep ==
  ASSUME VersionsInv, TwinFinalizes
  PROVE  VersionsInv'
<1>1. /\ faults' \in 0..MaxFaults
      /\ memory' \in [origin : Nat \union {Twin}, score : Nat] /\ memory'.origin = Twin
  BY TwinType DEF TwinFinalizes
<1>2. UNCHANGED <<translation, versions, segment, reviews, sess, everFinal, raced, rescoreRaced, abandoned, requests>>
  BY DEF TwinFinalizes
<1>3. VersionsTypeOK'
  BY <1>1, <1>2 DEF VersionsInv, VersionsTypeOK
<1> QED BY <1>1, <1>2, <1>3, Framed

LEMMA TwinInsertsFirstStep ==
  ASSUME VersionsInv, NEW s \in Sessions, TwinInsertsFirst(s)
  PROVE  VersionsInv'
<1>1. /\ faults' \in 0..MaxFaults
      /\ memory' \in [origin : Nat \union {Twin}, score : Nat] /\ memory'.origin = Twin
  BY TwinType DEF TwinInsertsFirst
<1>2. /\ UNCHANGED <<translation, versions, segment, reviews, everFinal, raced, rescoreRaced, requests>>
      /\ End(s) /\ Abandon(s)
  BY DEF TwinInsertsFirst
<1>3. Moves(s, Idle)
  BY <1>2, EndMove DEF VersionsInv
<1>4. sess[s].review \in Nat
  BY DEF VersionsInv, VersionsTypeOK, Request
<1>5. /\ abandoned \subseteq abandoned' /\ abandoned' \subseteq Nat
      /\ Owns(sess[s]) => sess[s].review \in abandoned'
  BY <1>2, <1>4 DEF Abandon, Owns, VersionsInv, VersionsTypeOK
<1>6. VersionsTypeOK'
  BY <1>1, <1>2, <1>3, <1>5 DEF VersionsInv, VersionsTypeOK, Moves
<1>7. Sound(sess[s])'
  BY <1>3, IdleIsSound DEF Moves
<1>8. \A o \in Sessions :
           \/ sess'[o] = sess[o]
           \/ /\ Sound(sess[o])'
              /\ Owns(sess[o]) => \/ sess[o].review \in abandoned'
                                  \/ sess'[o].review = sess[o].review /\ Owns(sess'[o])
  BY <1>3, <1>5, <1>7 DEF Moves
<1> QED BY <1>1, <1>2, <1>5, <1>6, <1>8, Framed

-------------------------------------------------------------------------------
(* The steps that add a version or a review.                                 *)

Grown ==
  /\ DOMAIN versions \subseteq DOMAIN versions' /\ DOMAIN reviews \subseteq DOMAIN reviews'
  /\ \A v \in DOMAIN versions : versions'[v] = versions[v]
  /\ \A v \in DOMAIN versions' \ DOMAIN versions : ~versions'[v].final
  /\ \A r \in DOMAIN reviews : reviews'[r] = reviews[r]
  /\ everFinal' = everFinal /\ translation'.exists = translation.exists
  /\ translation'.selected = translation.selected

LEMMA StaysSoundGrown ==
  ASSUME Grown, NEW o, sess'[o] = sess[o], Sound(sess[o])
  PROVE  Sound(sess[o])'
<1>1. Course(sess[o])'
  BY DEF Sound, Course
<1>2. HoldsReview(sess[o])'
  BY DEF Grown, Sound, HoldsReview
<1>3. HoldsVersion(sess[o])'
  BY DEF Grown, Sound, HoldsVersion
<1>4. HoldsRow(sess[o])'
  BY DEF Grown, Sound, HoldsRow
<1>5. BelievesRight(sess[o])'
  BY DEF Grown, Sound, BelievesRight, HoldsRow
<1>6. ScoredRight(sess[o])'
  BY DEF Grown, Sound, ScoredRight, HoldsVersion
<1> QED BY <1>1, <1>2, <1>3, <1>4, <1>5, <1>6 DEF Sound

LEMMA GrownInv ==
  ASSUME VersionsInv, VersionsTypeOK', Grown, \A o \in Sessions : Sound(sess[o])', EditsHaveOwners',
         segment'.text = segment.text, memory' = memory, raced' = raced, rescoreRaced' = rescoreRaced,
         translation.exists,
         \A v \in DOMAIN versions' \ DOMAIN versions : versions'[v].review \in DOMAIN reviews' \union {0},
         \A r \in DOMAIN reviews' \ DOMAIN reviews :
            reviews'[r].version \in DOMAIN versions' /\ reviews'[r].status = "pending"
  PROVE  VersionsInv'
<1>1. RowsAreSound'
  BY DEF VersionsInv, RowsAreSound, Grown
<1>2. FinalFlagsAgree'
  <2>1. {v \in DOMAIN versions' : versions'[v].final} = {v \in DOMAIN versions : versions[v].final}
    BY DEF Grown
  <2> QED BY <2>1 DEF VersionsInv, FinalFlagsAgree, Grown
<1>3. ResolutionsAreApplied'
  <2> SUFFICES ASSUME NEW r \in DOMAIN reviews'
               PROVE  LET edits == {v \in DOMAIN versions' : versions'[v].review = r} IN
                      /\ reviews'[r].status = "approved" => reviews'[r].version \in everFinal'
                      /\ reviews'[r].status = "edited" => edits \intersect everFinal' # {}
                      /\ reviews'[r].status = "pending" /\ edits # {} =>
                           r \in abandoned' \/ \E s \in Sessions : sess'[s].review = r
    BY DEF ResolutionsAreApplied
  <2>1. r # 0
    BY LenProperties DEF VersionsTypeOK
  <2>2. reviews'[r].status = "pending" \/ (r \in DOMAIN reviews /\ reviews'[r] = reviews[r])
    BY DEF Grown
  <2> QED BY <2>1, <2>2 DEF VersionsInv, ResolutionsAreApplied, EditsHaveOwners, Grown
<1>4. MemoryFollowsSelection'
  BY DEF VersionsInv, MemoryFollowsSelection, RowsAreSound, Grown, Twin
<1> QED BY <1>1, <1>2, <1>3, <1>4 DEF VersionsInv

LEMMA AppendFacts ==
  ASSUME NEW T, NEW f \in Seq(T), NEW e \in T
  PROVE  /\ Append(f, e) \in Seq(T) /\ Len(f) + 1 \notin DOMAIN f /\ Len(f) + 1 \in Nat \ {0}
         /\ DOMAIN Append(f, e) = DOMAIN f \union {Len(f) + 1}
         /\ \A i \in DOMAIN f : Append(f, e)[i] = f[i]
         /\ Append(f, e)[Len(f) + 1] = e
  BY AppendProperties, LenProperties

LEMMA CommitVersionStep ==
  ASSUME VersionsInv, NEW s \in Sessions, CommitVersion(s)
  PROVE  VersionsInv'
<1> DEFINE x == sess[s]  y == sess'[s]  q == IF x.review = 0 THEN 0 ELSE x.score
           new == [final |-> FALSE, score |-> q, review |-> x.review]
<1>1. /\ x.pc = "insert" /\ x.num = Len(versions) + 1 /\ versions' = Append(versions, new)
      /\ UNCHANGED <<segment, memory, reviews, ghosts>>
  BY DEF CommitVersion, At
<1>2. x \in Request /\ Sound(x) /\ VersionsTypeOK
  BY DEF VersionsInv, VersionsTypeOK
<1>3. q \in Nat /\ x.review \in Nat
  BY <1>2 DEF Request
<1> HIDE DEF q
<1>4. new \in VersionRow /\ new.final = FALSE /\ new.score = q /\ new.review = x.review
  BY <1>3 DEF VersionRow
<1> HIDE DEF new
<1>5. /\ versions' \in Seq(VersionRow) /\ x.num \notin DOMAIN versions
      /\ DOMAIN versions' = DOMAIN versions \union {x.num}
      /\ \A v \in DOMAIN versions : versions'[v] = versions[v]
      /\ versions'[x.num] = new
  BY <1>1, <1>2, <1>4, AppendFacts DEF VersionsTypeOK
<1>6. /\ translation' \in TranslationRow
      /\ translation'.exists = translation.exists /\ translation'.selected = translation.selected
  BY <1>2, StatusOnly DEF CommitVersion, VersionsTypeOK, Statuses
<1>7. Grown
  BY <1>1, <1>4, <1>5, <1>6 DEF Grown, ghosts
<1>8. translation.exists
  BY <1>1, <1>2 DEF Sound, HoldsRow
<1>9. /\ sess' \in [Sessions -> Request] /\ Sound(sess[s])'
      /\ \A o \in Sessions \ {s} : sess'[o] = sess[o]
      /\ x.review # 0 => y.review = x.review /\ y.pc = "select"
  <2>1. CASE x.op = "generate"
    <3>1. End(s)
      BY <2>1 DEF CommitVersion, End
    <3>2. Moves(s, Idle)
      BY <1>2, <3>1, EndMove
    <3>3. x.review = 0
      BY <1>2, <2>1 DEF Sound, HoldsReview, Resolving
    <3> QED BY <3>2, <3>3, IdleIsSound DEF Moves
  <2>2. CASE x.op # "generate"
    <3>1. /\ Moves(s, y)
          /\ y.op = IF x.op = "pipeline" THEN "generateFinal" ELSE x.op
          /\ y.pc = IF x.op = "pipeline" THEN "begin" ELSE "select"
          /\ y.target = x.num /\ y.review = x.review /\ ~y.rescored /\ y.overtaken = x.overtaken
          /\ y.score = IF x.review = 0 THEN 0 ELSE x.score
          /\ y.row = IF x.review = 0 THEN translation' ELSE x.row
          /\ y.stale = (x.stale /\ x.flags # <<>>)
          /\ DOMAIN y.flags = DOMAIN x.flags \union {x.num}
          /\ y.flags[x.num] = FALSE
          /\ \A v \in DOMAIN x.flags \ {x.num} : y.flags[v] = x.flags[v]
      BY <1>2, <2>2, CommitVersionMove
    <3>2. y.score = q
      BY <3>1 DEF q
    <3>3. x.review = 0 <=> x.op \notin Resolving
      BY <1>1, <1>2 DEF Sound, HoldsReview
    <3>4. x.op \in {"generateFinal", "pipeline", "edit", "editor"}
      BY <1>1, <1>2, <2>2 DEF Sound, Course
    <3>5. Course(sess[s])'
      BY <3>1, <3>4 DEF Course
    <3>6. HoldsReview(sess[s])'
      BY <1>1, <1>2, <3>1, <3>3, <3>4 DEF HoldsReview, Sound, Resolving, ghosts
    <3>7. HoldsVersion(sess[s])'
      BY <1>4, <1>5, <3>1, <3>4 DEF HoldsVersion
    <3>8. HoldsRow(sess[s])'
      <4>1. y.row.exists
        BY <1>2, <1>6, <1>8, <3>1, <3>3 DEF Sound, HoldsRow
      <4>2. DOMAIN y.flags \subseteq DOMAIN versions' /\ y.target \in DOMAIN y.flags
        BY <1>2, <1>5, <3>1 DEF Sound, HoldsRow
      <4> QED BY <4>1, <4>2, <1>6, <1>8, <3>1, <3>4 DEF HoldsRow
    <3>9. BelievesRight(sess[s])'
      <4>1. SUFFICES ASSUME ~y.stale
                     PROVE  /\ y.row.selected = translation'.selected
                            /\ \A v \in DOMAIN y.flags : y.flags[v] = versions'[v].final
        BY <3>1 DEF BelievesRight
      <4>2. DOMAIN x.flags = {} \/ ~x.stale
        <5>1. y.stale = (x.stale /\ x.flags # <<>>)
          BY <3>1
        <5>2. x.flags = <<>> => DOMAIN x.flags = {}
          OBVIOUS
        <5> QED BY <4>1, <5>1, <5>2
      <4>3. DOMAIN x.flags # {} => /\ x.row.selected = translation.selected
                                   /\ \A v \in DOMAIN x.flags : x.flags[v] = versions[v].final
        BY <1>1, <1>2, <4>2 DEF Sound, BelievesRight, HoldsRow
      <4>4. x.review # 0 => DOMAIN x.flags # {}
        BY <1>2, <3>3 DEF Sound, HoldsRow
      <4>5. DOMAIN x.flags \subseteq DOMAIN versions
        BY <1>2 DEF Sound, HoldsRow
      <4>6. y.row.selected = translation'.selected
        BY <1>6, <3>1, <4>3, <4>4
      <4>7. ASSUME NEW v \in DOMAIN y.flags
            PROVE  y.flags[v] = versions'[v].final
        BY <1>4, <1>5, <3>1, <4>3, <4>5
      <4> QED BY <4>6, <4>7
    <3>10. ScoredRight(sess[s])'
      BY <1>4, <1>5, <3>1, <3>2 DEF ScoredRight
    <3>11. Sound(sess[s])'
      BY <3>5, <3>6, <3>7, <3>8, <3>9, <3>10 DEF Sound
    <3> QED BY <3>1, <3>3, <3>4, <3>11 DEF Moves, Resolving
  <2> QED BY <2>1, <2>2
<1>10. VersionsTypeOK'
  BY <1>1, <1>2, <1>5, <1>6, <1>9 DEF VersionsTypeOK, ghosts
<1>11. \A o \in Sessions : Sound(sess[o])'
  BY <1>7, <1>9, StaysSoundGrown DEF VersionsInv
<1>12. EditsHaveOwners'
  <2> SUFFICES ASSUME NEW v \in DOMAIN versions', versions'[v].review # 0,
                      reviews[versions'[v].review].status = "pending", versions'[v].review \notin abandoned
               PROVE  \E t \in Sessions : /\ sess'[t].review = versions'[v].review
                                          /\ sess'[t].pc \in {"select", "write", "close"}
    BY <1>1 DEF EditsHaveOwners, ghosts
  <2>1. CASE v \in DOMAIN versions
    <3>1. PICK t \in Sessions : sess[t].review = versions[v].review /\ sess[t].pc \in {"select", "write", "close"}
      BY <1>5, <2>1 DEF VersionsInv, EditsHaveOwners
    <3> QED BY <1>1, <1>5, <1>9, <2>1, <3>1
  <2>2. CASE v = x.num
    BY <1>4, <1>5, <1>9, <2>2
  <2> QED BY <1>5, <2>1, <2>2
<1>13. x.review \in DOMAIN reviews \union {0}
  BY <1>2 DEF Sound, HoldsReview
<1> QED BY <1>1, <1>4, <1>5, <1>7, <1>8, <1>10, <1>11, <1>12, <1>13, GrownInv DEF ghosts

LEMMA AddReviewStep ==
  ASSUME VersionsInv, NEW s \in Sessions, AddReview(s)
  PROVE  VersionsInv'
<1> DEFINE x == sess[s]  y == sess'[s]  n == Len(reviews) + 1
           new == [version |-> x.target, status |-> "pending"]
<1>1. /\ x.pc = "add" /\ reviews' = Append(reviews, new)
      /\ UNCHANGED <<translation, versions, segment, memory, ghosts>>
  BY DEF AddReview, At
<1>2. x \in Request /\ Sound(x) /\ VersionsTypeOK
  BY DEF VersionsInv, VersionsTypeOK
<1>3. new \in ReviewRow /\ new.version = x.target /\ new.status = "pending"
  BY <1>2 DEF ReviewRow, Request
<1> HIDE DEF new
<1>4. /\ reviews' \in Seq(ReviewRow) /\ n \notin DOMAIN reviews /\ n # 0
      /\ DOMAIN reviews' = DOMAIN reviews \union {n}
      /\ \A r \in DOMAIN reviews : reviews'[r] = reviews[r]
      /\ reviews'[n] = new
  BY <1>1, <1>2, <1>3, AppendFacts DEF VersionsTypeOK
<1>5. x.target \in DOMAIN versions
  BY <1>1, <1>2 DEF Sound, HoldsVersion
<1>6. translation.exists
  BY <1>5 DEF VersionsInv, RowsAreSound
<1>7. Grown
  BY <1>1, <1>4 DEF Grown, ghosts
<1>8. \/ x.op # "editor" /\ Moves(s, Idle)
      \/ /\ x.op = "editor"
         /\ Moves(s, y) /\ Keeps(x, y)
         /\ y.pc = "resolve" /\ y.flags = x.flags /\ y.row = x.row /\ y.review = n
  BY <1>2, AddReviewMove
<1>9. Sound(sess[s])'
  <2>1. CASE x.op # "editor"
    BY <1>8, <2>1, IdleIsSound DEF Moves
  <2>2. CASE x.op = "editor"
    <3>1. /\ Keeps(x, y) /\ y.pc = "resolve" /\ y.flags = x.flags /\ y.row = x.row /\ y.review = n
      BY <1>8, <2>2
    <3>2. Course(sess[s])' /\ HoldsVersion(sess[s])' /\ ScoredRight(sess[s])'
      BY <2>2, <3>1 DEF Keeps, Course, HoldsVersion, ScoredRight
    <3>3. HoldsReview(sess[s])'
      BY <1>3, <1>4, <2>2, <3>1 DEF Keeps, HoldsReview, Resolving
    <3>4. HoldsRow(sess[s])'
      BY <1>1, <1>2, <1>6, <2>2, <3>1 DEF Keeps, Sound, HoldsRow
    <3>5. BelievesRight(sess[s])'
      BY <1>1, <1>2, <2>2, <3>1 DEF Keeps, Sound, BelievesRight
    <3> QED BY <3>2, <3>3, <3>4, <3>5 DEF Sound
  <2> QED BY <2>1, <2>2
<1>10. sess' \in [Sessions -> Request] /\ \A o \in Sessions \ {s} : sess'[o] = sess[o]
  BY <1>8 DEF Moves
<1>11. VersionsTypeOK'
  BY <1>1, <1>2, <1>4, <1>10 DEF VersionsTypeOK, ghosts
<1>12. \A o \in Sessions : Sound(sess[o])'
  BY <1>7, <1>9, <1>10, StaysSoundGrown DEF VersionsInv
<1>13. EditsHaveOwners'
  <2> SUFFICES ASSUME NEW v \in DOMAIN versions, versions[v].review # 0,
                      reviews'[versions[v].review].status = "pending", versions[v].review \notin abandoned
               PROVE  \E t \in Sessions : /\ sess'[t].review = versions[v].review
                                          /\ sess'[t].pc \in {"select", "write", "close"}
    BY <1>1 DEF EditsHaveOwners, ghosts
  <2>1. versions[v].review \in DOMAIN reviews
    BY DEF VersionsInv, RowsAreSound
  <2>2. PICK t \in Sessions : sess[t].review = versions[v].review /\ sess[t].pc \in {"select", "write", "close"}
    BY <1>4, <2>1 DEF VersionsInv, EditsHaveOwners
  <2> QED BY <1>1, <1>10, <2>2
<1> QED BY <1>1, <1>3, <1>4, <1>5, <1>6, <1>7, <1>11, <1>12, <1>13, GrownInv DEF ghosts

-------------------------------------------------------------------------------
(* The steps that decide, score and finalize.                                *)

LEMMA DecidedStep ==
  ASSUME VersionsInv, NEW s \in Sessions, NEW new \in {"approved", "edited", "rejected"}, Decided(s, new),
         sess[s].op \in Resolving, sess[s].pc # "add",
         new = "approved" => sess[s].op = "approve" /\ sess[s].pc = "close",
         new = "edited" => sess[s].op \in {"edit", "editor"} /\ sess[s].pc = "close",
         ~Owns(sess[s]) \/ new # "rejected",
         versions' = versions, memory' = memory, UNCHANGED ghosts,
         translation' \in TranslationRow, translation'.exists = translation.exists,
         translation'.selected = translation.selected,
         segment' \in [text : Nat, status : {"pending", "translated", "needs_review"}],
         segment'.text = segment.text
  PROVE  VersionsInv'
<1> DEFINE x == sess[s]  r == x.review
<1>1. x \in Request /\ Sound(x) /\ VersionsTypeOK
  BY DEF VersionsInv, VersionsTypeOK
<1>2. r \in DOMAIN reviews /\ r # 0 /\ r \in 1..Len(reviews)
  BY <1>1, LenProperties DEF Sound, HoldsReview, VersionsTypeOK
<1>3. /\ reviews' \in Seq(ReviewRow) /\ DOMAIN reviews' = DOMAIN reviews
      /\ \A q \in DOMAIN reviews : /\ reviews'[q].version = reviews[q].version
                                   /\ q # r => reviews'[q].status = reviews[q].status
      /\ reviews'[r].status = new
  <2>1. reviews' = [reviews EXCEPT ![r] = [reviews[r] EXCEPT !.status = new]]
    BY DEF Decided
  <2>2. reviews[r] \in ReviewRow
    BY <1>1, <1>2, ElementOfSeq DEF VersionsTypeOK
  <2> DEFINE e == [reviews[r] EXCEPT !.status = new]
  <2>3. e \in ReviewRow /\ e.version = reviews[r].version /\ e.status = new
    BY <2>2 DEF ReviewRow
  <2> HIDE DEF e
  <2>4. reviews' = [reviews EXCEPT ![r] = e]
    BY <2>1 DEF e
  <2> QED BY <1>1, <1>2, <2>3, <2>4, ExceptSeq, LenProperties DEF VersionsTypeOK
<1>4. /\ sess' \in [Sessions -> Request]
      /\ sess'[s] = Idle
      /\ \A o \in Sessions \ {s} :
           LET z == sess[o]  y == sess'[o] IN
           /\ y.op = z.op /\ y.pc = z.pc /\ y.target = z.target /\ y.score = z.score
           /\ y.row = z.row /\ y.flags = z.flags /\ y.review = z.review
           /\ y.stale = z.stale /\ y.rescored = z.rescored
           /\ y.overtaken = (z.overtaken \/ z.review = r)
  BY <1>1, DecidedMove
<1>5. VersionsTypeOK'
  BY <1>1, <1>3, <1>4 DEF VersionsTypeOK, ghosts
<1>6. everFinal' = everFinal /\ abandoned' = abandoned /\ raced' = raced /\ rescoreRaced' = rescoreRaced
  BY DEF ghosts
<1>7. ASSUME NEW o \in Sessions
      PROVE  Sound(sess[o])'
  <2>1. CASE o = s
    BY <1>4, <2>1, IdleIsSound
  <2>2. CASE o # s
    <3> DEFINE z == sess[o]  y == sess'[o]
    <3>1. /\ y.op = z.op /\ y.pc = z.pc /\ y.target = z.target /\ y.score = z.score
          /\ y.row = z.row /\ y.flags = z.flags /\ y.review = z.review
          /\ y.stale = z.stale /\ y.rescored = z.rescored
          /\ y.overtaken = (z.overtaken \/ z.review = r)
      BY <1>4, <2>2
    <3>2. Sound(z)
      BY DEF VersionsInv
    <3>3. Course(sess[o])' /\ HoldsVersion(sess[o])'
      BY <1>6, <3>1, <3>2 DEF Sound, Course, HoldsVersion
    <3>4. HoldsReview(sess[o])'
      BY <1>3, <3>1, <3>2 DEF Sound, HoldsReview
    <3>5. HoldsRow(sess[o])'
      BY <3>1, <3>2 DEF Sound, HoldsRow
    <3>6. BelievesRight(sess[o])'
      BY <3>1, <3>2 DEF Sound, BelievesRight
    <3>7. ScoredRight(sess[o])'
      BY <3>1, <3>2 DEF Sound, ScoredRight
    <3> QED BY <3>3, <3>4, <3>5, <3>6, <3>7 DEF Sound
  <2> QED BY <2>1, <2>2
<1>8. RowsAreSound'
  BY <1>3, <1>6 DEF VersionsInv, RowsAreSound
<1>9. EditsHaveOwners'
  <2> SUFFICES ASSUME NEW v \in DOMAIN versions, versions[v].review # 0,
                      reviews'[versions[v].review].status = "pending", versions[v].review \notin abandoned
               PROVE  \E t \in Sessions : /\ sess'[t].review = versions[v].review
                                          /\ sess'[t].pc \in {"select", "write", "close"}
    BY <1>6 DEF EditsHaveOwners
  <2>1. versions[v].review \in DOMAIN reviews /\ versions[v].review # r
    BY <1>3 DEF VersionsInv, RowsAreSound
  <2>2. PICK t \in Sessions : sess[t].review = versions[v].review /\ sess[t].pc \in {"select", "write", "close"}
    BY <1>3, <2>1 DEF VersionsInv, EditsHaveOwners
  <2> QED BY <1>4, <2>1, <2>2
<1>10. FinalFlagsAgree'
  BY <1>6 DEF VersionsInv, FinalFlagsAgree
<1>11. ResolutionsAreApplied'
  <2> SUFFICES ASSUME NEW q \in DOMAIN reviews
               PROVE  LET edits == {v \in DOMAIN versions : versions[v].review = q} IN
                      /\ reviews'[q].status = "approved" => reviews'[q].version \in everFinal
                      /\ reviews'[q].status = "edited" => edits \intersect everFinal # {}
                      /\ reviews'[q].status = "pending" /\ edits # {} =>
                           q \in abandoned \/ \E t \in Sessions : sess'[t].review = q
    BY <1>3, <1>6 DEF ResolutionsAreApplied
  <2>1. q # 0
    BY <1>1, LenProperties DEF VersionsTypeOK
  <2>2. CASE q # r
    BY <1>3, <1>6, <1>9, <2>1, <2>2 DEF VersionsInv, ResolutionsAreApplied, EditsHaveOwners
  <2>3. CASE q = r
    <3>1. new = "approved" => reviews[r].version \in everFinal
      BY <1>1, <1>2 DEF Sound, HoldsReview, HoldsVersion
    <3>2. new = "edited" => x.target \in DOMAIN versions /\ x.target \in everFinal /\ versions[x.target].review = r
      BY <1>1 DEF Sound, HoldsVersion
    <3> QED BY <1>2, <1>3, <2>3, <3>1, <3>2
  <2> QED BY <2>2, <2>3
<1>12. MemoryFollowsSelection'
  BY <1>6 DEF VersionsInv, MemoryFollowsSelection
<1> QED BY <1>5, <1>7, <1>8, <1>9, <1>10, <1>11, <1>12 DEF VersionsInv

LEMMA RejectStep ==
  ASSUME VersionsInv, NEW s \in Sessions, Reject(s)
  PROVE  VersionsInv'
<1>1. /\ translation' \in TranslationRow
      /\ translation'.exists = translation.exists /\ translation'.selected = translation.selected
  BY StatusOnly DEF Reject, VersionsInv, Statuses
<1>2. /\ segment' \in [text : Nat, status : {"pending", "translated", "needs_review"}]
      /\ segment'.text = segment.text
  BY DEF Reject, VersionsInv, VersionsTypeOK
<1>3. /\ sess[s].pc = "resolve" /\ sess[s].op = "reject" /\ Decided(s, "rejected")
      /\ UNCHANGED <<versions, memory, ghosts>>
  BY DEF Reject, At
<1> QED BY <1>1, <1>2, <1>3, DecidedStep DEF Owns, Resolving

LEMMA CloseReviewStep ==
  ASSUME VersionsInv, NEW s \in Sessions, CloseReview(s)
  PROVE  VersionsInv'
<1>1. /\ sess[s].pc = "close" /\ Decided(s, IF sess[s].op = "approve" THEN "approved" ELSE "edited")
      /\ UNCHANGED <<translation, versions, segment, memory, ghosts>>
  BY DEF CloseReview, At
<1>2. sess[s].op \in {"approve", "edit", "editor"}
  BY <1>1 DEF VersionsInv, Sound, Course
<1>3. /\ translation \in TranslationRow
      /\ segment \in [text : Nat, status : {"pending", "translated", "needs_review"}]
  BY DEF VersionsInv, VersionsTypeOK
<1>4. CASE sess[s].op = "approve"
  BY <1>1, <1>3, <1>4, DecidedStep DEF Resolving
<1>5. CASE sess[s].op # "approve"
  BY <1>1, <1>2, <1>3, <1>5, DecidedStep DEF Resolving
<1> QED BY <1>4, <1>5

LEMMA EvaluateStep ==
  ASSUME VersionsInv, NEW s \in Sessions, Evaluate(s)
  PROVE  VersionsInv'
<1> DEFINE x == sess[s]  v == x.target
<1>1. x \in Request /\ Sound(x) /\ VersionsTypeOK
  BY DEF VersionsInv, VersionsTypeOK
<1>2. PICK q \in Scores :
        /\ versions' = [versions EXCEPT ![v].score = Assigned(@, x.score, q)]
        /\ memory' = IF memory.origin = v THEN [memory EXCEPT !.score = q] ELSE memory
  BY DEF Evaluate
<1>3. /\ x.pc = "score" /\ rescoreRaced' = (rescoreRaced \/ x.rescored)
      /\ UNCHANGED <<translation, segment, reviews, everFinal, raced, abandoned, requests, faults>>
  BY DEF Evaluate, At
<1>4. v \in DOMAIN versions /\ v \in 1..Len(versions) /\ v \in Nat \ {0} /\ versions[v] \in VersionRow
  BY <1>1, <1>3, LenProperties, ElementOfSeq DEF Sound, HoldsVersion, VersionsTypeOK
<1>5. q \in Nat
  BY ConstantsAssumption
<1>6. /\ versions' \in Seq(VersionRow) /\ DOMAIN versions' = DOMAIN versions
      /\ \A w \in DOMAIN versions : /\ versions'[w].final = versions[w].final
                                    /\ versions'[w].review = versions[w].review
                                    /\ w # v => versions'[w].score = versions[w].score
      /\ ~x.rescored => versions'[v].score = q
  <2> DEFINE n == Assigned(versions[v].score, x.score, q)
             e == [versions[v] EXCEPT !.score = n]
  <2>1. n \in Nat /\ (~x.rescored => n = q)
    BY <1>1, <1>3, <1>4, <1>5 DEF Assigned, VersionRow, Sound, ScoredRight
  <2>2. versions' = [versions EXCEPT ![v] = e]
    BY <1>2, <1>4 DEF VersionRow
  <2> HIDE DEF n
  <2>3. e \in VersionRow /\ e.final = versions[v].final /\ e.review = versions[v].review /\ e.score = n
    BY <1>4, <2>1 DEF VersionRow
  <2> HIDE DEF e
  <2> QED BY <1>1, <1>4, <2>1, <2>2, <2>3, ExceptSeq, LenProperties DEF VersionsTypeOK
<1>7. /\ memory' \in [origin : Nat \union {Twin}, score : Nat] /\ memory'.origin = memory.origin
      /\ IF memory.origin = v THEN memory'.score = q ELSE memory'.score = memory.score
  BY <1>1, <1>2, <1>5 DEF VersionsTypeOK
<1>8. /\ sess' \in [Sessions -> Request]
      /\ sess'[s] = Idle
      /\ \A o \in Sessions \ {s} :
           LET z == sess[o]  y == sess'[o] IN
           /\ y.op = z.op /\ y.pc = z.pc /\ y.target = z.target /\ y.score = z.score
           /\ y.row = z.row /\ y.flags = z.flags /\ y.review = z.review
           /\ y.stale = z.stale /\ y.overtaken = z.overtaken
           /\ y.rescored = (z.rescored \/ z.target = v)
  BY <1>1, EvaluateMove
<1>9. VersionsTypeOK'
  <2>1. rescoreRaced' \in BOOLEAN
    BY <1>1, <1>3 DEF VersionsTypeOK, Request
  <2> QED BY <1>1, <1>3, <1>6, <1>7, <1>8, <2>1 DEF VersionsTypeOK
<1>10. ASSUME NEW o \in Sessions
       PROVE  Sound(sess[o])'
  <2>1. CASE o = s
    BY <1>8, <2>1, IdleIsSound
  <2>2. CASE o # s
    <3> DEFINE z == sess[o]  y == sess'[o]
    <3>1. /\ y.op = z.op /\ y.pc = z.pc /\ y.target = z.target /\ y.score = z.score
          /\ y.row = z.row /\ y.flags = z.flags /\ y.review = z.review
          /\ y.stale = z.stale /\ y.overtaken = z.overtaken
          /\ y.rescored = (z.rescored \/ z.target = v)
      BY <1>8, <2>2
    <3>2. Sound(z)
      BY DEF VersionsInv
    <3>3. Course(sess[o])' /\ HoldsReview(sess[o])' /\ HoldsVersion(sess[o])'
      BY <1>3, <1>6, <3>1, <3>2 DEF Sound, Course, HoldsReview, HoldsVersion
    <3>4. HoldsRow(sess[o])'
      BY <1>3, <1>6, <3>1, <3>2 DEF Sound, HoldsRow
    <3>5. BelievesRight(sess[o])'
      BY <1>3, <1>6, <3>1, <3>2 DEF Sound, BelievesRight, HoldsRow
    <3>6. ScoredRight(sess[o])'
      BY <1>6, <3>1, <3>2 DEF Sound, ScoredRight, HoldsVersion
    <3> QED BY <3>3, <3>4, <3>5, <3>6 DEF Sound
  <2> QED BY <2>1, <2>2
<1>11. RowsAreSound'
  <2>1. translation.exists
    BY <1>4 DEF VersionsInv, RowsAreSound
  <2> QED BY <1>3, <1>6, <1>7, <2>1 DEF VersionsInv, RowsAreSound
<1>12. EditsHaveOwners'
  <2> SUFFICES ASSUME NEW w \in DOMAIN versions, versions[w].review # 0,
                      reviews[versions[w].review].status = "pending", versions[w].review \notin abandoned
               PROVE  \E t \in Sessions : /\ sess'[t].review = versions[w].review
                                          /\ sess'[t].pc \in {"select", "write", "close"}
    BY <1>3, <1>6 DEF EditsHaveOwners
  <2>1. PICK t \in Sessions : sess[t].review = versions[w].review /\ sess[t].pc \in {"select", "write", "close"}
    BY DEF VersionsInv, EditsHaveOwners
  <2> QED BY <1>3, <1>8, <2>1
<1>13. FinalFlagsAgree'
  <2>1. {w \in DOMAIN versions' : versions'[w].final} = {w \in DOMAIN versions : versions[w].final}
    BY <1>6
  <2> QED BY <1>3, <2>1 DEF VersionsInv, FinalFlagsAgree
<1>14. ResolutionsAreApplied'
  <2> SUFFICES ASSUME NEW r \in DOMAIN reviews
               PROVE  LET edits == {w \in DOMAIN versions' : versions'[w].review = r} IN
                      /\ reviews[r].status = "approved" => reviews[r].version \in everFinal
                      /\ reviews[r].status = "edited" => edits \intersect everFinal # {}
                      /\ reviews[r].status = "pending" /\ edits # {} =>
                           r \in abandoned \/ \E t \in Sessions : sess'[t].review = r
    BY <1>3 DEF ResolutionsAreApplied
  <2>1. {w \in DOMAIN versions' : versions'[w].review = r} = {w \in DOMAIN versions : versions[w].review = r}
    BY <1>6
  <2>2. r # 0
    BY <1>1, LenProperties DEF VersionsTypeOK
  <2> QED BY <1>3, <1>12, <1>6, <2>1, <2>2 DEF VersionsInv, ResolutionsAreApplied, EditsHaveOwners
<1>15. MemoryFollowsSelection'
  <2> SUFFICES ASSUME ~raced
               PROVE  /\ memory'.origin \in {Twin, translation.selected}
                      /\ memory'.origin > 0 /\ ~rescoreRaced' => memory'.score = versions'[memory'.origin].score
    BY <1>3 DEF MemoryFollowsSelection
  <2>1. memory'.origin \in {Twin, translation.selected}
    BY <1>7 DEF VersionsInv, MemoryFollowsSelection
  <2>2. ASSUME memory.origin > 0, ~rescoreRaced'
        PROVE  memory'.score = versions'[memory.origin].score
    <3>1. ~rescoreRaced /\ ~x.rescored
      BY <1>3, <2>2
    <3>2. memory.origin \in DOMAIN versions
      BY <2>2 DEF VersionsInv, RowsAreSound, Twin
    <3>3. memory.score = versions[memory.origin].score
      BY <2>2, <3>1 DEF VersionsInv, MemoryFollowsSelection
    <3> QED BY <1>6, <1>7, <3>1, <3>2, <3>3
  <2> QED BY <1>7, <2>1, <2>2
<1> QED BY <1>9, <1>10, <1>11, <1>12, <1>13, <1>14, <1>15 DEF VersionsInv

(* The flags after a finalization.                                           *)
LEMMA FinalFlagsType ==
  ASSUME VersionsTypeOK, NEW s \in Sessions
  PROVE  /\ FinalFlags(s) \in Seq(VersionRow) /\ DOMAIN FinalFlags(s) = DOMAIN versions
         /\ \A v \in DOMAIN versions :
              /\ FinalFlags(s)[v].review = versions[v].review /\ FinalFlags(s)[v].score = versions[v].score
              /\ FinalFlags(s)[v].final =
                   IF v \in DOMAIN sess[s].flags
                     THEN Assigned(versions[v].final, sess[s].flags[v], v = sess[s].target)
                     ELSE versions[v].final
<1> DEFINE F == FinalFlags(s)
<1>1. \A v \in DOMAIN versions : versions[v] \in VersionRow
  BY FlagType
<1>2. ASSUME NEW z \in VersionRow, NEW b \in BOOLEAN
      PROVE  LET y == [z EXCEPT !.final = b]
             IN  y \in VersionRow /\ y.review = z.review /\ y.score = z.score /\ y.final = b
  BY <1>2 DEF VersionRow
<1>3. sess[s].flags \in [DOMAIN sess[s].flags -> BOOLEAN]
  <2>1. sess[s].flags \in Flags
    BY DEF VersionsTypeOK, Request
  <2> QED BY <2>1 DEF Flags
<1>4. ASSUME NEW v \in DOMAIN versions
      PROVE  /\ F[v] \in VersionRow
             /\ F[v].review = versions[v].review /\ F[v].score = versions[v].score
             /\ F[v].final = IF v \in DOMAIN sess[s].flags
                               THEN Assigned(versions[v].final, sess[s].flags[v], v = sess[s].target)
                               ELSE versions[v].final
  <2>1. CASE v \in DOMAIN sess[s].flags
    <3> DEFINE b == Assigned(versions[v].final, sess[s].flags[v], v = sess[s].target)
               y == [versions[v] EXCEPT !.final = b]
    <3>1. b \in BOOLEAN
      BY <1>1, <1>3, <2>1 DEF Assigned, VersionRow
    <3>2. F[v] = y
      <4>1. F[v] = [versions[v] EXCEPT !.final = Assigned(@, sess[s].flags[v], v = sess[s].target)]
        BY <2>1 DEF FinalFlags
      <4> QED BY <4>1, <1>1 DEF VersionRow
    <3>3. b = Assigned(versions[v].final, sess[s].flags[v], v = sess[s].target)
      OBVIOUS
    <3> HIDE DEF b
    <3>4. y \in VersionRow /\ y.review = versions[v].review /\ y.score = versions[v].score /\ y.final = b
      BY <1>1, <1>2, <3>1
    <3> HIDE DEF y, F
    <3> QED BY <2>1, <3>2, <3>3, <3>4
  <2>2. CASE v \notin DOMAIN sess[s].flags
    BY <1>1, <2>2 DEF FinalFlags
  <2> QED BY <2>1, <2>2
<1>5. DOMAIN F = DOMAIN versions /\ F = [v \in DOMAIN versions |-> F[v]]
  BY DEF FinalFlags
<1> HIDE DEF F
<1>6. DOMAIN versions = 1..Len(versions) /\ Len(versions) \in Nat
  BY LenProperties DEF VersionsTypeOK
<1>7. F \in [1..Len(versions) -> VersionRow]
  BY <1>4, <1>5, <1>6
<1>8. F \in Seq(VersionRow)
  BY <1>6, <1>7, SeqDef
<1> QED BY <1>4, <1>5, <1>8 DEF F

LEMMA FinalizeStep ==
  ASSUME VersionsInv, NEW s \in Sessions, Finalize(s)
  PROVE  VersionsInv'
<1> DEFINE x == sess[s]  v == x.target
<1>1. x \in Request /\ Sound(x) /\ VersionsTypeOK
  BY DEF VersionsInv, VersionsTypeOK
<1>2. /\ x.pc = "write" /\ versions' = FinalFlags(s)
      /\ segment' = [text |-> v, status |-> "translated"]
      /\ memory' = [origin |-> v, score |-> x.score]
      /\ everFinal' = everFinal \union {v}
      /\ raced' = (raced \/ x.stale) /\ rescoreRaced' = (rescoreRaced \/ x.rescored)
      /\ UNCHANGED <<reviews, abandoned, requests, faults>>
  BY DEF Finalize, At
<1>3. /\ v \in DOMAIN versions /\ v \in Nat \ {0} /\ v \in DOMAIN x.flags
      /\ translation.exists /\ x.row.exists
  BY <1>1, <1>2, FlagType DEF Sound, HoldsVersion, HoldsRow
<1>4. /\ versions' \in Seq(VersionRow) /\ DOMAIN versions' = DOMAIN versions
      /\ \A w \in DOMAIN versions :
           /\ versions'[w].review = versions[w].review /\ versions'[w].score = versions[w].score
           /\ versions'[w].final =
                IF w \in DOMAIN x.flags THEN Assigned(versions[w].final, x.flags[w], w = v)
                                        ELSE versions[w].final
  BY <1>1, <1>2, FinalFlagsType
<1>5. /\ translation' \in TranslationRow /\ translation'.exists = translation.exists
      /\ translation'.selected = Assigned(translation.selected, x.row.selected, v)
  <2> DEFINE a == Assigned(translation.status, x.row.status, "approved")
             b == Assigned(translation.selected, x.row.selected, v)
  <2>1. translation \in TranslationRow /\ a \in Statuses /\ b \in Nat
    BY <1>1, <1>3 DEF VersionsTypeOK, TranslationRow, Statuses, Assigned
  <2>2. translation' = [translation EXCEPT !.status = a, !.selected = b]
    BY <2>1 DEF Finalize, TranslationRow
  <2>3. b = Assigned(translation.selected, x.row.selected, v)
    OBVIOUS
  <2> HIDE DEF a, b
  <2> QED BY <2>1, <2>2, <2>3 DEF TranslationRow
<1>6. /\ sess' \in [Sessions -> Request]
      /\ IF x.op \in Resolving
           THEN /\ Keeps(x, sess'[s]) /\ sess'[s].pc = "close" /\ sess'[s].flags = x.flags
                /\ sess'[s].row = x.row /\ sess'[s].review = x.review
           ELSE sess'[s] = Idle
      /\ \A o \in Sessions \ {s} :
           IF sess[o].op # "none" /\ sess[o].row.exists
             THEN LET z == sess[o]  y == sess'[o] IN
                  /\ y.op = z.op /\ y.pc = z.pc /\ y.target = z.target /\ y.score = z.score
                  /\ y.row = z.row /\ y.flags = z.flags /\ y.review = z.review
                  /\ y.stale /\ y.rescored = z.rescored /\ y.overtaken = z.overtaken
             ELSE sess'[o] = sess[o]
  BY <1>1, FinalizeMove
<1>7. VersionsTypeOK'
  <2>1. raced' \in BOOLEAN /\ rescoreRaced' \in BOOLEAN
    BY <1>1, <1>2 DEF VersionsTypeOK, Request
  <2>2. segment' \in [text : Nat, status : {"pending", "translated", "needs_review"}]
    BY <1>2, <1>3
  <2>3. memory' \in [origin : Nat \union {Twin}, score : Nat]
    BY <1>1, <1>2, <1>3 DEF Request
  <2> QED BY <1>1, <1>2, <1>3, <1>4, <1>5, <1>6, <2>1, <2>2, <2>3 DEF VersionsTypeOK
<1>8. ASSUME NEW o \in Sessions
      PROVE  Sound(sess[o])'
  <2>1. CASE o = s /\ x.op \notin Resolving
    BY <1>6, <2>1, IdleIsSound
  <2>2. CASE o = s /\ x.op \in Resolving
    <3> DEFINE y == sess'[s]
    <3>1. /\ Keeps(x, y) /\ y.pc = "close" /\ y.flags = x.flags /\ y.row = x.row /\ y.review = x.review
      BY <1>6, <2>2
    <3>2. Course(sess[s])'
      BY <1>1, <1>2, <2>2, <3>1 DEF Keeps, Sound, Course, Resolving
    <3>3. HoldsReview(sess[s])' /\ HoldsVersion(sess[s])'
      BY <1>1, <1>2, <1>3, <1>4, <2>2, <3>1 DEF Keeps, Sound, HoldsReview, HoldsVersion
    <3>4. HoldsRow(sess[s])'
      BY <1>1, <1>2, <1>3, <1>4, <1>5, <2>2, <3>1 DEF Keeps, Sound, HoldsRow, Resolving
    <3>5. BelievesRight(sess[s])' /\ ScoredRight(sess[s])'
      BY <3>1 DEF BelievesRight, ScoredRight
    <3> QED BY <2>2, <3>2, <3>3, <3>4, <3>5 DEF Sound
  <2>3. CASE o # s
    <3> DEFINE z == sess[o]  y == sess'[o]
    <3>1. /\ y.op = z.op /\ y.pc = z.pc /\ y.target = z.target /\ y.score = z.score
          /\ y.row = z.row /\ y.flags = z.flags /\ y.review = z.review
          /\ y.rescored = z.rescored /\ y.overtaken = z.overtaken
          /\ z.op # "none" /\ z.row.exists => y.stale
      BY <1>6, <2>3
    <3>2. Sound(z)
      BY DEF VersionsInv
    <3>3. Course(sess[o])' /\ HoldsReview(sess[o])'
      BY <1>2, <3>1, <3>2 DEF Sound, Course, HoldsReview
    <3>4. HoldsVersion(sess[o])'
      BY <1>2, <1>4, <3>1, <3>2 DEF Sound, HoldsVersion
    <3>5. HoldsRow(sess[o])'
      BY <1>4, <1>5, <3>1, <3>2 DEF Sound, HoldsRow
    <3>6. BelievesRight(sess[o])'
      BY <3>1, <3>2 DEF Sound, BelievesRight, HoldsRow
    <3>7. ScoredRight(sess[o])'
      BY <1>4, <3>1, <3>2 DEF Sound, ScoredRight, HoldsVersion
    <3> QED BY <3>3, <3>4, <3>5, <3>6, <3>7 DEF Sound
  <2> QED BY <2>1, <2>2, <2>3
<1>9. RowsAreSound'
  BY <1>2, <1>3, <1>4, <1>5 DEF VersionsInv, RowsAreSound
<1>10. EditsHaveOwners'
  <2> SUFFICES ASSUME NEW w \in DOMAIN versions, versions[w].review # 0,
                      reviews[versions[w].review].status = "pending", versions[w].review \notin abandoned
               PROVE  \E t \in Sessions : /\ sess'[t].review = versions[w].review
                                          /\ sess'[t].pc \in {"select", "write", "close"}
    BY <1>2, <1>4 DEF EditsHaveOwners
  <2>1. PICK t \in Sessions : sess[t].review = versions[w].review /\ sess[t].pc \in {"select", "write", "close"}
    BY DEF VersionsInv, EditsHaveOwners
  <2>2. t = s => x.op \in Resolving
    BY <1>1, <2>1 DEF Sound, HoldsReview
  <2> QED BY <1>6, <2>1, <2>2
<1>11. FinalFlagsAgree'
  <2> SUFFICES ASSUME ~raced, ~x.stale
               PROVE  /\ {w \in DOMAIN versions' : versions'[w].final} =
                           IF everFinal' = {} THEN {} ELSE {translation'.selected}
                      /\ segment'.text = translation'.selected
    BY <1>2 DEF FinalFlagsAgree
  <2>1. /\ x.row.selected = translation.selected
        /\ \A w \in DOMAIN x.flags : x.flags[w] = versions[w].final
        /\ \A w \in DOMAIN versions \ DOMAIN x.flags : ~versions[w].final
    BY <1>1, <1>2, <1>3 DEF Sound, BelievesRight
  <2>2. translation'.selected = v
    BY <1>5, <2>1 DEF Assigned
  <2>3. ASSUME NEW w \in DOMAIN versions
        PROVE  versions'[w].final <=> w = v
    <3>1. versions[w].final \in BOOLEAN
      BY FlagType, <1>1 DEF VersionRow
    <3>2. CASE w \in DOMAIN x.flags
      <4>1. versions'[w].final = (w = v)
        BY <1>4, <2>1, <3>2 DEF Assigned
      <4> QED BY <4>1
    <3>3. CASE w \notin DOMAIN x.flags
      BY <1>3, <1>4, <2>1, <3>3
    <3> QED BY <3>2, <3>3
  <2>4. {w \in DOMAIN versions' : versions'[w].final} = {v}
    BY <1>3, <1>4, <2>3
  <2> QED BY <1>2, <2>2, <2>4
<1>12. ResolutionsAreApplied'
  <2> SUFFICES ASSUME NEW r \in DOMAIN reviews
               PROVE  LET edits == {w \in DOMAIN versions' : versions'[w].review = r} IN
                      /\ reviews[r].status = "approved" => reviews[r].version \in everFinal'
                      /\ reviews[r].status = "edited" => edits \intersect everFinal' # {}
                      /\ reviews[r].status = "pending" /\ edits # {} =>
                           r \in abandoned \/ \E t \in Sessions : sess'[t].review = r
    BY <1>2 DEF ResolutionsAreApplied
  <2>1. {w \in DOMAIN versions' : versions'[w].review = r} = {w \in DOMAIN versions : versions[w].review = r}
    BY <1>4
  <2>2. r # 0
    BY <1>1, LenProperties DEF VersionsTypeOK
  <2> QED BY <1>2, <1>10, <1>4, <2>1, <2>2 DEF VersionsInv, ResolutionsAreApplied, EditsHaveOwners
<1>13. MemoryFollowsSelection'
  <2> SUFFICES ASSUME ~raced, ~x.stale
               PROVE  /\ memory'.origin \in {Twin, translation'.selected}
                      /\ memory'.origin > 0 /\ ~rescoreRaced' => memory'.score = versions'[memory'.origin].score
    BY <1>2 DEF MemoryFollowsSelection
  <2>1. translation'.selected = v
    BY <1>1, <1>2, <1>3, <1>5 DEF Sound, BelievesRight, Assigned
  <2>2. ~rescoreRaced' => x.score = versions[v].score
    BY <1>1, <1>2 DEF Sound, ScoredRight
  <2> QED BY <1>2, <1>3, <1>4, <2>1, <2>2
<1> QED BY <1>7, <1>8, <1>9, <1>10, <1>11, <1>12, <1>13 DEF VersionsInv

-------------------------------------------------------------------------------
(* The theorems.                                                             *)

LEMMA InitVersionsInv == Init => VersionsInv
<1> SUFFICES ASSUME Init PROVE VersionsInv
  OBVIOUS
<1>1. sess \in [Sessions -> Request] /\ \A s \in Sessions : sess[s] = Idle
  BY IdleRecord DEF Init
<1>2. \A s \in Sessions : Sound(sess[s])
  BY <1>1, IdleRecord DEF Sound, Course, HoldsReview, HoldsVersion, HoldsRow, BelievesRight, ScoredRight, Resolving
<1>3. /\ versions \in Seq(VersionRow) /\ reviews \in Seq(ReviewRow)
      /\ DOMAIN versions = {} /\ DOMAIN reviews = {}
  BY EmptySeq DEF Init
<1>4. VersionsTypeOK
  <2>1. translation \in TranslationRow
    BY DEF Init, NoRow, TranslationRow, Statuses
  <2>2. segment \in [text : Nat, status : {"pending", "translated", "needs_review"}]
    BY DEF Init
  <2>3. memory \in [origin : Nat \union {Twin}, score : Nat]
    BY DEF Init, NoEntry
  <2>4. everFinal \subseteq Nat /\ abandoned \subseteq Nat /\ raced \in BOOLEAN /\ rescoreRaced \in BOOLEAN
    BY DEF Init
  <2>5. requests \in 0..MaxRequests /\ faults \in 0..MaxFaults
    <3>1. requests = 0 /\ faults = 0
      BY DEF Init
    <3> QED BY <3>1, ConstantsAssumption
  <2> QED BY <1>1, <1>3, <2>1, <2>2, <2>3, <2>4, <2>5 DEF VersionsTypeOK
<1>5. RowsAreSound /\ EditsHaveOwners
  BY <1>3 DEF Init, RowsAreSound, EditsHaveOwners, NoRow, NoEntry
<1>6. FinalFlagsAgree /\ ResolutionsAreApplied /\ MemoryFollowsSelection
  BY <1>3 DEF Init, FinalFlagsAgree, ResolutionsAreApplied, MemoryFollowsSelection, NoRow, NoEntry, Twin
<1> QED BY <1>2, <1>4, <1>5, <1>6 DEF VersionsInv

LEMMA NextVersionsInv == VersionsInv /\ [Next]_vars => VersionsInv'
<1> SUFFICES ASSUME VersionsInv, [Next]_vars PROVE VersionsInv'
  OBVIOUS
<1>1. CASE EnsureTranslation
  BY <1>1, EnsureTranslationStep
<1>2. CASE TwinFinalizes
  BY <1>2, TwinFinalizesStep
<1>3. ASSUME NEW s \in Sessions, Generate(s) PROVE VersionsInv'
  BY <1>3, LookupStep, BeginRunStep, RefuseRunStep, ProviderFailsStep, ReadNumberStep,
     CommitVersionStep, NumberTakenStep DEF Generate
<1>4. ASSUME NEW s \in Sessions, Select(s) PROVE VersionsInv'
  BY <1>4, StartFinalizeStep, SelectVersionsStep, FinalizeStep, TwinInsertsFirstStep DEF Select
<1>5. ASSUME NEW s \in Sessions, Review(s) PROVE VersionsInv'
  BY <1>5, RequestReviewStep, AddReviewStep, StartResolveStep, StartEditorStep, RejectStep,
     CloseReviewStep DEF Review
<1>6. ASSUME NEW s \in Sessions, Score(s) PROVE VersionsInv'
  BY <1>6, StartEvaluateStep, EvaluateStep DEF Score
<1>7. ASSUME NEW s \in Sessions, Crash(s) PROVE VersionsInv'
  BY <1>7, CrashStep
<1>8. CASE UNCHANGED vars
  <2>1. UNCHANGED <<translation, versions, segment, memory, reviews, sess, everFinal, raced,
                    rescoreRaced, abandoned, requests, faults>>
    BY <1>8 DEF vars, rows, ghosts
  <2>2. VersionsTypeOK'
    BY <2>1 DEF VersionsInv, VersionsTypeOK
  <2> QED BY <2>1, <2>2, Framed
<1> QED BY <1>1, <1>2, <1>3, <1>4, <1>5, <1>6, <1>7, <1>8 DEF Next

LEMMA VersionsInvariant == Spec => []VersionsInv
  BY InitVersionsInv, NextVersionsInv, PTL DEF Spec

(* What every variable of the model ranges over.                             *)
THEOREM VersionsTypeCorrect == Spec => []VersionsTypeOK
<1>1. VersionsInv => VersionsTypeOK
  BY DEF VersionsInv
<1> QED BY <1>1, VersionsInvariant, PTL

(* However generations, finalizations, reviews, scores and crashes overlap:  *)
(* as long as no finalization wrote over beliefs that another had made stale,*)
(* at most one version is final, it is the selected one, and the segment's   *)
(* text is its text.                                                         *)
THEOREM FlagsAgree == Spec => []FinalFlagsAgree
<1>1. VersionsInv => FinalFlagsAgree
  BY DEF VersionsInv
<1> QED BY <1>1, VersionsInvariant, PTL

(* A review that shows a decision has had it carried out, and text that was  *)
(* written for a review that is pending has a session that goes on with it or*)
(* one that ended in the middle.                                             *)
THEOREM ResolutionsApply == Spec => []ResolutionsAreApplied
<1>1. VersionsInv => ResolutionsAreApplied
  BY DEF VersionsInv
<1> QED BY <1>1, VersionsInvariant, PTL

(* The translation memory's entry is the selected version's with its score,  *)
(* or a twin segment's.                                                      *)
THEOREM MemoryFollows == Spec => []MemoryFollowsSelection
<1>1. VersionsInv => MemoryFollowsSelection
  BY DEF VersionsInv
<1> QED BY <1>1, VersionsInvariant, PTL

(* Only Reject and CloseReview change the status of a review.                *)
LEMMA DecidedOnce ==
  ASSUME VersionsInv, [Next]_vars, NEW r \in DOMAIN reviews,
         reviews[r].status \notin {"pending", reviews'[r].status}
  PROVE  \E s \in Sessions : sess[s].overtaken /\ sess[s].review = r /\ sess'[s] = Idle
<1>1. PICK s \in Sessions : \E new : Decided(s, new)
  <2>1. reviews' # reviews
    OBVIOUS
  <2>2. ASSUME NEW s \in Sessions, AddReview(s) PROVE FALSE
    <3>1. reviews \in Seq(ReviewRow) /\ [version |-> sess[s].target, status |-> "pending"] \in ReviewRow
      BY DEF VersionsInv, VersionsTypeOK, Request, ReviewRow
    <3>2. reviews' = Append(reviews, [version |-> sess[s].target, status |-> "pending"])
      BY <2>2 DEF AddReview
    <3>3. reviews'[r] = reviews[r]
      BY <3>1, <3>2, AppendFacts
    <3> QED BY <3>3
  <2>3. ASSUME NEW s \in Sessions, Generate(s) PROVE FALSE
    BY <2>1, <2>3 DEF Generate, Lookup, BeginRun, RefuseRun, ProviderFails, ReadNumber, CommitVersion,
       NumberTaken, Receive, rows
  <2>4. ASSUME NEW s \in Sessions, Select(s) PROVE FALSE
    BY <2>1, <2>4 DEF Select, StartFinalize, SelectVersions, Finalize, TwinInsertsFirst, Receive, rows
  <2>5. ASSUME NEW s \in Sessions, Score(s) \/ Crash(s) PROVE FALSE
    BY <2>1, <2>5 DEF Score, StartEvaluate, Evaluate, Crash, Receive, rows
  <2>6. ASSUME NEW s \in Sessions, Review(s) PROVE Reject(s) \/ CloseReview(s)
    BY <2>1, <2>2, <2>6 DEF Review, RequestReview, StartResolve, StartEditor, Receive, rows
  <2>7. ~EnsureTranslation /\ ~TwinFinalizes /\ ~UNCHANGED vars
    BY <2>1 DEF EnsureTranslation, TwinFinalizes, vars, rows
  <2>8. \E s \in Sessions : Reject(s) \/ CloseReview(s)
    BY <2>3, <2>4, <2>5, <2>6, <2>7 DEF Next
  <2> QED BY <2>8 DEF Reject, CloseReview
<1>2. sess'[s] = Idle
  BY DecidedMove, <1>1 DEF VersionsInv
<1>3. PICK new : reviews' = [reviews EXCEPT ![sess[s].review].status = new]
  BY <1>1 DEF Decided
<1>4. sess[s].review = r
  BY <1>3
<1>5. Sound(sess[s]) /\ r # 0
  BY LenProperties DEF VersionsInv, VersionsTypeOK
<1>6. sess[s].overtaken
  BY <1>4, <1>5 DEF Sound, HoldsReview
<1> QED BY <1>2, <1>4, <1>6

(* A decision is replaced only by a session that had loaded the review before*)
(* the decision was committed.                                               *)
THEOREM DecisionsHold == Spec => DecisionsAreFinal
<1>1. VersionsInv /\ [Next]_vars =>
        [\A r \in DOMAIN reviews :
           reviews[r].status \notin {"pending", reviews'[r].status} =>
             \E s \in Sessions : sess[s].overtaken /\ sess[s].review = r /\ sess'[s] = Idle]_vars
  BY DecidedOnce
<1> QED BY <1>1, VersionsInvariant, PTL DEF Spec, DecisionsAreFinal

-------------------------------------------------------------------------------
(* QualityScore: rounding.                                                   *)

LEMMA RoundIs ==
  ASSUME NEW n \in Int, NEW d \in Nat \ {0}
  PROVE  \E q \in Int : /\ q * (2 * d) <= 2 * n + d /\ 2 * n + d < q * (2 * d) + 2 * d
                        /\ Round(n, d) = AtLeast(0, AtMost(Full, q))
<1> DEFINE q == (2 * n + d) \div (2 * d)
<1>1. q \in Int /\ q * (2 * d) <= 2 * n + d /\ 2 * n + d < q * (2 * d) + 2 * d
  OBVIOUS
<1>2. Round(n, d) = AtLeast(0, AtMost(Full, q))
  BY DEF Round
<1>3. QED
  BY <1>1, <1>2

LEMMA RoundRange ==
  ASSUME NEW n \in Int, NEW d \in Nat \ {0}
  PROVE  Round(n, d) \in 0..Full
<1>1. PICK q \in Int : Round(n, d) = AtLeast(0, AtMost(Full, q))
  BY RoundIs
<1>2. QED
  BY <1>1 DEF AtLeast, AtMost, Full

LEMMA RoundGrows ==
  ASSUME NEW n \in Int, NEW m \in Int, n <= m, NEW d \in Nat \ {0}
  PROVE  Round(n, d) <= Round(m, d)
<1>1. PICK q \in Int : /\ q * (2 * d) <= 2 * n + d /\ 2 * n + d < q * (2 * d) + 2 * d
                       /\ Round(n, d) = AtLeast(0, AtMost(Full, q))
  BY RoundIs
<1>2. PICK r \in Int : /\ r * (2 * d) <= 2 * m + d /\ 2 * m + d < r * (2 * d) + 2 * d
                       /\ Round(m, d) = AtLeast(0, AtMost(Full, r))
  BY RoundIs
<1>3. q <= r
  <2>1. SUFFICES ASSUME r + 1 <= q PROVE FALSE
    OBVIOUS
  <2>2. (r + 1) * d <= q * d
    BY <2>1
  <2>3. PICK x \in Int, y \in Int : x = q * d /\ y = r * d
    OBVIOUS
  <2>4. y + d <= x
    BY <2>2, <2>3
  <2>5. 2 * x <= 2 * n + d /\ 2 * m + d < 2 * y + 2 * d
    BY <1>1, <1>2, <2>3
  <2>6. QED
    BY <2>4, <2>5
<1>4. QED
  BY <1>1, <1>2, <1>3 DEF AtLeast, AtMost, Full

(* What is between two scores is so when it is rounded.                      *)
LEMMA RoundBetween ==
  ASSUME NEW n \in Int, NEW d \in Nat \ {0}, NEW a \in 0..Full, NEW b \in 0..Full,
         a * d <= n, n <= b * d
  PROVE  Round(n, d) \in a..b
<1> a \in Nat /\ b \in Nat /\ b <= Full /\ Full \in Nat
  BY DEF Full
<1> DEFINE q == (2 * n + d) \div (2 * d)
<1>1. q \in Int /\ q * (2 * d) <= 2 * n + d /\ 2 * n + d < q * (2 * d) + 2 * d
  OBVIOUS
<1>2. Round(n, d) = AtLeast(0, AtMost(Full, q))
  BY DEF Round
<1> HIDE DEF q
<1>3. PICK x \in Int : x = q * d /\ 2 * x <= 2 * n + d /\ 2 * n + d < 2 * x + 2 * d
  BY <1>1
<1>4. PICK y \in Int, z \in Int : y = a * d /\ z = b * d /\ y <= n /\ n <= z
  OBVIOUS
<1>5. a <= q
  <2>1. SUFFICES ASSUME q + 1 <= a PROVE FALSE
    BY <1>1
  <2>2. (q + 1) * d <= a * d
    BY <1>1, <2>1
  <2>3. x + d <= y
    BY <1>1, <1>3, <1>4, <2>2
  <2>4. QED
    BY <1>3, <1>4, <2>3
<1>6. q <= b
  <2>1. SUFFICES ASSUME b + 1 <= q PROVE FALSE
    BY <1>1
  <2>2. (b + 1) * d <= q * d
    BY <1>1, <2>1
  <2>3. z + d <= x
    BY <1>1, <1>3, <1>4, <2>2
  <2>4. QED
    BY <1>3, <1>4, <2>3
<1>7. QED
  BY <1>1, <1>2, <1>5, <1>6 DEF AtLeast, AtMost

LEMMA RoundExact ==
  ASSUME NEW c \in 0..Full, NEW d \in Nat \ {0}
  PROVE  Round(c * d, d) = c
<1>1. c * d \in Int /\ c \in Int
  BY DEF Full
<1>2. Round(c * d, d) \in c..c
  BY <1>1, RoundBetween
<1>3. QED
  BY <1>1, <1>2

(* What is less than half a hundredth above b is not rounded above it.       *)
LEMMA RoundUnder ==
  ASSUME NEW n \in Int, NEW d \in Nat \ {0}, NEW b \in 0..Full, 2 * n < 2 * (b * d) + d
  PROVE  Round(n, d) <= b
<1>1. PICK q \in Int : /\ q * (2 * d) <= 2 * n + d /\ 2 * n + d < q * (2 * d) + 2 * d
                       /\ Round(n, d) = AtLeast(0, AtMost(Full, q))
  BY RoundIs
<1>2. b \in Nat /\ Full \in Nat
  BY DEF Full
<1>3. PICK x \in Int, y \in Int : x = q * d /\ y = b * d
  BY <1>2
<1>4. 2 * x <= 2 * n + d
  BY <1>1, <1>3
<1>5. q <= b
  <2>1. SUFFICES ASSUME b + 1 <= q PROVE FALSE
    BY <1>2
  <2>2. (b + 1) * d <= q * d
    BY <1>2, <2>1
  <2>3. y + d <= x
    BY <1>2, <1>3, <2>2
  <2>4. QED
    BY <1>3, <1>4, <2>3
<1>6. QED
  BY <1>1, <1>2, <1>5 DEF AtLeast, AtMost

-------------------------------------------------------------------------------
(* The parts of the score.                                                   *)

LEMMA ScoreIs == \A c \in 0..Full : c \in Int /\ 0 <= c /\ c <= Full
  BY DEF Full

LEMMA Counted ==
  ASSUME NEW S \in SUBSET Occurrences
  PROVE  IsFiniteSet(S) /\ Cardinality(S) \in Nat
<1>1. IsFiniteSet(Tokens) /\ IsFiniteSet(1..MaxCount)
  BY QualityAssumption, FS_Interval
<1>2. IsFiniteSet(Occurrences)
  BY <1>1, FS_Product DEF Occurrences
<1>3. QED
  BY <1>2, FS_Subset, FS_CardinalityType

LEMMA Counts ==
  ASSUME NEW S \in SUBSET Occurrences, NEW T \in SUBSET Occurrences
  PROVE  /\ IsFiniteSet(S) /\ IsFiniteSet(S \intersect T) /\ IsFiniteSet(S \ T)
         /\ Cardinality(S) \in Nat /\ Matched(S, T) \in Nat /\ Extra(T, S) \in Nat /\ Missing(S, T) \in Nat
         /\ Cardinality(S) = 0 <=> S = {}
         /\ Matched(S, T) = Cardinality(S) - Missing(S, T)
         /\ Missing(S, T) = 0 <=> S \subseteq T
         /\ Extra(T, S) = 0 <=> S \subseteq T
<1>2. IsFiniteSet(S) /\ IsFiniteSet(S \intersect T) /\ IsFiniteSet(S \ T)
  BY Counted
<1>3. Cardinality(S) \in Nat /\ Cardinality(S \intersect T) \in Nat /\ Cardinality(S \ T) \in Nat
  BY <1>2, FS_CardinalityType
<1>4. (Cardinality(S) = 0 <=> S = {}) /\ (Cardinality(S \ T) = 0 <=> S \ T = {})
  BY <1>2, FS_EmptySet
<1>5. Cardinality(S \ T) = Cardinality(S) - Cardinality(S \intersect T)
  BY <1>2, FS_Difference
<1>6. QED
  BY <1>2, <1>3, <1>4, <1>5 DEF Matched, Extra, Missing

LEMMA CounterRange ==
  ASSUME NEW S \in SUBSET Occurrences, NEW T \in SUBSET Occurrences
  PROVE  /\ CounterScore(S, T) \in 0..Full
         /\ S \subseteq T => CounterScore(S, T) = Full
<1>1. CASE S = {}
  BY <1>1 DEF CounterScore, Full
<1>2. CASE S # {}
  <2>1. PICK n \in Nat \ {0}, m \in Nat : n = Cardinality(S) /\ m = Matched(S, T) /\ (S \subseteq T => m = n)
    <3>1. Cardinality(S) \in Nat \ {0} /\ Matched(S, T) \in Nat /\ Matched(S, T) = Cardinality(S) - Missing(S, T)
      BY <1>2, Counts
    <3>2. S \subseteq T => Missing(S, T) = 0
      BY Counts
    <3>3. QED
      BY <3>1, <3>2
  <2>2. CounterScore(S, T) = Round(Full * m, n)
    BY <1>2, <2>1 DEF CounterScore
  <2>3. Round(Full * m, n) \in 0..Full
    <3>1. Full * m \in Int
      BY DEF Full
    <3>2. QED
      BY <3>1, RoundRange
  <2>4. Full \in 0..Full
    BY DEF Full
  <2>5. Round(Full * n, n) = Full
    BY <2>1, <2>4, RoundExact
  <2>6. QED
    BY <2>1, <2>2, <2>3, <2>5
<1>3. QED
  BY <1>1, <1>2

LEMMA CounterGrows ==
  ASSUME NEW S \in SUBSET Occurrences, NEW T \in SUBSET Occurrences, NEW U \in SUBSET Occurrences,
         S \intersect T \subseteq U
  PROVE  CounterScore(S, T) <= CounterScore(S, U)
<1>1. CASE S = {}
  BY <1>1 DEF CounterScore, Full
<1>2. CASE S # {}
  <2>1. PICK n \in Nat \ {0}, m \in Nat, k \in Nat : n = Cardinality(S) /\ m = Matched(S, T) /\ k = Matched(S, U)
    BY <1>2, Counts
  <2>2. m <= k
    <3>1. S \intersect T \subseteq S \intersect U /\ IsFiniteSet(S \intersect U)
      BY Counts
    <3>2. QED
      BY <2>1, <3>1, FS_Subset DEF Matched
  <2>3. Full * m \in Int /\ Full * k \in Int /\ Full * m <= Full * k
    BY <2>2 DEF Full
  <2>4. Round(Full * m, n) <= Round(Full * k, n)
    BY <2>3, RoundGrows
  <2>5. QED
    BY <1>2, <2>1, <2>4 DEF CounterScore
<1>3. QED
  BY <1>1, <1>2

(* With n anchors in the source a missing one costs Full / n and more.       *)
LEMMA CounterLess ==
  ASSUME NEW S \in SUBSET Occurrences, NEW T \in SUBSET Occurrences, ~(S \subseteq T)
  PROVE  /\ S # {}
         /\ 2 * (Cardinality(S) * CounterScore(S, T)) <= 2 * (Full * Cardinality(S)) - 2 * Full + Cardinality(S)
<1>1. PICK n \in Nat \ {0}, m \in Nat : n = Cardinality(S) /\ m = Matched(S, T) /\ m <= n - 1
  <2>1. Cardinality(S) \in Nat \ {0} /\ Matched(S, T) \in Nat /\ Matched(S, T) = Cardinality(S) - Missing(S, T)
    BY Counts
  <2>2. Missing(S, T) \in Nat \ {0}
    BY Counts
  <2>3. QED
    BY <2>1, <2>2
<1>2. CounterScore(S, T) = Round(Full * m, n)
  BY <1>1 DEF CounterScore
<1>3. Full * m \in Int
  BY DEF Full
<1>4. PICK q \in Int : /\ q * (2 * n) <= 2 * (Full * m) + n
                       /\ Round(Full * m, n) = AtLeast(0, AtMost(Full, q))
  BY <1>3, RoundIs
<1>5. CASE q < 0
  <2>1. Round(Full * m, n) = 0
    BY <1>4, <1>5 DEF AtLeast, AtMost, Full
  <2>2. QED
    BY <1>1, <1>2, <2>1 DEF Full
<1>6. CASE 0 <= q
  <2>1. PICK r \in Int : r = Round(Full * m, n) /\ r <= q /\ 0 <= r
    BY <1>4, <1>6 DEF AtLeast, AtMost, Full
  <2>2. n * r <= n * q
    BY <2>1
  <2>3. 2 * (n * q) <= 2 * (Full * m) + n
    BY <1>4 DEF Full
  <2>4. QED
    BY <1>1, <1>2, <2>1, <2>2, <2>3 DEF Full
<1>7. QED
  BY <1>1, <1>5, <1>6

(* The same for numbers.                                                     *)
LEMMA CounterShows ==
  ASSUME NEW S \in SUBSET Occurrences, NEW T \in SUBSET Occurrences, Cardinality(S) <= MostAnchors
  PROVE  S \subseteq T <=> CounterScore(S, T) >= 9996
<1>1. S \subseteq T => CounterScore(S, T) >= 9996
  BY CounterRange DEF Full
<1>2. ASSUME ~(S \subseteq T), CounterScore(S, T) >= 9996 PROVE FALSE
  <2>1. PICK n \in Nat, c \in Int : n = Cardinality(S) /\ c = CounterScore(S, T)
    <3>1. Cardinality(S) \in Nat
      BY Counted
    <3>2. CounterScore(S, T) \in 0..Full
      BY CounterRange
    <3>3. CounterScore(S, T) \in Int
      BY <3>2, ScoreIs
    <3>4. QED
      BY <3>1, <3>3
  <2>2. 2 * (n * c) <= 2 * (Full * n) - 2 * Full + n
    BY <1>2, <2>1, CounterLess
  <2>3. n * 9996 <= n * c
    BY <1>2, <2>1
  <2>4. QED
    BY <2>1, <2>2, <2>3 DEF Full, MostAnchors
<1>3. QED
  BY <1>1, <1>2

Anchors == [Kinds -> SUBSET Occurrences]

Protected == {"url", "email", "code"}

LEMMA AnchorSets ==
  ASSUME NEW src \in Anchors, NEW k \in Kinds
  PROVE  src[k] \in SUBSET Occurrences
  BY DEF Anchors

LEMMA ProtectedKinds == Protected \subseteq Kinds
  BY DEF Protected, Kinds

(* The numbers of which a protected score is made.                           *)
Parts(src, cand, u, e, c, p, q, r) ==
  /\ u = Cardinality(src["url"]) /\ e = Cardinality(src["email"]) /\ c = Cardinality(src["code"])
  /\ p = CounterScore(src["url"], cand["url"])
  /\ q = CounterScore(src["email"], cand["email"])
  /\ r = CounterScore(src["code"], cand["code"])
  /\ ProtectedCount(src) = u + e + c
  /\ u + e + c = 0 => ProtectedScore(src, cand) = Full
  /\ u + e + c # 0 => ProtectedScore(src, cand) = Round(u * p + e * q + c * r, u + e + c)
  /\ u * p \in Nat /\ e * q \in Nat /\ c * r \in Nat

LEMMA ProtectedIs ==
  ASSUME NEW src \in Anchors, NEW cand \in Anchors
  PROVE  \E u \in Nat, e \in Nat, c \in Nat, p \in 0..Full, q \in 0..Full, r \in 0..Full :
           Parts(src, cand, u, e, c, p, q, r)
<1>1. \A k \in Protected : Cardinality(src[k]) \in Nat /\ CounterScore(src[k], cand[k]) \in 0..Full
  BY AnchorSets, ProtectedKinds, Counts, CounterRange
<1>2. PICK u \in Nat, e \in Nat, c \in Nat, p \in 0..Full, q \in 0..Full, r \in 0..Full :
           /\ u = Cardinality(src["url"]) /\ e = Cardinality(src["email"]) /\ c = Cardinality(src["code"])
           /\ p = CounterScore(src["url"], cand["url"])
           /\ q = CounterScore(src["email"], cand["email"])
           /\ r = CounterScore(src["code"], cand["code"])
  BY <1>1 DEF Protected
<1>3. ProtectedCount(src) = u + e + c
  BY <1>2 DEF ProtectedCount
<1>4. ProtectedScore(src, cand) = IF u + e + c = 0 THEN Full ELSE Round(u * p + e * q + c * r, u + e + c)
  BY <1>2, <1>3 DEF ProtectedScore
<1>5. u * p \in Nat /\ e * q \in Nat /\ c * r \in Nat
  BY DEF Full
<1>6. Parts(src, cand, u, e, c, p, q, r)
  BY <1>2, <1>3, <1>4, <1>5 DEF Parts
<1>7. QED
  BY <1>6

LEMMA ProtectedRange ==
  ASSUME NEW src \in Anchors, NEW cand \in Anchors
  PROVE  /\ ProtectedScore(src, cand) \in 0..Full
         /\ ProtectedCount(src) \in Nat
         /\ (\A k \in Protected : src[k] \subseteq cand[k]) => ProtectedScore(src, cand) = Full
<1>1. PICK u \in Nat, e \in Nat, c \in Nat, p \in 0..Full, q \in 0..Full, r \in 0..Full :
       Parts(src, cand, u, e, c, p, q, r)
  BY ProtectedIs
<1>2. Full \in 0..Full
  BY DEF Full
<1>3. ProtectedScore(src, cand) \in 0..Full
  <2>1. CASE u + e + c = 0
    BY <1>1, <1>2, <2>1 DEF Parts
  <2>2. CASE u + e + c # 0
    <3>1. u + e + c \in Nat \ {0} /\ u * p + e * q + c * r \in Int
      BY <1>1, <2>2 DEF Parts
    <3>2. QED
      BY <1>1, <2>2, <3>1, RoundRange DEF Parts
  <2>3. QED
    BY <2>1, <2>2
<1>4. ASSUME \A k \in Protected : src[k] \subseteq cand[k] PROVE ProtectedScore(src, cand) = Full
  <2>1. \A k \in Protected : CounterScore(src[k], cand[k]) = Full
    BY <1>4, AnchorSets, ProtectedKinds, CounterRange
  <2>2. p = Full /\ q = Full /\ r = Full
    BY <1>1, <2>1 DEF Protected, Parts
  <2>3. u * p + e * q + c * r = Full * (u + e + c)
    BY <2>2 DEF Full
  <2>4. CASE u + e + c # 0
    <3>1. u + e + c \in Nat \ {0}
      BY <2>4
    <3>2. QED
      BY <1>1, <1>2, <2>3, <2>4, <3>1, RoundExact DEF Parts
  <2>5. QED
    BY <1>1, <2>4 DEF Parts
<1>5. ProtectedCount(src) \in Nat
  BY <1>1 DEF Parts
<1>6. QED
  BY <1>3, <1>4, <1>5

LEMMA ProtectedGrows ==
  ASSUME NEW src \in Anchors, NEW cand \in Anchors, NEW kept \in Anchors,
         \A k \in Kinds : src[k] \intersect cand[k] \subseteq kept[k]
  PROVE  ProtectedScore(src, cand) <= ProtectedScore(src, kept)
<1>1. PICK u \in Nat, e \in Nat, c \in Nat, p \in 0..Full, q \in 0..Full, r \in 0..Full :
       Parts(src, cand, u, e, c, p, q, r)
  BY ProtectedIs
<1>2. PICK x \in 0..Full, y \in 0..Full, z \in 0..Full : Parts(src, kept, u, e, c, x, y, z)
  <2>1. PICK uu \in Nat, ee \in Nat, cc \in Nat, x \in 0..Full, y \in 0..Full, z \in 0..Full :
          Parts(src, kept, uu, ee, cc, x, y, z)
    BY ProtectedIs
  <2>2. uu = u /\ ee = e /\ cc = c
    BY <1>1, <2>1 DEF Parts
  <2>3. QED
    BY <2>1, <2>2
<1>3. \A k \in Protected : CounterScore(src[k], cand[k]) <= CounterScore(src[k], kept[k])
  BY AnchorSets, ProtectedKinds, CounterGrows
<1>4. p <= x /\ q <= y /\ r <= z
  BY <1>1, <1>2, <1>3 DEF Protected, Parts
<1>5. u * p <= u * x /\ e * q <= e * y /\ c * r <= c * z
  <2>1. p \in Int /\ q \in Int /\ r \in Int /\ x \in Int /\ y \in Int /\ z \in Int
    BY <1>1, <1>2, ScoreIs
  <2>2. QED
    BY <1>4, <2>1
<1>6. CASE u + e + c = 0
  <2>1. ProtectedScore(src, cand) = Full /\ ProtectedScore(src, kept) = Full
    BY <1>1, <1>2, <1>6 DEF Parts
  <2>2. QED
    BY <2>1 DEF Full
<1>7. CASE u + e + c # 0
  <2>1. u + e + c \in Nat \ {0}
    BY <1>7
  <2>2. /\ u * p + e * q + c * r \in Int /\ u * x + e * y + c * z \in Int
        /\ u * p + e * q + c * r <= u * x + e * y + c * z
    BY <1>1, <1>2, <1>5 DEF Parts
  <2>3. QED
    BY <1>1, <1>2, <1>7, <2>1, <2>2, RoundGrows DEF Parts
<1>8. QED
  BY <1>6, <1>7

(* The cost of one of the three kinds that lacks an anchor.                  *)
LEMMA ShareLess ==
  ASSUME NEW n \in Nat, NEW f \in Int, NEW t \in Nat, t <= MostAnchors, n <= t, NEW rest \in Int,
         2 * f <= 2 * (Full * n) - 2 * Full + n, rest <= Full * (t - n)
  PROVE  2 * (f + rest) < 2 * (9995 * t) + t
  BY DEF Full, MostAnchors

LEMMA ProtectedShows ==
  ASSUME NEW src \in Anchors, NEW cand \in Anchors, ProtectedCount(src) <= MostAnchors,
         NEW k \in Protected, ~(src[k] \subseteq cand[k])
  PROVE  ProtectedScore(src, cand) <= 9995
<1>1. PICK u \in Nat, e \in Nat, c \in Nat, p \in 0..Full, q \in 0..Full, r \in 0..Full :
       Parts(src, cand, u, e, c, p, q, r)
  BY ProtectedIs
<1>2. p \in Int /\ q \in Int /\ r \in Int /\ p <= Full /\ q <= Full /\ r <= Full /\ Full \in Int
  BY <1>1, ScoreIs DEF Full
<1>3. u * p <= Full * u /\ e * q <= Full * e /\ c * r <= Full * c
  BY <1>2
<1>4. u * p \in Int /\ e * q \in Int /\ c * r \in Int /\ u + e + c <= MostAnchors
  BY <1>1 DEF Parts, MostAnchors
<1>5. /\ src[k] # {}
      /\ 2 * (Cardinality(src[k]) * CounterScore(src[k], cand[k]))
           <= 2 * (Full * Cardinality(src[k])) - 2 * Full + Cardinality(src[k])
  BY AnchorSets, ProtectedKinds, CounterLess
<1>6. Cardinality(src[k]) # 0
  <2>1. src[k] \in SUBSET Occurrences
    BY AnchorSets, ProtectedKinds
  <2>2. QED
    BY <1>5, <2>1, Counts
<1> DEFINE t == u + e + c
           sum == u * p + e * q + c * r
<1>7. 2 * sum < 2 * (9995 * t) + t
  <2>1. CASE k = "url"
    <3>1. 2 * (u * p) <= 2 * (Full * u) - 2 * Full + u
      BY <1>1, <1>5, <2>1 DEF Parts
    <3>2. e * q + c * r <= Full * (t - u)
      BY <1>2, <1>3, <1>4
    <3>3. QED
      BY <1>4, <3>1, <3>2 DEF Full, MostAnchors
  <2>2. CASE k = "email"
    <3>1. 2 * (e * q) <= 2 * (Full * e) - 2 * Full + e
      BY <1>1, <1>5, <2>2 DEF Parts
    <3>2. u * p + c * r <= Full * (t - e)
      BY <1>2, <1>3, <1>4
    <3>3. QED
      BY <1>4, <3>1, <3>2 DEF Full, MostAnchors
  <2>3. CASE k = "code"
    <3>1. 2 * (c * r) <= 2 * (Full * c) - 2 * Full + c
      BY <1>1, <1>5, <2>3 DEF Parts
    <3>2. u * p + e * q <= Full * (t - c)
      BY <1>2, <1>3, <1>4
    <3>3. QED
      BY <1>4, <3>1, <3>2 DEF Full, MostAnchors
  <2>4. QED
    BY <2>1, <2>2, <2>3 DEF Protected
<1>8. t \in Nat \ {0} /\ sum \in Int
  <2>1. u + e + c # 0
    <3>1. Cardinality(src[k]) = u \/ Cardinality(src[k]) = e \/ Cardinality(src[k]) = c
      BY <1>1 DEF Parts, Protected
    <3>2. QED
      BY <1>6, <3>1
  <2>2. QED
    BY <1>4, <2>1
<1>9. ProtectedScore(src, cand) = Round(sum, t)
  BY <1>1, <1>8 DEF Parts
<1> HIDE DEF t, sum
<1>10. Round(sum, t) <= 9995
  <2>1. PICK top \in 0..Full : top = 9995
    BY DEF Full
  <2>2. 2 * sum < 2 * (top * t) + t
    BY <1>7, <2>1
  <2>3. Round(sum, t) <= top
    BY <1>8, <2>2, RoundUnder
  <2>4. QED
    BY <2>1, <2>3
<1>11. QED
  BY <1>9, <1>10

-------------------------------------------------------------------------------
(* The deterministic score, of its parts.                                    *)

Numbers(x)  == CounterScore(x.source.number, x.cand.number)
Preserved(x)    == ProtectedScore(x.source, x.cand)
Blank(x)    == x.candSentences = 0
Lengths(x)  == IF Blank(x) THEN 0 ELSE LengthScore(x.words, x.candWords)
Sentences(x) == IF Blank(x) THEN 0 ELSE SentenceScore(x.sentences, x.candSentences)
Styles(x)   == IF Blank(x) THEN 0 ELSE StyleScore(x.marks)

Complete(l, s, n, p) == Round(25 * l + 15 * s + 30 * n + 30 * p, 100)
Technical(n, p)      == Round(45 * n + 55 * p, 100)
SumOfSix(c, t, e, h, l, s) == Round(25 * c + 20 * t + 25 * e + 20 * h + 5 * l + 5 * s, 100)

Uncapped(x) ==
  SumOfSix(Complete(Lengths(x), Sentences(x), Numbers(x), Preserved(x)), TerminologyScore(x.terms, x.kept),
       Technical(Numbers(x), Preserved(x)), HallucinationScore(x), LeakageScore(x.phrases, x.leaked), Styles(x))

Critical(x) ==
  \/ Blank(x) \/ Missing(x.source.url, x.cand.url) > 0 \/ Missing(x.source.email, x.cand.email) > 0
  \/ Numbers(x) < 5000 \/ Preserved(x) < 5000 \/ HallucinationScore(x) < 5000

LEMMA DeterministicIs ==
  ASSUME NEW x
  PROVE  /\ Deterministic(x).score = IF Critical(x) THEN AtMost(Uncapped(x), Capped) ELSE Uncapped(x)
         /\ Deterministic(x).critical = Critical(x)
  BY DEF Deterministic, Critical, Uncapped, SumOfSix, Complete, Technical, Lengths, Sentences, Styles, Numbers, Preserved, Blank

LEMMA SumRange ==
  ASSUME NEW c \in 0..Full, NEW t \in 0..Full, NEW e \in 0..Full, NEW h \in 0..Full, NEW l \in 0..Full,
         NEW s \in 0..Full
  PROVE  /\ SumOfSix(c, t, e, h, l, s) \in 0..Full
         /\ SumOfSix(c, t, e, h, l, s) = Full => h > 9000 /\ c + e >= 2 * Full - 2
         /\ c = Full /\ t = Full /\ e = Full /\ h = Full /\ l = Full /\ s = Full => SumOfSix(c, t, e, h, l, s) = Full
<1> DEFINE n == 25 * c + 20 * t + 25 * e + 20 * h + 5 * l + 5 * s
<1>1. /\ c \in Int /\ t \in Int /\ e \in Int /\ h \in Int /\ l \in Int /\ s \in Int
      /\ c <= Full /\ t <= Full /\ e <= Full /\ h <= Full /\ l <= Full /\ s <= Full /\ Full \in Int
  BY ScoreIs DEF Full
<1>2. n \in Int /\ SumOfSix(c, t, e, h, l, s) = Round(n, 100)
  BY <1>1 DEF SumOfSix
<1>3. Round(n, 100) \in 0..Full
  BY <1>2, RoundRange
<1>4. PICK q \in Int : /\ q * (2 * 100) <= 2 * n + 100 /\ 2 * n + 100 < q * (2 * 100) + 2 * 100
                       /\ Round(n, 100) = AtLeast(0, AtMost(Full, q))
  BY <1>2, RoundIs
<1>5. ASSUME Round(n, 100) = Full PROVE h > 9000 /\ c + e >= 2 * Full - 2
  <2>1. q >= Full
    BY <1>4, <1>5 DEF AtLeast, AtMost, Full
  <2>2. 200 * Full <= 2 * n + 100
    BY <1>1, <1>2, <1>4, <2>1
  <2>3. QED
    BY <1>1, <2>2 DEF Full
<1>6. ASSUME c = Full, t = Full, e = Full, h = Full, l = Full, s = Full PROVE Round(n, 100) = Full
  <2>1. n = Full * 100 /\ Full \in 0..Full
    BY <1>6 DEF Full
  <2>2. QED
    BY <2>1, RoundExact
<1>7. QED
  BY <1>2, <1>3, <1>5, <1>6

LEMMA SumShows ==
  ASSUME NEW c \in 0..Full, NEW t \in 0..Full, NEW e \in 0..Full, NEW h \in 0..Full, NEW l \in 0..Full,
         NEW s \in 0..Full, SumOfSix(c, t, e, h, l, s) = Full
  PROVE  h > 9000 /\ c + e >= 2 * Full - 2
  BY SumRange

LEMMA PartsRange ==
  ASSUME NEW l \in 0..Full, NEW s \in 0..Full, NEW n \in 0..Full, NEW p \in 0..Full
  PROVE  /\ Complete(l, s, n, p) \in 0..Full /\ Technical(n, p) \in 0..Full
         /\ Complete(l, s, n, p) + Technical(n, p) >= 2 * Full - 2 => n >= 9996 /\ p >= 9996
         /\ l = Full /\ s = Full /\ n = Full /\ p = Full => Complete(l, s, n, p) = Full /\ Technical(n, p) = Full
<1> DEFINE a == 25 * l + 15 * s + 30 * n + 30 * p
           b == 45 * n + 55 * p
<1>1. /\ l \in Int /\ s \in Int /\ n \in Int /\ p \in Int
      /\ l <= Full /\ s <= Full /\ n <= Full /\ p <= Full /\ Full \in Int
  BY ScoreIs DEF Full
<1>2. a \in Int /\ b \in Int /\ Complete(l, s, n, p) = Round(a, 100) /\ Technical(n, p) = Round(b, 100)
  BY <1>1 DEF Complete, Technical
<1>3. Round(a, 100) \in 0..Full /\ Round(b, 100) \in 0..Full
  BY <1>2, RoundRange
<1>4. PICK q \in Int : /\ q * (2 * 100) <= 2 * a + 100 /\ Round(a, 100) = AtLeast(0, AtMost(Full, q))
  BY <1>2, RoundIs
<1>5. PICK r \in Int : /\ r * (2 * 100) <= 2 * b + 100 /\ Round(b, 100) = AtLeast(0, AtMost(Full, r))
  BY <1>2, RoundIs
<1>6. ASSUME Round(a, 100) + Round(b, 100) >= 2 * Full - 2 PROVE n >= 9996 /\ p >= 9996
  <2>1. PICK c \in Int, d \in Int : c = Round(a, 100) /\ d = Round(b, 100) /\ c <= Full /\ d <= Full
    BY <1>3, ScoreIs
  <2>2. c <= q /\ d <= r
    BY <1>4, <1>5, <1>6, <2>1 DEF AtLeast, AtMost, Full
  <2>3. 200 * c <= 2 * a + 100 /\ 200 * d <= 2 * b + 100
    BY <1>1, <1>2, <1>4, <1>5, <2>2
  <2>4. /\ 60 * (Full - n) + 60 * (Full - p) <= 200 * (Full - c) + 100
        /\ 90 * (Full - n) + 110 * (Full - p) <= 200 * (Full - d) + 100
    BY <1>1, <2>1, <2>3
  <2>5. (Full - c) + (Full - d) <= 2
    BY <1>1, <1>6, <2>1
  <2>6. QED
    BY <1>1, <2>1, <2>4, <2>5 DEF Full
<1>7. ASSUME l = Full, s = Full, n = Full, p = Full PROVE Round(a, 100) = Full /\ Round(b, 100) = Full
  <2>1. a = Full * 100 /\ b = Full * 100 /\ Full \in 0..Full
    BY <1>7 DEF Full
  <2>2. QED
    BY <2>1, RoundExact
<1>8. QED
  BY <1>2, <1>3, <1>6, <1>7

Scorable(x) == x \in Texts /\ x.leaked <= x.phrases

LEMMA TextIs ==
  ASSUME NEW x \in Texts
  PROVE  /\ x.source \in Anchors /\ x.cand \in Anchors
         /\ x.words \in Nat /\ x.candWords \in Nat /\ x.sentences \in Nat \ {0} /\ x.candSentences \in Nat
         /\ x.terms \in Nat /\ x.kept \in Nat /\ x.phrases \in Nat /\ x.leaked \in Nat
         /\ x.marks.spaces \in 0..1 /\ x.marks.punctuation \in 0..1 /\ x.marks.brackets \in 0..3
  BY DEF Texts, Anchors

LEMMA LengthRange ==
  ASSUME NEW n \in Nat, NEW m \in Nat
  PROVE  /\ LengthScore(n, m) \in 0..Full
         /\ 100 * m >= 45 * n /\ 10 * m <= 28 * n => LengthScore(n, m) = Full
<1>1. CASE n = 0
  <2>1. LengthScore(n, m) = Full
    BY <1>1 DEF LengthScore
  <2>2. QED
    BY <2>1 DEF Full
<1>2. CASE n # 0 /\ 100 * m < 45 * n
  <2>1. LengthScore(n, m) = Round(100 * m * Full, 45 * n)
    <3>1. n > 0 /\ 100 * m < 45 * n /\ ~(10 * m > 28 * n)
      BY <1>2
    <3>2. QED
      BY <3>1 DEF LengthScore
  <2>2. 100 * m * Full \in Int /\ 45 * n \in Nat \ {0}
    BY <1>2 DEF Full
  <2>3. QED
    BY <1>2, <2>1, <2>2, RoundRange
<1>3. CASE n # 0 /\ ~(100 * m < 45 * n) /\ 10 * m > 28 * n
  <2>1. LengthScore(n, m) = Round(Full * n - 300 * (10*m - 28*n), n)
    BY <1>3 DEF LengthScore
  <2>2. Full * n - 300 * (10*m - 28*n) \in Int /\ n \in Nat \ {0}
    BY <1>3 DEF Full
  <2>3. QED
    BY <1>3, <2>1, <2>2, RoundRange
<1>4. CASE n # 0 /\ ~(100 * m < 45 * n) /\ ~(10 * m > 28 * n)
  <2>1. LengthScore(n, m) = Full
    BY <1>4 DEF LengthScore
  <2>2. QED
    BY <2>1 DEF Full
<1>5. QED
  BY <1>1, <1>2, <1>3, <1>4

LEMMA OthersRange ==
  ASSUME NEW x \in Texts, Scorable(x)
  PROVE  /\ SentenceScore(x.sentences, x.candSentences) \in 0..Full
         /\ TerminologyScore(x.terms, x.kept) \in 0..Full
         /\ LeakageScore(x.phrases, x.leaked) \in 0..Full
         /\ StyleScore(x.marks) \in 0..Full
<1> USE TextIs
<1>1. SentenceScore(x.sentences, x.candSentences) \in 0..Full
  <2>1. 2 * x.candSentences * Full \in Int /\ x.sentences \in Nat \ {0} /\ Full \in 0..Full
    BY DEF Full
  <2>2. Round(2 * x.candSentences * Full, x.sentences) \in 0..Full
    BY <2>1, RoundRange
  <2>3. QED
    BY <2>1, <2>2 DEF SentenceScore
<1>2. TerminologyScore(x.terms, x.kept) \in 0..Full
  <2>1. x.kept * Full \in Int /\ x.terms \in Nat /\ Full \in 0..Full
    BY DEF Full
  <2>2. x.terms # 0 => Round(x.kept * Full, x.terms) \in 0..Full
    BY <2>1, RoundRange
  <2>3. QED
    BY <2>1, <2>2 DEF TerminologyScore
<1>3. LeakageScore(x.phrases, x.leaked) \in 0..Full
  <2>1. x.phrases \in Nat /\ x.leaked \in Nat /\ x.leaked <= x.phrases /\ Full \in 0..Full
    BY DEF Full, Scorable
  <2>2. PICK least \in Int : least = AtMost(x.phrases, 3 * x.leaked)
    BY <2>1 DEF AtMost
  <2>3. Full * x.phrases - least * Full \in Int
    BY <2>1 DEF Full
  <2>4. x.phrases # 0 => Round(Full * x.phrases - AtMost(x.phrases, 3 * x.leaked) * Full, x.phrases) \in 0..Full
    BY <2>1, <2>2, <2>3, RoundRange
  <2>5. QED
    BY <2>1, <2>4 DEF LeakageScore
<1>4. StyleScore(x.marks) \in 0..Full
  <2>1. Full - 1000 * x.marks.spaces - 1000 * x.marks.punctuation - 1200 * x.marks.brackets \in Int
    BY DEF Full
  <2>2. QED
    BY <2>1, RoundRange DEF StyleScore
<1>5. QED
  BY <1>1, <1>2, <1>3, <1>4

Invented(n, w, c, l) ==
  Round(Full - AtMost(Full, AtMost(7000, 2000 * n) + AtMost(3000, 1500 * w) + AtMost(3000, 1000 * c) + l), 1)

Long(x) == IF x.words > 0 /\ 10 * x.candWords > 28 * x.words THEN 2000 ELSE 0

ExtraOf(x, k) == Extra(x.source[k], x.cand[k])

LEMMA HallucinationIs ==
  ASSUME NEW x \in Texts
  PROVE  /\ HallucinationScore(x) = Invented(ExtraOf(x, "number"), ExtraOf(x, "url") + ExtraOf(x, "email"),
                                             ExtraOf(x, "code"), Long(x))
         /\ \A k \in Kinds : ExtraOf(x, k) \in Nat
         /\ Long(x) \in Nat
<1>1. ASSUME NEW k \in Kinds PROVE ExtraOf(x, k) \in Nat
  <2>1. x.source[k] \in SUBSET Occurrences /\ x.cand[k] \in SUBSET Occurrences
    BY TextIs, AnchorSets
  <2>2. QED
    BY <2>1, Counts DEF ExtraOf
<1>2. HallucinationScore(x) = Invented(ExtraOf(x, "number"), ExtraOf(x, "url") + ExtraOf(x, "email"),
                                       ExtraOf(x, "code"), Long(x))
  BY DEF HallucinationScore, Invented, ExtraOf, Long
<1>3. QED
  BY <1>1, <1>2 DEF Long

LEMMA InventedRange ==
  ASSUME NEW n \in Nat, NEW w \in Nat, NEW c \in Nat, NEW l \in Nat
  PROVE  /\ Invented(n, w, c, l) \in 0..Full
         /\ n = 0 /\ w = 0 /\ c = 0 /\ l = 0 => Invented(n, w, c, l) = Full
         /\ n # 0 \/ w # 0 \/ c # 0 => Invented(n, w, c, l) <= 9000
<1> DEFINE m == Full - AtMost(Full, AtMost(7000, 2000 * n) + AtMost(3000, 1500 * w) + AtMost(3000, 1000 * c) + l)
<1>1. m \in 0..Full
  BY DEF AtMost, Full
<1>2. Invented(n, w, c, l) = m
  <2>1. m * 1 = m
    BY <1>1, ScoreIs
  <2>2. QED
    BY <1>1, <2>1, RoundExact DEF Invented
<1>3. n = 0 /\ w = 0 /\ c = 0 /\ l = 0 => m = Full
  BY DEF AtMost, Full
<1>4. n # 0 \/ w # 0 \/ c # 0 => m <= 9000
  BY DEF AtMost, Full
<1>5. QED
  BY <1>1, <1>2, <1>3, <1>4

LEMMA LeastFalls ==
  ASSUME NEW a \in Int, NEW b \in Int, a <= b
  PROVE  /\ Full - AtMost(Full, b) <= Full - AtMost(Full, a)
         /\ Full - AtMost(Full, a) \in Int /\ Full - AtMost(Full, b) \in Int
  BY DEF AtMost, Full

LEMMA InventedGrows ==
  ASSUME NEW n \in Nat, NEW w \in Nat, NEW c \in Nat, NEW l \in Nat,
         NEW nn \in Nat, NEW ww \in Nat, NEW cc \in Nat, n <= nn, w <= ww, c <= cc
  PROVE  Invented(nn, ww, cc, l) <= Invented(n, w, c, l)
<1>0. PICK p \in Int, q \in Int, r \in Int, pp \in Int, qq \in Int, rr \in Int :
        /\ p = AtMost(7000, 2000 * n) /\ q = AtMost(3000, 1500 * w) /\ r = AtMost(3000, 1000 * c)
        /\ pp = AtMost(7000, 2000 * nn) /\ qq = AtMost(3000, 1500 * ww) /\ rr = AtMost(3000, 1000 * cc)
        /\ p <= pp /\ q <= qq /\ r <= rr
  BY DEF AtMost
<1>1. PICK a \in Int, b \in Int : a = p + q + r + l /\ b = pp + qq + rr + l /\ a <= b
  BY <1>0
<1>2. PICK u \in Int, v \in Int : u = Full - AtMost(Full, a) /\ v = Full - AtMost(Full, b) /\ v <= u
  BY <1>1, LeastFalls
<1>3. Invented(n, w, c, l) = Round(u, 1) /\ Invented(nn, ww, cc, l) = Round(v, 1)
  BY <1>0, <1>1, <1>2 DEF Invented
<1>4. Round(v, 1) <= Round(u, 1)
  BY <1>2, RoundGrows
<1>5. QED
  BY <1>3, <1>4

LEMMA GradesRange ==
  ASSUME NEW x \in Texts, Scorable(x)
  PROVE  /\ Numbers(x) \in 0..Full /\ Preserved(x) \in 0..Full /\ Lengths(x) \in 0..Full
         /\ Sentences(x) \in 0..Full /\ Styles(x) \in 0..Full /\ HallucinationScore(x) \in 0..Full
         /\ TerminologyScore(x.terms, x.kept) \in 0..Full /\ LeakageScore(x.phrases, x.leaked) \in 0..Full
         /\ Uncapped(x) \in 0..Full
<1>1. Numbers(x) \in 0..Full
  <2>1. "number" \in Kinds
    BY DEF Kinds
  <2>2. x.source.number \in SUBSET Occurrences /\ x.cand.number \in SUBSET Occurrences
    BY <2>1, TextIs, AnchorSets
  <2>3. QED
    BY <2>2, CounterRange DEF Numbers
<1>2. Preserved(x) \in 0..Full
  BY TextIs, ProtectedRange DEF Preserved
<1>3. 0 \in 0..Full
  BY DEF Full
<1>4. Lengths(x) \in 0..Full
  BY <1>3, TextIs, LengthRange DEF Lengths
<1>5. Sentences(x) \in 0..Full /\ Styles(x) \in 0..Full
  BY <1>3, OthersRange DEF Sentences, Styles
<1>6. HallucinationScore(x) \in 0..Full
  <2>1. PICK n \in Nat, u \in Nat, e \in Nat, c \in Nat, l \in Nat :
          HallucinationScore(x) = Invented(n, u + e, c, l)
    BY HallucinationIs DEF Kinds
  <2>2. u + e \in Nat
    OBVIOUS
  <2>3. QED
    BY <2>1, <2>2, InventedRange
<1>7. TerminologyScore(x.terms, x.kept) \in 0..Full /\ LeakageScore(x.phrases, x.leaked) \in 0..Full
  BY OthersRange
<1>8. Uncapped(x) \in 0..Full
  <2>1. Complete(Lengths(x), Sentences(x), Numbers(x), Preserved(x)) \in 0..Full
    BY <1>1, <1>2, <1>4, <1>5, PartsRange
  <2>2. Technical(Numbers(x), Preserved(x)) \in 0..Full
    BY <1>1, <1>2, PartsRange
  <2>3. PICK c \in 0..Full, t \in 0..Full, e \in 0..Full, h \in 0..Full, l \in 0..Full, s \in 0..Full :
          Uncapped(x) = SumOfSix(c, t, e, h, l, s)
    BY <1>5, <1>6, <1>7, <2>1, <2>2, Zenon DEF Uncapped
  <2>4. QED
    BY <2>3, SumRange
<1>9. QED
  BY <1>1, <1>2, <1>4, <1>5, <1>6, <1>7, <1>8

LEMMA CarefulGrades ==
  ASSUME NEW x \in Texts, Careful(x)
  PROVE  /\ ~Blank(x) /\ Long(x) = 0
         /\ Lengths(x) = Full /\ Sentences(x) = Full /\ Styles(x) = Full
         /\ TerminologyScore(x.terms, x.kept) = Full /\ LeakageScore(x.phrases, x.leaked) = Full
<1>1. /\ x.candSentences > 0 /\ 2 * x.candSentences >= x.sentences
      /\ 100 * x.candWords >= 45 * x.words /\ 10 * x.candWords <= 28 * x.words
      /\ x.kept = x.terms /\ x.leaked = 0
      /\ x.marks = [spaces |-> 0, punctuation |-> 0, brackets |-> 0]
  BY DEF Careful
<1>2. /\ x.words \in Nat /\ x.candWords \in Nat /\ x.terms \in Nat /\ x.candSentences \in Nat
      /\ x.sentences \in Nat \ {0}
  BY TextIs
<1>3. ~Blank(x)
  BY <1>1, <1>2 DEF Blank
<1>4. Long(x) = 0
  BY <1>1, <1>2 DEF Long
<1>5. Lengths(x) = Full
  BY <1>1, <1>2, <1>3, LengthRange DEF Lengths
<1>6. Sentences(x) = Full
  BY <1>1, <1>3 DEF Sentences, SentenceScore
<1>7. Full \in 0..Full
  BY DEF Full
<1>8. Styles(x) = Full
  <2>1. Full - 1000 * 0 - 1000 * 0 - 1200 * 0 = Full * 1
    BY DEF Full
  <2>2. StyleScore(x.marks) = Round(Full - 1000 * 0 - 1000 * 0 - 1200 * 0, 1)
    BY <1>1 DEF StyleScore
  <2>3. StyleScore(x.marks) = Full
    BY <1>7, <2>1, <2>2, RoundExact
  <2>4. QED
    BY <1>3, <2>3 DEF Styles
<1>9. TerminologyScore(x.terms, x.kept) = Full
  <2>1. x.kept * Full = Full * x.terms
    BY <1>1, <1>2 DEF Full
  <2>2. x.terms # 0 => Round(Full * x.terms, x.terms) = Full
    BY <1>2, <1>7, RoundExact
  <2>3. QED
    BY <2>1, <2>2 DEF TerminologyScore
<1>10. LeakageScore(x.phrases, x.leaked) = Full
  BY <1>1 DEF LeakageScore
<1>11. QED
  BY <1>3, <1>4, <1>5, <1>6, <1>8, <1>9, <1>10

LEMMA PartsShow ==
  ASSUME NEW l \in 0..Full, NEW s \in 0..Full, NEW n \in 0..Full, NEW p \in 0..Full,
         Complete(l, s, n, p) + Technical(n, p) >= 2 * Full - 2
  PROVE  n >= 9996 /\ p >= 9996
  BY PartsRange

LEMMA SameAnchors ==
  ASSUME NEW src \in Anchors, NEW cand \in Anchors,
         \A k \in Kinds : src[k] \subseteq cand[k] /\ cand[k] \subseteq src[k]
  PROVE  src = cand
<1>1. src = [k \in Kinds |-> src[k]] /\ cand = [k \in Kinds |-> cand[k]]
  BY DEF Anchors
<1>2. \A k \in Kinds : src[k] = cand[k]
  OBVIOUS
<1>3. QED
  BY <1>1, <1>2

(* Exactly the careful candidates with the anchors of the source are full.   *)
LEMMA FullIs ==
  ASSUME NEW x \in Texts, Careful(x), Scorable(x)
  PROVE  /\ Deterministic(x).score = Full <=> x.source = x.cand
         /\ x.source = x.cand => ~Deterministic(x).critical
<1> DEFINE num  == Numbers(x)
           kept == Preserved(x)
           c    == Complete(Full, Full, num, kept)
           e    == Technical(num, kept)
           h    == HallucinationScore(x)
<1>1. num \in 0..Full /\ kept \in 0..Full /\ h \in 0..Full /\ Full \in 0..Full
  <2>1. Full \in 0..Full
    BY DEF Full
  <2>2. QED
    BY <2>1, GradesRange
<1>2. c \in 0..Full /\ e \in 0..Full
  BY <1>1, PartsRange
<1>3. Uncapped(x) = SumOfSix(c, Full, e, h, Full, Full)
  BY CarefulGrades DEF Uncapped
<1>4. /\ "number" \in Kinds /\ "url" \in Kinds /\ "email" \in Kinds /\ "code" \in Kinds
      /\ Kinds = Protected \union {"number"}
  BY DEF Kinds, Protected
<1>5. ASSUME NEW k \in Kinds
      PROVE  /\ x.source[k] \in SUBSET Occurrences /\ x.cand[k] \in SUBSET Occurrences
             /\ ExtraOf(x, k) = 0 <=> x.cand[k] \subseteq x.source[k]
             /\ Missing(x.source[k], x.cand[k]) = 0 <=> x.source[k] \subseteq x.cand[k]
             /\ ExtraOf(x, k) \in Nat /\ Missing(x.source[k], x.cand[k]) \in Nat
  <2>1. x.source[k] \in SUBSET Occurrences /\ x.cand[k] \in SUBSET Occurrences
    BY TextIs, AnchorSets
  <2>2. QED
    BY <2>1, Counts DEF ExtraOf
<1>6. PICK n \in Nat, u \in Nat, m \in Nat, d \in Nat, l \in Nat :
        /\ h = Invented(n, u + m, d, l)
        /\ n = ExtraOf(x, "number") /\ u = ExtraOf(x, "url") /\ m = ExtraOf(x, "email") /\ d = ExtraOf(x, "code")
        /\ l = 0
  BY <1>4, HallucinationIs, CarefulGrades
<1>7. u + m \in Nat
  OBVIOUS
<1> HIDE DEF num, kept, c, e, h
<1>8. ASSUME Deterministic(x).score = Full PROVE x.source = x.cand
  <2>1. ~Critical(x)
    BY <1>8, DeterministicIs DEF AtMost, Capped, Full
  <2>2. SumOfSix(c, Full, e, h, Full, Full) = Full
    BY <1>3, <1>8, <2>1, DeterministicIs
  <2>3. h > 9000 /\ c + e >= 2 * Full - 2
    <3>1. PICK f \in 0..Full : f = Full
      BY <1>1
    <3>2. SumOfSix(c, f, e, h, f, f) = Full
      BY <2>2, <3>1
    <3>3. QED
      BY <1>1, <1>2, <3>2, SumShows
  <2>4. num >= 9996 /\ kept >= 9996
    <3>1. Complete(Full, Full, num, kept) + Technical(num, kept) >= 2 * Full - 2
      BY <2>3 DEF c, e
    <3>2. QED
      BY <1>1, <3>1, PartsShow
  <2>5. x.source["number"] \subseteq x.cand["number"]
    <3>1. Cardinality(x.source["number"]) <= MostAnchors
      BY DEF Careful
    <3>2. QED
      BY <1>4, <1>5, <2>4, <3>1, CounterShows DEF num, Numbers
  <2>6. \A k \in Protected : x.source[k] \subseteq x.cand[k]
    <3>1. SUFFICES ASSUME NEW k \in Protected, ~(x.source[k] \subseteq x.cand[k]) PROVE FALSE
      OBVIOUS
    <3>2. ProtectedCount(x.source) <= MostAnchors
      BY DEF Careful
    <3>3. ProtectedScore(x.source, x.cand) <= 9995
      BY <3>1, <3>2, TextIs, ProtectedShows
    <3>4. QED
      BY <1>1, <2>4, <3>3, ScoreIs DEF kept, Preserved
  <2>7. n = 0 /\ u + m = 0 /\ d = 0
    <3>1. ~(h <= 9000)
      BY <1>1, <2>3, ScoreIs
    <3>2. PICK w \in Nat : w = u + m
      BY <1>7
    <3>3. h = Invented(n, w, d, l)
      BY <1>6, <3>2
    <3>4. n = 0 /\ w = 0 /\ d = 0
      BY <3>1, <3>3, InventedRange
    <3>5. QED
      BY <3>2, <3>4
  <2>8. \A k \in Kinds : ExtraOf(x, k) = 0
    <3>1. n = 0 /\ u = 0 /\ m = 0 /\ d = 0
      BY <2>7
    <3>2. QED
      BY <1>6, <3>1 DEF Kinds
  <2>9. \A k \in Kinds : x.source[k] \subseteq x.cand[k] /\ x.cand[k] \subseteq x.source[k]
    BY <1>4, <1>5, <2>5, <2>6, <2>8
  <2>10. QED
    BY <2>9, TextIs, SameAnchors
<1>9. ASSUME x.source = x.cand PROVE Deterministic(x).score = Full /\ ~Deterministic(x).critical
  <2>1. \A k \in Kinds : ExtraOf(x, k) = 0 /\ Missing(x.source[k], x.cand[k]) = 0
    BY <1>5, <1>9
  <2>2. h = Full
    <3>1. n = 0 /\ u + m = 0 /\ d = 0
      BY <1>4, <1>6, <2>1
    <3>2. QED
      BY <1>6, <1>7, <3>1, InventedRange
  <2>3. num = Full
    BY <1>4, <1>5, <1>9, CounterRange DEF num, Numbers
  <2>4. kept = Full
    BY <1>9, TextIs, ProtectedRange DEF kept, Preserved
  <2>5. c = Full /\ e = Full
    BY <1>1, <2>3, <2>4, PartsRange DEF c, e
  <2>6. Uncapped(x) = Full
    BY <1>1, <1>3, <2>2, <2>5, SumRange
  <2>7. ~Critical(x)
    BY <1>4, <2>1, <2>2, <2>3, <2>4, CarefulGrades DEF Critical, Full, h, num, kept
  <2>8. QED
    BY <2>6, <2>7, DeterministicIs
<1>10. QED
  BY <1>8, <1>9

LEMMA SumGrows ==
  ASSUME NEW c \in 0..Full, NEW t \in 0..Full, NEW e \in 0..Full, NEW h \in 0..Full, NEW l \in 0..Full,
         NEW s \in 0..Full, NEW cc \in 0..Full, NEW ee \in 0..Full, NEW hh \in 0..Full,
         cc <= c, ee <= e, hh <= h
  PROVE  SumOfSix(cc, t, ee, hh, l, s) <= SumOfSix(c, t, e, h, l, s)
<1>1. /\ c \in Int /\ t \in Int /\ e \in Int /\ h \in Int /\ l \in Int /\ s \in Int
      /\ cc \in Int /\ ee \in Int /\ hh \in Int
  BY ScoreIs
<1>2. PICK n \in Int, m \in Int : /\ n = 25 * c + 20 * t + 25 * e + 20 * h + 5 * l + 5 * s
                                  /\ m = 25 * cc + 20 * t + 25 * ee + 20 * hh + 5 * l + 5 * s
                                  /\ m <= n
  BY <1>1
<1>3. Round(m, 100) <= Round(n, 100)
  BY <1>2, RoundGrows
<1>4. QED
  BY <1>2, <1>3 DEF SumOfSix

LEMMA PartsGrow ==
  ASSUME NEW l \in 0..Full, NEW s \in 0..Full, NEW n \in 0..Full, NEW p \in 0..Full,
         NEW nn \in 0..Full, NEW pp \in 0..Full, nn <= n, pp <= p
  PROVE  Complete(l, s, nn, pp) <= Complete(l, s, n, p) /\ Technical(nn, pp) <= Technical(n, p)
<1>1. l \in Int /\ s \in Int /\ n \in Int /\ p \in Int /\ nn \in Int /\ pp \in Int
  BY ScoreIs
<1>2. PICK a \in Int, b \in Int : /\ a = 25 * l + 15 * s + 30 * n + 30 * p
                                  /\ b = 25 * l + 15 * s + 30 * nn + 30 * pp /\ b <= a
  BY <1>1
<1>3. PICK c \in Int, d \in Int : c = 45 * n + 55 * p /\ d = 45 * nn + 55 * pp /\ d <= c
  BY <1>1
<1>4. Round(b, 100) <= Round(a, 100) /\ Round(d, 100) <= Round(c, 100)
  BY <1>2, <1>3, RoundGrows
<1>5. QED
  BY <1>2, <1>3, <1>4 DEF Complete, Technical

(* y is x with anchors of the source lost or others invented.                *)
Worse(y, x) ==
  /\ y.source = x.source /\ y.words = x.words /\ y.candWords = x.candWords
  /\ y.sentences = x.sentences /\ y.candSentences = x.candSentences
  /\ y.terms = x.terms /\ y.kept = x.kept /\ y.phrases = x.phrases /\ y.leaked = x.leaked /\ y.marks = x.marks
  /\ \A k \in Kinds : /\ x.source[k] \intersect y.cand[k] \subseteq x.cand[k]
                      /\ x.cand[k] \ x.source[k] \subseteq y.cand[k]

LEMMA WorseGrades ==
  ASSUME NEW x \in Texts, Scorable(x), NEW y \in Texts, Scorable(y), Worse(y, x)
  PROVE  /\ Numbers(y) <= Numbers(x) /\ Preserved(y) <= Preserved(x)
         /\ HallucinationScore(y) <= HallucinationScore(x)
         /\ \A k \in Kinds : Missing(x.source[k], x.cand[k]) > 0 => Missing(y.source[k], y.cand[k]) > 0
<1>1. y.source = x.source
  BY DEF Worse
<1>2. ASSUME NEW k \in Kinds
      PROVE  /\ x.source[k] \in SUBSET Occurrences /\ x.cand[k] \in SUBSET Occurrences /\ y.cand[k] \in SUBSET Occurrences
             /\ x.source[k] \intersect y.cand[k] \subseteq x.cand[k]
             /\ x.cand[k] \ x.source[k] \subseteq y.cand[k]
  <2>1. x.source \in Anchors /\ x.cand \in Anchors /\ y.cand \in Anchors
    BY TextIs
  <2>2. QED
    BY <2>1, AnchorSets DEF Worse
<1>3. "number" \in Kinds /\ "url" \in Kinds /\ "email" \in Kinds /\ "code" \in Kinds
  BY DEF Kinds
<1>4. Numbers(y) <= Numbers(x)
  <2>1. CounterScore(x.source["number"], y.cand["number"]) <= CounterScore(x.source["number"], x.cand["number"])
    BY <1>2, <1>3, CounterGrows
  <2>2. QED
    BY <1>1, <2>1 DEF Numbers
<1>5. Preserved(y) <= Preserved(x)
  <2>1. ProtectedScore(x.source, y.cand) <= ProtectedScore(x.source, x.cand)
    BY <1>2, TextIs, ProtectedGrows
  <2>2. QED
    BY <1>1, <2>1 DEF Preserved
<1>6. ASSUME NEW k \in Kinds PROVE ExtraOf(x, k) <= ExtraOf(y, k)
  <2>1. x.cand[k] \ x.source[k] \subseteq y.cand[k] \ y.source[k]
    BY <1>1, <1>2
  <2>2. y.source[k] \in SUBSET Occurrences /\ y.cand[k] \in SUBSET Occurrences
    BY <1>1, <1>2
  <2>3. IsFiniteSet(y.cand[k] \ y.source[k])
    BY <2>2, Counts
  <2>4. QED
    BY <2>1, <2>3, FS_Subset DEF ExtraOf, Extra
<1>7. HallucinationScore(y) <= HallucinationScore(x)
  <2>1. PICK n \in Nat, u \in Nat, m \in Nat, c \in Nat, l \in Nat :
          /\ n = ExtraOf(x, "number") /\ u = ExtraOf(x, "url") /\ m = ExtraOf(x, "email") /\ c = ExtraOf(x, "code")
          /\ l = Long(x)
          /\ HallucinationScore(x) = Invented(n, u + m, c, l)
    BY <1>3, HallucinationIs
  <2>2. PICK nn \in Nat, uu \in Nat, mm \in Nat, cc \in Nat :
          /\ nn = ExtraOf(y, "number") /\ uu = ExtraOf(y, "url") /\ mm = ExtraOf(y, "email") /\ cc = ExtraOf(y, "code")
          /\ HallucinationScore(y) = Invented(nn, uu + mm, cc, Long(y))
    BY <1>3, HallucinationIs
  <2>3. Long(y) = l
    BY <2>1 DEF Worse, Long
  <2>4. PICK w \in Nat, ww \in Nat : w = u + m /\ ww = uu + mm
    OBVIOUS
  <2>5. n <= nn /\ w <= ww /\ c <= cc
    BY <1>3, <1>6, <2>1, <2>2, <2>4
  <2>6. Invented(nn, ww, cc, l) <= Invented(n, w, c, l)
    BY <2>5, InventedGrows
  <2>7. QED
    BY <2>1, <2>2, <2>3, <2>4, <2>6
<1>8. ASSUME NEW k \in Kinds, Missing(x.source[k], x.cand[k]) > 0 PROVE Missing(y.source[k], y.cand[k]) > 0
  <2>1. /\ Missing(x.source[k], y.cand[k]) \in Nat
        /\ Missing(x.source[k], y.cand[k]) = 0 <=> x.source[k] \subseteq y.cand[k]
        /\ Missing(x.source[k], x.cand[k]) = 0 <=> x.source[k] \subseteq x.cand[k]
    BY <1>2, Counts
  <2>2. ~(x.source[k] \subseteq x.cand[k])
    BY <1>8, <2>1
  <2>3. ~(x.source[k] \subseteq y.cand[k])
    BY <1>2, <2>2
  <2>4. QED
    BY <1>1, <2>1, <2>3
<1>9. QED
  BY <1>4, <1>5, <1>7, <1>8

LEMMA WorseScores ==
  ASSUME NEW x \in Texts, Scorable(x), NEW y \in Texts, Scorable(y), Worse(y, x)
  PROVE  /\ Deterministic(y).score <= Deterministic(x).score
         /\ Deterministic(x).critical => Deterministic(y).critical
<1>1. /\ Numbers(y) <= Numbers(x) /\ Preserved(y) <= Preserved(x)
      /\ HallucinationScore(y) <= HallucinationScore(x)
      /\ \A k \in Kinds : Missing(x.source[k], x.cand[k]) > 0 => Missing(y.source[k], y.cand[k]) > 0
  BY WorseGrades
<1>2. PICK n \in 0..Full, p \in 0..Full, l \in 0..Full, s \in 0..Full, t \in 0..Full, h \in 0..Full,
           k \in 0..Full, m \in 0..Full :
        /\ n = Numbers(x) /\ p = Preserved(x) /\ l = Lengths(x) /\ s = Sentences(x)
        /\ t = TerminologyScore(x.terms, x.kept) /\ h = HallucinationScore(x)
        /\ k = LeakageScore(x.phrases, x.leaked) /\ m = Styles(x)
  BY GradesRange
<1>3. PICK nn \in 0..Full, pp \in 0..Full, hh \in 0..Full :
        nn = Numbers(y) /\ pp = Preserved(y) /\ hh = HallucinationScore(y)
  BY GradesRange
<1>4. /\ Lengths(y) = l /\ Sentences(y) = s /\ Styles(y) = m /\ Blank(y) = Blank(x)
      /\ TerminologyScore(y.terms, y.kept) = t /\ LeakageScore(y.phrases, y.leaked) = k
  BY <1>2 DEF Worse, Lengths, Sentences, Styles, Blank
<1>5. nn <= n /\ pp <= p /\ hh <= h
  BY <1>1, <1>2, <1>3
<1>6. PICK c \in 0..Full, e \in 0..Full, cc \in 0..Full, ee \in 0..Full :
        /\ c = Complete(l, s, n, p) /\ e = Technical(n, p) /\ cc = Complete(l, s, nn, pp) /\ ee = Technical(nn, pp)
  <2>1. /\ Complete(l, s, n, p) \in 0..Full /\ Technical(n, p) \in 0..Full
        /\ Complete(l, s, nn, pp) \in 0..Full /\ Technical(nn, pp) \in 0..Full
    BY PartsRange
  <2>2. QED
    BY <2>1
<1>7. Uncapped(x) = SumOfSix(c, t, e, h, k, m)
  BY <1>2, <1>6 DEF Uncapped
<1>8. Uncapped(y) = SumOfSix(cc, t, ee, hh, k, m)
  BY <1>3, <1>4, <1>6 DEF Uncapped
<1>9. Uncapped(y) <= Uncapped(x)
  <2>1. cc <= c /\ ee <= e
    BY <1>5, <1>6, PartsGrow
  <2>2. SumOfSix(cc, t, ee, hh, k, m) <= SumOfSix(c, t, e, h, k, m)
    BY <1>5, <2>1, SumGrows
  <2>3. QED
    BY <1>7, <1>8, <2>2
<1>10. Critical(x) => Critical(y)
  <2>1. /\ Missing(x.source.url, x.cand.url) > 0 => Missing(y.source.url, y.cand.url) > 0
        /\ Missing(x.source.email, x.cand.email) > 0 => Missing(y.source.email, y.cand.email) > 0
    BY <1>1 DEF Kinds
  <2>2. /\ Numbers(x) < 5000 => Numbers(y) < 5000
        /\ Preserved(x) < 5000 => Preserved(y) < 5000
        /\ HallucinationScore(x) < 5000 => HallucinationScore(y) < 5000
    BY <1>2, <1>3, <1>5, ScoreIs
  <2>3. QED
    BY <1>4, <2>1, <2>2 DEF Critical
<1>11. PICK u \in 0..Full, v \in 0..Full : u = Uncapped(x) /\ v = Uncapped(y) /\ v <= u
  BY <1>9, GradesRange
<1>12. AtMost(v, Capped) <= u /\ AtMost(v, Capped) <= AtMost(u, Capped)
  BY <1>11 DEF AtMost, Capped, Full
<1>13. QED
  BY <1>10, <1>11, <1>12, DeterministicIs

-------------------------------------------------------------------------------
(* The combination with one judge, and the mean of any number of judges.     *)

LEMMA MeanBetween ==
  ASSUME NEW s \in Nat, NEW j \in Nat, NEW a \in Nat, NEW b \in Nat
  PROVE  /\ AtMost(s, j) * (a + b) <= a * s + b * j
         /\ a * s + b * j <= AtLeast(s, j) * (a + b)
<1> DEFINE lo == AtMost(s, j)
           hi == AtLeast(s, j)
<1>1. lo \in Nat /\ hi \in Nat /\ lo <= s /\ lo <= j /\ s <= hi /\ j <= hi
  BY DEF AtMost, AtLeast
<1> HIDE DEF lo, hi
<1>2. a * lo <= a * s /\ b * lo <= b * j /\ a * s <= a * hi /\ b * j <= b * hi
  BY <1>1
<1>3. lo * (a + b) = a * lo + b * lo /\ hi * (a + b) = a * hi + b * hi
  BY <1>1
<1>4. lo * (a + b) <= a * s + b * j /\ a * s + b * j <= hi * (a + b)
  BY <1>1, <1>2, <1>3
<1>5. QED
  BY <1>4 DEF lo, hi

LEMMA CombineBetween ==
  ASSUME NEW s \in 0..Full, NEW j \in 0..Full, NEW v \in Int, NEW w \in Int
  PROVE  Combine(s, j, v, w, FALSE) \in AtMost(s, j)..AtLeast(s, j)
<1> DEFINE a == AtLeast(0, v)
           b == AtLeast(0, w)
           lo == AtMost(s, j)
           hi == AtLeast(s, j)
<1>1. a \in Nat /\ b \in Nat
  BY DEF AtLeast
<1>2. lo \in 0..Full /\ hi \in 0..Full /\ s \in lo..hi
  BY DEF AtLeast, AtMost, Full
<1>3. Combine(s, j, v, w, FALSE) = IF a + b = 0 THEN s ELSE Round(a * s + b * j, a + b)
  <2>1. j # NoJudge
    BY DEF NoJudge, Full
  <2>2. QED
    BY <2>1 DEF Combine
<1> HIDE DEF a, b
<1>4. lo * (a + b) <= a * s + b * j /\ a * s + b * j <= hi * (a + b)
  <2>1. s \in Nat /\ j \in Nat
    BY DEF Full
  <2>2. QED
    BY <1>1, <2>1, MeanBetween
<1> HIDE DEF lo, hi
<1>5. CASE a + b = 0
  BY <1>2, <1>3, <1>5 DEF lo, hi
<1>6. CASE a + b # 0
  <2>1. a + b \in Nat \ {0} /\ a * s + b * j \in Int
    BY <1>1, <1>6 DEF Full
  <2>2. Round(a * s + b * j, a + b) \in lo..hi
    BY <1>2, <1>4, <2>1, RoundBetween
  <2>3. QED
    BY <1>3, <1>6, <2>2 DEF lo, hi
<1>7. QED
  BY <1>5, <1>6

(* Whatever the weights, negative ones included: a critical failure stays    *)
(* "poor" however good the judges find it, and otherwise the combination is  *)
(* between the two scores, which is the deterministic one without a judge.   *)
THEOREM JudgesAreBounded ==
  ASSUME NEW s \in 0..Full, NEW j \in (0..Full) \union {NoJudge}, NEW v \in Int, NEW w \in Int
  PROVE  /\ Combine(s, j, v, w, TRUE) \in 0..Capped
         /\ Verdict(Combine(s, j, v, w, TRUE)) = "poor"
         /\ j = NoJudge => Combine(s, j, v, w, FALSE) = s
         /\ j # NoJudge => Combine(s, j, v, w, FALSE) \in AtMost(s, j)..AtLeast(s, j)
<1>1. j = NoJudge => Combine(s, j, v, w, FALSE) = s
  BY DEF Combine
<1>2. j # NoJudge => Combine(s, j, v, w, FALSE) \in AtMost(s, j)..AtLeast(s, j)
  BY CombineBetween
<1>3. PICK c : c = Combine(s, j, v, w, FALSE)
  OBVIOUS
<1>4. c \in 0..Full
  <2>1. CASE j = NoJudge
    BY <1>1, <1>3, <2>1
  <2>2. CASE j # NoJudge
    <3>1. j \in 0..Full /\ c \in AtMost(s, j)..AtLeast(s, j)
      BY <1>2, <1>3, <2>2
    <3>2. AtMost(s, j) \in 0..Full /\ AtLeast(s, j) \in 0..Full
      BY <3>1 DEF AtMost, AtLeast
    <3>3. ASSUME NEW x \in 0..Full, NEW y \in 0..Full, c \in x..y PROVE c \in 0..Full
      <4>1. x \in Int /\ y \in Int /\ 0 <= x /\ y <= Full
        BY DEF Full
      <4>2. c \in Int /\ x <= c /\ c <= y
        BY <3>3, <4>1
      <4>3. QED
        BY <4>1, <4>2 DEF Full
    <3>4. QED
      BY <3>1, <3>2, <3>3
  <2>3. QED
    BY <2>1, <2>2
<1>5. PICK d : d = AtMost(c, Capped)
  OBVIOUS
<1>6. Combine(s, j, v, w, TRUE) = d
  BY <1>3, <1>5 DEF Combine
<1>7. d \in 0..Capped
  <2>1. c \in Int /\ 0 <= c
    BY <1>4 DEF Full
  <2>2. QED
    BY <1>5, <2>1 DEF AtMost, Capped
<1>8. Verdict(d) = "poor"
  <2>1. ~(d >= 6000) /\ ~(d >= 7000) /\ ~(d >= 8000) /\ ~(d >= 9000)
    BY <1>7 DEF Capped
  <2>2. QED
    BY <2>1 DEF Verdict
<1>9. QED
  BY <1>1, <1>2, <1>6, <1>7, <1>8

(* The least of a set of numbers: what inductions are made of here.          *)
LEMMA Least ==
  ASSUME NEW T \in SUBSET Nat, T # {}
  PROVE  \E n \in T : \A m \in T : n <= m
<1>1. PICK n \in T : \A m \in T : ~(<<m, n>> \in OpToRel(<, Nat))
  BY NatLessThanWellFounded, WFMin
<1>2. \A m \in T : m \in Nat /\ n \in Nat /\ ~(m < n)
  BY <1>1 DEF OpToRel
<1>3. QED
  BY <1>2

(* The function of which Total is the last value.                            *)
Sums(s, n, g) == g = [i \in 0..n |-> IF i = 0 THEN 0 ELSE g[i - 1] + s[i]]

LEMMA SumsExist ==
  ASSUME NEW s
  PROVE  \A n \in Nat : \E g : Sums(s, n, g)
<1> DEFINE Bad == {n \in Nat : ~\E g : Sums(s, n, g)}
<1>1. SUFFICES ASSUME Bad # {} PROVE FALSE
  OBVIOUS
<1>2. PICK n \in Bad : \A m \in Bad : n <= m
  BY <1>1, Least
<1>3. CASE n = 0
  <2> DEFINE g == [i \in 0..0 |-> 0]
  <2>1. Sums(s, 0, g)
    BY DEF Sums
  <2>2. QED
    BY <1>2, <1>3, <2>1
<1>4. CASE n # 0
  <2>1. n - 1 \in Nat /\ n - 1 \notin Bad
    BY <1>2, <1>4
  <2>2. PICK g : Sums(s, n - 1, g)
    BY <2>1
  <2> DEFINE h == [i \in 0..n |-> IF i = n THEN g[n - 1] + s[n] ELSE g[i]]
  <2>3. Sums(s, n, h)
    <3>1. \A i \in 0..(n - 1) : h[i] = g[i] /\ g[i] = IF i = 0 THEN 0 ELSE g[i - 1] + s[i]
      BY <1>2, <2>1, <2>2 DEF Sums
    <3>2. \A i \in 0..n : h[i] = IF i = 0 THEN 0 ELSE h[i - 1] + s[i]
      <4> TAKE i \in 0..n
      <4>1. CASE i = n
        BY <1>2, <1>4, <4>1, <3>1
      <4>2. CASE i # n
        BY <1>2, <1>4, <4>2, <3>1
      <4>3. QED
        BY <4>1, <4>2
    <3>3. QED
      BY <3>2 DEF Sums
  <2>4. QED
    BY <1>2, <2>3
<1>5. QED
  BY <1>3, <1>4

LEMMA TotalIs ==
  ASSUME NEW s, Len(s) \in Nat
  PROVE  \E g : Sums(s, Len(s), g) /\ Total(s) = g[Len(s)]
<1> DEFINE h == CHOOSE g : Sums(s, Len(s), g)
<1>1. Sums(s, Len(s), h)
  BY SumsExist
<1>2. Total(s) = h[Len(s)]
  BY DEF Total, Sums
<1>3. QED
  BY <1>1, <1>2

LEMMA TimesGrows ==
  ASSUME NEW c \in Nat, NEW a \in Int, NEW b \in Int, a <= b
  PROVE  c * a <= c * b /\ c * a \in Int /\ c * b \in Int
  OBVIOUS

(* The mean of any number of judges, of which one at least has a positive    *)
(* weight, is between the least and the greatest of their scores.            *)
THEOREM AggregateBetween ==
  ASSUME NEW scores \in Seq(0..Full), NEW weights \in Seq(Int), Len(weights) = Len(scores),
         NEW lo \in 0..Full, NEW hi \in 0..Full, \A n \in 1..Len(scores) : scores[n] \in lo..hi,
         NEW k \in 1..Len(scores), weights[k] > 0
  PROVE  Aggregate(scores, weights) \in lo..hi
<1> DEFINE w    == [n \in 1..Len(scores) |-> AtLeast(0, weights[n])]
           part == [n \in 1..Len(scores) |-> w[n] * scores[n]]
<1>1. Len(scores) \in Nat /\ DOMAIN scores = 1..Len(scores) /\ lo \in Int /\ hi \in Int
  BY ScoreIs
<1>2. Len(w) = Len(scores) /\ Len(part) = Len(scores)
  BY <1>1
<1>3. \A n \in 1..Len(scores) : /\ w[n] \in Nat /\ scores[n] \in Int /\ lo <= scores[n] /\ scores[n] <= hi
                                /\ part[n] = w[n] * scores[n]
  BY <1>1 DEF AtLeast
<1>4. w[k] > 0
  BY DEF AtLeast
<1>5. Aggregate(scores, weights) = Round(Total(part), IF Total(w) = 0 THEN Len(scores) ELSE Total(w))
  BY <1>1 DEF Aggregate
<1> HIDE DEF w, part
<1>6. PICK g : Sums(w, Len(scores), g) /\ Total(w) = g[Len(scores)]
  BY <1>1, <1>2, TotalIs
<1>7. PICK h : Sums(part, Len(scores), h) /\ Total(part) = h[Len(scores)]
  BY <1>1, <1>2, TotalIs
<1>8. /\ \A n \in 0..Len(scores) : g[n] = IF n = 0 THEN 0 ELSE g[n - 1] + w[n]
      /\ \A n \in 0..Len(scores) : h[n] = IF n = 0 THEN 0 ELSE h[n - 1] + part[n]
  BY <1>6, <1>7 DEF Sums
<1> DEFINE Mean(n) == /\ g[n] \in Nat /\ h[n] \in Int /\ lo * g[n] <= h[n] /\ h[n] <= hi * g[n]
                      /\ n >= k => g[n] > 0
           Bad == {n \in Nat : n <= Len(scores) /\ ~Mean(n)}
<1>9. Bad = {}
  <2>1. SUFFICES ASSUME Bad # {} PROVE FALSE
    OBVIOUS
  <2>2. PICK n \in Bad : \A m \in Bad : n <= m
    BY <2>1, Least
  <2>3. CASE n = 0
    BY <1>1, <1>8, <2>2, <2>3
  <2>4. CASE n # 0
    <3>1. n - 1 \in Nat /\ n \in 1..Len(scores) /\ n \in 0..Len(scores) /\ Mean(n - 1)
      BY <1>1, <2>2, <2>4
    <3>2. PICK a \in Nat, b \in Int, c \in Nat, d \in Int :
            /\ a = g[n - 1] /\ b = h[n - 1] /\ c = w[n] /\ d = scores[n]
            /\ lo * a <= b /\ b <= hi * a /\ lo <= d /\ d <= hi
      BY <1>3, <3>1
    <3>3. g[n] = a + c /\ h[n] = b + c * d
      BY <1>3, <1>8, <2>4, <3>1, <3>2
    <3>4. c * lo <= c * d /\ c * d <= c * hi
      BY <1>1, <3>2, TimesGrows
    <3>5. lo * (a + c) = lo * a + c * lo /\ hi * (a + c) = hi * a + c * hi
      BY <1>1
    <3>6. lo * (a + c) <= b + c * d /\ b + c * d <= hi * (a + c)
      <4>1. PICK q \in Int, r \in Int, t \in Int, u \in Int, v \in Int :
              q = lo * a /\ r = c * lo /\ t = hi * a /\ u = c * hi /\ v = c * d
        BY <1>1
      <4>2. q <= b /\ b <= t /\ r <= v /\ v <= u
        BY <3>2, <3>4, <4>1
      <4>3. q + r <= b + v /\ b + v <= t + u
        BY <4>2
      <4>4. QED
        BY <3>5, <4>1, <4>3
    <3>7. n >= k => a + c > 0
      <4>1. CASE n = k
        BY <1>4, <3>2, <4>1
      <4>2. CASE n # k
        <5>1. n >= k => n - 1 >= k
          BY <3>1, <4>2
        <5>2. n - 1 >= k => g[n - 1] > 0
          BY <3>1
        <5>3. n >= k => a > 0
          BY <3>2, <5>1, <5>2, Zenon
        <5>4. a + c > 0 \/ ~(a > 0)
          BY <3>2
        <5>5. QED
          BY <5>3, <5>4
      <4>3. QED
        BY <4>1, <4>2
    <3>8. Mean(n)
      <4>1. a + c \in Nat /\ b + c * d \in Int
        <5>1. PICK v \in Int : v = c * d
          BY <1>1, <3>2, TimesGrows
        <5>2. QED
          BY <5>1
      <4>2. QED
        BY <3>3, <3>6, <3>7, <4>1
    <3>9. QED
      BY <2>2, <3>8
  <2>5. QED
    BY <2>3, <2>4
<1>10. Mean(Len(scores))
  BY <1>1, <1>9
<1>11. Round(h[Len(scores)], g[Len(scores)]) \in lo..hi
  <2>1. PICK a \in Nat \ {0}, b \in Int : a = g[Len(scores)] /\ b = h[Len(scores)] /\ lo * a <= b /\ b <= hi * a
    BY <1>1, <1>10
  <2>2. QED
    BY <2>1, RoundBetween
<1>12. QED
  BY <1>5, <1>6, <1>7, <1>10, <1>11

-------------------------------------------------------------------------------
(* The system of a candidate and its revisions.                              *)

LEMMA LoseSteps ==
  ASSUME Scorable(pair), NEW k \in Kinds, NEW t \in Tokens, NEW n \in 1..MaxCount, Lose(k, t, n)
  PROVE  Scorable(pair') /\ Worse(pair', pair)
<1>1. pair \in Texts /\ pair.cand \in Anchors /\ pair.source \in Anchors
  BY TextIs DEF Scorable
<1> DEFINE kept == [pair.cand EXCEPT ![k] = @ \ {<<t, n>>}]
<1>2. pair' = [pair EXCEPT !.cand = kept]
  BY DEF Lose
<1>3. kept \in Anchors
  BY <1>1 DEF Anchors
<1>4. <<t, n>> \in pair.source[k]
  BY DEF Lose
<1>5. \A i \in Kinds : kept[i] = IF i = k THEN pair.cand[i] \ {<<t, n>>} ELSE pair.cand[i]
  BY <1>1 DEF Anchors
<1> HIDE DEF kept
<1>6. pair' \in Texts /\ pair'.cand = kept
  BY <1>1, <1>2, <1>3 DEF Texts, Anchors
<1>7. Scorable(pair')
  BY <1>1, <1>2, <1>6 DEF Scorable, Texts
<1>8. Worse(pair', pair)
  <2>1. \A i \in Kinds : /\ pair.source[i] \intersect kept[i] \subseteq pair.cand[i]
                         /\ pair.cand[i] \ pair.source[i] \subseteq kept[i]
    BY <1>4, <1>5
  <2>2. QED
    BY <1>1, <1>2, <1>6, <2>1 DEF Worse, Texts
<1>9. QED
  BY <1>7, <1>8

LEMMA InventSteps ==
  ASSUME Scorable(pair), NEW k \in Kinds, NEW t \in Tokens, NEW n \in 1..MaxCount, Invent(k, t, n)
  PROVE  Scorable(pair') /\ Worse(pair', pair)
<1>1. pair \in Texts /\ pair.cand \in Anchors /\ pair.source \in Anchors
  BY TextIs DEF Scorable
<1> DEFINE more == [pair.cand EXCEPT ![k] = @ \union {<<t, n>>}]
<1>2. pair' = [pair EXCEPT !.cand = more]
  BY DEF Invent
<1>3. more \in Anchors
  BY <1>1 DEF Anchors, Occurrences
<1>4. <<t, n>> \notin pair.source[k]
  BY DEF Invent
<1>5. \A i \in Kinds : more[i] = IF i = k THEN pair.cand[i] \union {<<t, n>>} ELSE pair.cand[i]
  BY <1>1 DEF Anchors
<1> HIDE DEF more
<1>6. pair' \in Texts /\ pair'.cand = more
  BY <1>1, <1>2, <1>3 DEF Texts, Anchors
<1>7. Scorable(pair')
  BY <1>1, <1>2, <1>6 DEF Scorable, Texts
<1>8. Worse(pair', pair)
  <2>1. \A i \in Kinds : /\ pair.source[i] \intersect more[i] \subseteq pair.cand[i]
                         /\ pair.cand[i] \ pair.source[i] \subseteq more[i]
    BY <1>4, <1>5
  <2>2. QED
    BY <1>1, <1>2, <1>6, <2>1 DEF Worse, Texts
<1>9. QED
  BY <1>7, <1>8

LEMMA EmptySteps ==
  ASSUME Scorable(pair), Empty
  PROVE  Scorable(pair') /\ Blank(pair')
<1>1. pair \in Texts
  BY DEF Scorable
<1> DEFINE none == [k \in Kinds |-> {}]
<1>2. pair' = [pair EXCEPT !.cand = none, !.candWords = 0, !.candSentences = 0, !.kept = 0, !.leaked = 0]
  BY DEF Empty
<1>3. none \in [Kinds -> SUBSET Occurrences]
  OBVIOUS
<1> HIDE DEF none
<1>4. pair' \in Texts /\ pair'.leaked = 0 /\ pair'.candSentences = 0
  BY <1>1, <1>2, <1>3 DEF Texts
<1>5. pair'.phrases \in Nat
  BY <1>4, TextIs
<1>6. QED
  BY <1>4, <1>5 DEF Scorable, Blank

LEMMA ReviseSteps ==
  ASSUME Scorable(pair), Revise
  PROVE  Scorable(pair') /\ (Worse(pair', pair) \/ Blank(pair'))
  BY LoseSteps, InventSteps, EmptySteps DEF Revise

THEOREM QualityTyped == QualitySpec => []Scorable(pair)
<1>1. ScoreInit => Scorable(pair)
  BY QualityAssumption DEF ScoreInit, Scorable
<1>2. Scorable(pair) /\ [Revise]_pair => Scorable(pair)'
  BY ReviseSteps DEF Scorable
<1>3. QED
  BY <1>1, <1>2, PTL DEF QualitySpec

LEMMA Graded ==
  ASSUME NEW x \in Texts, Scorable(x)
  PROVE  Deterministic(x).score \in 0..Full
<1>1. PICK s \in 0..Full : s = Uncapped(x)
  BY GradesRange
<1>2. AtMost(s, Capped) \in 0..Full
  BY <1>1 DEF AtMost, Capped, Full
<1>3. QED
  BY <1>1, <1>2, DeterministicIs

LEMMA JudgesJudge ==
  ASSUME NEW s \in 0..Full, NEW a \in Answers, NEW v \in Weights, NEW w \in Weights
  PROVE  /\ Overall(a) \in 0..Full
         /\ v > 0 \/ w > 0 => Aggregate(<<s, Overall(a)>>, <<v, w>>) \in Between(s, Overall(a))
<1>1. a \in [1..6 -> 0..Full] /\ v \in Int /\ w \in Int
  BY QualityAssumption
<1>2. Overall(a) \in 0..Full
  <2>1. a[1] \in Int /\ a[2] \in Int /\ a[3] \in Int /\ a[4] \in Int /\ a[5] \in Int /\ a[6] \in Int
    BY <1>1, ScoreIs
  <2>2. 30*a[1] + 20*a[2] + 15*a[3] + 15*a[4] + 10*a[5] + 10*a[6] \in Int
    BY <2>1
  <2>3. PICK n \in Int : n = 30*a[1] + 20*a[2] + 15*a[3] + 15*a[4] + 10*a[5] + 10*a[6]
    BY <2>2
  <2>4. Overall(a) = Round(n, 100)
    BY <2>3 DEF Overall
  <2>5. QED
    BY <2>4, RoundRange
<1>3. PICK j \in 0..Full : j = Overall(a)
  BY <1>2
<1>4. ASSUME v > 0 \/ w > 0 PROVE Aggregate(<<s, j>>, <<v, w>>) \in Between(s, j)
  <2> DEFINE lo == AtMost(s, j)
             hi == AtLeast(s, j)
             scores == <<s, j>>
             weights == <<v, w>>
  <2>1. lo \in 0..Full /\ hi \in 0..Full /\ s \in lo..hi /\ j \in lo..hi
    BY DEF AtMost, AtLeast, Full
  <2>2. scores \in Seq(0..Full) /\ weights \in Seq(Int) /\ Len(scores) = 2 /\ Len(weights) = 2
    BY <1>1
  <2>3. scores[1] = s /\ scores[2] = j /\ weights[1] = v /\ weights[2] = w
    OBVIOUS
  <2> HIDE DEF lo, hi, scores, weights
  <2>4. \A n \in 1..Len(scores) : scores[n] \in lo..hi
    BY <2>1, <2>2, <2>3
  <2>5. PICK k \in 1..Len(scores) : weights[k] > 0
    BY <1>4, <2>2, <2>3
  <2>6. Aggregate(scores, weights) \in lo..hi
    BY <2>1, <2>2, <2>4, <2>5, AggregateBetween
  <2>7. QED
    BY <2>6 DEF Between, lo, hi, scores, weights
<1>5. QED
  BY <1>2, <1>3, <1>4

(* Every reachable candidate is graded as ScoresAreGraded says, of any texts,*)
(* anchors, answers of judges and weights.                                   *)
THEOREM ScoresGraded == QualitySpec => []ScoresAreGraded
<1>1. Scorable(pair) => ScoresAreGraded
  <2>1. SUFFICES ASSUME Scorable(pair) PROVE ScoresAreGraded
    OBVIOUS
  <2>2. pair \in Texts
    BY <2>1 DEF Scorable
  <2>3. Deterministic(pair).score \in 0..Full
    BY <2>1, <2>2, Graded
  <2>4. /\ Careful(pair) => (Deterministic(pair).score = Full <=> pair.source = pair.cand)
        /\ Careful(pair) /\ pair.source = pair.cand => ~Deterministic(pair).critical
    BY <2>1, <2>2, FullIs
  <2>5. ASSUME NEW a \in Answers, NEW v \in Weights, NEW w \in Weights
        PROVE  /\ IF Deterministic(pair).critical
                  THEN Verdict(Combine(Deterministic(pair).score, Overall(a), v, w, Deterministic(pair).critical)) = "poor"
                  ELSE Combine(Deterministic(pair).score, Overall(a), v, w, Deterministic(pair).critical)
                         \in Between(Deterministic(pair).score, Overall(a))
               /\ v > 0 \/ w > 0 => Aggregate(<<Deterministic(pair).score, Overall(a)>>, <<v, w>>)
                                      \in Between(Deterministic(pair).score, Overall(a))
    <3>1. PICK s \in 0..Full : s = Deterministic(pair).score
      BY <2>3
    <3>2. PICK j \in 0..Full : j = Overall(a)
      BY <2>3, JudgesJudge
    <3>3. v > 0 \/ w > 0 => Aggregate(<<s, j>>, <<v, w>>) \in Between(s, j)
      BY <3>2, JudgesJudge
    <3>4. v \in Int /\ w \in Int
      BY QualityAssumption
    <3>5. j # NoJudge
      BY DEF NoJudge, Full
    <3>6. /\ Verdict(Combine(s, j, v, w, TRUE)) = "poor"
          /\ Combine(s, j, v, w, FALSE) \in Between(s, j)
      BY <3>4, <3>5, JudgesAreBounded DEF Between
    <3>7. IF Deterministic(pair).critical
          THEN Combine(s, j, v, w, Deterministic(pair).critical) = Combine(s, j, v, w, TRUE)
          ELSE Combine(s, j, v, w, Deterministic(pair).critical) = Combine(s, j, v, w, FALSE)
      BY DEF Combine
    <3>8. QED
      BY <3>1, <3>2, <3>3, <3>6, <3>7
  <2>6. QED
    BY <2>3, <2>4, <2>5 DEF ScoresAreGraded
<1>2. QED
  BY <1>1, QualityTyped, PTL

(* A revision that loses or invents an anchor never raises the score, nor    *)
(* takes any revision a critical failure away.                               *)
THEOREM ErrorsDoNotHelp == QualitySpec => ErrorsNeverHelp
<1>1. ASSUME Scorable(pair), Revise
      PROVE  /\ pair'.candSentences > 0 => Deterministic(pair').score <= Deterministic(pair).score
             /\ Deterministic(pair).critical => Deterministic(pair').critical
  <2>1. Scorable(pair') /\ (Worse(pair', pair) \/ Blank(pair')) /\ pair \in Texts /\ pair' \in Texts
    BY <1>1, ReviseSteps DEF Scorable
  <2>2. CASE Worse(pair', pair)
    BY <1>1, <2>1, <2>2, WorseScores
  <2>3. CASE Blank(pair')
    <3>1. ~(pair'.candSentences > 0)
      BY <2>3 DEF Blank
    <3>2. Deterministic(pair').critical = Critical(pair')
      BY DeterministicIs
    <3>3. QED
      BY <2>3, <3>1, <3>2 DEF Critical
  <2>4. QED
    BY <2>1, <2>2, <2>3
<1>2. Scorable(pair) /\ [Revise]_pair
        => [pair # NoPair =>
              /\ pair'.candSentences > 0 => Deterministic(pair').score <= Deterministic(pair).score
              /\ Deterministic(pair).critical => Deterministic(pair').critical]_pair
  BY <1>1
<1>3. QED
  BY <1>2, QualityTyped, PTL DEF QualitySpec, ErrorsNeverHelp

===============================================================================
