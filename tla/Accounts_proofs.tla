---------------------------- MODULE Accounts_proofs ----------------------------
(***************************************************************************)
(* Proofs about Accounts, for any number of handlers, accounts, e-mail     *)
(* addresses, identities and operations of a PATCH; and about Sessions, for*)
(* every set of requests, every cap and any number of logins, tokens and   *)
(* changes of the account.                                                 *)
(***************************************************************************)
EXTENDS Accounts, Sessions, FiniteSetTheorems, TLAPS

-------------------------------------------------------------------------------
(* Types.                                                                    *)

Account == [email : Emails, role : Roles, identity : Identities \union {None}, active : BOOLEAN]

Row   == Account \union {NoRow}
Table == [Ids -> Row]

HandlerKinds == {"create", "login", "admin", "scim", "group", "patch"}

Working ==
  [pc : {"commit", "patch", "commitpart"}, kind : HandlerKinds, id : Ids \union {0},
   loaded : Table, pending : Table, operations : Nat, partly : BOOLEAN]

AccountsTypeOK ==
  /\ row \in Table
  /\ handler \in [Clients -> Working \union {Resting}]
  /\ raced \in [Clients -> SUBSET Ids]
  /\ started \in Nat

-------------------------------------------------------------------------------
(* The invariant: what a handler is about to write, as against what it read. *)

Used(rows) == {i \in Ids : rows[i] # NoRow}

(* Ids are given in order, and no row is ever deleted.                       *)
Contiguous(rows) == \E k \in Nat : Used(rows) = 1..k

Creates(h) == h.kind = "create" => h.pc = "commit" /\ h.id \in Ids /\ h.pending[h.id] \in Account

Updates(h) == h.kind # "create" => \A i \in Ids : h.loaded[i] = NoRow <=> h.pending[i] = NoRow

(* Only a login binds an identity, to an account that had no other,          *)
Unbound(h) == h.kind \notin {"create", "login"} =>
  \A i \in Ids : h.pending[i].identity = h.loaded[i].identity

(* and it changes one row, and no role but a viewer's.                       *)
LogsIn(h) == h.kind = "login" =>
  /\ h.pc = "commit" /\ h.id \in Ids
  /\ \A i \in Ids : i # h.id => h.pending[i] = h.loaded[i]
  /\ h.loaded[h.id].identity \in {None, h.pending[h.id].identity}
  /\ h.pending[h.id].role = h.loaded[h.id].role \/ h.loaded[h.id].role = "viewer"

Patches(h) == h.pc # "commit" => h.kind = "patch" /\ h.id \in Ids /\ h.loaded[h.id] \in Account

(* Only a deactivation commits a part, and the rest starts from there.       *)
Parts(h) ==
  /\ h.pc = "commitpart" => ~h.pending[h.id].active
  /\ h.partly => h.id \in Ids /\ ~h.loaded[h.id].active

Honest(h) == Creates(h) /\ Updates(h) /\ Unbound(h) /\ LogsIn(h) /\ Patches(h) /\ Parts(h)

(* What it read is what is there, but for the rows others have written.      *)
Follows(h, rows, written) ==
  \A i \in Ids : /\ h.loaded[i] # NoRow => rows[i] # NoRow
                 /\ i \notin written => rows[i] = h.loaded[i]

Fine(h, rows, written) == h = Resting \/ (h \in Working /\ Honest(h) /\ Follows(h, rows, written))

AccountsInv ==
  /\ AccountsTypeOK
  /\ Contiguous(row)
  /\ \A c \in Clients : Fine(handler[c], row, raced[c])

-------------------------------------------------------------------------------
(* Rows.                                                                     *)

LEMMA AccountIsRow == \A a \in Account : a # NoRow
  BY AccountsAssumption DEF Account, NoRow, None

LEMMA RestingKind == Resting.kind = "none" /\ Resting.pc = "idle" /\ Resting \notin Working
  BY DEF Resting, None, Working

(* A column that the handler has not changed keeps what is there.            *)
LEMMA MergeKeeps ==
  ASSUME NEW a \in Row, NEW l \in Row, NEW p \in Row, l = NoRow <=> p = NoRow,
         l # NoRow => a # NoRow
  PROVE  LET b == Merge(a, l, p) IN
         /\ b \in Row /\ (b = NoRow <=> a = NoRow)
         /\ p = l => b = a
         /\ a = l => b = p
         /\ p.identity = l.identity => b.identity = a.identity
<1> DEFINE b == Merge(a, l, p)
<1>1. CASE l = NoRow
  <2>1. p = l
    BY <1>1
  <2>2. b = a
    <3>1. a = [f \in DOMAIN a |-> a[f]]
      BY DEF Row, Account, NoRow
    <3>2. QED
      BY <2>1, <3>1 DEF Merge
  <2>3. QED
    BY <2>1, <2>2
<1>2. CASE l # NoRow
  <2>1. a \in Account /\ l \in Account /\ p \in Account
    BY <1>2 DEF Row
  <2>2. b \in Account
    BY <2>1 DEF Merge, Account
  <2>3. p = l => b = a
    BY <2>1 DEF Merge, Account
  <2>4. a = l => b = p
    BY <2>1 DEF Merge, Account
  <2>5. p.identity = l.identity => b.identity = a.identity
    BY <2>1 DEF Merge, Account
  <2> HIDE DEF b
  <2>6. b # NoRow /\ a # NoRow
    BY <2>1, <2>2, AccountIsRow
  <2>7. QED
    BY <2>2, <2>3, <2>4, <2>5, <2>6 DEF Row, b
<1>3. QED
  BY <1>1, <1>2

LEMMA ExistingIsUsed == Existing = Used(row)
  BY DEF Existing, Used

(* The next id is that of the first row that is not used.                    *)
LEMMA NextIsFree ==
  ASSUME Contiguous(row)
  PROVE  /\ Cardinality(Existing) \in Nat
         /\ Existing = 1..Cardinality(Existing)
         /\ Cardinality(Existing) + 1 \notin Existing
<1>1. PICK k \in Nat : Existing = 1..k
  BY ExistingIsUsed DEF Contiguous
<1>2. Cardinality(1..k) = k
  BY FS_Interval
<1>3. QED
  BY <1>1, <1>2

LEMMA InsertIs ==
  ASSUME AccountsInv, NEW email \in Emails, NEW role \in Roles,
         NEW identity \in Identities \union {None}, NEW active \in BOOLEAN,
         NEW new \in Insert(email, role, identity, active)
  PROVE  LET j == Cardinality(Existing) + 1
         IN  j \in Ids /\ new \in Table /\ new[j] \in Account
<1> DEFINE a == [email |-> email, role |-> role, identity |-> identity, active |-> active]
           j == Cardinality(Existing) + 1
<1>1. a \in Account
  BY DEF Account
<1>2. PICK i \in Ids : Existing = 1..(i - 1) /\ new = [row EXCEPT ![i] = a]
  BY DEF Insert
<1>3. i = j
  <2>1. i - 1 \in Nat /\ i \in Nat
    BY DEF Ids
  <2>2. PICK k : k = i - 1
    OBVIOUS
  <2>3. Cardinality(1..k) = k
    BY <2>1, <2>2, FS_Interval
  <2>4. QED
    BY <1>2, <2>1, <2>2, <2>3
<1> HIDE DEF a
<1>4. new \in Table /\ new[i] = a
  BY <1>1, <1>2 DEF AccountsInv, AccountsTypeOK, Table, Row
<1>5. QED
  BY <1>1, <1>3, <1>4

-------------------------------------------------------------------------------
(* The steps of a handler before its commit.                                 *)

LEMMA OneHandler ==
  ASSUME AccountsInv, NEW c \in Clients, NEW h \in Working \union {Resting},
         row' = row, handler' = [handler EXCEPT ![c] = h], started' \in Nat,
         raced' = raced \/ raced' = [raced EXCEPT ![c] = {}],
         Fine(h, row, raced'[c])
  PROVE  AccountsInv'
<1>1. /\ handler \in [Clients -> Working \union {Resting}] /\ raced \in [Clients -> SUBSET Ids]
      /\ \A o \in Clients : Fine(handler[o], row, raced[o])
  BY DEF AccountsInv, AccountsTypeOK
<1>2. AccountsTypeOK'
  BY <1>1 DEF AccountsInv, AccountsTypeOK
<1>3. Contiguous(row')
  BY DEF AccountsInv
<1>4. ASSUME NEW o \in Clients PROVE Fine(handler'[o], row', raced'[o])
  <2>1. CASE o = c
    BY <1>1, <2>1
  <2>2. CASE o # c
    <3>1. handler'[o] = handler[o] /\ raced'[o] = raced[o]
      BY <1>1, <2>2
    <3>2. QED
      BY <1>1, <3>1
  <2>3. QED
    BY <2>1, <2>2
<1>5. QED
  BY <1>2, <1>3, <1>4 DEF AccountsInv

(* A handler that starts has read the rows as they are.                      *)
LEMMA StartKeeps ==
  ASSUME AccountsInv, NEW c \in Clients, NEW kind \in HandlerKinds, NEW id \in Ids \union {0},
         NEW pc \in {"commit", "patch"}, NEW new \in Table, Start(c, kind, id, pc, new),
         kind = "create" => pc = "commit" /\ id \in Ids /\ new[id] \in Account,
         kind # "create" => \A i \in Ids : row[i] = NoRow <=> new[i] = NoRow,
         kind \notin {"create", "login"} => \A i \in Ids : new[i].identity = row[i].identity,
         kind = "login" => /\ pc = "commit" /\ id \in Ids
                           /\ \A i \in Ids : i # id => new[i] = row[i]
                           /\ row[id].identity \in {None, new[id].identity}
                           /\ new[id].role = row[id].role \/ row[id].role = "viewer",
         pc # "commit" => kind = "patch" /\ id \in Ids /\ row[id] \in Account
  PROVE  AccountsInv'
<1> DEFINE h == [pc |-> pc, kind |-> kind, id |-> id, loaded |-> row, pending |-> new, operations |-> 0,
                 partly |-> FALSE]
<1>1. /\ ~h.partly /\ h.pc = pc /\ h.kind = kind /\ h.id = id /\ h.loaded = row /\ h.pending = new
  OBVIOUS
<1>2. h \in Working
  BY DEF Working, AccountsInv, AccountsTypeOK
<1>3. /\ handler' = [handler EXCEPT ![c] = h] /\ raced' = [raced EXCEPT ![c] = {}]
      /\ row' = row /\ started' \in Nat
  BY DEF Start, AccountsInv, AccountsTypeOK
<1> HIDE DEF h
<1>4. Honest(h)
  <2>1. Creates(h) /\ Updates(h)
    BY <1>1 DEF Creates, Updates
  <2>2. Unbound(h)
    BY <1>1 DEF Unbound
  <2>3. LogsIn(h)
    BY <1>1 DEF LogsIn
  <2>4. Patches(h) /\ Parts(h)
    BY <1>1 DEF Patches, Parts
  <2>5. QED
    BY <2>1, <2>2, <2>3, <2>4 DEF Honest
<1>5. Follows(h, row, raced'[c])
  BY <1>1 DEF Follows
<1>6. QED
  BY <1>2, <1>3, <1>4, <1>5, OneHandler DEF Fine

LEMMA RestKeeps ==
  ASSUME AccountsInv, NEW c \in Clients, Rest(c), UNCHANGED <<row, raced, started>>
  PROVE  AccountsInv'
  BY OneHandler DEF Rest, Fine, AccountsInv, AccountsTypeOK

LEMMA BootstrapStep ==
  ASSUME AccountsInv, NEW c \in Clients, Bootstrap(c)
  PROVE  AccountsInv'
<1> PICK email \in Emails : /\ Existing = {}
                           /\ \E new \in Insert(email, "admin", None, TRUE) : Start(c, "create", 1, "commit", new)
  BY DEF Bootstrap
<1>1. PICK new \in Insert(email, "admin", None, TRUE) : Existing = {} /\ Start(c, "create", 1, "commit", new)
  OBVIOUS
<1>2. "admin" \in Roles /\ None \in Identities \union {None} /\ TRUE \in BOOLEAN
  BY DEF Roles
<1>3. Cardinality(Existing) + 1 = 1
  BY <1>1, FS_EmptySet
<1>4. 1 \in Ids /\ new \in Table /\ new[1] \in Account
  <2>1. Cardinality(Existing) + 1 \in Ids /\ new \in Table /\ new[Cardinality(Existing) + 1] \in Account
    BY <1>2, InsertIs
  <2>2. QED
    BY <1>3, <2>1
<1>5. QED
  BY <1>1, <1>4, StartKeeps DEF HandlerKinds

LEMMA CreateKeeps ==
  ASSUME AccountsInv, NEW c \in Clients, NEW email \in Emails, NEW role \in Roles,
         NEW identity \in Identities \union {None}, NEW active \in BOOLEAN,
         NEW new \in Insert(email, role, identity, active),
         Start(c, "create", Cardinality(Existing) + 1, "commit", new)
  PROVE  AccountsInv'
<1>1. PICK j : j = Cardinality(Existing) + 1
  OBVIOUS
<1>2. j \in Ids /\ new \in Table /\ new[j] \in Account
  BY <1>1, InsertIs
<1>3. QED
  BY <1>1, <1>2, StartKeeps DEF HandlerKinds

LEMMA CreateUserStep ==
  ASSUME AccountsInv, NEW c \in Clients, CreateUser(c)
  PROVE  AccountsInv'
  BY CreateKeeps DEF CreateUser

LEMMA LoginStep ==
  ASSUME AccountsInv, NEW c \in Clients, Login(c)
  PROVE  AccountsInv'
<1>1. PICK identity \in Identities, email \in Emails, role \in Roles :
        \/ \E new \in Insert(email, role, identity, TRUE) :
             Start(c, "create", Cardinality(Existing) + 1, "commit", new)
        \/ \E i \in Matching(identity, email) :
             /\ row[i].identity \in {None, identity}
             /\ Start(c, "login", i, "commit", [row EXCEPT ![i] = LoggedIn(@, identity, role)])
  BY DEF Login
<1>2. CASE \E new \in Insert(email, role, identity, TRUE) :
             Start(c, "create", Cardinality(Existing) + 1, "commit", new)
  BY <1>2, CreateKeeps
<1>3. CASE \E i \in Matching(identity, email) :
             /\ row[i].identity \in {None, identity}
             /\ Start(c, "login", i, "commit", [row EXCEPT ![i] = LoggedIn(@, identity, role)])
  <2>1. PICK i \in Ids : /\ row[i] # NoRow /\ row[i].identity \in {None, identity}
                         /\ Start(c, "login", i, "commit", [row EXCEPT ![i] = LoggedIn(@, identity, role)])
    BY <1>3 DEF Matching, Existing
  <2>2. row \in Table
    BY DEF AccountsInv, AccountsTypeOK
  <2>3. PICK a \in Account : a = row[i]
    BY <2>1, <2>2 DEF Table, Row
  <2>4. PICK b \in Account : /\ b = LoggedIn(a, identity, role) /\ b.identity = identity
                             /\ b.role = a.role \/ a.role = "viewer"
    <3> DEFINE b == LoggedIn(a, identity, role)
    <3>1. b \in Account /\ b.identity = identity /\ (b.role = a.role \/ a.role = "viewer")
      BY DEF LoggedIn, Account
    <3> HIDE DEF b
    <3>2. QED
      BY <3>1 DEF b
  <2>5. PICK new : new = [row EXCEPT ![i] = b]
    OBVIOUS
  <2>6. Start(c, "login", i, "commit", new)
    BY <2>1, <2>3, <2>4, <2>5
  <2>7. new \in Table /\ new[i] = b /\ \A k \in Ids : k # i => new[k] = row[k]
    BY <2>2, <2>5 DEF Table, Row
  <2>8. b # NoRow /\ a # NoRow
    BY AccountIsRow
  <2>9. \A k \in Ids : row[k] = NoRow <=> new[k] = NoRow
    BY <2>3, <2>7, <2>8
  <2>10. row[i].identity \in {None, new[i].identity} /\ (new[i].role = row[i].role \/ row[i].role = "viewer")
    BY <2>1, <2>3, <2>4, <2>7
  <2>11. "login" \in HandlerKinds /\ "commit" \in {"commit", "patch"}
    BY DEF HandlerKinds
  <2>12. QED
    BY <2>6, <2>7, <2>9, <2>10, <2>11, StartKeeps
<1>4. QED
  BY <1>1, <1>2, <1>3

(* A change of rows that exist, of any column but the identity.              *)
LEMMA ChangeKeeps ==
  ASSUME AccountsInv, NEW c \in Clients, NEW kind \in {"admin", "scim", "group"},
         NEW id \in Ids \union {0}, NEW new \in Table, Start(c, kind, id, "commit", new),
         \A i \in Ids : \/ new[i] = row[i]
                        \/ row[i] \in Account /\ new[i] \in Account /\ new[i].identity = row[i].identity
  PROVE  AccountsInv'
<1>1. \A i \in Ids : row[i] = NoRow <=> new[i] = NoRow
  BY AccountIsRow
<1>2. \A i \in Ids : new[i].identity = row[i].identity
  OBVIOUS
<1>3. kind \in HandlerKinds /\ kind \notin {"create", "login"} /\ "commit" \in {"commit", "patch"}
  BY DEF HandlerKinds
<1>4. QED
  BY <1>1, <1>2, <1>3, StartKeeps

LEMMA ExistingRow ==
  ASSUME AccountsInv, NEW i \in Existing
  PROVE  i \in Ids /\ row[i] \in Account
  BY DEF AccountsInv, AccountsTypeOK, Table, Row, Existing

(* One row that a request changes to b.                                      *)
LEMMA ChangeOneKeeps ==
  ASSUME AccountsInv, NEW c \in Clients, NEW kind \in {"admin", "scim"}, NEW i \in Existing,
         NEW b \in Account, b.identity = row[i].identity,
         Start(c, kind, i, "commit", [row EXCEPT ![i] = b])
  PROVE  AccountsInv'
<1>1. PICK new : new = [row EXCEPT ![i] = b]
  OBVIOUS
<1>2. row \in Table /\ i \in Ids /\ row[i] \in Account
  BY ExistingRow DEF AccountsInv, AccountsTypeOK
<1>3. new \in Table /\ new[i] = b /\ \A k \in Ids : k # i => new[k] = row[k]
  BY <1>1, <1>2 DEF Table, Row
<1>4. \A k \in Ids : \/ new[k] = row[k]
                     \/ row[k] \in Account /\ new[k] \in Account /\ new[k].identity = row[k].identity
  BY <1>2, <1>3
<1>5. Start(c, kind, i, "commit", new)
  BY <1>1
<1>6. QED
  BY <1>2, <1>3, <1>4, <1>5, ChangeKeeps

LEMMA UpdateRoleStep ==
  ASSUME AccountsInv, NEW c \in Clients, UpdateRole(c)
  PROVE  AccountsInv'
<1>1. PICK i \in Existing, role \in Roles, active \in BOOLEAN :
        Start(c, "admin", i, "commit", [row EXCEPT ![i].role = role, ![i].active = active])
  BY DEF UpdateRole
<1>2. row \in Table /\ i \in Ids /\ row[i] \in Account
  BY ExistingRow DEF AccountsInv, AccountsTypeOK
<1>3. PICK a \in Account : a = row[i]
  BY <1>2
<1> DEFINE b == [[a EXCEPT !.role = role] EXCEPT !.active = active]
<1>4. b \in Account /\ b.identity = a.identity
  BY DEF Account
<1>5. [row EXCEPT ![i].role = role, ![i].active = active] = [row EXCEPT ![i] = b]
  BY <1>2, <1>3 DEF Table
<1> HIDE DEF b
<1>6. QED
  BY <1>1, <1>3, <1>4, <1>5, ChangeOneKeeps

LEMMA DeleteUserStep ==
  ASSUME AccountsInv, NEW c \in Clients, DeleteUser(c)
  PROVE  AccountsInv'
<1>1. PICK i \in Existing : Start(c, "scim", i, "commit", [row EXCEPT ![i].active = FALSE])
  BY DEF DeleteUser
<1>2. row \in Table /\ i \in Ids /\ row[i] \in Account
  BY ExistingRow DEF AccountsInv, AccountsTypeOK
<1>3. PICK a \in Account : a = row[i]
  BY <1>2
<1> DEFINE b == [a EXCEPT !.active = FALSE]
<1>4. b \in Account /\ b.identity = a.identity
  BY DEF Account
<1>5. [row EXCEPT ![i].active = FALSE] = [row EXCEPT ![i] = b]
  BY <1>3
<1> HIDE DEF b
<1>6. QED
  BY <1>1, <1>3, <1>4, <1>5, ChangeOneKeeps

LEMMA ReplaceUserStep ==
  ASSUME AccountsInv, NEW c \in Clients, ReplaceUser(c)
  PROVE  AccountsInv'
<1>1. PICK i \in Existing, email \in Emails, role \in Roles, active \in BOOLEAN :
        Start(c, "scim", i, "commit",
              [row EXCEPT ![i] = [@ EXCEPT !.email = email, !.role = role, !.active = active]])
  BY DEF ReplaceUser
<1>2. PICK a \in Account : a = row[i]
  BY ExistingRow
<1> DEFINE b == [a EXCEPT !.email = email, !.role = role, !.active = active]
<1>3. b \in Account /\ b.identity = a.identity
  BY DEF Account
<1>4. Start(c, "scim", i, "commit", [row EXCEPT ![i] = b])
  BY <1>1, <1>2
<1> HIDE DEF b
<1>5. QED
  BY <1>2, <1>3, <1>4, ChangeOneKeeps

LEMMA PatchGroupStep ==
  ASSUME AccountsInv, NEW c \in Clients, PatchGroup(c)
  PROVE  AccountsInv'
<1>1. PICK role \in Roles, members \in SUBSET Existing :
        \/ Start(c, "group", 0, "commit",
                 [i \in Ids |-> IF i \in members THEN [row[i] EXCEPT !.role = role] ELSE row[i]])
        \/ Start(c, "group", 0, "commit",
                 [i \in Ids |-> IF i \in members /\ row[i].role = role
                                  THEN [row[i] EXCEPT !.role = "viewer"] ELSE row[i]])
  BY DEF PatchGroup
<1>2. PICK p \in Roles, group \in SUBSET Existing :
        Start(c, "group", 0, "commit",
              [i \in Ids |-> IF i \in group THEN [row[i] EXCEPT !.role = p] ELSE row[i]])
  <2>1. CASE Start(c, "group", 0, "commit",
                   [i \in Ids |-> IF i \in members THEN [row[i] EXCEPT !.role = role] ELSE row[i]])
    BY <2>1
  <2>2. CASE Start(c, "group", 0, "commit",
                   [i \in Ids |-> IF i \in members /\ row[i].role = role
                                    THEN [row[i] EXCEPT !.role = "viewer"] ELSE row[i]])
    <3>1. PICK group \in SUBSET Existing : group = {i \in members : row[i].role = role}
      OBVIOUS
    <3>2. [i \in Ids |-> IF i \in members /\ row[i].role = role
                           THEN [row[i] EXCEPT !.role = "viewer"] ELSE row[i]]
            = [i \in Ids |-> IF i \in group THEN [row[i] EXCEPT !.role = "viewer"] ELSE row[i]]
      BY <3>1
    <3>3. "viewer" \in Roles
      BY DEF Roles
    <3>4. QED
      BY <2>2, <3>2, <3>3
  <2>3. QED
    BY <1>1, <2>1, <2>2
<1>3. PICK new : new = [i \in Ids |-> IF i \in group THEN [row[i] EXCEPT !.role = p] ELSE row[i]]
  OBVIOUS
<1>4. ASSUME NEW i \in Ids
      PROVE  /\ new[i] \in Row
             /\ \/ new[i] = row[i]
                \/ row[i] \in Account /\ new[i] \in Account /\ new[i].identity = row[i].identity
  <2>1. CASE i \in group
    <3>1. PICK a \in Account : a = row[i]
      BY <2>1, ExistingRow
    <3> DEFINE b == [a EXCEPT !.role = p]
    <3>2. b \in Account /\ b.identity = a.identity
      BY DEF Account
    <3>3. new[i] = b
      BY <1>3, <2>1, <3>1
    <3> HIDE DEF b
    <3>4. QED
      BY <3>1, <3>2, <3>3 DEF Row
  <2>2. CASE i \notin group
    <3>1. new[i] = row[i] /\ row[i] \in Row
      BY <1>3, <2>2 DEF AccountsInv, AccountsTypeOK, Table
    <3>2. QED
      BY <3>1
  <2>3. QED
    BY <2>1, <2>2
<1>5. new \in Table
  <2>1. new = [i \in Ids |-> new[i]]
    BY <1>3
  <2>2. QED
    BY <1>4, <2>1 DEF Table
<1>6. Start(c, "group", 0, "commit", new)
  BY <1>2, <1>3
<1>7. QED
  BY <1>4, <1>5, <1>6, ChangeKeeps

LEMMA BeginPatchStep ==
  ASSUME AccountsInv, NEW c \in Clients, BeginPatch(c)
  PROVE  AccountsInv'
<1>1. PICK i \in Existing : Start(c, "patch", i, "patch", row)
  BY DEF BeginPatch
<1>2. i \in Ids /\ row[i] \in Account /\ row \in Table
  BY ExistingRow DEF AccountsInv, AccountsTypeOK
<1>3. "patch" \in HandlerKinds /\ "patch" \in {"commit", "patch"}
  BY DEF HandlerKinds
<1>4. QED
  BY <1>1, <1>2, <1>3, StartKeeps

(* A handler at work on a PATCH, and the account as its operations leave it. *)
LEMMA PatchingIs ==
  ASSUME AccountsInv, NEW c \in Clients, handler[c].pc \in {"patch", "commitpart"}
  PROVE  LET h == handler[c] IN
         /\ h \in Working /\ h.kind = "patch" /\ h.id \in Ids
         /\ h.loaded[h.id] \in Account /\ h.pending[h.id] \in Account
         /\ h.loaded \in Table /\ h.pending \in Table
         /\ Follows(h, row, raced[c]) /\ Parts(h)
         /\ \A i \in Ids : /\ h.loaded[i] = NoRow <=> h.pending[i] = NoRow
                           /\ h.pending[i].identity = h.loaded[i].identity
<1>1. PICK h : h = handler[c]
  OBVIOUS
<1>2. h \in Working /\ Honest(h) /\ Follows(h, row, raced[c])
  BY <1>1, RestingKind DEF AccountsInv, Fine
<1>3. h.kind = "patch" /\ h.id \in Ids /\ h.loaded[h.id] \in Account
  BY <1>1, <1>2 DEF Honest, Patches
<1>4. h.loaded \in Table /\ h.pending \in Table
  BY <1>2 DEF Working
<1>5. \A i \in Ids : h.loaded[i] = NoRow <=> h.pending[i] = NoRow
  BY <1>2, <1>3 DEF Honest, Updates
<1>6. \A i \in Ids : h.pending[i].identity = h.loaded[i].identity
  BY <1>2, <1>3 DEF Honest, Unbound
<1>7. h.pending[h.id] \in Account
  BY <1>3, <1>4, <1>5, AccountIsRow DEF Table, Row
<1>8. QED
  BY <1>1, <1>2, <1>3, <1>4, <1>5, <1>6, <1>7 DEF Honest

LEMMA OperateKeeps ==
  ASSUME AccountsInv, NEW c \in Clients, NEW a \in Account, NEW pc \in {"patch", "commitpart"},
         a.identity = handler[c].pending[handler[c].id].identity, Operate(c, a, pc),
         pc = "commitpart" => ~a.active
  PROVE  AccountsInv'
<1>1. PICK h : h = handler[c]
  OBVIOUS
<1>2. /\ h \in Working /\ h.kind = "patch" /\ h.id \in Ids
      /\ h.loaded[h.id] \in Account /\ h.pending[h.id] \in Account
      /\ h.loaded \in Table /\ h.pending \in Table
      /\ Follows(h, row, raced[c]) /\ Parts(h)
      /\ \A i \in Ids : /\ h.loaded[i] = NoRow <=> h.pending[i] = NoRow
                        /\ h.pending[i].identity = h.loaded[i].identity
  BY <1>1, PatchingIs DEF Operate
<1>3. PICK new : new = [h.pending EXCEPT ![h.id] = a]
  OBVIOUS
<1>4. new \in Table /\ new[h.id] = a /\ \A i \in Ids : i # h.id => new[i] = h.pending[i]
  BY <1>2, <1>3 DEF Table, Row
<1>5. PICK n \in Nat : n = h.operations + 1
  BY <1>2 DEF Working
<1> DEFINE g == [h EXCEPT !.pending = new, !.pc = pc, !.operations = n]
<1>6. /\ g \in Working /\ g.pc = pc /\ g.kind = h.kind /\ g.id = h.id /\ g.loaded = h.loaded
      /\ g.pending = new /\ g.partly = h.partly
  BY <1>2, <1>4 DEF Working
<1>7. handler' = [handler EXCEPT ![c] = g] /\ UNCHANGED <<row, raced, started>>
  <2>1. [h EXCEPT !.pending[h.id] = a, !.pc = pc, !.operations = @ + 1] = g
    BY <1>2, <1>3, <1>5 DEF Working
  <2> HIDE DEF g
  <2>2. QED
    BY <1>1, <2>1 DEF Operate
<1> HIDE DEF g
<1>8. a # NoRow /\ h.loaded[h.id] # NoRow
  BY <1>2, AccountIsRow
<1>9. Honest(g)
  <2>1. Creates(g) /\ LogsIn(g) /\ Patches(g)
    BY <1>2, <1>6 DEF Creates, LogsIn, Patches
  <2>2. Parts(g)
    BY <1>2, <1>4, <1>6 DEF Parts
  <2>3. \A i \in Ids : g.loaded[i] = NoRow <=> g.pending[i] = NoRow
    BY <1>2, <1>4, <1>6, <1>8
  <2>4. \A i \in Ids : g.pending[i].identity = g.loaded[i].identity
    <3>1. ASSUME NEW i \in Ids PROVE g.pending[i].identity = g.loaded[i].identity
      <4>1. CASE i = h.id
        BY <1>1, <1>2, <1>4, <1>6, <4>1
      <4>2. CASE i # h.id
        BY <1>2, <1>4, <1>6, <4>2
      <4>3. QED
        BY <4>1, <4>2
    <3>2. QED
      BY <3>1
  <2>5. QED
    BY <2>1, <2>2, <2>3, <2>4 DEF Honest, Updates, Unbound
<1>10. Follows(g, row, raced'[c])
  BY <1>2, <1>6, <1>7 DEF Follows
<1>11. QED
  BY <1>6, <1>7, <1>9, <1>10, OneHandler DEF Fine, AccountsInv, AccountsTypeOK

LEMMA PatchColumnStep ==
  ASSUME AccountsInv, NEW c \in Clients, PatchColumn(c)
  PROVE  AccountsInv'
<1>1. PICK b \in Patched(handler[c]) : handler[c].pc = "patch" /\ Operate(c, b, "patch")
  BY DEF PatchColumn
<1>2. PICK a \in Account : a = handler[c].pending[handler[c].id]
  BY <1>1, PatchingIs
<1>3. \/ \E role \in Roles : b = [a EXCEPT !.role = role]
      \/ \E email \in Emails : b = [a EXCEPT !.email = email]
  BY <1>1, <1>2 DEF Patched
<1>4. b \in Account /\ b.identity = a.identity
  BY <1>3 DEF Account
<1>5. QED
  BY <1>1, <1>2, <1>4, OperateKeeps

LEMMA PatchActiveStep ==
  ASSUME AccountsInv, NEW c \in Clients, PatchActive(c)
  PROVE  AccountsInv'
<1>1. PICK active \in BOOLEAN, pc \in {"patch", "commitpart"} :
        /\ handler[c].pc = "patch" /\ (active => pc = "patch")
        /\ Operate(c, [handler[c].pending[handler[c].id] EXCEPT !.active = active], pc)
  BY DEF PatchActive
<1>2. PICK a \in Account : a = handler[c].pending[handler[c].id]
  BY <1>1, PatchingIs
<1> DEFINE b == [a EXCEPT !.active = active]
<1>3. b \in Account /\ b.identity = a.identity /\ b.active = active
  BY DEF Account
<1>4. Operate(c, b, pc)
  BY <1>1, <1>2
<1> HIDE DEF b
<1>5. QED
  BY <1>1, <1>2, <1>3, <1>4, OperateKeeps

LEMMA EndPatchStep ==
  ASSUME AccountsInv, NEW c \in Clients, EndPatch(c)
  PROVE  AccountsInv'
<1>1. PICK h : h = handler[c]
  OBVIOUS
<1>2. /\ h \in Working /\ h.kind = "patch" /\ Follows(h, row, raced[c]) /\ Parts(h)
      /\ \A i \in Ids : /\ h.loaded[i] = NoRow <=> h.pending[i] = NoRow
                        /\ h.pending[i].identity = h.loaded[i].identity
  BY <1>1, PatchingIs DEF EndPatch
<1> DEFINE g == [h EXCEPT !.pc = "commit"]
<1>3. /\ g \in Working /\ g.pc = "commit" /\ g.kind = h.kind /\ g.loaded = h.loaded
      /\ g.pending = h.pending /\ g.id = h.id /\ g.partly = h.partly
  BY <1>2 DEF Working
<1>4. handler' = [handler EXCEPT ![c] = g] /\ UNCHANGED <<row, raced, started>>
  BY <1>1 DEF EndPatch
<1> HIDE DEF g
<1>5. Honest(g)
  BY <1>2, <1>3 DEF Honest, Creates, Updates, Unbound, LogsIn, Patches, Parts
<1>6. Follows(g, row, raced'[c])
  BY <1>2, <1>3, <1>4 DEF Follows
<1>7. QED
  BY <1>3, <1>4, <1>5, <1>6, OneHandler DEF Fine, AccountsInv, AccountsTypeOK

LEMMA RefuseStep ==
  ASSUME AccountsInv, NEW c \in Clients, Refuse(c)
  PROVE  AccountsInv'
  BY RestKeeps DEF Refuse

-------------------------------------------------------------------------------
(* The commits.                                                              *)

(* What a commit would leave of the rows.                                    *)
LEMMA AfterIs ==
  ASSUME AccountsInv, NEW c \in Clients, handler[c] # Resting
  PROVE  /\ After(c) \in Table /\ Contiguous(After(c))
         /\ \A i \in Ids : row[i] # NoRow => After(c)[i] # NoRow
         /\ handler[c].kind = "create" => \A i \in Ids : row[i] # NoRow => After(c)[i] = row[i]
         /\ handler[c].kind # "create" =>
              \A i \in Ids :
                LET l == handler[c].loaded[i]
                    p == handler[c].pending[i]
                IN  /\ p = l => After(c)[i] = row[i]
                    /\ row[i] = l => After(c)[i] = p
                    /\ p.identity = l.identity => After(c)[i].identity = row[i].identity
<1>1. PICK h \in Working : h = handler[c] /\ Honest(h) /\ Follows(h, row, raced[c])
  BY DEF AccountsInv, Fine
<1>2. row \in Table /\ Contiguous(row) /\ h.loaded \in Table /\ h.pending \in Table
  BY DEF AccountsInv, AccountsTypeOK, Working
<1>3. PICK R : R = After(c)
  OBVIOUS
<1>4. CASE h.kind = "create"
  <2>1. PICK a \in Account : a = h.pending[h.id]
    BY <1>1, <1>4 DEF Honest, Creates
  <2>2. PICK k \in Nat : k = Cardinality(Existing) /\ Existing = 1..k /\ k + 1 \notin Existing
    BY <1>2, NextIsFree
  <2>3. R = [i \in Ids |-> IF i = k + 1 THEN a ELSE row[i]]
    BY <1>1, <1>3, <1>4, <2>1, <2>2 DEF After
  <2>4. R \in Table
    BY <1>2, <2>3 DEF Table, Row
  <2>5. \A i \in Ids : row[i] # NoRow => R[i] = row[i]
    BY <2>2, <2>3 DEF Existing
  <2>6. Contiguous(R)
    <3>1. a # NoRow
      BY AccountIsRow
    <3>2. CASE k + 1 \in Ids
      <4>1. Used(R) = Used(row) \union {k + 1}
        BY <2>3, <3>1, <3>2 DEF Used
      <4>2. (1..k) \union {k + 1} = 1..(k + 1)
        OBVIOUS
      <4>3. Used(R) = 1..(k + 1)
        BY <2>2, <4>1, <4>2, ExistingIsUsed, Zenon
      <4>4. k + 1 \in Nat
        OBVIOUS
      <4>5. QED
        BY <4>3, <4>4 DEF Contiguous
    <3>3. CASE k + 1 \notin Ids
      <4>1. Used(R) = Used(row)
        BY <2>3, <3>3 DEF Used
      <4>2. QED
        BY <1>2, <4>1 DEF Contiguous
    <3>4. QED
      BY <3>2, <3>3
  <2>7. QED
    BY <1>1, <1>3, <1>4, <2>4, <2>5, <2>6
<1>5. CASE h.kind # "create"
  <2>1. R = [i \in Ids |-> Merge(row[i], h.loaded[i], h.pending[i])]
    BY <1>1, <1>3, <1>5 DEF After
  <2>2. ASSUME NEW i \in Ids
        PROVE  /\ R[i] \in Row /\ (R[i] = NoRow <=> row[i] = NoRow)
               /\ h.pending[i] = h.loaded[i] => R[i] = row[i]
               /\ row[i] = h.loaded[i] => R[i] = h.pending[i]
               /\ h.pending[i].identity = h.loaded[i].identity => R[i].identity = row[i].identity
    <3>1. row[i] \in Row /\ h.loaded[i] \in Row /\ h.pending[i] \in Row
      BY <1>2 DEF Table
    <3>2. (h.loaded[i] = NoRow <=> h.pending[i] = NoRow) /\ (h.loaded[i] # NoRow => row[i] # NoRow)
      BY <1>1, <1>5 DEF Honest, Updates, Follows
    <3>3. R[i] = Merge(row[i], h.loaded[i], h.pending[i])
      BY <2>1
    <3>4. QED
      BY <3>1, <3>2, <3>3, MergeKeeps
  <2>3. R \in Table
    <3>1. R = [i \in Ids |-> R[i]]
      BY <2>1
    <3>2. QED
      BY <2>2, <3>1 DEF Table
  <2>4. Contiguous(R)
    <3>1. Used(R) = Used(row)
      BY <2>2 DEF Used
    <3>2. QED
      BY <1>2, <3>1 DEF Contiguous
  <2>5. QED
    BY <1>1, <1>3, <1>5, <2>2, <2>3, <2>4
<1>6. QED
  BY <1>4, <1>5

(* What a commit means for the other handlers.                               *)
LEMMA OthersFollow ==
  ASSUME AccountsInv, NEW c \in Clients, handler[c] # Resting, NEW o \in Clients, o # c,
         row' = After(c), Race(c), handler'[o] = handler[o]
  PROVE  Fine(handler'[o], row', raced'[o])
<1>1. CASE handler[o] = Resting
  BY <1>1 DEF Fine
<1>2. CASE handler[o] # Resting
  <2>1. PICK h \in Working : h = handler[o] /\ Honest(h) /\ Follows(h, row, raced[o])
    BY <1>2 DEF AccountsInv, Fine
  <2>2. raced'[o] = raced[o] \union Changed(c)
    BY <1>2 DEF Race
  <2>3. PICK R : R = After(c) /\ \A i \in Ids : row[i] # NoRow => R[i] # NoRow
    BY AfterIs
  <2>4. \A i \in Ids : i \notin Changed(c) => R[i] = row[i]
    BY <2>3 DEF Changed
  <2>5. Follows(h, R, raced[o] \union Changed(c))
    BY <2>1, <2>3, <2>4 DEF Follows
  <2>6. QED
    BY <2>1, <2>2, <2>3, <2>5 DEF Fine
<1>3. QED
  BY <1>1, <1>2

(* A handler that has written its changes; h is what it does next.           *)
LEMMA WriteKeeps ==
  ASSUME AccountsInv, NEW c \in Clients, handler[c] # Resting, NEW h \in Working \union {Resting},
         row' = After(c), Race(c), handler' = [handler EXCEPT ![c] = h], started' = started,
         Fine(h, After(c), raced[c])
  PROVE  AccountsInv'
<1>1. /\ handler \in [Clients -> Working \union {Resting}] /\ raced \in [Clients -> SUBSET Ids]
      /\ started \in Nat
  BY DEF AccountsInv, AccountsTypeOK
<1>2. row' \in Table /\ Contiguous(row')
  BY AfterIs
<1>3. raced' \in [Clients -> SUBSET Ids] /\ raced'[c] = raced[c]
  <2>1. Changed(c) \in SUBSET Ids
    BY DEF Changed
  <2>2. QED
    BY <1>1, <2>1 DEF Race
<1>4. ASSUME NEW o \in Clients PROVE Fine(handler'[o], row', raced'[o])
  <2>1. CASE o = c
    BY <1>1, <1>3, <2>1
  <2>2. CASE o # c
    <3>1. handler'[o] = handler[o]
      BY <1>1, <2>2
    <3>2. QED
      BY <2>2, <3>1, OthersFollow
  <2>3. QED
    BY <2>1, <2>2
<1>5. AccountsTypeOK'
  BY <1>1, <1>2, <1>3 DEF AccountsTypeOK
<1>6. QED
  BY <1>2, <1>4, <1>5 DEF AccountsInv

LEMMA CommitStep ==
  ASSUME AccountsInv, NEW c \in Clients, Commit(c)
  PROVE  AccountsInv'
<1>1. handler[c] # Resting /\ Rest(c) /\ started' = started
  BY RestingKind DEF Commit
<1>2. CASE row' = After(c) /\ Race(c)
  BY <1>1, <1>2, WriteKeeps DEF Rest, Fine
<1>3. CASE UNCHANGED <<row, raced>>
  BY <1>1, <1>3, RestKeeps
<1>4. QED
  BY <1>2, <1>3 DEF Commit

LEMMA CommitPartStep ==
  ASSUME AccountsInv, NEW c \in Clients, CommitPart(c)
  PROVE  AccountsInv'
<1>1. handler[c] # Resting /\ handler[c].pc = "commitpart" /\ started' = started
  BY RestingKind DEF CommitPart
<1>2. CASE /\ row' = After(c) /\ Race(c)
           /\ handler' = [handler EXCEPT ![c] = [handler[c] EXCEPT !.loaded = handler[c].pending, !.pc = "patch",
                                                                      !.partly = TRUE]]
  <2>1. PICK h : h = handler[c]
    OBVIOUS
  <2>2. /\ h \in Working /\ h.kind = "patch" /\ h.id \in Ids
        /\ h.pending[h.id] \in Account
        /\ h.loaded \in Table /\ h.pending \in Table
        /\ Follows(h, row, raced[c]) /\ Parts(h)
        /\ \A i \in Ids : h.loaded[i] = NoRow <=> h.pending[i] = NoRow
    BY <1>1, <2>1, PatchingIs
  <2> DEFINE g == [h EXCEPT !.loaded = h.pending, !.pc = "patch", !.partly = TRUE]
  <2>3. /\ g \in Working /\ g.pc = "patch" /\ g.kind = "patch" /\ g.id = h.id
        /\ g.loaded = h.pending /\ g.pending = h.pending
    BY <2>2 DEF Working
  <2>4. handler' = [handler EXCEPT ![c] = g]
    BY <1>2, <2>1
  <2> HIDE DEF g
  <2>5. Honest(g)
    BY <1>1, <2>1, <2>2, <2>3 DEF Honest, Creates, Updates, Unbound, LogsIn, Patches, Parts
  <2>6. PICK R : /\ R = After(c)
                 /\ \A i \in Ids : row[i] # NoRow => R[i] # NoRow
                 /\ \A i \in Ids : row[i] = h.loaded[i] => R[i] = h.pending[i]
    <3>1. handler[c].kind # "create"
      BY <2>1, <2>2
    <3>2. QED
      BY <1>1, <2>1, <3>1, AfterIs
  <2>7. Follows(g, R, raced[c])
    BY <2>2, <2>3, <2>6 DEF Follows
  <2>8. Fine(g, After(c), raced[c])
    BY <2>3, <2>5, <2>6, <2>7 DEF Fine
  <2>9. QED
    BY <1>1, <1>2, <2>3, <2>4, <2>8, WriteKeeps
<1>3. CASE Rest(c) /\ UNCHANGED <<row, raced>>
  BY <1>1, <1>3, RestKeeps
<1>4. QED
  BY <1>2, <1>3 DEF CommitPart

-------------------------------------------------------------------------------
(* The invariant.                                                            *)

LEMMA AccountsStart == AccountsInit => AccountsInv
<1> SUFFICES ASSUME AccountsInit PROVE AccountsInv
  OBVIOUS
<1>1. AccountsTypeOK
  BY DEF AccountsInit, AccountsTypeOK, Table, Row
<1>2. Used(row) = 1..0
  BY DEF AccountsInit, Used
<1>3. Contiguous(row)
  BY <1>2 DEF Contiguous
<1>4. QED
  BY <1>1, <1>3 DEF AccountsInit, AccountsInv, Fine

LEMMA AccountsStep == AccountsInv /\ [AccountsNext]_accountVars => AccountsInv'
<1> SUFFICES ASSUME AccountsInv, [AccountsNext]_accountVars PROVE AccountsInv'
  OBVIOUS
<1>1. CASE UNCHANGED accountVars
  BY <1>1 DEF accountVars, AccountsInv, AccountsTypeOK
<1>2. ASSUME NEW c \in Clients,
             \/ Bootstrap(c) \/ CreateUser(c) \/ Login(c)
             \/ UpdateRole(c) \/ DeleteUser(c) \/ ReplaceUser(c) \/ PatchGroup(c)
             \/ BeginPatch(c) \/ PatchColumn(c) \/ PatchActive(c) \/ EndPatch(c)
             \/ Refuse(c) \/ Commit(c) \/ CommitPart(c)
      PROVE  AccountsInv'
  BY <1>2, BootstrapStep, CreateUserStep, LoginStep, UpdateRoleStep, DeleteUserStep, ReplaceUserStep,
     PatchGroupStep, BeginPatchStep, PatchColumnStep, PatchActiveStep, EndPatchStep, RefuseStep,
     CommitStep, CommitPartStep
<1>3. QED
  BY <1>1, <1>2 DEF AccountsNext

LEMMA AccountsInvariant == AccountsSpec => []AccountsInv
  BY AccountsStart, AccountsStep, PTL DEF AccountsSpec

(* The rows, and what every handler holds of them, are well typed.           *)
THEOREM AccountsTypeCorrect == AccountsSpec => []AccountsTypeOK
<1>1. AccountsInv => AccountsTypeOK
  BY DEF AccountsInv
<1>2. QED
  BY <1>1, AccountsInvariant, PTL

(* A PATCH that has committed a part has deactivated the account by it: when *)
(* a later operation is refused, patch_scim_user leaves no account active    *)
(* with half of the operations, unless another handler wrote the row since.  *)
THEOREM PartialPatches == AccountsSpec => []PartialPatchesDeactivate
<1>1. AccountsInv => PartialPatchesDeactivate
  <2> SUFFICES ASSUME AccountsInv, NEW c \in Clients, handler[c].partly, handler[c].id \notin raced[c]
               PROVE  ~row[handler[c].id].active
    BY DEF PartialPatchesDeactivate
  <2>1. handler[c] # Resting
    BY DEF Resting
  <2>2. PICK h \in Working : h = handler[c] /\ Parts(h) /\ Follows(h, row, raced[c])
    BY <2>1 DEF AccountsInv, Fine, Honest
  <2>3. h.id \in Ids /\ ~h.loaded[h.id].active
    BY <2>2 DEF Parts
  <2>4. QED
    BY <2>2, <2>3 DEF Follows
<1>2. QED
  BY <1>1, AccountsInvariant, PTL

-------------------------------------------------------------------------------
(* The logins.                                                               *)

LEMMA WrittenByCommit ==
  ASSUME [AccountsNext]_accountVars, row' # row
  PROVE  \E c \in Clients : /\ handler[c].pc \in {"commit", "commitpart"} /\ row' = After(c)
                            /\ handler[c].pc = "commit" => Rest(c)
                            /\ \E h : handler' = [handler EXCEPT ![c] = h]
<1>1. ASSUME NEW c \in Clients, Commit(c)
      PROVE  /\ handler[c].pc = "commit" /\ row' = After(c) /\ Rest(c)
             /\ \E h : handler' = [handler EXCEPT ![c] = h]
  BY <1>1 DEF Commit, Rest
<1>2. ASSUME NEW c \in Clients, CommitPart(c)
      PROVE  /\ handler[c].pc = "commitpart" /\ row' = After(c)
             /\ \E h : handler' = [handler EXCEPT ![c] = h]
  BY <1>2 DEF CommitPart, Rest
<1>3. ASSUME NEW c \in Clients,
             \/ Bootstrap(c) \/ CreateUser(c) \/ Login(c)
             \/ UpdateRole(c) \/ DeleteUser(c) \/ ReplaceUser(c) \/ PatchGroup(c)
             \/ BeginPatch(c) \/ PatchColumn(c) \/ PatchActive(c) \/ EndPatch(c) \/ Refuse(c)
      PROVE  FALSE
  BY <1>3 DEF Bootstrap, CreateUser, Login, UpdateRole, DeleteUser, ReplaceUser, PatchGroup, BeginPatch,
              PatchColumn, PatchActive, EndPatch, Refuse, Start, Operate
<1>4. QED
  BY <1>1, <1>2, <1>3 DEF AccountsNext, accountVars

LEMMA LoginsStep ==
  ASSUME AccountsInv, [AccountsNext]_accountVars, NEW i \in Existing
  PROVE  \/ /\ row[i].identity \in {None, row'[i].identity}
            /\ row'[i].role # row[i].role /\ row[i].role # "viewer" =>
                 ~\E c \in Clients : handler[c].kind = "login" /\ handler'[c] # handler[c]
         \/ \E c \in Clients : handler[c].kind = "login" /\ i \in raced[c] /\ handler'[c] # handler[c]
<1>1. CASE row' = row
  BY <1>1
<1>2. CASE row' # row
  <2>1. PICK c \in Clients : /\ handler[c].pc \in {"commit", "commitpart"} /\ row' = After(c)
                             /\ handler[c].pc = "commit" => Rest(c)
                             /\ \E h : handler' = [handler EXCEPT ![c] = h]
    BY <1>2, WrittenByCommit
  <2>2. handler[c] # Resting
    BY <2>1, RestingKind
  <2>3. PICK h \in Working : h = handler[c] /\ Honest(h) /\ Follows(h, row, raced[c])
    BY <2>2 DEF AccountsInv, Fine
  <2>4. \A o \in Clients : o # c => handler'[o] = handler[o]
    BY <2>1
  <2>5. i \in Ids /\ row[i] # NoRow
    BY DEF Existing
  <2>6. CASE h.kind = "create"
    <3>1. After(c)[i] = row[i]
      BY <2>2, <2>3, <2>5, <2>6, AfterIs
    <3>2. QED
      BY <2>1, <3>1
  <2>7. CASE h.kind \notin {"create", "login"}
    <3>1. h.pending[i].identity = h.loaded[i].identity
      BY <2>3, <2>5, <2>7 DEF Honest, Unbound
    <3>2. After(c)[i].identity = row[i].identity
      BY <2>2, <2>3, <2>5, <2>7, <3>1, AfterIs
    <3>3. \A o \in Clients : handler[o].kind = "login" => handler'[o] = handler[o]
      BY <2>3, <2>4, <2>7
    <3>4. QED
      BY <2>1, <3>2, <3>3
  <2>8. CASE h.kind = "login"
    <3>1. /\ h.pc = "commit" /\ h.id \in Ids
          /\ \A k \in Ids : k # h.id => h.pending[k] = h.loaded[k]
          /\ h.loaded[h.id].identity \in {None, h.pending[h.id].identity}
          /\ h.pending[h.id].role = h.loaded[h.id].role \/ h.loaded[h.id].role = "viewer"
      BY <2>3, <2>8 DEF Honest, LogsIn
    <3>2. handler'[c] # handler[c]
      <4>1. handler'[c] = Resting
        BY <2>1, <2>3, <3>1 DEF Rest, AccountsInv, AccountsTypeOK
      <4>2. QED
        BY <2>2, <4>1
    <3>3. CASE i # h.id
      <4>1. After(c)[i] = row[i]
        BY <2>2, <2>3, <2>5, <2>8, <3>1, <3>3, AfterIs
      <4>2. QED
        BY <2>1, <4>1
    <3>4. CASE i = h.id /\ i \notin raced[c]
      <4>1. row[i] = h.loaded[i]
        BY <2>3, <2>5, <3>4 DEF Follows
      <4>2. After(c)[i] = h.pending[i]
        BY <2>2, <2>3, <2>5, <2>8, <4>1, AfterIs
      <4>3. QED
        BY <2>1, <3>1, <3>4, <4>1, <4>2
    <3>5. CASE i \in raced[c]
      BY <2>3, <2>8, <3>2, <3>5
    <3>6. QED
      BY <3>3, <3>4, <3>5
  <2>9. QED
    BY <2>6, <2>7, <2>8
<1>3. QED
  BY <1>1, <1>2

(* No account loses the identity it is bound to, and a login changes no role *)
(* but a viewer's (complete_oidc_login), whatever the administrator and the  *)
(* provisioning do at the same time, unless they have written the row since  *)
(* the login read it.                                                        *)
THEOREM LoginsKeep == AccountsSpec => LoginsKeepAccounts
<1>1. AccountsInv /\ [AccountsNext]_accountVars =>
        [\A i \in Existing :
           \/ /\ row[i].identity \in {None, row'[i].identity}
              /\ row'[i].role # row[i].role /\ row[i].role # "viewer" =>
                   ~\E c \in Clients : handler[c].kind = "login" /\ handler'[c] # handler[c]
           \/ \E c \in Clients : handler[c].kind = "login" /\ i \in raced[c] /\ handler'[c] # handler[c]]_accountVars
  BY LoginsStep
<1>2. QED
  BY <1>1, AccountsInvariant, PTL DEF AccountsSpec, LoginsKeepAccounts

-------------------------------------------------------------------------------
(* Sessions, as a system of their own: types.                                *)

USE DEF sessionVars, Numbers, At, Goes, Done

Places == {"idle", "login", "present", "locked", "rotate", "write", "put", "sweep"}

Step == [pc : Places, rows : SUBSET Numbers, id : Nat, token : Nat,
         loaded : BOOLEAN, goal : BOOLEAN]

SessionRow == [state : {"absent", "open", "revoked"}, lapsed : BOOLEAN, token : Nat]

SessionsTypeOK ==
  /\ is_active \in BOOLEAN
  /\ session \in [Numbers -> SessionRow]
  /\ request \in [Requests -> Step]
  /\ rotated \subseteq Nat \X Nat
  /\ begun \in 0..MaxSessions /\ issued \in 0..MaxTokens
  /\ changes \in Nat

(* What revoking a set of rows changes.                                      *)
LEMMA RevokeType ==
  ASSUME SessionsTypeOK, NEW S
  PROVE  /\ Revoke(S) \in [Numbers -> SessionRow]
         /\ \A s \in Numbers : /\ Revoke(S)[s].token = session[s].token
                               /\ Revoke(S)[s].lapsed = session[s].lapsed
                               /\ Revoke(S)[s].state = IF s \in S THEN "revoked" ELSE session[s].state
  BY DEF SessionsTypeOK, Revoke, SessionRow

LEMMA IdleType == Idle \in Step /\ Idle.pc = "idle" /\ Idle.rows = {} /\ Idle.goal
  BY DEF Idle, Step, Places

(* The records that the actions give to a request.                           *)
LEMMA LoginRecord ==
  ASSUME NEW i \in Nat, NEW R \in SUBSET Numbers
  PROVE  LET x == [Idle EXCEPT !.pc = "login", !.id = i, !.rows = R]
         IN  x \in Step /\ x.pc = "login" /\ x.id = i /\ x.rows = R /\ x.goal
  BY DEF Idle, Step, Places

LEMMA PresentRecord ==
  ASSUME NEW t \in Nat
  PROVE  LET x == [Idle EXCEPT !.pc = "present", !.token = t]
         IN  x \in Step /\ x.pc = "present" /\ x.token = t
  BY DEF Idle, Step, Places

LEMMA LockedRecord ==
  ASSUME NEW q \in Step, NEW i \in Nat
  PROVE  LET x == [q EXCEPT !.pc = "locked", !.id = i]
         IN  x \in Step /\ x.pc = "locked" /\ x.id = i /\ x.token = q.token
  BY DEF Step, Places

LEMMA RotateRecord ==
  ASSUME NEW q \in Step
  PROVE  LET x == [q EXCEPT !.pc = "rotate"]
         IN  x \in Step /\ x.pc = "rotate" /\ x.id = q.id /\ x.token = q.token
  BY DEF Step, Places

LEMMA AccountRecord ==
  ASSUME NEW p \in {"write", "put"}, NEW a \in BOOLEAN, NEW g \in BOOLEAN
  PROVE  LET x == [Idle EXCEPT !.pc = p, !.loaded = a, !.goal = g]
         IN  x \in Step /\ x.pc = p /\ x.loaded = a /\ x.goal = g
  BY DEF Idle, Step, Places

LEMMA SweepRecord ==
  ASSUME NEW q \in Step, NEW R \in SUBSET Numbers
  PROVE  LET x == [q EXCEPT !.pc = "sweep", !.rows = R]
         IN  x \in Step /\ x.pc = "sweep" /\ x.rows = R /\ x.loaded = q.loaded /\ x.goal = q.goal
  BY DEF Step, Places

LEMMA NewRow ==
  ASSUME NEW t \in Nat
  PROVE  LET x == [state |-> "open", lapsed |-> FALSE, token |-> t]
         IN  x \in SessionRow /\ x.state = "open" /\ x.token = t
  BY DEF SessionRow

LEMMA OpenType == Open \in SUBSET Numbers /\ Live \subseteq Open
  BY DEF Open, Live

-------------------------------------------------------------------------------
(* What every action does to the requests and the rows.                      *)

LEMMA BeginLoginEffect ==
  ASSUME SessionsTypeOK, NEW r \in Requests, BeginLogin(r)
  PROVE  \E step \in Step : /\ request' = [request EXCEPT ![r] = step]
                            /\ step.pc = "login" /\ step.id = begun + 1 /\ step.rows \subseteq Live
<1> DEFINE oldest == {s \in Live : Cardinality({o \in Live : o < s}) < Overflow(Cardinality(Live))}
           step   == [Idle EXCEPT !.pc = "login", !.id = begun + 1, !.rows = oldest]
<1>1. oldest \in SUBSET Numbers /\ oldest \subseteq Live
  BY OpenType
<1>2. begun + 1 \in Nat
  BY SessionsAssumption DEF SessionsTypeOK
<1>3. request' = [request EXCEPT ![r] = step]
  BY DEF BeginLogin
<1> HIDE DEF oldest
<1>4. step \in Step /\ step.pc = "login" /\ step.id = begun + 1 /\ step.rows = oldest
  BY <1>1, <1>2, LoginRecord
<1> HIDE DEF step
<1>5. QED
  BY <1>1, <1>3, <1>4

LEMMA FinishLoginEffect ==
  ASSUME SessionsTypeOK, NEW r \in Requests, FinishLogin(r)
  PROVE  \E new \in SessionRow : /\ session' = [Revoke(request[r].rows) EXCEPT ![request[r].id] = new]
                          /\ new.state = "open" /\ new.token = issued + 1
<1> DEFINE new == [state |-> "open", lapsed |-> FALSE, token |-> issued + 1]
<1>1. session' = [Revoke(request[r].rows) EXCEPT ![request[r].id] = new]
  BY DEF FinishLogin
<1>2. issued + 1 \in Nat
  BY SessionsAssumption DEF SessionsTypeOK
<1>3. new \in SessionRow /\ new.state = "open" /\ new.token = issued + 1
  BY <1>2, NewRow
<1> HIDE DEF new
<1>4. QED
  BY <1>1, <1>3

LEMMA PresentEffect ==
  ASSUME SessionsTypeOK, NEW r \in Requests, Present(r)
  PROVE  \E step \in Step : /\ request' = [request EXCEPT ![r] = step]
                            /\ step.pc = "present" /\ step.token \in 1..issued
<1>1. PICK t \in 1..issued : request' = [request EXCEPT ![r] = [Idle EXCEPT !.pc = "present", !.token = t]]
  BY DEF Present
<1> DEFINE step == [Idle EXCEPT !.pc = "present", !.token = t]
<1>2. t \in Nat
  BY SessionsAssumption DEF SessionsTypeOK
<1>3. step \in Step /\ step.pc = "present" /\ step.token = t
  BY <1>2, PresentRecord
<1>4. request' = [request EXCEPT ![r] = step]
  BY <1>1
<1> HIDE DEF step
<1>5. QED
  BY <1>3, <1>4

(* A row is selected only when it is live, carries the token presented and   *)
(* is locked by nobody.                                                      *)
LEMMA SelectEffect ==
  ASSUME SessionsTypeOK, NEW r \in Requests, SelectForUpdate(r)
  PROVE  \/ request' = [request EXCEPT ![r] = Idle]
         \/ \E step \in Step :
              /\ request' = [request EXCEPT ![r] = step]
              /\ step.pc = "locked" /\ step.token = request[r].token
              /\ step.id \in Live /\ session[step.id].token = step.token /\ ~Locked(step.id)
<1> DEFINE found == {s \in Live : session[s].token = request[r].token}
<1>1. CASE found = {}
  BY <1>1 DEF SelectForUpdate
<1>2. CASE found # {}
  <2>1. PICK s \in found : request' = [request EXCEPT ![r] = [request[r] EXCEPT !.pc = "locked", !.id = s]]
    BY <1>2 DEF SelectForUpdate
  <2> DEFINE step == [request[r] EXCEPT !.pc = "locked", !.id = s]
  <2>2. s \in Live /\ session[s].token = request[r].token /\ ~Locked(s)
    BY DEF SelectForUpdate
  <2>3. s \in Nat /\ request[r] \in Step
    BY <2>2, OpenType DEF SessionsTypeOK
  <2>4. step \in Step /\ step.pc = "locked" /\ step.id = s /\ step.token = request[r].token
    BY <2>3, LockedRecord
  <2>5. request' = [request EXCEPT ![r] = step]
    BY <2>1
  <2> HIDE DEF step
  <2>6. QED
    BY <2>2, <2>4, <2>5
<1>3. QED
  BY <1>1, <1>2

LEMMA CheckUserEffect ==
  ASSUME SessionsTypeOK, NEW r \in Requests, CheckUser(r)
  PROVE  \/ request' = [request EXCEPT ![r] = Idle]
         \/ \E step \in Step :
              /\ request' = [request EXCEPT ![r] = step]
              /\ step.pc = "rotate" /\ step.token = request[r].token /\ step.id = request[r].id
<1> DEFINE step == [request[r] EXCEPT !.pc = "rotate"]
<1>1. request' = [request EXCEPT ![r] = Idle] \/ request' = [request EXCEPT ![r] = step]
  BY DEF CheckUser
<1>2. step \in Step /\ step.pc = "rotate" /\ step.token = request[r].token /\ step.id = request[r].id
  BY RotateRecord DEF SessionsTypeOK
<1> HIDE DEF step
<1>3. QED
  BY <1>1, <1>2

LEMMA RotateEffect ==
  ASSUME SessionsTypeOK, NEW r \in Requests, Rotate(r)
  PROVE  /\ session' \in [Numbers -> SessionRow]
         /\ \A s \in Numbers : /\ session'[s].state = session[s].state
                               /\ s # request[r].id => session'[s] = session[s]
                               /\ s = request[r].id => session'[s].token = issued + 1
<1> DEFINE n == request[r].id
<1>1. session' = [session EXCEPT ![n].token = issued + 1, ![n].lapsed = FALSE]
  BY DEF Rotate
<1>2. issued + 1 \in Nat /\ session \in [Numbers -> SessionRow]
  BY SessionsAssumption DEF SessionsTypeOK
<1> HIDE DEF n
<1>3. /\ session' \in [Numbers -> SessionRow]
      /\ \A s \in Numbers : /\ session'[s].state = session[s].state
                            /\ s # n => session'[s] = session[s]
                            /\ s = n => session'[s].token = issued + 1
  BY <1>1, <1>2 DEF SessionRow
<1>4. QED
  BY <1>3 DEF n

LEMMA ReadAccountEffect ==
  ASSUME SessionsTypeOK, NEW r \in Requests, ReadAccount(r)
  PROVE  \E step \in Step : /\ request' = [request EXCEPT ![r] = step]
                            /\ step.pc \in {"write", "put"}
<1>1. PICK g \in BOOLEAN, p \in {"write", "put"} :
        request' = [request EXCEPT ![r] = [Idle EXCEPT !.pc = p, !.loaded = is_active, !.goal = g]]
  BY DEF ReadAccount
<1> DEFINE step == [Idle EXCEPT !.pc = p, !.loaded = is_active, !.goal = g]
<1>2. step \in Step /\ step.pc = p
  BY AccountRecord DEF SessionsTypeOK
<1>3. request' = [request EXCEPT ![r] = step]
  BY <1>1
<1> HIDE DEF step
<1>4. QED
  BY <1>2, <1>3

LEMMA SelectSessionsEffect ==
  ASSUME SessionsTypeOK, NEW r \in Requests, SelectSessions(r)
  PROVE  \E step \in Step : /\ request' = [request EXCEPT ![r] = step]
                            /\ step.pc = "sweep" /\ step.rows = Open
                            /\ step.loaded = request[r].loaded /\ step.goal = request[r].goal
<1> DEFINE step == [request[r] EXCEPT !.pc = "sweep", !.rows = Open]
<1>1. request' = [request EXCEPT ![r] = step]
  BY DEF SelectSessions
<1>2. /\ step \in Step /\ step.pc = "sweep" /\ step.rows = Open
      /\ step.loaded = request[r].loaded /\ step.goal = request[r].goal
  BY SweepRecord, OpenType DEF SessionsTypeOK
<1> HIDE DEF step
<1>3. QED
  BY <1>1, <1>2

LEMMA RevokeAllEffect ==
  ASSUME SessionsTypeOK, NEW r \in Requests, RevokeAll(r)
  PROVE  \E step \in Step : /\ request' = [request EXCEPT ![r] = step]
                            /\ step.pc = "sweep" /\ step.rows = Open /\ step.goal /\ step.loaded
<1> DEFINE step == [Idle EXCEPT !.pc = "sweep", !.rows = Open]
<1>1. request' = [request EXCEPT ![r] = step]
  BY DEF RevokeAll
<1>2. Idle \in Step /\ Idle.goal /\ Idle.loaded
  BY IdleType DEF Idle
<1>3. step \in Step /\ step.pc = "sweep" /\ step.rows = Open /\ step.goal /\ step.loaded
  BY <1>2, SweepRecord, OpenType
<1> HIDE DEF step
<1>4. QED
  BY <1>1, <1>3

-------------------------------------------------------------------------------
LEMMA TypeInit == SessionsInit => SessionsTypeOK
  BY IdleType, SessionsAssumption DEF SessionsInit, SessionsTypeOK, SessionRow, Absent

LEMMA TypeStep == SessionsTypeOK /\ [SessionsNext]_sessionVars => SessionsTypeOK'
<1> SUFFICES ASSUME SessionsTypeOK, [SessionsNext]_sessionVars PROVE SessionsTypeOK'
  OBVIOUS
<1> USE SessionsAssumption, IdleType DEF SessionsTypeOK
<1>1. ASSUME NEW r \in Requests, BeginLogin(r) PROVE SessionsTypeOK'
  <2>1. PICK step \in Step : request' = [request EXCEPT ![r] = step]
    BY <1>1, BeginLoginEffect
  <2>2. begun' \in 0..MaxSessions
    BY <1>1 DEF BeginLogin
  <2>3. QED
    BY <1>1, <2>1, <2>2 DEF BeginLogin
<1>2. ASSUME NEW r \in Requests, FinishLogin(r) PROVE SessionsTypeOK'
  <2>1. PICK new \in SessionRow : session' = [Revoke(request[r].rows) EXCEPT ![request[r].id] = new]
    BY <1>2, FinishLoginEffect
  <2>2. issued' \in 0..MaxTokens
    BY <1>2 DEF FinishLogin
  <2>3. Revoke(request[r].rows) \in [Numbers -> SessionRow]
    BY RevokeType
  <2>4. session' \in [Numbers -> SessionRow]
    BY <2>1, <2>3
  <2>5. request' \in [Requests -> Step]
    BY <1>2 DEF FinishLogin
  <2>6. QED
    BY <1>2, <2>2, <2>4, <2>5 DEF FinishLogin
<1>3. ASSUME NEW r \in Requests, Present(r) PROVE SessionsTypeOK'
  BY <1>3, PresentEffect DEF Present
<1>4. ASSUME NEW r \in Requests, SelectForUpdate(r) PROVE SessionsTypeOK'
  BY <1>4, SelectEffect DEF SelectForUpdate
<1>5. ASSUME NEW r \in Requests, CheckUser(r) PROVE SessionsTypeOK'
  BY <1>5, CheckUserEffect DEF CheckUser
<1>6. ASSUME NEW r \in Requests, Rotate(r) PROVE SessionsTypeOK'
  <2>1. request[r].token \in Nat
    BY DEF Step
  <2>2. issued' \in 0..MaxTokens /\ issued + 1 \in Nat
    BY <1>6 DEF Rotate
  <2>3. rotated' \subseteq Nat \X Nat
    BY <1>6, <2>1, <2>2 DEF Rotate
  <2>4. session' \in [Numbers -> SessionRow] /\ request' \in [Requests -> Step]
    BY <1>6, RotateEffect DEF Rotate
  <2>5. QED
    BY <1>6, <2>2, <2>3, <2>4 DEF Rotate
<1>7. ASSUME NEW r \in Requests, ReadAccount(r) PROVE SessionsTypeOK'
  <2>1. PICK step \in Step : request' = [request EXCEPT ![r] = step]
    BY <1>7, ReadAccountEffect
  <2>2. changes' \in Nat
    BY <1>7 DEF ReadAccount
  <2>3. QED
    BY <1>7, <2>1, <2>2 DEF ReadAccount
<1>8. ASSUME NEW r \in Requests, WriteAccount(r) PROVE SessionsTypeOK'
  BY <1>8 DEF WriteAccount, Written, Step
<1>9. ASSUME NEW r \in Requests, SelectSessions(r) PROVE SessionsTypeOK'
  BY <1>9, SelectSessionsEffect DEF SelectSessions
<1>10. ASSUME NEW r \in Requests, RevokeAll(r) PROVE SessionsTypeOK'
  <2>1. PICK step \in Step : request' = [request EXCEPT ![r] = step]
    BY <1>10, RevokeAllEffect
  <2>2. changes' \in Nat
    BY <1>10 DEF RevokeAll
  <2>3. QED
    BY <1>10, <2>1, <2>2 DEF RevokeAll
<1>11. ASSUME NEW r \in Requests, CommitSweep(r) PROVE SessionsTypeOK'
  <2>1. Revoke(request[r].rows) \in [Numbers -> SessionRow]
    BY RevokeType
  <2>2. QED
    BY <1>11, <2>1 DEF CommitSweep, Written, Step
<1>12. ASSUME NEW r \in Requests, Abort(r) PROVE SessionsTypeOK'
  BY <1>12 DEF Abort
<1>13. ASSUME NEW s \in Numbers, RevokeOne(s) PROVE SessionsTypeOK'
  BY <1>13, RevokeType DEF RevokeOne
<1>14. ASSUME NEW s \in Numbers, Lapse(s) PROVE SessionsTypeOK'
  BY <1>14 DEF Lapse, SessionRow
<1>15. CASE UNCHANGED sessionVars
  BY <1>15
<1>16. QED
  BY <1>1, <1>2, <1>3, <1>4, <1>5, <1>6, <1>7, <1>8, <1>9, <1>10, <1>11, <1>12, <1>13, <1>14, <1>15
     DEF SessionsNext

(* What every state of the sessions is: rows, requests and counters are of   *)
(* their types.                                                              *)
THEOREM SessionsTypeCorrect == SessionsSpec => []SessionsTypeOK
  BY TypeInit, TypeStep, PTL DEF SessionsSpec

-------------------------------------------------------------------------------
(* Deactivation.  Every session open at any moment of a deactivation is      *)
(* either among the rows that it has selected or counted as late.            *)

Swept == \A r \in Requests : Deactivating(r) => Open \subseteq request[r].rows \union late

DInv == DeactivationEndsSessions /\ Swept

LEMMA DeactivationInit == SessionsInit => DInv
  BY DEF SessionsInit, DInv, DeactivationEndsSessions, Swept, Deactivating, Idle

(* A step that opens no session, writes no account and starts no             *)
(* deactivation keeps the invariant.                                         *)
LEMMA QuietStep ==
  ASSUME SessionsTypeOK, DInv, Open' \subseteq Open, late' = late, is_active' = is_active,
         NEW r \in Requests, NEW step \in Step,
         request' = request \/ request' = [request EXCEPT ![r] = step],
         step.pc = "sweep" /\ ~step.goal => Open' \subseteq step.rows
  PROVE  DInv'
<1>1. \A q \in Requests : Deactivating(q)' =>
        \/ q = r /\ request'[q] = step /\ step.pc = "sweep" /\ ~step.goal
        \/ Deactivating(q) /\ request'[q] = request[q]
  BY DEF Deactivating, SessionsTypeOK
<1>2. Swept'
  BY <1>1 DEF Swept, DInv
<1>3. DeactivationEndsSessions'
  BY DEF DeactivationEndsSessions, DInv
<1>4. QED
  BY <1>2, <1>3 DEF DInv

LEMMA DeactivationStep ==
  SessionsTypeOK /\ DInv /\ [SessionsNext]_sessionVars => DInv'
<1> SUFFICES ASSUME SessionsTypeOK, DInv, [SessionsNext]_sessionVars PROVE DInv'
  OBVIOUS
<1>0. Idle \in Step /\ Idle.pc = "idle"
  BY IdleType
<1>1. ASSUME NEW r \in Requests, BeginLogin(r) PROVE DInv'
  <2>1. PICK step \in Step : request' = [request EXCEPT ![r] = step] /\ step.pc = "login"
    BY <1>1, BeginLoginEffect
  <2>2. QED
    BY <1>1, <2>1, QuietStep DEF BeginLogin, Open
<1>2. ASSUME NEW r \in Requests, FinishLogin(r) PROVE DInv'
  <2> DEFINE n == request[r].id
  <2>1. Open' \subseteq Open \union {n}
    <3>1. PICK new \in SessionRow : session' = [Revoke(request[r].rows) EXCEPT ![n] = new]
      BY <1>2, FinishLoginEffect
    <3>2. \A s \in Numbers : s # n => session'[s] = Revoke(request[r].rows)[s]
      BY <3>1, RevokeType
    <3>3. \A s \in Numbers : s # n /\ session'[s].state = "open" => session[s].state = "open"
      BY <3>2, RevokeType
    <3>4. QED
      BY <3>3 DEF Open
  <2>2. request' = [request EXCEPT ![r] = Idle] /\ is_active' = is_active
    BY <1>2 DEF FinishLogin
  <2>3. \A q \in Requests : Deactivating(q)' => Deactivating(q) /\ request'[q] = request[q]
    BY <2>2, <1>0 DEF Deactivating, SessionsTypeOK
  <2>4. CASE is_active /\ ~\E o \in Requests : Deactivating(o)
    BY <2>2, <2>3, <2>4 DEF DInv, Swept, DeactivationEndsSessions
  <2>5. CASE ~(is_active /\ ~\E o \in Requests : Deactivating(o))
    <3>1. late' = late \union {n}
      BY <1>2, <2>5 DEF FinishLogin
    <3>2. QED
      BY <2>1, <2>2, <2>3, <3>1 DEF DInv, Swept, DeactivationEndsSessions
  <2>6. QED
    BY <2>4, <2>5
<1>3. ASSUME NEW r \in Requests, Present(r) PROVE DInv'
  <2>1. PICK step \in Step : request' = [request EXCEPT ![r] = step] /\ step.pc = "present"
    BY <1>3, PresentEffect
  <2>2. QED
    BY <1>3, <2>1, QuietStep DEF Present, Open
<1>4. ASSUME NEW r \in Requests, SelectForUpdate(r) PROVE DInv'
  <2>1. PICK step \in Step : request' = [request EXCEPT ![r] = step] /\ step.pc # "sweep"
    BY <1>4, <1>0, SelectEffect
  <2>2. QED
    BY <1>4, <2>1, QuietStep DEF SelectForUpdate, Open
<1>5. ASSUME NEW r \in Requests, CheckUser(r) PROVE DInv'
  <2>1. PICK step \in Step : request' = [request EXCEPT ![r] = step] /\ step.pc # "sweep"
    BY <1>5, <1>0, CheckUserEffect
  <2>2. QED
    BY <1>5, <2>1, QuietStep DEF CheckUser, Open
<1>6. ASSUME NEW r \in Requests, Rotate(r) PROVE DInv'
  <2>1. Open' \subseteq Open
    BY <1>6, RotateEffect DEF Open
  <2>2. QED
    BY <1>6, <2>1, <1>0, QuietStep DEF Rotate
<1>7. ASSUME NEW r \in Requests, ReadAccount(r) PROVE DInv'
  <2>1. PICK step \in Step : request' = [request EXCEPT ![r] = step] /\ step.pc # "sweep"
    BY <1>7, ReadAccountEffect
  <2>2. QED
    BY <1>7, <2>1, QuietStep DEF ReadAccount, Open
<1>8. ASSUME NEW r \in Requests, WriteAccount(r) PROVE DInv'
  <2>1. request' = [request EXCEPT ![r] = Idle] /\ Open' = Open /\ late' = late
    BY <1>8 DEF WriteAccount, Open
  <2>2. is_active' = is_active \/ is_active' = TRUE
    <3>1. request[r].goal \in BOOLEAN /\ request[r].loaded \in BOOLEAN
      BY DEF SessionsTypeOK, Step
    <3>2. CASE Sweeps(r)
      BY <1>8, <3>2 DEF WriteAccount
    <3>3. CASE ~Sweeps(r) /\ ~request[r].goal
      BY <1>8, <3>1, <3>3 DEF WriteAccount, Sweeps, Written, Dirty
    <3>4. CASE request[r].goal
      BY <1>8, <3>1, <3>4 DEF WriteAccount, Written
    <3>5. QED
      BY <3>2, <3>3, <3>4
  <2>3. \A q \in Requests : Deactivating(q)' => Deactivating(q) /\ request'[q] = request[q]
    BY <2>1, <1>0 DEF Deactivating, SessionsTypeOK
  <2>4. QED
    BY <2>1, <2>2, <2>3 DEF DInv, Swept, DeactivationEndsSessions
<1>9. ASSUME NEW r \in Requests, SelectSessions(r) PROVE DInv'
  <2>1. PICK step \in Step : request' = [request EXCEPT ![r] = step] /\ step.rows = Open
    BY <1>9, SelectSessionsEffect
  <2>2. Open' = Open /\ late' = late /\ is_active' = is_active
    BY <1>9 DEF SelectSessions, Open
  <2>3. QED
    BY <2>1, <2>2, QuietStep
<1>10. ASSUME NEW r \in Requests, RevokeAll(r) PROVE DInv'
  <2>1. PICK step \in Step : request' = [request EXCEPT ![r] = step] /\ step.rows = Open
    BY <1>10, RevokeAllEffect
  <2>2. Open' = Open /\ late' = late /\ is_active' = is_active
    BY <1>10 DEF RevokeAll, Open
  <2>3. QED
    BY <2>1, <2>2, QuietStep
<1>11. ASSUME NEW r \in Requests, CommitSweep(r) PROVE DInv'
  <2>1. request' = [request EXCEPT ![r] = Idle] /\ late' = late /\ is_active' = Written(r)
    BY <1>11 DEF CommitSweep
  <2>2. Open' = Open \ request[r].rows
    BY <1>11, RevokeType DEF CommitSweep, Open
  <2>3. \A q \in Requests : Deactivating(q)' => Deactivating(q) /\ request'[q] = request[q]
    BY <2>1, <1>0 DEF Deactivating, SessionsTypeOK
  <2>4. CASE Deactivating(r)
    <3>1. Open' \subseteq late
      BY <2>2, <2>4 DEF DInv, Swept
    <3>2. QED
      BY <2>1, <3>1 DEF DInv, Swept, DeactivationEndsSessions
  <2>5. CASE ~Deactivating(r)
    <3>1. is_active' = is_active \/ is_active' = TRUE
      BY <1>11, <2>1, <2>5 DEF CommitSweep, Deactivating, Written, SessionsTypeOK, Step
    <3>2. QED
      BY <2>1, <2>2, <2>3, <3>1 DEF DInv, Swept, DeactivationEndsSessions
  <2>6. QED
    BY <2>4, <2>5
<1>12. ASSUME NEW r \in Requests, Abort(r) PROVE DInv'
  BY <1>12, <1>0, QuietStep DEF Abort, Open
<1>13. ASSUME NEW s \in Numbers, RevokeOne(s) PROVE DInv'
  <2>1. Open' \subseteq Open
    BY <1>13, RevokeType DEF RevokeOne, Open
  <2>2. QED
    BY <1>13, <2>1 DEF RevokeOne, DInv, Swept, Deactivating, DeactivationEndsSessions
<1>14. ASSUME NEW s \in Numbers, Lapse(s) PROVE DInv'
  <2>1. Open' \subseteq Open
    BY <1>14 DEF Lapse, Open, SessionsTypeOK, SessionRow
  <2>2. QED
    BY <1>14, <2>1 DEF Lapse, DInv, Swept, Deactivating, DeactivationEndsSessions
<1>15. CASE UNCHANGED sessionVars
  BY <1>15 DEF DInv, Swept, Deactivating, DeactivationEndsSessions, Open
<1>16. QED
  BY <1>1, <1>2, <1>3, <1>4, <1>5, <1>6, <1>7, <1>8, <1>9, <1>10, <1>11, <1>12, <1>13, <1>14, <1>15
     DEF SessionsNext

(* "Deactivation revokes the affected user's active browser sessions"        *)
(* (README.md:132): of an inactive account only the sessions are open whose  *)
(* login committed after the deactivation had looked for them, whatever the  *)
(* number of requests and the order of their statements.                     *)
THEOREM DeactivationHolds == SessionsSpec => []DeactivationEndsSessions
<1>1. DInv => DeactivationEndsSessions
  BY DEF DInv
<1>2. QED
  BY <1>1, TypeInit, TypeStep, DeactivationInit, DeactivationStep, PTL DEF SessionsSpec

-------------------------------------------------------------------------------
(* Rotation.  A token is carried by at most one row, one that has been       *)
(* exchanged by none, and the row a request has locked carries the token     *)
(* that was presented until it is exchanged.                                 *)

Holding(r) == At(r, "locked") \/ At(r, "rotate")

Known == \A s \in Numbers : session[s].token <= issued

Distinct == \A s, t \in Numbers :
  session[s].token = session[t].token => s = t \/ session[s].token = 0

Spent == \A a \in rotated :
  a[1] \in 1..issued /\ \A s \in Numbers : session[s].token # a[1]

Presented == \A r \in Requests : At(r, "present") \/ Holding(r) => request[r].token \in 1..issued

Held == \A r \in Requests : Holding(r) =>
  /\ request[r].id \in Numbers
  /\ session[request[r].id].token = request[r].token
  /\ session[request[r].id].state # "absent"

Exclusive == \A r, q \in Requests :
  Holding(r) /\ Holding(q) /\ request[r].id = request[q].id => r = q

(* The rows that do not exist: those of the logins that have begun, each its *)
(* own, and of the logins to come.  Nothing a request has read is one.       *)
Unborn ==
  /\ \A s \in Numbers : s > begun => session[s].state = "absent"
  /\ \A r \in Requests : At(r, "login") =>
       request[r].id \in 1..begun /\ session[request[r].id].state = "absent"
  /\ \A r, q \in Requests :
       At(r, "login") /\ At(q, "login") /\ request[r].id = request[q].id => r = q
  /\ \A r \in Requests, s \in Numbers :
       (At(r, "login") \/ At(r, "sweep")) /\ s \in request[r].rows => session[s].state # "absent"

SInv == Known /\ Distinct /\ Spent /\ Presented /\ Held /\ Exclusive /\ Unborn /\ RotationIsSingleUse

LEMMA RotationInit == SessionsInit => SInv
  BY SessionsAssumption DEF SessionsInit, SInv, Known, Distinct, Spent, Presented, Held, Exclusive, Unborn,
     RotationIsSingleUse, Holding, Idle, Absent

(* A step that gives a request no row to hold and no row to create, and      *)
(* leaves the tokens alone.                                                  *)
LEMMA SameTokens ==
  ASSUME SessionsTypeOK, SInv, session' \in [Numbers -> SessionRow],
         issued' = issued, begun' = begun, rotated' = rotated,
         \A s \in Numbers : session'[s].token = session[s].token,
         \A s \in Numbers : (session'[s].state = "absent") <=> (session[s].state = "absent"),
         \A q \in Requests : \/ request'[q] = request[q]
                             \/ /\ request'[q].pc \notin {"locked", "rotate", "login"}
                                /\ request'[q].pc = "present" => request'[q].token \in 1..issued
                                /\ request'[q].pc = "sweep" =>
                                     \A s \in request'[q].rows : session[s].state # "absent"
  PROVE  SInv'
<1>1. \A q \in Requests : Holding(q)' => Holding(q) /\ request'[q] = request[q]
  BY DEF Holding
<1>2. Known' /\ Distinct' /\ Spent'
  BY DEF SInv, Known, Distinct, Spent
<1>3. Presented'
  BY <1>1 DEF SInv, Presented, Holding
<1>4. Held' /\ Exclusive'
  BY <1>1 DEF SInv, Held, Exclusive
<1>5. Unborn'
  <2>1. \A s \in Numbers : s > begun => session'[s].state = "absent"
    BY DEF SInv, Unborn
  <2>2. \A q \in Requests : request'[q].pc = "login" => request[q].pc = "login" /\ request'[q] = request[q]
    OBVIOUS
  <2>3. \A q \in Requests : request[q].pc = "login" =>
          request[q].id \in Numbers /\ request[q].id \in 1..begun /\ session[request[q].id].state = "absent"
    BY SessionsAssumption DEF SInv, Unborn, SessionsTypeOK
  <2>4. \A q \in Requests, s \in Numbers :
          request'[q].pc \in {"login", "sweep"} /\ s \in request'[q].rows => session'[s].state # "absent"
    BY DEF SInv, Unborn
  <2>5. \A o, q \in Requests :
          request[o].pc = "login" /\ request[q].pc = "login" /\ request[o].id = request[q].id => o = q
    BY DEF SInv, Unborn
  <2>6. QED
    BY <2>1, <2>2, <2>3, <2>4, <2>5 DEF Unborn
<1>6. RotationIsSingleUse'
  BY DEF SInv, RotationIsSingleUse
<1>7. QED
  BY <1>2, <1>3, <1>4, <1>5, <1>6 DEF SInv

LEMMA RotationStep == SessionsTypeOK /\ SInv /\ [SessionsNext]_sessionVars => SInv'
<1> SUFFICES ASSUME SessionsTypeOK, SInv, [SessionsNext]_sessionVars PROVE SInv'
  OBVIOUS
<1>0. Idle \in Step /\ Idle.pc = "idle"
  BY IdleType
<1>a. session \in [Numbers -> SessionRow] /\ request \in [Requests -> Step]
  BY DEF SessionsTypeOK
<1>b. SessionsTypeOK'
  BY TypeStep
<1>c. session' \in [Numbers -> SessionRow]
  BY <1>b DEF SessionsTypeOK
<1>1. ASSUME NEW r \in Requests, BeginLogin(r) PROVE SInv'
  <2>1. PICK step \in Step : /\ request' = [request EXCEPT ![r] = step]
                             /\ step.pc = "login" /\ step.id = begun + 1 /\ step.rows \subseteq Live
    BY <1>1, BeginLoginEffect
  <2>2. UNCHANGED <<session, rotated, issued>> /\ begun' = begun + 1 /\ begun < MaxSessions /\ begun \in Nat
    BY <1>1 DEF BeginLogin, SessionsTypeOK
  <2>3. Known' /\ Distinct' /\ Spent' /\ RotationIsSingleUse'
    BY <2>2 DEF SInv, Known, Distinct, Spent, RotationIsSingleUse
  <2>4. \A q \in Requests : q # r => request'[q] = request[q]
    BY <2>1
  <2>5. request'[r] = step
    BY <2>1, <1>a
  <2>6. Presented' /\ Held' /\ Exclusive'
    BY <2>1, <2>2, <2>4, <2>5 DEF SInv, Presented, Held, Exclusive, Holding
  <2>7. Unborn'
    <3>1. session[begun + 1].state = "absent" /\ begun + 1 \in Numbers
      BY <2>2, SessionsAssumption DEF SInv, Unborn
    <3>2. \A s \in step.rows : session[s].state # "absent"
      BY <2>1 DEF Live, Open
    <3>3. \A s \in Numbers : s > begun + 1 => session[s].state = "absent"
      BY <2>2, SessionsAssumption DEF SInv, Unborn
    <3>4. \A q \in Requests : request[q].pc = "login" =>
            request[q].id \in 1..begun /\ session[request[q].id].state = "absent"
      BY DEF SInv, Unborn
    <3>5. \A o, q \in Requests :
            request[o].pc = "login" /\ request[q].pc = "login" /\ request[o].id = request[q].id => o = q
      BY DEF SInv, Unborn
    <3>6. \A q \in Requests, s \in Numbers :
            request[q].pc \in {"login", "sweep"} /\ s \in request[q].rows => session[s].state # "absent"
      BY DEF SInv, Unborn
    <3>7. \A q \in Requests : At(q, "login")' =>
            request'[q].id \in 1..(begun + 1) /\ session[request'[q].id].state = "absent"
      BY <2>1, <2>2, <2>4, <2>5, <3>1, <3>4
    <3>8. \A o, q \in Requests :
            At(o, "login")' /\ At(q, "login")' /\ request'[o].id = request'[q].id => o = q
      BY <2>1, <2>2, <2>4, <2>5, <3>4, <3>5
    <3>9. \A q \in Requests, s \in Numbers :
            (At(q, "login")' \/ At(q, "sweep")') /\ s \in request'[q].rows => session[s].state # "absent"
      BY <2>1, <2>4, <2>5, <3>2, <3>6
    <3>10. QED
      BY <2>2, <3>3, <3>7, <3>8, <3>9 DEF Unborn
  <2>8. QED
    BY <2>3, <2>6, <2>7 DEF SInv
<1>2. ASSUME NEW r \in Requests, FinishLogin(r) PROVE SInv'
  <2> DEFINE n == request[r].id
             R == request[r].rows
  <2>1. PICK new \in SessionRow : session' = [Revoke(R) EXCEPT ![n] = new] /\ new.state = "open" /\ new.token = issued + 1
    BY <1>2, FinishLoginEffect
  <2>2. UNCHANGED <<rotated, begun>> /\ issued' = issued + 1 /\ issued \in Nat
    BY <1>2, SessionsAssumption DEF FinishLogin, SessionsTypeOK
  <2>3. request'[r] = Idle /\ \A q \in Requests : q # r => request'[q] = request[q]
    BY <1>2, <1>a DEF FinishLogin
  <2>4. n \in 1..begun /\ n \in Numbers /\ session[n].state = "absent"
    BY <1>2, SessionsAssumption DEF FinishLogin, SInv, Unborn, SessionsTypeOK
  <2>5. session'[n] = new
    BY <2>1, <2>4, RevokeType
  <2>6. \A s \in R \cap Numbers : session[s].state # "absent"
    BY <1>2 DEF FinishLogin, SInv, Unborn
  <2>7. \A s \in Numbers : s # n =>
          session'[s].token = session[s].token /\ ((session'[s].state = "absent") <=> (session[s].state = "absent"))
    BY <2>1, <2>6, RevokeType
  <2>8. \A s \in Numbers : session[s].token \in Nat /\ session[s].token <= issued
    BY <1>a DEF SessionRow, SInv, Known
  <2> HIDE DEF n, R
  <2>9. Known' /\ Distinct'
    BY <2>1, <2>2, <2>5, <2>7, <2>8 DEF SInv, Known, Distinct
  <2>10. Spent' /\ RotationIsSingleUse'
    BY <2>1, <2>2, <2>5, <2>7 DEF SInv, Spent, RotationIsSingleUse
  <2>11. \A q \in Requests : Holding(q)' => Holding(q) /\ request'[q] = request[q] /\ q # r
    BY <2>3, <1>0 DEF Holding
  <2>12. Presented'
    BY <2>2, <2>3, <2>11, <1>0 DEF SInv, Presented
  <2>13. Held' /\ Exclusive'
    BY <2>4, <2>7, <2>11 DEF SInv, Held, Exclusive
  <2>14. Unborn'
    <3>1. \A s \in Numbers : s > begun => session'[s].state = "absent"
      BY <2>4, <2>7, SessionsAssumption DEF SInv, Unborn, SessionsTypeOK
    <3>2. \A q \in Requests : request'[q].pc \in {"login", "sweep"} => q # r /\ request'[q] = request[q]
      BY <2>3, <1>0
    <3>3. request[r].pc = "login"
      BY <1>2 DEF FinishLogin
    <3>4. \A q \in Requests : At(q, "login")' =>
            request'[q].id \in 1..begun /\ session'[request'[q].id].state = "absent"
      BY <2>7, <3>2, <3>3, SessionsAssumption DEF SInv, Unborn, SessionsTypeOK, n
    <3>5. \A o, q \in Requests :
            At(o, "login")' /\ At(q, "login")' /\ request'[o].id = request'[q].id => o = q
      BY <3>2 DEF SInv, Unborn
    <3>6. \A q \in Requests, s \in Numbers :
            (At(q, "login")' \/ At(q, "sweep")') /\ s \in request'[q].rows => session'[s].state # "absent"
      BY <2>1, <2>5, <2>7, <3>2 DEF SInv, Unborn
    <3>7. QED
      BY <2>2, <3>1, <3>4, <3>5, <3>6 DEF Unborn
  <2>15. QED
    BY <2>9, <2>10, <2>12, <2>13, <2>14 DEF SInv
<1>3. ASSUME NEW r \in Requests, Present(r) PROVE SInv'
  <2>1. PICK step \in Step : /\ request' = [request EXCEPT ![r] = step]
                             /\ step.pc = "present" /\ step.token \in 1..issued
    BY <1>3, PresentEffect
  <2>2. \A q \in Requests : request'[q] = request[q] \/ request'[q] = step
    BY <2>1, <1>a
  <2>3. QED
    BY <1>3, <1>c, <2>1, <2>2, SameTokens DEF Present
<1>4. ASSUME NEW r \in Requests, SelectForUpdate(r) PROVE SInv'
  <2>1. UNCHANGED <<session, rotated, issued, begun>> /\ request[r].pc = "present"
    BY <1>4 DEF SelectForUpdate
  <2>2. CASE request' = [request EXCEPT ![r] = Idle]
    <3>1. \A q \in Requests : request'[q] = request[q] \/ request'[q] = Idle
      BY <2>2, <1>a
    <3>2. QED
      BY <1>0, <1>c, <2>1, <3>1, SameTokens
  <2>3. ASSUME NEW step \in Step, request' = [request EXCEPT ![r] = step],
               step.pc = "locked", step.token = request[r].token,
               step.id \in Live, session[step.id].token = step.token, ~Locked(step.id)
        PROVE  SInv'
    <3>1. request'[r] = step /\ \A q \in Requests : q # r => request'[q] = request[q]
      BY <2>3, <1>a
    <3>2. Known' /\ Distinct' /\ Spent' /\ RotationIsSingleUse'
      BY <2>1 DEF SInv, Known, Distinct, Spent, RotationIsSingleUse
    <3>3. Presented'
      BY <2>1, <2>3, <3>1 DEF SInv, Presented, Holding
    <3>4. step.id \in Numbers /\ session[step.id].state # "absent"
      BY <2>3 DEF Live, Open
    <3>5. Held'
      BY <2>1, <2>3, <3>1, <3>4 DEF SInv, Held, Holding
    <3>6. \A q \in Requests : Holding(q) => request[q].id # step.id
      BY <2>3 DEF Locked, Holding
    <3>7. Exclusive'
      BY <2>3, <3>1, <3>6 DEF SInv, Exclusive, Holding
    <3>8. \A q \in Requests : request'[q].pc \in {"login", "sweep"} => request'[q] = request[q]
      BY <2>3, <3>1
    <3>9. Unborn'
      BY <2>1, <3>8 DEF SInv, Unborn
    <3>10. QED
      BY <3>2, <3>3, <3>5, <3>7, <3>9 DEF SInv
  <2>4. QED
    BY <1>4, <2>2, <2>3, SelectEffect
<1>5. ASSUME NEW r \in Requests, CheckUser(r) PROVE SInv'
  <2>1. UNCHANGED <<session, rotated, issued, begun>> /\ Holding(r)
    BY <1>5 DEF CheckUser, Holding
  <2>2. CASE request' = [request EXCEPT ![r] = Idle]
    <3>1. \A q \in Requests : request'[q] = request[q] \/ request'[q] = Idle
      BY <2>2, <1>a
    <3>2. QED
      BY <1>0, <1>c, <2>1, <3>1, SameTokens
  <2>3. ASSUME NEW step \in Step, request' = [request EXCEPT ![r] = step],
               step.pc = "rotate", step.token = request[r].token, step.id = request[r].id
        PROVE  SInv'
    <3>1. request'[r] = step /\ \A q \in Requests : q # r => request'[q] = request[q]
      BY <2>3, <1>a
    <3>2. Known' /\ Distinct' /\ Spent' /\ RotationIsSingleUse'
      BY <2>1 DEF SInv, Known, Distinct, Spent, RotationIsSingleUse
    <3>3. \A q \in Requests : Holding(q)' =>
            Holding(q) /\ request'[q].id = request[q].id /\ request'[q].token = request[q].token
      BY <2>1, <2>3, <3>1 DEF Holding
    <3>4. Presented'
      BY <2>1, <2>3, <3>1, <3>3 DEF SInv, Presented, Holding
    <3>5. Held' /\ Exclusive'
      BY <2>1, <3>3 DEF SInv, Held, Exclusive
    <3>6. \A q \in Requests : request'[q].pc \in {"login", "sweep"} => request'[q] = request[q]
      BY <2>3, <3>1
    <3>7. Unborn'
      BY <2>1, <3>6 DEF SInv, Unborn
    <3>8. QED
      BY <3>2, <3>4, <3>5, <3>7 DEF SInv
  <2>4. QED
    BY <1>5, <2>2, <2>3, CheckUserEffect
<1>6. ASSUME NEW r \in Requests, Rotate(r) PROVE SInv'
  <2> DEFINE n == request[r].id
             t == request[r].token
  <2>1. /\ UNCHANGED begun /\ issued' = issued + 1 /\ issued \in Nat
        /\ rotated' = rotated \union {<<t, issued + 1>>}
    BY <1>6, SessionsAssumption DEF Rotate, SessionsTypeOK
  <2>2. request'[r] = Idle /\ \A q \in Requests : q # r => request'[q] = request[q]
    BY <1>6, <1>a DEF Rotate
  <2>3. Holding(r) /\ n \in Numbers /\ session[n].token = t /\ t \in 1..issued
    BY <1>6 DEF Rotate, Holding, SInv, Held, Presented
  <2>4. \A s \in Numbers : /\ session'[s].state = session[s].state
                            /\ session'[s].token = IF s = n THEN issued + 1 ELSE session[s].token
    BY <1>6, RotateEffect
  <2>5. \A s \in Numbers : session[s].token \in Nat /\ session[s].token <= issued
    BY <1>a DEF SessionRow, SInv, Known
  <2>6. \A q \in Requests : Holding(q)' => Holding(q) /\ request'[q] = request[q] /\ request[q].id # n
    <3>1. \A q \in Requests : Holding(q)' => Holding(q) /\ request'[q] = request[q] /\ q # r
      BY <2>2, <1>0 DEF Holding
    <3>2. QED
      BY <2>3, <3>1 DEF SInv, Exclusive
  <2> HIDE DEF n, t
  <2>7. Known' /\ Distinct'
    BY <2>1, <2>4, <2>5 DEF SInv, Known, Distinct
  <2>8. Spent'
    <3>1. ASSUME NEW a \in rotated, NEW s \in Numbers
          PROVE  a[1] \in 1..issued' /\ session'[s].token # a[1]
      BY <2>1, <2>4 DEF SInv, Spent
    <3>2. ASSUME NEW s \in Numbers PROVE session'[s].token # t
      BY <2>1, <2>3, <2>4 DEF SInv, Distinct
    <3>3. ASSUME NEW a \in rotated PROVE a[1] \in 1..issued'
      BY <2>1 DEF SInv, Spent
    <3>4. ASSUME NEW a \in rotated' PROVE a \in rotated \/ a[1] = t
      BY <2>1
    <3>5. QED
      BY <2>1, <2>3, <3>1, <3>2, <3>3, <3>4 DEF Spent
  <2>9. RotationIsSingleUse'
    <3>1. \A a \in rotated : a[1] # t
      BY <2>3 DEF SInv, Spent
    <3>2. QED
      BY <2>1, <3>1 DEF SInv, RotationIsSingleUse
  <2>10. Presented'
    <3>1. \A q \in Requests : request'[q].pc = "present" => request'[q] = request[q]
      BY <2>2, <1>0
    <3>2. QED
      BY <2>1, <2>6, <3>1 DEF SInv, Presented
  <2>11. Held' /\ Exclusive'
    BY <2>4, <2>6 DEF SInv, Held, Exclusive
  <2>12. Unborn'
    <3>1. \A q \in Requests : request'[q].pc \in {"login", "sweep"} => request'[q] = request[q]
      BY <2>2, <1>0
    <3>2. \A q \in Requests : request[q].pc = "login" => request[q].id \in Numbers
      BY SessionsAssumption DEF SInv, Unborn, SessionsTypeOK
    <3>3. QED
      BY <2>1, <2>4, <3>1, <3>2 DEF SInv, Unborn
  <2>13. QED
    BY <2>7, <2>8, <2>9, <2>10, <2>11, <2>12 DEF SInv
<1>7. ASSUME NEW r \in Requests, ReadAccount(r) PROVE SInv'
  <2>1. PICK step \in Step : /\ request' = [request EXCEPT ![r] = step]
                             /\ step.pc \in {"write", "put"}
    BY <1>7, ReadAccountEffect
  <2>2. \A q \in Requests : request'[q] = request[q] \/ request'[q] = step
    BY <2>1, <1>a
  <2>3. QED
    BY <1>7, <1>c, <2>1, <2>2, SameTokens DEF ReadAccount
<1>8. ASSUME NEW r \in Requests, WriteAccount(r) PROVE SInv'
  <2>1. \A q \in Requests : request'[q] = request[q] \/ request'[q] = Idle
    BY <1>8, <1>a DEF WriteAccount
  <2>2. QED
    BY <1>0, <1>8, <1>c, <2>1, SameTokens DEF WriteAccount
<1>9. ASSUME NEW r \in Requests, SelectSessions(r) PROVE SInv'
  <2>1. PICK step \in Step : /\ request' = [request EXCEPT ![r] = step]
                             /\ step.pc = "sweep" /\ step.rows = Open
    BY <1>9, SelectSessionsEffect
  <2>2. \A q \in Requests : request'[q] = request[q] \/ request'[q] = step
    BY <2>1, <1>a
  <2>3. \A s \in step.rows : session[s].state # "absent"
    BY <2>1 DEF Open
  <2>4. QED
    BY <1>9, <1>c, <2>1, <2>2, <2>3, SameTokens DEF SelectSessions
<1>10. ASSUME NEW r \in Requests, RevokeAll(r) PROVE SInv'
  <2>1. PICK step \in Step : /\ request' = [request EXCEPT ![r] = step]
                             /\ step.pc = "sweep" /\ step.rows = Open
    BY <1>10, RevokeAllEffect
  <2>2. \A q \in Requests : request'[q] = request[q] \/ request'[q] = step
    BY <2>1, <1>a
  <2>3. \A s \in step.rows : session[s].state # "absent"
    BY <2>1 DEF Open
  <2>4. QED
    BY <1>10, <1>c, <2>1, <2>2, <2>3, SameTokens DEF RevokeAll
<1>11. ASSUME NEW r \in Requests, CommitSweep(r) PROVE SInv'
  <2>1. \A q \in Requests : request'[q] = request[q] \/ request'[q] = Idle
    BY <1>11, <1>a DEF CommitSweep
  <2>2. \A s \in request[r].rows \cap Numbers : session[s].state # "absent"
    BY <1>11 DEF CommitSweep, SInv, Unborn
  <2>3. /\ \A s \in Numbers : session'[s].token = session[s].token
        /\ \A s \in Numbers : (session'[s].state = "absent") <=> (session[s].state = "absent")
    BY <1>11, <2>2, RevokeType DEF CommitSweep
  <2>4. UNCHANGED <<rotated, begun, issued>>
    BY <1>11 DEF CommitSweep
  <2>5. QED
    BY <1>0, <1>c, <2>1, <2>3, <2>4, SameTokens
<1>12. ASSUME NEW r \in Requests, Abort(r) PROVE SInv'
  <2>1. \A q \in Requests : request'[q] = request[q] \/ request'[q] = Idle
    BY <1>12, <1>a DEF Abort
  <2>2. QED
    BY <1>0, <1>12, <1>c, <2>1, SameTokens DEF Abort
<1>13. ASSUME NEW s \in Numbers, RevokeOne(s) PROVE SInv'
  <2>1. /\ \A o \in Numbers : session'[o].token = session[o].token
        /\ \A o \in Numbers : (session'[o].state = "absent") <=> (session[o].state = "absent")
    BY <1>13, RevokeType DEF RevokeOne, Open
  <2>2. UNCHANGED <<request, rotated, begun, issued>>
    BY <1>13 DEF RevokeOne
  <2>3. QED
    BY <1>c, <2>1, <2>2, SameTokens
<1>14. ASSUME NEW s \in Numbers, Lapse(s) PROVE SInv'
  <2>1. /\ \A o \in Numbers : session'[o].token = session[o].token
        /\ \A o \in Numbers : session'[o].state = session[o].state
    BY <1>14, <1>a DEF Lapse, SessionRow
  <2>2. QED
    BY <1>14, <1>c, <2>1, SameTokens DEF Lapse
<1>15. CASE UNCHANGED sessionVars
  BY <1>15, <1>c, SameTokens
<1>16. QED
  BY <1>1, <1>2, <1>3, <1>4, <1>5, <1>6, <1>7, <1>8, <1>9, <1>10, <1>11, <1>12, <1>13, <1>14, <1>15
     DEF SessionsNext

(* "Refresh-token rotation is single-use" (services/sessions.py:69-71),      *)
(* whatever the number of requests and the order of their statements.        *)
THEOREM SingleUse == SessionsSpec => []RotationIsSingleUse
<1>1. SInv => RotationIsSingleUse
  BY DEF SInv
<1>2. QED
  BY <1>1, TypeInit, TypeStep, RotationInit, RotationStep, PTL DEF SessionsSpec

-------------------------------------------------------------------------------
(* The cap.  A login revokes the oldest of the sessions that it has found    *)
(* live, so that with its own no more than the cap remain; what it has not   *)
(* found are the sessions of the logins that overlap it.                     *)

Limit == Max({1, Cap})

LEMMA MaxOfTwo ==
  ASSUME NEW a \in Int, NEW b \in Int
  PROVE  Max({a, b}) = IF a >= b THEN a ELSE b
<1> DEFINE m == IF a >= b THEN a ELSE b
<1>1. m \in {a, b} /\ \A y \in {a, b} : m >= y
  OBVIOUS
<1>2. \A x \in {a, b} : (\A y \in {a, b} : x >= y) => x = m
  OBVIOUS
<1>3. (CHOOSE x \in {a, b} : \A y \in {a, b} : x >= y) = m
  BY <1>1, <1>2
<1>4. QED
  BY <1>3 DEF Max

LEMMA LimitType == Limit \in Nat /\ Limit >= 1
  BY MaxOfTwo, SessionsAssumption DEF Limit

(* As many rows as there are live ones, less Overflow, are at most the cap   *)
(* without the new session.                                                  *)
LEMMA OverflowIsEnough ==
  ASSUME NEW n \in Nat
  PROVE  Overflow(n) \in Nat /\ n - Overflow(n) <= Limit - 1
<1>1. Overflow(n) = Max({0, n - Limit + 1})
  BY DEF Overflow, Limit
<1>2. n - Limit + 1 \in Int
  BY LimitType
<1>3. QED
  BY <1>1, <1>2, LimitType, MaxOfTwo

(* The rank of a number in a finite set.                                     *)
LEMMA Rank ==
  ASSUME NEW S \in SUBSET Nat, IsFiniteSet(S)
  PROVE  \E g \in [S -> 0..(Cardinality(S) - 1)] :
           /\ \A s \in S : g[s] = Cardinality({o \in S : o < s})
           /\ \A s, t \in S : s < t => g[s] < g[t]
<1> DEFINE below(s) == {o \in S : o < s}
           g == [s \in S |-> Cardinality(below(s))]
<1>1. Cardinality(S) \in Nat
  BY FS_CardinalityType
<1>2. ASSUME NEW s \in S
      PROVE  IsFiniteSet(below(s)) /\ Cardinality(below(s)) \in 0..(Cardinality(S) - 1)
  <2>1. below(s) \in SUBSET (S \ {s})
    OBVIOUS
  <2>2. IsFiniteSet(S \ {s}) /\ Cardinality(S \ {s}) = Cardinality(S) - 1
    BY FS_RemoveElement
  <2> HIDE DEF below
  <2>3. IsFiniteSet(below(s)) /\ Cardinality(below(s)) <= Cardinality(S) - 1
    BY <2>1, <2>2, FS_Subset
  <2>4. Cardinality(below(s)) \in Nat
    BY <2>3, FS_CardinalityType
  <2>5. QED
    BY <1>1, <2>3, <2>4
<1>3. ASSUME NEW s \in S, NEW t \in S, s < t
      PROVE  Cardinality(below(s)) < Cardinality(below(t))
  <2>1. \A o \in below(s) \union {s} : o \in S /\ o < t
    BY <1>3
  <2>2. \A o \in below(s) \union {s} : o \in below(t)
    BY <2>1
  <2>3. s \notin below(s)
    OBVIOUS
  <2> HIDE DEF below
  <2>4. below(s) \union {s} \in SUBSET below(t)
    BY <2>2
  <2>5. IsFiniteSet(below(s)) /\ IsFiniteSet(below(t))
    BY <1>2
  <2>6. Cardinality(below(s)) \in Nat /\ Cardinality(below(t)) \in Nat
    BY <2>5, FS_CardinalityType
  <2>7. Cardinality(below(s) \union {s}) = Cardinality(below(s)) + 1
    BY <2>3, <2>5, FS_AddElement
  <2>8. Cardinality(below(s) \union {s}) <= Cardinality(below(t))
    BY <2>4, <2>5, FS_Subset
  <2>9. QED
    BY <2>6, <2>7, <2>8
<1>4. \A s \in S : g[s] = Cardinality(below(s))
  OBVIOUS
<1>5. g \in [S -> 0..(Cardinality(S) - 1)]
  <2> HIDE DEF below
  <2>1. QED
    BY <1>2
<1>6. \A s, t \in S : s < t => g[s] < g[t]
  <2> HIDE DEF below, g
  <2>1. QED
    BY <1>3, <1>4
<1> HIDE DEF g
<1>7. QED
  BY <1>4, <1>5, <1>6

(* Of a finite set of numbers all have a rank below k but for as many as the *)
(* set has more than k: their ranks are different.                           *)
LEMMA Ranks ==
  ASSUME NEW S \in SUBSET Nat, IsFiniteSet(S), NEW k \in Nat, NEW l \in Nat,
         Cardinality(S) - k <= l
  PROVE  Cardinality({s \in S : ~(Cardinality({o \in S : o < s}) < k)}) <= l
<1> DEFINE n == Cardinality(S)
<1>1. n \in Nat
  BY FS_CardinalityType
<1>2. PICK g \in [S -> 0..(n - 1)] :
        /\ \A s \in S : g[s] = Cardinality({o \in S : o < s})
        /\ \A s, t \in S : s < t => g[s] < g[t]
  BY Rank
<1> DEFINE T == {s \in S : ~(g[s] < k)}
<1>3. T = {s \in S : ~(Cardinality({o \in S : o < s}) < k)}
  BY <1>2
<1> HIDE DEF n
<1>4. CASE n <= k
  <2>1. \A s \in S : g[s] < k
    BY <1>1, <1>2, <1>4
  <2>2. T = {}
    BY <2>1
  <2>3. Cardinality({}) = 0
    BY FS_EmptySet
  <2> HIDE DEF T
  <2>4. Cardinality(T) <= l
    BY <2>2, <2>3
  <2>5. QED
    BY <1>3, <2>4
<1>5. CASE n > k
  <2> DEFINE f == [s \in T |-> g[s]]
             U == k..(n - 1)
  <2>1. IsFiniteSet(U) /\ Cardinality(U) = n - k
    BY <1>1, <1>5, FS_Interval
  <2>2. \A s \in T : s \in S /\ s \in Nat /\ g[s] \in U
    BY <1>1, <1>2
  <2>3. \A s, t \in T : g[s] = g[t] => s = t
    <3> HIDE DEF T, U
    <3>1. SUFFICES ASSUME NEW s \in T, NEW t \in T, g[s] = g[t] PROVE s = t
      OBVIOUS
    <3>2. s \in Nat /\ t \in Nat /\ g[s] \in Nat /\ ~(s < t) /\ ~(t < s)
      BY <1>2, <2>2, <3>1
    <3>3. QED
      BY <3>2
  <2>4. f \in Injection(T, U)
    <3> HIDE DEF T, U
    <3>1. QED
      BY <2>2, <2>3 DEF Injection, IsInjective
  <2>5. Cardinality(T) <= Cardinality(U)
    <3> HIDE DEF f, T, U
    <3>1. QED
      BY <2>1, <2>4, FS_Injection
  <2>6. Cardinality(T) \in Nat
    <3>1. T \in SUBSET S
      OBVIOUS
    <3> HIDE DEF T
    <3>2. QED
      BY <3>1, FS_Subset, FS_CardinalityType
  <2>7. Cardinality(T) <= l
    <3> HIDE DEF T, U
    <3>1. QED
      BY <1>1, <2>1, <2>5, <2>6 DEF n
  <2>8. QED
    BY <1>3, <2>7
<1>6. QED
  BY <1>1, <1>4, <1>5

(* The sessions that count: the live ones, and those that have lapsed while  *)
(* a refresh that may still prolong them has locked them.                    *)
Counted == {s \in Open : session[s].lapsed => Locked(s)}

Logins == {r \in Requests : At(r, "login")}

Room(n) == Limit - 1 + Cardinality(Requests) - n

(* Of any logins that overlap one revokes enough to leave room for them all. *)
Slack == \A Q \in SUBSET Logins : Q # {} =>
  \E q \in Q : Cardinality(Counted \ request[q].rows) <= Room(Cardinality(Q))

CapInv == Slack /\ Cardinality(Counted) <= Room(0)

LEMMA CountedType ==
  /\ IsFiniteSet(Numbers) /\ Numbers \in SUBSET Nat
  /\ \A S \in SUBSET Numbers : IsFiniteSet(S) /\ Cardinality(S) \in Nat
  /\ Counted \in SUBSET Numbers /\ Live \in SUBSET Counted
<1>1. IsFiniteSet(Numbers) /\ Numbers \in SUBSET Nat
  BY SessionsAssumption, FS_Interval
<1>2. \A S \in SUBSET Numbers : IsFiniteSet(S) /\ Cardinality(S) \in Nat
  BY <1>1, FS_Subset, FS_CardinalityType
<1>3. Counted \in SUBSET Numbers /\ Live \in SUBSET Counted
  BY DEF Counted, Live, Open
<1>4. QED
  BY <1>1, <1>2, <1>3

LEMMA RoomType ==
  /\ IsFiniteSet(Requests) /\ Cardinality(Requests) \in Nat
  /\ \A Q \in SUBSET Requests : IsFiniteSet(Q) /\ Cardinality(Q) \in 0..Cardinality(Requests)
  /\ \A Q \in SUBSET Logins : Q \in SUBSET Requests
  /\ \A n \in Int : Room(n) \in Int /\ Room(n) = Room(n + 1) + 1
<1>1. IsFiniteSet(Requests) /\ Cardinality(Requests) \in Nat
  BY SessionsAssumption, FS_CardinalityType
<1>2. \A Q \in SUBSET Requests : IsFiniteSet(Q) /\ Cardinality(Q) \in 0..Cardinality(Requests)
  <2>1. \A Q \in SUBSET Requests : IsFiniteSet(Q) /\ Cardinality(Q) <= Cardinality(Requests)
    BY <1>1, FS_Subset
  <2>2. \A Q \in SUBSET Requests : Cardinality(Q) \in Nat
    BY <2>1, FS_CardinalityType
  <2>3. QED
    BY <1>1, <2>1, <2>2
<1>3. \A n \in Int : Room(n) \in Int /\ Room(n) = Room(n + 1) + 1
  BY <1>1, LimitType DEF Room
<1>4. QED
  BY <1>1, <1>2, <1>3 DEF Logins

(* Fewer sessions counted are a smaller number.                              *)
LEMMA Fewer ==
  ASSUME NEW S \in SUBSET Numbers, NEW T \in SUBSET S, NEW n \in Int, Cardinality(S) <= n
  PROVE  Cardinality(T) <= n
<1>1. IsFiniteSet(S) /\ T \in SUBSET Numbers
  BY CountedType
<1>2. Cardinality(T) <= Cardinality(S)
  BY <1>1, FS_Subset
<1>3. Cardinality(T) \in Nat /\ Cardinality(S) \in Nat
  BY <1>1, CountedType
<1>4. QED
  BY <1>2, <1>3

LEMMA OneMore ==
  ASSUME NEW S \in SUBSET Numbers, NEW x, NEW T \in SUBSET (S \union {x}), NEW n \in Int,
         Cardinality(S) <= n - 1
  PROVE  Cardinality(T) <= n
<1>1. IsFiniteSet(S) /\ Cardinality(S) \in Nat
  BY CountedType
<1>2. IsFiniteSet(S \union {x}) /\ Cardinality(S \union {x}) \in {Cardinality(S), Cardinality(S) + 1}
  BY <1>1, FS_AddElement
<1>3. Cardinality(S \union {x}) <= n
  BY <1>1, <1>2
<1>4. Cardinality(T) <= Cardinality(S \union {x}) /\ IsFiniteSet(T)
  BY <1>2, FS_Subset
<1>5. Cardinality(T) \in Nat /\ Cardinality(S \union {x}) \in Nat
  BY <1>2, <1>4, FS_CardinalityType
<1>6. QED
  BY <1>3, <1>4, <1>5

LEMMA CapInit == SessionsInit => CapInv
<1> SUFFICES ASSUME SessionsInit PROVE CapInv
  OBVIOUS
<1>1. Logins = {} /\ Counted = {}
  BY DEF SessionsInit, Logins, Counted, Open, Idle, Absent
<1>2. Cardinality({}) = 0
  BY FS_EmptySet
<1>3. Room(0) >= 0
  BY RoomType, LimitType DEF Room
<1>4. QED
  BY <1>1, <1>2, <1>3 DEF CapInv, Slack

(* A step after which no more sessions count and no more logins are under    *)
(* way, those with the rows they had.                                        *)
LEMMA CapShrinks ==
  ASSUME CapInv, Counted' \subseteq Counted,
         \A q \in Requests : request'[q].pc = "login" => request'[q] = request[q]
  PROVE  CapInv'
<1>1. Counted \in SUBSET Numbers
  BY CountedType
<1>2. Slack'
  <2> SUFFICES ASSUME NEW Q \in SUBSET Logins', Q # {}
               PROVE  \E q \in Q : Cardinality(Counted' \ request'[q].rows) <= Room(Cardinality(Q))
    BY DEF Slack, Room
  <2>1. Q \in SUBSET Logins /\ \A q \in Q : request'[q] = request[q]
    BY DEF Logins
  <2>2. PICK q \in Q : Cardinality(Counted \ request[q].rows) <= Room(Cardinality(Q))
    BY <2>1 DEF CapInv, Slack
  <2>3. Room(Cardinality(Q)) \in Int
    BY <2>1, RoomType
  <2>4. Counted \ request[q].rows \in SUBSET Numbers
    BY <1>1
  <2>5. Counted' \ request'[q].rows \in SUBSET (Counted \ request[q].rows)
    BY <2>1
  <2>6. QED
    BY <2>2, <2>3, <2>4, <2>5, Fewer
<1>3. Cardinality(Counted') <= Room(0)
  BY <1>1, RoomType, Fewer DEF CapInv
<1>4. QED
  BY <1>2, <1>3 DEF CapInv, Room

(* A step that opens and prolongs no session, and after which no request      *)
(* holds a row that neither it held before nor was live.                     *)
LEMMA CountedShrinks ==
  ASSUME SessionsTypeOK, Open' \subseteq Open, \A s \in Open' : session'[s].lapsed = session[s].lapsed,
         \A q \in Requests : Holding(q)' => request'[q].id \in Live \/ (Holding(q) /\ request'[q].id = request[q].id)
  PROVE  Counted' \subseteq Counted
<1> SUFFICES ASSUME NEW s \in Counted' PROVE s \in Counted
  OBVIOUS
<1>1. s \in Open /\ session'[s].lapsed = session[s].lapsed /\ (session'[s].lapsed => Locked(s)')
  BY DEF Counted
<1>2. CASE ~session[s].lapsed
  BY <1>1, <1>2 DEF Counted
<1>3. CASE session[s].lapsed
  <2>1. PICK q \in Requests : Holding(q)' /\ request'[q].id = s
    BY <1>1, <1>3 DEF Locked, Holding
  <2>2. s \notin Live
    BY <1>3 DEF Live
  <2>3. Holding(q) /\ request[q].id = s
    BY <2>1, <2>2
  <2>4. Locked(s)
    BY <2>3 DEF Locked, Holding
  <2>5. QED
    BY <1>1, <2>4 DEF Counted
<1>4. QED
  BY <1>2, <1>3

(* A login begins: of the sessions live at that moment it leaves no more     *)
(* than the cap without its own, and every other session that counts has     *)
(* been locked by a request of its own, which is not a login.                *)
LEMMA CapBegin ==
  ASSUME SessionsTypeOK, CapInv, NEW r \in Requests, BeginLogin(r)
  PROVE  CapInv'
<1> DEFINE oldest == {s \in Live : Cardinality({o \in Live : o < s}) < Overflow(Cardinality(Live))}
           lockers == {q \in Requests : Holding(q)}
           extra   == Counted \ Live
<1>0. Live \in SUBSET Numbers /\ IsFiniteSet(Live) /\ Cardinality(Live) \in Nat /\ Live \in SUBSET Nat
  BY CountedType
<1>1. PICK step \in Step : request' = [request EXCEPT ![r] = step] /\ step.pc = "login" /\ step.rows = oldest
  <2> DEFINE step == [Idle EXCEPT !.pc = "login", !.id = begun + 1, !.rows = oldest]
  <2>1. oldest \in SUBSET Numbers
    BY <1>0
  <2>2. begun + 1 \in Nat
    BY SessionsAssumption DEF SessionsTypeOK
  <2>3. request' = [request EXCEPT ![r] = step]
    BY DEF BeginLogin
  <2> HIDE DEF oldest
  <2>4. step \in Step /\ step.pc = "login" /\ step.rows = oldest
    BY <2>1, <2>2, LoginRecord
  <2> HIDE DEF step
  <2>5. QED
    BY <2>3, <2>4
<1>2. Cardinality(Live \ oldest) <= Limit - 1
  <2>1. Overflow(Cardinality(Live)) \in Nat /\ Cardinality(Live) - Overflow(Cardinality(Live)) <= Limit - 1
    BY <1>0, OverflowIsEnough
  <2>2. Limit - 1 \in Nat
    BY LimitType
  <2>3. Cardinality({s \in Live : ~(Cardinality({o \in Live : o < s}) < Overflow(Cardinality(Live)))}) <= Limit - 1
    BY <1>0, <2>1, <2>2, Ranks
  <2>4. Live \ oldest = {s \in Live : ~(Cardinality({o \in Live : o < s}) < Overflow(Cardinality(Live)))}
    OBVIOUS
  <2>5. QED
    BY <2>3, <2>4
<1>3. IsFiniteSet(lockers) /\ lockers \in SUBSET Requests /\ Cardinality(lockers) \in Nat
  BY RoomType
<1>4. Cardinality(extra) <= Cardinality(lockers)
  <2> DEFINE f == [s \in extra |-> CHOOSE q \in lockers : request[q].id = s]
  <2>1. \A s \in extra : \E q \in lockers : request[q].id = s
    BY DEF Counted, Live, Locked, Holding
  <2>2. \A s \in extra : f[s] \in lockers /\ request[f[s]].id = s
    <3> HIDE DEF extra, lockers
    <3>1. QED
      BY <2>1
  <2>3. f \in [extra -> lockers]
    <3>1. f = [s \in extra |-> f[s]]
      OBVIOUS
    <3> HIDE DEF extra, lockers, f
    <3>2. QED
      BY <2>2, <3>1
  <2> HIDE DEF extra, lockers, f
  <2>4. f \in Injection(extra, lockers)
    BY <2>2, <2>3 DEF Injection, IsInjective
  <2>5. QED
    BY <1>3, <2>4, FS_Injection
<1>5. Counted' = Counted
  <2>1. \A q \in Requests : Holding(q)' <=> Holding(q)
    BY <1>1 DEF SessionsTypeOK, BeginLogin, Holding
  <2>2. \A q \in Requests : Holding(q) => request'[q].id = request[q].id
    BY <1>1 DEF SessionsTypeOK, BeginLogin, Holding
  <2>3. \A s : Locked(s)' <=> Locked(s)
    BY <2>1, <2>2 DEF Locked, Holding
  <2>4. session' = session
    BY DEF BeginLogin
  <2>5. QED
    BY <2>3, <2>4 DEF Counted, Open
<1>6. Slack'
  <2> SUFFICES ASSUME NEW Q \in SUBSET Logins', Q # {}
               PROVE  \E q \in Q : Cardinality(Counted \ request'[q].rows) <= Room(Cardinality(Q))
    BY <1>5 DEF Slack, Room
  <2>1. CASE r \notin Q
    <3>1. Q \in SUBSET Logins /\ \A q \in Q : request'[q] = request[q]
      BY <1>1, <2>1 DEF Logins, SessionsTypeOK
    <3>2. QED
      BY <3>1 DEF CapInv, Slack
  <2>2. CASE r \in Q
    <3>1. Q \in SUBSET Requests /\ Q \intersect lockers = {}
      BY <1>1 DEF Logins, Holding, SessionsTypeOK, BeginLogin
    <3>2. Cardinality(Q) + Cardinality(lockers) <= Cardinality(Requests)
      <4>1. IsFiniteSet(Q) /\ Q \union lockers \in SUBSET Requests /\ Cardinality({}) = 0
        BY <1>3, <3>1, RoomType, FS_EmptySet
      <4>2. Cardinality(Q \union lockers) \in 0..Cardinality(Requests) /\ Cardinality(Q) \in Nat
        BY <3>1, <4>1, RoomType
      <4> HIDE DEF lockers
      <4>3. Cardinality(Q \union lockers) = Cardinality(Q) + Cardinality(lockers) - 0
        BY <1>3, <3>1, <4>1, FS_Union
      <4>4. QED
        BY <1>3, <4>2, <4>3, RoomType
    <3>3. Cardinality((Live \ oldest) \union extra) <= Cardinality(Live \ oldest) + Cardinality(extra)
      <4>1. Live \ oldest \in SUBSET Numbers /\ extra \in SUBSET Numbers /\ (Live \ oldest) \intersect extra \in SUBSET Numbers
        BY <1>0, CountedType
      <4> HIDE DEF extra, oldest
      <4>2. /\ IsFiniteSet(Live \ oldest) /\ IsFiniteSet(extra)
            /\ Cardinality(Live \ oldest) \in Nat /\ Cardinality(extra) \in Nat
            /\ Cardinality((Live \ oldest) \intersect extra) \in Nat
        BY <4>1, CountedType
      <4>3. Cardinality((Live \ oldest) \union extra)
              = Cardinality(Live \ oldest) + Cardinality(extra) - Cardinality((Live \ oldest) \intersect extra)
        BY <4>2, FS_Union
      <4>4. QED
        BY <4>2, <4>3
    <3>4. (Live \ oldest) \union extra \in SUBSET Numbers /\ Counted \ oldest \in SUBSET ((Live \ oldest) \union extra)
      BY CountedType
    <3>5. /\ Cardinality(Live \ oldest) \in Nat /\ Cardinality(extra) \in Nat
          /\ Cardinality((Live \ oldest) \union extra) \in Nat
      <4>1. Live \ oldest \in SUBSET Numbers /\ extra \in SUBSET Numbers
        BY <1>0, CountedType
      <4> HIDE DEF extra, oldest
      <4>2. QED
        BY <3>4, <4>1, CountedType
    <3>6. Cardinality(Q) \in Nat /\ Cardinality(Requests) \in Nat /\ Limit \in Nat
      BY <3>1, RoomType, LimitType
    <3> HIDE DEF oldest, extra, lockers
    <3>7. Cardinality((Live \ oldest) \union extra) <= Room(Cardinality(Q))
      BY <1>2, <1>3, <1>4, <3>2, <3>3, <3>5, <3>6 DEF Room
    <3>8. Room(Cardinality(Q)) \in Int
      BY <3>6, RoomType
    <3>9. Cardinality(Counted \ oldest) <= Room(Cardinality(Q))
      BY <3>4, <3>7, <3>8, Fewer
    <3>10. request'[r].rows = oldest
      BY <1>1 DEF SessionsTypeOK
    <3>11. QED
      BY <2>2, <3>9, <3>10
  <2>3. QED
    BY <2>1, <2>2
<1>7. Cardinality(Counted') <= Room(0)
  BY <1>5 DEF CapInv
<1>8. QED
  BY <1>6, <1>7 DEF CapInv, Room

(* A login ends: its own session counts, in the place that one more login    *)
(* under way would have had.                                                 *)
LEMMA CapFinish ==
  ASSUME SessionsTypeOK, CapInv, NEW r \in Requests, FinishLogin(r)
  PROVE  CapInv'
<1> DEFINE rows == request[r].rows
           id   == request[r].id
<1>1. request' = [request EXCEPT ![r] = Idle] /\ Idle.pc = "idle" /\ request[r].pc = "login"
  BY IdleType DEF FinishLogin
<1>2. Counted \in SUBSET Numbers /\ Counted \ rows \in SUBSET Numbers
  BY CountedType
<1>3. Counted' \subseteq (Counted \ rows) \union {id}
  <2>1. PICK new \in SessionRow : session' = [Revoke(rows) EXCEPT ![id] = new]
    BY FinishLoginEffect
  <2>2. \A s \in Numbers : s # id => session'[s] = Revoke(rows)[s]
    BY <2>1, RevokeType
  <2>3. \A s \in Numbers : s # id /\ session'[s].state = "open" =>
          s \notin rows /\ session[s].state = "open" /\ session'[s].lapsed = session[s].lapsed
    BY <2>2, RevokeType
  <2>4. \A q \in Requests : Holding(q)' => Holding(q) /\ request'[q].id = request[q].id
    BY <1>1 DEF Holding, SessionsTypeOK
  <2>5. \A s : Locked(s)' => Locked(s)
    BY <2>4 DEF Locked, Holding
  <2>6. \A s \in Open' : s # id => s \in Open /\ s \notin rows /\ session'[s].lapsed = session[s].lapsed
    BY <2>3 DEF Open
  <2>7. QED
    BY <2>5, <2>6 DEF Counted
<1>4. Slack'
  <2> SUFFICES ASSUME NEW Q \in SUBSET Logins', Q # {}
               PROVE  \E q \in Q : Cardinality(Counted' \ request'[q].rows) <= Room(Cardinality(Q))
    BY DEF Slack, Room
  <2>1. Q \union {r} \in SUBSET Logins /\ r \notin Q /\ \A q \in Q : request'[q] = request[q]
    BY <1>1 DEF Logins, SessionsTypeOK
  <2>2. Q \in SUBSET Requests /\ IsFiniteSet(Q) /\ Cardinality(Q) \in Nat
    BY <2>1, RoomType
  <2>3. Cardinality(Q \union {r}) = Cardinality(Q) + 1
    BY <2>1, <2>2, FS_AddElement
  <2>4. Room(Cardinality(Q)) \in Int /\ Room(Cardinality(Q) + 1) = Room(Cardinality(Q)) - 1
    BY <2>2, RoomType
  <2>5. PICK q \in Q \union {r} : Cardinality(Counted \ request[q].rows) <= Room(Cardinality(Q)) - 1
    BY <2>1, <2>3, <2>4 DEF CapInv, Slack
  <2>6. PICK p \in Q : q = r \/ q = p
    OBVIOUS
  <2>7. Counted \ request[q].rows \in SUBSET Numbers
    BY <1>2
  <2>8. Counted' \ request'[p].rows \in SUBSET ((Counted \ request[q].rows) \union {id})
    BY <1>3, <2>1, <2>6
  <2> HIDE DEF id
  <2>9. Cardinality(Counted' \ request'[p].rows) <= Room(Cardinality(Q))
    BY <2>4, <2>5, <2>7, <2>8, OneMore
  <2>10. QED
    BY <2>9
<1>5. Cardinality(Counted') <= Room(0)
  <2>1. {r} \in SUBSET Logins /\ {r} # {} /\ Cardinality({r}) = 1
    BY <1>1, FS_Singleton DEF Logins
  <2>2. \E q \in {r} : Cardinality(Counted \ request[q].rows) <= Room(Cardinality({r}))
    BY <2>1 DEF CapInv, Slack
  <2>3. Cardinality(Counted \ rows) <= Room(1)
    BY <2>1, <2>2
  <2>4. Room(0) \in Int /\ Room(0 + 1) = Room(0) - 1
    BY RoomType
  <2>5. Cardinality(Counted \ rows) <= Room(0) - 1
    BY <2>3, <2>4
  <2> HIDE DEF rows, id
  <2>6. QED
    BY <1>2, <1>3, <2>4, <2>5, OneMore
<1>6. QED
  BY <1>4, <1>5 DEF CapInv, Room

LEMMA CapStep == SessionsTypeOK /\ CapInv /\ [SessionsNext]_sessionVars => CapInv'
<1> SUFFICES ASSUME SessionsTypeOK, CapInv, [SessionsNext]_sessionVars PROVE CapInv'
  OBVIOUS
<1>0. Idle \in Step /\ Idle.pc = "idle"
  BY IdleType
<1>a. session \in [Numbers -> SessionRow] /\ request \in [Requests -> Step]
  BY DEF SessionsTypeOK
<1>b. ASSUME session' = session,
             NEW r \in Requests, NEW step \in Step, request' = [request EXCEPT ![r] = step],
             step.pc # "login",
             step.pc \in {"locked", "rotate"} => step.id \in Live \/ (Holding(r) /\ step.id = request[r].id)
      PROVE  CapInv'
  <2>1. Open' = Open
    BY <1>b DEF Open
  <2>2. \A q \in Requests : Holding(q)' => request'[q].id \in Live \/ (Holding(q) /\ request'[q].id = request[q].id)
    BY <1>a, <1>b DEF Holding
  <2>3. \A q \in Requests : request'[q].pc = "login" => request'[q] = request[q]
    BY <1>a, <1>b
  <2>4. Counted' \subseteq Counted
    BY <1>b, <2>1, <2>2, CountedShrinks
  <2>5. QED
    BY <2>3, <2>4, CapShrinks
<1>c. ASSUME NEW S, session' = Revoke(S),
             request' = request \/ \E r \in Requests : request' = [request EXCEPT ![r] = Idle]
      PROVE  CapInv'
  <2>1. Open' \subseteq Open
    BY <1>c, RevokeType DEF Open
  <2>2. \A s \in Open' : session'[s].lapsed = session[s].lapsed
    BY <1>c, RevokeType DEF Open
  <2>3. \A q \in Requests : Holding(q)' => Holding(q) /\ request'[q].id = request[q].id
    BY <1>0, <1>a, <1>c DEF Holding
  <2>4. \A q \in Requests : request'[q].pc = "login" => request'[q] = request[q]
    BY <1>0, <1>a, <1>c
  <2>5. Counted' \subseteq Counted
    BY <2>1, <2>2, <2>3, CountedShrinks
  <2>6. QED
    BY <2>4, <2>5, CapShrinks
<1>1. ASSUME NEW r \in Requests, BeginLogin(r) PROVE CapInv'
  BY <1>1, CapBegin
<1>2. ASSUME NEW r \in Requests, FinishLogin(r) PROVE CapInv'
  BY <1>2, CapFinish
<1>3. ASSUME NEW r \in Requests, Present(r) PROVE CapInv'
  <2>1. PICK step \in Step : request' = [request EXCEPT ![r] = step] /\ step.pc = "present"
    BY <1>3, PresentEffect
  <2>2. QED
    BY <1>3, <2>1, <1>b DEF Present
<1>4. ASSUME NEW r \in Requests, SelectForUpdate(r) PROVE CapInv'
  <2>1. PICK step \in Step : /\ request' = [request EXCEPT ![r] = step]
                             /\ step.pc = "idle" \/ (step.pc = "locked" /\ step.id \in Live)
    BY <1>0, <1>4, SelectEffect
  <2>2. QED
    BY <1>4, <2>1, <1>b DEF SelectForUpdate
<1>5. ASSUME NEW r \in Requests, CheckUser(r) PROVE CapInv'
  <2>1. PICK step \in Step : /\ request' = [request EXCEPT ![r] = step]
                             /\ step.pc = "idle" \/ (step.pc = "rotate" /\ step.id = request[r].id)
    BY <1>0, <1>5, CheckUserEffect
  <2>2. Holding(r)
    BY <1>5 DEF CheckUser, Holding
  <2>3. QED
    BY <1>5, <2>1, <2>2, <1>b DEF CheckUser
<1>6. ASSUME NEW r \in Requests, Rotate(r) PROVE CapInv'
  <2>1. Open' \subseteq Open
    BY <1>6, RotateEffect DEF Open
  <2>2. request' = [request EXCEPT ![r] = Idle] /\ Holding(r)
    BY <1>6 DEF Rotate, Holding
  <2>3. \A q \in Requests : Holding(q)' => Holding(q) /\ request'[q].id = request[q].id
    BY <1>0, <1>a, <2>2 DEF Holding
  <2>4. \A s : Locked(s)' => Locked(s)
    BY <2>3 DEF Locked, Holding
  <2>5. \A s \in Open' : s # request[r].id => session'[s] = session[s]
    BY <1>6, RotateEffect DEF Open
  <2>6. Locked(request[r].id)
    BY <2>2 DEF Locked, Holding
  <2>7. Counted' \subseteq Counted
    BY <2>1, <2>4, <2>5, <2>6 DEF Counted
  <2>8. \A q \in Requests : request'[q].pc = "login" => request'[q] = request[q]
    BY <1>0, <1>a, <2>2
  <2>9. QED
    BY <2>7, <2>8, CapShrinks
<1>7. ASSUME NEW r \in Requests, ReadAccount(r) PROVE CapInv'
  <2>1. PICK step \in Step : request' = [request EXCEPT ![r] = step] /\ step.pc \in {"write", "put"}
    BY <1>7, ReadAccountEffect
  <2>2. QED
    BY <1>7, <2>1, <1>b DEF ReadAccount
<1>8. ASSUME NEW r \in Requests, WriteAccount(r) PROVE CapInv'
  BY <1>8, <1>0, <1>b DEF WriteAccount
<1>9. ASSUME NEW r \in Requests, SelectSessions(r) PROVE CapInv'
  <2>1. PICK step \in Step : request' = [request EXCEPT ![r] = step] /\ step.pc = "sweep"
    BY <1>9, SelectSessionsEffect
  <2>2. QED
    BY <1>9, <2>1, <1>b DEF SelectSessions
<1>10. ASSUME NEW r \in Requests, RevokeAll(r) PROVE CapInv'
  <2>1. PICK step \in Step : request' = [request EXCEPT ![r] = step] /\ step.pc = "sweep"
    BY <1>10, RevokeAllEffect
  <2>2. QED
    BY <1>10, <2>1, <1>b DEF RevokeAll
<1>11. ASSUME NEW r \in Requests, CommitSweep(r) PROVE CapInv'
  BY <1>11, <1>c DEF CommitSweep
<1>12. ASSUME NEW r \in Requests, Abort(r) PROVE CapInv'
  BY <1>12, <1>0, <1>b DEF Abort
<1>13. ASSUME NEW s \in Numbers, RevokeOne(s) PROVE CapInv'
  BY <1>13, <1>c DEF RevokeOne
<1>14. ASSUME NEW s \in Numbers, Lapse(s) PROVE CapInv'
  <2>1. \A o \in Numbers : /\ session'[o].state = session[o].state
                           /\ session[o].lapsed => session'[o].lapsed
    BY <1>14, <1>a DEF Lapse, SessionRow
  <2>2. \A o : Locked(o)' = Locked(o)
    BY <1>14 DEF Lapse, Locked
  <2>3. Counted' \subseteq Counted
    BY <2>1, <2>2 DEF Counted, Open
  <2>4. QED
    BY <1>14, <2>3, CapShrinks DEF Lapse
<1>15. CASE UNCHANGED sessionVars
  <2>1. Counted' = Counted
    BY <1>15 DEF Counted, Open, Locked
  <2>2. QED
    BY <1>15, <2>1, CapShrinks
<1>16. QED
  BY <1>1, <1>2, <1>3, <1>4, <1>5, <1>6, <1>7, <1>8, <1>9, <1>10, <1>11, <1>12, <1>13, <1>14, <1>15
     DEF SessionsNext

(* "Configurable maximum active sessions per user" (README.md:102): whatever *)
(* logins, refreshes and revocations overlap, the live sessions exceed the   *)
(* cap by less than the number of requests that can run at the same time.    *)
THEOREM SessionsCapped == SessionsSpec => []SessionsAreCapped
<1>1. CapInv => SessionsAreCapped
  <2> SUFFICES ASSUME CapInv PROVE SessionsAreCapped
    OBVIOUS
  <2>1. Room(0) \in Int /\ Room(0) = Max({1, Cap}) + Cardinality(Requests) - 1
    BY RoomType, LimitType DEF Room, Limit
  <2>2. Counted \in SUBSET Numbers /\ Live \in SUBSET Counted
    BY CountedType
  <2>3. Cardinality(Live) <= Room(0)
    BY <2>1, <2>2, Fewer DEF CapInv
  <2>4. QED
    BY <2>1, <2>3 DEF SessionsAreCapped
<1>2. QED
  BY <1>1, TypeInit, TypeStep, CapInit, CapStep, PTL DEF SessionsSpec
===============================================================================
