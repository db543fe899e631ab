------------------------------- MODULE Accounts -------------------------------
(***************************************************************************)
(* The account directory: bootstrap, the administrator's handlers          *)
(* (api/auth.py), SCIM provisioning (api/scim.py) and the account part of  *)
(* an OIDC login (services/oidc.py).  A handler reads rows into its ORM    *)
(* session, decides on what it read, and writes at its commit the columns  *)
(* that differ from what it read.  Display names, scim_external_id (unique *)
(* and checked as the e-mail is) and token hashes are left out; sessions   *)
(* are those of the module Sessions.                                       *)
(***************************************************************************)
EXTENDS Integers, FiniteSets

CONSTANTS
  Clients,                 (* handlers that may run at the same time       *)
  Emails, Identities,      (* e-mail addresses; OIDC issuer and subject    *)
  MaxAccounts, MaxHandlers, MaxOperations                        (* bounds *)

ASSUME AccountsAssumption ==
  /\ "none" \notin Emails /\ "none" \notin Identities
  /\ MaxAccounts \in Nat /\ MaxHandlers \in Nat /\ MaxOperations \in Nat

Roles == {"viewer", "reviewer", "admin"}   \* translator is like reviewer here
Ids   == 1..MaxAccounts

VARIABLES
  row,       (* the rows of app_users                                         *)
  handler,   (* what every handler is doing                                   *)
  raced,     (* history: rows that others wrote since a handler read them     *)
  started

accountVars == <<row, handler, raced, started>>

None     == "none"
NoRow    == [email |-> None, role |-> None, identity |-> None, active |-> FALSE]
Resting  == [pc |-> "idle", kind |-> None, id |-> 0, loaded |-> <<>>, pending |-> <<>>, operations |-> 0,
             partly |-> FALSE]                     \* partly is history: a part is committed
Existing == {i \in Ids : row[i] # NoRow}

AccountsInit ==
  /\ row = [i \in Ids |-> NoRow]
  /\ handler = [c \in Clients |-> Resting]
  /\ raced = [c \in Clients |-> {}]
  /\ started = 0

(* The unique columns email and (oidc_issuer, oidc_subject).                 *)
Unique(rows) ==
  \A i, j \in Ids : i # j /\ rows[i] # NoRow /\ rows[j] # NoRow =>
    /\ rows[i].email # rows[j].email
    /\ rows[i].identity = None \/ rows[i].identity # rows[j].identity

Start(c, kind, id, pc, change) ==
  /\ handler[c] = Resting
  /\ started < MaxHandlers
  /\ started' = started + 1
  /\ handler' = [handler EXCEPT ![c] =
       [pc |-> pc, kind |-> kind, id |-> id, loaded |-> row, pending |-> change, operations |-> 0,
        partly |-> FALSE]]
  /\ raced' = [raced EXCEPT ![c] = {}]
  /\ UNCHANGED row

Rest(c) == handler' = [handler EXCEPT ![c] = Resting]

----------------------------------------------------------------------------
(* New rows: bootstrap_admin counts the users, the others look for the e-mail.*)
Insert(email, role, identity, active) ==
  {[row EXCEPT ![i] = [email |-> email, role |-> role, identity |-> identity, active |-> active]]
     : i \in {j \in Ids : Existing = 1..(j - 1)}}

Taken(email) == \E i \in Existing : row[i].email = email

Bootstrap(c) ==
  /\ Existing = {}
  /\ \E email \in Emails : \E new \in Insert(email, "admin", None, TRUE) :
       Start(c, "create", 1, "commit", new)

CreateUser(c) ==       \* create_user and create_scim_user
  \E email \in Emails, role \in Roles, active \in BOOLEAN :
    /\ ~Taken(email)
    /\ \E new \in Insert(email, role, None, active) :
         Start(c, "create", Cardinality(Existing) + 1, "commit", new)

(* The account part of complete_oidc_login: the first row found by identity  *)
(* or by e-mail.                                                             *)
Matching(identity, email) ==
  {i \in Existing : row[i].identity = identity \/ row[i].email = email}

(* Mutant: the role that the provider claims is always taken over.           *)
LoggedInAs(account, identity, role) ==
  [account EXCEPT !.identity = identity, !.role = IF role = "viewer" THEN @ ELSE role]

LoggedIn(account, identity, role) ==
  [account EXCEPT !.identity = identity, !.role = IF @ = "viewer" THEN role ELSE @]

Login(c) ==
  \E identity \in Identities, email \in Emails, role \in Roles :
    \/ /\ Matching(identity, email) = {}
       /\ \E new \in Insert(email, role, identity, TRUE) :
            Start(c, "create", Cardinality(Existing) + 1, "commit", new)
    \/ \E i \in Matching(identity, email) :
         /\ row[i].identity \in {None, identity}
         /\ Start(c, "login", i, "commit", [row EXCEPT ![i] = LoggedIn(@, identity, role)])

----------------------------------------------------------------------------
(* Changes of a row.                                                         *)
UpdateRole(c) ==       \* update_user_role
  \E i \in Existing, role \in Roles, active \in BOOLEAN :
    Start(c, "admin", i, "commit", [row EXCEPT ![i].role = role, ![i].active = active])

DeleteUser(c) ==       \* delete_scim_user
  \E i \in Existing : Start(c, "scim", i, "commit", [row EXCEPT ![i].active = FALSE])

ReplaceUser(c) ==      \* replace_scim_user; an e-mail of another row is refused
  \E i \in Existing, email \in Emails, role \in Roles, active \in BOOLEAN :
    /\ \A j \in Existing \ {i} : row[j].email # email
    /\ Start(c, "scim", i, "commit",
             [row EXCEPT ![i] = [@ EXCEPT !.email = email, !.role = role, !.active = active]])

PatchGroup(c) ==       \* patch_scim_group: members added to or removed from a role
  \E role \in Roles, members \in (SUBSET Existing) \ {{}} :
    \/ Start(c, "group", 0, "commit",
             [i \in Ids |-> IF i \in members THEN [row[i] EXCEPT !.role = role] ELSE row[i]])
    \/ Start(c, "group", 0, "commit",
             [i \in Ids |-> IF i \in members /\ row[i].role = role
                              THEN [row[i] EXCEPT !.role = "viewer"] ELSE row[i]])

(* patch_scim_user: operation by operation.                                  *)
BeginPatch(c) == \E i \in Existing : Start(c, "patch", i, "patch", row)

Patched(h) ==          \* "active" is PatchActive's
  LET account == h.pending[h.id] IN
  {[account EXCEPT !.role = role] : role \in Roles}
    \union {[account EXCEPT !.email = e] : e \in Emails \ {row[j].email : j \in Existing \ {h.id}}}

Operate(c, account, pc) ==
  LET h == handler[c] IN
  /\ h.pc = "patch"
  /\ h.operations < MaxOperations
  /\ handler' = [handler EXCEPT ![c] = [h EXCEPT !.pending[h.id] = account, !.pc = pc,
                                                 !.operations = @ + 1]]
  /\ UNCHANGED <<row, raced, started>>

PatchColumn(c) ==
  /\ handler[c].pc = "patch"
  /\ \E account \in Patched(handler[c]) : Operate(c, account, "patch")

(* Mutant: every change of "active" revokes the sessions.                    *)
PatchActiveEither(c) ==
  /\ handler[c].pc = "patch"
  /\ \E active \in BOOLEAN, pc \in {"patch", "commitpart"} :
       Operate(c, [handler[c].pending[handler[c].id] EXCEPT !.active = active], pc)

(* A FALSE "active" revokes the sessions, and when there are some commits    *)
(* the operations so far.                                                    *)
PatchActive(c) ==
  /\ handler[c].pc = "patch"
  /\ \E active \in BOOLEAN, pc \in {"patch", "commitpart"} :
       /\ active => pc = "patch"
       /\ Operate(c, [handler[c].pending[handler[c].id] EXCEPT !.active = active], pc)

EndPatch(c) ==
  /\ handler[c].pc = "patch"
  /\ handler' = [handler EXCEPT ![c].pc = "commit"]
  /\ UNCHANGED <<row, raced, started>>

Refuse(c) ==           \* an operation that is not supported, or a lost request
  /\ handler[c] # Resting
  /\ Rest(c)
  /\ UNCHANGED <<row, raced, started>>

----------------------------------------------------------------------------
(* The columns that differ from what was read.                               *)
Merge(current, loaded, pending) ==
  [field \in DOMAIN current |->
     IF pending[field] # loaded[field] THEN pending[field] ELSE current[field]]

(* A new row has a new id, whatever was inserted since.                      *)
After(c) ==
  LET h    == handler[c]
      next == Cardinality(Existing) + 1
  IN  IF h.kind = "create"
        THEN [i \in Ids |-> IF i = next THEN h.pending[h.id] ELSE row[i]]
        ELSE [i \in Ids |-> Merge(row[i], h.loaded[i], h.pending[i])]

Changed(c) == {i \in Ids : After(c)[i] # row[i]}

Race(c) == raced' = [o \in Clients |->
                       IF o # c /\ handler[o] # Resting THEN raced[o] \union Changed(c) ELSE raced[o]]

Commit(c) ==
  /\ handler[c].pc = "commit"
  /\ IF Unique(After(c)) THEN row' = After(c) /\ Race(c) ELSE UNCHANGED <<row, raced>>
  /\ Rest(c)
  /\ UNCHANGED started

CommitPart(c) ==
  LET h == handler[c] IN
  /\ h.pc = "commitpart"
  /\ IF Unique(After(c))
       THEN /\ row' = After(c) /\ Race(c)
            /\ handler' = [handler EXCEPT ![c] = [h EXCEPT !.loaded = h.pending, !.pc = "patch",
                                                            !.partly = TRUE]]
       ELSE /\ Rest(c) /\ UNCHANGED <<row, raced>>
  /\ UNCHANGED started

AccountsNext ==
  \E c \in Clients :
    \/ Bootstrap(c) \/ CreateUser(c) \/ Login(c)
    \/ UpdateRole(c) \/ DeleteUser(c) \/ ReplaceUser(c) \/ PatchGroup(c)
    \/ BeginPatch(c) \/ PatchColumn(c) \/ PatchActive(c) \/ EndPatch(c)
    \/ Refuse(c) \/ Commit(c) \/ CommitPart(c)

AccountsSpec == AccountsInit /\ [][AccountsNext]_accountVars

----------------------------------------------------------------------------
(* A PATCH that has committed a part has deactivated the account by it: if a *)
(* later operation is refused, or the request is lost, no account is left    *)
(* active with half of a PATCH, unless another handler wrote the row since.  *)
PartialPatchesDeactivate ==
  \A c \in Clients :
    handler[c].partly /\ handler[c].id \notin raced[c] => ~row[handler[c].id].active

(* No account loses the OIDC identity it is bound to, and a login changes    *)
(* nobody's role but a viewer's, whatever overlaps: an exception is only the *)
(* login that read the row before another handler wrote it.                  *)
LoginsKeepAccounts ==
  [][\A i \in Existing :
       \/ /\ row[i].identity \in {None, row'[i].identity}
          /\ row'[i].role # row[i].role /\ row[i].role # "viewer" =>
               ~\E c \in Clients : handler[c].kind = "login" /\ handler'[c] # handler[c]
       \/ \E c \in Clients : handler[c].kind = "login" /\ i \in raced[c] /\ handler'[c] # handler[c]]_accountVars
===============================================================================
