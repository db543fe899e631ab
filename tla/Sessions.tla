------------------------------- MODULE Sessions -------------------------------
(***************************************************************************)
(* The browser sessions of one account: services/sessions.py and the       *)
(* handlers of api/auth.py and api/scim.py that end sessions or change     *)
(* is_active.  Requests run concurrently over PostgreSQL at READ           *)
(* COMMITTED; a statement is a step, and so is a flush with its commit.    *)
(* Sessions are numbered by created_at, the start of the transaction that  *)
(* inserts them, and refresh tokens by the order in which they are issued. *)
(***************************************************************************)
EXTENDS Integers, FiniteSets, FiniteSetsExt

CONSTANTS
  Requests,                (* requests that may run at the same time       *)
  Cap,                     (* session_max_active_per_user                  *)
  MaxSessions, MaxTokens, MaxChanges   (* bounds: logins, tokens issued,   *)
                                       (* changes of is_active             *)

ASSUME SessionsAssumption ==
  /\ IsFiniteSet(Requests)
  /\ Cap \in Int /\ MaxSessions \in Nat /\ MaxTokens \in Nat /\ MaxChanges \in Nat

VARIABLES
  is_active, (* of the account                                                *)
  session,   (* the rows of user_sessions                                     *)
  request,   (* what every request is doing                                   *)
  rotated,   (* history: the pairs of a refresh token and what it was given for *)
  late,      (* history: sessions opened when the account was inactive, or    *)
             (* after the SELECT of a deactivation that was still to commit   *)
  begun, issued, changes

sessionVars == <<is_active, session, request, rotated, late, begun, issued, changes>>

Numbers    == 1..MaxSessions
Absent == [state |-> "absent", lapsed |-> FALSE, token |-> 0]
Idle   == [pc |-> "idle", rows |-> {}, id |-> 0, token |-> 0, loaded |-> TRUE, goal |-> TRUE]

SessionsInit ==
  /\ is_active = TRUE
  /\ session = [s \in Numbers |-> Absent]
  /\ request = [r \in Requests |-> Idle]
  /\ rotated = {} /\ late = {}
  /\ begun = 0 /\ issued = 0 /\ changes = 0

Open == {s \in Numbers : session[s].state = "open"}
Live == {s \in Open : ~session[s].lapsed}

At(r, pc)  == request[r].pc = pc
Locked(s)  == \E r \in Requests : (At(r, "locked") \/ At(r, "rotate")) /\ request[r].id = s
Revoke(S)  == [s \in Numbers |-> IF s \in S THEN [session[s] EXCEPT !.state = "revoked"] ELSE session[s]]
Done(r)    == request' = [request EXCEPT ![r] = Idle]
Goes(r, step) == request' = [request EXCEPT ![r] = step]

----------------------------------------------------------------------------
(* create_user_session, the end of a login: neither it nor the login looks   *)
(* at is_active.                                                             *)

(* Mutant: one session too many is left.                                     *)
OverflowByOne(n) == Max({0, n - Max({1, Cap})})

Overflow(n) == Max({0, n - Max({1, Cap}) + 1})

BeginLogin(r) ==
  /\ At(r, "idle")
  /\ begun < MaxSessions /\ issued < MaxTokens
  /\ begun' = begun + 1
  /\ LET oldest == {s \in Live : Cardinality({o \in Live : o < s}) < Overflow(Cardinality(Live))}
     IN  Goes(r, [Idle EXCEPT !.pc = "login", !.id = begun + 1, !.rows = oldest])
  /\ UNCHANGED <<is_active, session, rotated, late, issued, changes>>

Deactivating(r) == At(r, "sweep") /\ ~request[r].goal

FinishLogin(r) ==
  LET s == request[r].id IN
  /\ At(r, "login")
  /\ issued < MaxTokens
  /\ \A old \in request[r].rows : ~Locked(old)
  /\ issued' = issued + 1
  /\ session' = [Revoke(request[r].rows) EXCEPT
                   ![s] = [state |-> "open", lapsed |-> FALSE, token |-> issued + 1]]
  /\ late' = IF is_active /\ ~\E o \in Requests : Deactivating(o) THEN late ELSE late \union {s}
  /\ Done(r)
  /\ UNCHANGED <<is_active, rotated, begun, changes>>

----------------------------------------------------------------------------
(* refresh_user_session: a client presents a token it was given some time,   *)
(* the row is selected FOR UPDATE, the account is read, the token exchanged. *)
Present(r) ==
  /\ At(r, "idle")
  /\ \E t \in 1..issued : Goes(r, [Idle EXCEPT !.pc = "present", !.token = t])
  /\ UNCHANGED <<is_active, session, rotated, late, begun, issued, changes>>

(* Mutant: the row is read without FOR UPDATE.                               *)
SelectUnlocked(r) ==
  LET found == {s \in Live : session[s].token = request[r].token} IN
  /\ At(r, "present")
  /\ Goes(r, IF found = {} THEN Idle
             ELSE [request[r] EXCEPT !.pc = "locked", !.id = CHOOSE s \in found : TRUE])
  /\ UNCHANGED <<is_active, session, rotated, late, begun, issued, changes>>

(* A locked row is waited for and its conditions are evaluated again.        *)
SelectForUpdate(r) ==
  LET found == {s \in Live : session[s].token = request[r].token} IN
  /\ At(r, "present")
  /\ \A s \in found : ~Locked(s)
  /\ Goes(r, IF found = {} THEN Idle
             ELSE [request[r] EXCEPT !.pc = "locked", !.id = CHOOSE s \in found : TRUE])
  /\ UNCHANGED <<is_active, session, rotated, late, begun, issued, changes>>

CheckUser(r) ==
  /\ At(r, "locked")
  /\ Goes(r, IF is_active THEN [request[r] EXCEPT !.pc = "rotate"] ELSE Idle)
  /\ UNCHANGED <<is_active, session, rotated, late, begun, issued, changes>>

Rotate(r) ==
  /\ At(r, "rotate")
  /\ issued < MaxTokens
  /\ issued' = issued + 1
  /\ session' = [session EXCEPT ![request[r].id].token = issued + 1, ![request[r].id].lapsed = FALSE]
  /\ rotated' = rotated \union {<<request[r].token, issued + 1>>}
  /\ Done(r)
  /\ UNCHANGED <<is_active, late, begun, changes>>

----------------------------------------------------------------------------
(* delete_session.  It reads the row first; a step is enough as revoked_at   *)
(* is never taken back.                                                      *)
RevokeOne(s) ==
  /\ s \in Open /\ ~Locked(s)
  /\ session' = Revoke({s})
  /\ UNCHANGED <<is_active, request, rotated, late, begun, issued, changes>>

(* The handlers that change is_active read the account.  update_user_role,   *)
(* DELETE and a PATCH of "active" revoke the sessions whenever they write    *)
(* FALSE, PUT (_apply_user_payload) only when it was TRUE.                   *)
ReadAccount(r) ==
  /\ At(r, "idle")
  /\ changes < MaxChanges
  /\ changes' = changes + 1
  /\ \E goal \in BOOLEAN, pc \in {"write", "put"} :
       Goes(r, [Idle EXCEPT !.pc = pc, !.loaded = is_active, !.goal = goal])
  /\ UNCHANGED <<is_active, session, rotated, late, begun, issued>>

(* Mutant: was_active is read after the assignment.                          *)
SweepsAfterWrite(r) ==
  /\ ~request[r].goal
  /\ At(r, "put") => FALSE

Sweeps(r) == ~request[r].goal /\ (At(r, "put") => request[r].loaded)

(* The session writes is_active only when it differs from what it has read;  *)
(* from the flush on it holds the lock of the account's row.                 *)
Dirty(r)   == request[r].goal # request[r].loaded
RowIsFree  == \A o \in Requests : ~(At(o, "sweep") /\ Dirty(o))
Written(r) == IF Dirty(r) THEN request[r].goal ELSE is_active

WriteAccount(r) ==
  /\ At(r, "write") \/ At(r, "put")
  /\ ~Sweeps(r)
  /\ Dirty(r) => RowIsFree
  /\ is_active' = Written(r)
  /\ Done(r)
  /\ UNCHANGED <<session, rotated, late, begun, issued, changes>>

(* revoke_all_user_sessions: the SELECT flushes is_active, and the commit    *)
(* takes everything; the handler's own commit covers the case of no rows.    *)
SelectSessions(r) ==
  /\ At(r, "write") \/ At(r, "put")
  /\ Sweeps(r)
  /\ Dirty(r) => RowIsFree
  /\ Goes(r, [request[r] EXCEPT !.pc = "sweep", !.rows = Open])
  /\ UNCHANGED <<is_active, session, rotated, late, begun, issued, changes>>

RevokeAll(r) ==           \* POST /sessions/revoke-all: no change of the account
  /\ At(r, "idle")
  /\ Open # {}
  /\ changes < MaxChanges
  /\ changes' = changes + 1
  /\ Goes(r, [Idle EXCEPT !.pc = "sweep", !.rows = Open])
  /\ UNCHANGED <<is_active, session, rotated, late, begun, issued>>

CommitSweep(r) ==
  /\ At(r, "sweep")
  /\ \A s \in request[r].rows : ~Locked(s)
  /\ session' = Revoke(request[r].rows)
  /\ is_active' = Written(r)
  /\ Done(r)
  /\ UNCHANGED <<rotated, late, begun, issued, changes>>

----------------------------------------------------------------------------
(* refresh_expires_at passes.                                                *)
Lapse(s) ==
  /\ s \in Live
  /\ session' = [session EXCEPT ![s].lapsed = TRUE]
  /\ UNCHANGED <<is_active, request, rotated, late, begun, issued, changes>>

(* The process or the connection is lost: the transaction is rolled back.    *)
Abort(r) ==
  /\ ~At(r, "idle")
  /\ Done(r)
  /\ UNCHANGED <<is_active, session, rotated, late, begun, issued, changes>>

SessionsNext ==
  \/ \E r \in Requests :
       \/ BeginLogin(r) \/ FinishLogin(r)
       \/ Present(r) \/ SelectForUpdate(r) \/ CheckUser(r) \/ Rotate(r)
       \/ ReadAccount(r) \/ WriteAccount(r) \/ SelectSessions(r) \/ RevokeAll(r) \/ CommitSweep(r)
       \/ Abort(r)
  \/ \E s \in Numbers : RevokeOne(s) \/ Lapse(s)

SessionsSpec == SessionsInit /\ [][SessionsNext]_sessionVars

----------------------------------------------------------------------------
(* "Refresh-token rotation is single-use" (services/sessions.py:69-71): two  *)
(* requests, or a retry, never exchange one token for two.                   *)
RotationIsSingleUse ==
  \A a, b \in rotated : a[1] = b[1] => a = b

(* "Configurable maximum active sessions per user" (README.md:102): only     *)
(* requests that overlap can exceed it, by one each.                         *)
SessionsAreCapped ==
  Cardinality(Live) <= Max({1, Cap}) + Cardinality(Requests) - 1

(* "Deactivation revokes the affected user's active browser sessions"        *)
(* (README.md:132): of an inactive account only those sessions are open      *)
(* whose login committed after the deactivation had looked for them.         *)
DeactivationEndsSessions == ~is_active => Open \subseteq late
===============================================================================
