------------------------------ MODULE Accounts ------------------------------
(***************************************************************************)
(* Accounts and sessions (internal/auth/auth.go) and the HTTP handlers that *)
(* use them (handler.go).  Requests are served concurrently, and take no    *)
(* lock: a handler is the sequence of its SQL statements, and between two   *)
(* of them another request's may run.                                       *)
(*                                                                         *)
(* A login that fails, or that the limiter refuses (LoginLimiter), changes  *)
(* nothing here, and neither does a request that only reads.  The audit log *)
(* is written only.  A session expires at any time.                         *)
(***************************************************************************)
EXTENDS Naturals, FiniteSets

CONSTANTS
    Requests,        \* the requests that may be served at the same time
    Tokens,          \* session tokens
    None,            \* no row, no actor, a field a PATCH leaves out
    MaxUsers,        \* bound on accounts created
    MaxRevocations   \* bound on disablings and password changes

Ids   == 1..MaxUsers
Roles == {"admin", "viewer"}

\* born numbers the accounts in the order of their creation, at is the clock at
\* a session's creation: both are for properties.
Account == [role : Roles, disabled : BOOLEAN, born : 1..MaxUsers]
Actor   == [id : Ids, role : Roles, born : 1..MaxUsers]
Session == [user : Ids, born : 1..MaxUsers, at : 0..MaxRevocations]

ASSUME AccountsConstants ==
    /\ MaxUsers \in Nat /\ MaxRevocations \in Nat
    /\ None \notin Ids /\ None \notin Tokens /\ None \notin Roles /\ None \notin BOOLEAN
    /\ None \notin Account /\ None \notin Actor /\ None \notin Session

VARIABLES
    up,        \* the server runs
    users,     \* the table users, by id
    lastId,    \* sqlite_sequence: the largest id ever given
    sessions,  \* the table sessions, by token
    req,       \* what each request in progress holds
    created,   \* accounts created so far (for properties)
    clock,     \* disablings and password changes so far (for properties)
    revoked,   \* per account, the clock at the last of these that was reported
               \* as done (for properties)
    overlap    \* two requests have been past RequireAuth at the same time
               \* (for properties)

historyVars == <<created, clock, revoked, overlap>>
vars == <<up, users, lastId, sessions, req, historyVars>>

\* login: authenticated, no session yet.  auth: RequireAuth saw accounts.
\* user: the session's row was read.  handler: past RequireAuth, with the actor
\* of that moment, or None in no-account mode.  insert: in CreateUser.  count,
\* update, revoke: in UpdateUser; password: in ChangePassword, before its
\* UPDATE; after it, also revoke.
Steps == {"idle", "login", "auth", "user", "handler", "insert",
          "count", "update", "revoke", "password"}

\* since is the clock at the last disabling or password change of the request
\* (for properties).
Request ==
    [pc : Steps, actor : Actor \cup {None}, token : Tokens \cup {None},
     target : Ids \cup {None}, role : Roles \cup {None},
     disabled : BOOLEAN \cup {None}, password : BOOLEAN, since : 0..MaxRevocations]

Idle == [pc |-> "idle", actor |-> None, token |-> None, target |-> None,
         role |-> None, disabled |-> None, password |-> FALSE, since |-> 0]

Init ==
    /\ up = FALSE
    /\ users = [i \in Ids |-> None]
    /\ lastId = 0
    /\ sessions = [t \in Tokens |-> None]
    /\ req = [r \in Requests |-> Idle]
    /\ created = 0 /\ clock = 0
    /\ revoked = [i \in Ids |-> 0]
    /\ overlap = FALSE

Existing == {i \in Ids : users[i] # None}

Enabled(i) == i \in Existing /\ ~ users[i].disabled

Admins == {i \in Ids : Enabled(i) /\ users[i].role = "admin"}

NoAccountMode == Existing = {}

TypeOK ==
    /\ up \in BOOLEAN
    /\ users \in [Ids -> Account \cup {None}]
    /\ lastId \in 0..MaxUsers
    /\ sessions \in [Tokens -> Session \cup {None}]
    /\ req \in [Requests -> Request]
    /\ created = lastId /\ Existing \subseteq 1..lastId
    /\ clock \in 0..MaxRevocations
    /\ revoked \in [Ids -> 0..MaxRevocations]
    /\ overlap \in BOOLEAN

\* The request ends: it has answered, or the process is gone.
Ends(r) == req' = [req EXCEPT ![r] = Idle]

\* The request ends and reports its disabling or password change as done.
Succeeds(r) ==
    /\ Ends(r)
    /\ revoked' = IF req[r].since > 0 THEN [revoked EXCEPT ![req[r].target] = req[r].since]
                  ELSE revoked

-----------------------------------------------------------------------------
(* Accounts.                                                               *)

\* Mutant: the column is not AUTOINCREMENT, and the largest id is reused once
\* its row is gone.
InsertUserReusing(role) ==
    /\ created < MaxUsers
    /\ LET id == CHOOSE n \in Ids :
                     /\ \A i \in Existing : i < n
                     /\ \A m \in Ids : (\A i \in Existing : i < m) => n <= m
       IN  /\ lastId' = id
           /\ users' = [users EXCEPT ![id] =
                  [role |-> role, disabled |-> FALSE, born |-> created + 1]]
    /\ created' = created + 1

\* The INSERT of CreateUser.
InsertUser(role) ==
    /\ created < MaxUsers
    /\ lastId' = lastId + 1
    /\ users' = [users EXCEPT ![lastId + 1] =
           [role |-> role, disabled |-> FALSE, born |-> created + 1]]
    /\ created' = created + 1

\* The server starts.  If the table is empty and auth.bootstrap_admin or
\* require_account is configured, it makes an administrator.
Boot ==
    /\ ~ up /\ up' = TRUE
    /\ \/ NoAccountMode /\ InsertUser("admin")
       \/ UNCHANGED <<users, lastId, created>>
    /\ UNCHANGED <<sessions, req, clock, revoked, overlap>>

\* The process ends, and with it the requests in progress.
Stop ==
    /\ up /\ up' = FALSE
    /\ req' = [r \in Requests |-> Idle]
    /\ UNCHANGED <<users, lastId, sessions, historyVars>>

\* A statement fails, and the request is answered with an error.
Fail(r) ==
    /\ req[r].pc # "idle"
    /\ Ends(r)
    /\ UNCHANGED <<up, users, lastId, sessions, historyVars>>

-----------------------------------------------------------------------------
(* Login and logout.                                                       *)

\* handleLogin: the password is right, and the account enabled.
Authenticate(r, i) ==
    /\ up /\ req[r].pc = "idle"
    /\ Enabled(i)
    /\ req' = [req EXCEPT ![r] = [Idle EXCEPT !.pc = "login",
           !.actor = [id |-> i, role |-> users[i].role, born |-> users[i].born]]]
    /\ UNCHANGED <<up, users, lastId, sessions, historyVars>>

\* handleLogin: the session is stored, under a token nobody has had.
CreateSession(r, t) ==
    /\ req[r].pc = "login"
    /\ sessions[t] = None /\ \A q \in Requests : req[q].token # t
    /\ sessions' = [sessions EXCEPT ![t] =
           [user |-> req[r].actor.id, born |-> req[r].actor.born, at |-> clock]]
    /\ Ends(r)
    /\ UNCHANGED <<up, users, lastId, historyVars>>

\* handleLogout deletes the session of the cookie; in no-account mode there may
\* be a cookie of an earlier account.
DeleteSession(r, t) ==
    /\ req[r].pc = "handler" /\ req[r].token \in {t, None}
    /\ sessions' = [sessions EXCEPT ![t] = None]
    /\ Ends(r)
    /\ UNCHANGED <<up, users, lastId, historyVars>>

-----------------------------------------------------------------------------
(* RequireAuth.                                                            *)

\* The request was let through by RequireAuth, and goes on.
PastAuth(r) == req[r].pc \notin {"idle", "login", "auth", "user"}

\* The request is let through to its handler.
Admit(r, actor) ==
    /\ req' = [req EXCEPT ![r].pc = "handler", ![r].actor = actor]
    /\ overlap' = (overlap \/ \E q \in Requests \ {r} : PastAuth(q))

\* The accounts are counted: in no-account mode anyone is let through.
CheckNoAccountMode(r) ==
    /\ up /\ req[r].pc = "idle"
    /\ IF NoAccountMode THEN Admit(r, None)
       ELSE req' = [req EXCEPT ![r].pc = "auth"] /\ UNCHANGED overlap
    /\ UNCHANGED <<up, users, lastId, sessions, created, clock, revoked>>

\* The row of the session whose token the request carries is read.  An expired
\* one is deleted; without a session the request ends.
LookupSession(r) ==
    /\ req[r].pc = "auth"
    /\ \/ /\ \E t \in Tokens :
                /\ sessions[t] # None
                /\ req' = [req EXCEPT ![r].pc = "user", ![r].token = t,
                                      ![r].target = sessions[t].user]
          /\ UNCHANGED sessions
       \/ /\ \E t \in Tokens : sessions' = [sessions EXCEPT ![t] = None]
          /\ Ends(r)
    /\ UNCHANGED <<up, users, lastId, historyVars>>

\* The row of the session's account is read.  Without it the request ends; a
\* disabled account's session is deleted.
LoadUser(r) ==
    LET i == req[r].target IN
    /\ req[r].pc = "user"
    /\ IF Enabled(i)
       THEN /\ Admit(r, [id |-> i, role |-> users[i].role, born |-> users[i].born])
            /\ UNCHANGED sessions
       ELSE /\ Ends(r)
            /\ sessions' = IF i \in Existing THEN [sessions EXCEPT ![req[r].token] = None]
                           ELSE sessions
            /\ UNCHANGED overlap
    /\ UNCHANGED <<up, users, lastId, created, clock, revoked>>

-----------------------------------------------------------------------------
(* Managing accounts.                                                      *)

\* The actor was an administrator when the request was let through.
IsAdmin(r) == req[r].actor # None /\ req[r].actor.role = "admin"

\* A handler reads and answers, or refuses.
Return(r) ==
    /\ req[r].pc \in {"handler", "insert"}
    /\ Ends(r)
    /\ UNCHANGED <<up, users, lastId, sessions, historyVars>>

\* RequireAdmin lets the request through, in no-account mode after counting once
\* more, and handleUsersCollection calls CreateUser.
BeginCreate(r) ==
    /\ req[r].pc = "handler" /\ (NoAccountMode \/ IsAdmin(r))
    /\ req' = [req EXCEPT ![r] = [Idle EXCEPT !.pc = "insert"]]
    /\ UNCHANGED <<up, users, lastId, sessions, historyVars>>

CreateUser(r, role) ==
    /\ req[r].pc = "insert"
    /\ InsertUser(role)
    /\ Ends(r)
    /\ UNCHANGED <<up, sessions, clock, revoked, overlap>>

\* Mutant: the guard of the last administrator is only for disabling.
BeginUpdateDisableOnly(r, i, role, disabled, password) ==
    LET next == IF role = None /\ disabled = None THEN "password"
                ELSE IF disabled = TRUE /\ i \in Admins THEN "count"
                ELSE "update"
    IN
    /\ req[r].pc = "handler" /\ IsAdmin(r)
    /\ ~ (disabled = TRUE /\ i = req[r].actor.id)
    /\ role # None \/ disabled # None \/ password
    /\ IF i \notin Existing THEN Ends(r)
       ELSE req' = [req EXCEPT ![r] = [Idle EXCEPT !.pc = next, !.target = i, !.role = role,
                                              !.disabled = disabled, !.password = password]]
    /\ UNCHANGED <<up, users, lastId, sessions, historyVars>>

\* A PATCH of account i: fields left out are None.  UpdateUser reads the account
\* if it is to lose its role or be disabled, to see whether it is an enabled
\* administrator.
BeginUpdate(r, i, role, disabled, password) ==
    LET losing == role = "viewer" \/ disabled = TRUE
        next   == IF role = None /\ disabled = None THEN "password"
                  ELSE IF losing /\ i \in Admins THEN "count"
                  ELSE "update"
    IN
    /\ req[r].pc = "handler" /\ IsAdmin(r)
    /\ ~ (disabled = TRUE /\ i = req[r].actor.id)
    /\ role # None \/ disabled # None \/ password
    /\ IF i \notin Existing THEN Ends(r)
       ELSE req' = [req EXCEPT ![r] = [Idle EXCEPT !.pc = next, !.target = i, !.role = role,
                                              !.disabled = disabled, !.password = password]]
    /\ UNCHANGED <<up, users, lastId, sessions, historyVars>>

\* UpdateUser: the last administrator stays.
CountAdmins(r) ==
    /\ req[r].pc = "count"
    /\ IF Cardinality(Admins) <= 1 THEN Ends(r)
       ELSE req' = [req EXCEPT ![r].pc = "update"]
    /\ UNCHANGED <<up, users, lastId, sessions, historyVars>>

\* The field of a PATCH, or the old value if it is left out.
Given(field, old) == IF field = None THEN old ELSE field

\* UpdateUser: the UPDATE, of an account that may be gone by now.
UpdateUser(r) ==
    LET q == req[r]  i == q.target IN
    /\ q.pc = "update"
    /\ IF i \notin Existing
       THEN Ends(r) /\ UNCHANGED <<users, clock, revoked>>
       ELSE /\ users' = [users EXCEPT ![i] =
                   [@ EXCEPT !.role = Given(q.role, users[i].role),
                             !.disabled = Given(q.disabled, users[i].disabled)]]
            /\ IF q.disabled = TRUE
               THEN /\ clock < MaxRevocations /\ clock' = clock + 1
                    /\ req' = [req EXCEPT ![r] = [@ EXCEPT !.pc = "revoke", !.role = None,
                                                           !.disabled = None, !.since = clock + 1]]
                    /\ UNCHANGED revoked
               ELSE /\ IF q.password
                       THEN /\ req' = [req EXCEPT ![r] = [@ EXCEPT !.pc = "password",
                                                  !.role = None, !.disabled = None]]
                            /\ UNCHANGED revoked
                       ELSE Succeeds(r)
                    /\ UNCHANGED clock
    /\ UNCHANGED <<up, lastId, sessions, created, overlap>>

\* handleSelfPassword: the current password is right, and the account enabled.
BeginSelfPassword(r) ==
    /\ req[r].pc = "handler" /\ req[r].actor # None
    /\ Enabled(req[r].actor.id)
    /\ req' = [req EXCEPT ![r] = [Idle EXCEPT !.pc = "password", !.target = req[r].actor.id]]
    /\ UNCHANGED <<up, users, lastId, sessions, historyVars>>

\* Mutant: the sessions are left alone.
ChangePasswordOnly(r) ==
    /\ req[r].pc = "password"
    /\ clock < MaxRevocations /\ clock' = clock + 1
    /\ Ends(r)
    /\ revoked' = IF req[r].target \in Existing
                  THEN [revoked EXCEPT ![req[r].target] = clock + 1] ELSE revoked
    /\ UNCHANGED <<up, users, lastId, sessions, created, overlap>>

\* ChangePassword: the UPDATE, of an account that may be gone by now.
ChangePassword(r) ==
    /\ req[r].pc = "password"
    /\ IF req[r].target \notin Existing THEN Ends(r) /\ UNCHANGED clock
       ELSE /\ clock < MaxRevocations /\ clock' = clock + 1
            /\ req' = [req EXCEPT ![r] = [@ EXCEPT !.pc = "revoke", !.password = FALSE,
                                                   !.since = clock + 1]]
    /\ UNCHANGED <<up, users, lastId, sessions, created, revoked, overlap>>

\* The sessions of a disabled account, or one with a new password, are deleted.
RevokeSessions(r) ==
    /\ req[r].pc = "revoke"
    /\ sessions' = [t \in Tokens |->
           IF sessions[t] # None /\ sessions[t].user = req[r].target THEN None
           ELSE sessions[t]]
    /\ IF req[r].password
       THEN req' = [req EXCEPT ![r].pc = "password"] /\ UNCHANGED revoked
       ELSE Succeeds(r)
    /\ UNCHANGED <<up, users, lastId, created, clock, overlap>>

\* A DELETE of account i.  The server's connections do not enable foreign keys:
\* the sessions stay.
DeleteUser(r, i) ==
    /\ req[r].pc = "handler" /\ IsAdmin(r) /\ i # req[r].actor.id
    /\ users' = [users EXCEPT ![i] = None]
    /\ Ends(r)
    /\ UNCHANGED <<up, lastId, sessions, historyVars>>

-----------------------------------------------------------------------------
Auth(r) ==
    \/ \E i \in Ids : Authenticate(r, i)
    \/ \E t \in Tokens : CreateSession(r, t) \/ DeleteSession(r, t)
    \/ CheckNoAccountMode(r) \/ LookupSession(r) \/ LoadUser(r)

Manage(r) ==
    \/ Return(r) \/ BeginCreate(r)
    \/ \E role \in Roles : CreateUser(r, role)
    \/ \E i \in Ids, role \in Roles \cup {None}, disabled \in BOOLEAN \cup {None},
          password \in BOOLEAN : BeginUpdate(r, i, role, disabled, password)
    \/ CountAdmins(r) \/ UpdateUser(r)
    \/ BeginSelfPassword(r) \/ ChangePassword(r) \/ RevokeSessions(r)
    \/ \E i \in Ids : DeleteUser(r, i)

Next ==
    \/ Boot \/ Stop
    \/ \E r \in Requests : Auth(r) \/ Manage(r) \/ Fail(r)

Spec == Init /\ [][Next]_vars

-----------------------------------------------------------------------------
(* Properties.                                                             *)

\* A session opens the account it was made for, and no other that is created
\* after that account was deleted, though the deletion leaves the session behind
\* and a login in progress may add another.
SessionsKeepTheirAccount ==
    \A t \in Tokens :
        LET s == sessions[t] IN
        s # None /\ s.user \in Existing => users[s.user].born = s.born

\* Once the disabling of an account or a change of its password is reported as
\* done, no session made before it is left, whatever logins, other changes,
\* errors and restarts came in between.
RevocationHolds ==
    \A t \in Tokens : sessions[t] # None => sessions[t].at >= revoked[sessions[t].user]

\* As long as no two requests are past RequireAuth at the same time, an enabled
\* administrator remains once there is one: by the guard of UpdateUser, or because
\* the one who deletes another remains.
SerialAdminRemains == [][Admins # {} /\ ~ overlap' => Admins' # {}]_vars

\* No change of an account leaves the server without an enabled administrator.
\* ("If this update demotes (role -> non-admin) or disables a currently-enabled
\* admin, and no other enabled admin remains, refuse", internal/auth/auth.go:310.)
UpdatesKeepAnAdmin == [][Admins # {} /\ Existing' = Existing => Admins' # {}]_vars
=============================================================================
