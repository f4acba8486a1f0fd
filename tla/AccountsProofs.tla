--------------------------- MODULE AccountsProofs ---------------------------
(* Theorems of Accounts. *)
EXTENDS Accounts, FiniteSetTheorems, TLAPS

(***************************************************************************)
(* Types, table by table, with what numbers the accounts: an id, an actor   *)
(* and a session are of the account that was created as that id's.          *)
(***************************************************************************)
UsersInv ==
    /\ users \in [Ids -> Account \cup {None}]
    /\ lastId \in 0..MaxUsers /\ created = lastId
    /\ Existing \subseteq 1..lastId
    /\ \A i \in Existing : users[i].born = i

SessionsInv ==
    /\ sessions \in [Tokens -> Session \cup {None}]
    /\ \A t \in Tokens : sessions[t] # None => sessions[t].born = sessions[t].user

Consistent(q) ==
    /\ q \in Request
    /\ q.actor # None => q.actor.born = q.actor.id
    /\ q.pc = "login" => q.actor # None

RequestsInv ==
    /\ req \in [Requests -> Request]
    /\ \A r \in Requests : Consistent(req[r])

RestInv ==
    /\ up \in BOOLEAN /\ overlap \in BOOLEAN
    /\ clock \in 0..MaxRevocations
    /\ revoked \in [Ids -> 0..MaxRevocations]

TypeInv == UsersInv /\ SessionsInv /\ RequestsInv /\ RestInv

LEMMA TypeInvTypes == TypeInv => TypeOK
  BY DEF TypeInv, UsersInv, SessionsInv, RequestsInv, RestInv, TypeOK

-----------------------------------------------------------------------------
(* Lemmas on the operators the actions are built from.                     *)

LEMMA IdleConsistent == Consistent(Idle) /\ Idle.actor = None /\ Idle.since = 0 /\ Idle.pc = "idle"
  BY AccountsConstants DEF Idle, Request, Steps, Consistent

\* One request's record replaced by a consistent one.
LEMMA RequestReplaced ==
    ASSUME RequestsInv, NEW r \in Requests, NEW new, Consistent(new),
           req' = [req EXCEPT ![r] = new]
    PROVE  RequestsInv'
  <1>1. new \in Request
    BY DEF Consistent
  <1>2. req' \in [Requests -> Request]
    BY <1>1 DEF RequestsInv
  <1>3. ASSUME NEW q \in Requests PROVE Consistent(req[q]')
    BY DEF RequestsInv
  <1>4. QED
    BY <1>2, <1>3 DEF RequestsInv

LEMMA RequestEnds ==
    ASSUME RequestsInv, NEW r \in Requests, Ends(r)
    PROVE  RequestsInv'
  BY IdleConsistent, RequestReplaced DEF Ends

\* The account InsertUser adds is the next in order.
LEMMA UserInserted ==
    ASSUME UsersInv, NEW role \in Roles, InsertUser(role)
    PROVE  UsersInv'
  <1> DEFINE new == [role |-> role, disabled |-> FALSE, born |-> created + 1]
  <1>1. lastId + 1 \in Ids /\ lastId \in Nat /\ created = lastId /\ lastId + 1 <= MaxUsers
    BY AccountsConstants DEF UsersInv, InsertUser, Ids
  <1>2. new \in Account /\ new.born = lastId + 1
    BY <1>1 DEF Account, Ids
  <1>3. users' = [users EXCEPT ![lastId + 1] = new] /\ users \in [Ids -> Account \cup {None}]
    BY DEF InsertUser, UsersInv
  <1> HIDE DEF new
  <1>4. users' \in [Ids -> Account \cup {None}]
    BY <1>1, <1>2, <1>3
  <1>5. lastId' = lastId + 1 /\ created' = created + 1
    BY DEF InsertUser
  <1>6. Existing' \subseteq Existing \cup {lastId + 1}
    BY <1>3 DEF Existing
  <1>7. Existing' \subseteq 1..lastId'
    BY <1>1, <1>5, <1>6 DEF UsersInv
  <1>8. ASSUME NEW i \in Existing' PROVE users'[i].born = i
    <2>1. CASE i = lastId + 1
      BY <2>1, <1>1, <1>2, <1>3
    <2>2. CASE i # lastId + 1
      BY <2>2, <1>3, <1>6 DEF UsersInv, Existing
    <2>3. QED
      BY <2>1, <2>2
  <1>9. QED
    BY <1>1, <1>4, <1>5, <1>7, <1>8 DEF UsersInv

\* Sessions that are deleted.
LEMMA SessionsDeleted ==
    ASSUME SessionsInv, sessions' \in [Tokens -> Session \cup {None}],
           \A t \in Tokens : sessions'[t] \in {sessions[t], None}
    PROVE  SessionsInv'
  BY DEF SessionsInv

\* A session as an actor of the account it is for.
LEMMA ActorOf ==
    ASSUME UsersInv, NEW i \in Ids, Enabled(i)
    PROVE  LET actor == [id |-> i, role |-> users[i].role, born |-> users[i].born]
           IN  actor \in Actor /\ actor # None /\ actor.born = actor.id
  <1>1. users[i] \in Account /\ users[i].born = i /\ i \in 1..MaxUsers
    BY DEF UsersInv, Enabled, Existing, Ids
  <1>2. users[i].role \in Roles
    BY <1>1 DEF Account
  <1> DEFINE actor == [id |-> i, role |-> users[i].role, born |-> users[i].born]
  <1>3. actor \in Actor /\ actor.born = actor.id
    BY <1>1, <1>2 DEF Actor
  <1>4. QED
    BY <1>3, AccountsConstants

LEMMA Admitted ==
    ASSUME TypeInv, NEW r \in Requests, NEW actor \in Actor \cup {None}, Admit(r, actor),
           actor # None => actor.born = actor.id
    PROVE  RequestsInv' /\ overlap' \in BOOLEAN
  <1> DEFINE new == [req[r] EXCEPT !.pc = "handler", !.actor = actor]
  <1>1. req[r] \in Request
    BY DEF TypeInv, RequestsInv
  <1>2. new \in Request /\ new.actor = actor /\ new.pc = "handler"
    BY <1>1 DEF Request, Steps
  <1>3. req' = [req EXCEPT ![r] = new]
    BY <1>1 DEF Admit, TypeInv, RequestsInv
  <1> HIDE DEF new
  <1>4. RequestsInv'
    BY <1>2, <1>3, RequestReplaced DEF TypeInv, Consistent
  <1>5. QED
    BY <1>4 DEF Admit, TypeInv, RestInv
-----------------------------------------------------------------------------
(* Every step preserves the types.                                         *)

LEMMA TypeInit == Init => TypeInv
  <1> SUFFICES ASSUME Init PROVE TypeInv
    OBVIOUS
  <1>1. UsersInv
    BY AccountsConstants DEF Init, UsersInv, Existing
  <1>2. SessionsInv
    BY DEF Init, SessionsInv
  <1>3. RequestsInv
    BY IdleConsistent DEF Init, RequestsInv, Consistent
  <1>4. RestInv
    <2>1. up \in BOOLEAN /\ overlap \in BOOLEAN
      BY DEF Init
    <2>2. clock \in 0..MaxRevocations /\ revoked \in [Ids -> 0..MaxRevocations]
      BY AccountsConstants DEF Init
    <2>3. QED
      BY <2>1, <2>2 DEF RestInv
  <1>5. QED
    BY <1>1, <1>2, <1>3, <1>4 DEF TypeInv

LEMMA TypeAuth ==
    ASSUME TypeInv, NEW r \in Requests, Auth(r)
    PROVE  TypeInv'
  <1>0. /\ UsersInv /\ SessionsInv /\ RequestsInv /\ RestInv
        /\ req[r] \in Request /\ Consistent(req[r])
    BY DEF TypeInv, RequestsInv
  <1>1. UsersInv'
    BY <1>0 DEF Auth, Authenticate, CreateSession, DeleteSession, CheckNoAccountMode,
        LookupSession, LoadUser, UsersInv, Existing, historyVars
  <1>2. ASSUME NEW i \in Ids, Authenticate(r, i) PROVE TypeInv'
    <2> DEFINE actor == [id |-> i, role |-> users[i].role, born |-> users[i].born]
               new == [Idle EXCEPT !.pc = "login", !.actor = actor]
    <2>1. actor \in Actor /\ actor # None /\ actor.born = actor.id
      BY <1>0, <1>2, ActorOf DEF Authenticate
    <2>2. req' = [req EXCEPT ![r] = new]
      BY <1>2 DEF Authenticate
    <2> HIDE DEF actor
    <2>3. Consistent(new)
      BY <2>1, IdleConsistent DEF Consistent, Request, Steps
    <2>4. RequestsInv'
      BY <1>0, <2>2, <2>3, RequestReplaced
    <2>5. QED
      BY <1>0, <1>1, <1>2, <2>4 DEF Authenticate, TypeInv, SessionsInv, RestInv, historyVars
  <1>3. ASSUME NEW t \in Tokens, CreateSession(r, t) PROVE TypeInv'
    <2> DEFINE new == [user |-> req[r].actor.id, born |-> req[r].actor.born, at |-> clock]
    <2>1. req[r].actor \in Actor /\ req[r].actor.born = req[r].actor.id
      BY <1>0, <1>3 DEF CreateSession, Consistent, Request
    <2>2. new \in Session /\ new.born = new.user
      BY <1>0, <2>1 DEF Session, Actor, RestInv
    <2>3. sessions' = [sessions EXCEPT ![t] = new]
      BY <1>3 DEF CreateSession
    <2> HIDE DEF new
    <2>4. SessionsInv'
      BY <1>0, <2>2, <2>3 DEF SessionsInv
    <2>5. RequestsInv'
      BY <1>0, <1>3, RequestEnds DEF CreateSession
    <2>6. QED
      BY <1>0, <1>1, <1>3, <2>4, <2>5 DEF CreateSession, TypeInv, RestInv, historyVars
  <1>4. ASSUME NEW t \in Tokens, DeleteSession(r, t) PROVE TypeInv'
    <2>1. SessionsInv'
      BY <1>0, <1>4, SessionsDeleted DEF DeleteSession, SessionsInv
    <2>2. RequestsInv'
      BY <1>0, <1>4, RequestEnds DEF DeleteSession
    <2>3. QED
      BY <1>0, <1>1, <1>4, <2>1, <2>2 DEF DeleteSession, TypeInv, RestInv, historyVars
  <1>5. ASSUME CheckNoAccountMode(r) PROVE TypeInv'
    <2>1. RequestsInv' /\ overlap' \in BOOLEAN
      <3>1. CASE NoAccountMode
        BY <1>5, <3>1, Admitted DEF CheckNoAccountMode
      <3>2. CASE ~ NoAccountMode
        <4> DEFINE new == [req[r] EXCEPT !.pc = "auth"]
        <4>1. req' = [req EXCEPT ![r] = new] /\ UNCHANGED overlap
          BY <1>0, <1>5, <3>2 DEF CheckNoAccountMode, RequestsInv
        <4>2. Consistent(new)
          BY <1>0 DEF Consistent, Request, Steps
        <4>3. QED
          BY <1>0, <4>1, <4>2, RequestReplaced DEF RestInv
      <3>3. QED
        BY <3>1, <3>2
    <2>2. QED
      BY <1>0, <1>1, <1>5, <2>1 DEF CheckNoAccountMode, TypeInv, SessionsInv, RestInv
  <1>6. ASSUME LookupSession(r) PROVE TypeInv'
    <2>1. RequestsInv' /\ SessionsInv'
      <3>1. ASSUME NEW t \in Tokens, sessions[t] # None, UNCHANGED sessions,
                   req' = [req EXCEPT ![r].pc = "user", ![r].token = t,
                                      ![r].target = sessions[t].user]
            PROVE  RequestsInv' /\ SessionsInv'
        <4> DEFINE new == [req[r] EXCEPT !.pc = "user", !.token = t,
                                         !.target = sessions[t].user]
        <4>1. req' = [req EXCEPT ![r] = new]
          BY <1>0, <3>1 DEF RequestsInv
        <4>2. sessions[t].user \in Ids
          BY <1>0, <3>1 DEF SessionsInv, Session
        <4>3. Consistent(new)
          BY <1>0, <4>2 DEF Consistent, Request, Steps
        <4>4. QED
          BY <1>0, <3>1, <4>1, <4>3, RequestReplaced DEF SessionsInv
      <3>2. ASSUME NEW t \in Tokens, sessions' = [sessions EXCEPT ![t] = None], Ends(r)
            PROVE  RequestsInv' /\ SessionsInv'
        BY <1>0, <3>2, RequestEnds, SessionsDeleted DEF SessionsInv
      <3>3. QED
        BY <1>6, <3>1, <3>2 DEF LookupSession
    <2>2. QED
      BY <1>0, <1>1, <1>6, <2>1 DEF LookupSession, TypeInv, RestInv, historyVars
  <1>7. ASSUME LoadUser(r) PROVE TypeInv'
    <2> DEFINE i == req[r].target
    <2>1. RequestsInv' /\ SessionsInv' /\ overlap' \in BOOLEAN
      <3>1. CASE Enabled(i)
        <4> DEFINE actor == [id |-> i, role |-> users[i].role, born |-> users[i].born]
        <4>1. Admit(r, actor) /\ UNCHANGED sessions
          BY <1>7, <3>1 DEF LoadUser
        <4>2. i \in Ids
          BY <3>1 DEF Enabled, Existing
        <4>3. actor \in Actor /\ actor.born = actor.id
          BY <1>0, <3>1, <4>2, ActorOf
        <4> HIDE DEF actor
        <4>4. QED
          BY <1>0, <4>1, <4>3, Admitted DEF SessionsInv
      <3>2. CASE ~ Enabled(i)
        <4>1. /\ Ends(r) /\ UNCHANGED overlap
              /\ sessions' = IF i \in Existing THEN [sessions EXCEPT ![req[r].token] = None]
                             ELSE sessions
          BY <1>7, <3>2 DEF LoadUser
        <4>2. SessionsInv'
          BY <1>0, <4>1, SessionsDeleted DEF SessionsInv
        <4>3. QED
          BY <1>0, <4>1, <4>2, RequestEnds DEF RestInv
      <3>3. QED
        BY <3>1, <3>2
    <2>2. QED
      BY <1>0, <1>1, <1>7, <2>1 DEF LoadUser, TypeInv, RestInv
  <1>8. QED
    BY <1>2, <1>3, <1>4, <1>5, <1>6, <1>7 DEF Auth

\* A request that ends in success.
LEMMA SuccessType ==
    ASSUME TypeInv, NEW r \in Requests, Succeeds(r)
    PROVE  RequestsInv' /\ revoked' \in [Ids -> 0..MaxRevocations]
  <1>1. RequestsInv'
    BY RequestEnds DEF Succeeds, TypeInv
  <1>2. req[r].since \in 0..MaxRevocations
    BY DEF TypeInv, RequestsInv, Request
  <1>3. QED
    BY <1>1, <1>2 DEF Succeeds, TypeInv, RestInv

LEMMA TypeManage ==
    ASSUME TypeInv, NEW r \in Requests, Manage(r)
    PROVE  TypeInv'
  <1>0. /\ UsersInv /\ SessionsInv /\ RequestsInv /\ RestInv
        /\ req[r] \in Request /\ Consistent(req[r])
    BY DEF TypeInv, RequestsInv
  <1>1. ASSUME Return(r) PROVE TypeInv'
    BY <1>0, <1>1, RequestEnds
    DEF Return, TypeInv, UsersInv, Existing, SessionsInv, RestInv, historyVars
  <1>2. ASSUME BeginCreate(r) PROVE TypeInv'
    <2> DEFINE new == [Idle EXCEPT !.pc = "insert"]
    <2>1. req' = [req EXCEPT ![r] = new]
      BY <1>2 DEF BeginCreate
    <2>2. Consistent(new)
      BY IdleConsistent DEF Consistent, Request, Steps
    <2>3. RequestsInv'
      BY <1>0, <2>1, <2>2, RequestReplaced
    <2>4. QED
      BY <1>0, <1>2, <2>3
      DEF BeginCreate, TypeInv, UsersInv, Existing, SessionsInv, RestInv, historyVars
  <1>3. ASSUME NEW role \in Roles, CreateUser(r, role) PROVE TypeInv'
    <2>1. UsersInv'
      BY <1>0, <1>3, UserInserted DEF CreateUser
    <2>2. RequestsInv'
      BY <1>0, <1>3, RequestEnds DEF CreateUser
    <2>3. QED
      BY <1>0, <1>3, <2>1, <2>2 DEF CreateUser, TypeInv, SessionsInv, RestInv
  <1>4. ASSUME NEW i \in Ids, NEW role \in Roles \cup {None},
               NEW disabled \in BOOLEAN \cup {None}, NEW password \in BOOLEAN,
               BeginUpdate(r, i, role, disabled, password)
        PROVE  TypeInv'
    <2>1. RequestsInv'
      <3>1. CASE i \notin Existing
        BY <1>0, <1>4, <3>1, RequestEnds DEF BeginUpdate
      <3>2. CASE i \in Existing
        <4>1. PICK next \in {"password", "count", "update"} :
                 req' = [req EXCEPT ![r] =
                     [Idle EXCEPT !.pc = next, !.target = i, !.role = role,
                                  !.disabled = disabled, !.password = password]]
          BY <1>4, <3>2 DEF BeginUpdate
        <4> DEFINE new == [Idle EXCEPT !.pc = next, !.target = i, !.role = role,
                                       !.disabled = disabled, !.password = password]
        <4>2. Idle \in Request
          BY IdleConsistent DEF Consistent
        <4>3. next \in Steps
          BY DEF Steps
        <4>4. new \in Request
          BY <4>2, <4>3 DEF Request
        <4>5. new.actor = None /\ new.pc # "login"
          BY <4>2, IdleConsistent DEF Request
        <4>6. Consistent(new)
          BY <4>4, <4>5, Zenon DEF Consistent
        <4>7. QED
          BY <1>0, <4>1, <4>6, RequestReplaced
      <3>3. QED
        BY <3>1, <3>2
    <2>2. QED
      BY <1>0, <1>4, <2>1
      DEF BeginUpdate, TypeInv, UsersInv, Existing, SessionsInv, RestInv, historyVars
  <1>5. ASSUME CountAdmins(r) PROVE TypeInv'
    <2> DEFINE new == [req[r] EXCEPT !.pc = "update"]
    <2>1. Ends(r) \/ req' = [req EXCEPT ![r] = new]
      BY <1>0, <1>5 DEF CountAdmins, RequestsInv
    <2>2. Consistent(new)
      BY <1>0 DEF Consistent, Request, Steps
    <2>3. RequestsInv'
      BY <1>0, <2>1, <2>2, RequestEnds, RequestReplaced
    <2>4. QED
      BY <1>0, <1>5, <2>3
      DEF CountAdmins, TypeInv, UsersInv, Existing, SessionsInv, RestInv, historyVars
  <1>6. ASSUME UpdateUser(r) PROVE TypeInv'
    <2> DEFINE i == req[r].target
    <2>1. CASE i \notin Existing
      BY <1>0, <1>6, <2>1, RequestEnds
      DEF UpdateUser, TypeInv, UsersInv, Existing, SessionsInv, RestInv
    <2>2. CASE i \in Existing
      <3> DEFINE row == [users[i] EXCEPT
                    !.role = Given(req[r].role, users[i].role),
                    !.disabled = Given(req[r].disabled, users[i].disabled)]
      <3>1. i \in Ids /\ users[i] \in Account /\ users[i].born = i
        BY <1>0, <2>2 DEF UsersInv, Existing
      <3>2. row \in Account /\ row.born = i
        <4>1. /\ req[r].role \in Roles \cup {None}
              /\ req[r].disabled \in BOOLEAN \cup {None}
          BY <1>0 DEF Request
        <4>2. /\ Given(req[r].role, users[i].role) \in Roles
              /\ Given(req[r].disabled, users[i].disabled) \in BOOLEAN
          BY <3>1, <4>1 DEF Account, Given
        <4>3. QED
          BY <3>1, <4>2 DEF Account
      <3>3. users' = [users EXCEPT ![i] = row]
        BY <1>6, <2>2 DEF UpdateUser
      <3> HIDE DEF row
      <3>4. UsersInv'
        <4>1. UNCHANGED <<lastId, created>>
          BY <1>6 DEF UpdateUser
        <4>2. users' \in [Ids -> Account \cup {None}] /\ Existing' \subseteq Existing
          BY <1>0, <2>2, <3>2, <3>3 DEF UsersInv, Existing
        <4>3. \A j \in Existing' : users'[j].born = j
          BY <1>0, <3>1, <3>2, <3>3, <4>2 DEF UsersInv, Existing
        <4>4. QED
          BY <1>0, <4>1, <4>2, <4>3 DEF UsersInv
      <3>5. /\ RequestsInv' /\ clock' \in 0..MaxRevocations
            /\ revoked' \in [Ids -> 0..MaxRevocations]
        <4>1. CASE req[r].disabled = TRUE
          <5> DEFINE new == [req[r] EXCEPT !.pc = "revoke", !.role = None,
                                           !.disabled = None, !.since = clock + 1]
          <5>1. /\ clock < MaxRevocations /\ clock' = clock + 1 /\ UNCHANGED revoked
                /\ req' = [req EXCEPT ![r] = new]
            BY <1>0, <1>6, <2>2, <4>1 DEF UpdateUser, RequestsInv
          <5>2. clock + 1 \in 0..MaxRevocations
            BY <1>0, <5>1, AccountsConstants DEF RestInv
          <5>3. Consistent(new)
            BY <1>0, <5>2 DEF Consistent, Request, Steps
          <5>4. QED
            BY <1>0, <5>1, <5>2, <5>3, RequestReplaced DEF RestInv
        <4>2. CASE req[r].disabled # TRUE /\ req[r].password
          <5> DEFINE new == [req[r] EXCEPT !.pc = "password", !.role = None,
                                           !.disabled = None]
          <5>1. UNCHANGED <<clock, revoked>> /\ req' = [req EXCEPT ![r] = new]
            BY <1>0, <1>6, <2>2, <4>2 DEF UpdateUser, RequestsInv
          <5>2. Consistent(new)
            BY <1>0 DEF Consistent, Request, Steps
          <5>3. QED
            BY <1>0, <5>1, <5>2, RequestReplaced DEF RestInv
        <4>3. CASE req[r].disabled # TRUE /\ ~ req[r].password
          BY <1>0, <1>6, <2>2, <4>3, SuccessType DEF UpdateUser, RestInv
        <4>4. QED
          BY <4>1, <4>2, <4>3
      <3>6. QED
        BY <1>0, <1>6, <3>4, <3>5 DEF UpdateUser, TypeInv, SessionsInv, RestInv
    <2>3. QED
      BY <2>1, <2>2
  <1>7. ASSUME BeginSelfPassword(r) PROVE TypeInv'
    <2> DEFINE new == [Idle EXCEPT !.pc = "password", !.target = req[r].actor.id]
    <2>1. req' = [req EXCEPT ![r] = new] /\ req[r].actor.id \in Ids
      BY <1>7 DEF BeginSelfPassword, Enabled, Existing
    <2>2. Consistent(new)
      BY <2>1, IdleConsistent DEF Consistent, Request, Steps
    <2>3. RequestsInv'
      BY <1>0, <2>1, <2>2, RequestReplaced
    <2>4. QED
      BY <1>0, <1>7, <2>3
      DEF BeginSelfPassword, TypeInv, UsersInv, Existing, SessionsInv, RestInv, historyVars
  <1>8. ASSUME ChangePassword(r) PROVE TypeInv'
    <2>1. RequestsInv' /\ clock' \in 0..MaxRevocations
      <3>1. CASE req[r].target \notin Existing
        BY <1>0, <1>8, <3>1, RequestEnds DEF ChangePassword, RestInv
      <3>2. CASE req[r].target \in Existing
        <4> DEFINE new == [req[r] EXCEPT !.pc = "revoke", !.password = FALSE,
                                         !.since = clock + 1]
        <4>1. /\ clock < MaxRevocations /\ clock' = clock + 1
              /\ req' = [req EXCEPT ![r] = new]
          BY <1>0, <1>8, <3>2 DEF ChangePassword, RequestsInv
        <4>2. clock + 1 \in 0..MaxRevocations
          BY <1>0, <4>1, AccountsConstants DEF RestInv
        <4>3. Consistent(new)
          BY <1>0, <4>2 DEF Consistent, Request, Steps
        <4>4. QED
          BY <1>0, <4>1, <4>2, <4>3, RequestReplaced
      <3>3. QED
        BY <3>1, <3>2
    <2>2. QED
      BY <1>0, <1>8, <2>1
      DEF ChangePassword, TypeInv, UsersInv, Existing, SessionsInv, RestInv
  <1>9. ASSUME RevokeSessions(r) PROVE TypeInv'
    <2>1. SessionsInv'
      BY <1>0, <1>9, SessionsDeleted DEF RevokeSessions, SessionsInv
    <2>2. RequestsInv' /\ revoked' \in [Ids -> 0..MaxRevocations]
      <3>1. CASE req[r].password
        <4> DEFINE new == [req[r] EXCEPT !.pc = "password"]
        <4>1. req' = [req EXCEPT ![r] = new] /\ UNCHANGED revoked
          BY <1>0, <1>9, <3>1 DEF RevokeSessions, RequestsInv
        <4>2. Consistent(new)
          BY <1>0 DEF Consistent, Request, Steps
        <4>3. QED
          BY <1>0, <4>1, <4>2, RequestReplaced DEF RestInv
      <3>2. CASE ~ req[r].password
        BY <1>9, <3>2, SuccessType DEF RevokeSessions
      <3>3. QED
        BY <3>1, <3>2
    <2>3. QED
      BY <1>0, <1>9, <2>1, <2>2
      DEF RevokeSessions, TypeInv, UsersInv, Existing, RestInv
  <1>10. ASSUME NEW i \in Ids, DeleteUser(r, i) PROVE TypeInv'
    <2>1. users' = [users EXCEPT ![i] = None] /\ UNCHANGED <<lastId, created>>
      BY <1>10 DEF DeleteUser, historyVars
    <2>2. UsersInv'
      BY <1>0, <2>1 DEF UsersInv, Existing
    <2>3. RequestsInv'
      BY <1>0, <1>10, RequestEnds DEF DeleteUser
    <2>4. QED
      BY <1>0, <1>10, <2>2, <2>3 DEF DeleteUser, TypeInv, SessionsInv, RestInv, historyVars
  <1>11. QED
    BY <1>1, <1>2, <1>3, <1>4, <1>5, <1>6, <1>7, <1>8, <1>9, <1>10 DEF Manage

LEMMA TypeStep == TypeInv /\ [Next]_vars => TypeInv'
  <1> SUFFICES ASSUME TypeInv, [Next]_vars PROVE TypeInv'
    OBVIOUS
  <1>0. UsersInv /\ SessionsInv /\ RequestsInv /\ RestInv
    BY DEF TypeInv
  <1>1. CASE Boot
    <2>1. UsersInv'
      BY <1>0, <1>1, UserInserted DEF Boot, Roles, UsersInv, Existing
    <2>2. up' \in BOOLEAN
      BY <1>1 DEF Boot
    <2>3. QED
      BY <1>0, <1>1, <2>1, <2>2 DEF Boot, TypeInv, SessionsInv, RequestsInv, RestInv
  <1>2. CASE Stop
    <2>1. up' \in BOOLEAN
      BY <1>2 DEF Stop
    <2>2. RequestsInv'
      BY <1>2, IdleConsistent DEF Stop, RequestsInv, Consistent
    <2>3. QED
      BY <1>0, <1>2, <2>1, <2>2
      DEF Stop, TypeInv, UsersInv, Existing, SessionsInv, RestInv, historyVars
  <1>3. ASSUME NEW r \in Requests, Fail(r) PROVE TypeInv'
    BY <1>0, <1>3, RequestEnds
    DEF Fail, TypeInv, UsersInv, Existing, SessionsInv, RestInv, historyVars
  <1>4. CASE UNCHANGED vars
    BY <1>0, <1>4
    DEF vars, historyVars, TypeInv, UsersInv, Existing, SessionsInv, RequestsInv, RestInv
  <1>5. QED
    BY <1>1, <1>2, <1>3, <1>4, TypeAuth, TypeManage DEF Next

\* The types, and with them the numbering of accounts and sessions, are right.
THEOREM AccountsTypes == Spec => []TypeOK
  BY TypeInit, TypeStep, TypeInvTypes, PTL DEF Spec

\* A session opens the account it was made for (internal/auth/auth.go): ids are
\* never given twice, so that what a deletion or a login in progress leaves
\* behind opens nothing.
THEOREM AccountsSessions == Spec => []SessionsKeepTheirAccount
  <1>1. TypeInv => SessionsKeepTheirAccount
    BY DEF TypeInv, UsersInv, SessionsInv, SessionsKeepTheirAccount
  <1>2. QED
    BY TypeInit, TypeStep, <1>1, PTL DEF Spec

-----------------------------------------------------------------------------
(* Revocation.                                                             *)

\* What a request has done is not later than now, and it has revoked sessions
\* only if it is in UpdateUser's or ChangePassword's last statements.
Since(q, now) ==
    /\ q.since <= now
    /\ q.pc \notin {"revoke", "password"} => q.since = 0

RevocationInv ==
    /\ \A i \in Ids : revoked[i] <= clock
    /\ \A r \in Requests : Since(req[r], clock)
    /\ RevocationHolds

LEMMA SinceReplaced ==
    ASSUME TypeInv, RevocationInv, clock' \in Nat, clock <= clock',
           NEW r \in Requests, NEW new, req' = [req EXCEPT ![r] = new], Since(new, clock')
    PROVE  \A q \in Requests : Since(req'[q], clock')
  <1> TAKE q \in Requests
  <1>1. /\ req[q].since \in 0..MaxRevocations /\ clock \in 0..MaxRevocations
        /\ Since(req[q], clock)
    BY DEF TypeInv, RequestsInv, RestInv, Request, RevocationInv
  <1>2. CASE q = r
    BY <1>2 DEF TypeInv, RequestsInv
  <1>3. CASE q # r
    <2>1. req'[q] = req[q]
      BY <1>3 DEF TypeInv, RequestsInv
    <2>2. QED
      BY <1>1, <2>1, AccountsConstants DEF Since
  <1>4. QED
    BY <1>2, <1>3

\* Sessions that are deleted, and time that passes, revoke nothing.
LEMMA RevocationQuiet ==
    ASSUME TypeInv, TypeInv', RevocationInv, clock <= clock', UNCHANGED revoked,
           \A t \in Tokens : sessions'[t] \in {sessions[t], None},
           \A q \in Requests : Since(req'[q], clock')
    PROVE  RevocationInv'
  <1>1. clock \in Nat /\ clock' \in Nat /\ \A i \in Ids : revoked[i] \in Nat
    BY AccountsConstants DEF TypeInv, RestInv
  <1>2. \A i \in Ids : revoked'[i] <= clock'
    BY <1>1 DEF RevocationInv
  <1>3. RevocationHolds'
    BY DEF RevocationInv, RevocationHolds
  <1>4. QED
    BY <1>2, <1>3 DEF RevocationInv

LEMMA IdleSince == \A now \in Nat : Since(Idle, now)
  BY DEF Idle, Since

LEMMA RevocationInit == Init => RevocationInv
  <1> SUFFICES ASSUME Init PROVE RevocationInv
    OBVIOUS
  <1>1. \A i \in Ids : revoked[i] <= clock
    BY DEF Init
  <1>2. \A r \in Requests : Since(req[r], clock)
    BY IdleSince DEF Init
  <1>3. RevocationHolds
    BY DEF Init, RevocationHolds
  <1>4. QED
    BY <1>1, <1>2, <1>3 DEF RevocationInv

LEMMA RevocationAuth ==
    ASSUME TypeInv, TypeInv', RevocationInv, NEW r \in Requests, Auth(r)
    PROVE  RevocationInv'
  <1>0. /\ clock \in Nat /\ clock <= clock /\ req[r] \in Request
        /\ req \in [Requests -> Request] /\ sessions \in [Tokens -> Session \cup {None}]
        /\ Since(req[r], clock) /\ Since(Idle, clock)
    BY IdleSince, AccountsConstants
    DEF TypeInv, RestInv, RequestsInv, SessionsInv, RevocationInv
  <1>1. UNCHANGED <<clock, revoked>>
    BY DEF Auth, Authenticate, CreateSession, DeleteSession, CheckNoAccountMode,
        LookupSession, LoadUser, historyVars
  <1>2. \A q \in Requests : Since(req'[q], clock')
    <2>1. PICK new : req' = [req EXCEPT ![r] = new] /\ Since(new, clock)
      <3>1. ASSUME NEW i \in Ids, Authenticate(r, i)
            PROVE  \E new : req' = [req EXCEPT ![r] = new] /\ Since(new, clock)
        <4> DEFINE new == [Idle EXCEPT !.pc = "login", !.actor =
                  [id |-> i, role |-> users[i].role, born |-> users[i].born]]
        <4>1. req' = [req EXCEPT ![r] = new]
          BY <3>1 DEF Authenticate
        <4>2. Since(new, clock)
          BY <1>0 DEF Idle, Since
        <4>3. QED
          BY <4>1, <4>2
      <3>2. ASSUME Ends(r)
            PROVE  \E new : req' = [req EXCEPT ![r] = new] /\ Since(new, clock)
        BY <1>0, <3>2 DEF Ends
      <3>3. ASSUME NEW actor, Admit(r, actor), req[r].pc \notin {"revoke", "password"}
            PROVE  \E new : req' = [req EXCEPT ![r] = new] /\ Since(new, clock)
        <4>1. req' = [req EXCEPT ![r] = [req[r] EXCEPT !.pc = "handler", !.actor = actor]]
          BY <1>0, <3>3 DEF Admit
        <4> DEFINE new == [req[r] EXCEPT !.pc = "handler", !.actor = actor]
        <4>2. Since(new, clock)
          BY <1>0, <3>3 DEF Since, Request
        <4>3. QED
          BY <4>1, <4>2
      <3>4. ASSUME CheckNoAccountMode(r), ~ NoAccountMode
            PROVE  \E new : req' = [req EXCEPT ![r] = new] /\ Since(new, clock)
        <4> DEFINE new == [req[r] EXCEPT !.pc = "auth"]
        <4>1. req' = [req EXCEPT ![r] = new]
          BY <1>0, <3>4 DEF CheckNoAccountMode
        <4>2. Since(new, clock)
          BY <1>0, <3>4 DEF Since, Request, CheckNoAccountMode
        <4>3. QED
          BY <4>1, <4>2
      <3>5. ASSUME LookupSession(r)
            PROVE  \E new : req' = [req EXCEPT ![r] = new] /\ Since(new, clock)
        <4>1. ASSUME NEW t \in Tokens,
                     req' = [req EXCEPT ![r].pc = "user", ![r].token = t,
                                        ![r].target = sessions[t].user]
              PROVE  \E new : req' = [req EXCEPT ![r] = new] /\ Since(new, clock)
          <5> DEFINE new == [req[r] EXCEPT !.pc = "user", !.token = t,
                                           !.target = sessions[t].user]
          <5>1. req' = [req EXCEPT ![r] = new]
            BY <1>0, <4>1
          <5>2. Since(new, clock)
            BY <1>0, <3>5 DEF Since, Request, LookupSession
          <5>3. QED
            BY <5>1, <5>2
        <4>2. QED
          BY <3>2, <3>5, <4>1 DEF LookupSession
      <3>6. ASSUME CheckNoAccountMode(r) \/ LoadUser(r)
            PROVE  \E new : req' = [req EXCEPT ![r] = new] /\ Since(new, clock)
        BY <3>2, <3>3, <3>4, <3>6 DEF CheckNoAccountMode, LoadUser
      <3>7. QED
        BY <3>1, <3>2, <3>5, <3>6 DEF Auth, CreateSession, DeleteSession
    <2>2. QED
      BY <1>0, <1>1, <2>1, SinceReplaced
  <1>3. ASSUME NEW t \in Tokens, CreateSession(r, t) PROVE RevocationInv'
    <2>1. sessions' = [sessions EXCEPT ![t] = [user |-> req[r].actor.id,
              born |-> req[r].actor.born, at |-> clock]]
      BY <1>3 DEF CreateSession
    <2>2. req[r].actor.id \in Ids
      BY <1>3 DEF TypeInv, RequestsInv, Consistent, CreateSession, Request, Actor
    <2>3. RevocationHolds'
      BY <1>0, <1>1, <2>1, <2>2 DEF RevocationInv, RevocationHolds
    <2>4. QED
      BY <1>1, <1>2, <2>3 DEF RevocationInv
  <1>4. CASE \A t \in Tokens : ~ CreateSession(r, t)
    <2>1. \A t \in Tokens : sessions'[t] \in {sessions[t], None}
      BY <1>0, <1>4 DEF Auth, Authenticate, DeleteSession, CheckNoAccountMode,
          LookupSession, LoadUser
    <2>2. QED
      BY <1>0, <1>1, <1>2, <2>1, RevocationQuiet
  <1>5. QED
    BY <1>3, <1>4

\* A request becomes one that has revoked nothing.
LEMMA SinceFresh ==
    ASSUME TypeInv, TypeInv', RevocationInv, NEW r \in Requests, NEW new,
           req' = [req EXCEPT ![r] = new], new.since = 0,
           UNCHANGED <<clock, revoked, sessions>>
    PROVE  RevocationInv'
  <1>1. clock \in Nat /\ clock <= clock
    BY AccountsConstants DEF TypeInv, RestInv
  <1>2. Since(new, clock)
    BY <1>1 DEF Since
  <1>3. \A q \in Requests : Since(req'[q], clock')
    BY <1>1, <1>2, SinceReplaced
  <1>4. QED
    BY <1>1, <1>3, RevocationQuiet

LEMMA SinceEnds ==
    ASSUME TypeInv, TypeInv', RevocationInv, NEW r \in Requests, Ends(r),
           UNCHANGED <<clock, revoked, sessions>>
    PROVE  RevocationInv'
  BY IdleConsistent, SinceFresh DEF Ends

LEMMA RevocationManage ==
    ASSUME TypeInv, TypeInv', RevocationInv, NEW r \in Requests, Manage(r)
    PROVE  RevocationInv'
  <1>0. /\ clock \in Nat /\ clock <= clock /\ req[r] \in Request
        /\ req \in [Requests -> Request] /\ sessions \in [Tokens -> Session \cup {None}]
        /\ Since(req[r], clock) /\ Since(Idle, clock) /\ req[r].since \in Nat
    BY IdleSince, AccountsConstants
    DEF TypeInv, RestInv, RequestsInv, SessionsInv, RevocationInv, Request
  <1>1. CASE Return(r)
    BY <1>1, SinceEnds DEF Return, historyVars
  <1>2. CASE BeginCreate(r)
    <2> DEFINE new == [Idle EXCEPT !.pc = "insert"]
    <2>1. req' = [req EXCEPT ![r] = new] /\ new.since = 0
      BY <1>2 DEF BeginCreate, Idle
    <2>2. QED
      BY <1>2, <2>1, SinceFresh DEF BeginCreate, historyVars
  <1>3. ASSUME NEW role \in Roles, CreateUser(r, role) PROVE RevocationInv'
    BY <1>3, SinceEnds DEF CreateUser
  <1>4. ASSUME NEW i \in Ids, NEW role \in Roles \cup {None},
               NEW disabled \in BOOLEAN \cup {None}, NEW password \in BOOLEAN,
               BeginUpdate(r, i, role, disabled, password)
        PROVE  RevocationInv'
    <2>1. UNCHANGED <<clock, revoked, sessions>>
      BY <1>4 DEF BeginUpdate, historyVars
    <2>2. CASE i \notin Existing
      BY <1>4, <2>1, <2>2, SinceEnds DEF BeginUpdate
    <2>3. CASE i \in Existing
      <3>1. PICK next :
               req' = [req EXCEPT ![r] =
                   [Idle EXCEPT !.pc = next, !.target = i, !.role = role,
                                !.disabled = disabled, !.password = password]]
        BY <1>4, <2>3 DEF BeginUpdate
      <3> DEFINE new == [Idle EXCEPT !.pc = next, !.target = i, !.role = role,
                                     !.disabled = disabled, !.password = password]
      <3>2. new.since = 0
        BY DEF Idle
      <3>3. QED
        BY <2>1, <3>1, <3>2, SinceFresh
    <2>4. QED
      BY <2>2, <2>3
  <1>5. CASE CountAdmins(r)
    <2> DEFINE new == [req[r] EXCEPT !.pc = "update"]
    <2>1. UNCHANGED <<clock, revoked, sessions>>
      BY <1>5 DEF CountAdmins, historyVars
    <2>2. Ends(r) \/ req' = [req EXCEPT ![r] = new]
      BY <1>0, <1>5 DEF CountAdmins
    <2>3. new.since = 0
      BY <1>0, <1>5 DEF CountAdmins, Since, Request
    <2>4. QED
      BY <2>1, <2>2, <2>3, SinceEnds, SinceFresh
  <1>6. CASE UpdateUser(r)
    <2>1. UNCHANGED sessions /\ req[r].since = 0
      BY <1>0, <1>6 DEF UpdateUser, Since
    <2>2. CASE req[r].target \notin Existing
      BY <1>6, <2>1, <2>2, SinceEnds DEF UpdateUser
    <2>3. CASE req[r].target \in Existing /\ req[r].disabled = TRUE
      <3> DEFINE new == [req[r] EXCEPT !.pc = "revoke", !.role = None,
                                       !.disabled = None, !.since = clock + 1]
      <3>1. clock' = clock + 1 /\ UNCHANGED revoked /\ req' = [req EXCEPT ![r] = new]
        BY <1>0, <1>6, <2>3 DEF UpdateUser
      <3>2. clock <= clock' /\ clock' \in Nat /\ Since(new, clock')
        BY <1>0, <3>1 DEF Since, Request
      <3>3. \A q \in Requests : Since(req'[q], clock')
        BY <3>1, <3>2, SinceReplaced
      <3>4. QED
        BY <2>1, <3>1, <3>2, <3>3, RevocationQuiet
    <2>4. CASE req[r].target \in Existing /\ req[r].disabled # TRUE /\ req[r].password
      <3> DEFINE new == [req[r] EXCEPT !.pc = "password", !.role = None, !.disabled = None]
      <3>1. UNCHANGED <<clock, revoked>> /\ req' = [req EXCEPT ![r] = new]
        BY <1>0, <1>6, <2>4 DEF UpdateUser
      <3>2. new.since = 0
        BY <1>0, <2>1 DEF Request
      <3>3. QED
        BY <2>1, <3>1, <3>2, SinceFresh
    <2>5. CASE req[r].target \in Existing /\ req[r].disabled # TRUE /\ ~ req[r].password
      <3>1. UNCHANGED clock /\ Succeeds(r)
        BY <1>6, <2>5 DEF UpdateUser
      <3>2. UNCHANGED revoked /\ Ends(r)
        BY <2>1, <3>1 DEF Succeeds
      <3>3. QED
        BY <2>1, <3>1, <3>2, SinceEnds
    <2>6. QED
      BY <2>2, <2>3, <2>4, <2>5
  <1>7. CASE BeginSelfPassword(r)
    <2> DEFINE new == [Idle EXCEPT !.pc = "password", !.target = req[r].actor.id]
    <2>1. req' = [req EXCEPT ![r] = new] /\ new.since = 0
      BY <1>7 DEF BeginSelfPassword, Idle
    <2>2. QED
      BY <1>7, <2>1, SinceFresh DEF BeginSelfPassword, historyVars
  <1>8. CASE ChangePassword(r)
    <2>1. UNCHANGED <<sessions, revoked>>
      BY <1>8 DEF ChangePassword
    <2>2. CASE req[r].target \notin Existing
      BY <1>8, <2>1, <2>2, SinceEnds DEF ChangePassword
    <2>3. CASE req[r].target \in Existing
      <3> DEFINE new == [req[r] EXCEPT !.pc = "revoke", !.password = FALSE,
                                       !.since = clock + 1]
      <3>1. clock' = clock + 1 /\ req' = [req EXCEPT ![r] = new]
        BY <1>0, <1>8, <2>3 DEF ChangePassword
      <3>2. clock <= clock' /\ clock' \in Nat /\ Since(new, clock')
        BY <1>0, <3>1 DEF Since, Request
      <3>3. \A q \in Requests : Since(req'[q], clock')
        BY <3>1, <3>2, SinceReplaced
      <3>4. QED
        BY <2>1, <3>1, <3>2, <3>3, RevocationQuiet
    <2>4. QED
      BY <2>2, <2>3
  <1>9. CASE RevokeSessions(r)
    <2>1. /\ sessions' = [t \in Tokens |->
               IF sessions[t] # None /\ sessions[t].user = req[r].target THEN None
               ELSE sessions[t]]
          /\ UNCHANGED clock
      BY <1>9 DEF RevokeSessions
    <2>2. CASE req[r].password
      <3> DEFINE new == [req[r] EXCEPT !.pc = "password"]
      <3>1. UNCHANGED revoked /\ req' = [req EXCEPT ![r] = new]
        BY <1>0, <1>9, <2>2 DEF RevokeSessions
      <3>2. Since(new, clock')
        BY <1>0, <2>1 DEF Since, Request
      <3>3. \A q \in Requests : Since(req'[q], clock')
        BY <1>0, <2>1, <3>1, <3>2, SinceReplaced
      <3>4. \A t \in Tokens : sessions'[t] \in {sessions[t], None}
        BY <2>1
      <3>5. QED
        BY <1>0, <2>1, <3>1, <3>3, <3>4, RevocationQuiet
    <2>3. CASE ~ req[r].password
      <3>1. /\ req' = [req EXCEPT ![r] = Idle]
            /\ revoked' = IF req[r].since > 0
                          THEN [revoked EXCEPT ![req[r].target] = req[r].since]
                          ELSE revoked
        BY <1>9, <2>3 DEF RevokeSessions, Succeeds, Ends
      <3>2. \A q \in Requests : Since(req'[q], clock')
        BY <1>0, <2>1, <3>1, SinceReplaced
      <3>3. /\ revoked \in [Ids -> 0..MaxRevocations]
            /\ \A i \in Ids : revoked[i] <= clock
            /\ req[r].since <= clock
        BY <1>0 DEF TypeInv, RestInv, RevocationInv, Since
      <3>4. \A i \in Ids : /\ revoked'[i] <= clock'
                           /\ i # req[r].target => revoked'[i] = revoked[i]
        BY <2>1, <3>1, <3>3
      <3>5. RevocationHolds'
        <4> SUFFICES ASSUME NEW t \in Tokens, sessions'[t] # None
                     PROVE  sessions'[t].at >= revoked'[sessions'[t].user]
          BY DEF RevocationHolds
        <4>1. /\ sessions'[t] = sessions[t] /\ sessions[t] # None
              /\ sessions[t].user # req[r].target
          BY <2>1
        <4>2. sessions[t].user \in Ids
          BY <1>0, <4>1 DEF Session
        <4>3. sessions[t].at >= revoked[sessions[t].user]
          BY <4>1 DEF RevocationInv, RevocationHolds
        <4>4. QED
          BY <3>4, <4>1, <4>2, <4>3
      <3>6. QED
        BY <3>2, <3>4, <3>5 DEF RevocationInv
    <2>4. QED
      BY <2>2, <2>3
  <1>10. ASSUME NEW i \in Ids, DeleteUser(r, i) PROVE RevocationInv'
    BY <1>10, SinceEnds DEF DeleteUser, historyVars
  <1>11. QED
    BY <1>1, <1>2, <1>3, <1>4, <1>5, <1>6, <1>7, <1>8, <1>9, <1>10 DEF Manage

LEMMA RevocationStep == TypeInv /\ RevocationInv /\ [Next]_vars => RevocationInv'
  <1> SUFFICES ASSUME TypeInv, RevocationInv, [Next]_vars PROVE RevocationInv'
    OBVIOUS
  <1>0. TypeInv'
    BY TypeStep
  <1>1. CASE Boot
    BY <1>1 DEF Boot, RevocationInv, RevocationHolds
  <1>2. CASE Stop
    <2>1. clock \in Nat
      BY AccountsConstants DEF TypeInv, RestInv
    <2>2. QED
      BY <1>2, <2>1, IdleSince DEF Stop, RevocationInv, RevocationHolds, historyVars
  <1>3. ASSUME NEW r \in Requests, Fail(r) PROVE RevocationInv'
    BY <1>0, <1>3, SinceEnds DEF Fail, historyVars
  <1>4. CASE UNCHANGED vars
    BY <1>4 DEF vars, historyVars, RevocationInv, RevocationHolds
  <1>5. QED
    BY <1>0, <1>1, <1>2, <1>3, <1>4, RevocationAuth, RevocationManage DEF Next

\* What a disabling or a password change that succeeded has revoked stays revoked
\* (UpdateUser, ChangePassword), for any number of requests.
THEOREM AccountsRevocation == Spec => []RevocationHolds
  <1>1. RevocationInv => RevocationHolds
    BY DEF RevocationInv
  <1>2. QED
    BY TypeInit, TypeStep, RevocationInit, RevocationStep, <1>1, PTL DEF Spec

-----------------------------------------------------------------------------
(* The last administrator, when requests do not overlap.                   *)

\* The request is past RequireAuth.
Past(q) == q.pc \notin {"idle", "login", "auth", "user"}

\* The actor of a request in its handler is an enabled administrator if he was
\* one when it was let through; and an UPDATE that takes this away from the
\* account comes only when there is another one.
Safe(q) ==
    /\ q.pc = "handler" /\ q.actor # None /\ q.actor.role = "admin"
          => q.actor.id \in Admins
    /\ q.pc = "update" /\ (q.role = "viewer" \/ q.disabled = TRUE) /\ q.target \in Admins
          => \E j \in Admins : j # q.target

AlonePast == \A r, q \in Requests : Past(req[r]) /\ Past(req[q]) => r = q

SerialInv ==
    /\ ~ up => \A r \in Requests : req[r].pc = "idle"
    /\ ~ overlap => AlonePast /\ \A r \in Requests : Safe(req[r])

AdminKept == Admins # {} /\ ~ overlap' => Admins' # {}

LEMMA SerialInit == Init => SerialInv
  BY IdleConsistent DEF Init, SerialInv, AlonePast, Past, Safe

\* A step of a request that is past RequireAuth, and so alone there, and that is
\* afterwards neither in its handler nor before the UPDATE of UpdateUser.
LEMMA SerialAlone ==
    ASSUME TypeInv, SerialInv, NEW r \in Requests, NEW new, Past(req[r]),
           req' = [req EXCEPT ![r] = new], new.pc \notin {"handler", "update"},
           UNCHANGED <<up, overlap>>
    PROVE  SerialInv'
  <1>1. /\ req'[r] = new /\ req \in [Requests -> Request]
        /\ \A q \in Requests : q # r => req'[q] = req[q]
    BY DEF TypeInv, RequestsInv
  <1>2. up
    BY DEF SerialInv, Past
  <1>3. ASSUME ~ overlap PROVE AlonePast' /\ \A q \in Requests : Safe(req[q])'
    <2>1. AlonePast
      BY <1>3 DEF SerialInv
    <2>2. AlonePast'
      BY <1>1, <2>1 DEF AlonePast, Past
    <2>3. \A q \in Requests : req'[q].pc \notin {"handler", "update"}
      BY <1>1, <2>1 DEF AlonePast, Past
    <2>4. QED
      BY <2>2, <2>3 DEF Safe
  <1>4. QED
    BY <1>2, <1>3 DEF SerialInv

\* A step of a request that is not past RequireAuth, and is not after it.
LEMMA SerialBefore ==
    ASSUME TypeInv, SerialInv, NEW r \in Requests, NEW new, ~ Past(new), up,
           req' = [req EXCEPT ![r] = new], UNCHANGED <<up, users, overlap>>
    PROVE  SerialInv'
  <1>1. /\ req'[r] = new /\ req \in [Requests -> Request]
        /\ \A q \in Requests : q # r => req'[q] = req[q]
    BY DEF TypeInv, RequestsInv
  <1>2. Admins' = Admins
    BY DEF Admins, Enabled, Existing
  <1>3. ASSUME ~ overlap PROVE AlonePast' /\ \A q \in Requests : Safe(req[q])'
    <2>1. AlonePast /\ \A q \in Requests : Safe(req[q])
      BY <1>3 DEF SerialInv
    <2>2. AlonePast'
      BY <1>1, <2>1 DEF AlonePast, Past
    <2>3. Safe(req[r])'
      BY <1>1 DEF Safe, Past
    <2>4. ASSUME NEW q \in Requests, q # r PROVE Safe(req[q])'
      BY <1>1, <1>2, <2>1, <2>4 DEF Safe
    <2>5. QED
      BY <2>2, <2>3, <2>4
  <1>4. QED
    BY <1>3 DEF SerialInv

\* A step of a request past RequireAuth that changes no account and is safe.
LEMMA SerialSafe ==
    ASSUME TypeInv, SerialInv, NEW r \in Requests, NEW new, Past(req[r]),
           ~ overlap => Safe(new),
           req' = [req EXCEPT ![r] = new], UNCHANGED <<up, users, overlap>>
    PROVE  SerialInv'
  <1>1. /\ req'[r] = new /\ req \in [Requests -> Request]
        /\ \A q \in Requests : q # r => req'[q] = req[q]
    BY DEF TypeInv, RequestsInv
  <1>2. Admins' = Admins /\ up
    BY DEF Admins, Enabled, Existing, SerialInv, Past
  <1>3. ASSUME ~ overlap PROVE AlonePast' /\ \A q \in Requests : Safe(req[q])'
    <2>1. AlonePast /\ \A q \in Requests : Safe(req[q])
      BY <1>3 DEF SerialInv
    <2>2. AlonePast'
      BY <1>1, <2>1 DEF AlonePast
    <2>3. ASSUME NEW q \in Requests PROVE Safe(req[q])'
      BY <1>1, <1>2, <1>3, <2>1 DEF Safe
    <2>4. QED
      BY <2>2, <2>3
  <1>4. QED
    BY <1>2, <1>3 DEF SerialInv

\* A request that ends, wherever it was.
LEMMA SerialEnds ==
    ASSUME TypeInv, SerialInv, NEW r \in Requests, Ends(r), req[r].pc # "idle",
           UNCHANGED <<up, overlap>>, Past(req[r]) \/ UNCHANGED users
    PROVE  SerialInv'
  <1>1. ~ Past(Idle) /\ Idle.pc \notin {"handler", "update"}
    BY IdleConsistent DEF Past
  <1>2. up
    BY DEF SerialInv
  <1>3. QED
    BY <1>1, <1>2, SerialAlone, SerialBefore DEF Ends

\* Letting a request through while another is past RequireAuth sets overlap.
LEMMA SerialAdmit ==
    ASSUME TypeInv, SerialInv, NEW r \in Requests, NEW actor, Admit(r, actor), up,
           actor # None /\ actor.role = "admin" => actor.id \in Admins,
           UNCHANGED <<up, users>>
    PROVE  SerialInv'
  <1> DEFINE new == [req[r] EXCEPT !.pc = "handler", !.actor = actor]
  <1>1. req \in [Requests -> Request] /\ req[r] \in Request
    BY DEF TypeInv, RequestsInv
  <1>2. req' = [req EXCEPT ![r] = new]
    BY <1>1 DEF Admit
  <1>3. new.pc = "handler" /\ new.actor = actor
    BY <1>1 DEF Request
  <1> HIDE DEF new
  <1>4. /\ req'[r] = new
        /\ \A q \in Requests : q # r => req'[q] = req[q]
    BY <1>1, <1>2
  <1>5. Admins' = Admins
    BY DEF Admins, Enabled, Existing
  <1>6. ASSUME ~ overlap' PROVE AlonePast' /\ \A q \in Requests : Safe(req[q])'
    <2>1. ~ overlap /\ \A q \in Requests : q # r => ~ Past(req[q])
      BY <1>6 DEF Admit, PastAuth, Past
    <2>2. \A q \in Requests : Safe(req[q])
      BY <2>1 DEF SerialInv
    <2>3. AlonePast'
      BY <1>4, <2>1 DEF AlonePast
    <2>4. Safe(req[r])'
      BY <1>3, <1>4, <1>5 DEF Safe
    <2>5. ASSUME NEW q \in Requests, q # r PROVE Safe(req[q])'
      BY <1>4, <1>5, <2>2, <2>5 DEF Safe
    <2>6. QED
      BY <2>3, <2>4, <2>5
  <1>7. QED
    BY <1>6 DEF SerialInv

LEMMA SerialAuth ==
    ASSUME TypeInv, SerialInv, NEW r \in Requests, Auth(r)
    PROVE  SerialInv' /\ AdminKept
  <1> USE DEF historyVars
  <1>1. req \in [Requests -> Request] /\ req[r] \in Request
    BY DEF TypeInv, RequestsInv
  <1>2. UNCHANGED users => AdminKept
    BY DEF AdminKept, Admins, Enabled, Existing
  <1>3. req[r].pc # "idle" => up
    BY DEF SerialInv
  <1>4. CASE \E i \in Ids : Authenticate(r, i)
    <2>1. PICK i \in Ids : Authenticate(r, i)
      BY <1>4
    <2> DEFINE new == [Idle EXCEPT !.pc = "login",
           !.actor = [id |-> i, role |-> users[i].role, born |-> users[i].born]]
    <2>2. new.pc = "login"
      BY DEF Idle
    <2>3. req' = [req EXCEPT ![r] = new] /\ up /\ UNCHANGED <<up, users, overlap>>
      BY <2>1 DEF Authenticate
    <2> HIDE DEF new
    <2>4. QED
      BY <1>2, <2>2, <2>3, SerialBefore DEF Past
  <1>5. CASE \E t \in Tokens : CreateSession(r, t) \/ DeleteSession(r, t)
    <2>1. Ends(r) /\ req[r].pc # "idle" /\ UNCHANGED <<up, users, overlap>>
      BY <1>5 DEF CreateSession, DeleteSession
    <2>2. QED
      BY <1>2, <2>1, SerialEnds
  <1>6. CASE CheckNoAccountMode(r)
    <2>1. UNCHANGED <<up, users>> /\ up
      BY <1>6 DEF CheckNoAccountMode
    <2>2. CASE NoAccountMode
      BY <1>2, <1>6, <2>1, <2>2, SerialAdmit DEF CheckNoAccountMode
    <2>3. CASE ~ NoAccountMode
      <3> DEFINE new == [req[r] EXCEPT !.pc = "auth"]
      <3>1. new.pc = "auth"
        BY <1>1 DEF Request
      <3>2. req' = [req EXCEPT ![r] = new] /\ UNCHANGED overlap
        BY <1>1, <1>6, <2>3 DEF CheckNoAccountMode
      <3> HIDE DEF new
      <3>3. QED
        BY <1>2, <2>1, <3>1, <3>2, SerialBefore DEF Past
    <2>4. QED
      BY <2>2, <2>3
  <1>7. CASE LookupSession(r)
    <2>1. UNCHANGED <<up, users, overlap>> /\ req[r].pc = "auth" /\ up
      BY <1>3, <1>7 DEF LookupSession
    <2>2. CASE Ends(r)
      BY <1>2, <2>1, <2>2, SerialEnds
    <2>3. CASE ~ Ends(r)
      <3>1. PICK t \in Tokens : req' = [req EXCEPT ![r].pc = "user", ![r].token = t,
                                                   ![r].target = sessions[t].user]
        BY <1>7, <2>3 DEF LookupSession
      <3> DEFINE new == [req[r] EXCEPT !.pc = "user", !.token = t, !.target = sessions[t].user]
      <3>2. new.pc = "user"
        BY <1>1 DEF Request
      <3>3. req' = [req EXCEPT ![r] = new]
        BY <1>1, <3>1
      <3> HIDE DEF new
      <3>4. QED
        BY <1>2, <2>1, <3>2, <3>3, SerialBefore DEF Past
    <2>4. QED
      BY <2>2, <2>3
  <1>8. CASE LoadUser(r)
    <2>1. UNCHANGED <<up, users>> /\ req[r].pc = "user" /\ up
      BY <1>3, <1>8 DEF LoadUser
    <2>2. CASE Enabled(req[r].target)
      <3> DEFINE i == req[r].target
                 actor == [id |-> i, role |-> users[i].role, born |-> users[i].born]
      <3>1. Admit(r, actor)
        BY <1>8, <2>2 DEF LoadUser
      <3>2. actor.role = "admin" => actor.id \in Admins
        BY <2>2 DEF Admins, Enabled, Existing
      <3> HIDE DEF actor
      <3>3. QED
        BY <1>2, <2>1, <3>1, <3>2, SerialAdmit
    <2>3. CASE ~ Enabled(req[r].target)
      <3>1. Ends(r) /\ UNCHANGED overlap
        BY <1>8, <2>3 DEF LoadUser
      <3>2. QED
        BY <1>2, <2>1, <3>1, SerialEnds
    <2>4. QED
      BY <2>2, <2>3
  <1>9. QED
    BY <1>4, <1>5, <1>6, <1>7, <1>8 DEF Auth

\* A count above one leaves an administrator other than i.
LEMMA AnotherAdmin ==
    ASSUME MaxUsers \in Nat, Cardinality(Admins) > 1, NEW i
    PROVE  \E j \in Admins : j # i
  <1>1. IsFiniteSet(Ids) /\ Admins \subseteq Ids
    BY FS_Interval DEF Ids, Admins
  <1>2. IsFiniteSet({i}) /\ Cardinality({i}) = 1
    BY FS_Singleton
  <1>3. SUFFICES ASSUME Admins \subseteq {i} PROVE FALSE
    OBVIOUS
  <1>4. Cardinality(Admins) <= 1
    BY <1>2, <1>3, FS_Subset
  <1>5. Cardinality(Admins) \in Nat
    BY <1>1, FS_Subset, FS_CardinalityType
  <1>6. QED
    BY <1>4, <1>5

\* An account that is added takes no administrator away.
LEMMA InsertKeepsAdmins ==
    ASSUME TypeInv, NEW role, InsertUser(role)
    PROVE  Admins \subseteq Admins'
  <1>1. users[lastId + 1] = None \/ lastId + 1 \notin Ids
    BY AccountsConstants DEF TypeInv, UsersInv, Existing, Ids
  <1>2. \A i \in Ids : users[i] # None => users'[i] = users[i]
    BY <1>1 DEF InsertUser, TypeInv, UsersInv
  <1>3. QED
    BY <1>2 DEF Admins, Enabled, Existing

LEMMA SerialBeginUpdate ==
    ASSUME TypeInv, SerialInv, NEW r \in Requests, NEW i \in Ids,
           NEW role \in Roles \cup {None}, NEW disabled \in BOOLEAN \cup {None},
           NEW password \in BOOLEAN, BeginUpdate(r, i, role, disabled, password)
    PROVE  SerialInv' /\ AdminKept
  <1>1. req[r].pc = "handler" /\ UNCHANGED <<up, users, overlap>>
    BY DEF BeginUpdate, historyVars
  <1>2. Past(req[r]) /\ AdminKept
    BY <1>1 DEF Past, AdminKept, Admins, Enabled, Existing
  <1>3. CASE Ends(r)
    BY <1>1, <1>2, <1>3, SerialEnds
  <1>4. CASE ~ Ends(r)
    <2> DEFINE losing == role = "viewer" \/ disabled = TRUE
               next == IF role = None /\ disabled = None THEN "password"
                       ELSE IF losing /\ i \in Admins THEN "count"
                       ELSE "update"
               new == [Idle EXCEPT !.pc = next, !.target = i, !.role = role,
                                   !.disabled = disabled, !.password = password]
    <2>1. req' = [req EXCEPT ![r] = new]
      BY <1>4 DEF BeginUpdate
    <2>2. new.pc = next /\ new.target = i /\ new.role = role /\ new.disabled = disabled
      BY DEF Idle
    <2>3. next # "handler" /\ (next = "update" => ~ (losing /\ i \in Admins))
      OBVIOUS
    <2> HIDE DEF new, next
    <2>4. Safe(new)
      BY <2>2, <2>3 DEF Safe
    <2>5. SerialInv'
      BY <1>1, <1>2, <2>1, <2>4, SerialSafe
    <2>6. QED
      BY <1>2, <2>5
  <1>5. QED
    BY <1>3, <1>4

LEMMA SerialCountAdmins ==
    ASSUME TypeInv, SerialInv, NEW r \in Requests, CountAdmins(r)
    PROVE  SerialInv' /\ AdminKept
  <1>1. /\ req[r].pc = "count" /\ UNCHANGED <<up, users, overlap>>
        /\ req \in [Requests -> Request] /\ req[r] \in Request
    BY DEF CountAdmins, historyVars, TypeInv, RequestsInv
  <1>2. Past(req[r]) /\ AdminKept
    BY <1>1 DEF Past, AdminKept, Admins, Enabled, Existing
  <1>3. CASE Cardinality(Admins) <= 1
    BY <1>1, <1>2, <1>3, SerialEnds DEF CountAdmins
  <1>4. CASE ~ (Cardinality(Admins) <= 1)
    <2> DEFINE new == [req[r] EXCEPT !.pc = "update"]
    <2>1. req' = [req EXCEPT ![r] = new]
      BY <1>1, <1>4 DEF CountAdmins
    <2>2. new.pc = "update" /\ new.target = req[r].target
      BY <1>1 DEF Request
    <2> HIDE DEF new
    <2>3. Cardinality(Admins) > 1
      <3>1. IsFiniteSet(Ids) /\ Admins \subseteq Ids
        BY AccountsConstants, FS_Interval DEF Ids, Admins
      <3>2. Cardinality(Admins) \in Nat
        BY <3>1, FS_Subset, FS_CardinalityType
      <3>3. QED
        BY <1>4, <3>2
    <2>4. \E j \in Admins : j # new.target
      BY <2>3, AnotherAdmin, AccountsConstants
    <2>5. Safe(new)
      BY <2>2, <2>4 DEF Safe
    <2>6. SerialInv'
      BY <1>1, <1>2, <2>1, <2>5, SerialSafe
    <2>7. QED
      BY <1>2, <2>6
  <1>5. QED
    BY <1>3, <1>4

\* The UPDATE takes an administrator away only if another remains.
LEMMA SerialUpdateUser ==
    ASSUME TypeInv, SerialInv, NEW r \in Requests, UpdateUser(r)
    PROVE  SerialInv' /\ AdminKept
  <1> DEFINE q == req[r]
             i == q.target
  <1>1. /\ q.pc = "update" /\ UNCHANGED <<up, overlap>>
        /\ req \in [Requests -> Request] /\ q \in Request
        /\ users \in [Ids -> Account \cup {None}]
    BY DEF UpdateUser, TypeInv, RequestsInv, UsersInv
  <1>2. Past(q)
    BY <1>1 DEF Past
  <1>3. CASE i \notin Existing
    <2>1. Ends(r) /\ UNCHANGED users
      BY <1>3 DEF UpdateUser
    <2>2. AdminKept
      BY <2>1 DEF AdminKept, Admins, Enabled, Existing
    <2>3. QED
      BY <1>1, <1>2, <2>1, <2>2, SerialEnds
  <1>4. CASE i \in Existing
    <2>1. SerialInv'
      <3>1. CASE Ends(r)
        BY <1>1, <1>2, <3>1, SerialEnds
      <3>2. CASE ~ Ends(r)
        <4>1. \/ req' = [req EXCEPT ![r] = [req[r] EXCEPT !.pc = "revoke", !.role = None,
                                                !.disabled = None, !.since = clock + 1]]
              \/ req' = [req EXCEPT ![r] = [req[r] EXCEPT !.pc = "password",
                                                !.role = None, !.disabled = None]]
          BY <1>1, <1>4, <3>2 DEF UpdateUser, Succeeds
        <4> DEFINE new1 == [req[r] EXCEPT !.pc = "revoke", !.role = None,
                                          !.disabled = None, !.since = clock + 1]
                   new2 == [req[r] EXCEPT !.pc = "password",
                                          !.role = None, !.disabled = None]
        <4>2. new1.pc = "revoke" /\ new2.pc = "password"
          BY <1>1 DEF Request
        <4>3. req' = [req EXCEPT ![r] = new1] \/ req' = [req EXCEPT ![r] = new2]
          BY <4>1
        <4> HIDE DEF new1, new2
        <4>4. QED
          BY <1>1, <1>2, <4>2, <4>3, SerialAlone
      <3>3. QED
        BY <3>1, <3>2
    <2>2. AdminKept
      <3>1. SUFFICES ASSUME Admins # {}, ~ overlap PROVE Admins' # {}
        BY <1>1 DEF AdminKept
      <3> DEFINE new == [users[i] EXCEPT !.role = Given(q.role, users[i].role),
                                         !.disabled = Given(q.disabled, users[i].disabled)]
      <3>2. users' = [users EXCEPT ![i] = new]
        BY <1>1, <1>4 DEF UpdateUser, Existing
      <3>3. i \in Ids /\ users[i] \in Account
        BY <1>1, <1>4 DEF Existing
      <3>4. /\ new \in Account
            /\ new.role = Given(q.role, users[i].role)
            /\ new.disabled = Given(q.disabled, users[i].disabled)
        BY <1>1, <3>3 DEF Account, Request, Given
      <3> HIDE DEF new
      <3>5. \A j \in Admins : j # i => j \in Admins'
        BY <1>1, <3>2 DEF Admins, Enabled, Existing
      <3>6. CASE i \notin Admins
        BY <3>1, <3>5, <3>6
      <3>7. CASE i \in Admins /\ (q.role = "viewer" \/ q.disabled = TRUE)
        BY <1>1, <3>1, <3>5, <3>7 DEF SerialInv, Safe
      <3>8. CASE i \in Admins /\ ~ (q.role = "viewer" \/ q.disabled = TRUE)
        <4>1. new.role = "admin"
          BY <1>1, <3>4, <3>8 DEF Request, Roles, Given, Admins
        <4>2. ~ new.disabled
          <5>1. q.disabled = None \/ q.disabled = FALSE
            BY <1>1, <3>8 DEF Request
          <5>2. ~ users[i].disabled
            BY <3>8 DEF Admins, Enabled
          <5>3. QED
            BY <3>4, <5>1, <5>2 DEF Given
        <4>3. i \in Admins'
          BY <1>1, <3>2, <3>3, <3>4, <4>1, <4>2, AccountsConstants
          DEF Admins, Enabled, Existing
        <4>4. QED
          BY <4>3
      <3>9. QED
        BY <3>6, <3>7, <3>8
    <2>3. QED
      BY <2>1, <2>2
  <1>5. QED
    BY <1>3, <1>4

LEMMA SerialManage ==
    ASSUME TypeInv, SerialInv, NEW r \in Requests, Manage(r)
    PROVE  SerialInv' /\ AdminKept
  <1>1. /\ req \in [Requests -> Request] /\ req[r] \in Request
        /\ users \in [Ids -> Account \cup {None}]
    BY DEF TypeInv, RequestsInv, UsersInv
  <1>2. UNCHANGED users => AdminKept
    BY DEF AdminKept, Admins, Enabled, Existing
  <1>3. CASE Return(r)
    <2>1. /\ Ends(r) /\ req[r].pc # "idle" /\ UNCHANGED <<up, users, overlap>>
      BY <1>3 DEF Return, historyVars
    <2>2. QED
      BY <1>2, <2>1, SerialEnds
  <1>4. CASE BeginCreate(r)
    <2> DEFINE new == [Idle EXCEPT !.pc = "insert"]
    <2>1. new.pc = "insert"
      BY DEF Idle
    <2>2. /\ req' = [req EXCEPT ![r] = new] /\ req[r].pc = "handler"
          /\ UNCHANGED <<up, users, overlap>>
      BY <1>4 DEF BeginCreate, historyVars
    <2> HIDE DEF new
    <2>3. QED
      BY <1>2, <2>1, <2>2, SerialAlone DEF Past
  <1>5. CASE \E role \in Roles : CreateUser(r, role)
    <2>1. PICK role \in Roles : CreateUser(r, role)
      BY <1>5
    <2>2. /\ Ends(r) /\ req[r].pc = "insert" /\ InsertUser(role)
          /\ UNCHANGED <<up, overlap>>
      BY <2>1 DEF CreateUser
    <2>3. AdminKept
      BY <2>2, InsertKeepsAdmins DEF AdminKept
    <2>4. QED
      BY <2>2, <2>3, SerialEnds DEF Past
  <1>6. CASE \E i \in Ids, role \in Roles \cup {None}, disabled \in BOOLEAN \cup {None},
               password \in BOOLEAN : BeginUpdate(r, i, role, disabled, password)
    BY <1>6, SerialBeginUpdate
  <1>7. CASE CountAdmins(r)
    BY <1>7, SerialCountAdmins
  <1>8. CASE UpdateUser(r)
    BY <1>8, SerialUpdateUser
  <1>9. CASE BeginSelfPassword(r)
    <2> DEFINE new == [Idle EXCEPT !.pc = "password", !.target = req[r].actor.id]
    <2>1. new.pc = "password"
      BY DEF Idle
    <2>2. /\ req' = [req EXCEPT ![r] = new] /\ req[r].pc = "handler"
          /\ UNCHANGED <<up, users, overlap>>
      BY <1>9 DEF BeginSelfPassword, historyVars
    <2> HIDE DEF new
    <2>3. QED
      BY <1>2, <2>1, <2>2, SerialAlone DEF Past
  <1>10. CASE ChangePassword(r)
    <2>1. /\ req[r].pc = "password" /\ UNCHANGED <<up, users, overlap>>
      BY <1>10 DEF ChangePassword
    <2>2. CASE Ends(r)
      BY <1>2, <2>1, <2>2, SerialEnds
    <2>3. CASE ~ Ends(r)
      <3> DEFINE new == [req[r] EXCEPT !.pc = "revoke", !.password = FALSE,
                                       !.since = clock + 1]
      <3>1. new.pc = "revoke"
        BY <1>1 DEF Request
      <3>2. req' = [req EXCEPT ![r] = new]
        BY <1>1, <1>10, <2>3 DEF ChangePassword
      <3> HIDE DEF new
      <3>3. QED
        BY <1>2, <2>1, <3>1, <3>2, SerialAlone DEF Past
    <2>4. QED
      BY <2>2, <2>3
  <1>11. CASE RevokeSessions(r)
    <2>1. /\ req[r].pc = "revoke" /\ UNCHANGED <<up, users, overlap>>
      BY <1>11 DEF RevokeSessions
    <2>2. CASE Ends(r)
      BY <1>2, <2>1, <2>2, SerialEnds
    <2>3. CASE ~ Ends(r)
      <3> DEFINE new == [req[r] EXCEPT !.pc = "password"]
      <3>1. new.pc = "password"
        BY <1>1 DEF Request
      <3>2. req' = [req EXCEPT ![r] = new]
        BY <1>1, <1>11, <2>3 DEF RevokeSessions, Succeeds
      <3> HIDE DEF new
      <3>3. QED
        BY <1>2, <2>1, <3>1, <3>2, SerialAlone DEF Past
    <2>4. QED
      BY <2>2, <2>3
  <1>12. CASE \E i \in Ids : DeleteUser(r, i)
    <2>1. PICK i \in Ids : DeleteUser(r, i)
      BY <1>12
    <2>2. /\ Ends(r) /\ req[r].pc = "handler" /\ UNCHANGED <<up, overlap>>
          /\ users' = [users EXCEPT ![i] = None]
          /\ req[r].actor # None /\ req[r].actor.role = "admin" /\ req[r].actor.id # i
      BY <2>1 DEF DeleteUser, IsAdmin, historyVars
    <2>3. ~ overlap => req[r].actor.id \in Admins
      BY <2>2 DEF SerialInv, Safe
    <2>4. \A j \in Admins : j # i => j \in Admins'
      BY <1>1, <2>2 DEF Admins, Enabled, Existing
    <2>5. AdminKept
      BY <2>2, <2>3, <2>4 DEF AdminKept
    <2>6. QED
      BY <2>2, <2>5, SerialEnds DEF Past
  <1>13. QED
    BY <1>3, <1>4, <1>5, <1>6, <1>7, <1>8, <1>9, <1>10, <1>11, <1>12 DEF Manage

LEMMA SerialStep == TypeInv /\ SerialInv /\ [Next]_vars => SerialInv' /\ AdminKept
  <1> SUFFICES ASSUME TypeInv, SerialInv, [Next]_vars PROVE SerialInv' /\ AdminKept
    OBVIOUS
  <1>1. UNCHANGED users => AdminKept
    BY DEF AdminKept, Admins, Enabled, Existing
  <1>2. CASE Boot
    <2>1. ~ up /\ UNCHANGED <<req, overlap>> /\ up' = TRUE
      BY <1>2 DEF Boot
    <2>2. \A r \in Requests : req'[r].pc = "idle"
      BY <2>1 DEF SerialInv
    <2>3. SerialInv'
      BY <2>1, <2>2 DEF SerialInv, AlonePast, Past, Safe
    <2>4. AdminKept
      BY <1>1, <1>2, InsertKeepsAdmins DEF Boot, AdminKept
    <2>5. QED
      BY <2>3, <2>4
  <1>3. CASE Stop
    <2>1. UNCHANGED <<users, overlap>> /\ req' = [r \in Requests |-> Idle]
      BY <1>3 DEF Stop, historyVars
    <2>2. \A r \in Requests : req'[r].pc = "idle"
      BY <2>1 DEF Idle
    <2>3. SerialInv'
      BY <2>2 DEF SerialInv, AlonePast, Past, Safe
    <2>4. QED
      BY <1>1, <2>1, <2>3
  <1>4. ASSUME NEW r \in Requests, Auth(r) PROVE SerialInv' /\ AdminKept
    BY <1>4, SerialAuth
  <1>5. ASSUME NEW r \in Requests, Manage(r) PROVE SerialInv' /\ AdminKept
    BY <1>5, SerialManage
  <1>6. ASSUME NEW r \in Requests, Fail(r) PROVE SerialInv' /\ AdminKept
    <2>1. Ends(r) /\ req[r].pc # "idle" /\ UNCHANGED <<up, users, overlap>>
      BY <1>6 DEF Fail, historyVars
    <2>2. QED
      BY <1>1, <2>1, SerialEnds
  <1>7. CASE UNCHANGED vars
    <2>1. UNCHANGED <<up, users, req, overlap>>
      BY <1>7 DEF vars, historyVars
    <2>2. QED
      BY <1>1, <2>1 DEF SerialInv, AlonePast, Safe, Admins, Enabled, Existing
  <1>8. QED
    BY <1>2, <1>3, <1>4, <1>5, <1>6, <1>7 DEF Next

\* As long as requests do not overlap past RequireAuth, an administrator remains
\* (UpdateUser, handleUser), for any number of accounts.
THEOREM AccountsSerialAdmin == Spec => SerialAdminRemains
  <1>1. TypeInv /\ SerialInv /\ [Next]_vars => [Admins # {} /\ ~ overlap' => Admins' # {}]_vars
    BY SerialStep DEF AdminKept
  <1>2. QED
    BY TypeInit, TypeStep, SerialInit, SerialStep, <1>1, PTL DEF Spec, SerialAdminRemains
=============================================================================
