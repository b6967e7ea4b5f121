---------------------------- MODULE AuthSessions ----------------------------
(***************************************************************************)
(* Sessions of the API: login, the rotation of refresh tokens with reuse      *)
(* detection, logout (AuthService), and the administration of users that ends *)
(* sessions (UsersService).                                                   *)
(*                                                                          *)
(* PostgreSQL runs the transactions at READ COMMITTED, so that what a request *)
(* reads in one statement may be stale in the next; the row lock of an update  *)
(* makes the update and the commit one step.  A client presents any refresh    *)
(* token it ever received, in any order and more than once: tabs, retries and  *)
(* lost answers need no further action.  A request that is refused before it   *)
(* writes leaves no trace and is not a step.  Users belong to one tenant and    *)
(* are never deleted; no query reaches the rows of another tenant.             *)
(***************************************************************************)
EXTENDS Naturals, Sequences

CONSTANTS
    NULL,
    Users,
    Requests,       \* requests the API can have in flight
    MaxSessions,    \* bound: sessions created
    MaxTokens       \* bound: refresh tokens signed

ASSUME AuthAssumption ==
    /\ NULL \notin {"ADMIN", "MANAGER", "OPERATOR"}
    /\ MaxSessions \in Nat
    /\ MaxTokens \in Nat

VARIABLES
    role,           \* User.role (NULL: no such user yet)
    session,        \* the AuthSession rows, in order of creation
    signed,         \* the session each refresh token was signed for, in order
    delivered,      \* refresh tokens some client has received
    req,            \* the requests in flight: where each is and what it has read
    exchanges,      \* ghost: tokens exchanged for a new one, in commit order
    told            \* ghost: <<why, s>> once somebody was told that s is over

db   == <<role, session>>
vars == <<db, signed, delivered, req, exchanges, told>>

UserRole == {"ADMIN", "MANAGER", "OPERATOR"}
Sids     == 1 .. Len(session)
Tokens   == 1 .. Len(signed)
Fresh    == Len(signed) + 1

Idle == [pc |-> "idle", on |-> NULL, token |-> NULL, next |-> NULL]

Init ==
    /\ role \in [Users -> UserRole \union {NULL}]
    /\ session = <<>>
    /\ signed = <<>>
    /\ delivered = {}
    /\ req = [r \in Requests |-> Idle]
    /\ exchanges = <<>>
    /\ told = {}

\* A row that findFirst and the compare-and-swap still accept.
Live(s) == ~session[s].revoked /\ ~session[s].expired

Goto(r, l) == req' = [req EXCEPT ![r].pc = l]
Tell(why, ss) == told' = told \union {<<why, s>> : s \in ss}

\* The transaction and its context end, the request is answered.
Finish(r) == req' = [req EXCEPT ![r] = Idle]

\* The answer reaches the client, or is lost on its way.
Deliver(t) == delivered' \in {delivered, delivered \union {t}}
-----------------------------------------------------------------------------
\* validateUser and login.
Login(u) ==
    /\ role[u] # NULL
    /\ Len(session) < MaxSessions
    /\ Len(signed) < MaxTokens
    /\ session' = Append(session, [user |-> u, refreshHash |-> Fresh,
                                   revoked |-> FALSE, expired |-> FALSE])
    /\ signed' = Append(signed, Len(session) + 1)
    /\ Deliver(Fresh)
    /\ UNCHANGED <<role, req, exchanges, told>>

\* refreshTokens up to the compare-and-swap: the session is found, the next pair signed.
RefreshRead(r, t) ==
    /\ req[r].pc = "idle"
    /\ Live(signed[t])
    /\ Len(signed) < MaxTokens
    /\ signed' = Append(signed, signed[t])
    /\ req' = [req EXCEPT ![r] = [pc |-> "swap", on |-> signed[t], token |-> t, next |-> Fresh]]
    /\ UNCHANGED <<db, delivered, exchanges, told>>

\* Mutant: the swap does not compare the token.
SwapsAnyToken(r) == Live(req[r].on)

\* Mutant: the swap does not look at revokedAt.
SwapsRevoked(r) ==
    session[req[r].on].refreshHash = req[r].token /\ ~session[req[r].on].expired

\* The where clause of the compare-and-swap.
Swaps(r) == session[req[r].on].refreshHash = req[r].token /\ Live(req[r].on)

Rotate(r) ==
    /\ req[r].pc = "swap"
    /\ Swaps(r)
    /\ session' = [session EXCEPT ![req[r].on].refreshHash = req[r].next]
    /\ exchanges' = Append(exchanges, req[r].token)
    /\ Deliver(req[r].next)
    /\ Finish(r)
    /\ UNCHANGED <<role, signed, told>>

\* The swap changed no row: it holds no lock, other transactions go on.
SwapRefused(r) ==
    /\ req[r].pc = "swap"
    /\ ~Swaps(r)
    /\ Goto(r, "revoke")
    /\ UNCHANGED <<db, signed, delivered, exchanges, told>>

\* Mutant: the exception is thrown inside the transaction, which rolls back.
RevokeRolledBack(r) ==
    /\ req[r].pc = "revoke"
    /\ Tell("reuse", {req[r].on})
    /\ Finish(r)
    /\ UNCHANGED <<db, signed, delivered, exchanges>>

\* The revocation is committed before the caller is told of the reuse.
RevokeReused(r) ==
    /\ req[r].pc = "revoke"
    /\ session' = [session EXCEPT ![req[r].on].revoked = TRUE]
    /\ Tell("reuse", {req[r].on})
    /\ Finish(r)
    /\ UNCHANGED <<role, signed, delivered, exchanges>>

\* Mutant: logout ends the session only if the token is the stored one.
LogoutCurrent(t) ==
    /\ session' = [session EXCEPT ![signed[t]].revoked = @ \/ session[signed[t]].refreshHash = t]
    /\ Tell("logout", {signed[t]})
    /\ UNCHANGED <<role, signed, delivered, req, exchanges>>

\* logout: any verified token of the session ends it, rotated or not.  The exp of the
\* token is rounded to seconds and at least one second away, so that it may verify
\* just after expiresAt.
Logout(t) ==
    /\ session' = [session EXCEPT ![signed[t]].revoked = TRUE]
    /\ Tell("logout", {signed[t]})
    /\ UNCHANGED <<role, signed, delivered, req, exchanges>>
-----------------------------------------------------------------------------
\* validateAccess, first read: the session of an access token, which was delivered with
\* a refresh token of the same session.
AccessSession(r, s) ==
    /\ req[r].pc = "idle"
    /\ Live(s)
    /\ req' = [req EXCEPT ![r] = [Idle EXCEPT !.pc = "user", !.on = s]]
    /\ UNCHANGED <<db, signed, delivered, exchanges, told>>

\* The role of the user behind the request, read from the database.
IsAdmin(r) == role[session[req[r].on].user] = "ADMIN"

AdminCheck(r, from, to) ==
    /\ req[r].pc = from
    /\ IF IsAdmin(r) THEN Goto(r, to) ELSE Finish(r)
    /\ UNCHANGED <<db, signed, delivered, exchanges, told>>

\* validateAccess, second read, with AdminGuard on its result; then authorize.
AccessUser(r) == AdminCheck(r, "user", "authorize")
Authorize(r)  == AdminCheck(r, "authorize", "write")

\* UsersService.create
Create(r, u, new) ==
    /\ req[r].pc = "write"
    /\ role[u] = NULL
    /\ role' = [role EXCEPT ![u] = new]
    /\ Finish(r)
    /\ UNCHANGED <<session, signed, delivered, exchanges, told>>

SessionsOf(u) == {s \in Sids : session[s].user = u}

\* Mutant: a role change leaves the sessions alone.
UpdateRoleOnly(r, u, new) ==
    /\ req[r].pc = "write"
    /\ role[u] # NULL
    /\ role' = [role EXCEPT ![u] = new]
    /\ Tell("role", SessionsOf(u))
    /\ Finish(r)
    /\ UNCHANGED <<session, signed, delivered, exchanges>>

\* updateRole: the role changes and the user's sessions end in one transaction.
UpdateRole(r, u, new) ==
    /\ req[r].pc = "write"
    /\ role[u] # NULL
    /\ role' = [role EXCEPT ![u] = new]
    /\ session' = [s \in Sids |->
                      [session[s] EXCEPT !.revoked = @ \/ session[s].user = u]]
    /\ Tell("role", SessionsOf(u))
    /\ Finish(r)
    /\ UNCHANGED <<signed, delivered, exchanges>>
-----------------------------------------------------------------------------
\* The transaction times out or loses its connection, or the process dies: what it
\* has not committed is gone.
Abort(r) ==
    /\ req[r].pc # "idle"
    /\ Finish(r)
    /\ UNCHANGED <<db, signed, delivered, exchanges, told>>

\* Time reaches expiresAt.
Expire(s) ==
    /\ ~session[s].expired
    /\ session' = [session EXCEPT ![s].expired = TRUE]
    /\ UNCHANGED <<role, signed, delivered, req, exchanges, told>>

Step(r) ==
    \/ \E t \in delivered : RefreshRead(r, t) \/ AccessSession(r, signed[t])
    \/ Rotate(r)
    \/ SwapRefused(r)
    \/ RevokeReused(r)
    \/ AccessUser(r)
    \/ Authorize(r)
    \/ \E u \in Users, new \in UserRole : Create(r, u, new) \/ UpdateRole(r, u, new)
    \/ Abort(r)

Next ==
    \/ \E u \in Users : Login(u)
    \/ \E t \in delivered : Logout(t)
    \/ \E s \in Sids : Expire(s)
    \/ \E r \in Requests : Step(r)

Spec == Init /\ [][Next]_vars
-----------------------------------------------------------------------------
Session == [user : Users, refreshHash : Tokens, revoked : BOOLEAN, expired : BOOLEAN]

Request ==
    {Idle} \union
    [pc : {"swap", "revoke"}, on : Sids, token : Tokens, next : Tokens] \union
    [pc : {"user", "authorize", "write"}, on : Sids, token : {NULL}, next : {NULL}]

\* Type invariant of the rows, the tokens and the requests.
TypeOK ==
    /\ role \in [Users -> UserRole \union {NULL}]
    /\ session \in Seq(Session)
    /\ signed \in Seq(Sids)
    /\ delivered \subseteq Tokens
    /\ req \in [Requests -> Request]
    /\ exchanges \in Seq(Tokens)
    /\ told \subseteq {"reuse", "logout", "role"} \X Sids

Ended(why) == \A s \in Sids : <<why, s>> \in told => session[s].revoked

\* "Compare-and-swap makes refresh single use, including concurrent requests": no
\* refresh token is exchanged twice, whatever requests overlap, abort or repeat.
SingleUse == \A i, j \in 1 .. Len(exchanges) : exchanges[i] = exchanges[j] => i = j

\* A token that refreshTokens reported as reused has ended its session: the revocation
\* was not lost with the exception that reports it.
ReuseEndsSession == Ended("reuse")

\* After logout answered, the session is over, also when a refresh rotated the token
\* between the client's reading its cookie and the logout.
LogoutEndsSession == Ended("logout")

\* A role change has ended every session the user had, also one that was being
\* refreshed meanwhile.
RoleChangeEndsSessions == Ended("role")

\* A revoked session never comes back and its token is never rotated again: a refresh
\* that found it live before the revocation gets nothing.
RevokedIsFinal ==
    [][\A s \in Sids : session[s].revoked =>
          session'[s].revoked /\ session'[s].refreshHash = session[s].refreshHash]_vars

\* What the requests do to the sessions, seen as the abstract store.
Store == INSTANCE SessionStore WITH
    Token   <- 1 .. MaxTokens,
    current <- [s \in Sids |-> session[s].refreshHash],
    over    <- {s \in Sids : ~Live(s)},
    spent   <- {exchanges[i] : i \in 1 .. Len(exchanges)}

\* Overlapping, repeated and aborted requests together do no more than the abstract
\* store: tokens are exchanged one at a time, for a new one, in sessions that last.
ImplementsStore == Store!Spec
=============================================================================
