------------------------------- MODULE MlOAuth -------------------------------
(***************************************************************************)
(* The connection of one Mercado Livre account (MlOAuthService): the OAuth    *)
(* state and the exchange of the code, the refresh of the tokens by the        *)
(* token-refresh queue and by a request answered with 401, the disconnection.  *)
(*                                                                          *)
(* Each database statement is a transaction of its own and each request to     *)
(* the provider a step between two of them.  The provider honours the last     *)
(* refresh token it issued for the seller and no earlier one: a token is       *)
(* "live" or "dead", and issuing one kills all the others.  A session stands    *)
(* for its user and tenant, which it determines.                               *)
(***************************************************************************)
EXTENDS Naturals, FiniteSets

CONSTANTS
    State,          \* OAuth states that can be created
    Session,        \* sessions of administrators of the tenant
    Callback,       \* callbacks the API can serve
    Call,           \* API requests that meet a 401
    Attempts,       \* the attempts option of refresh-ml-token
    MaxFaults,      \* bound: requests that do not reach the provider, answers
                    \* of it that are lost and jobs the queue does not accept
    None

ASSUME OAuthAssumption ==
    /\ Attempts \in Nat \ {0}
    /\ MaxFaults \in Nat
    /\ IsFiniteSet(Callback) /\ IsFiniteSet(Call)
    /\ None \notin Session \cup State \cup {"live", "dead"}
    /\ "worker" \notin Call
    /\ Callback \cap (Call \cup {"worker"}) = {}

VARIABLES
    state,          \* the OAuthState rows: their session, consumedAt and age
    callback,       \* exchangeCode: where each callback is
    account,        \* the MarketplaceAccount row
    jobs,           \* jobs[n]: waiting refresh jobs with n attempts used
    proc,           \* refreshToken: where the worker and each 401 are
    used,           \* faults that have happened, by kind
    requests        \* ghost: exchanges asked of the provider, by callback

vars == <<state, callback, account, jobs, proc, used, requests>>

Proc   == Call \cup {"worker"}
Token  == {None, "live", "dead"}
NoRow  == [owner |-> None, consumed |-> FALSE, expired |-> FALSE]
Idle   == [pc |-> "idle", token |-> None, attempts |-> 0]
Unused == [pc |-> "unused", by |-> None, state |-> None, token |-> None]

Init ==
    /\ state = [t \in State |-> NoRow]
    /\ callback = [c \in Callback |-> Unused]
    /\ account = [status |-> "none", token |-> None, fresh |-> FALSE]
    /\ jobs = [n \in 1 .. Attempts |-> 0]
    /\ proc = [p \in Proc |-> Idle]
    /\ used = [fail |-> 0, lose |-> 0, outage |-> 0]
    /\ requests = {}

Spend(what) ==
    /\ used.fail + used.lose + used.outage < MaxFaults
    /\ used' = [used EXCEPT ![what] = @ + 1]

Killed(x) == IF x = "live" THEN "dead" ELSE x

\* The provider issues a token to one holder, who receives it ("answered") or
\* does not ("lost"): every other token issued for the seller is dead.
Issue(h, outcome) ==
    LET Held(x, new) == [x EXCEPT !.token = IF new THEN "live" ELSE Killed(@)]
        Got(x, me)   == IF me THEN [Held(x, outcome = "answered") EXCEPT !.pc = outcome]
                        ELSE Held(x, FALSE)
    IN  /\ account' = [account EXCEPT !.token = Killed(@)]
        /\ callback' = [c \in Callback |-> Got(callback[c], c = h)]
        /\ proc' = [p \in Proc |-> Got(proc[p], p = h)]

\* Mutant: a refresh schedules no further one.
ForgetsToSchedule == UNCHANGED <<jobs, used>>

\* schedule: the job is added, or the queue is unavailable and that is logged.
Schedule ==
    \/ jobs' = [jobs EXCEPT ![Attempts] = @ + 1] /\ UNCHANGED used
    \/ Spend("outage") /\ UNCHANGED jobs
-----------------------------------------------------------------------------
\* buildAuthorizationUrl.
BuildAuthorizationUrl(s, t) ==
    /\ state[t] = NoRow
    /\ state' = [state EXCEPT ![t].owner = s]
    /\ UNCHANGED <<callback, account, jobs, proc, used, requests>>

\* Ten minutes pass.
StateExpires(t) ==
    /\ state[t].owner # None /\ ~state[t].expired
    /\ state' = [state EXCEPT ![t].expired = TRUE]
    /\ UNCHANGED <<callback, account, jobs, proc, used, requests>>

Valid(t, s) == state[t].owner = s /\ ~state[t].consumed /\ ~state[t].expired

\* exchangeCode reads the state; a callback that is refused here leaves no trace.
ReadState(c, s, t) ==
    /\ callback[c] = Unused
    /\ Valid(t, s)
    /\ callback' = [callback EXCEPT ![c] =
                       [pc |-> "read", by |-> s, state |-> t, token |-> None]]
    /\ UNCHANGED <<state, account, jobs, proc, used, requests>>

\* Mutants of the conditional update of the state.
ConsumeByHash(c) ==
    LET t == callback[c].state
    IN  /\ callback[c].pc = "read"
        /\ state' = [state EXCEPT ![t].consumed = TRUE]
        /\ callback' = [callback EXCEPT ![c].pc = "consumed"]
        /\ requests' = requests \cup {[callback |-> c, state |-> t, by |-> callback[c].by,
                                       late |-> state[t].expired]}
        /\ UNCHANGED <<account, jobs, proc, used>>

\* The state is consumed and the code sent, unless the state was consumed or
\* expired, or was deleted, since it was read.
ConsumeState(c) ==
    LET t == callback[c].state
        s == callback[c].by
    IN  /\ callback[c].pc = "read"
        /\ IF Valid(t, s)
           THEN /\ state' = [state EXCEPT ![t].consumed = TRUE]
                /\ callback' = [callback EXCEPT ![c].pc = "consumed"]
                /\ requests' = requests \cup {[callback |-> c, state |-> t, by |-> s,
                                               late |-> FALSE]}
           ELSE /\ callback' = [callback EXCEPT ![c].pc = "failed"]
                /\ UNCHANGED <<state, requests>>
        /\ UNCHANGED <<account, jobs, proc, used>>

\* The provider answers with tokens; or the request, or its answer, is lost and
\* the user has to begin again.
ExchangeAnswered(c) ==
    /\ callback[c].pc = "consumed"
    /\ \/ Issue(c, "answered") /\ UNCHANGED used
       \/ Issue(c, "lost") /\ Spend("lose")
    /\ UNCHANGED <<state, jobs, requests>>

ExchangeFails(c) ==
    /\ \/ callback[c].pc = "consumed" /\ Spend("fail")
       \/ callback[c].pc = "lost" /\ UNCHANGED used
    /\ callback' = [callback EXCEPT ![c].pc = "failed"]
    /\ UNCHANGED <<state, account, jobs, proc, requests>>

\* The account is created or taken over, and its refresh scheduled.
StoreAccount(c) ==
    /\ callback[c].pc = "answered"
    /\ account' = [status |-> "ACTIVE", token |-> callback[c].token, fresh |-> TRUE]
    /\ callback' = [callback EXCEPT ![c].pc = "stored"]
    /\ Schedule
    /\ UNCHANGED <<state, proc, requests>>
-----------------------------------------------------------------------------
\* The access token expires.
TokenExpires ==
    /\ account.status = "ACTIVE" /\ account.fresh
    /\ account' = [account EXCEPT !.fresh = FALSE]
    /\ UNCHANGED <<state, callback, jobs, proc, used, requests>>

\* refreshToken throws: the queue tries again while attempts remain.
Throw(p, n) ==
    /\ proc' = [proc EXCEPT ![p] = [Idle EXCEPT !.pc = IF p = "worker" THEN "idle" ELSE "failed"]]
    /\ jobs' = IF n > 1 THEN [jobs EXCEPT ![n - 1] = @ + 1] ELSE jobs

\* Mutant: the job stays in the queue while it runs.
ReadsKeepingJob(n) ==
    /\ proc["worker"].pc = "idle"
    /\ jobs[n] > 0
    /\ account.status = "ACTIVE"
    /\ proc' = [proc EXCEPT !["worker"] =
                  [pc |-> "asked", token |-> account.token, attempts |-> n]]
    /\ UNCHANGED <<state, callback, account, jobs, used, requests>>

\* refreshToken reads an active account with a refresh token; otherwise it
\* throws.  The worker takes the job from the queue.
WorkerReads(n) ==
    LET taken == [jobs EXCEPT ![n] = @ - 1]
    IN  /\ proc["worker"].pc = "idle"
        /\ jobs[n] > 0
        /\ IF account.status = "ACTIVE"
           THEN /\ proc' = [proc EXCEPT !["worker"] =
                              [pc |-> "asked", token |-> account.token, attempts |-> n]]
                /\ jobs' = taken
           ELSE /\ jobs' = IF n > 1 THEN [taken EXCEPT ![n - 1] = @ + 1] ELSE taken
                /\ UNCHANGED proc
        /\ UNCHANGED <<state, callback, account, used, requests>>

\* requestForAccount is answered with 401.
CallUnauthorized(p) ==
    /\ proc[p] = Idle
    /\ account.status = "ACTIVE" /\ ~account.fresh
    /\ proc' = [proc EXCEPT ![p].pc = "unauthorized"]
    /\ UNCHANGED <<state, callback, account, jobs, used, requests>>

\* It refreshes, unless the account has been disconnected.
CallReads(p) ==
    /\ proc[p].pc = "unauthorized"
    /\ proc' = [proc EXCEPT ![p] =
                  IF account.status = "ACTIVE"
                  THEN [pc |-> "asked", token |-> account.token, attempts |-> 0]
                  ELSE [Idle EXCEPT !.pc = "failed"]]
    /\ UNCHANGED <<state, callback, account, jobs, used, requests>>

\* The provider exchanges a live token; its answer may be lost.
RefreshAnswered(p) ==
    /\ proc[p].pc = "asked" /\ proc[p].token = "live"
    /\ \/ Issue(p, "answered") /\ UNCHANGED used
       \/ Issue(p, "lost") /\ Spend("lose")
    /\ UNCHANGED <<state, jobs, requests>>

\* The provider refuses a dead token, or no answer came in time.
RefreshRefused(p) ==
    /\ \/ proc[p].pc = "asked" /\ proc[p].token = "dead"
       \/ proc[p].pc = "lost"
    /\ Throw(p, proc[p].attempts)
    /\ UNCHANGED <<state, callback, account, used, requests>>

\* The request does not reach the provider.
RefreshFails(p) ==
    /\ proc[p].pc = "asked"
    /\ Spend("fail")
    /\ Throw(p, proc[p].attempts)
    /\ UNCHANGED <<state, callback, account, requests>>

Done(p) == [Idle EXCEPT !.pc = IF p = "worker" THEN "idle" ELSE "done"]

\* Mutant: the tokens are stored whatever the status of the account.
StoresAnyway(p) ==
    /\ proc[p].pc = "answered"
    /\ account' = [account EXCEPT !.token = proc[p].token, !.fresh = TRUE]
    /\ proc' = [proc EXCEPT ![p] = Done(p)]
    /\ Schedule
    /\ UNCHANGED <<state, callback, requests>>

\* Mutant: only the access token is stored.
StoresAccessToken(p) ==
    /\ proc[p].pc = "answered"
    /\ account' = [account EXCEPT !.fresh = account.status = "ACTIVE"]
    /\ proc' = [proc EXCEPT ![p] = Done(p)]
    /\ Schedule
    /\ UNCHANGED <<state, callback, requests>>

\* The tokens are stored if the account is still active; the next refresh is
\* scheduled in any case.
StoreTokens(p) ==
    /\ proc[p].pc = "answered"
    /\ account' = IF account.status = "ACTIVE"
                  THEN [account EXCEPT !.token = proc[p].token, !.fresh = TRUE]
                  ELSE account
    /\ proc' = [proc EXCEPT ![p] = Done(p)]
    /\ Schedule
    /\ UNCHANGED <<state, callback, requests>>
-----------------------------------------------------------------------------
Disconnected == [status |-> "DISCONNECTED", token |-> None, fresh |-> FALSE]

\* IntegrationsService.disconnect.
Disconnect ==
    /\ account.status = "ACTIVE"
    /\ account' = Disconnected
    /\ UNCHANGED <<state, callback, jobs, proc, used, requests>>

\* clear-marketplace-credentials: one transaction.
ClearCredentials ==
    /\ account' = IF account.status = "none" THEN account ELSE Disconnected
    /\ state' = [t \in State |-> IF state[t] = NoRow THEN NoRow
                                 ELSE [state[t] EXCEPT !.owner = None, !.expired = TRUE]]
    /\ UNCHANGED <<callback, jobs, proc, used, requests>>

Refreshing(p) == RefreshAnswered(p) \/ RefreshRefused(p) \/ StoreTokens(p)
Exchanging(c) == ConsumeState(c) \/ ExchangeAnswered(c) \/ StoreAccount(c)

Next ==
    \/ \E t \in State : StateExpires(t) \/ \E s \in Session : BuildAuthorizationUrl(s, t)
    \/ \E c \in Callback :
          \/ \E s \in Session, t \in State : ReadState(c, s, t)
          \/ Exchanging(c)
          \/ ExchangeFails(c)
    \/ TokenExpires
    \/ \E n \in 1 .. Attempts : WorkerReads(n)
    \/ \E p \in Call : CallUnauthorized(p) \/ CallReads(p)
    \/ \E p \in Proc : Refreshing(p) \/ RefreshFails(p)
    \/ Disconnect
    \/ ClearCredentials

Spec == Init /\ [][Next]_vars

\* The worker takes its jobs, and what was asked of the provider or is being
\* stored gets on.
FairSpec ==
    /\ Spec
    /\ WF_vars(\E n \in 1 .. Attempts : WorkerReads(n))
    /\ \A p \in Proc : WF_vars(Refreshing(p))
    /\ \A p \in Call : WF_vars(CallReads(p))
    /\ \A c \in Callback : WF_vars(Exchanging(c))
-----------------------------------------------------------------------------
MaxJobs == Cardinality(Call) + Cardinality(Callback)

\* The types, and no more refresh jobs than callbacks and 401s have started.
TypeOK ==
    /\ state \in [State -> [owner : Session \cup {None}, consumed : BOOLEAN, expired : BOOLEAN]]
    /\ callback \in [Callback -> [pc : {"unused", "read", "consumed", "answered", "lost",
                                        "stored", "failed"},
                                  by : Session \cup {None}, state : State \cup {None},
                                  token : Token]]
    /\ account \in [status : {"none", "ACTIVE", "DISCONNECTED"}, token : Token, fresh : BOOLEAN]
    /\ jobs \in [1 .. Attempts -> 0 .. MaxJobs]
    /\ proc \in [Proc -> [pc : {"idle", "unauthorized", "asked", "answered", "lost",
                                "done", "failed"},
                          token : Token, attempts : 0 .. Attempts]]
    /\ used \in [{"fail", "lose", "outage"} -> 0 .. MaxFaults]
    /\ requests \in SUBSET [callback : Callback, state : State, by : Session, late : BOOLEAN]

\* A state serves one exchange of the session that created it, before it
\* expires, however many callbacks present it at once (exchangeCode).
OneExchange ==
    \A r \in requests :
        /\ \A q \in requests : r.state = q.state => r = q
        /\ state[r.state].owner \in {r.by, None}
        /\ ~r.late

\* A disconnected account holds no credentials, although a refresh that began
\* earlier may end later (refreshToken, disconnect).
DisconnectedIsEmpty == account.status = "DISCONNECTED" => account.token = None

Holding(x) == x.pc = "answered" /\ x.token = "live"

\* No answer of the provider has been lost and at most one exchange answered.
OneHolder ==
    /\ used.lose = 0
    /\ Cardinality({c \in Callback : callback[c].pc \in {"answered", "stored"}}) <= 1

\* Without lost answers and reconnections, an active account holds the live
\* refresh token unless somebody is about to store it: whoever loses the race
\* for the single-use token never overwrites what the winner stored
\* (refreshToken run by the worker and by requests answered with 401).
StoredIsLive ==
    OneHolder /\ account.status = "ACTIVE" =>
        \/ account.token = "live"
        \/ \E p \in Proc : Holding(proc[p])
        \/ \E c \in Callback : Holding(callback[c])

\* An active account is eventually refreshed after its token has expired: each
\* refresh schedules the next one, and a job is retried (schedule, attempts).
\* Not so when an answer was lost, the queue refused a job, or the account was
\* connected again.
KeptFresh ==
    account.status = "ACTIVE" /\ ~account.fresh
        ~> \/ account.fresh \/ account.status # "ACTIVE"
           \/ ~OneHolder \/ used.outage > 0
=============================================================================
