---------------------------- MODULE MlOAuthProofs ----------------------------
(***************************************************************************)
(* Proofs about the connection of an account, for any number of states,       *)
(* sessions, callbacks and requests answered with 401.                        *)
(***************************************************************************)
EXTENDS MlOAuth, FiniteSetTheorems, TLAPS

\* What the provers may take for a step.
USE SMTT(30), ZenonT(30)

CallbackPlace == {"unused", "read", "consumed", "answered", "lost", "stored", "failed"}
ProcPlace     == {"idle", "unauthorized", "asked", "answered", "lost", "done", "failed"}
StateRow      == [owner : Session \cup {None}, consumed : BOOLEAN, expired : BOOLEAN]
CallbackRow   == [pc : CallbackPlace, by : Session \cup {None}, state : State \cup {None},
                  token : Token]
ProcRow       == [pc : ProcPlace, token : Token, attempts : 0 .. Attempts]
AccountRow    == [status : {"none", "ACTIVE", "DISCONNECTED"}, token : Token, fresh : BOOLEAN]

\* TypeOK without the bound on the number of jobs.
Types ==
    /\ state \in [State -> StateRow]
    /\ callback \in [Callback -> CallbackRow]
    /\ account \in AccountRow
    /\ jobs \in [1 .. Attempts -> Nat]
    /\ proc \in [Proc -> ProcRow]
    /\ used \in [fail : Nat, lose : Nat, outage : Nat]
    /\ requests \in SUBSET [callback : Callback, state : State, by : Session, late : BOOLEAN]

\* A callback past its read knows its state and session; an exchange has consumed the
\* state it was made with.
ExchangeInv ==
    /\ \A c \in Callback : callback[c].pc = "read" =>
           callback[c].by \in Session /\ callback[c].state \in State
    /\ \A r \in requests : state[r.state].consumed
    /\ OneExchange

Exchanged == {c \in Callback : callback[c].pc \in {"answered", "stored"}}

\* OneHolder without the count.
Lone ==
    /\ used.lose = 0
    /\ \A c, d \in Exchanged : c = d

\* Whoever was issued the last token holds the only live one.
OnlyLive(h) ==
    /\ account.token # "live"
    /\ \A c \in Callback \ {h} : callback[c].pc # "answered"
    /\ \A p \in Proc \ {h} : proc[p].token # "live" /\ proc[p].pc # "answered"

\* The account exists once a callback stored it, refreshes come after that, and an
\* answer that has not been stored yet holds the only live token.
LiveInv ==
    /\ account.status # "none" => \E c \in Callback : callback[c].pc = "stored"
    /\ \A p \in Proc : proc[p].pc \in {"asked", "answered"} => account.status # "none"
    /\ Lone =>
         /\ \A c \in Callback : callback[c].pc = "answered" =>
                callback[c].token = "live" /\ OnlyLive(c)
         /\ \A p \in Proc : proc[p].pc = "answered" =>
                proc[p].token = "live" /\ OnlyLive(p)
         /\ account.status = "ACTIVE" =>
                \/ account.token = "live"
                \/ \E p \in Proc : proc[p].pc = "answered"
                \/ \E c \in Callback : callback[c].pc = "answered"

OAuthInv == Types /\ ExchangeInv /\ DisconnectedIsEmpty /\ LiveInv
-----------------------------------------------------------------------------
\* The operators.

\* No token, no session and no state is none of them.
LEMMA NoneApart == None # "live" /\ None # "dead" /\ None \notin Session /\ None \notin State
BY Zenon, OAuthAssumption

\* A token that a new one replaced is dead.
LEMMA KilledFacts ==
    ASSUME NEW x \in Token
    PROVE  Killed(x) \in Token /\ Killed(x) # "live" /\ (x = None => Killed(x) = None)
BY Zenon, NoneApart DEF Killed, Token

\* What the provider's answer changes: one holder has, or has lost, the only live token.
LEMMA IssueFacts ==
    ASSUME Types, NEW h \in Callback \cup Proc, NEW outcome \in {"answered", "lost"},
           Issue(h, outcome)
    PROVE  /\ account' \in AccountRow /\ callback' \in [Callback -> CallbackRow]
           /\ proc' \in [Proc -> ProcRow]
           /\ account'.status = account.status /\ account'.token = Killed(account.token)
           /\ \A c \in Callback :
                /\ callback'[c].by = callback[c].by /\ callback'[c].state = callback[c].state
                /\ callback'[c].pc = IF c = h THEN outcome ELSE callback[c].pc
                /\ callback'[c].token = IF c = h /\ outcome = "answered" THEN "live"
                                        ELSE Killed(callback[c].token)
           /\ \A p \in Proc :
                /\ proc'[p].attempts = proc[p].attempts
                /\ proc'[p].pc = IF p = h THEN outcome ELSE proc[p].pc
                /\ proc'[p].token = IF p = h /\ outcome = "answered" THEN "live"
                                    ELSE Killed(proc[p].token)
<1>1. account \in AccountRow /\ Killed(account.token) \in Token
  BY Zenon, KilledFacts DEF Types, AccountRow
<1>2. account' = [account EXCEPT !.token = Killed(account.token)]
  BY Zenon DEF Issue
<1>3. /\ account' \in AccountRow
      /\ account'.status = account.status /\ account'.token = Killed(account.token)
  BY Zenon, <1>1, <1>2 DEF AccountRow
<1>4. ASSUME NEW c \in Callback
      PROVE  /\ callback'[c] \in CallbackRow
             /\ callback'[c].by = callback[c].by /\ callback'[c].state = callback[c].state
             /\ callback'[c].pc = IF c = h THEN outcome ELSE callback[c].pc
             /\ callback'[c].token = IF c = h /\ outcome = "answered" THEN "live"
                                     ELSE Killed(callback[c].token)
  <2> DEFINE x == callback[c]
             t == IF c = h /\ outcome = "answered" THEN "live" ELSE Killed(x.token)
             q == IF c = h THEN outcome ELSE x.pc
  <2>1. x \in CallbackRow
    BY Zenon DEF Types
  <2>2. t \in Token /\ q \in CallbackPlace
    BY Zenon, <2>1, KilledFacts DEF CallbackRow, Token, CallbackPlace
  <2>3. callback'[c] = IF c = h THEN [[x EXCEPT !.token = t] EXCEPT !.pc = q]
                                ELSE [x EXCEPT !.token = t]
    BY Zenon DEF Issue
  <2> HIDE DEF x, t
  <2> QED
    BY Zenon, <2>1, <2>2, <2>3 DEF CallbackRow, x, t
<1>5. ASSUME NEW p \in Proc
      PROVE  /\ proc'[p] \in ProcRow /\ proc'[p].attempts = proc[p].attempts
             /\ proc'[p].pc = IF p = h THEN outcome ELSE proc[p].pc
             /\ proc'[p].token = IF p = h /\ outcome = "answered" THEN "live"
                                 ELSE Killed(proc[p].token)
  <2> DEFINE x == proc[p]
             t == IF p = h /\ outcome = "answered" THEN "live" ELSE Killed(x.token)
             q == IF p = h THEN outcome ELSE x.pc
  <2>1. x \in ProcRow
    BY Zenon DEF Types
  <2>2. t \in Token /\ q \in ProcPlace
    BY Zenon, <2>1, KilledFacts DEF ProcRow, Token, ProcPlace
  <2>3. proc'[p] = IF p = h THEN [[x EXCEPT !.token = t] EXCEPT !.pc = q]
                            ELSE [x EXCEPT !.token = t]
    BY Zenon DEF Issue
  <2> HIDE DEF x, t
  <2> QED
    BY Zenon, <2>1, <2>2, <2>3 DEF ProcRow, x, t
<1>6. callback' \in [Callback -> CallbackRow] /\ proc' \in [Proc -> ProcRow]
  <2>1. DOMAIN callback' = Callback /\ DOMAIN proc' = Proc
    BY Zenon DEF Issue
  <2>2. /\ callback' = [c \in Callback |-> callback'[c]]
        /\ proc' = [p \in Proc |-> proc'[p]]
    BY Zenon DEF Issue
  <2> QED
    BY Zenon, <1>4, <1>5, <2>2
<1> QED
  BY Zenon, <1>3, <1>4, <1>5, <1>6

\* A failure is counted, and only a lost answer counts as one.
LEMMA SpendFacts ==
    ASSUME Types, NEW what \in {"fail", "lose", "outage"}, Spend(what)
    PROVE  /\ used' \in [fail : Nat, lose : Nat, outage : Nat]
           /\ used'.lose = IF what = "lose" THEN used.lose + 1 ELSE used.lose
BY DEF Types, Spend

\* A refresh job is queued, or the queue is out.
LEMMA ScheduleFacts ==
    ASSUME Types, Schedule
    PROVE  /\ used' \in [fail : Nat, lose : Nat, outage : Nat] /\ used'.lose = used.lose
           /\ jobs' \in [1 .. Attempts -> Nat]
<1>1. CASE UNCHANGED used
  BY <1>1, OAuthAssumption DEF Types, Schedule, Spend
<1>2. CASE Spend("outage") /\ UNCHANGED jobs
  BY Zenon, <1>2, SpendFacts DEF Types
<1> QED
  BY Zenon, <1>1, <1>2 DEF Schedule
-----------------------------------------------------------------------------
\* Types and credentials.

\* A failed job is tried again or given up; both keep the types.
LEMMA ThrowTypes ==
    ASSUME Types, NEW p \in Proc, Throw(p, proc[p].attempts)
    PROVE  proc' \in [Proc -> ProcRow] /\ jobs' \in [1 .. Attempts -> Nat]
<1>1. proc[p].attempts \in 0 .. Attempts
  BY Zenon DEF Types, ProcRow
<1>2. [Idle EXCEPT !.pc = IF p = "worker" THEN "idle" ELSE "failed"] \in ProcRow
  BY OAuthAssumption DEF Idle, ProcRow, ProcPlace, Token
<1>3. proc' \in [Proc -> ProcRow]
  BY Zenon, <1>2 DEF Types, Throw
<1>4. jobs' \in [1 .. Attempts -> Nat]
  <2>1. jobs \in [1 .. Attempts -> Nat]
    BY Zenon DEF Types
  <2> DEFINE n == proc[p].attempts
  <2>2. jobs' = IF n > 1 THEN [jobs EXCEPT ![n - 1] = @ + 1] ELSE jobs
    BY Zenon DEF Throw
  <2>3. ASSUME n > 1 PROVE n - 1 \in 1 .. Attempts
    BY <1>1, <2>3, OAuthAssumption
  <2>4. \A i \in 1 .. Attempts : jobs[i] + 1 \in Nat
    BY <2>1
  <2> QED
    BY Zenon, <2>1, <2>2, <2>3, <2>4
<1> QED
  BY Zenon, <1>3, <1>4

\* handleCallback keeps the types, and an account that is disconnected stays empty.
LEMMA TypesExchange ==
    ASSUME Types, ExchangeInv, DisconnectedIsEmpty, NEW c \in Callback,
           (\E s \in Session, t \in State : ReadState(c, s, t)) \/ Exchanging(c) \/ ExchangeFails(c)
    PROVE  Types' /\ DisconnectedIsEmpty'
<1>1. ASSUME NEW s \in Session, NEW t \in State, ReadState(c, s, t)
      PROVE  Types' /\ DisconnectedIsEmpty'
  <2>1. [pc |-> "read", by |-> s, state |-> t, token |-> None] \in CallbackRow
    BY Zenon DEF CallbackRow, CallbackPlace, Token
  <2> QED
    BY Zenon, <1>1, <2>1 DEF Types, DisconnectedIsEmpty, ReadState
<1>2. CASE ConsumeState(c)
  <2>1. callback[c].by \in Session /\ callback[c].state \in State
    BY Zenon, <1>2 DEF ConsumeState, ExchangeInv
  <2>2. state' \in [State -> StateRow]
    <3>1. UNCHANGED state \/ state' = [state EXCEPT ![callback[c].state].consumed = TRUE]
      BY Zenon, <1>2 DEF ConsumeState
    <3>2. state \in [State -> StateRow] /\ state[callback[c].state] \in StateRow
      BY Zenon, <2>1 DEF Types
    <3>3. [state[callback[c].state] EXCEPT !.consumed = TRUE] \in StateRow
      BY Zenon, <3>2 DEF StateRow
    <3> QED
      BY Zenon, <2>1, <3>1, <3>2, <3>3
  <2>3. callback' \in [Callback -> CallbackRow]
    BY <1>2 DEF ConsumeState, Types, CallbackRow, CallbackPlace
  <2>4. requests' \in SUBSET [callback : Callback, state : State, by : Session, late : BOOLEAN]
    <3> DEFINE r == [callback |-> c, state |-> callback[c].state, by |-> callback[c].by,
                     late |-> FALSE]
    <3>1. UNCHANGED requests \/ requests' = requests \cup {r}
      BY Zenon, <1>2 DEF ConsumeState
    <3>2. r \in [callback : Callback, state : State, by : Session, late : BOOLEAN]
      BY Zenon, <2>1
    <3> HIDE DEF r
    <3> QED
      BY Zenon, <3>1, <3>2 DEF Types
  <2> QED
    BY Zenon, <1>2, <2>2, <2>3, <2>4 DEF ConsumeState, Types, DisconnectedIsEmpty
<1>3. CASE ExchangeAnswered(c)
  <2>1. PICK outcome \in {"answered", "lost"} :
          Issue(c, outcome) /\ (UNCHANGED used \/ Spend("lose"))
    BY Zenon, <1>3 DEF ExchangeAnswered
  <2>2. used' \in [fail : Nat, lose : Nat, outage : Nat]
    BY Zenon, <2>1, SpendFacts DEF Types
  <2>3. account.token \in Token
    BY Zenon DEF Types, AccountRow
  <2> QED
    BY Zenon, <1>3, <2>1, <2>2, <2>3, IssueFacts, KilledFacts
       DEF ExchangeAnswered, Types, DisconnectedIsEmpty
<1>4. CASE StoreAccount(c)
  <2>1. account' \in AccountRow /\ account'.status = "ACTIVE"
    BY Zenon, <1>4 DEF StoreAccount, Types, AccountRow, CallbackRow
  <2>2. callback' \in [Callback -> CallbackRow]
    BY Zenon, <1>4 DEF StoreAccount, Types, CallbackRow, CallbackPlace
  <2> QED
    BY Zenon, <1>4, <2>1, <2>2, ScheduleFacts DEF StoreAccount, Types, DisconnectedIsEmpty
<1>5. CASE ExchangeFails(c)
  <2>1. callback' \in [Callback -> CallbackRow]
    BY <1>5 DEF ExchangeFails, Types, CallbackRow, CallbackPlace
  <2>2. used' \in [fail : Nat, lose : Nat, outage : Nat]
    BY Zenon, <1>5, SpendFacts DEF ExchangeFails, Types
  <2> QED
    BY Zenon, <1>5, <2>1, <2>2 DEF ExchangeFails, Types, DisconnectedIsEmpty
<1> QED
  BY Zenon, <1>1, <1>2, <1>3, <1>4, <1>5 DEF Exchanging

\* Also when the account has been disconnected since a refresh read it, what the
\* refresh stores leaves no credentials behind.
LEMMA TypesRefresh ==
    ASSUME Types, DisconnectedIsEmpty, NEW p \in Proc, Refreshing(p) \/ RefreshFails(p)
    PROVE  Types' /\ DisconnectedIsEmpty'
<1>1. CASE RefreshAnswered(p)
  <2>1. PICK outcome \in {"answered", "lost"} :
          Issue(p, outcome) /\ (UNCHANGED used \/ Spend("lose"))
    BY Zenon, <1>1 DEF RefreshAnswered
  <2>2. used' \in [fail : Nat, lose : Nat, outage : Nat]
    BY Zenon, <2>1, SpendFacts DEF Types
  <2>3. account.token \in Token
    BY Zenon DEF Types, AccountRow
  <2> QED
    BY Zenon, <1>1, <2>1, <2>2, <2>3, IssueFacts, KilledFacts
       DEF RefreshAnswered, Types, DisconnectedIsEmpty
<1>2. CASE RefreshRefused(p)
  BY Zenon, <1>2, ThrowTypes DEF RefreshRefused, Types, DisconnectedIsEmpty
<1>3. CASE RefreshFails(p)
  <2>1. used' \in [fail : Nat, lose : Nat, outage : Nat]
    BY Zenon, <1>3, SpendFacts DEF RefreshFails
  <2> QED
    BY Zenon, <1>3, <2>1, ThrowTypes DEF RefreshFails, Types, DisconnectedIsEmpty
<1>4. CASE StoreTokens(p)
  <2>1. account' \in AccountRow /\ DisconnectedIsEmpty'
    BY Zenon, <1>4 DEF StoreTokens, Types, AccountRow, ProcRow, DisconnectedIsEmpty
  <2>2. Done(p) \in ProcRow
    BY OAuthAssumption DEF Done, Idle, ProcRow, ProcPlace, Token
  <2>3. proc' \in [Proc -> ProcRow]
    BY Zenon, <1>4, <2>2 DEF StoreTokens, Types
  <2> QED
    BY Zenon, <1>4, <2>1, <2>3, ScheduleFacts DEF StoreTokens, Types
<1> QED
  BY Zenon, <1>1, <1>2, <1>3, <1>4 DEF Refreshing

\* So do the reads before a refresh (refreshToken, the retry after a 401).
LEMMA TypesRead ==
    ASSUME Types, DisconnectedIsEmpty,
           (\E n \in 1 .. Attempts : WorkerReads(n))
             \/ (\E p \in Call : CallUnauthorized(p) \/ CallReads(p))
    PROVE  Types' /\ DisconnectedIsEmpty'
<1>0. account.token \in Token /\ "worker" \in Proc /\ Call \subseteq Proc
  BY Zenon DEF Types, AccountRow, Proc
<1>1. ASSUME NEW n \in 1 .. Attempts, WorkerReads(n) PROVE Types' /\ DisconnectedIsEmpty'
  <2>1. [jobs EXCEPT ![n] = @ - 1] \in [1 .. Attempts -> Nat]
    BY <1>1 DEF WorkerReads, Types
  <2>2. jobs' \in [1 .. Attempts -> Nat]
    <3> DEFINE taken == [jobs EXCEPT ![n] = @ - 1]
    <3>1. \/ jobs' = taken
          \/ n > 1 /\ jobs' = [taken EXCEPT ![n - 1] = @ + 1]
      BY Zenon, <1>1 DEF WorkerReads
    <3> HIDE DEF taken
    <3>2. n > 1 => n - 1 \in 1 .. Attempts
      BY OAuthAssumption
    <3>3. taken \in [1 .. Attempts -> Nat]
      BY Zenon, <2>1 DEF taken
    <3> QED
      BY <3>1, <3>2, <3>3
  <2>3. [pc |-> "asked", token |-> account.token, attempts |-> n] \in ProcRow
    BY <1>0, OAuthAssumption DEF ProcRow, ProcPlace
  <2>4. proc' \in [Proc -> ProcRow]
    BY Zenon, <1>0, <1>1, <2>3 DEF WorkerReads, Types
  <2> QED
    BY Zenon, <1>1, <2>2, <2>4 DEF WorkerReads, Types, DisconnectedIsEmpty
<1>2. ASSUME NEW p \in Call, CallUnauthorized(p) PROVE Types' /\ DisconnectedIsEmpty'
  <2>1. proc' \in [Proc -> ProcRow]
    BY Zenon, <1>0, <1>2 DEF CallUnauthorized, Types, ProcRow, ProcPlace
  <2> QED
    BY Zenon, <1>2, <2>1 DEF CallUnauthorized, Types, DisconnectedIsEmpty
<1>3. ASSUME NEW p \in Call, CallReads(p) PROVE Types' /\ DisconnectedIsEmpty'
  <2>1. /\ [pc |-> "asked", token |-> account.token, attempts |-> 0] \in ProcRow
        /\ [Idle EXCEPT !.pc = "failed"] \in ProcRow
    BY <1>0, OAuthAssumption DEF ProcRow, ProcPlace, Idle, Token
  <2>2. proc' \in [Proc -> ProcRow]
    BY Zenon, <1>0, <1>3, <2>1 DEF CallReads, Types
  <2> QED
    BY Zenon, <1>3, <2>2 DEF CallReads, Types, DisconnectedIsEmpty
<1> QED
  BY Zenon, <1>1, <1>2, <1>3

\* So do the new states, the expiries, the disconnection and the cleared credentials.
LEMMA TypesOther ==
    ASSUME Types, DisconnectedIsEmpty,
           \/ \E t \in State : StateExpires(t) \/ \E s \in Session : BuildAuthorizationUrl(s, t)
           \/ TokenExpires \/ Disconnect \/ ClearCredentials
    PROVE  Types' /\ DisconnectedIsEmpty'
<1>0. Disconnected \in AccountRow /\ NoRow \in StateRow
  BY Zenon DEF Disconnected, AccountRow, NoRow, StateRow, Token
<1>1. ASSUME NEW t \in State, StateExpires(t) \/ \E s \in Session : BuildAuthorizationUrl(s, t)
      PROVE  Types' /\ DisconnectedIsEmpty'
  <2>1. state' \in [State -> StateRow]
    <3>1. state \in [State -> StateRow] /\ state[t] \in StateRow
      BY Zenon DEF Types
    <3>2. CASE StateExpires(t)
      <4>1. [state[t] EXCEPT !.expired = TRUE] \in StateRow
        BY Zenon, <3>1 DEF StateRow
      <4> QED
        BY Zenon, <3>1, <3>2, <4>1 DEF StateExpires
    <3>3. ASSUME NEW s \in Session, BuildAuthorizationUrl(s, t) PROVE state' \in [State -> StateRow]
      <4>1. [state[t] EXCEPT !.owner = s] \in StateRow
        BY Zenon, <3>1 DEF StateRow
      <4> QED
        BY Zenon, <3>1, <3>3, <4>1 DEF BuildAuthorizationUrl
    <3> QED
      BY Zenon, <1>1, <3>2, <3>3
  <2> QED
    BY Zenon, <1>1, <2>1 DEF StateExpires, BuildAuthorizationUrl, Types, DisconnectedIsEmpty
<1>2. CASE TokenExpires
  BY Zenon, <1>2 DEF TokenExpires, Types, AccountRow, DisconnectedIsEmpty
<1>3. CASE Disconnect
  <2>1. account' = Disconnected
    BY Zenon, <1>3 DEF Disconnect
  <2> QED
    BY <1>0, <1>3, <2>1 DEF Disconnect, Types, DisconnectedIsEmpty, Disconnected
<1>4. CASE ClearCredentials
  <2>1. account' \in AccountRow /\ DisconnectedIsEmpty'
    BY Zenon, <1>0, <1>4 DEF ClearCredentials, Types, DisconnectedIsEmpty, Disconnected
  <2>2. state' \in [State -> StateRow]
    BY Zenon, <1>0, <1>4 DEF ClearCredentials, Types, StateRow
  <2> QED
    BY Zenon, <1>4, <2>1, <2>2 DEF ClearCredentials, Types
<1> QED
  BY Zenon, <1>1, <1>2, <1>3, <1>4
-----------------------------------------------------------------------------
\* One exchange per state.

\* Steps that touch neither the states nor the exchanges, nor lead a callback to its read.
LEMMA ExchangeFrame ==
    ASSUME ExchangeInv, UNCHANGED <<state, requests>>,
           \A c \in Callback : callback'[c].pc = "read" =>
               /\ callback[c].pc = "read"
               /\ callback'[c].by = callback[c].by /\ callback'[c].state = callback[c].state
    PROVE  ExchangeInv'
<1>1. OneExchange'
  BY Zenon DEF ExchangeInv, OneExchange
<1> QED
  BY Zenon, <1>1 DEF ExchangeInv

\* The conditional update lets one callback through for a state nobody has exchanged.
LEMMA ExchangeConsume ==
    ASSUME Types, ExchangeInv, NEW c \in Callback, ConsumeState(c)
    PROVE  ExchangeInv'
<1> DEFINE t == callback[c].state
           s == callback[c].by
           r == [callback |-> c, state |-> t, by |-> s, late |-> FALSE]
<1>1. s \in Session /\ t \in State
  BY Zenon DEF ConsumeState, ExchangeInv
<1>2. CASE ~Valid(t, s)
  <2>1. /\ UNCHANGED <<state, requests>>
        /\ callback' = [callback EXCEPT ![c].pc = "failed"]
    BY Zenon, <1>2 DEF ConsumeState
  <2>2. \A d \in Callback : callback'[d].pc = "read" => callback'[d] = callback[d]
    BY Zenon, <2>1 DEF Types, CallbackRow
  <2> QED
    BY Zenon, <2>1, <2>2, ExchangeFrame
<1>3. CASE Valid(t, s)
  <2>1. /\ state' = [state EXCEPT ![t].consumed = TRUE]
        /\ callback' = [callback EXCEPT ![c].pc = "consumed"]
        /\ requests' = requests \cup {r}
    BY Zenon, <1>3 DEF ConsumeState
  <2>2. \A d \in Callback : callback'[d].pc = "read" => callback'[d] = callback[d]
    BY Zenon, <2>1 DEF Types, CallbackRow
  <2>3. \A u \in State : /\ state'[u].owner = state[u].owner
                         /\ state[u].consumed => state'[u].consumed
    BY Zenon, <2>1 DEF Types, StateRow
  <2>4. state'[t].consumed /\ ~state[t].consumed /\ state[t].owner = s
    BY Zenon, <1>1, <1>3, <2>1 DEF Types, StateRow, Valid
  <2>5. r.state = t /\ r.by = s /\ r.late = FALSE
    BY Zenon
  <2>6. \A q \in requests : q.state \in State /\ q.state # t
    BY Zenon, <2>4 DEF Types, ExchangeInv
  <2> HIDE DEF r, t, s
  <2>7. \A q \in requests' : state'[q.state].consumed
    BY Zenon, <2>1, <2>3, <2>4, <2>5, <2>6 DEF ExchangeInv
  <2>8. OneExchange'
    BY Zenon, <1>1, <2>1, <2>3, <2>4, <2>5, <2>6 DEF ExchangeInv, OneExchange
  <2> QED
    BY Zenon, <2>2, <2>7, <2>8 DEF ExchangeInv
<1> QED
  BY Zenon, <1>2, <1>3

\* Creation, expiry and deletion of a state leave it to the session of its exchange.
LEMMA ExchangeState ==
    ASSUME Types, ExchangeInv,
           \/ \E t \in State : StateExpires(t) \/ \E s \in Session : BuildAuthorizationUrl(s, t)
           \/ ClearCredentials
    PROVE  ExchangeInv'
<1>1. UNCHANGED <<requests, callback>>
  BY Zenon DEF StateExpires, BuildAuthorizationUrl, ClearCredentials
<1>2. ASSUME NEW u \in State, state[u].consumed
      PROVE  state'[u].consumed /\ state'[u].owner \in {state[u].owner, None}
  <2>1. CASE ClearCredentials
    BY Zenon, <1>2, <2>1 DEF ClearCredentials, NoRow, Types, StateRow
  <2>2. ASSUME NEW t \in State, StateExpires(t) PROVE state'[u].consumed /\ state'[u].owner = state[u].owner
    BY Zenon, <1>2, <2>2 DEF StateExpires, Types, StateRow
  <2>3. ASSUME NEW t \in State, NEW s \in Session, BuildAuthorizationUrl(s, t)
        PROVE  state'[u].consumed /\ state'[u].owner = state[u].owner
    BY <1>2, <2>3 DEF BuildAuthorizationUrl, NoRow, Types, StateRow
  <2> QED
    BY Zenon, <2>1, <2>2, <2>3
<1>3. \A r \in requests : r.state \in State /\ state[r.state].consumed
  BY Zenon DEF Types, ExchangeInv
<1>4. OneExchange'
  BY Zenon, <1>1, <1>2, <1>3 DEF ExchangeInv, OneExchange
<1> QED
  BY Zenon, <1>1, <1>2, <1>3, <1>4 DEF ExchangeInv

\* Every step keeps what is known of the exchanges.
LEMMA ExchangeNext ==
    ASSUME Types, ExchangeInv, [Next]_vars
    PROVE  ExchangeInv'
<1>1. ASSUME NEW c \in Callback, NEW s \in Session, NEW t \in State, ReadState(c, s, t)
      PROVE  ExchangeInv'
  <2>1. OneExchange'
    BY Zenon, <1>1 DEF ReadState, ExchangeInv, OneExchange
  <2>2. \A d \in Callback : callback'[d].pc = "read" =>
           callback'[d].by \in Session /\ callback'[d].state \in State
    BY Zenon, <1>1 DEF ReadState, ExchangeInv, Types
  <2> QED
    BY Zenon, <1>1, <2>1, <2>2 DEF ReadState, ExchangeInv
<1>2. ASSUME NEW c \in Callback, ExchangeAnswered(c) \/ StoreAccount(c) \/ ExchangeFails(c)
      PROVE  ExchangeInv'
  <2>1. UNCHANGED <<state, requests>>
    BY Zenon, <1>2 DEF ExchangeAnswered, StoreAccount, ExchangeFails
  <2>2. CASE ExchangeAnswered(c)
    BY Zenon, <2>1, <2>2, IssueFacts, ExchangeFrame DEF ExchangeAnswered
  <2>3. CASE StoreAccount(c) \/ ExchangeFails(c)
    <3>1. \A d \in Callback : callback'[d].pc = "read" => callback'[d] = callback[d]
      BY Zenon, <2>3 DEF StoreAccount, ExchangeFails, Types, CallbackRow
    <3> QED
      BY Zenon, <2>1, <3>1, ExchangeFrame
  <2> QED
    BY Zenon, <1>2, <2>2, <2>3
<1>3. ASSUME NEW p \in Proc, Refreshing(p) \/ RefreshFails(p) PROVE ExchangeInv'
  <2>1. UNCHANGED <<state, requests>> /\ (UNCHANGED callback \/ RefreshAnswered(p))
    BY Zenon, <1>3 DEF Refreshing, RefreshAnswered, RefreshRefused, StoreTokens, RefreshFails
  <2>2. CASE RefreshAnswered(p)
    <3>1. p \notin Callback
      BY Zenon, OAuthAssumption DEF Proc
    <3> QED
      BY Zenon, <2>1, <2>2, <3>1, IssueFacts, ExchangeFrame DEF RefreshAnswered
  <2> QED
    BY Zenon, <2>1, <2>2, ExchangeFrame
<1>4. CASE \/ UNCHANGED vars
           \/ TokenExpires \/ Disconnect
           \/ \E n \in 1 .. Attempts : WorkerReads(n)
           \/ \E p \in Call : CallUnauthorized(p) \/ CallReads(p)
  <2>1. UNCHANGED <<state, requests, callback>>
    BY Zenon, <1>4 DEF vars, TokenExpires, Disconnect, WorkerReads, CallUnauthorized, CallReads
  <2> QED
    BY Zenon, <2>1, ExchangeFrame
<1> QED
  BY Zenon, <1>1, <1>2, <1>3, <1>4, ExchangeConsume, ExchangeState DEF Next, Exchanging
-----------------------------------------------------------------------------
\* The live token.

\* Exchanges that were answered stay so: the claim is never made again once given up.
LEMMA LoneBefore ==
    ASSUME Lone', used.lose \in Nat, used'.lose \in Nat, used.lose <= used'.lose,
           \A c \in Callback : callback[c].pc \in {"answered", "stored"} =>
               callback'[c].pc \in {"answered", "stored"}
    PROVE  Lone
BY DEF Lone, Exchanged

\* Steps that issue and store no token; the account may be disconnected.
LEMMA LiveFrame ==
    ASSUME LiveInv, used'.lose = used.lose,
           \/ account'.status = account.status /\ account'.token = account.token
           \/ /\ account.status # "none"
              /\ account'.status = "DISCONNECTED" /\ account'.token = None,
           \A c \in Callback :
               /\ callback'[c].pc = "answered" <=> callback[c].pc = "answered"
               /\ callback'[c].pc = "stored" <=> callback[c].pc = "stored"
               /\ callback[c].pc = "answered" => callback'[c].token = callback[c].token,
           \A p \in Proc :
               /\ proc'[p].pc = "answered" <=> proc[p].pc = "answered"
               /\ proc'[p].pc = "asked" => proc[p].pc = "asked" \/ account.status # "none"
               /\ proc[p].pc = "answered" => proc'[p].token = proc[p].token
               /\ proc'[p].token = "live" => proc[p].token = "live" \/ account.token = "live"
    PROVE  LiveInv'
<1>1. Lone' => Lone
  BY Zenon DEF Lone, Exchanged
<1>2. account'.token = "live" => account.token = "live"
  BY Zenon, NoneApart
<1>3. ASSUME NEW h, OnlyLive(h) PROVE OnlyLive(h)'
  BY Zenon, <1>2, <1>3 DEF OnlyLive
<1> QED
  BY Zenon, <1>1, <1>3 DEF LiveInv

\* The first exchange: nobody else can hold a live token or be waiting to store one.
LEMMA LiveExchange ==
    ASSUME Types, LiveInv, NEW c \in Callback, ExchangeAnswered(c)
    PROVE  LiveInv'
<1>1. PICK outcome \in {"answered", "lost"} :
        /\ callback[c].pc = "consumed" /\ Issue(c, outcome)
        /\ outcome = "answered" => UNCHANGED used
        /\ outcome = "lost" => Spend("lose")
  BY Zenon DEF ExchangeAnswered
<1>2. c \notin Proc
  BY Zenon, OAuthAssumption DEF Proc
<1>3. /\ account'.status = account.status /\ account'.token # "live"
      /\ \A d \in Callback : callback'[d].pc = IF d = c THEN outcome ELSE callback[d].pc
      /\ outcome = "answered" => callback'[c].token = "live"
      /\ \A p \in Proc : proc'[p].pc = proc[p].pc /\ proc'[p].token # "live"
  <2>1. account.token \in Token /\ \A p \in Proc : proc[p].token \in Token
    BY Zenon DEF Types, AccountRow, ProcRow
  <2>2. /\ account'.status = account.status /\ account'.token = Killed(account.token)
        /\ \A d \in Callback : callback'[d].pc = IF d = c THEN outcome ELSE callback[d].pc
        /\ outcome = "answered" => callback'[c].token = "live"
        /\ \A p \in Proc : proc'[p].pc = proc[p].pc /\ proc'[p].token = Killed(proc[p].token)
    BY <1>1, <1>2, IssueFacts
  <2> QED
    BY Zenon, <2>1, <2>2, KilledFacts
<1>4. used.lose \in Nat /\ used'.lose = IF outcome = "lost" THEN used.lose + 1 ELSE used.lose
  BY Zenon, <1>1, SpendFacts DEF Types
<1>5. /\ account'.status # "none" => \E d \in Callback : callback'[d].pc = "stored"
      /\ \A p \in Proc : proc'[p].pc \in {"asked", "answered"} => account'.status # "none"
  BY Zenon, <1>1, <1>3 DEF LiveInv
<1>6. ASSUME Lone'
      PROVE  /\ outcome = "answered" /\ account'.status = "none"
             /\ \A d \in Callback \ {c} : callback'[d].pc # "answered"
  <2>1. outcome = "answered"
    BY <1>4, <1>6 DEF Lone
  <2>2. \A d \in Callback \ {c} : callback'[d].pc \notin {"answered", "stored"}
    BY Zenon, <1>3, <1>6, <2>1 DEF Lone, Exchanged
  <2> QED
    BY Zenon, <1>3, <1>5, <2>1, <2>2
<1>7. Lone' => /\ \A p \in Proc : proc'[p].pc # "answered"
               /\ OnlyLive(c)'
  BY Zenon, <1>3, <1>5, <1>6 DEF OnlyLive
<1> QED
  BY Zenon, <1>3, <1>5, <1>6, <1>7 DEF LiveInv

\* The callback that stores the account stores the only live token.
LEMMA LiveStoreAccount ==
    ASSUME Types, LiveInv, NEW c \in Callback, StoreAccount(c)
    PROVE  LiveInv'
<1>1. /\ callback[c].pc = "answered" /\ UNCHANGED proc
      /\ account' = [status |-> "ACTIVE", token |-> callback[c].token, fresh |-> TRUE]
  BY Zenon DEF StoreAccount
<1>2. /\ callback'[c].pc = "stored"
      /\ \A d \in Callback \ {c} : callback'[d] = callback[d]
  BY Zenon DEF StoreAccount, Types, CallbackRow
<1>3. used.lose \in Nat /\ used'.lose = used.lose
  BY Zenon, ScheduleFacts DEF StoreAccount, Types
<1>4. Lone' => Lone
  BY <1>1, <1>2, <1>3, LoneBefore
<1>5. ASSUME Lone PROVE callback[c].token = "live" /\ OnlyLive(c)
  BY Zenon, <1>1, <1>5 DEF LiveInv
<1>6. c \notin Proc
  BY Zenon, OAuthAssumption DEF Proc
<1>7. Lone => /\ \A d \in Callback : callback'[d].pc # "answered"
              /\ \A p \in Proc : proc'[p].pc # "answered"
  BY Zenon, <1>1, <1>2, <1>5, <1>6 DEF OnlyLive
<1> QED
  BY Zenon, <1>1, <1>2, <1>4, <1>5, <1>7 DEF LiveInv

\* A refresh: only the holder of the live token is answered.
LEMMA LiveRefresh ==
    ASSUME Types, LiveInv, NEW p \in Proc, RefreshAnswered(p)
    PROVE  LiveInv'
<1>1. PICK outcome \in {"answered", "lost"} :
        /\ proc[p].pc = "asked" /\ proc[p].token = "live" /\ Issue(p, outcome)
        /\ outcome = "answered" => UNCHANGED used
        /\ outcome = "lost" => Spend("lose")
  BY Zenon DEF RefreshAnswered
<1>2. p \notin Callback
  BY Zenon, OAuthAssumption DEF Proc
<1>3. /\ account'.status = account.status /\ account'.token # "live"
      /\ \A d \in Callback : callback'[d].pc = callback[d].pc
      /\ outcome = "answered" => proc'[p].token = "live"
      /\ proc'[p].pc = outcome
      /\ \A q \in Proc \ {p} : proc'[q].pc = proc[q].pc /\ proc'[q].token # "live"
  <2>1. account.token \in Token /\ \A q \in Proc : proc[q].token \in Token
    BY Zenon DEF Types, AccountRow, ProcRow
  <2>2. /\ account'.status = account.status /\ account'.token = Killed(account.token)
        /\ \A d \in Callback : callback'[d].pc = callback[d].pc
        /\ outcome = "answered" => proc'[p].token = "live"
        /\ proc'[p].pc = outcome
        /\ \A q \in Proc \ {p} : proc'[q].pc = proc[q].pc /\ proc'[q].token = Killed(proc[q].token)
    BY <1>1, <1>2, IssueFacts
  <2> QED
    BY Zenon, <2>1, <2>2, KilledFacts
<1>4. used.lose \in Nat /\ used'.lose = IF outcome = "lost" THEN used.lose + 1 ELSE used.lose
  BY Zenon, <1>1, SpendFacts DEF Types
<1>5. Lone' => Lone /\ outcome = "answered"
  <2>1. Lone' => Lone
    BY <1>3, <1>4, LoneBefore
  <2>2. Lone' => outcome = "answered"
    BY <1>4 DEF Lone
  <2> QED
    BY Zenon, <2>1, <2>2
<1>6. ASSUME Lone
      PROVE  /\ \A d \in Callback : callback'[d].pc # "answered"
             /\ \A q \in Proc \ {p} : proc'[q].pc # "answered"
  BY <1>1, <1>2, <1>3, <1>6 DEF LiveInv, OnlyLive
<1>7. account.status # "none"
  BY Zenon, <1>1 DEF LiveInv
<1>8. Lone => OnlyLive(p)'
  BY Zenon, <1>3, <1>6 DEF OnlyLive
<1> QED
  BY Zenon, <1>3, <1>5, <1>6, <1>7, <1>8 DEF LiveInv

\* So does the refresh that stores its answer.
LEMMA LiveStoreTokens ==
    ASSUME Types, LiveInv, NEW p \in Proc, StoreTokens(p)
    PROVE  LiveInv'
<1>1. /\ proc[p].pc = "answered" /\ UNCHANGED callback
      /\ account'.status = account.status
      /\ account.status = "ACTIVE" => account'.token = proc[p].token
      /\ account.status # "ACTIVE" => account'.token = account.token
  BY Zenon DEF StoreTokens, Types, AccountRow
<1>2. /\ proc'[p].pc \notin {"asked", "answered"} /\ proc'[p].token # "live"
      /\ \A q \in Proc \ {p} : proc'[q] = proc[q]
  BY Zenon, NoneApart DEF StoreTokens, Types, Done, Idle
<1>3. used.lose \in Nat /\ used'.lose = used.lose
  BY Zenon, ScheduleFacts DEF StoreTokens, Types
<1>4. Lone' => Lone
  BY <1>1, <1>3, LoneBefore
<1>5. ASSUME Lone PROVE proc[p].token = "live" /\ OnlyLive(p)
  BY Zenon, <1>1, <1>5 DEF LiveInv
<1>6. p \notin Callback
  BY Zenon, OAuthAssumption DEF Proc
<1>7. Lone => /\ \A d \in Callback : callback'[d].pc # "answered"
              /\ \A q \in Proc : proc'[q].pc # "answered"
  BY Zenon, <1>1, <1>2, <1>5, <1>6 DEF OnlyLive
<1> QED
  BY Zenon, <1>1, <1>2, <1>4, <1>5, <1>7 DEF LiveInv

\* The steps without the provider issue no token.
LEMMA LiveQuiet ==
    ASSUME Types, LiveInv,
           \/ UNCHANGED vars
           \/ \E t \in State : StateExpires(t) \/ \E s \in Session : BuildAuthorizationUrl(s, t)
           \/ TokenExpires \/ Disconnect \/ ClearCredentials
           \/ \E c \in Callback :
                 \/ \E s \in Session, t \in State : ReadState(c, s, t)
                 \/ ConsumeState(c) \/ ExchangeFails(c)
    PROVE  LiveInv'
<1>1. UNCHANGED proc
  BY Zenon DEF vars, StateExpires, BuildAuthorizationUrl, TokenExpires, Disconnect,
               ClearCredentials, ReadState, ConsumeState, ExchangeFails
<1>2. used'.lose = used.lose
  <2>1. UNCHANGED used \/ Spend("fail")
    BY Zenon DEF vars, StateExpires, BuildAuthorizationUrl, TokenExpires, Disconnect,
                 ClearCredentials, ReadState, ConsumeState, ExchangeFails
  <2> QED
    BY Zenon, <2>1, SpendFacts
<1>3. \/ account'.status = account.status /\ account'.token = account.token
      \/ /\ account.status # "none"
         /\ account'.status = "DISCONNECTED" /\ account'.token = None
  <2>1. CASE TokenExpires \/ Disconnect \/ ClearCredentials
    <3>1. \/ account' = [account EXCEPT !.fresh = FALSE]
          \/ account' = account
          \/ account.status # "none" /\ account' = Disconnected
      BY Zenon, <2>1 DEF TokenExpires, Disconnect, ClearCredentials
    <3>2. CASE account' = [account EXCEPT !.fresh = FALSE]
      BY Zenon, <3>2 DEF Types, AccountRow
    <3> QED
      BY <3>1, <3>2 DEF Disconnected
  <2>2. CASE ~(TokenExpires \/ Disconnect \/ ClearCredentials)
    BY Zenon, <2>2 DEF vars, StateExpires, BuildAuthorizationUrl, ReadState, ConsumeState, ExchangeFails
  <2> QED
    BY Zenon, <2>1, <2>2
<1>4. ASSUME NEW d \in Callback
      PROVE  /\ callback'[d].pc = "answered" <=> callback[d].pc = "answered"
             /\ callback'[d].pc = "stored" <=> callback[d].pc = "stored"
             /\ callback[d].pc = "answered" => callback'[d].token = callback[d].token
  <2>1. ASSUME NEW c \in Callback, NEW s, NEW t, ReadState(c, s, t)
        PROVE  \/ callback'[d] = callback[d]
               \/ callback[d].pc = "unused" /\ callback'[d].pc = "read"
    <3>1. /\ callback[c] = Unused
          /\ callback' = [callback EXCEPT ![c] =
                             [pc |-> "read", by |-> s, state |-> t, token |-> None]]
      BY Zenon, <2>1 DEF ReadState
    <3>2. callback[c].pc = "unused" /\ callback'[c].pc = "read"
      BY <3>1 DEF Types, Unused
    <3>3. d # c => callback'[d] = callback[d]
      BY Zenon, <3>1 DEF Types
    <3> QED
      BY Zenon, <3>2, <3>3
  <2>2. ASSUME NEW c \in Callback, ConsumeState(c) \/ ExchangeFails(c)
        PROVE  \/ callback'[d] = callback[d]
               \/ /\ callback[d].pc \in {"read", "consumed", "lost"}
                  /\ callback'[d].pc \in {"consumed", "failed"}
    BY <2>2 DEF ConsumeState, ExchangeFails, Types, CallbackRow
  <2>3. CASE UNCHANGED callback
    BY Zenon, <2>3
  <2> QED
    BY Zenon, <2>1, <2>2, <2>3 DEF vars, StateExpires, BuildAuthorizationUrl, TokenExpires, Disconnect,
                            ClearCredentials
<1> QED
  BY Zenon, <1>1, <1>2, <1>3, <1>4, LiveFrame

\* A refresh that has not been answered holds what the account held, or nothing.
LEMMA LiveAsking ==
    ASSUME Types, LiveInv,
           \/ \E n \in 1 .. Attempts : WorkerReads(n)
           \/ \E p \in Call : CallUnauthorized(p) \/ CallReads(p)
           \/ \E p \in Proc : RefreshRefused(p) \/ RefreshFails(p)
    PROVE  LiveInv'
<1>1. UNCHANGED <<callback, account>>
  BY Zenon DEF WorkerReads, CallUnauthorized, CallReads, RefreshRefused, RefreshFails
<1>2. used'.lose = used.lose
  <2>1. UNCHANGED used \/ Spend("fail")
    BY Zenon DEF WorkerReads, CallUnauthorized, CallReads, RefreshRefused, RefreshFails
  <2> QED
    BY Zenon, <2>1, SpendFacts
<1> DEFINE Asks(q) ==
       /\ proc[q].pc # "answered" /\ proc'[q].pc # "answered"
       /\ proc'[q].pc = "asked" => account.status # "none"
       /\ proc'[q].token \in {None, proc[q].token, account.token}
<1>3. ASSUME NEW q \in Proc
      PROVE  proc'[q] = proc[q] \/ Asks(q)
  <2>1. ASSUME NEW n \in 1 .. Attempts, WorkerReads(n) PROVE proc'[q] = proc[q] \/ Asks(q)
    <3>1. /\ proc["worker"].pc = "idle" /\ proc \in [Proc -> ProcRow]
          /\ \/ UNCHANGED proc
             \/ /\ account.status = "ACTIVE"
                /\ proc' = [proc EXCEPT !["worker"] =
                              [pc |-> "asked", token |-> account.token, attempts |-> n]]
      BY Zenon, <2>1 DEF WorkerReads, Types
    <3> QED
      BY <3>1
  <2>2. ASSUME NEW p \in Call, CallUnauthorized(p) PROVE proc'[q] = proc[q] \/ Asks(q)
    BY <2>2 DEF CallUnauthorized, Types, Idle, ProcRow
  <2>3. ASSUME NEW p \in Call, CallReads(p) PROVE proc'[q] = proc[q] \/ Asks(q)
    <3>1. /\ proc[p].pc = "unauthorized" /\ proc \in [Proc -> ProcRow]
          /\ \/ /\ account.status = "ACTIVE"
                /\ proc' = [proc EXCEPT ![p] =
                              [pc |-> "asked", token |-> account.token, attempts |-> 0]]
             \/ proc' = [proc EXCEPT ![p] = [Idle EXCEPT !.pc = "failed"]]
      BY Zenon, <2>3 DEF CallReads, Types
    <3> QED
      BY <3>1 DEF Idle
  <2>4. ASSUME NEW p \in Proc, RefreshRefused(p) \/ RefreshFails(p)
        PROVE  proc'[q] = proc[q] \/ Asks(q)
    <3>1. /\ proc[p].pc \in {"asked", "lost"} /\ proc \in [Proc -> ProcRow]
          /\ proc' = [proc EXCEPT ![p] =
                         [Idle EXCEPT !.pc = IF p = "worker" THEN "idle" ELSE "failed"]]
      BY Zenon, <2>4 DEF RefreshRefused, RefreshFails, Throw, Types
    <3> QED
      BY Zenon, <3>1 DEF Idle
  <2> HIDE DEF Asks
  <2> QED
    BY Zenon, <2>1, <2>2, <2>3, <2>4
<1> QED
  BY Zenon, <1>1, <1>2, <1>3, NoneApart, LiveFrame
-----------------------------------------------------------------------------
\* The invariant holds before any account is connected.
LEMMA OAuthInit == Init => OAuthInv
<1>1. SUFFICES ASSUME Init PROVE OAuthInv
  BY Zenon
<1>2. Types
  <2>1. NoRow \in StateRow /\ Unused \in CallbackRow /\ Idle \in ProcRow
    BY OAuthAssumption DEF NoRow, StateRow, Unused, CallbackRow, CallbackPlace, Idle, ProcRow,
                           ProcPlace, Token
  <2>2. account \in AccountRow /\ jobs \in [1 .. Attempts -> Nat]
        /\ used \in [fail : Nat, lose : Nat, outage : Nat] /\ requests = {}
    BY Zenon, <1>1 DEF Init, AccountRow, Token
  <2> QED
    BY Zenon, <1>1, <2>1, <2>2 DEF Init, Types
<1>3. ExchangeInv /\ DisconnectedIsEmpty
  BY Zenon, <1>1 DEF Init, ExchangeInv, OneExchange, Unused, DisconnectedIsEmpty
<1>4. LiveInv
  BY Zenon, <1>1 DEF Init, LiveInv, Unused, Idle
<1> QED
  BY Zenon, <1>2, <1>3, <1>4 DEF OAuthInv

\* Every step keeps the invariant.
LEMMA OAuthNext ==
    ASSUME OAuthInv, [Next]_vars
    PROVE  OAuthInv'
<1>0. Types /\ ExchangeInv /\ DisconnectedIsEmpty /\ LiveInv
  BY Zenon DEF OAuthInv
<1>1. ExchangeInv'
  BY Zenon, <1>0, ExchangeNext
<1>2. Types' /\ DisconnectedIsEmpty'
  <2>1. CASE UNCHANGED vars
    BY Zenon, <1>0, <2>1 DEF vars, Types, DisconnectedIsEmpty
  <2> QED
    BY Zenon, <1>0, <2>1, TypesExchange, TypesRefresh, TypesRead, TypesOther DEF Next
<1>3. LiveInv'
  BY Zenon, <1>0, LiveQuiet, LiveAsking, LiveExchange, LiveStoreAccount, LiveRefresh, LiveStoreTokens
     DEF Next, Exchanging, Refreshing
<1> QED
  BY Zenon, <1>1, <1>2, <1>3 DEF OAuthInv

\* Every reachable state of the connection satisfies the inductive invariant.
THEOREM OAuthInvariance == Spec => []OAuthInv
BY OAuthInit, OAuthNext, PTL DEF Spec

\* An OAuth state serves one exchange, of the session that created it and before it
\* expires, for any number of callbacks that present it at once (exchangeCode).
THEOREM StateServesOnce == Spec => []OneExchange
<1>1. OAuthInv => OneExchange
  BY Zenon DEF OAuthInv, ExchangeInv
<1> QED
  BY <1>1, OAuthInvariance, PTL

\* A refresh that ends after disconnect puts no credentials back (refreshToken).
THEOREM DisconnectedStaysEmpty == Spec => []DisconnectedIsEmpty
<1>1. OAuthInv => DisconnectedIsEmpty
  BY Zenon DEF OAuthInv
<1> QED
  BY <1>1, OAuthInvariance, PTL

\* A set of at most one callback has no two of them.
LEMMA AtMostOne ==
    ASSUME NEW S \in SUBSET Callback, Cardinality(S) <= 1, NEW c \in S, NEW d \in S
    PROVE  c = d
<1>1. SUFFICES ASSUME c # d PROVE FALSE
  BY Zenon
<1>2. IsFiniteSet(S)
  BY Zenon, OAuthAssumption, FS_Subset
<1>3. /\ IsFiniteSet(S \ {c}) /\ Cardinality(S \ {c}) = Cardinality(S) - 1
  BY Zenon, <1>2, FS_RemoveElement
<1>4. Cardinality(S) \in Nat /\ Cardinality(S \ {c}) \in Nat
  BY Zenon, <1>2, <1>3, FS_CardinalityType
<1>5. Cardinality(S \ {c}) = 0
  BY <1>3, <1>4
<1>6. S \ {c} = {}
  BY Zenon, <1>3, <1>5, FS_EmptySet
<1> QED
  BY Zenon, <1>1, <1>6

\* The race for the single-use refresh token, between the worker and any number of
\* requests answered with 401: unless an answer was lost or the account connected
\* again, what is stored is the live token, or its holder is about to store it.
THEOREM RefreshRaceIsWon == Spec => []StoredIsLive
<1>1. OAuthInv => StoredIsLive
  <2>1. SUFFICES ASSUME OAuthInv, OneHolder, account.status = "ACTIVE"
                 PROVE  \/ account.token = "live"
                        \/ \E p \in Proc : Holding(proc[p])
                        \/ \E c \in Callback : Holding(callback[c])
    BY Zenon DEF StoredIsLive
  <2>2. Lone
    BY Zenon, <2>1, AtMostOne DEF OneHolder, Lone, Exchanged
  <2> QED
    BY Zenon, <2>1, <2>2 DEF OAuthInv, LiveInv, Holding
<1> QED
  BY <1>1, OAuthInvariance, PTL
-----------------------------------------------------------------------------
\* How many jobs wait.  A job is its number of attempts and its place among the jobs
\* with as many: jobs[n] of them have n.

QueuedIn(f) == {x \in (1 .. Attempts) \X Nat : x[2] \in 1 .. f[x[1]]}
Queued == QueuedIn(jobs)

\* The job the worker has taken.
Busy == IF proc["worker"].pc = "idle" THEN 0 ELSE 1

\* What has scheduled a first job: a callback that stored the account, a 401 that
\* refreshed its tokens.
Origins == {c \in Callback : callback[c].pc = "stored"} \cup {p \in Call : proc[p].pc = "done"}

\* Every job, waiting or taken, goes back to an origin of its own: a refresh of the
\* worker schedules one for the one it has taken, and a 401 has no attempts to use up.
JobsInv ==
    /\ IsFiniteSet(Queued)
    /\ Cardinality(Queued) + Busy <= Cardinality(Origins)
    /\ \A p \in Call : proc[p].attempts = 0
    /\ used.fail + used.lose + used.outage <= MaxFaults

\* A job more with n attempts.
LEMMA QueuedPut ==
    ASSUME NEW f \in [1 .. Attempts -> Nat], NEW n \in 1 .. Attempts, IsFiniteSet(QueuedIn(f))
    PROVE  LET g == [f EXCEPT ![n] = @ + 1]
           IN  /\ g \in [1 .. Attempts -> Nat] /\ IsFiniteSet(QueuedIn(g))
               /\ Cardinality(QueuedIn(g)) = Cardinality(QueuedIn(f)) + 1
<1> DEFINE g == [f EXCEPT ![n] = @ + 1]
           new == <<n, f[n] + 1>>
<1>1. g \in [1 .. Attempts -> Nat] /\ f[n] \in Nat
  OBVIOUS
<1>2. new \notin QueuedIn(f)
  BY <1>1 DEF QueuedIn
<1>3. ASSUME NEW x \in (1 .. Attempts) \X Nat
      PROVE  x[2] \in 1 .. g[x[1]] <=> x[2] \in 1 .. f[x[1]] \/ x = new
  <2>1. CASE x[1] = n
    BY <1>1, <2>1
  <2>2. CASE x[1] # n
    BY <1>1, <2>2
  <2> QED
    BY <2>1, <2>2
<1>4. QueuedIn(g) = QueuedIn(f) \cup {new}
  BY <1>1, <1>3 DEF QueuedIn
<1> HIDE DEF g, new
<1>5. /\ IsFiniteSet(QueuedIn(f) \cup {new})
      /\ Cardinality(QueuedIn(f) \cup {new}) = Cardinality(QueuedIn(f)) + 1
  BY Zenon, <1>2, FS_AddElement
<1> QED
  BY Zenon, <1>1, <1>4, <1>5 DEF g

\* A job fewer with n attempts.
LEMMA QueuedTake ==
    ASSUME NEW f \in [1 .. Attempts -> Nat], NEW n \in 1 .. Attempts, f[n] > 0,
           IsFiniteSet(QueuedIn(f))
    PROVE  LET g == [f EXCEPT ![n] = @ - 1]
           IN  /\ g \in [1 .. Attempts -> Nat] /\ IsFiniteSet(QueuedIn(g))
               /\ Cardinality(QueuedIn(g)) = Cardinality(QueuedIn(f)) - 1
<1> DEFINE g == [f EXCEPT ![n] = @ - 1]
           old == <<n, f[n]>>
<1>1. g \in [1 .. Attempts -> Nat] /\ f[n] \in Nat
  OBVIOUS
<1>2. old \in QueuedIn(f)
  BY <1>1 DEF QueuedIn
<1>3. ASSUME NEW x \in (1 .. Attempts) \X Nat
      PROVE  x[2] \in 1 .. g[x[1]] <=> x[2] \in 1 .. f[x[1]] /\ x # old
  <2>1. CASE x[1] = n
    BY <1>1, <2>1
  <2>2. CASE x[1] # n
    BY <1>1, <2>2
  <2> QED
    BY <2>1, <2>2
<1>4. QueuedIn(g) = QueuedIn(f) \ {old}
  BY <1>1, <1>3 DEF QueuedIn
<1> HIDE DEF g, old
<1>5. /\ IsFiniteSet(QueuedIn(f) \ {old})
      /\ Cardinality(QueuedIn(f) \ {old}) = Cardinality(QueuedIn(f)) - 1
  BY Zenon, <1>2, FS_RemoveElement
<1> QED
  BY Zenon, <1>1, <1>4, <1>5 DEF g

\* No more jobs have n attempts than wait.
LEMMA QueuedBounds ==
    ASSUME NEW f \in [1 .. Attempts -> Nat], NEW n \in 1 .. Attempts, IsFiniteSet(QueuedIn(f))
    PROVE  f[n] <= Cardinality(QueuedIn(f))
<1> DEFINE S == 1 .. f[n]
           place == [k \in S |-> <<n, k>>]
<1>1. f[n] \in Nat /\ IsFiniteSet(S) /\ Cardinality(S) = f[n]
  <2>1. f[n] \in Nat
    BY Zenon
  <2>2. f[n] \in Int /\ 1 \in Int
    BY <2>1
  <2>3. IsFiniteSet(S) /\ Cardinality(S) = IF 1 > f[n] THEN 0 ELSE f[n] - 1 + 1
    BY Zenon, <2>2, FS_Interval
  <2> QED
    BY <2>1, <2>3
<1>2. place \in [S -> QueuedIn(f)]
  BY <1>1 DEF QueuedIn
<1>3. place \in Injection(S, QueuedIn(f))
  BY <1>2 DEF Injection, IsInjective
<1> QED
  BY <1>1, <1>3, FS_Injection DEF ExistsInjection

\* schedule adds at most one job.
LEMMA ScheduleJobs ==
    ASSUME Types, IsFiniteSet(Queued), Schedule
    PROVE  /\ IsFiniteSet(Queued') /\ Cardinality(Queued') <= Cardinality(Queued) + 1
           /\ used'.fail + used'.lose + used'.outage <= MaxFaults
                \/ UNCHANGED used
<1>0. Cardinality(Queued) \in Nat /\ Attempts \in 1 .. Attempts
  BY FS_CardinalityType, OAuthAssumption
<1>1. CASE jobs' = [jobs EXCEPT ![Attempts] = @ + 1] /\ UNCHANGED used
  <2>1. /\ IsFiniteSet(QueuedIn(jobs'))
        /\ Cardinality(QueuedIn(jobs')) = Cardinality(QueuedIn(jobs)) + 1
    BY Zenon, <1>0, <1>1, QueuedPut DEF Types, Queued
  <2> QED
    BY <1>0, <1>1, <2>1 DEF Queued
<1>2. CASE Spend("outage") /\ UNCHANGED jobs
  <2>1. used'.fail + used'.lose + used'.outage <= MaxFaults
    BY <1>2, OAuthAssumption DEF Spend, Types
  <2>2. Queued' = Queued
    BY Zenon, <1>2 DEF Queued
  <2> QED
    BY <1>0, <2>1, <2>2
<1> QED
  BY Zenon, <1>1, <1>2 DEF Schedule

\* A refresh that throws puts back at most one job.
LEMMA ThrowJobs ==
    ASSUME Types, IsFiniteSet(Queued), NEW p \in Proc, Throw(p, proc[p].attempts)
    PROVE  /\ IsFiniteSet(Queued') /\ Cardinality(Queued') <= Cardinality(Queued) + 1
           /\ proc[p].attempts = 0 => Queued' = Queued
<1> DEFINE n == proc[p].attempts
<1>0. Cardinality(Queued) \in Nat /\ n \in 0 .. Attempts
  <2>1. n \in 0 .. Attempts
    BY Zenon DEF Types, ProcRow
  <2> QED
    BY Zenon, <2>1, FS_CardinalityType
<1>1. jobs' = IF n > 1 THEN [jobs EXCEPT ![n - 1] = @ + 1] ELSE jobs
  BY Zenon DEF Throw
<1> HIDE DEF n
<1>2. CASE n > 1
  <2>1. n - 1 \in 1 .. Attempts /\ n # 0
    BY <1>0, <1>2, OAuthAssumption
  <2>2. /\ IsFiniteSet(QueuedIn(jobs'))
        /\ Cardinality(QueuedIn(jobs')) = Cardinality(QueuedIn(jobs)) + 1
    BY Zenon, <1>1, <1>2, <2>1, QueuedPut DEF Types, Queued
  <2> QED
    BY <1>0, <2>1, <2>2 DEF Queued, n
<1>3. CASE ~(n > 1)
  <2>1. Queued' = Queued
    BY Zenon, <1>1, <1>3 DEF Queued
  <2> QED
    BY <1>0, <2>1
<1> QED
  BY Zenon, <1>2, <1>3

\* The worker takes a job; when refreshToken throws at once it puts it back.
LEMMA TakeJobs ==
    ASSUME Types, IsFiniteSet(Queued), NEW n \in 1 .. Attempts, WorkerReads(n)
    PROVE  /\ IsFiniteSet(Queued') /\ Cardinality(Queued') <= Cardinality(Queued)
           /\ UNCHANGED proc \/ Cardinality(Queued') = Cardinality(Queued) - 1
<1> DEFINE taken == [jobs EXCEPT ![n] = @ - 1]
<1>0. Cardinality(Queued) \in Nat /\ (n > 1 => n - 1 \in 1 .. Attempts)
  BY FS_CardinalityType, OAuthAssumption
<1>1. /\ taken \in [1 .. Attempts -> Nat] /\ IsFiniteSet(QueuedIn(taken))
      /\ Cardinality(QueuedIn(taken)) = Cardinality(Queued) - 1
  BY Zenon, QueuedTake DEF Types, Queued, WorkerReads
<1>2. \/ jobs' = taken
      \/ n > 1 /\ UNCHANGED proc /\ jobs' = [taken EXCEPT ![n - 1] = @ + 1]
  BY Zenon DEF WorkerReads
<1> HIDE DEF taken
<1>3. CASE jobs' = taken
  BY <1>0, <1>1, <1>3 DEF Queued
<1>4. CASE n > 1 /\ UNCHANGED proc /\ jobs' = [taken EXCEPT ![n - 1] = @ + 1]
  <2>1. /\ IsFiniteSet(QueuedIn(jobs'))
        /\ Cardinality(QueuedIn(jobs')) = Cardinality(QueuedIn(taken)) + 1
    BY Zenon, <1>0, <1>1, <1>4, QueuedPut
  <2> QED
    BY <1>0, <1>1, <1>4, <2>1 DEF Queued
<1> QED
  BY Zenon, <1>2, <1>3, <1>4

\* The origins are as many as the callbacks and the 401s at most.
LEMMA OriginsBound ==
    ASSUME NEW S \in SUBSET (Callback \cup Call)
    PROVE  IsFiniteSet(S) /\ Cardinality(S) \in Nat /\ Cardinality(S) <= MaxJobs
<1>1. /\ IsFiniteSet(Callback \cup Call)
      /\ Cardinality(Callback \cup Call)
           = Cardinality(Callback) + Cardinality(Call) - Cardinality(Callback \cap Call)
  BY Zenon, FS_Union, OAuthAssumption
<1>2. Callback \cap Call = {} /\ IsFiniteSet(Callback) /\ IsFiniteSet(Call)
  BY Zenon, OAuthAssumption
<1>3. Cardinality(Callback \cap Call) = 0
  BY Zenon, <1>2, FS_EmptySet
<1>4. IsFiniteSet(S) /\ Cardinality(S) <= Cardinality(Callback \cup Call)
  BY Zenon, <1>1, FS_Subset
<1>5. Cardinality(S) \in Nat /\ Cardinality(Callback) \in Nat /\ Cardinality(Call) \in Nat
  BY Zenon, <1>2, <1>4, FS_CardinalityType
<1> QED
  BY <1>1, <1>3, <1>4, <1>5 DEF MaxJobs

\* A step that moves no callback to or from "stored" and no 401 to or from "done".
LEMMA OriginsKept ==
    ASSUME \A c \in Callback : callback'[c].pc = "stored" <=> callback[c].pc = "stored",
           \A p \in Call : proc'[p].pc = "done" <=> proc[p].pc = "done"
    PROVE  Origins' = Origins
BY Zenon DEF Origins

\* A new origin pays for the job it schedules.
LEMMA OriginsMore ==
    ASSUME NEW x, Origins' = Origins \cup {x}, x \notin Origins
    PROVE  Cardinality(Origins') = Cardinality(Origins) + 1
<1>1. IsFiniteSet(Origins)
  BY Zenon, OriginsBound DEF Origins
<1> QED
  BY Zenon, <1>1, FS_AddElement

\* The worker has one job at most.
LEMMA BusyType == Busy \in 0 .. 1 /\ Busy' \in 0 .. 1
BY DEF Busy

\* The accounts of a step balance when the origins it adds and the job the worker ends
\* pay for the jobs it adds and the one the worker takes.
LEMMA JobsBalance ==
    ASSUME JobsInv, IsFiniteSet(Queued'), NEW i \in Int, NEW j \in Int,
           Cardinality(Queued') <= Cardinality(Queued) + j,
           Cardinality(Origins') = Cardinality(Origins) + i,
           j + Busy' <= i + Busy
    PROVE  Cardinality(Queued') + Busy' <= Cardinality(Origins')
<1>1. Cardinality(Origins) \in Nat
  BY Zenon, OriginsBound DEF Origins
<1>2. Cardinality(Queued) \in Nat /\ Cardinality(Queued') \in Nat
  BY Zenon, FS_CardinalityType DEF JobsInv
<1>3. Cardinality(Queued) + Busy <= Cardinality(Origins)
  BY Zenon DEF JobsInv
<1> DEFINE q == Cardinality(Queued)
           r == Cardinality(Queued')
           o == Cardinality(Origins)
           b == Busy
           d == Busy'
<1>4. q \in Nat /\ r \in Nat /\ o \in Nat /\ b \in Int /\ d \in Int
  BY <1>1, <1>2, BusyType
<1>5. q + b <= o /\ r <= q + j /\ j + d <= i + b
  BY Zenon, <1>3
<1> HIDE DEF q, r, o, b, d
<1>6. r + d <= o + i
  BY <1>4, <1>5
<1> QED
  BY Zenon, <1>6 DEF r, d, o

\* A fault is one of the bounded number.
LEMMA SpendBound ==
    ASSUME Types, NEW what \in {"fail", "lose", "outage"}, Spend(what)
    PROVE  used'.fail + used'.lose + used'.outage <= MaxFaults
BY OAuthAssumption DEF Spend, Types

\* A step that leaves the queue, the origins and the worker as they are.
LEMMA JobsQuiet ==
    ASSUME Types, JobsInv, UNCHANGED jobs, Origins' = Origins, Busy' = Busy,
           \A p \in Call : proc'[p].attempts = 0,
           UNCHANGED used \/ \E what \in {"fail", "lose", "outage"} : Spend(what)
    PROVE  JobsInv'
<1>1. Queued' = Queued
  BY Zenon DEF Queued
<1>2. used'.fail + used'.lose + used'.outage <= MaxFaults
  BY Zenon, SpendBound DEF JobsInv
<1> QED
  BY Zenon, <1>1, <1>2 DEF JobsInv

\* The provider's answer moves its holder and nobody else.
LEMMA IssuePlaces ==
    ASSUME Types, NEW h \in Callback \cup Proc, NEW outcome \in {"answered", "lost"},
           Issue(h, outcome)
    PROVE  /\ \A c \in Callback : callback'[c].pc = IF c = h THEN outcome ELSE callback[c].pc
           /\ \A p \in Proc : /\ proc'[p].pc = IF p = h THEN outcome ELSE proc[p].pc
                              /\ proc'[p].attempts = proc[p].attempts
BY IssueFacts

\* exchangeCode: only StoreAccount adds a job, and the callback pays for it.
LEMMA JobsExchange ==
    ASSUME Types, JobsInv, NEW c \in Callback,
           (\E s \in Session, t \in State : ReadState(c, s, t)) \/ Exchanging(c) \/ ExchangeFails(c)
    PROVE  JobsInv'
<1>0. c \notin Proc /\ c \notin Call /\ "worker" \in Proc /\ Call \subseteq Proc
  BY Zenon, OAuthAssumption DEF Proc
<1>1. ASSUME UNCHANGED <<jobs, proc>>,
             \A d \in Callback : callback'[d].pc = "stored" <=> callback[d].pc = "stored",
             UNCHANGED used \/ \E what \in {"fail", "lose", "outage"} : Spend(what)
      PROVE  JobsInv'
  <2>1. Origins' = Origins
    BY Zenon, <1>1, OriginsKept
  <2>2. Busy' = Busy
    BY Zenon, <1>1 DEF Busy
  <2>3. \A p \in Call : proc'[p].attempts = 0
    BY Zenon, <1>1 DEF JobsInv
  <2> QED
    BY Zenon, <1>1, <2>1, <2>2, <2>3, JobsQuiet
<1>2. ASSUME NEW s \in Session, NEW t \in State, ReadState(c, s, t) PROVE JobsInv'
  <2>1. \A d \in Callback : callback'[d].pc = "stored" <=> callback[d].pc = "stored"
    <3>1. callback[c].pc = "unused"
      BY <1>2 DEF ReadState, Unused
    <3>2. callback' = [callback EXCEPT ![c] =
                         [pc |-> "read", by |-> s, state |-> t, token |-> None]]
      BY Zenon, <1>2 DEF ReadState
    <3> QED
      BY Zenon, <3>1, <3>2 DEF Types
  <2> QED
    BY Zenon, <1>1, <1>2, <2>1 DEF ReadState
<1>3. CASE ConsumeState(c)
  <2>1. \E q \in {"consumed", "failed"} : callback' = [callback EXCEPT ![c].pc = q]
    BY Zenon, <1>3 DEF ConsumeState
  <2>2. callback[c].pc = "read"
    BY Zenon, <1>3 DEF ConsumeState
  <2>3. \A d \in Callback : callback'[d].pc = "stored" <=> callback[d].pc = "stored"
    BY Zenon, <2>1, <2>2 DEF Types, CallbackRow
  <2> QED
    BY Zenon, <1>1, <1>3, <2>3 DEF ConsumeState
<1>4. CASE ExchangeAnswered(c)
  <2>1. PICK outcome \in {"answered", "lost"} :
          Issue(c, outcome) /\ (UNCHANGED used \/ Spend("lose"))
    BY Zenon, <1>4 DEF ExchangeAnswered
  <2>2. /\ \A d \in Callback : callback'[d].pc = IF d = c THEN outcome ELSE callback[d].pc
        /\ \A p \in Proc : proc'[p].pc = proc[p].pc /\ proc'[p].attempts = proc[p].attempts
    BY <1>0, <2>1, IssuePlaces
  <2>3. Origins' = Origins
    BY Zenon, <1>0, <1>4, <2>2, OriginsKept DEF ExchangeAnswered
  <2>4. Busy' = Busy
    BY Zenon, <1>0, <2>2 DEF Busy
  <2>5. \A p \in Call : proc'[p].attempts = 0
    BY Zenon, <1>0, <2>2 DEF JobsInv
  <2> QED
    BY Zenon, <1>4, <2>1, <2>3, <2>4, <2>5, JobsQuiet DEF ExchangeAnswered
<1>5. CASE ExchangeFails(c)
  <2>1. callback' = [callback EXCEPT ![c].pc = "failed"] /\ callback[c].pc # "stored"
    BY Zenon, <1>5 DEF ExchangeFails
  <2>2. \A d \in Callback : callback'[d].pc = "stored" <=> callback[d].pc = "stored"
    BY Zenon, <2>1 DEF Types, CallbackRow
  <2> QED
    BY Zenon, <1>1, <1>5, <2>2 DEF ExchangeFails
<1>6. CASE StoreAccount(c)
  <2>1. /\ callback[c].pc = "answered" /\ callback' = [callback EXCEPT ![c].pc = "stored"]
        /\ UNCHANGED proc /\ Schedule
    BY Zenon, <1>6 DEF StoreAccount
  <2>2. c \notin Origins /\ Origins' = Origins \cup {c}
    BY Zenon, <1>0, <2>1 DEF Origins, Types, CallbackRow
  <2>3. Cardinality(Origins') = Cardinality(Origins) + 1
    BY Zenon, <2>2, OriginsMore
  <2>4. /\ IsFiniteSet(Queued') /\ Cardinality(Queued') <= Cardinality(Queued) + 1
        /\ used'.fail + used'.lose + used'.outage <= MaxFaults
    BY Zenon, <2>1, ScheduleJobs DEF JobsInv
  <2>5. Busy' = Busy
    BY Zenon, <2>1 DEF Busy
  <2>6. 1 + Busy' <= 1 + Busy /\ 1 \in Int
    BY <2>5, BusyType
  <2>7. Cardinality(Queued') + Busy' <= Cardinality(Origins')
    BY Zenon, <2>3, <2>4, <2>5, <2>6, JobsBalance
  <2> QED
    BY Zenon, <2>1, <2>4, <2>7 DEF JobsInv
<1> QED
  BY Zenon, <1>2, <1>3, <1>4, <1>5, <1>6 DEF Exchanging

\* refreshToken past its read: the worker ends the job it has taken when it schedules
\* the next or throws; a 401 becomes an origin, or throws and leaves the queue alone.
LEMMA JobsRefresh ==
    ASSUME Types, JobsInv, NEW p \in Proc, Refreshing(p) \/ RefreshFails(p)
    PROVE  JobsInv'
<1>0. /\ "worker" \in Proc /\ Call \subseteq Proc /\ "worker" \notin Call
      /\ p = "worker" \/ p \in Call
      /\ p \notin Callback /\ \A q \in Call : q \notin Callback
  BY Zenon, OAuthAssumption DEF Proc
<1>1. CASE RefreshAnswered(p)
  <2>1. PICK outcome \in {"answered", "lost"} :
          Issue(p, outcome) /\ (UNCHANGED used \/ Spend("lose"))
    BY Zenon, <1>1 DEF RefreshAnswered
  <2>2. /\ \A c \in Callback : callback'[c].pc = callback[c].pc
        /\ \A q \in Proc : /\ proc'[q].pc = IF q = p THEN outcome ELSE proc[q].pc
                           /\ proc'[q].attempts = proc[q].attempts
    BY <1>0, <2>1, IssuePlaces
  <2>3. proc[p].pc = "asked"
    BY Zenon, <1>1 DEF RefreshAnswered
  <2>4. Origins' = Origins
    BY Zenon, <1>0, <2>2, <2>3, OriginsKept
  <2>5. Busy' = Busy
    BY Zenon, <1>0, <2>2, <2>3 DEF Busy
  <2>6. \A q \in Call : proc'[q].attempts = 0
    BY Zenon, <1>0, <2>2 DEF JobsInv
  <2> QED
    BY Zenon, <1>1, <2>1, <2>4, <2>5, <2>6, JobsQuiet DEF RefreshAnswered
<1>2. CASE RefreshRefused(p) \/ RefreshFails(p)
  <2>1. /\ proc[p].pc \in {"asked", "lost"} /\ Throw(p, proc[p].attempts) /\ UNCHANGED callback
        /\ UNCHANGED used \/ Spend("fail")
    BY Zenon, <1>2 DEF RefreshRefused, RefreshFails
  <2>2. proc' = [proc EXCEPT ![p] = [Idle EXCEPT !.pc = IF p = "worker" THEN "idle" ELSE "failed"]]
    BY Zenon, <2>1 DEF Throw
  <2>3. /\ proc'[p].pc = IF p = "worker" THEN "idle" ELSE "failed"
        /\ proc'[p].attempts = 0
        /\ \A q \in Proc \ {p} : proc'[q] = proc[q]
    BY <2>2 DEF Types, Idle
  <2>4. Origins' = Origins
    BY Zenon, <1>0, <2>1, <2>3, OriginsKept
  <2>5. /\ IsFiniteSet(Queued') /\ Cardinality(Queued') <= Cardinality(Queued) + 1
        /\ proc[p].attempts = 0 => Queued' = Queued
    BY Zenon, <2>1, ThrowJobs DEF JobsInv
  <2>6. used'.fail + used'.lose + used'.outage <= MaxFaults
    BY Zenon, <2>1, SpendBound DEF JobsInv
  <2>7. \A q \in Call : proc'[q].attempts = 0
    BY Zenon, <1>0, <2>3 DEF JobsInv
  <2>8. CASE p = "worker"
    <3>1. Busy = 1 /\ Busy' = 0
      BY Zenon, <2>1, <2>3, <2>8 DEF Busy
    <3>2. 1 + Busy' <= 0 + Busy /\ 1 \in Int /\ 0 \in Int
      BY <3>1
    <3>3. Cardinality(Origins) \in Nat
      BY Zenon, OriginsBound DEF Origins
    <3>4. Cardinality(Origins') = Cardinality(Origins) + 0
      BY <2>4, <3>3
    <3>5. Cardinality(Queued') + Busy' <= Cardinality(Origins')
      BY Zenon, <2>5, <3>2, <3>4, JobsBalance
    <3> QED
      BY Zenon, <2>5, <2>6, <2>7, <3>5 DEF JobsInv
  <2>9. CASE p \in Call
    <3>1. Queued' = Queued
      BY Zenon, <2>5, <2>9 DEF JobsInv
    <3>2. Busy' = Busy
      BY Zenon, <1>0, <2>3, <2>9 DEF Busy
    <3> QED
      BY Zenon, <2>4, <2>6, <2>7, <3>1, <3>2 DEF JobsInv
  <2> QED
    BY Zenon, <1>0, <2>8, <2>9
<1>3. CASE StoreTokens(p)
  <2>1. /\ proc[p].pc = "answered" /\ proc' = [proc EXCEPT ![p] = Done(p)] /\ Schedule
        /\ UNCHANGED callback
    BY Zenon, <1>3 DEF StoreTokens
  <2>2. /\ proc'[p].pc = IF p = "worker" THEN "idle" ELSE "done"
        /\ proc'[p].attempts = 0
        /\ \A q \in Proc \ {p} : proc'[q] = proc[q]
    BY <2>1 DEF Types, Done, Idle
  <2>3. /\ IsFiniteSet(Queued') /\ Cardinality(Queued') <= Cardinality(Queued) + 1
        /\ used'.fail + used'.lose + used'.outage <= MaxFaults
    BY Zenon, <2>1, ScheduleJobs DEF JobsInv
  <2>4. \A q \in Call : proc'[q].attempts = 0
    BY Zenon, <1>0, <2>2 DEF JobsInv
  <2>5. CASE p = "worker"
    <3>1. Busy = 1 /\ Busy' = 0
      BY Zenon, <2>1, <2>2, <2>5 DEF Busy
    <3>2. 1 + Busy' <= 0 + Busy /\ 1 \in Int /\ 0 \in Int
      BY <3>1
    <3>3. Origins' = Origins /\ Cardinality(Origins) \in Nat
      BY Zenon, <1>0, <2>1, <2>2, <2>5, OriginsKept, OriginsBound DEF Origins
    <3>4. Cardinality(Origins') = Cardinality(Origins) + 0
      BY <3>3
    <3>5. Cardinality(Queued') + Busy' <= Cardinality(Origins')
      BY Zenon, <2>3, <3>2, <3>4, JobsBalance
    <3> QED
      BY Zenon, <2>3, <2>4, <3>5 DEF JobsInv
  <2>6. CASE p \in Call
    <3>1. p \notin Origins /\ Origins' = Origins \cup {p}
      BY Zenon, <1>0, <2>1, <2>2, <2>6 DEF Origins
    <3>2. Cardinality(Origins') = Cardinality(Origins) + 1
      BY Zenon, <3>1, OriginsMore
    <3>3. Busy' = Busy
      BY Zenon, <1>0, <2>2, <2>6 DEF Busy
    <3>4. 1 + Busy' <= 1 + Busy /\ 1 \in Int
      BY <3>3, BusyType
    <3>5. Cardinality(Queued') + Busy' <= Cardinality(Origins')
      BY Zenon, <2>3, <3>2, <3>4, JobsBalance
    <3> QED
      BY Zenon, <2>3, <2>4, <3>5 DEF JobsInv
  <2> QED
    BY Zenon, <1>0, <2>5, <2>6
<1> QED
  BY Zenon, <1>1, <1>2, <1>3 DEF Refreshing

\* The reads before a refresh: a job the worker takes has left the queue.
LEMMA JobsRead ==
    ASSUME Types, JobsInv,
           (\E n \in 1 .. Attempts : WorkerReads(n))
             \/ (\E p \in Call : CallUnauthorized(p) \/ CallReads(p))
    PROVE  JobsInv'
<1>0. "worker" \in Proc /\ Call \subseteq Proc /\ "worker" \notin Call
  BY Zenon, OAuthAssumption DEF Proc
<1>1. ASSUME NEW n \in 1 .. Attempts, WorkerReads(n) PROVE JobsInv'
  <2>1. /\ IsFiniteSet(Queued') /\ Cardinality(Queued') <= Cardinality(Queued)
        /\ UNCHANGED proc \/ Cardinality(Queued') = Cardinality(Queued) - 1
    BY Zenon, <1>1, TakeJobs DEF JobsInv
  <2>2. Cardinality(Queued) \in Nat /\ Cardinality(Queued') \in Nat
    BY Zenon, <2>1, FS_CardinalityType DEF JobsInv
  <2>3. /\ UNCHANGED <<callback, used>> /\ proc["worker"].pc = "idle"
        /\ \A q \in Call : proc'[q] = proc[q]
    BY Zenon, <1>0, <1>1 DEF WorkerReads, Types
  <2>4. Origins' = Origins /\ Cardinality(Origins) \in Nat
    BY Zenon, <2>3, OriginsKept, OriginsBound DEF Origins
  <2>5. Cardinality(Origins') = Cardinality(Origins) + 0 /\ 0 \in Int /\ 0 - 1 \in Int
    BY <2>4
  <2>6. \E j \in Int : Cardinality(Queued') <= Cardinality(Queued) + j /\ j + Busy' <= 0 + Busy
    <3>1. CASE UNCHANGED proc
      <4>1. Busy' = Busy
        BY Zenon, <3>1 DEF Busy
      <4>2. Cardinality(Queued') <= Cardinality(Queued) + 0 /\ 0 + Busy' <= 0 + Busy
        BY <2>1, <2>2, <4>1, BusyType
      <4> QED
        BY Zenon, <2>5, <4>2
    <3>2. CASE Cardinality(Queued') = Cardinality(Queued) - 1
      <4>1. Busy = 0
        BY Zenon, <2>3 DEF Busy
      <4>2. Cardinality(Queued') <= Cardinality(Queued) + (0 - 1)
        BY <2>2, <3>2
      <4>3. (0 - 1) + Busy' <= 0 + Busy
        <5>1. \A d \in 0 .. 1 : (0 - 1) + d <= 0 + 0
          OBVIOUS
        <5> QED
          BY Zenon, <4>1, <5>1, BusyType
      <4> QED
        BY Zenon, <2>5, <4>2, <4>3
    <3> QED
      BY Zenon, <2>1, <3>1, <3>2
  <2>7. Cardinality(Queued') + Busy' <= Cardinality(Origins')
    BY Zenon, <2>1, <2>5, <2>6, JobsBalance
  <2> QED
    BY Zenon, <2>1, <2>3, <2>7 DEF JobsInv
<1>2. ASSUME NEW p \in Call, CallUnauthorized(p) \/ CallReads(p) PROVE JobsInv'
  <2>1. proc[p].pc \in {"idle", "unauthorized"}
    BY <1>2 DEF CallUnauthorized, CallReads, Idle
  <2>2. \E r : /\ proc' = [proc EXCEPT ![p] = r]
               /\ r.pc \in {"unauthorized", "asked", "failed"} /\ r.attempts = 0
    <3>1. CASE CallUnauthorized(p)
      <4>1. [Idle EXCEPT !.pc = "unauthorized"].pc = "unauthorized"
            /\ [Idle EXCEPT !.pc = "unauthorized"].attempts = 0
        BY DEF Idle
      <4> QED
        BY Zenon, <3>1, <4>1 DEF CallUnauthorized
    <3>2. CASE CallReads(p)
      <4> DEFINE r == IF account.status = "ACTIVE"
                      THEN [pc |-> "asked", token |-> account.token, attempts |-> 0]
                      ELSE [Idle EXCEPT !.pc = "failed"]
      <4>1. r.pc \in {"asked", "failed"} /\ r.attempts = 0
        BY DEF Idle
      <4>2. proc' = [proc EXCEPT ![p] = r]
        BY Zenon, <3>2 DEF CallReads
      <4> HIDE DEF r
      <4> QED
        BY Zenon, <4>1, <4>2
    <3> QED
      BY Zenon, <1>2, <3>1, <3>2
  <2>3. /\ proc'[p].pc \in {"unauthorized", "asked", "failed"} /\ proc'[p].attempts = 0
        /\ \A q \in Proc \ {p} : proc'[q] = proc[q]
    BY Zenon, <1>0, <2>2 DEF Types
  <2>4. UNCHANGED <<callback, jobs, used>>
    BY Zenon, <1>2 DEF CallUnauthorized, CallReads
  <2>5. Origins' = Origins
    BY Zenon, <1>0, <2>1, <2>3, <2>4, OriginsKept
  <2>6. Busy' = Busy
    BY Zenon, <1>0, <2>3 DEF Busy
  <2>7. \A q \in Call : proc'[q].attempts = 0
    BY Zenon, <1>0, <2>3 DEF JobsInv
  <2> QED
    BY Zenon, <2>4, <2>5, <2>6, <2>7, JobsQuiet
<1> QED
  BY Zenon, <1>1, <1>2

\* Every step keeps the accounts of the jobs.
LEMMA JobsNext ==
    ASSUME Types, JobsInv, [Next]_vars
    PROVE  JobsInv'
<1>1. ASSUME UNCHANGED <<callback, jobs, proc, used>> PROVE JobsInv'
  <2>1. Origins' = Origins /\ Busy' = Busy /\ Queued' = Queued
    BY Zenon, <1>1 DEF Origins, Busy, Queued
  <2> QED
    BY Zenon, <1>1, <2>1 DEF JobsInv
<1>2. CASE \/ UNCHANGED vars \/ TokenExpires \/ Disconnect \/ ClearCredentials
           \/ \E t \in State : StateExpires(t) \/ \E s \in Session : BuildAuthorizationUrl(s, t)
  BY Zenon, <1>1, <1>2 DEF vars, TokenExpires, Disconnect, ClearCredentials, StateExpires,
                           BuildAuthorizationUrl
<1> QED
  BY Zenon, <1>2, JobsExchange, JobsRefresh, JobsRead DEF Next

\* At the start nothing waits.
LEMMA JobsInit == Init => JobsInv
<1>1. SUFFICES ASSUME Init PROVE JobsInv
  BY Zenon
<1>2. jobs = [n \in 1 .. Attempts |-> 0] /\ used = [fail |-> 0, lose |-> 0, outage |-> 0]
  BY Zenon, <1>1 DEF Init
<1>3. Queued = {}
  BY <1>2 DEF Queued, QueuedIn
<1>4. Origins = {} /\ Busy = 0 /\ \A p \in Call : proc[p].attempts = 0
  <2>1. Idle.pc = "idle" /\ Idle.attempts = 0 /\ Unused.pc = "unused"
    BY DEF Idle, Unused
  <2> QED
    BY Zenon, <1>1, <2>1 DEF Init, Origins, Busy, Proc
<1>5. IsFiniteSet({}) /\ Cardinality({}) = 0
  BY Zenon, FS_EmptySet
<1>6. used.fail + used.lose + used.outage <= MaxFaults
  BY <1>2, OAuthAssumption
<1>7. Cardinality(Queued) + Busy <= Cardinality(Origins)
  BY <1>3, <1>4, <1>5
<1> QED
  BY Zenon, <1>3, <1>4, <1>5, <1>6, <1>7 DEF JobsInv

\* Every value of the connection keeps its type, and however callbacks, 401s and retries
\* interleave no more refresh jobs wait than callbacks and 401s there were: a refresh
\* replaces the job it ends and never multiplies it (schedule, refreshToken).
THEOREM ConnectionTypes == Spec => []TypeOK
<1>1. Init => OAuthInv /\ JobsInv
  BY Zenon, OAuthInit, JobsInit
<1>2. OAuthInv /\ JobsInv /\ [Next]_vars => (OAuthInv /\ JobsInv)'
  BY Zenon, OAuthNext, JobsNext DEF OAuthInv
<1>3. ASSUME OAuthInv, JobsInv PROVE TypeOK
  <2>1. Types
    BY Zenon, <1>3 DEF OAuthInv
  <2>2. jobs \in [1 .. Attempts -> 0 .. MaxJobs]
    <3>1. /\ jobs \in [1 .. Attempts -> Nat] /\ IsFiniteSet(QueuedIn(jobs))
          /\ Cardinality(Queued) + Busy <= Cardinality(Origins)
      BY Zenon, <1>3, <2>1 DEF Types, JobsInv, Queued
    <3>2. /\ Cardinality(Origins) \in Nat /\ Cardinality(Origins) <= MaxJobs
          /\ Cardinality(QueuedIn(jobs)) \in Nat
      BY Zenon, <3>1, OriginsBound, FS_CardinalityType DEF Origins
    <3>3. MaxJobs \in Nat
      BY FS_CardinalityType, OAuthAssumption DEF MaxJobs
    <3>4. Cardinality(QueuedIn(jobs)) <= MaxJobs
      BY <3>1, <3>2, <3>3, BusyType DEF Queued
    <3>5. ASSUME NEW n \in 1 .. Attempts PROVE jobs[n] \in 0 .. MaxJobs
      <4>1. jobs[n] \in Nat /\ jobs[n] <= Cardinality(QueuedIn(jobs))
        BY Zenon, <3>1, QueuedBounds
      <4> QED
        BY <3>2, <3>3, <3>4, <4>1
    <3> QED
      BY Zenon, <3>1, <3>5
  <2>3. used \in [{"fail", "lose", "outage"} -> 0 .. MaxFaults]
    <3>1. /\ used \in [fail : Nat, lose : Nat, outage : Nat]
          /\ used.fail + used.lose + used.outage <= MaxFaults
      BY Zenon, <1>3, <2>1 DEF Types, JobsInv
    <3> QED
      BY <3>1, OAuthAssumption
  <2> QED
    BY Zenon, <2>1, <2>2, <2>3
       DEF Types, TypeOK, StateRow, CallbackRow, ProcRow, AccountRow, CallbackPlace, ProcPlace
<1> QED
  BY <1>1, <1>2, <1>3, PTL DEF Spec
=============================================================================
