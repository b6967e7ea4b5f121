------------------------- MODULE AuthSessionsProofs -------------------------
(***************************************************************************)
(* AuthSessions keeps its promises for any number of users, requests, sessions *)
(* and tokens.  Behind single use is the account of the tokens: one that is     *)
(* signed and not yet stored is neither current, nor exchanged, nor waiting in   *)
(* another request, and one that was exchanged is not current.                  *)
(***************************************************************************)
EXTENDS AuthSessions, SequenceTheorems, TLAPS

\* What the provers may take for a step.
USE SMTT(30), ZenonT(30)

Waiting(r) == req[r].pc \in {"swap", "revoke"}

\* A waiting request is about the session its tokens were signed for, and its new
\* token is nowhere else.
PendingIsNew ==
    \A r \in Requests : Waiting(r) =>
        /\ \A s \in Sids : session[s].refreshHash # req[r].next
        /\ \A i \in 1 .. Len(exchanges) : exchanges[i] # req[r].next
        /\ \A q \in Requests : Waiting(q) /\ q # r => req[q].next # req[r].next

\* A current token was not exchanged, and no two sessions have the same.
CurrentIsNew ==
    \A s \in Sids :
        /\ \A i \in 1 .. Len(exchanges) : exchanges[i] # session[s].refreshHash
        /\ \A o \in Sids : session[o].refreshHash = session[s].refreshHash => o = s

\* Whoever was told that a session is over was told the truth.
ToldTruth == \A why \in {"reuse", "logout", "role"} : Ended(why)

\* The tokens signed are within the bound.
Bounded == Len(signed) <= MaxTokens

Inv == TypeOK /\ PendingIsNew /\ CurrentIsNew /\ SingleUse /\ ToldTruth /\ Bounded

-----------------------------------------------------------------------------
\* The invariant holds of a database without sessions.
LEMMA InvInit == Init => Inv
    <1> SUFFICES ASSUME Init PROVE Inv
        BY Zenon
    <1>1. session = <<>> /\ signed = <<>> /\ exchanges = <<>> /\ told = {} /\ delivered = {}
        BY Zenon DEF Init
    <1>2. TypeOK
      <2>1. req \in [Requests -> Request]
          BY Zenon DEF Init, Request
      <2> QED BY <1>1, <2>1 DEF Init, TypeOK
    <1>3. \A r \in Requests : ~Waiting(r)
        BY Zenon DEF Init, Waiting, Idle
    <1>4. Len(session) = 0 /\ Len(exchanges) = 0 /\ Len(signed) = 0
        BY Zenon, <1>1
    <1>5. PendingIsNew
        BY Zenon, <1>3 DEF PendingIsNew
    <1>6. CurrentIsNew /\ SingleUse
        BY <1>4 DEF CurrentIsNew, SingleUse, Sids
    <1>7. ToldTruth /\ Bounded
        BY <1>1, <1>4, AuthAssumption DEF ToldTruth, Ended, Bounded
    <1> QED BY Zenon, <1>2, <1>5, <1>6, <1>7 DEF Inv

\* A sequence of elements of a set, by its length and its elements.
LEMMA SeqByElements ==
    ASSUME NEW S, NEW n \in Nat, NEW f, f = [i \in 1 .. n |-> f[i]],
           \A i \in 1 .. n : f[i] \in S
    PROVE  f \in Seq(S) /\ Len(f) = n
    <1>1. f \in [1 .. n -> S]
        BY Zenon
    <1>2. f \in Seq(S)
        BY Zenon, <1>1, SeqDef
    <1>3. DOMAIN f = 1 .. n
        BY Zenon, <1>1
    <1> QED BY <1>2, <1>3, LenProperties

\* A step that leaves sessions, tokens and exchanges alone, in which no request
\* starts to wait with a new token.
LEMMA QuietStep ==
    ASSUME Inv, UNCHANGED <<session, signed, exchanges, told, delivered>>,
           role' \in [Users -> UserRole \union {NULL}],
           req' \in [Requests -> Request],
           \A r \in Requests : Waiting(r)' => Waiting(r) /\ req'[r].next = req[r].next
    PROVE  Inv'
    <1>1. Sids' = Sids /\ Tokens' = Tokens
        BY Zenon DEF Sids, Tokens
    <1>2. Session' = Session /\ Request' = Request
        BY Zenon, <1>1 DEF Session, Request
    <1>3. TypeOK'
        BY Zenon, <1>1, <1>2 DEF Inv, TypeOK
    <1>4. PendingIsNew'
        BY Zenon, <1>1 DEF Inv, PendingIsNew
    <1>5. CurrentIsNew' /\ SingleUse' /\ ToldTruth' /\ Bounded'
        BY Zenon, <1>1 DEF Inv, CurrentIsNew, SingleUse, ToldTruth, Ended, Bounded
    <1> QED BY Zenon, <1>3, <1>4, <1>5 DEF Inv

\* A step that ends sessions and leaves their tokens alone.
LEMMA EndingStep ==
    ASSUME Inv, UNCHANGED <<signed, exchanges, delivered>>,
           role' \in [Users -> UserRole \union {NULL}],
           req' \in [Requests -> Request],
           \A r \in Requests : Waiting(r)' => Waiting(r) /\ req'[r].next = req[r].next,
           session' \in Seq(Session), Len(session') = Len(session),
           \A s \in Sids : session'[s].refreshHash = session[s].refreshHash,
           \A s \in Sids : session[s].revoked => session'[s].revoked,
           told' \subseteq {"reuse", "logout", "role"} \X Sids,
           \A e \in told' : e \in told \/ session'[e[2]].revoked
    PROVE  Inv'
    <1>1. Sids' = Sids /\ Tokens' = Tokens
        BY Zenon DEF Sids, Tokens
    <1>2. Session' = Session /\ Request' = Request
        BY Zenon, <1>1 DEF Session, Request
    <1>3. TypeOK'
        BY Zenon, <1>1, <1>2 DEF Inv, TypeOK
    <1>4. PendingIsNew'
        BY <1>1 DEF Inv, PendingIsNew
    <1>5. CurrentIsNew'
        BY <1>1 DEF Inv, CurrentIsNew
    <1>6. ToldTruth'
      <2> SUFFICES ASSUME NEW why \in {"reuse", "logout", "role"}, NEW s \in Sids,
                          <<why, s>> \in told'
                   PROVE  session'[s].revoked
          BY Zenon, <1>1 DEF ToldTruth, Ended
      <2>1. CASE <<why, s>> \in told
          BY Zenon, <2>1 DEF Inv, ToldTruth, Ended
      <2>2. CASE session'[(<<why, s>>)[2]].revoked
          BY Zenon, <2>2
      <2> QED BY Zenon, <2>1, <2>2
    <1>7. SingleUse' /\ Bounded'
        BY Zenon DEF Inv, SingleUse, Bounded
    <1> QED BY Zenon, <1>3, <1>4, <1>5, <1>6, <1>7 DEF Inv

\* The rows after an update of the revocation or the expiry of some of them.
LEMMA UpdatedRows ==
    ASSUME TypeOK, NEW rows, DOMAIN rows = Sids,
           \A s \in Sids : rows[s] \in Session, rows = [s \in Sids |-> rows[s]]
    PROVE  rows \in Seq(Session) /\ Len(rows) = Len(session)
    <1>1. Len(session) \in Nat
        BY DEF TypeOK
    <1> QED BY Zenon, <1>1, SeqByElements DEF Sids

-----------------------------------------------------------------------------
\* Where a request that waits is, by its type.
LEMMA WaitingType ==
    ASSUME TypeOK, NEW r \in Requests
    PROVE  /\ Waiting(r) => req[r].on \in Sids /\ req[r].token \in Tokens /\ req[r].next \in Tokens
           /\ req[r].pc # "idle" => req[r].on \in Sids
<1>1. req[r] \in Request
    BY Zenon DEF TypeOK
<1> QED
    BY <1>1 DEF Request, Waiting, Idle

\* The tokens in the rows and among the exchanged ones were signed.
LEMMA TokensSigned ==
    ASSUME TypeOK
    PROVE  /\ \A s \in Sids : session[s].refreshHash \in Tokens
           /\ \A i \in 1 .. Len(exchanges) : exchanges[i] \in Tokens
    <1>1. \A s \in Sids : session[s] \in Session
        BY DEF TypeOK, Sids
    <1>2. \A s \in Sids : session[s].refreshHash \in Tokens
        BY Zenon, <1>1 DEF Session
    <1>3. \A i \in 1 .. Len(exchanges) : exchanges[i] \in Tokens
        BY DEF TypeOK
    <1> QED BY Zenon, <1>2, <1>3

\* What the end of a request leaves of the requests.
LEMMA FinishKeeps ==
    ASSUME TypeOK, NEW r \in Requests, Finish(r)
    PROVE  /\ req' \in [Requests -> Request]
           /\ \A q \in Requests : Waiting(q)' => Waiting(q) /\ req'[q] = req[q] /\ q # r
    <1>1. Idle \in Request /\ ~(Idle.pc \in {"swap", "revoke"})
        BY Zenon DEF Request, Idle
    <1> QED BY Zenon, <1>1 DEF TypeOK, Finish, Waiting

\* login keeps the invariant: the token of the new session is a new one.
LEMMA LoginStep ==
    ASSUME Inv, NEW u \in Users, Login(u)
    PROVE  Inv'
    <1> DEFINE row == [user |-> u, refreshHash |-> Fresh, revoked |-> FALSE, expired |-> FALSE]
    <1>0. TypeOK
        BY Zenon DEF Inv
    <1>1. /\ session' = Append(session, row) /\ signed' = Append(signed, Len(session) + 1)
          /\ UNCHANGED <<role, req, exchanges, told>>
          /\ delivered' \subseteq delivered \union {Fresh}
        BY Zenon DEF Login, Deliver
    <1>2. /\ Len(session) \in Nat /\ Len(signed) \in Nat /\ Len(exchanges) \in Nat
          /\ Len(session') = Len(session) + 1 /\ Len(signed') = Len(signed) + 1
          /\ \A s \in Sids : session'[s] = session[s]
          /\ session'[Len(session) + 1] = row
        BY <1>0, <1>1 DEF TypeOK, Sids
    <1>3. /\ Sids' = Sids \union {Len(session) + 1}
          /\ Tokens' = Tokens \union {Fresh}
          /\ Fresh \notin Tokens /\ Len(session) + 1 \notin Sids
        BY <1>2 DEF Sids, Tokens, Fresh
    <1>4. Session \subseteq Session' /\ row \in Session' /\ Request \subseteq Request'
        BY Zenon, <1>3 DEF Session, Request
    <1>5. TypeOK'
      <2>1. session' \in Seq(Session')
          BY <1>0, <1>1, <1>4 DEF TypeOK
      <2>2. signed' \in Seq(Sids')
          BY <1>0, <1>1, <1>3 DEF TypeOK
      <2>3. exchanges' \in Seq(Tokens')
          BY <1>0, <1>1, <1>3 DEF TypeOK
      <2> QED BY Zenon, <1>0, <1>1, <1>3, <1>4, <2>1, <2>2, <2>3 DEF TypeOK
    <1>6. row.refreshHash = Fresh /\ ~row.revoked
        BY Zenon
    <1>7. /\ \A s \in Sids : session[s].refreshHash \in Tokens
          /\ \A i \in 1 .. Len(exchanges) : exchanges[i] \in Tokens
        BY Zenon, <1>0, TokensSigned
    <1> HIDE DEF row
    <1>8. PendingIsNew'
      <2> SUFFICES ASSUME NEW r \in Requests, Waiting(r)
                   PROVE  /\ \A s \in Sids' : session'[s].refreshHash # req[r].next
                          /\ \A i \in 1 .. Len(exchanges) : exchanges[i] # req[r].next
                          /\ \A q \in Requests : Waiting(q) /\ q # r => req[q].next # req[r].next
          BY Zenon, <1>1 DEF PendingIsNew, Waiting
      <2>1. req[r].next \in Tokens
          BY Zenon, <1>0, WaitingType
      <2>2. \A s \in Sids : session[s].refreshHash # req[r].next
          BY Zenon DEF Inv, PendingIsNew
      <2>3. \A s \in Sids' : session'[s].refreshHash # req[r].next
          BY Zenon, <1>2, <1>3, <1>6, <2>1, <2>2
      <2> QED BY Zenon, <2>3 DEF Inv, PendingIsNew
    <1>9. CurrentIsNew'
      <2>1. \A s \in Sids' :
               \/ s \in Sids /\ session'[s].refreshHash = session[s].refreshHash
               \/ s = Len(session) + 1 /\ session'[s].refreshHash = Fresh
          BY Zenon, <1>2, <1>3, <1>6
      <2>2. /\ \A s \in Sids : \A i \in 1 .. Len(exchanges) : exchanges[i] # session[s].refreshHash
            /\ \A s, o \in Sids : session[o].refreshHash = session[s].refreshHash => o = s
          BY Zenon DEF Inv, CurrentIsNew
      <2>3. \A s \in Sids' : \A i \in 1 .. Len(exchanges) : exchanges[i] # session'[s].refreshHash
          BY Zenon, <1>3, <1>7, <2>1, <2>2
      <2>4. \A s, o \in Sids' : session'[o].refreshHash = session'[s].refreshHash => o = s
          BY <1>3, <1>7, <2>1, <2>2
      <2> QED BY Zenon, <1>1, <2>3, <2>4 DEF CurrentIsNew
    <1>10. ToldTruth'
      <2>1. \A e \in told : e[2] \in Sids
          BY Zenon, <1>0 DEF TypeOK
      <2> SUFFICES ASSUME NEW why \in {"reuse", "logout", "role"}, NEW s \in Sids',
                          <<why, s>> \in told
                   PROVE  session'[s].revoked
          BY Zenon, <1>1 DEF ToldTruth, Ended
      <2>2. s \in Sids
          BY Zenon, <2>1
      <2> QED BY Zenon, <1>2, <2>2 DEF Inv, ToldTruth, Ended
    <1>11. SingleUse' /\ Bounded'
      <2>1. Len(signed) < MaxTokens
          BY Zenon DEF Login
      <2> QED BY <1>1, <1>2, <2>1, AuthAssumption DEF Inv, SingleUse, Bounded
    <1> QED BY Zenon, <1>5, <1>8, <1>9, <1>10, <1>11 DEF Inv

\* A refresh that starts to wait has signed a new token.
LEMMA RefreshReadStep ==
    ASSUME Inv, NEW r \in Requests, NEW t \in delivered, RefreshRead(r, t)
    PROVE  Inv'
    <1> DEFINE now == [pc |-> "swap", on |-> signed[t], token |-> t, next |-> Fresh]
    <1>0. TypeOK
        BY Zenon DEF Inv
    <1>1. /\ signed' = Append(signed, signed[t]) /\ req' = [req EXCEPT ![r] = now]
          /\ UNCHANGED <<role, session, delivered, exchanges, told>>
        BY Zenon DEF RefreshRead, db
    <1>2. Len(signed) \in Nat /\ Len(signed') = Len(signed) + 1 /\ Len(exchanges) \in Nat
        BY <1>0, <1>1 DEF TypeOK
    <1>3. Sids' = Sids /\ Tokens' = Tokens \union {Fresh} /\ Fresh \notin Tokens
        BY <1>1, <1>2 DEF Sids, Tokens, Fresh
    <1>4. t \in Tokens /\ signed[t] \in Sids
        BY <1>0 DEF TypeOK, Tokens
    <1>5. Session \subseteq Session' /\ Request \subseteq Request' /\ now \in Request'
        BY Zenon, <1>3, <1>4 DEF Session, Request
    <1>6. TypeOK'
      <2>1. session' \in Seq(Session') /\ exchanges' \in Seq(Tokens')
          BY <1>0, <1>1, <1>3, <1>5 DEF TypeOK
      <2>2. signed' \in Seq(Sids')
          BY <1>0, <1>1, <1>3, <1>4 DEF TypeOK
      <2>3. req' \in [Requests -> Request']
          BY Zenon, <1>0, <1>1, <1>5 DEF TypeOK
      <2> QED BY Zenon, <1>0, <1>1, <1>3, <2>1, <2>2, <2>3 DEF TypeOK
    <1>7. now.next = Fresh /\ now.pc = "swap"
        BY Zenon
    <1>8. /\ \A s \in Sids : session[s].refreshHash \in Tokens
          /\ \A i \in 1 .. Len(exchanges) : exchanges[i] \in Tokens
        BY Zenon, <1>0, TokensSigned
    <1>9. req'[r] = now /\ \A q \in Requests : q # r => req'[q] = req[q]
        BY Zenon, <1>0, <1>1 DEF TypeOK
    <1> HIDE DEF now
    <1>10. PendingIsNew'
      <2>1. \A q \in Requests : Waiting(q)' =>
               \/ q = r /\ req'[q].next = Fresh
               \/ q # r /\ Waiting(q) /\ req'[q].next = req[q].next
          BY Zenon, <1>7, <1>9 DEF Waiting
      <2>2. \A q \in Requests : Waiting(q) => req[q].next \in Tokens
          BY Zenon, <1>0, WaitingType
      <2> QED BY <1>1, <1>3, <1>8, <2>1, <2>2 DEF Inv, PendingIsNew
    <1>11. CurrentIsNew' /\ SingleUse' /\ ToldTruth'
        BY Zenon, <1>1, <1>3 DEF Inv, CurrentIsNew, SingleUse, ToldTruth, Ended
    <1>12. Bounded'
        BY <1>2, AuthAssumption DEF RefreshRead, Bounded
    <1> QED BY Zenon, <1>6, <1>10, <1>11, <1>12 DEF Inv

\* The exchange: a token that was not exchanged leaves, a new one becomes current.
LEMMA RotateStep ==
    ASSUME Inv, NEW r \in Requests, Rotate(r)
    PROVE  Inv'
    <1> DEFINE s0 == req[r].on
               t0 == req[r].token
               n0 == req[r].next
    <1>0. TypeOK
        BY Zenon DEF Inv
    <1>1. /\ Waiting(r) /\ session[s0].refreshHash = t0
          /\ session' = [session EXCEPT ![s0].refreshHash = n0]
          /\ exchanges' = Append(exchanges, t0)
          /\ delivered' \subseteq delivered \union {n0}
          /\ Finish(r)
          /\ UNCHANGED <<role, signed, told>>
        BY Zenon DEF Rotate, Swaps, Deliver, Waiting
    <1>2. s0 \in Sids /\ t0 \in Tokens /\ n0 \in Tokens
        BY Zenon, <1>0, <1>1, WaitingType
    <1>3. /\ req' \in [Requests -> Request]
          /\ \A q \in Requests : Waiting(q)' => Waiting(q) /\ req'[q] = req[q] /\ q # r
        BY Zenon, <1>0, <1>1, FinishKeeps
    <1>4. Len(session') = Len(session) /\ Sids' = Sids /\ Tokens' = Tokens
        BY <1>0, <1>1, <1>2 DEF TypeOK, Sids, Tokens
    <1>5. Session' = Session /\ Request' = Request
        BY Zenon, <1>4 DEF Session, Request
    <1>6. \A s \in Sids : session[s] \in Session
        BY <1>0 DEF TypeOK, Sids
    <1>7. session' \in Seq(Session)
      <2>1. [session[s0] EXCEPT !.refreshHash = n0] \in Session
          BY Zenon, <1>2, <1>6 DEF Session
      <2>2. session' = [session EXCEPT ![s0] = [session[s0] EXCEPT !.refreshHash = n0]]
          BY Zenon, <1>1
      <2> QED BY <1>0, <1>2, <2>1, <2>2 DEF TypeOK, Sids
    <1>8. /\ Len(exchanges) \in Nat /\ Len(exchanges') = Len(exchanges) + 1
          /\ exchanges'[Len(exchanges) + 1] = t0
          /\ \A i \in 1 .. Len(exchanges) : exchanges'[i] = exchanges[i]
          /\ exchanges' \in Seq(Tokens)
        BY <1>0, <1>1, <1>2 DEF TypeOK
    <1>9. TypeOK'
        BY Zenon, <1>0, <1>1, <1>2, <1>3, <1>4, <1>5, <1>7, <1>8 DEF TypeOK
    <1>10. /\ session'[s0].refreshHash = n0
           /\ session'[s0].revoked = session[s0].revoked
           /\ \A s \in Sids : s # s0 => session'[s] = session[s]
      <2>1. session[s0] \in Session
          BY Zenon, <1>2, <1>6
      <2> QED BY <1>0, <1>1, <1>2, <2>1 DEF TypeOK, Sids, Session
    <1>11. n0 # t0 /\ \A s \in Sids : session[s].refreshHash # n0
        BY Zenon, <1>1, <1>2 DEF Inv, PendingIsNew
    <1>12. \A i \in 1 .. Len(exchanges) : exchanges[i] # t0 /\ exchanges[i] # n0
        BY Zenon, <1>1, <1>2 DEF Inv, PendingIsNew, CurrentIsNew
    <1>13. \A q \in Requests : Waiting(q) =>
              /\ \A s \in Sids : session[s].refreshHash # req[q].next
              /\ \A i \in 1 .. Len(exchanges) : exchanges[i] # req[q].next
              /\ q # r => req[q].next # n0
              /\ req[q].next # t0
              /\ \A p \in Requests : Waiting(p) /\ p # q => req[p].next # req[q].next
        BY Zenon, <1>1, <1>2 DEF Inv, PendingIsNew
    <1>14. \A i \in 1 .. Len(exchanges') : i \in 1 .. Len(exchanges) \/ i = Len(exchanges) + 1
        BY <1>8
    <1>15. \A s, o \in Sids : session[s].refreshHash = session[o].refreshHash => s = o
        BY Zenon DEF Inv, CurrentIsNew
    <1> HIDE DEF s0, t0, n0
    <1>16. PendingIsNew'
      <2> SUFFICES ASSUME NEW q \in Requests, Waiting(q)'
                   PROVE  /\ \A s \in Sids : session'[s].refreshHash # req'[q].next
                          /\ \A i \in 1 .. Len(exchanges') : exchanges'[i] # req'[q].next
                          /\ \A p \in Requests : Waiting(p)' /\ p # q => req'[p].next # req'[q].next
          BY Zenon, <1>4 DEF PendingIsNew
      <2>1. Waiting(q) /\ req'[q] = req[q] /\ q # r
          BY Zenon, <1>3
      <2>2. \A s \in Sids : session'[s].refreshHash # req[q].next
          BY Zenon, <1>10, <1>13, <2>1
      <2>3. \A i \in 1 .. Len(exchanges') : exchanges'[i] # req[q].next
          BY Zenon, <1>8, <1>13, <1>14, <2>1
      <2>4. \A p \in Requests : Waiting(p)' /\ p # q => req'[p].next # req[q].next
          BY Zenon, <1>3, <1>13, <2>1
      <2> QED BY Zenon, <2>1, <2>2, <2>3, <2>4
    <1>17. CurrentIsNew'
      <2>1. \A s \in Sids : \A i \in 1 .. Len(exchanges) : exchanges[i] # session[s].refreshHash
          BY Zenon DEF Inv, CurrentIsNew
      <2>2. \A s \in Sids : s # s0 => session[s].refreshHash # t0
          BY Zenon, <1>1, <1>2, <1>15
      <2>3. \A s \in Sids : \A i \in 1 .. Len(exchanges') : exchanges'[i] # session'[s].refreshHash
          BY Zenon, <1>8, <1>10, <1>11, <1>12, <1>14, <2>1, <2>2
      <2>4. \A s, o \in Sids : session'[o].refreshHash = session'[s].refreshHash => o = s
          BY Zenon, <1>10, <1>11, <1>15
      <2> QED BY Zenon, <1>4, <2>3, <2>4 DEF CurrentIsNew
    <1>18. SingleUse'
        BY Zenon, <1>8, <1>12, <1>14 DEF Inv, SingleUse
    <1>19. ToldTruth'
        BY Zenon, <1>1, <1>4, <1>10 DEF Inv, ToldTruth, Ended
    <1>20. Bounded'
        BY Zenon, <1>1 DEF Inv, Bounded
    <1> QED BY Zenon, <1>9, <1>16, <1>17, <1>18, <1>19, <1>20 DEF Inv

\* An update of one row that ends its session.
LEMMA EndOne ==
    ASSUME TypeOK, NEW s0 \in Sids, NEW row,
           row \in {[session[s0] EXCEPT !.revoked = TRUE], [session[s0] EXCEPT !.expired = TRUE]},
           session' = [session EXCEPT ![s0] = row]
    PROVE  /\ session' \in Seq(Session) /\ Len(session') = Len(session)
           /\ \A s \in Sids : session'[s].refreshHash = session[s].refreshHash
           /\ \A s \in Sids : session[s].revoked => session'[s].revoked
           /\ \A s \in Sids : Live(s)' => Live(s)
    <1>1. \A s \in Sids : session[s] \in Session
        BY DEF TypeOK, Sids
    <1>2. /\ row \in Session /\ row.refreshHash = session[s0].refreshHash
          /\ session[s0].revoked => row.revoked
          /\ session[s0].expired => row.expired
        BY Zenon, <1>1 DEF Session
    <1>3. session' \in Seq(Session) /\ Len(session') = Len(session)
        BY <1>2 DEF TypeOK, Sids
    <1>4. session'[s0] = row /\ \A s \in Sids : s # s0 => session'[s] = session[s]
        BY DEF TypeOK, Sids
    <1> HIDE DEF Sids
    <1>5. \A s \in Sids : Live(s)' => Live(s)
        BY Zenon, <1>2, <1>4 DEF Live
    <1> QED BY Zenon, <1>2, <1>3, <1>4, <1>5

\* The updates that end sessions, one row at a time: reuse, logout and age.
LEMMA OneEnds ==
    ASSUME Inv,
           \/ \E r \in Requests : RevokeReused(r)
           \/ \E t \in delivered : Logout(t)
           \/ \E s \in Sids : Expire(s)
    PROVE  Inv'
    <1>0. TypeOK
        BY Zenon DEF Inv
    <1>1. ASSUME NEW r \in Requests, RevokeReused(r) PROVE Inv'
      <2>1. Waiting(r)
          BY Zenon, <1>1 DEF RevokeReused, Waiting
      <2>2. req[r].on \in Sids
          BY Zenon, <1>0, <2>1, WaitingType
      <2>3. session' = [session EXCEPT ![req[r].on] = [session[req[r].on] EXCEPT !.revoked = TRUE]]
          BY Zenon, <1>1 DEF RevokeReused
      <2>4. session'[req[r].on].revoked
          BY <1>0, <2>2, <2>3 DEF TypeOK, Sids, Session
      <2>5. told' = told \union {<<"reuse", req[r].on>>}
          BY Zenon, <1>1 DEF RevokeReused, Tell
      <2>6. /\ told' \subseteq {"reuse", "logout", "role"} \X Sids
            /\ \A e \in told' : e \in told \/ session'[e[2]].revoked
          BY <1>0, <2>2, <2>4, <2>5 DEF TypeOK
      <2>7. /\ req' \in [Requests -> Request]
            /\ \A q \in Requests : Waiting(q)' => Waiting(q) /\ req'[q] = req[q]
          BY Zenon, <1>0, <1>1, FinishKeeps DEF RevokeReused
      <2>8. UNCHANGED <<role, signed, exchanges, delivered>> /\ role \in [Users -> UserRole \union {NULL}]
          BY Zenon, <1>0, <1>1 DEF RevokeReused, TypeOK
      <2>9. /\ session' \in Seq(Session) /\ Len(session') = Len(session)
            /\ \A s \in Sids : session'[s].refreshHash = session[s].refreshHash
            /\ \A s \in Sids : session[s].revoked => session'[s].revoked
          BY Zenon, <1>0, <2>2, <2>3, EndOne
      <2> QED BY Zenon, <2>6, <2>7, <2>8, <2>9, EndingStep
    <1>2. ASSUME NEW t \in delivered, Logout(t) PROVE Inv'
      <2>2. signed[t] \in Sids
          BY <1>0 DEF TypeOK, Tokens
      <2>3. session' = [session EXCEPT ![signed[t]] = [session[signed[t]] EXCEPT !.revoked = TRUE]]
          BY Zenon, <1>2 DEF Logout
      <2>4. session'[signed[t]].revoked
          BY <1>0, <2>2, <2>3 DEF TypeOK, Sids, Session
      <2>5. told' = told \union {<<"logout", signed[t]>>}
          BY Zenon, <1>2 DEF Logout, Tell
      <2>6. /\ told' \subseteq {"reuse", "logout", "role"} \X Sids
            /\ \A e \in told' : e \in told \/ session'[e[2]].revoked
          BY <1>0, <2>2, <2>4, <2>5 DEF TypeOK
      <2>7. /\ UNCHANGED <<role, signed, exchanges, delivered, req>>
            /\ role \in [Users -> UserRole \union {NULL}] /\ req \in [Requests -> Request]
          BY Zenon, <1>0, <1>2 DEF Logout, TypeOK
      <2>8. \A q \in Requests : Waiting(q)' => Waiting(q) /\ req'[q] = req[q]
          BY Zenon, <2>7 DEF Waiting
      <2>9. /\ session' \in Seq(Session) /\ Len(session') = Len(session)
            /\ \A s \in Sids : session'[s].refreshHash = session[s].refreshHash
            /\ \A s \in Sids : session[s].revoked => session'[s].revoked
          BY Zenon, <1>0, <2>2, <2>3, EndOne
      <2> QED BY Zenon, <2>6, <2>7, <2>8, <2>9, EndingStep
    <1>3. ASSUME NEW s \in Sids, Expire(s) PROVE Inv'
      <2>3. session' = [session EXCEPT ![s] = [session[s] EXCEPT !.expired = TRUE]]
          BY Zenon, <1>3 DEF Expire
      <2>7. /\ UNCHANGED <<role, signed, exchanges, delivered, req, told>>
            /\ role \in [Users -> UserRole \union {NULL}] /\ req \in [Requests -> Request]
            /\ told \subseteq {"reuse", "logout", "role"} \X Sids
          BY Zenon, <1>0, <1>3 DEF Expire, TypeOK
      <2>8. \A q \in Requests : Waiting(q)' => Waiting(q) /\ req'[q] = req[q]
          BY Zenon, <2>7 DEF Waiting
      <2>9. /\ session' \in Seq(Session) /\ Len(session') = Len(session)
            /\ \A o \in Sids : session'[o].refreshHash = session[o].refreshHash
            /\ \A o \in Sids : session[o].revoked => session'[o].revoked
          BY Zenon, <1>0, <2>3, EndOne
      <2> QED BY Zenon, <2>7, <2>8, <2>9, EndingStep
    <1> QED BY Zenon, <1>1, <1>2, <1>3

\* The rows after a change of role.
LEMMA EndMany ==
    ASSUME TypeOK, NEW u,
           session' = [s \in Sids |-> [session[s] EXCEPT !.revoked = @ \/ session[s].user = u]]
    PROVE  /\ session' \in Seq(Session) /\ Len(session') = Len(session)
           /\ \A s \in Sids : session'[s].refreshHash = session[s].refreshHash
           /\ \A s \in Sids : session[s].revoked => session'[s].revoked
           /\ \A s \in SessionsOf(u) : session'[s].revoked
           /\ \A s \in Sids : Live(s)' => Live(s)
    <1>1. \A s \in Sids : session[s] \in Session
        BY DEF TypeOK, Sids
    <1>2. \A s \in Sids :
             /\ session'[s] \in Session
             /\ session'[s].refreshHash = session[s].refreshHash
             /\ session'[s].expired = session[s].expired
             /\ session'[s].revoked <=> session[s].revoked \/ session[s].user = u
        BY Zenon, <1>1 DEF Session
    <1>3. session' \in Seq(Session) /\ Len(session') = Len(session)
        BY Zenon, <1>2, UpdatedRows
    <1>4. \A s \in Sids : Live(s)' => Live(s)
        BY Zenon, <1>2 DEF Live
    <1> QED BY Zenon, <1>2, <1>3, <1>4 DEF SessionsOf

\* A change of role ends the sessions it tells of.
LEMMA UpdateRoleStep ==
    ASSUME Inv, NEW r \in Requests, NEW u \in Users, NEW new \in UserRole, UpdateRole(r, u, new)
    PROVE  Inv'
    <1>0. TypeOK
        BY Zenon DEF Inv
    <1>1. /\ session' \in Seq(Session) /\ Len(session') = Len(session)
          /\ \A s \in Sids : session'[s].refreshHash = session[s].refreshHash
          /\ \A s \in Sids : session[s].revoked => session'[s].revoked
          /\ \A s \in SessionsOf(u) : session'[s].revoked
        BY Zenon, <1>0, EndMany DEF UpdateRole
    <1>2. told' = told \union {<<"role", s>> : s \in SessionsOf(u)}
        BY Zenon DEF UpdateRole, Tell
    <1>3. /\ told' \subseteq {"reuse", "logout", "role"} \X Sids
          /\ \A e \in told' : e \in told \/ session'[e[2]].revoked
        BY <1>0, <1>1, <1>2 DEF TypeOK, SessionsOf
    <1>4. /\ req' \in [Requests -> Request]
          /\ \A q \in Requests : Waiting(q)' => Waiting(q) /\ req'[q] = req[q]
        BY Zenon, <1>0, FinishKeeps DEF UpdateRole
    <1>5. UNCHANGED <<signed, exchanges, delivered>> /\ role' \in [Users -> UserRole \union {NULL}]
        BY Zenon, <1>0 DEF UpdateRole, TypeOK
    <1> QED BY Zenon, <1>1, <1>3, <1>4, <1>5, EndingStep

\* The steps that change neither sessions nor tokens.
LEMMA QuietActions ==
    ASSUME Inv, NEW r \in Requests,
           \/ \E t \in delivered : AccessSession(r, signed[t])
           \/ SwapRefused(r)
           \/ AccessUser(r)
           \/ Authorize(r)
           \/ \E u \in Users, new \in UserRole : Create(r, u, new)
           \/ Abort(r)
    PROVE  Inv' /\ UNCHANGED <<session, exchanges>>
    <1>0. /\ TypeOK /\ role \in [Users -> UserRole \union {NULL}]
          /\ req \in [Requests -> Request]
        BY Zenon DEF Inv, TypeOK
    <1>1. UNCHANGED <<session, signed, exchanges, told, delivered>>
        BY Zenon DEF AccessSession, SwapRefused, AccessUser, Authorize, AdminCheck, Create, Abort, db
    <1>2. role' \in [Users -> UserRole \union {NULL}]
      <2>1. CASE UNCHANGED role
          BY Zenon, <1>0, <2>1
      <2>2. ASSUME NEW u \in Users, NEW new \in UserRole, Create(r, u, new)
            PROVE  role' \in [Users -> UserRole \union {NULL}]
          BY Zenon, <1>0, <2>2 DEF Create
      <2> QED BY Zenon, <2>1, <2>2
              DEF AccessSession, SwapRefused, AccessUser, Authorize, AdminCheck, Abort, db
    <1>3. CASE Finish(r)
      <2>1. /\ req' \in [Requests -> Request]
            /\ \A q \in Requests : Waiting(q)' => Waiting(q) /\ req'[q].next = req[q].next
          BY Zenon, <1>0, <1>3, FinishKeeps
      <2> QED BY Zenon, <1>1, <1>2, <2>1, QuietStep
    <1>4. ASSUME NEW t \in delivered, AccessSession(r, signed[t]) PROVE Inv'
      <2> DEFINE now == [Idle EXCEPT !.pc = "user", !.on = signed[t]]
      <2>1. signed[t] \in Sids
          BY <1>0 DEF TypeOK, Tokens
      <2>2. now \in Request /\ now.pc = "user"
          BY Zenon, <2>1 DEF Request, Idle
      <2>3. req' = [req EXCEPT ![r] = now]
          BY Zenon, <1>4 DEF AccessSession
      <2> HIDE DEF now
      <2>4. /\ req' \in [Requests -> Request]
            /\ \A q \in Requests : Waiting(q)' => Waiting(q) /\ req'[q].next = req[q].next
          BY Zenon, <1>0, <2>2, <2>3 DEF Waiting
      <2> QED BY Zenon, <1>1, <1>2, <2>4, QuietStep
    <1>5. CASE SwapRefused(r)
      <2>1. req[r] \in [pc : {"swap", "revoke"}, on : Sids, token : Tokens, next : Tokens]
          BY <1>0, <1>5 DEF SwapRefused, Request, Idle
      <2>2. /\ [req[r] EXCEPT !.pc = "revoke"] \in Request
            /\ [req[r] EXCEPT !.pc = "revoke"].next = req[r].next
          BY Zenon, <2>1 DEF Request
      <2>3. req' = [req EXCEPT ![r] = [req[r] EXCEPT !.pc = "revoke"]] /\ Waiting(r)
          BY Zenon, <1>5 DEF SwapRefused, Goto, Waiting
      <2>4. /\ req' \in [Requests -> Request]
            /\ \A q \in Requests : Waiting(q)' => Waiting(q) /\ req'[q].next = req[q].next
          BY Zenon, <1>0, <2>2, <2>3 DEF Waiting
      <2> QED BY Zenon, <1>1, <1>2, <2>4, QuietStep
    <1>6. ASSUME NEW from \in {"user", "authorize"}, NEW to \in {"authorize", "write"},
                 AdminCheck(r, from, to)
          PROVE  Inv'
      <2>1. CASE Finish(r)
          BY Zenon, <1>3, <2>1
      <2>2. CASE Goto(r, to)
        <3>1. req[r] \in [pc : {"user", "authorize", "write"}, on : Sids, token : {NULL}, next : {NULL}]
            BY <1>0, <1>6 DEF AdminCheck, Request, Idle
        <3>2. [req[r] EXCEPT !.pc = to] \in Request /\ [req[r] EXCEPT !.pc = to].pc = to
            BY Zenon, <3>1 DEF Request
        <3>3. req' = [req EXCEPT ![r] = [req[r] EXCEPT !.pc = to]]
            BY Zenon, <2>2 DEF Goto
        <3>4. /\ req' \in [Requests -> Request]
              /\ \A q \in Requests : Waiting(q)' => Waiting(q) /\ req'[q].next = req[q].next
            BY Zenon, <1>0, <3>2, <3>3 DEF Waiting
        <3> QED BY Zenon, <1>1, <1>2, <3>4, QuietStep
      <2> QED BY Zenon, <1>6, <2>1, <2>2 DEF AdminCheck
    <1> QED BY Zenon, <1>1, <1>3, <1>4, <1>5, <1>6 DEF AccessUser, Authorize, Create, Abort

\* Every step keeps the invariant.
LEMMA InvNext == Inv /\ [Next]_vars => Inv'
    <1> SUFFICES ASSUME Inv, [Next]_vars PROVE Inv'
        BY Zenon
    <1>1. CASE UNCHANGED vars
      <2>1. /\ UNCHANGED <<role, session, signed, delivered, req, exchanges, told>>
            /\ role \in [Users -> UserRole \union {NULL}] /\ req \in [Requests -> Request]
          BY Zenon, <1>1 DEF vars, db, Inv, TypeOK
      <2>2. \A r \in Requests : Waiting(r)' => Waiting(r) /\ req'[r].next = req[r].next
          BY Zenon, <2>1 DEF Waiting
      <2> QED BY Zenon, <2>1, <2>2, QuietStep
    <1>2. ASSUME NEW u \in Users, Login(u) PROVE Inv'
        BY Zenon, <1>2, LoginStep
    <1>3. ASSUME \/ \E t \in delivered : Logout(t)
                 \/ \E s \in Sids : Expire(s)
                 \/ \E r \in Requests : RevokeReused(r)
          PROVE  Inv'
        BY Zenon, <1>3, OneEnds
    <1>4. ASSUME NEW r \in Requests, NEW t \in delivered, RefreshRead(r, t) PROVE Inv'
        BY Zenon, <1>4, RefreshReadStep
    <1>5. ASSUME NEW r \in Requests, Rotate(r) PROVE Inv'
        BY Zenon, <1>5, RotateStep
    <1>6. ASSUME NEW r \in Requests, NEW u \in Users, NEW new \in UserRole, UpdateRole(r, u, new)
          PROVE  Inv'
        BY Zenon, <1>6, UpdateRoleStep
    <1> QED BY Zenon, <1>1, <1>2, <1>3, <1>4, <1>5, <1>6, QuietActions DEF Next, Step

\* The rows, tokens and requests keep their types, and the invariant holds throughout.
THEOREM Invariant == Spec => []Inv
    <1>1. Init => Inv
        BY Zenon, InvInit
    <1>2. Inv /\ [Next]_vars => Inv'
        BY Zenon, InvNext
    <1> QED BY <1>1, <1>2, PTL DEF Spec

\* No refresh token is ever exchanged twice, for any number of requests and sessions
\* (the compare-and-swap of refreshTokens).
THEOREM TokensSingleUse == Spec => []SingleUse
    <1>1. Inv => SingleUse
        BY Zenon DEF Inv
    <1> QED BY <1>1, Invariant, PTL

\* A session whose reuse was reported is revoked (the branch of refreshTokens that
\* revokes before it answers).
THEOREM ReportedIsOver == Spec => []ReuseEndsSession
    <1>1. Inv => ReuseEndsSession
        BY Zenon DEF Inv, ToldTruth, ReuseEndsSession
    <1> QED BY <1>1, Invariant, PTL

\* A session that logged out is revoked (logout), whatever refreshes were under way.
THEOREM LoggedOutIsOver == Spec => []LogoutEndsSession
    <1>1. Inv => LogoutEndsSession
        BY Zenon DEF Inv, ToldTruth, LogoutEndsSession
    <1> QED BY <1>1, Invariant, PTL

\* The sessions of a user whose role changed are revoked (updateRole).
THEOREM OldRoleIsOver == Spec => []RoleChangeEndsSessions
    <1>1. Inv => RoleChangeEndsSessions
        BY Zenon DEF Inv, ToldTruth, RoleChangeEndsSessions
    <1> QED BY <1>1, Invariant, PTL

-----------------------------------------------------------------------------
\* How a step changes the rows: not at all, a session opens, some end, one rotates.
LEMMA RowSteps ==
    ASSUME Inv, [Next]_vars
    PROVE  \/ UNCHANGED <<session, exchanges>>
           \/ \E u \in Users : Login(u)
           \/ \E r \in Requests : Rotate(r)
           \/ /\ UNCHANGED exchanges
              /\ session' \in Seq(Session) /\ Len(session') = Len(session)
              /\ \A s \in Sids : session'[s].refreshHash = session[s].refreshHash
              /\ \A s \in Sids : session[s].revoked => session'[s].revoked
              /\ \A s \in Sids : Live(s)' => Live(s)
    <1> DEFINE Ending == /\ UNCHANGED exchanges
                         /\ session' \in Seq(Session) /\ Len(session') = Len(session)
                         /\ \A s \in Sids : session'[s].refreshHash = session[s].refreshHash
                         /\ \A s \in Sids : session[s].revoked => session'[s].revoked
                         /\ \A s \in Sids : Live(s)' => Live(s)
    <1>0. TypeOK
        BY Zenon DEF Inv
    <1>1. ASSUME NEW r \in Requests, RevokeReused(r) PROVE Ending
      <2>1. req[r].on \in Sids
          BY Zenon, <1>0, <1>1, WaitingType DEF RevokeReused, Waiting
      <2>2. session' = [session EXCEPT ![req[r].on] = [session[req[r].on] EXCEPT !.revoked = TRUE]]
          BY Zenon, <1>1 DEF RevokeReused
      <2>3. UNCHANGED exchanges
          BY Zenon, <1>1 DEF RevokeReused
      <2> QED BY Zenon, <1>0, <2>1, <2>2, <2>3, EndOne
    <1>2. ASSUME NEW t \in delivered, Logout(t) PROVE Ending
      <2>1. signed[t] \in Sids
          BY <1>0 DEF TypeOK, Tokens
      <2>2. session' = [session EXCEPT ![signed[t]] = [session[signed[t]] EXCEPT !.revoked = TRUE]]
          BY Zenon, <1>2 DEF Logout
      <2>3. UNCHANGED exchanges
          BY Zenon, <1>2 DEF Logout
      <2> QED BY Zenon, <1>0, <2>1, <2>2, <2>3, EndOne
    <1>3. ASSUME NEW s \in Sids, Expire(s) PROVE Ending
      <2>1. session' = [session EXCEPT ![s] = [session[s] EXCEPT !.expired = TRUE]]
          BY Zenon, <1>3 DEF Expire
      <2>2. UNCHANGED exchanges
          BY Zenon, <1>3 DEF Expire
      <2> QED BY Zenon, <1>0, <2>1, <2>2, EndOne
    <1>4. ASSUME NEW r \in Requests, NEW u \in Users, NEW new \in UserRole, UpdateRole(r, u, new)
          PROVE  Ending
      <2>1. UNCHANGED exchanges
          BY Zenon, <1>4 DEF UpdateRole
      <2>2. session' = [s \in Sids |-> [session[s] EXCEPT !.revoked = @ \/ session[s].user = u]]
          BY Zenon, <1>4 DEF UpdateRole
      <2> QED BY Zenon, <1>0, <2>1, <2>2, EndMany
    <1>5. ASSUME NEW r \in Requests, NEW t \in delivered, RefreshRead(r, t)
          PROVE  UNCHANGED <<session, exchanges>>
        BY Zenon, <1>5 DEF RefreshRead, db
    <1>6. ASSUME UNCHANGED vars PROVE UNCHANGED <<session, exchanges>>
        BY Zenon, <1>6 DEF vars, db
    <1> HIDE DEF Ending
    <1>7. \/ UNCHANGED <<session, exchanges>>
          \/ \E u \in Users : Login(u)
          \/ \E r \in Requests : Rotate(r)
          \/ Ending
      <2>1. ASSUME NEW r \in Requests, Step(r)
            PROVE  UNCHANGED <<session, exchanges>> \/ Rotate(r) \/ Ending
          BY Zenon, <1>1, <1>4, <1>5, <2>1, QuietActions DEF Step
      <2> QED BY Zenon, <1>2, <1>3, <1>6, <2>1 DEF Next
    <1> QED BY Zenon, <1>7 DEF Ending

\* The exchange of a token, as it changes the rows.
LEMMA RotatedRow ==
    ASSUME Inv, NEW r \in Requests, Rotate(r)
    PROVE  /\ req[r].on \in Sids /\ Live(req[r].on)
           /\ session[req[r].on].refreshHash = req[r].token
           /\ Len(session') = Len(session)
           /\ session'[req[r].on].refreshHash = req[r].next
           /\ session'[req[r].on].revoked = session[req[r].on].revoked
           /\ \A s \in Sids : Live(s)' <=> Live(s)
           /\ \A s \in Sids : s # req[r].on => session'[s] = session[s]
    <1>0. TypeOK
        BY Zenon DEF Inv
    <1>1. Live(req[r].on) /\ session[req[r].on].refreshHash = req[r].token /\ Waiting(r)
        BY Zenon DEF Rotate, Swaps, Waiting
    <1>2. req[r].on \in Sids
        BY Zenon, <1>0, <1>1, WaitingType
    <1>3. session[req[r].on] \in Session
        BY <1>0, <1>2 DEF TypeOK, Sids
    <1> DEFINE row == [session[req[r].on] EXCEPT !.refreshHash = req[r].next]
    <1>4. session' = [session EXCEPT ![req[r].on] = row]
        BY Zenon DEF Rotate
    <1>5. /\ row.refreshHash = req[r].next /\ row.revoked = session[req[r].on].revoked
          /\ row.expired = session[req[r].on].expired
        BY Zenon, <1>3 DEF Session
    <1> HIDE DEF row
    <1>6. /\ Len(session') = Len(session) /\ session'[req[r].on] = row
          /\ \A s \in Sids : s # req[r].on => session'[s] = session[s]
        BY <1>0, <1>2, <1>4 DEF TypeOK, Sids
    <1>7. /\ session'[req[r].on].refreshHash = req[r].next
          /\ session'[req[r].on].revoked = session[req[r].on].revoked
          /\ session'[req[r].on].expired = session[req[r].on].expired
        BY Zenon, <1>5, <1>6
    <1>8. \A s \in Sids : Live(s)' <=> Live(s)
        BY Zenon, <1>6, <1>7 DEF Live
    <1> QED BY Zenon, <1>1, <1>2, <1>6, <1>7, <1>8

\* The row that login appends.
LEMMA OpenedRow ==
    ASSUME Inv, NEW u \in Users, Login(u)
    PROVE  /\ UNCHANGED exchanges
           /\ Len(session') = Len(session) + 1 /\ Len(session) \in Nat
           /\ session'[Len(session) + 1].refreshHash = Fresh
           /\ ~session'[Len(session) + 1].revoked /\ ~session'[Len(session) + 1].expired
           /\ \A s \in Sids : session'[s] = session[s]
           /\ Fresh \in 1 .. MaxTokens /\ Fresh \notin Tokens
    <1> DEFINE row == [user |-> u, refreshHash |-> Fresh, revoked |-> FALSE, expired |-> FALSE]
    <1>1. session' = Append(session, row) /\ Len(signed) < MaxTokens /\ UNCHANGED exchanges
        BY Zenon DEF Login
    <1>2. row.refreshHash = Fresh /\ ~row.revoked /\ ~row.expired
        BY Zenon
    <1> HIDE DEF row
    <1>3. session \in Seq(Session) /\ Len(signed) \in Nat
        BY DEF Inv, TypeOK
    <1>4. Fresh \in 1 .. MaxTokens /\ Fresh \notin Tokens
        BY <1>1, <1>3, AuthAssumption DEF Fresh, Tokens
    <1> QED BY <1>1, <1>2, <1>3, <1>4 DEF Sids

\* A revoked session never comes back and its token is never rotated again, whatever
\* a refresh read before the revocation.
THEOREM RevokedForGood == Spec => RevokedIsFinal
    <1> DEFINE Kept == \A s \in Sids : session[s].revoked =>
                  session'[s].revoked /\ session'[s].refreshHash = session[s].refreshHash
    <1>1. Inv /\ [Next]_vars => Kept
      <2> SUFFICES ASSUME Inv, [Next]_vars PROVE Kept
          BY Zenon
      <2>1. CASE UNCHANGED <<session, exchanges>>
          BY Zenon, <2>1
      <2>2. ASSUME NEW u \in Users, Login(u) PROVE Kept
          BY Zenon, <2>2, OpenedRow
      <2>3. ASSUME NEW r \in Requests, Rotate(r) PROVE Kept
          BY Zenon, <2>3, RotatedRow DEF Live
      <2> QED BY Zenon, <2>1, <2>2, <2>3, RowSteps
    <1>2. Inv /\ [Next]_vars => [Kept]_vars
        BY Zenon, <1>1
    <1> QED BY <1>2, Invariant, PTL DEF Spec, RevokedIsFinal

-----------------------------------------------------------------------------
Current == [s \in Sids |-> session[s].refreshHash]
Over    == {s \in Sids : ~Live(s)}
Spent   == {exchanges[i] : i \in 1 .. Len(exchanges)}

\* The abstract sequence of tokens has one for each row.
LEMMA CurrentSeq ==
    ASSUME TypeOK
    PROVE  /\ Current \in Seq(Tokens) /\ Len(Current) = Len(session)
           /\ 1 .. Len(Current) = Sids
           /\ \A s \in Sids : Current[s] = session[s].refreshHash
    <1>1. Len(session) \in Nat
        BY DEF TypeOK
    <1>2. \A s \in Sids : session[s].refreshHash \in Tokens
        BY Zenon, TokensSigned
    <1>3. Current = [s \in 1 .. Len(session) |-> Current[s]] /\ \A s \in Sids : Current[s] \in Tokens
        BY Zenon, <1>2 DEF Current, Sids
    <1>4. Current \in Seq(Tokens) /\ Len(Current) = Len(session)
        BY Zenon, <1>1, <1>3, SeqByElements DEF Sids
    <1> QED BY Zenon, <1>4 DEF Current, Sids

\* A token that no session has and that was not exchanged is new to the store.
LEMMA NewToken ==
    ASSUME TypeOK, NEW t, \A s \in Sids : session[s].refreshHash # t,
           \A i \in 1 .. Len(exchanges) : exchanges[i] # t
    PROVE  Store!New(t)
    BY Zenon, CurrentSeq DEF Store!New, Current

\* Every step of the API is a step of the abstract store, or none.
LEMMA StoreStep ==
    ASSUME Inv, Inv', [Next]_vars
    PROVE  [Store!Next]_(Store!vars)
    <1>0. TypeOK /\ TypeOK'
        BY Zenon DEF Inv
    <1>1. /\ Current \in Seq(Tokens) /\ Len(Current) = Len(session) /\ 1 .. Len(Current) = Sids
          /\ \A s \in Sids : Current[s] = session[s].refreshHash
          /\ DOMAIN Current = Sids
        BY Zenon, <1>0, CurrentSeq DEF Current
    <1>2. Len(session) \in Nat /\ Len(exchanges) \in Nat
        BY <1>0 DEF TypeOK
    <1>3. CASE UNCHANGED <<session, exchanges>>
      <2>1. Current' = Current /\ Over' = Over /\ Spent' = Spent
          BY Zenon, <1>3 DEF Current, Over, Spent, Sids, Live
      <2> QED BY Zenon, <2>1 DEF Store!vars, Current, Over, Spent
    <1>4. ASSUME NEW u \in Users, Login(u) PROVE Store!Open
      <2>1. /\ UNCHANGED exchanges
            /\ Len(session') = Len(session) + 1
            /\ session'[Len(session) + 1].refreshHash = Fresh
            /\ ~session'[Len(session) + 1].revoked /\ ~session'[Len(session) + 1].expired
            /\ \A s \in Sids : session'[s] = session[s]
            /\ Fresh \in 1 .. MaxTokens /\ Fresh \notin Tokens
          BY Zenon, <1>4, OpenedRow
      <2>2. Sids' = 1 .. (Len(session) + 1) /\ Sids = 1 .. Len(session)
          BY Zenon, <2>1 DEF Sids
      <2>3. Store!New(Fresh)
          BY Zenon, <1>0, <2>1, TokensSigned, NewToken
      <2>4. Current' = Append(Current, Fresh)
        <3>1. Current' \in Seq(Tokens') /\ Len(Current') = Len(Current) + 1
          <4>1. \A s \in Sids' : session'[s] \in Session'
              BY <1>0 DEF TypeOK, Sids
          <4>2. \A s \in Sids' : session'[s].refreshHash \in Tokens'
              BY Zenon, <4>1 DEF Session
          <4>3. /\ Current' = [s \in 1 .. Len(session') |-> Current'[s]]
                /\ \A s \in 1 .. Len(session') : Current'[s] \in Tokens'
              BY Zenon, <4>2 DEF Current, Sids
          <4>4. Len(session') \in Nat
              BY <1>2, <2>1
          <4> QED BY Zenon, <1>1, <2>1, <4>3, <4>4, SeqByElements
        <3>2. Append(Current, Fresh) \in Seq(Tokens \union {Fresh}) /\ Len(Append(Current, Fresh)) = Len(Current) + 1
            BY <1>1
        <3>3. \A s \in Sids : Current'[s] = Current[s]
            BY <1>1, <1>2, <2>1, <2>2 DEF Current
        <3>4. Current'[Len(Current) + 1] = Fresh
            BY <1>1, <1>2, <2>1, <2>2 DEF Current
        <3>5. /\ \A s \in Sids : Append(Current, Fresh)[s] = Current[s]
              /\ Append(Current, Fresh)[Len(Current) + 1] = Fresh
            BY <1>1, <2>2
        <3>6. \A s \in 1 .. Len(Current') : Current'[s] = Append(Current, Fresh)[s]
            BY <1>1, <1>2, <2>2, <3>1, <3>3, <3>4, <3>5
        <3> QED BY <3>1, <3>2, <3>6, SeqEqual
      <2>5. Over' = Over
        <3>1. \A s \in Sids : Live(s)' <=> Live(s)
            BY Zenon, <2>1 DEF Live
        <3>3. \A s \in Sids' : s \in Sids \/ (~session'[s].revoked /\ ~session'[s].expired)
            BY <1>2, <2>1, <2>2
        <3>4. \A s \in Sids' : s \in Sids \/ Live(s)'
            BY Zenon, <3>3 DEF Live
        <3>5. Sids \subseteq Sids'
            BY <1>2, <2>2
        <3> QED BY Zenon, <3>1, <3>4, <3>5 DEF Over
      <2>6. Spent' = Spent
          BY Zenon, <2>1 DEF Spent
      <2> QED BY Zenon, <2>1, <2>3, <2>4, <2>5, <2>6 DEF Store!Open, Current, Over, Spent
    <1>5. ASSUME NEW r \in Requests, Rotate(r), NEW s0 \in Sids, s0 = req[r].on
          PROVE  Store!Exchange(s0)
      <2> DEFINE n0 == req[r].next
      <2>1. /\ s0 \in Sids /\ Live(s0)
            /\ session[s0].refreshHash = req[r].token
            /\ Len(session') = Len(session)
            /\ session'[s0].refreshHash = n0
            /\ \A s \in Sids : Live(s)' <=> Live(s)
            /\ \A s \in Sids : s # s0 => session'[s] = session[s]
          BY Zenon, <1>5, RotatedRow
      <2>2. Waiting(r) /\ exchanges' = Append(exchanges, req[r].token)
          BY Zenon, <1>5 DEF Rotate, Waiting
      <2>3. n0 \in 1 .. MaxTokens
        <3>1. n0 \in Tokens /\ Len(signed) \in Nat
            BY <1>0, <2>2, WaitingType DEF TypeOK
        <3> QED BY <3>1, AuthAssumption DEF Inv, Bounded, Tokens
      <2>4. Store!New(n0)
        <3>1. /\ \A s \in Sids : session[s].refreshHash # n0
              /\ \A i \in 1 .. Len(exchanges) : exchanges[i] # n0
            BY Zenon, <2>2 DEF Inv, PendingIsNew
        <3> QED BY Zenon, <1>0, <3>1, NewToken
      <2>5. Sids' = Sids
          BY Zenon, <2>1 DEF Sids
      <2> HIDE DEF n0
      <2>6. Current' = [Current EXCEPT ![s0] = n0]
          BY Zenon, <1>1, <2>1, <2>5 DEF Current
      <2>7. Over' = Over /\ s0 \notin Over
          BY Zenon, <2>1, <2>5 DEF Over
      <2>8. Spent' = Spent \union {Current[s0]}
        <3>1. /\ Len(exchanges') = Len(exchanges) + 1
              /\ \A i \in 1 .. Len(exchanges) : exchanges'[i] = exchanges[i]
              /\ exchanges'[Len(exchanges) + 1] = req[r].token
            BY <1>0, <2>2 DEF TypeOK
        <3>2. 1 .. Len(exchanges') = 1 .. Len(exchanges) \union {Len(exchanges) + 1}
            BY <1>2, <3>1
        <3>3. Current[s0] = req[r].token
            BY Zenon, <1>1, <2>1
        <3> QED BY Zenon, <3>1, <3>2, <3>3 DEF Spent
      <2> QED BY Zenon, <2>3, <2>4, <2>6, <2>7, <2>8 DEF Store!Exchange, Current, Over, Spent
    <1>6. ASSUME UNCHANGED exchanges, Len(session') = Len(session),
                 \A s \in Sids : session'[s].refreshHash = session[s].refreshHash,
                 \A s \in Sids : Live(s)' => Live(s)
          PROVE  Store!End
      <2>1. Sids' = Sids
          BY Zenon, <1>6 DEF Sids
      <2>2. Current' = Current /\ Spent' = Spent
          BY Zenon, <1>6, <2>1 DEF Current, Spent
      <2>3. Over' = Over \union Over' /\ Over' \in SUBSET (1 .. Len(Current))
          BY Zenon, <1>1, <1>6, <2>1 DEF Over
      <2> QED BY Zenon, <2>2, <2>3 DEF Store!End, Current, Over, Spent
    <1>7. ASSUME NEW r \in Requests, Rotate(r) PROVE Store!Next
      <2>1. PICK s0 \in Sids : s0 = req[r].on
          BY Zenon, <1>7, RotatedRow
      <2>2. \E s \in 1 .. Len(Current) : Store!Exchange(s)
          BY Zenon, <1>1, <1>5, <1>7, <2>1
      <2> QED BY <2>2, Zenon DEF Store!Next, Current
    <1>8. Store!Open \/ Store!End => Store!Next
        BY Zenon DEF Store!Next
    <1> QED BY Zenon, <1>3, <1>4, <1>6, <1>7, <1>8, RowSteps

\* Overlapping, repeated and aborted requests, for any number of them, implement the
\* abstract store of sessions.
THEOREM StoreImplemented == Spec => ImplementsStore
    <1>1. Init => Store!Init
      <2> SUFFICES ASSUME Init PROVE Store!Init
          BY Zenon
      <2>1. Inv
          BY Zenon, InvInit
      <2>2. Len(session) = 0 /\ Len(exchanges) = 0
          BY Zenon DEF Init
      <2>3. Sids = {} /\ Spent = {}
          BY <2>2 DEF Sids, Spent
      <2>4. Current = <<>>
        <3>1. Current \in Seq(Tokens) /\ Len(Current) = 0
            BY Zenon, <2>1, <2>2, CurrentSeq DEF Inv
        <3> QED BY Zenon, <3>1, EmptySeq
      <2> QED BY Zenon, <2>3, <2>4 DEF Store!Init, Current, Spent
    <1>2. Inv /\ Inv' /\ [Next]_vars => [Store!Next]_(Store!vars)
        BY Zenon, StoreStep
    <1> QED BY <1>1, <1>2, Invariant, PTL DEF Spec, ImplementsStore, Store!Spec
=============================================================================
