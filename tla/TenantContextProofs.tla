------------------------- MODULE TenantContextProofs -------------------------
(***************************************************************************)
(* A query sees the rows of its own tenant, for any number of tasks, tenants   *)
(* and connections.  The invariant behind it: open transactions have           *)
(* connections of their own, an open transaction that some context holds has    *)
(* the setting of that context, and a connection without a transaction has      *)
(* none.                                                                      *)
(***************************************************************************)
EXTENDS TenantContext, TLAPS

\* What the provers may take for a step.
USE SMTT(30), ZenonT(30)

TypeInv ==
    /\ pc \in [Task -> {"idle", "running", "waiting", "begun"}]
    /\ ctx \in [Task -> Context]
    /\ call \in [Task -> [tenant : Tenant \cup {None}, tx : Txn \cup {None}, outer : Context]]
    /\ conn \in [Txn -> Conn \cup {None}]
    /\ setting \in [Conn -> Tenant \cup {None}]

\* Open transactions do not share a connection.
OwnConnection == \A x, y \in Txn : conn[x] # None /\ conn[x] = conn[y] => x = y

\* A connection without a transaction has no setting.
CleanPool == \A c \in Conn : (\A x \in Txn : conn[x] # c) => setting[c] = None

\* A context that holds an open transaction has its setting.
SettingOfContext ==
    \A t \in Task : ctx[t].tx # None /\ conn[ctx[t].tx] # None
                        => setting[conn[ctx[t].tx]] = ctx[t].tenant

\* A transaction that has begun is in no context before set_config.
Unpublished ==
    \A t \in Task : pc[t] = "begun" =>
        /\ call[t].tx \in Txn
        /\ \A u \in Task : ctx[u].tx # call[t].tx
        /\ \A u \in Task : u # t /\ pc[u] = "begun" => call[u].tx # call[t].tx

\* withTenant returns to a context without a transaction.
CallOK ==
    \A t \in Task :
        /\ call[t].outer.tx = None
        /\ pc[t] # "waiting" /\ call[t] # NoCall => call[t].tx \in Txn

Inv == TypeInv /\ OwnConnection /\ CleanPool /\ SettingOfContext /\ Unpublished /\ CallOK
         /\ Isolation

\* What the end of a transaction leaves of the connections.
LEMMA EndKeeps ==
    ASSUME TypeInv, OwnConnection, CleanPool, NEW x \in Txn, End(x)
    PROVE  /\ conn' \in [Txn -> Conn \cup {None}]
           /\ setting' \in [Conn -> Tenant \cup {None}]
           /\ OwnConnection' /\ CleanPool'
           /\ \A y \in Txn : conn'[y] # None =>
                 conn'[y] = conn[y] /\ setting'[conn'[y]] = setting[conn[y]]
    <1>1. /\ conn' \in [Txn -> Conn \cup {None}]
          /\ setting' \in [Conn -> Tenant \cup {None}]
        BY DEF TypeInv, End
    <1>2. \A y \in Txn : conn'[y] # None => y # x /\ conn'[y] = conn[y]
        BY DEF TypeInv, End
    <1>3. OwnConnection'
        BY <1>2 DEF OwnConnection
    <1>4. \A y \in Txn : conn'[y] # None => setting'[conn'[y]] = setting[conn[y]]
        BY <1>2, TenantAssumption DEF TypeInv, End, OwnConnection
    <1>5. CleanPool'
      <2> SUFFICES ASSUME NEW c \in Conn, \A y \in Txn : conn'[y] # c
                   PROVE  setting'[c] = None
          BY DEF CleanPool
      <2>1. CASE c = conn[x]
          BY <2>1 DEF End
      <2>2. CASE c # conn[x]
        <3>1. \A y \in Txn : conn[y] # c
            BY <2>2 DEF TypeInv, End
        <3> QED BY <2>2, <3>1 DEF CleanPool, End
      <2> QED BY <2>1, <2>2
    <1> QED BY <1>1, <1>2, <1>3, <1>4, <1>5

\* A step that leaves the connections alone, and in which contexts come only
\* from other contexts or hold no transaction.
LEMMA ContextStep ==
    ASSUME Inv, TypeInv', CallOK', UNCHANGED <<conn, setting, seen>>,
           \A u \in Task : ctx'[u].tx = None \/ \E t \in Task : ctx'[u] = ctx[t],
           \A u \in Task : pc'[u] = "begun" => pc[u] = "begun" /\ call'[u] = call[u]
    PROVE  Inv'
    <1>1. OwnConnection' /\ CleanPool' /\ Isolation'
        BY DEF Inv, OwnConnection, CleanPool, Isolation
    <1>2. SettingOfContext'
        BY DEF Inv, SettingOfContext
    <1>3. Unpublished'
      <2> SUFFICES ASSUME NEW t \in Task, pc'[t] = "begun"
                   PROVE  /\ call'[t].tx \in Txn
                          /\ \A u \in Task : ctx'[u].tx # call'[t].tx
                          /\ \A u \in Task : u # t /\ pc'[u] = "begun" => call'[u].tx # call'[t].tx
          BY DEF Unpublished
      <2>1. pc[t] = "begun" /\ call'[t].tx = call[t].tx
          OBVIOUS
      <2>2. call[t].tx \in Txn /\ call[t].tx # None
          BY <2>1, TenantAssumption DEF Inv, Unpublished
      <2> QED BY <2>1, <2>2 DEF Inv, Unpublished
    <1> QED BY <1>1, <1>2, <1>3 DEF Inv

\* The end of a transaction, after which fewer contexts hold one.
LEMMA EndStep ==
    ASSUME Inv, NEW x \in Txn, End(x), UNCHANGED <<pc, seen>>,
           ctx' \in [Task -> Context],
           call' \in [Task -> [tenant : Tenant \cup {None}, tx : Txn \cup {None}, outer : Context]],
           CallOK',
           \A u \in Task : ctx'[u] = ctx[u] \/ ctx'[u].tx = None,
           \A u \in Task : pc[u] = "begun" => call'[u] = call[u]
    PROVE  Inv'
    <1>1. /\ conn' \in [Txn -> Conn \cup {None}]
          /\ setting' \in [Conn -> Tenant \cup {None}]
          /\ OwnConnection' /\ CleanPool'
          /\ \A y \in Txn : conn'[y] # None =>
                conn'[y] = conn[y] /\ setting'[conn'[y]] = setting[conn[y]]
        BY EndKeeps DEF Inv
    <1>2. TypeInv'
        BY <1>1 DEF Inv, TypeInv
    <1>3. SettingOfContext'
      <2> SUFFICES ASSUME NEW t \in Task, ctx'[t].tx # None, conn'[ctx'[t].tx] # None
                   PROVE  setting'[conn'[ctx'[t].tx]] = ctx'[t].tenant
          BY DEF SettingOfContext
      <2>1. ctx'[t] = ctx[t] /\ ctx[t].tx \in Txn
          BY DEF Inv, TypeInv, Context
      <2> QED BY <1>1, <2>1 DEF Inv, SettingOfContext
    <1>4. Unpublished'
      <2> SUFFICES ASSUME NEW t \in Task, pc[t] = "begun"
                   PROVE  /\ call'[t].tx \in Txn
                          /\ \A u \in Task : ctx'[u].tx # call'[t].tx
                          /\ \A u \in Task : u # t /\ pc[u] = "begun" => call'[u].tx # call'[t].tx
          BY DEF Unpublished
      <2>1. call'[t].tx = call[t].tx /\ call[t].tx \in Txn /\ call[t].tx # None
          BY TenantAssumption DEF Inv, Unpublished
      <2> QED BY <2>1 DEF Inv, Unpublished
    <1>5. Isolation'
        BY DEF Inv, Isolation
    <1> QED BY <1>1, <1>2, <1>3, <1>4, <1>5 DEF Inv

\* Every step keeps the invariant.
LEMMA InvNext == Inv /\ [Next]_vars => Inv'
    <1> SUFFICES ASSUME Inv, [Next]_vars PROVE Inv'
        OBVIOUS
    <1>0. TypeInv /\ CallOK
        BY DEF Inv
    <1>1. CASE UNCHANGED vars
        BY <1>0, <1>1, ContextStep DEF vars, TypeInv, CallOK
    <1>2. ASSUME NEW t \in Task, NEW x \in Tenant \cup {None}, Begin(t, x) PROVE Inv'
      <2>1. Scope(x) \in Context /\ Scope(x).tx = None
          BY DEF Scope, Context
      <2>2. TypeInv' /\ CallOK'
          BY <1>0, <1>2, <2>1 DEF TypeInv, CallOK, Begin
      <2>3. /\ \A u \in Task : ctx'[u] = ctx[u] \/ ctx'[u].tx = None
            /\ \A u \in Task : pc'[u] = "begun" => pc[u] = "begun"
          BY <1>0, <1>2, <2>1 DEF TypeInv, Begin
      <2> QED BY <1>2, <2>2, <2>3, ContextStep DEF Begin
    <1>3. ASSUME NEW t \in Task, NEW u \in Task, Spawn(t, u) PROVE Inv'
      <2>2. TypeInv' /\ CallOK'
          BY <1>0, <1>3 DEF TypeInv, CallOK, Spawn
      <2>3. /\ \A v \in Task : ctx'[v] = ctx[v] \/ ctx'[v] = ctx[t]
            /\ \A v \in Task : pc'[v] = "begun" => pc[v] = "begun"
          BY <1>0, <1>3 DEF TypeInv, Spawn
      <2> QED BY <1>3, <2>2, <2>3, ContextStep DEF Spawn
    <1>4. ASSUME NEW t \in Task, Leave(t) PROVE Inv'
      <2>1. NoContext \in Context /\ NoContext.tx = None
          BY DEF NoContext, Scope, Context
      <2>2. TypeInv' /\ CallOK'
          BY <1>0, <1>4, <2>1 DEF TypeInv, CallOK, Leave
      <2>3. /\ \A u \in Task : ctx'[u] = ctx[u] \/ ctx'[u].tx = None
            /\ \A u \in Task : pc'[u] = "begun" => pc[u] = "begun"
          BY <1>0, <1>4, <2>1 DEF TypeInv, Leave
      <2> QED BY <1>4, <2>2, <2>3, ContextStep DEF Leave
    <1>5. ASSUME NEW t \in Task, NEW x \in Tenant, WithTenant(t, x) PROVE Inv'
      <2> DEFINE k == [tenant |-> x, tx |-> None, outer |-> ctx[t]]
      <2>1. k \in [tenant : Tenant \cup {None}, tx : Txn \cup {None}, outer : Context]
          BY <1>0 DEF TypeInv
      <2>2. k.outer.tx = None
          BY <1>5 DEF WithTenant
      <2>3. call' = [call EXCEPT ![t] = k] /\ pc' = [pc EXCEPT ![t] = "waiting"]
            /\ UNCHANGED <<ctx, conn, setting, seen>>
          BY <1>5 DEF WithTenant
      <2> HIDE DEF k
      <2>4. TypeInv' /\ CallOK'
          BY <1>0, <2>1, <2>2, <2>3 DEF TypeInv, CallOK
      <2>5. \A u \in Task : pc'[u] = "begun" => pc[u] = "begun" /\ call'[u] = call[u]
          BY <1>0, <2>3 DEF TypeInv
      <2> QED BY <2>3, <2>4, <2>5, ContextStep
    <1>6. ASSUME NEW t \in Task, MaxWait(t) PROVE Inv'
      <2>1. NoCall \in [tenant : Tenant \cup {None}, tx : Txn \cup {None}, outer : Context]
            /\ NoCall.outer.tx = None
          BY DEF NoCall, NoContext, Scope, Context
      <2>2. call' = [call EXCEPT ![t] = NoCall] /\ pc' = [pc EXCEPT ![t] = "running"]
            /\ UNCHANGED <<ctx, conn, setting, seen>>
          BY <1>6 DEF MaxWait
      <2>3. TypeInv' /\ CallOK'
          BY <1>0, <2>1, <2>2 DEF TypeInv, CallOK
      <2>4. \A u \in Task : pc'[u] = "begun" => pc[u] = "begun" /\ call'[u] = call[u]
          BY <1>0, <2>2 DEF TypeInv
      <2> QED BY <2>2, <2>3, <2>4, ContextStep
    <1>7. ASSUME NEW t \in Task, NEW x \in Txn, NEW c \in Conn, BeginTransaction(t, x, c)
          PROVE Inv'
      <2>1. /\ conn[x] = None /\ \A u \in Task : ctx[u].tx # x /\ call[u].tx # x
            /\ \A y \in Txn : conn[y] # c
            /\ conn' = [conn EXCEPT ![x] = c]
            /\ call' = [call EXCEPT ![t].tx = x]
            /\ pc' = [pc EXCEPT ![t] = "begun"]
            /\ UNCHANGED <<ctx, setting, seen>>
          BY <1>7 DEF BeginTransaction, Fresh, Free
      <2>2. TypeInv'
          BY <1>0, <2>1 DEF TypeInv
      <2>3. /\ \A u \in Task : u # t => call'[u] = call[u] /\ pc'[u] = pc[u]
            /\ call'[t].tx = x /\ call'[t].outer = call[t].outer
          BY <1>0, <2>1 DEF TypeInv
      <2>4. /\ conn'[x] = c
            /\ \A y \in Txn : y # x => conn'[y] = conn[y] /\ conn'[y] # c
          BY <1>0, <2>1 DEF TypeInv
      <2>5. OwnConnection' /\ CleanPool'
          BY <2>1, <2>4, TenantAssumption DEF Inv, OwnConnection, CleanPool
      <2>6. SettingOfContext'
        <3> SUFFICES ASSUME NEW u \in Task, ctx[u].tx # None, conn'[ctx[u].tx] # None
                     PROVE  setting[conn'[ctx[u].tx]] = ctx[u].tenant
            BY <2>1 DEF SettingOfContext
        <3>1. ctx[u].tx \in Txn /\ ctx[u].tx # x
            BY <1>0, <2>1 DEF TypeInv, Context
        <3> QED BY <2>4, <3>1 DEF Inv, SettingOfContext
      <2>7. Unpublished'
        <3> SUFFICES ASSUME NEW v \in Task, pc'[v] = "begun"
                     PROVE  /\ call'[v].tx \in Txn
                            /\ \A u \in Task : ctx[u].tx # call'[v].tx
                            /\ \A u \in Task : u # v /\ pc'[u] = "begun"
                                                  => call'[u].tx # call'[v].tx
            BY <2>1 DEF Unpublished
        <3> QED BY <2>1, <2>3 DEF Inv, Unpublished
      <2>8. CallOK'
          BY <1>0, <2>3 DEF CallOK
      <2> QED BY <2>1, <2>2, <2>5, <2>6, <2>7, <2>8 DEF Inv, Isolation
    <1>8. ASSUME NEW t \in Task, SetConfig(t) PROVE Inv'
      <2> DEFINE x == call[t].tx
      <2>0. pc[t] = "begun" /\ x \in Txn
          BY <1>8 DEF SetConfig, Inv, Unpublished
      <2>1. CASE conn[x] # None
        <3> DEFINE k == [tenant |-> call[t].tenant, tx |-> x]
        <3>1. /\ conn[x] \in Conn
              /\ k \in Context
            BY <1>0, <2>0, <2>1 DEF TypeInv, Context
        <3>2. /\ pc' = [pc EXCEPT ![t] = "running"]
              /\ setting' = [setting EXCEPT ![conn[x]] = k.tenant]
              /\ ctx' = [ctx EXCEPT ![t] = k]
              /\ UNCHANGED <<call, conn, seen>>
            BY <1>8, <2>1 DEF SetConfig
        <3>3. k.tx = x /\ call[t].tenant \in Tenant \cup {None} /\ k.tenant = call[t].tenant
            BY <1>0 DEF TypeInv
        <3> HIDE DEF k
        <3>4. TypeInv'
            BY <1>0, <3>1, <3>2, <3>3 DEF TypeInv
        <3>5. OwnConnection' /\ CleanPool'
            BY <1>0, <2>0, <3>2 DEF Inv, OwnConnection, CleanPool, TypeInv
        <3>6. SettingOfContext'
          <4> SUFFICES ASSUME NEW u \in Task, ctx'[u].tx # None, conn[ctx'[u].tx] # None
                       PROVE  setting'[conn[ctx'[u].tx]] = ctx'[u].tenant
              BY <3>2 DEF SettingOfContext
          <4>1. CASE u = t
              BY <1>0, <3>1, <3>2, <3>3, <4>1 DEF TypeInv
          <4>2. CASE u # t
            <5>1. /\ ctx'[u] = ctx[u] /\ ctx[u].tx \in Txn /\ ctx[u].tx # x
                  /\ conn[ctx[u].tx] \in Conn
                BY <1>0, <2>0, <3>2, <4>2 DEF TypeInv, Context, Inv, Unpublished
            <5>2. conn[ctx[u].tx] # conn[x]
                BY <2>0, <2>1, <5>1 DEF Inv, OwnConnection
            <5>3. setting'[conn[ctx[u].tx]] = setting[conn[ctx[u].tx]]
                BY <1>0, <3>2, <5>1, <5>2 DEF TypeInv
            <5> QED BY <5>1, <5>3 DEF Inv, SettingOfContext
          <4> QED BY <4>1, <4>2
        <3>7. Unpublished'
          <4> SUFFICES ASSUME NEW v \in Task, pc'[v] = "begun"
                       PROVE  /\ call[v].tx \in Txn
                              /\ \A u \in Task : ctx'[u].tx # call[v].tx
                              /\ \A u \in Task : u # v /\ pc'[u] = "begun"
                                                    => call[u].tx # call[v].tx
              BY <3>2 DEF Unpublished
          <4>1. v # t /\ pc[v] = "begun"
              BY <1>0, <3>2 DEF TypeInv
          <4>2. \A u \in Task : pc'[u] = "begun" => pc[u] = "begun"
              BY <1>0, <3>2 DEF TypeInv
          <4>3. call[v].tx # x
              BY <2>0, <4>1 DEF Inv, Unpublished
          <4>4. \A u \in Task : ctx'[u] = ctx[u] \/ ctx'[u].tx = x
              BY <1>0, <3>2, <3>3 DEF TypeInv
          <4> QED BY <4>1, <4>2, <4>3, <4>4 DEF Inv, Unpublished
        <3>8. CallOK'
            BY <1>0, <2>0, <3>2 DEF CallOK, TypeInv
        <3> QED BY <3>2, <3>4, <3>5, <3>6, <3>7, <3>8 DEF Inv, Isolation
      <2>2. CASE conn[x] = None
        <3>1. /\ call' = [call EXCEPT ![t] = NoCall] /\ pc' = [pc EXCEPT ![t] = "running"]
              /\ UNCHANGED <<ctx, conn, setting, seen>>
            BY <1>8, <2>2 DEF SetConfig
        <3>2. NoCall \in [tenant : Tenant \cup {None}, tx : Txn \cup {None}, outer : Context]
              /\ NoCall.outer.tx = None
            BY DEF NoCall, NoContext, Scope, Context
        <3>3. TypeInv' /\ CallOK'
            BY <1>0, <3>1, <3>2 DEF TypeInv, CallOK
        <3>4. \A u \in Task : pc'[u] = "begun" => pc[u] = "begun" /\ call'[u] = call[u]
            BY <1>0, <3>1 DEF TypeInv
        <3> QED BY <3>1, <3>3, <3>4, ContextStep
      <2> QED BY <2>1, <2>2
    <1>9. ASSUME NEW t \in Task, Query(t) PROVE Inv'
      <2>1. Isolation'
          BY <1>9 DEF Query, Inv, Isolation, SettingOfContext
      <2> QED BY <1>9, <2>1 DEF Query, Inv, TypeInv, OwnConnection, CleanPool, SettingOfContext,
                 Unpublished, CallOK
    <1>10. ASSUME NEW t \in Task, NEW c \in Conn, FindUserForLogin(t, c) PROVE Inv'
      <2>1. setting[c] = None
          BY <1>10 DEF FindUserForLogin, Free, Inv, CleanPool
      <2>2. Isolation'
          BY <1>10, <2>1 DEF FindUserForLogin, Inv, Isolation
      <2> QED BY <1>10, <2>2 DEF FindUserForLogin, Inv, TypeInv, OwnConnection, CleanPool,
                 SettingOfContext, Unpublished, CallOK
    <1>11. ASSUME NEW t \in Task, Return(t) PROVE Inv'
      <2>1. call[t].tx \in Txn /\ call[t].outer \in Context /\ call[t].outer.tx = None
          BY <1>0, <1>11 DEF Return, CallOK, TypeInv
      <2>2. NoCall \in [tenant : Tenant \cup {None}, tx : Txn \cup {None}, outer : Context]
            /\ NoCall.outer.tx = None
          BY DEF NoCall, NoContext, Scope, Context
      <2>3. /\ ctx' = [ctx EXCEPT ![t] = call[t].outer]
            /\ call' = [call EXCEPT ![t] = NoCall]
            /\ pc[t] = "running" /\ UNCHANGED <<pc, seen>>
            /\ End(call[t].tx)
          BY <1>11 DEF Return
      <2>4. /\ ctx' \in [Task -> Context]
            /\ call' \in [Task -> [tenant : Tenant \cup {None}, tx : Txn \cup {None},
                                   outer : Context]]
          BY <1>0, <2>1, <2>2, <2>3 DEF TypeInv
      <2>5. /\ CallOK'
            /\ \A u \in Task : ctx'[u] = ctx[u] \/ ctx'[u].tx = None
            /\ \A u \in Task : pc[u] = "begun" => call'[u] = call[u]
          BY <1>0, <2>1, <2>2, <2>3 DEF TypeInv, CallOK
      <2> QED BY <2>1, <2>3, <2>4, <2>5, EndStep
    <1>12. ASSUME NEW x \in Txn, TimedOut(x) PROVE Inv'
        BY <1>0, <1>12, EndStep DEF TimedOut, TypeInv, CallOK
    <1> QED BY <1>1, <1>2, <1>3, <1>4, <1>5, <1>6, <1>7, <1>8, <1>9, <1>10, <1>11, <1>12
            DEF Next, Served

\* A query sees the rows of the tenant of its context and no others, for any
\* number of tasks, tenants and connections, whatever times out.
THEOREM TenantsIsolated == Spec => []Isolation
    <1>1. Init => Inv
        BY TenantAssumption DEF Init, Inv, TypeInv, OwnConnection, CleanPool, SettingOfContext,
           Unpublished, CallOK, Isolation, NoCall, NoContext, Scope, Context
    <1>2. Inv => Isolation
        BY DEF Inv
    <1> QED BY <1>1, <1>2, InvNext, PTL DEF Spec
=============================================================================
