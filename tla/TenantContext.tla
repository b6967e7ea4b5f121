---------------------------- MODULE TenantContext ----------------------------
(***************************************************************************)
(* The tenant of a query: the asynchronous context that an interceptor or a    *)
(* worker opens (inTenant), the transaction that withTenant opens in it, and   *)
(* the pooled connections whose setting app.tenant_id the row-level security   *)
(* policies compare every row with.                                           *)
(*                                                                          *)
(* A task is a request, a job or something one of them started without         *)
(* waiting for it; the task then inherits the context and may outlive the       *)
(* transaction in it.  The pool serves those who wait in their order.           *)
(***************************************************************************)
EXTENDS Naturals, Sequences

CONSTANTS
    Task,
    Tenant,
    Conn,           \* connections of the pool
    Txn,            \* transaction clients
    None

ASSUME TenantAssumption == None \notin Tenant \cup Conn \cup Txn

VARIABLES
    pc,             \* where each task is
    ctx,            \* tenantContext.getStore(), as the task sees it
    call,           \* withTenant under way: the tenant it is for, its transaction, the
                    \* context it returns to
    conn,           \* the connection of each transaction client that is open
    setting,        \* app.tenant_id of each connection
    pool,           \* tasks waiting for a connection, in order
    seen            \* ghost: <<tenant of the context, tenant of the rows>> of queries

vars == <<pc, ctx, call, conn, setting, pool, seen>>

Scope(x)  == [tenant |-> x, tx |-> None]
NoContext == Scope(None)
NoCall    == [tenant |-> None, tx |-> None, outer |-> NoContext]

Init ==
    /\ pc = [t \in Task |-> "idle"]
    /\ ctx = [t \in Task |-> NoContext]
    /\ call = [t \in Task |-> NoCall]
    /\ conn = [x \in Txn |-> None]
    /\ setting = [c \in Conn |-> None]
    /\ pool = <<>>
    /\ seen = {}

Free == Conn \ {conn[x] : x \in Txn}

\* A transaction client that is new to everybody.
Fresh(x) == conn[x] = None /\ \A t \in Task : x \notin {ctx[t].tx, call[t].tx}
-----------------------------------------------------------------------------
\* TenantInterceptor or a processor: inTenant around the whole operation.  A
\* request that is not authenticated has no tenant and no context.
Begin(t, x) ==
    /\ pc[t] = "idle"
    /\ pc' = [pc EXCEPT ![t] = "running"]
    /\ ctx' = [ctx EXCEPT ![t] = Scope(x)]
    /\ UNCHANGED <<call, conn, setting, pool, seen>>

\* The operation starts something it does not wait for.
Spawn(t, u) ==
    /\ pc[t] = "running" /\ pc[u] = "idle"
    /\ pc' = [pc EXCEPT ![u] = "running"]
    /\ ctx' = [ctx EXCEPT ![u] = ctx[t]]
    /\ UNCHANGED <<call, conn, setting, pool, seen>>

Leave(t) ==
    /\ pc[t] = "running" /\ call[t] = NoCall
    /\ pc' = [pc EXCEPT ![t] = "idle"]
    /\ ctx' = [ctx EXCEPT ![t] = NoContext]
    /\ UNCHANGED <<call, conn, setting, pool, seen>>

\* Mutant: a transaction inside a transaction.
OpensAnother(t, x) ==
    /\ pc[t] = "running"
    /\ ctx[t].tenant \in {None, x}
    /\ pc' = [pc EXCEPT ![t] = "waiting"]
    /\ call' = [call EXCEPT ![t] = [tenant |-> x, tx |-> None, outer |-> ctx[t]]]
    /\ pool' = Append(pool, t)
    /\ UNCHANGED <<ctx, conn, setting, seen>>

\* withTenant: refused for another tenant than the context's; inside a
\* transaction it uses that one; otherwise it waits for a connection.
WithTenant(t, x) ==
    /\ pc[t] = "running"
    /\ ctx[t].tenant \in {None, x}
    /\ ctx[t].tx = None
    /\ pc' = [pc EXCEPT ![t] = "waiting"]
    /\ call' = [call EXCEPT ![t] = [tenant |-> x, tx |-> None, outer |-> ctx[t]]]
    /\ pool' = Append(pool, t)
    /\ UNCHANGED <<ctx, conn, setting, seen>>

\* maxWait: nobody served the task in time.
MaxWait(t) ==
    /\ pc[t] = "waiting"
    /\ pc' = [pc EXCEPT ![t] = "running"]
    /\ call' = [call EXCEPT ![t] = NoCall]
    /\ pool' = SelectSeq(pool, LAMBDA u : u # t)
    /\ UNCHANGED <<ctx, conn, setting, seen>>

\* BEGIN on the first connection that is free.
BeginTransaction(t, x, c) ==
    /\ pool # <<>> /\ t = Head(pool)
    /\ Fresh(x) /\ c \in Free
    /\ pool' = Tail(pool)
    /\ conn' = [conn EXCEPT ![x] = c]
    /\ call' = [call EXCEPT ![t].tx = x]
    /\ pc' = [pc EXCEPT ![t] = "begun"]
    /\ UNCHANGED <<ctx, setting, seen>>

\* set_config(..., true), then the operation in a context with the transaction;
\* on a transaction that timed out the statement fails, and withTenant with it.
SetConfig(t) ==
    LET x == call[t].tx
    IN  /\ pc[t] = "begun"
        /\ pc' = [pc EXCEPT ![t] = "running"]
        /\ IF conn[x] # None
           THEN /\ setting' = [setting EXCEPT ![conn[x]] = call[t].tenant]
                /\ ctx' = [ctx EXCEPT ![t] = [tenant |-> call[t].tenant, tx |-> x]]
                /\ UNCHANGED call
           ELSE call' = [call EXCEPT ![t] = NoCall] /\ UNCHANGED <<setting, ctx>>
        /\ UNCHANGED <<conn, pool, seen>>

\* A query on the transaction of the context, from wherever the context reached:
\* it sees the rows that the policies let through.  On a transaction that is
\* over it fails.
Query(t) ==
    LET x == ctx[t].tx
    IN  /\ pc[t] = "running"
        /\ x # None /\ conn[x] # None
        /\ seen' = seen \cup {<<ctx[t].tenant, setting[conn[x]]>>}
        /\ UNCHANGED <<pc, ctx, call, conn, setting, pool>>

\* findUserForLogin: a query outside any transaction, before the tenant is known.
FindUserForLogin(t, c) ==
    /\ pc[t] = "running" /\ ctx[t] = NoContext
    /\ c \in Free
    /\ seen' = seen \cup {<<None, setting[c]>>}
    /\ UNCHANGED <<pc, ctx, call, conn, setting, pool>>

\* Mutant: set_config(..., false), which the end of the transaction does not undo.
EndKeepsSetting(x) ==
    /\ conn' = [conn EXCEPT ![x] = None]
    /\ UNCHANGED setting

\* COMMIT or ROLLBACK: the local setting is gone, the connection free.
End(x) ==
    /\ setting' = [c \in Conn |-> IF c = conn[x] THEN None ELSE setting[c]]
    /\ conn' = [conn EXCEPT ![x] = None]

\* The operation ends, well or not, and withTenant returns.
Return(t) ==
    /\ pc[t] = "running" /\ call[t] # NoCall
    /\ ctx' = [ctx EXCEPT ![t] = call[t].outer]
    /\ call' = [call EXCEPT ![t] = NoCall]
    /\ End(call[t].tx)
    /\ UNCHANGED <<pc, pool, seen>>

\* The transaction has lasted longer than its timeout and is rolled back.
TimedOut(x) ==
    /\ conn[x] # None
    /\ End(x)
    /\ UNCHANGED <<pc, ctx, call, pool, seen>>

Served == \E t \in Task, x \in Txn, c \in Conn : BeginTransaction(t, x, c)

Next ==
    \/ \E t \in Task :
          \/ \E x \in Tenant \cup {None} : Begin(t, x)
          \/ \E u \in Task : Spawn(t, u)
          \/ \E x \in Tenant : WithTenant(t, x)
          \/ \E c \in Conn : FindUserForLogin(t, c)
          \/ Leave(t) \/ MaxWait(t) \/ SetConfig(t) \/ Query(t) \/ Return(t)
    \/ Served
    \/ \E x \in Txn : TimedOut(x)

Spec == Init /\ [][Next]_vars

\* The pool hands out free connections, the database answers, operations end.
FairSpec ==
    /\ Spec
    /\ WF_vars(Served)
    /\ \A t \in Task : WF_vars(SetConfig(t)) /\ WF_vars(Return(t))
-----------------------------------------------------------------------------
Context == [tenant : Tenant \cup {None}, tx : Txn \cup {None}]

\* The types, and every task waits at most once.
TypeOK ==
    /\ pc \in [Task -> {"idle", "running", "waiting", "begun"}]
    /\ ctx \in [Task -> Context]
    /\ call \in [Task -> [tenant : Tenant \cup {None}, tx : Txn \cup {None}, outer : Context]]
    /\ conn \in [Txn -> Conn \cup {None}]
    /\ setting \in [Conn -> Tenant \cup {None}]
    /\ pool \in Seq(Task)
    /\ \A i, j \in DOMAIN pool : pool[i] = pool[j] => i = j
    /\ seen \in SUBSET ((Tenant \cup {None}) \X (Tenant \cup {None}))

\* A query sees the rows of the tenant of its context and no others, whichever
\* connection it runs on, also when it outlives its transaction; and a query
\* without a context sees none ("pooled sessions never retain a tenant").
Isolation == \A q \in seen : q[1] = q[2]

\* Whoever waits for a connection gets one without help of a timeout, however
\* many operations nest: no transaction waits for another connection.
WaitersServed == \A t \in Task : pc[t] = "waiting" ~> pc[t] # "waiting"
=============================================================================
