---------------------------- MODULE SessionStore ----------------------------
(***************************************************************************)
(* What the API promises of its sessions, whatever requests overlap: each    *)
(* session has one current refresh token, a token is exchanged at most once,  *)
(* for one that was never current before, and only while its session lasts;    *)
(* a session that is over stays over.  AuthSessions implements it.             *)
(***************************************************************************)
EXTENDS Naturals, Sequences

CONSTANT Token   \* the refresh tokens there can be

VARIABLES
    current,   \* the refresh token of each session, in order of creation
    over,      \* the sessions that are over
    spent      \* the tokens that were exchanged

vars == <<current, over, spent>>

Init == current = <<>> /\ over = {} /\ spent = {}

\* A token that is not and never was the current one of a session that rotated.
New(t) == t \notin spent /\ \A s \in 1 .. Len(current) : current[s] # t

Open ==
    /\ \E t \in Token : New(t) /\ current' = Append(current, t)
    /\ UNCHANGED <<over, spent>>

Exchange(s) ==
    /\ s \notin over
    /\ \E t \in Token : New(t) /\ current' = [current EXCEPT ![s] = t]
    /\ spent' = spent \union {current[s]}
    /\ UNCHANGED over

\* Sessions end: one by logout, reuse or age, those of a user by a change of role.
End ==
    /\ \E ended \in SUBSET (1 .. Len(current)) : over' = over \union ended
    /\ UNCHANGED <<current, spent>>

Next == Open \/ End \/ \E s \in 1 .. Len(current) : Exchange(s)

Spec == Init /\ [][Next]_vars
=============================================================================
