----------------------------- MODULE DurableLog -----------------------------
(***************************************************************************)
(* What a client may expect of an append-only store: commands are added at *)
(* the end of the log, a prefix of it is promised, and a crash loses a     *)
(* suffix that was not promised and nothing else.  RedisAof implements it. *)
(***************************************************************************)
EXTENDS Naturals, Sequences

CONSTANT Cmd   \* the commands

VARIABLES
    log,       \* the commands executed, in order
    promised   \* how many of them a client was told are safe

vars == <<log, promised>>

Init == log = <<>> /\ promised = 0

Execute ==
    /\ \E c \in Cmd : log' = Append(log, c)
    /\ UNCHANGED promised

Promise ==
    /\ promised' \in (promised + 1)..Len(log)
    /\ UNCHANGED log

\* A restart: what was promised is still there, in the order it was executed.
Recover ==
    /\ \E n \in promised..Len(log) : log' = SubSeq(log, 1, n)
    /\ UNCHANGED promised

Next == Execute \/ Promise \/ Recover

Spec == Init /\ [][Next]_vars
=============================================================================
