-------------------------- MODULE MCRedisSentinel --------------------------
(* Model values for RedisSentinel.                                         *)
EXTENDS RedisSentinel, TLC

\* The events of S happen once.
Once(S) == [e \in Events |-> IF e \in S THEN 1 ELSE 0]

SomeEvents == {Once({"crash", "lose"}), Once({"forced"}), Once({"flush", "delay"})}
AtMostACrash == {Once({}), Once({"crash"})}

Symmetry == Permutations(Sentinel)
=============================================================================
