----------------------------- MODULE MCRedisAof -----------------------------
(* The settings TLC examines: what the faults break differs from one policy *)
(* to the other, and together they would only make the instance larger.     *)
EXTENDS RedisAof

Setting(policy, seqs, may) == [policy |-> policy, seqs |-> seqs, may |-> may]

AllSettings ==
    { Setting("everysec", 2, {"child", "persist", "rename", "rdb", "bio", "config"}),
      Setting("everysec", 3, {"kill", "child"}),
      Setting("everysec", 2, {"power", "write", "short", "dirsync"}),
      Setting("always", 3, {"power", "persist", "fork"}),
      Setting("no", 2, {"power", "write"}) }
\* Nothing goes wrong.
NoFaults == {Setting("everysec", 2, {})}
=============================================================================
