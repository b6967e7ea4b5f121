------------------------ MODULE RedisSentinelProofs ------------------------
(***************************************************************************)
(* Type correctness of RedisSentinel, and the invariant of its elections.  *)
(* The invariant relates the votes in memory, on disk, in flight and as    *)
(* the others know them to the votes that were cast, and an election won   *)
(* to the majority that voted.  From it, a Sentinel votes once per epoch,  *)
(* and an epoch has one leader.                                            *)
(***************************************************************************)
EXTENDS RedisSentinel, FiniteSetTheorems, TLAPS

\* What the provers may take for a step.
USE SMTT(30), ZenonT(30)

\* From the selection of the replica on there is a promoted replica.
PromotedOK ==
    \A s \in Sentinel :
       fo[s].state \in {"noone", "promotion", "reconf"} => fo[s].promoted \in Instance

TypeInv == TypeOK /\ PromotedOK

----------------------------------------------------------------------------
(* The operators the actions are built from.                               *)

\* The later of two epochs is one of the two.
LEMMA NewEpochIsOne ==
    ASSUME NEW c \in Epoch, NEW e \in Epoch
    PROVE  /\ NewEpoch(c, e) \in Epoch
           /\ c <= NewEpoch(c, e) /\ e <= NewEpoch(c, e)
    BY SentinelAssumption DEF NewEpoch, Epoch

\* A vote for a Sentinel is a vote.
LEMMA VoteLeaderType ==
    ASSUME NEW v \in Vote, NEW c \in Epoch, NEW e \in Epoch, NEW w \in Sentinel
    PROVE  VoteLeader(v, c, e, w) \in Vote
    BY Zenon DEF VoteLeader, Vote

\* What is saved is a configuration.
LEMMA ConfigType ==
    ASSUME NEW c \in Epoch, NEW v \in Vote, NEW cf \in Master, NEW f \in Failover,
           f.state \in {"noone", "promotion", "reconf"} => f.promoted \in Instance
    PROVE  /\ Config(c, v, cf, f) \in Saved
           /\ Config(c, v, cf, f).vote = v.epoch
           /\ CurrentMasterAddress(cf, f) \in Instance
    BY Zenon DEF Config, CurrentMasterAddress, Vote, Master, Failover, Saved

\* What a Sentinel starts with: no vote, no failover, no message.
LEMMA NothingTyped ==
    /\ 0 \in Epoch /\ NoVote \in Vote /\ NoMsg \in Message
    /\ NoFailover \in Failover /\ NoFailover.state = "none"
    <1>1. 0 \in Epoch
        BY SentinelAssumption DEF Epoch
    <1>2. NoVote \in Vote
        BY Zenon, <1>1 DEF NoVote, Vote
    <1>3. NoMsg \in Message
        BY Zenon DEF Message
    <1>4. NoFailover \in Failover /\ NoFailover.state = "none"
        BY Zenon, <1>1 DEF NoFailover, Failover
    <1> QED BY Zenon, <1>1, <1>2, <1>3, <1>4

\* What a request and a reply carry.
LEMMA MessageFields ==
    ASSUME NEW m \in Message
    PROVE  /\ m.type = "request" => m.epoch \in Epoch
           /\ m.type = "reply" => [leader |-> m.leader, epoch |-> m.epoch] \in Vote
    <1>1. CASE m = NoMsg
        BY Zenon, <1>1 DEF NoMsg
    <1>2. CASE m \in [type : {"request"}, epoch : Epoch, addr : Instance]
        BY Zenon, <1>2
    <1>3. CASE m \in [type : {"reply"}, leader : Sentinel \cup {None}, epoch : Epoch]
        BY Zenon, <1>3 DEF Vote
    <1> QED BY Zenon, <1>1, <1>2, <1>3 DEF Message

\* The requests for votes are messages.
LEMMA AskType ==
    ASSUME ask \in [Sentinel -> [Sentinel -> Message]], conf \in [Sentinel -> Master],
           NEW s \in Sentinel, NEW c \in Epoch, NEW f, AskOthers(s, c, f)
    PROVE  ask' \in [Sentinel -> [Sentinel -> Message]]
    <1>1. [type |-> "request", epoch |-> c, addr |-> conf[s].addr] \in Message
        BY Zenon DEF Message, Master
    <1> QED BY Zenon, <1>1 DEF AskOthers

\* Instances follow instances.
LEMMA SlaveOfType ==
    ASSUME of \in [Instance -> Instance], NEW is, NEW i \in Instance, SlaveOf(is, i)
    PROVE  of' \in [Instance -> Instance]
    BY Zenon DEF SlaveOf

\* The budget of exceptional events only falls.
LEMMA SpendType ==
    ASSUME left \in [Events -> Nat], NEW e \in Events, Spend(e)
    PROVE  left' \in [Events -> Nat]
    BY DEF Spend

\* Saving keeps the types.
LEMMA FlushType ==
    ASSUME disk \in [Sentinel -> Saved], left \in [Events -> Nat],
           NEW s \in Sentinel, NEW d \in Saved, FlushConfig(s, d)
    PROVE  disk' \in [Sentinel -> Saved] /\ left' \in [Events -> Nat]
    BY Zenon, SpendType DEF FlushConfig, Events

\* A vote that was cast is recorded.
LEMMA CastType ==
    ASSUME cast \subseteq [voter : Sentinel, epoch : Epoch, leader : Sentinel],
           vote \in [Sentinel -> Vote],
           NEW s \in Sentinel, NEW c \in Epoch, NEW e \in Epoch, NEW w \in Sentinel,
           Cast(s, VoteLeader(vote[s], c, e, w))
    PROVE  cast' \subseteq [voter : Sentinel, epoch : Epoch, leader : Sentinel]
    <1> DEFINE v == VoteLeader(vote[s], c, e, w)
    <1>1. v = vote[s] \/ v = [leader |-> w, epoch |-> e]
        BY Zenon DEF VoteLeader
    <1> QED BY <1>1 DEF Cast

----------------------------------------------------------------------------
(* Type correctness.                                                       *)

\* What the type invariant says of each variable.
LEMMA TypeFacts ==
    ASSUME TypeInv
    PROVE  /\ cur \in [Sentinel -> Epoch] /\ vote \in [Sentinel -> Vote]
           /\ conf \in [Sentinel -> Master] /\ fo \in [Sentinel -> Failover]
           /\ recent \in [Sentinel -> BOOLEAN] /\ heard \in [Sentinel -> [Sentinel -> Vote]]
           /\ reconf \in [Sentinel -> [Instance -> {"none", "sent", "inprog", "done"}]]
           /\ disk \in [Sentinel -> Saved] /\ ask \in [Sentinel -> [Sentinel -> Message]]
           /\ of \in [Instance -> Instance] /\ left \in [Events -> Nat]
           /\ cast \subseteq [voter : Sentinel, epoch : Epoch, leader : Sentinel]
           /\ won \subseteq [who : Sentinel, epoch : Epoch, counted : Epoch]
           /\ PromotedOK
    BY Zenon DEF TypeInv, TypeOK


\* The round of the election that two actions share.
LEMMA WaitStartType ==
    ASSUME TypeInv, NEW s \in Sentinel, NEW c \in Epoch, NEW f \in Failover,
           NEW b, f.state = "wait", WaitStart(s, c, f, b)
    PROVE  /\ vote' \in [Sentinel -> Vote]
           /\ fo' \in [Sentinel -> Failover]
           /\ PromotedOK'
           /\ disk' \in [Sentinel -> Saved]
           /\ ask' \in [Sentinel -> [Sentinel -> Message]]
           /\ cast' \subseteq [voter : Sentinel, epoch : Epoch, leader : Sentinel]
           /\ won' \subseteq [who : Sentinel, epoch : Epoch, counted : Epoch]
           /\ left' \in [Events -> Nat]
    <1> USE TypeFacts
    <1>1. Favourites(s, c) \subseteq Sentinel
        BY Zenon DEF Favourites
    <1> PICK w \in Favourites(s, c) :
           LET v == VoteLeader(vote[s], c, f.epoch, w)
               elected == Enough(Votes(s, c, v, f.epoch, s))
               next == IF elected \/ f.forced
                       THEN {[f EXCEPT !.state = "select"]}
                       ELSE {f} \cup (IF b
                                      THEN {[NoFailover EXCEPT !.epoch = f.epoch]}
                                      ELSE {})
           IN  \E g \in next :
                 /\ fo' = [fo EXCEPT ![s] = g]
                 /\ vote' = [vote EXCEPT ![s] = v]
                 /\ Cast(s, v)
                 /\ won' = won \cup (IF elected THEN
                            {[who |-> s, epoch |-> f.epoch, counted |-> c]} ELSE {})
                 /\ IF v = vote[s] THEN UNCHANGED <<disk, left>>
                    ELSE FlushConfig(s, Config(c, v, conf[s], f))
                 /\ AskOthers(s, c, g)
        BY Zenon DEF WaitStart
    <1> DEFINE v == VoteLeader(vote[s], c, f.epoch, w)
               elected == Enough(Votes(s, c, v, f.epoch, s))
    <1>2. f.epoch \in Epoch
        BY Zenon DEF Failover
    <1>3. v \in Vote
        BY Zenon, <1>1, <1>2, VoteLeaderType
    <1>4. PICK g \in {f, [f EXCEPT !.state = "select"], [NoFailover EXCEPT !.epoch = f.epoch]} :
             /\ fo' = [fo EXCEPT ![s] = g]
             /\ vote' = [vote EXCEPT ![s] = v]
             /\ Cast(s, v)
             /\ won' = won \cup (IF elected THEN
                        {[who |-> s, epoch |-> f.epoch, counted |-> c]} ELSE {})
             /\ IF v = vote[s] THEN UNCHANGED <<disk, left>>
                ELSE FlushConfig(s, Config(c, v, conf[s], f))
             /\ AskOthers(s, c, g)
        BY Zenon
    <1>5. g \in Failover /\ g.state \in {"none", "wait", "select"}
      <2>1. /\ [f EXCEPT !.state = "select"] \in Failover
            /\ [f EXCEPT !.state = "select"].state = "select"
          BY Zenon DEF Failover
      <2>2. /\ [NoFailover EXCEPT !.epoch = f.epoch] \in Failover
            /\ [NoFailover EXCEPT !.epoch = f.epoch].state = "none"
          BY <1>2, Zenon DEF Failover, NoFailover
      <2> QED BY <1>4, <2>1, <2>2, Zenon
    <1>6. Config(c, v, conf[s], f) \in Saved
        BY <1>3, ConfigType, Zenon DEF Failover
    <1>7. disk' \in [Sentinel -> Saved] /\ left' \in [Events -> Nat]
        BY Zenon, <1>4, <1>6, FlushType
    <1>8. ask' \in [Sentinel -> [Sentinel -> Message]]
        BY Zenon, <1>4, AskType
    <1>9. cast' \subseteq [voter : Sentinel, epoch : Epoch, leader : Sentinel]
        BY Zenon, <1>1, <1>2, <1>4, CastType
    <1>10. won' \subseteq [who : Sentinel, epoch : Epoch, counted : Epoch]
        BY <1>2, <1>4
    <1>11. vote' \in [Sentinel -> Vote]
        BY Zenon, <1>3, <1>4
    <1>12. fo' \in [Sentinel -> Failover] /\ PromotedOK'
        BY Zenon, <1>4, <1>5 DEF PromotedOK
    <1> QED BY Zenon, <1>7, <1>8, <1>9, <1>10, <1>11, <1>12

\* A new master and no failover.
LEMMA ChangeAddressType ==
    ASSUME TypeInv, NEW s \in Sentinel, NEW c \in Epoch, NEW cf \in Master,
           ChangeAddress(s, c, cf)
    PROVE  /\ conf' \in [Sentinel -> Master]
           /\ vote' \in [Sentinel -> Vote]
           /\ fo' \in [Sentinel -> Failover]
           /\ PromotedOK'
           /\ recent' \in [Sentinel -> BOOLEAN]
           /\ reconf' \in [Sentinel -> [Instance -> {"none", "sent", "inprog", "done"}]]
           /\ disk' \in [Sentinel -> Saved]
           /\ left' \in [Events -> Nat]
    <1> DEFINE v == [vote[s] EXCEPT !.leader = None]
               f == [NoFailover EXCEPT !.epoch = fo[s].epoch]
    <1> USE TypeFacts
    <1>0. vote[s] \in [leader : Sentinel \cup {None}, epoch : Epoch]
        BY Zenon DEF Vote
    <1>1. v \in Vote
        BY <1>0, Zenon DEF Vote
    <1>2. f \in Failover /\ f.state = "none"
        BY Zenon DEF Failover, NoFailover
    <1>3. Config(c, v, cf, f) \in Saved
        BY <1>1, <1>2, ConfigType, Zenon
    <1>4. disk' \in [Sentinel -> Saved] /\ left' \in [Events -> Nat]
        BY Zenon, <1>3, FlushType DEF ChangeAddress
    <1>5. /\ conf' \in [Sentinel -> Master]
          /\ vote' \in [Sentinel -> Vote]
          /\ recent' \in [Sentinel -> BOOLEAN]
        BY Zenon, <1>1 DEF ChangeAddress
    <1>6. reconf' \in [Sentinel -> [Instance -> {"none", "sent", "inprog", "done"}]]
        BY Zenon DEF ChangeAddress, NoFlags
    <1>7. fo' \in [Sentinel -> Failover] /\ PromotedOK'
        BY Zenon, <1>2 DEF ChangeAddress, PromotedOK
    <1> QED BY Zenon, <1>4, <1>5, <1>6, <1>7

\* The types hold initially.
LEMMA TypeInit == Init => TypeInv
    BY SentinelAssumption
    DEF Init, TypeInv, TypeOK, PromotedOK, NoVote, NoFailover, NoFlags, NoMsg,
        Epoch, Vote, Master, Failover, Saved, Message

\* The steps of sentinelTimer's state machine keep the types.
LEMMA TypeTimer ==
    ASSUME TypeInv, NEW s \in Sentinel, Timer(s)
    PROVE  TypeInv'
    <1> USE TypeFacts DEF history
    <1>a. /\ cur[s] \in Epoch /\ conf[s] \in Master /\ fo[s] \in Failover
          /\ vote[s] \in Vote /\ conf[s].addr \in Instance /\ fo[s].epoch \in Epoch
        BY Zenon DEF Master, Failover
    <1>b. Replicas(s) \subseteq Instance
        BY Zenon DEF Replicas
    <1>c. fo[s].state \in {"noone", "promotion", "reconf"} => fo[s].promoted \in Instance
        BY Zenon DEF PromotedOK
    <1>1. CASE StartFailover(s)
      <2> DEFINE c == cur[s] + 1
                 f == [NoFailover EXCEPT !.state = "wait", !.epoch = c]
      <2>1. c \in Epoch
          BY <1>1, <1>a, SentinelAssumption DEF StartFailover, Epoch
      <2>2. f \in Failover /\ f.state = "wait"
          BY <2>1, Zenon DEF Failover, NoFailover
      <2>3. WaitStart(s, c, f, FALSE)
          BY <1>1, Zenon DEF StartFailover
      <2>4. cur' \in [Sentinel -> Epoch] /\ recent' \in [Sentinel -> BOOLEAN]
          BY Zenon, <1>1, <2>1 DEF StartFailover
      <2>5. UNCHANGED <<conf, heard, reconf, of>>
          BY Zenon, <1>1 DEF StartFailover
      <2> HIDE DEF c, f
      <2> QED BY <2>1, <2>2, <2>3, <2>4, <2>5, WaitStartType, Zenon DEF TypeInv, TypeOK
    <1>2. CASE FailoverWaitStart(s)
      <2>1. fo[s].state = "wait" /\ WaitStart(s, cur[s], fo[s], TRUE)
          BY <1>2, Zenon DEF FailoverWaitStart
      <2>2. recent' \in [Sentinel -> BOOLEAN] /\ UNCHANGED <<cur, conf, heard, reconf, of>>
          BY Zenon, <1>2 DEF FailoverWaitStart
      <2> QED BY <1>a, <2>1, <2>2, WaitStartType, Zenon DEF TypeInv, TypeOK
    <1>3. CASE SelectSlave(s)
      <2>1. PICK r \in Replicas(s) :
               LET f == [fo[s] EXCEPT !.state = "noone", !.promoted = r]
               IN  fo' = [fo EXCEPT ![s] = f] /\ AskOthers(s, cur[s], f)
          BY <1>3, Zenon DEF SelectSlave
      <2> DEFINE f == [fo[s] EXCEPT !.state = "noone", !.promoted = r]
      <2>2. f \in Failover /\ f.promoted \in Instance
          BY <1>a, <1>b, Zenon DEF Failover
      <2>3. UNCHANGED <<cur, vote, conf, recent, heard, reconf, disk, of, history, left>>
          BY Zenon, <1>3 DEF SelectSlave
      <2>4. ask' \in [Sentinel -> [Sentinel -> Message]]
          BY Zenon, <1>a, <2>1, AskType
      <2>5. fo' \in [Sentinel -> Failover] /\ PromotedOK'
          BY Zenon, <2>1, <2>2 DEF PromotedOK
      <2> QED BY Zenon, <2>3, <2>4, <2>5 DEF TypeInv, TypeOK
    <1>4. CASE SendSlaveOfNoOne(s)
      <2> DEFINE f == [fo[s] EXCEPT !.state = "promotion"]
      <2>1. /\ f \in Failover /\ f.promoted = fo[s].promoted
            /\ f.promoted \in Instance
          BY <1>4, <1>a, <1>c, Zenon DEF SendSlaveOfNoOne, Failover
      <2>2. /\ fo' = [fo EXCEPT ![s] = f]
            /\ SlaveOf({f.promoted}, f.promoted)
            /\ AskOthers(s, cur[s], f)
            /\ UNCHANGED <<cur, vote, conf, recent, heard, reconf, disk, history, left>>
          BY Zenon, <1>4 DEF SendSlaveOfNoOne
      <2> HIDE DEF f
      <2>3. ask' \in [Sentinel -> [Sentinel -> Message]]
          BY Zenon, <1>a, <2>2, AskType
      <2>4. of' \in [Instance -> Instance]
          BY Zenon, <2>1, <2>2, SlaveOfType
      <2>5. fo' \in [Sentinel -> Failover] /\ PromotedOK'
          BY Zenon, <2>1, <2>2 DEF PromotedOK
      <2> QED BY Zenon, <2>2, <2>3, <2>4, <2>5 DEF TypeInv, TypeOK
    <1>5. CASE AbortFailover(s)
      <2>1. Aborted(s) \in Failover /\ Aborted(s).state = "none"
          BY <1>a, Zenon DEF Aborted, NoFailover, Failover
      <2>2. /\ fo' = [fo EXCEPT ![s] = Aborted(s)]
            /\ AskOthers(s, cur[s], Aborted(s))
            /\ UNCHANGED <<cur, vote, conf, recent, heard, reconf, disk, of, history, left>>
          BY Zenon, <1>5 DEF AbortFailover
      <2>3. ask' \in [Sentinel -> [Sentinel -> Message]]
          BY Zenon, <1>a, <2>2, AskType
      <2>4. fo' \in [Sentinel -> Failover] /\ PromotedOK'
          BY Zenon, <2>1, <2>2 DEF PromotedOK
      <2> QED BY Zenon, <2>2, <2>3, <2>4 DEF TypeInv, TypeOK
    <1>6. CASE ReconfNextSlave(s)
      <2>1. PICK i \in Replicas(s) \ {fo[s].promoted} :
               \/ /\ reconf[s][i] = "none"
                  /\ reconf' = [reconf EXCEPT ![s][i] = "sent"]
                  /\ SlaveOf({i}, fo[s].promoted)
               \/ /\ reconf[s][i] = "sent"
                  /\ reconf' = [reconf EXCEPT ![s][i] = "done"]
                  /\ UNCHANGED of
          BY <1>6, Zenon DEF ReconfNextSlave
      <2>2. /\ AskOthers(s, cur[s], fo[s])
            /\ UNCHANGED <<cur, vote, conf, fo, recent, heard, disk, history, left>>
            /\ fo[s].promoted \in Instance
          BY Zenon, <1>6, <1>c DEF ReconfNextSlave
      <2>3. ask' \in [Sentinel -> [Sentinel -> Message]]
          BY Zenon, <1>a, <2>2, AskType
      <2>4. of' \in [Instance -> Instance]
          BY Zenon, <2>1, <2>2, SlaveOfType
      <2>5. reconf' \in [Sentinel -> [Instance -> {"none", "sent", "inprog", "done"}]]
        <3>1. \E x \in {"none", "sent", "inprog", "done"} : reconf' = [reconf EXCEPT ![s][i] = x]
            BY Zenon, <2>1
        <3>2. i \in Instance
            BY Zenon, <2>1, <1>b
        <3>3. reconf \in [Sentinel -> [Instance -> {"none", "sent", "inprog", "done"}]]
            BY Zenon
        <3> QED BY <3>1, <3>2, <3>3
      <2>6. PromotedOK'
          BY Zenon, <2>2 DEF PromotedOK
      <2> QED BY Zenon, <2>2, <2>3, <2>4, <2>5, <2>6 DEF TypeInv, TypeOK
    <1>7. CASE FailoverEnd(s)
      <2> DEFINE cf == [conf[s] EXCEPT !.addr = fo[s].promoted]
      <2>1. fo[s].promoted \in Instance
          BY Zenon, <1>7, <1>c DEF FailoverEnd
      <2>2. cf \in Master
        <3>1. conf[s] \in [epoch : Epoch, addr : Instance]
            BY Zenon, <1>a DEF Master
        <3> QED BY <3>1, <2>1, Zenon DEF Master
      <2>3. ChangeAddress(s, cur[s], cf) /\ UNCHANGED <<cur, heard, ask, history>>
          BY Zenon, <1>7 DEF FailoverEnd
      <2>4. \E is : SlaveOf(is, fo[s].promoted)
          BY Zenon, <1>7 DEF FailoverEnd
      <2>5. of' \in [Instance -> Instance]
          BY Zenon, <2>1, <2>4, SlaveOfType
      <2> HIDE DEF cf
      <2> QED BY Zenon, <1>a, <2>2, <2>3, <2>5, ChangeAddressType DEF TypeInv, TypeOK
    <1> QED BY Zenon, <1>1, <1>2, <1>3, <1>4, <1>5, <1>6, <1>7 DEF Timer

\* SENTINEL FAILOVER keeps the types.
LEMMA TypeForcedFailover ==
    ASSUME TypeInv, NEW s \in Sentinel, ForcedFailover(s)
    PROVE  TypeInv'
    <1> USE TypeFacts DEF history
    <1> DEFINE c == cur[s] + 1
               f == [NoFailover EXCEPT !.state = "wait", !.epoch = c, !.forced = TRUE]
    <1>1. c \in Epoch
        BY SentinelAssumption DEF ForcedFailover, Epoch
    <1>2. f \in Failover /\ f.state = "wait"
        BY <1>1, Zenon DEF Failover, NoFailover
    <1>3. /\ cur' = [cur EXCEPT ![s] = c] /\ fo' = [fo EXCEPT ![s] = f]
          /\ recent' = [recent EXCEPT ![s] = TRUE]
          /\ UNCHANGED <<vote, conf, heard, reconf, disk, ask, of, history>>
          /\ Spend("forced")
        BY Zenon DEF ForcedFailover
    <1> HIDE DEF c, f
    <1>4. left' \in [Events -> Nat]
        BY Zenon, <1>3, SpendType DEF Events
    <1>5. fo' \in [Sentinel -> Failover] /\ PromotedOK'
        BY Zenon, <1>2, <1>3 DEF PromotedOK
    <1> QED BY Zenon, <1>1, <1>3, <1>4, <1>5 DEF TypeInv, TypeOK

\* The promotion seen in INFO (sentinelRefreshInstanceInfo) keeps the types.
LEMMA TypePromotedSlave ==
    ASSUME TypeInv, NEW s \in Sentinel, PromotedSlave(s)
    PROVE  TypeInv'
    <1> USE TypeFacts DEF history
    <1> DEFINE cf == [conf[s] EXCEPT !.epoch = fo[s].epoch]
               f == [fo[s] EXCEPT !.state = "reconf"]
    <1>1. /\ conf[s] \in [epoch : Epoch, addr : Instance] /\ fo[s] \in Failover
          /\ fo[s].epoch \in Epoch /\ fo[s].promoted \in Instance
        BY Zenon DEF Master, Failover, PromotedOK, PromotedSlave
    <1>2. cf \in Master
        BY <1>1, Zenon DEF Master
    <1>3. f \in Failover /\ f.promoted \in Instance
        BY <1>1, Zenon DEF Failover
    <1>4. /\ conf' = [conf EXCEPT ![s] = cf] /\ fo' = [fo EXCEPT ![s] = f]
          /\ FlushConfig(s, Config(cur[s], vote[s], cf, f))
          /\ UNCHANGED <<cur, vote, recent, heard, reconf, ask, of, history>>
        BY Zenon DEF PromotedSlave
    <1> HIDE DEF cf, f
    <1>5. Config(cur[s], vote[s], cf, f) \in Saved
        BY Zenon, <1>2, <1>3, ConfigType
    <1>6. disk' \in [Sentinel -> Saved] /\ left' \in [Events -> Nat]
        BY Zenon, <1>4, <1>5, FlushType
    <1>7. fo' \in [Sentinel -> Failover] /\ PromotedOK'
        BY Zenon, <1>3, <1>4 DEF PromotedOK
    <1> QED BY Zenon, <1>2, <1>4, <1>6, <1>7 DEF TypeInv, TypeOK

\* A restart from the configuration file keeps the types.
LEMMA TypeRestart ==
    ASSUME TypeInv, NEW s \in Sentinel, Restart(s)
    PROVE  TypeInv'
    <1> USE TypeFacts DEF history
    <1> DEFINE d == disk[s]
    <1>1. /\ d.cur \in Epoch /\ d.epoch \in Epoch /\ d.vote \in Epoch
          /\ d.addr \in Instance
        BY Zenon DEF Saved
    <1>2. NewEpoch(d.cur, d.epoch) \in Epoch
        BY Zenon, <1>1, NewEpochIsOne
    <1>3. left' \in [Events -> Nat]
        BY Zenon, SpendType DEF Restart, Events
    <1>4. [leader |-> None, epoch |-> d.vote] \in Vote /\ NoVote \in Vote
        BY <1>1, NothingTyped, Zenon DEF Vote
    <1>5. [epoch |-> d.epoch, addr |-> d.addr] \in Master
        BY Zenon, <1>1 DEF Master
    <1>6. NoFailover \in Failover /\ NoFailover.state = "none"
        BY NothingTyped, Zenon
    <1>7. cur' \in [Sentinel -> Epoch] /\ vote' \in [Sentinel -> Vote]
          /\ conf' \in [Sentinel -> Master] /\ recent' \in [Sentinel -> BOOLEAN]
        BY Zenon, <1>2, <1>4, <1>5 DEF Restart
    <1>8. fo' \in [Sentinel -> Failover] /\ PromotedOK'
        BY Zenon, <1>6 DEF Restart, PromotedOK
    <1>9. /\ heard' \in [Sentinel -> [Sentinel -> Vote]]
          /\ reconf' \in [Sentinel -> [Instance -> {"none", "sent", "inprog", "done"}]]
        BY Zenon, <1>4 DEF Restart, NoFlags
    <1>10. ask' \in [Sentinel -> [Sentinel -> Message]]
        BY Zenon, NothingTyped DEF Restart
    <1>11. UNCHANGED <<disk, of, cast, won>>
        BY Zenon DEF Restart
    <1> QED BY Zenon, <1>3, <1>7, <1>8, <1>9, <1>10, <1>11 DEF TypeInv, TypeOK

\* A vote requested by another Sentinel (IS-MASTER-DOWN-BY-ADDR)
\* keeps the types.
LEMMA TypeIsMasterDownByAddr ==
    ASSUME TypeInv, NEW s \in Sentinel, NEW t \in Sentinel, IsMasterDownByAddr(s, t)
    PROVE  TypeInv'
    <1> USE TypeFacts DEF history
    <1> DEFINE req == ask[s][t]
               v == VoteLeader(vote[t], cur[t], req.epoch, s)
               c == NewEpoch(cur[t], req.epoch)
    <1>1. req \in Message /\ req.type = "request"
        BY DEF IsMasterDownByAddr
    <1>2. req.epoch \in Epoch
        BY <1>1, MessageFields, Zenon
    <1>3. c \in Epoch /\ v \in Vote
        BY Zenon, <1>2, NewEpochIsOne, VoteLeaderType
    <1>4. Config(c, v, conf[t], fo[t]) \in Saved
        BY Zenon, <1>3, ConfigType DEF PromotedOK
    <1>5. [type |-> "reply", leader |-> v.leader, epoch |-> v.epoch] \in Message
        BY Zenon, <1>3 DEF Vote, Message
    <1>6. NoMsg \in Message
        BY NothingTyped, Zenon
    <1>7. UNCHANGED <<conf, fo, heard, reconf, of, won>>
        BY Zenon DEF IsMasterDownByAddr
    <1>8. PromotedOK'
        BY Zenon, <1>7 DEF PromotedOK
    <1>9. CASE req.addr = conf[t].addr
      <2>1. /\ cur' = [cur EXCEPT ![t] = c]
            /\ vote' = [vote EXCEPT ![t] = v]
            /\ Cast(t, v)
            /\ recent' = [recent EXCEPT ![t] = @ \/ v # vote[t]]
            /\ ask' = [ask EXCEPT ![s][t] =
                  [type |-> "reply", leader |-> v.leader, epoch |-> v.epoch]]
            /\ IF c = cur[t] /\ v = vote[t] THEN UNCHANGED <<disk, left>>
               ELSE FlushConfig(t, Config(c, v, conf[t], fo[t]))
          BY Zenon, <1>9 DEF IsMasterDownByAddr
      <2>2. disk' \in [Sentinel -> Saved] /\ left' \in [Events -> Nat]
          BY Zenon, <1>4, <2>1, FlushType
      <2>3. cast' \subseteq [voter : Sentinel, epoch : Epoch, leader : Sentinel]
          BY Zenon, <1>2, <2>1, CastType
      <2> HIDE DEF v, c, req
      <2>4. /\ cur' \in [Sentinel -> Epoch] /\ vote' \in [Sentinel -> Vote]
            /\ recent' \in [Sentinel -> BOOLEAN]
          BY Zenon, <1>3, <2>1
      <2>5. ask' \in [Sentinel -> [Sentinel -> Message]]
          BY Zenon, <1>5, <2>1
      <2> QED BY Zenon, <1>7, <1>8, <2>2, <2>3, <2>4, <2>5 DEF TypeInv, TypeOK
    <1>10. CASE req.addr # conf[t].addr
      <2>1. /\ ask' = [ask EXCEPT ![s][t] = NoMsg]
            /\ UNCHANGED <<cur, vote, cast, recent, disk, left>>
          BY Zenon, <1>10 DEF IsMasterDownByAddr
      <2>2. ask' \in [Sentinel -> [Sentinel -> Message]]
          BY Zenon, <1>6, <2>1
      <2> QED BY Zenon, <1>7, <1>8, <2>1, <2>2 DEF TypeInv, TypeOK
    <1> QED BY Zenon, <1>9, <1>10

\* The reply to a request for a vote keeps the types.
LEMMA TypeReceiveReply ==
    ASSUME TypeInv, NEW s \in Sentinel, NEW t \in Sentinel, ReceiveReply(s, t)
    PROVE  TypeInv'
    <1> USE TypeFacts DEF history
    <1> DEFINE rep == ask[s][t]
    <1>1. rep \in Message /\ rep.type = "reply"
        BY Zenon DEF ReceiveReply
    <1>2. [leader |-> rep.leader, epoch |-> rep.epoch] \in Vote
        BY <1>1, MessageFields, Zenon
    <1>3. NoMsg \in Message
        BY NothingTyped, Zenon
    <1>4. ask' \in [Sentinel -> [Sentinel -> Message]]
        BY Zenon, <1>3 DEF ReceiveReply
    <1>5. heard' \in [Sentinel -> [Sentinel -> Vote]]
        BY Zenon, <1>2 DEF ReceiveReply
    <1>6. UNCHANGED <<cur, vote, conf, fo, recent, reconf, disk, of, history, left>>
        BY Zenon DEF ReceiveReply
    <1>7. PromotedOK'
        BY Zenon, <1>6 DEF PromotedOK
    <1> QED BY Zenon, <1>4, <1>5, <1>6, <1>7 DEF TypeInv, TypeOK

\* A lost link to another Sentinel keeps the types.
LEMMA TypeLoseLink ==
    ASSUME TypeInv, NEW s \in Sentinel, NEW t \in Sentinel, LoseLink(s, t)
    PROVE  TypeInv'
    <1> USE TypeFacts DEF history
    <1>1. NoMsg \in Message
        BY NothingTyped, Zenon
    <1>2. ask' \in [Sentinel -> [Sentinel -> Message]]
        BY Zenon, <1>1 DEF LoseLink
    <1>3. left' \in [Events -> Nat]
        BY Zenon, SpendType DEF LoseLink, Events
    <1>4. heard' \in [Sentinel -> [Sentinel -> Vote]]
      <2>1. /\ heard \in [Sentinel -> [Sentinel -> Vote]]
            /\ heard' = [heard EXCEPT ![s][t].leader = None]
          BY Zenon DEF LoseLink
      <2>2. heard[s][t] \in [leader : Sentinel \cup {None}, epoch : Epoch]
          BY <2>1 DEF Vote
      <2>3. [heard[s][t] EXCEPT !.leader = None] \in Vote
          BY <2>2, Zenon DEF Vote
      <2> QED BY Zenon, <2>1, <2>3
    <1>5. UNCHANGED <<cur, vote, conf, fo, recent, reconf, disk, of, history>>
        BY Zenon DEF LoseLink
    <1>6. PromotedOK'
        BY Zenon, <1>5 DEF PromotedOK
    <1> QED BY Zenon, <1>2, <1>3, <1>4, <1>5, <1>6 DEF TypeInv, TypeOK

\* A hello message (sentinelProcessHelloMessage) keeps the types.
LEMMA TypeHello ==
    ASSUME TypeInv, NEW s \in Sentinel, NEW t \in Sentinel, Hello(s, t)
    PROVE  TypeInv'
    <1> USE TypeFacts DEF history
    <1> DEFINE addr == CurrentMasterAddress(conf[s], fo[s])
               c == NewEpoch(cur[t], cur[s])
               newer == conf[t].epoch < conf[s].epoch
               cf == [epoch |-> conf[s].epoch, addr |-> addr]
    <1>1. c \in Epoch
        BY Zenon, NewEpochIsOne
    <1>2. addr \in Instance
        BY Zenon, ConfigType DEF PromotedOK
    <1>3. cf \in Master /\ cf.epoch \in Epoch
        BY Zenon, <1>2 DEF Master
    <1>4. cur' = [cur EXCEPT ![t] = c] /\ UNCHANGED <<heard, ask, of, history>>
        BY Zenon DEF Hello
    <1>5. CASE newer /\ addr # conf[t].addr
      <2>1. ChangeAddress(t, c, cf)
          BY Zenon, <1>5 DEF Hello
      <2> HIDE DEF c, cf
      <2> QED BY Zenon, <1>1, <1>3, <1>4, <2>1, ChangeAddressType DEF TypeInv, TypeOK
    <1>6. CASE ~(newer /\ addr # conf[t].addr)
      <2>1. /\ conf' = IF newer THEN [conf EXCEPT ![t].epoch = cf.epoch] ELSE conf
            /\ IF c = cur[t] THEN UNCHANGED <<disk, left>>
               ELSE FlushConfig(t, Config(c, vote[t], conf[t], fo[t]))
            /\ UNCHANGED <<vote, fo, recent, reconf>>
          BY Zenon, <1>6 DEF Hello
      <2>2. Config(c, vote[t], conf[t], fo[t]) \in Saved
          BY Zenon, <1>1, ConfigType DEF PromotedOK
      <2>3. disk' \in [Sentinel -> Saved] /\ left' \in [Events -> Nat]
          BY Zenon, <2>1, <2>2, FlushType
      <2>4. conf' \in [Sentinel -> Master]
          BY <1>3, <2>1, Zenon DEF Master
      <2>5. PromotedOK'
          BY Zenon, <2>1 DEF PromotedOK
      <2> HIDE DEF c, cf
      <2> QED BY <1>1, <1>4, <2>1, <2>3, <2>4, <2>5, Zenon DEF TypeInv, TypeOK
    <1> QED BY Zenon, <1>5, <1>6

\* The end of the delay between failovers keeps the types.
LEMMA TypeDelayOver ==
    ASSUME TypeInv, NEW s \in Sentinel, DelayOver(s)
    PROVE  TypeInv'
    <1> USE TypeFacts DEF history
    <1>1. left' \in [Events -> Nat]
        BY Zenon, SpendType DEF DelayOver, Events
    <1> QED BY Zenon, <1>1 DEF TypeInv, TypeOK, DelayOver, PromotedOK

\* A replica seen to follow the promoted one keeps the types.
LEMMA TypeSlaveReconfigured ==
    ASSUME TypeInv, NEW s \in Sentinel, NEW i \in Instance, SlaveReconfigured(s, i)
    PROVE  TypeInv'
    <1> USE TypeFacts DEF history
    <1>1. reconf' \in [Sentinel -> [Instance -> {"none", "sent", "inprog", "done"}]]
        BY DEF SlaveReconfigured
    <1> QED BY Zenon, <1>1 DEF TypeInv, TypeOK, SlaveReconfigured, PromotedOK

\* An instance told to follow the master of the configuration keeps the types.
LEMMA TypeFixSlave ==
    ASSUME TypeInv, NEW s \in Sentinel, NEW i \in Instance, FixSlave(s, i)
    PROVE  TypeInv'
    <1> USE TypeFacts DEF history
    <1>1. conf[s].addr \in Instance
        BY Zenon DEF Master
    <1>2. of' \in [Instance -> Instance]
        BY Zenon, <1>1, SlaveOfType DEF FixSlave
    <1> QED BY <1>2, Zenon DEF TypeInv, TypeOK, FixSlave, PromotedOK

\* A step that changes nothing keeps the types.
LEMMA TypeStutter == TypeInv /\ UNCHANGED vars => TypeInv'
    BY Zenon DEF vars, history, TypeInv, TypeOK, PromotedOK

\* Every step keeps the types.
LEMMA TypeNext == TypeInv /\ [Next]_vars => TypeInv'
    BY TypeStutter, TypeTimer, TypeForcedFailover, TypePromotedSlave, TypeDelayOver,
       TypeRestart, TypeSlaveReconfigured, TypeFixSlave, TypeIsMasterDownByAddr,
       TypeReceiveReply, TypeLoseLink, TypeHello, Zenon
    DEF Next

\* Every variable of a Sentinel keeps its type, for any number of Sentinels,
\* instances, epochs and exceptional events.
THEOREM TypeCorrect == Spec => []TypeOK
    <1>1. TypeInv => TypeOK
        BY Zenon DEF TypeInv
    <1> QED BY TypeInit, TypeNext, <1>1, PTL DEF Spec

----------------------------------------------------------------------------
(* The elections.                                                          *)

Ballot(t, v) == [voter |-> t, epoch |-> v.epoch, leader |-> v.leader]
IsMajority(Q) == Q \subseteq Sentinel /\ 2 * Cardinality(Q) > Cardinality(Sentinel)

\* The votes cast, and the last one of each Sentinel.
CastInv ==
    /\ VoteOnce
    /\ \A k \in cast : k.epoch <= vote[k.voter].epoch
    /\ \A s \in Sentinel : vote[s].leader # None => Ballot(s, vote[s]) \in cast

\* As long as every save succeeds, the disk knows the epoch of the last vote.
SavedInv ==
    /\ left["flush"] = 0
    /\ \A s \in Sentinel : disk[s].vote = vote[s].epoch

\* Whatever vote was sent or heard was cast.
HeardInv ==
    \A s, t \in Sentinel :
       /\ heard[s][t].leader # None => Ballot(t, heard[s][t]) \in cast
       /\ ask[s][t].type = "reply" /\ ask[s][t].leader # None
             => Ballot(t, ask[s][t]) \in cast

\* Who won with the votes of the epoch of the failover had a majority.
WonInv ==
    \A k \in won : k.counted = k.epoch =>
       \E Q : IsMajority(Q) /\ \A q \in Q :
          [voter |-> q, epoch |-> k.epoch, leader |-> k.who] \in cast

ElectionInv == TypeInv /\ CastInv /\ SavedInv /\ HeardInv /\ WonInv

\* Two majorities of the Sentinels have a member in common.
LEMMA MajoritiesMeet ==
    ASSUME NEW P, NEW Q, IsMajority(P), IsMajority(Q)
    PROVE  \E q \in P : q \in Q
    <1>1. IsFiniteSet(Sentinel)
        BY Zenon, SentinelAssumption
    <1>2. /\ IsFiniteSet(P) /\ IsFiniteSet(Q) /\ P \cup Q \subseteq Sentinel
        BY Zenon, <1>1, FS_Subset DEF IsMajority
    <1>3. Cardinality(P \cup Q) <= Cardinality(Sentinel)
        BY Zenon, <1>1, <1>2, FS_Subset
    <1>4. Cardinality(P \cup Q) = Cardinality(P) + Cardinality(Q) - Cardinality(P \cap Q)
        BY Zenon, <1>2, FS_Union
    <1>5. /\ Cardinality(P) \in Nat /\ Cardinality(Q) \in Nat
          /\ Cardinality(Sentinel) \in Nat /\ Cardinality(P \cap Q) \in Nat
        BY <1>1, <1>2, FS_CardinalityType, FS_Intersection, Zenon
    <1>6. Cardinality(P \cap Q) # 0
        BY <1>3, <1>4, <1>5 DEF IsMajority
    <1>7. P \cap Q # {}
        BY Zenon, <1>6, FS_EmptySet
    <1> QED BY Zenon, <1>7

\* Voting: a new vote is for an epoch later than all those the Sentinel voted in.
LEMMA CastStep ==
    ASSUME TypeInv, CastInv, NEW s \in Sentinel, NEW c \in Epoch, NEW e \in Epoch,
           NEW w \in Sentinel,
           vote' = [vote EXCEPT ![s] = VoteLeader(vote[s], c, e, w)],
           Cast(s, VoteLeader(vote[s], c, e, w))
    PROVE  CastInv' /\ cast \subseteq cast'
    <1> DEFINE v == VoteLeader(vote[s], c, e, w)
               b == Ballot(s, v)
    <1>1. /\ vote \in [Sentinel -> Vote]
          /\ cast \subseteq [voter : Sentinel, epoch : Epoch, leader : Sentinel]
        BY Zenon DEF TypeInv, TypeOK
    <1>2. CASE v = vote[s]
      <2>1. UNCHANGED <<vote, cast>>
          BY Zenon, <1>1, <1>2 DEF Cast
      <2> QED BY Zenon, <2>1 DEF CastInv, VoteOnce
    <1>3. CASE v # vote[s]
      <2>1. v = [leader |-> w, epoch |-> e] /\ vote[s].epoch < e
          BY Zenon, <1>3 DEF VoteLeader
      <2>2. cast' = cast \cup {b}
          BY Zenon, <1>3 DEF Cast, Ballot
      <2>3. b.voter = s /\ b.epoch = e /\ b.leader = w
          BY <2>1 DEF Ballot
      <2>4. \A t \in Sentinel : vote'[t] = IF t = s THEN v ELSE vote[t]
          BY Zenon, <1>1
      <2>5. \A t \in Sentinel : vote[t].epoch \in Nat /\ e \in Nat
          BY <1>1, SentinelAssumption DEF Vote, Epoch
      <2>6. \A k \in cast : k.voter = s => k.epoch < e
        <3> TAKE k \in cast
        <3>1. k.epoch <= vote[k.voter].epoch /\ k.epoch \in Nat
            BY <1>1, SentinelAssumption DEF CastInv, Epoch
        <3> QED BY <2>1, <2>5, <3>1
      <2> HIDE DEF v, b
      <2>7. VoteOnce'
        <3> SUFFICES ASSUME NEW x \in cast', NEW y \in cast',
                            x.voter = y.voter, x.epoch = y.epoch
                     PROVE  x.leader = y.leader
            BY Zenon DEF VoteOnce
        <3>1. CASE x \in cast /\ y \in cast
            BY Zenon, <3>1 DEF CastInv, VoteOnce
        <3>2. CASE x = b /\ y = b
            BY Zenon, <3>2
        <3>3. CASE x \in cast /\ y = b
            BY <3>3, <2>3, <2>5, <2>6
        <3>4. CASE x = b /\ y \in cast
            BY <3>4, <2>3, <2>5, <2>6
        <3> QED BY Zenon, <2>2, <3>1, <3>2, <3>3, <3>4
      <2>8. ASSUME NEW k \in cast' PROVE k.epoch <= vote'[k.voter].epoch
        <3>1. CASE k = b
            BY <2>1, <2>3, <2>4, <2>5, <3>1
        <3>2. CASE k \in cast
          <4>1. k.voter \in Sentinel /\ k.epoch <= vote[k.voter].epoch /\ k.epoch \in Nat
              BY <1>1, <3>2, SentinelAssumption DEF CastInv, Epoch
          <4> QED BY <2>1, <2>4, <2>5, <4>1
        <3> QED BY Zenon, <2>2, <3>1, <3>2
      <2>9. ASSUME NEW t \in Sentinel, vote'[t].leader # None
            PROVE  Ballot(t, vote'[t]) \in cast'
        <3>1. CASE t = s
            BY <2>2, <2>4, <3>1 DEF b
        <3>2. CASE t # s
            BY <2>2, <2>4, <2>9, <3>2 DEF CastInv
        <3> QED BY Zenon, <3>1, <3>2
      <2> QED BY Zenon, <2>2, <2>7, <2>8, <2>9 DEF CastInv
    <1> QED BY Zenon, <1>2, <1>3

\* Forgetting for whom one voted, but not the epoch, is harmless.
LEMMA ForgetStep ==
    ASSUME TypeInv, CastInv, UNCHANGED cast,
           \A t \in Sentinel : /\ vote'[t].epoch = vote[t].epoch
                               /\ vote'[t].leader # None => vote'[t] = vote[t]
    PROVE  CastInv'
    <1>1. \A k \in cast : k.voter \in Sentinel
        BY Zenon DEF TypeInv, TypeOK
    <1> QED BY Zenon, <1>1 DEF CastInv, VoteOnce, Ballot

\* A save that may not fail writes the epoch of the vote.
LEMMA SavedStep ==
    ASSUME TypeInv, SavedInv, NEW s \in Sentinel, NEW d \in Saved, FlushConfig(s, d)
    PROVE  disk' = [disk EXCEPT ![s] = d] /\ UNCHANGED left
    BY DEF SavedInv, FlushConfig, Spend

\* Votes cast stay cast: what was heard and won stays justified.
LEMMA HeardGrows ==
    ASSUME HeardInv, cast \subseteq cast',
           \A s, t \in Sentinel :
              /\ heard'[s][t] = heard[s][t] \/ heard'[s][t].leader = None
              /\ ask'[s][t] = ask[s][t] \/ ask'[s][t].type # "reply"
    PROVE  HeardInv'
    BY Zenon DEF HeardInv

\* Elections won stay won by votes that were cast.
LEMMA WonGrows ==
    ASSUME WonInv, UNCHANGED won, cast \subseteq cast'
    PROVE  WonInv'
    <1> SUFFICES ASSUME NEW k \in won, k.counted = k.epoch
                 PROVE  \E Q : IsMajority(Q) /\ \A q \in Q :
                           [voter |-> q, epoch |-> k.epoch, leader |-> k.who] \in cast'
        BY Zenon DEF WonInv, IsMajority
    <1>1. PICK Q : IsMajority(Q) /\ \A q \in Q :
                      [voter |-> q, epoch |-> k.epoch, leader |-> k.who] \in cast
        BY Zenon DEF WonInv
    <1> QED BY Zenon, <1>1

\* Requests are no replies.
LEMMA AskAddsRequests ==
    ASSUME TypeInv, NEW s \in Sentinel, NEW c, NEW f, AskOthers(s, c, f)
    PROVE  \A a, b \in Sentinel : ask'[a][b] = ask[a][b] \/ ask'[a][b].type # "reply"
    <1>1. ask \in [Sentinel -> [Sentinel -> Message]]
        BY Zenon DEF TypeInv, TypeOK
    <1> QED BY Zenon, <1>1 DEF AskOthers

\* The round of the election: the vote is saved before it counts, and who is
\* elected has a majority of votes, all cast in the epoch it counts.
LEMMA WaitStartStep ==
    ASSUME ElectionInv, NEW s \in Sentinel, NEW c \in Epoch, NEW f \in Failover,
           NEW b, f.state = "wait", WaitStart(s, c, f, b), UNCHANGED heard
    PROVE  CastInv' /\ SavedInv' /\ HeardInv' /\ WonInv'
    <1>0. /\ TypeInv /\ CastInv /\ SavedInv /\ HeardInv /\ WonInv
          /\ vote \in [Sentinel -> Vote] /\ conf[s] \in Master
          /\ disk \in [Sentinel -> Saved]
        BY Zenon DEF ElectionInv, TypeInv, TypeOK
    <1>1. Favourites(s, c) \subseteq Sentinel
        BY Zenon DEF Favourites
    <1>2. f.epoch \in Epoch
        BY Zenon DEF Failover
    <1>3. PICK w \in Favourites(s, c) :
           LET v == VoteLeader(vote[s], c, f.epoch, w)
               elected == Enough(Votes(s, c, v, f.epoch, s))
           IN  \E g :
                 /\ vote' = [vote EXCEPT ![s] = v]
                 /\ Cast(s, v)
                 /\ won' = won \cup (IF elected THEN
                            {[who |-> s, epoch |-> f.epoch, counted |-> c]} ELSE {})
                 /\ IF v = vote[s] THEN UNCHANGED <<disk, left>>
                    ELSE FlushConfig(s, Config(c, v, conf[s], f))
                 /\ AskOthers(s, c, g)
        BY Zenon DEF WaitStart
    <1> DEFINE v == VoteLeader(vote[s], c, f.epoch, w)
               Q == Votes(s, c, v, f.epoch, s)
               k == [who |-> s, epoch |-> f.epoch, counted |-> c]
    <1>4. PICK g :
             /\ vote' = [vote EXCEPT ![s] = v]
             /\ Cast(s, v)
             /\ won' = won \cup (IF Enough(Q) THEN {k} ELSE {})
             /\ IF v = vote[s] THEN UNCHANGED <<disk, left>>
                ELSE FlushConfig(s, Config(c, v, conf[s], f))
             /\ AskOthers(s, c, g)
        BY Zenon, <1>3
    <1>5. w \in Sentinel /\ v \in Vote
        BY Zenon, <1>0, <1>1, <1>2, VoteLeaderType
    <1>6. CastInv' /\ cast \subseteq cast'
        BY <1>0, <1>2, <1>4, <1>5, CastStep, Zenon
    <1>7. HeardInv'
        BY Zenon, <1>0, <1>4, <1>6, AskAddsRequests, HeardGrows
    <1>8. SavedInv'
      <2>1. CASE v = vote[s]
        <3>1. UNCHANGED <<disk, left, vote>>
            BY Zenon, <1>0, <1>4, <2>1
        <3> QED BY Zenon, <1>0, <3>1 DEF SavedInv
      <2>2. CASE v # vote[s]
        <3> DEFINE d == Config(c, v, conf[s], f)
        <3>1. d \in Saved /\ d.vote = v.epoch
            BY <1>0, <1>5, ConfigType DEF Failover
        <3>2. FlushConfig(s, d)
            BY Zenon, <1>4, <2>2
        <3> HIDE DEF d, v
        <3>3. disk' = [disk EXCEPT ![s] = d] /\ UNCHANGED left
            BY Zenon, <1>0, <3>1, <3>2, SavedStep
        <3> QED BY Zenon, <1>0, <1>4, <3>1, <3>3 DEF SavedInv
      <2> QED BY Zenon, <2>1, <2>2
    <1>9. WonInv'
      <2>1. ASSUME NEW x \in won', x.counted = x.epoch
            PROVE  \E P : IsMajority(P) /\ \A q \in P :
                      [voter |-> q, epoch |-> x.epoch, leader |-> x.who] \in cast'
        <3>1. CASE x \in won
          <4>1. PICK P : IsMajority(P) /\ \A q \in P :
                           [voter |-> q, epoch |-> x.epoch, leader |-> x.who] \in cast
              BY Zenon, <1>0, <2>1, <3>1 DEF WonInv
          <4> QED BY Zenon, <1>6, <4>1
        <3>2. CASE Enough(Q) /\ x = k
          <4>1. c = f.epoch /\ x.epoch = c /\ x.who = s
              BY Zenon, <2>1, <3>2
          <4>2. Q \subseteq Sentinel
              BY Zenon DEF Votes, VotesOfOthers, Others
          <4>3. IsMajority(Q)
              BY Zenon, <3>2, <4>2 DEF Enough, IsMajority
          <4>4. ASSUME NEW q \in Q
                PROVE  [voter |-> q, epoch |-> c, leader |-> s] \in cast'
            <5>1. CASE q \in VotesOfOthers(s, c, s)
              <6>1. heard[s][q] = [leader |-> s, epoch |-> c] /\ q \in Sentinel
                  BY Zenon, <5>1 DEF VotesOfOthers, Others
              <6>2. s # None
                  BY Zenon, SentinelAssumption
              <6>3. Ballot(q, heard[s][q]) \in cast
                  BY <1>0, <6>1, <6>2 DEF HeardInv
              <6> QED BY <1>6, <6>1, <6>3 DEF Ballot
            <5>2. CASE q = s /\ v = [leader |-> s, epoch |-> f.epoch]
              <6>1. vote'[s] = v /\ s # None
                  BY Zenon, <1>0, <1>4, SentinelAssumption
              <6>2. Ballot(s, vote'[s]) \in cast'
                  BY <1>6, <5>2, <6>1 DEF CastInv
              <6> QED BY <4>1, <5>2, <6>1, <6>2 DEF Ballot
            <5> QED BY Zenon, <5>1, <5>2 DEF Votes
          <4> HIDE DEF Q, k
          <4> QED BY Zenon, <4>1, <4>3, <4>4
        <3> QED BY Zenon, <1>4, <2>1, <3>1, <3>2
      <2> QED BY Zenon, <2>1 DEF WonInv, IsMajority
    <1> QED BY Zenon, <1>6, <1>7, <1>8, <1>9

\* A new master: the vote is forgotten and its epoch saved again.
LEMMA ChangeAddressStep ==
    ASSUME ElectionInv, NEW s \in Sentinel, NEW c \in Epoch, NEW cf \in Master,
           ChangeAddress(s, c, cf), UNCHANGED <<heard, ask, history>>
    PROVE  CastInv' /\ SavedInv' /\ HeardInv' /\ WonInv'
    <1> DEFINE v == [vote[s] EXCEPT !.leader = None]
               f == [NoFailover EXCEPT !.epoch = fo[s].epoch]
               d == Config(c, v, cf, f)
    <1>0. /\ TypeInv /\ CastInv /\ SavedInv /\ HeardInv /\ WonInv
          /\ vote \in [Sentinel -> Vote] /\ disk \in [Sentinel -> Saved]
          /\ fo[s] \in Failover
        BY Zenon DEF ElectionInv, TypeInv, TypeOK
    <1>1. vote[s] \in [leader : Sentinel \cup {None}, epoch : Epoch]
        BY Zenon, <1>0 DEF Vote
    <1>2. v \in Vote /\ v.leader = None /\ v.epoch = vote[s].epoch
        BY Zenon, <1>1 DEF Vote
    <1>3. f \in Failover /\ f.state = "none"
        BY <1>0, Zenon DEF Failover, NoFailover
    <1>4. d \in Saved /\ d.vote = v.epoch
        BY <1>2, <1>3, ConfigType, Zenon
    <1>5. vote' = [vote EXCEPT ![s] = v] /\ FlushConfig(s, d) /\ UNCHANGED <<cast, won>>
        BY Zenon DEF ChangeAddress, history
    <1> HIDE DEF d, v, f
    <1>6. disk' = [disk EXCEPT ![s] = d] /\ UNCHANGED left
        BY Zenon, <1>0, <1>4, <1>5, SavedStep
    <1>7. CastInv'
        BY Zenon, <1>0, <1>2, <1>5, ForgetStep
    <1>8. SavedInv'
        BY Zenon, <1>0, <1>2, <1>4, <1>5, <1>6 DEF SavedInv
    <1> QED BY Zenon, <1>0, <1>5, <1>7, <1>8, HeardGrows, WonGrows

\* A step that neither votes nor saves and in which nothing new is heard.
LEMMA QuietStep ==
    ASSUME ElectionInv, UNCHANGED <<vote, disk, history>>, left'["flush"] = 0,
           \A s, t \in Sentinel :
              /\ heard'[s][t] = heard[s][t] \/ heard'[s][t].leader = None
              /\ ask'[s][t] = ask[s][t] \/ ask'[s][t].type # "reply"
    PROVE  CastInv' /\ SavedInv' /\ HeardInv' /\ WonInv'
    <1>0. TypeInv /\ CastInv /\ SavedInv /\ HeardInv /\ WonInv
        BY Zenon DEF ElectionInv
    <1>1. UNCHANGED <<cast, won>>
        BY Zenon DEF history
    <1>2. CastInv'
        BY Zenon, <1>0, <1>1, ForgetStep
    <1>3. SavedInv'
        BY Zenon, <1>0 DEF SavedInv
    <1> QED BY Zenon, <1>0, <1>1, <1>2, <1>3, HeardGrows, WonGrows

\* Another event than a failed save leaves the budget of failed saves alone.
LEMMA SpendOther ==
    ASSUME ElectionInv, NEW e, e # "flush", Spend(e)
    PROVE  left'["flush"] = 0
    BY Zenon DEF ElectionInv, SavedInv, TypeInv, TypeOK, Spend, Events

\* The steps of sentinelTimer's state machine keep the election invariant.
LEMMA ElectionTimer ==
    ASSUME ElectionInv, NEW s \in Sentinel, Timer(s)
    PROVE  CastInv' /\ SavedInv' /\ HeardInv' /\ WonInv'
    <1>0. /\ TypeInv /\ cur[s] \in Epoch /\ fo[s] \in Failover /\ conf[s] \in Master
          /\ left["flush"] = 0 /\ vote \in [Sentinel -> Vote]
        BY Zenon DEF ElectionInv, TypeInv, TypeOK, SavedInv
    <1>1. CASE StartFailover(s)
      <2> DEFINE c == cur[s] + 1
                 f == [NoFailover EXCEPT !.state = "wait", !.epoch = c]
      <2>1. c \in Epoch
          BY <1>1, <1>0, SentinelAssumption DEF StartFailover, Epoch
      <2>2. f \in Failover /\ f.state = "wait"
          BY <2>1, Zenon DEF Failover, NoFailover
      <2>3. WaitStart(s, c, f, FALSE) /\ UNCHANGED heard
          BY <1>1, Zenon DEF StartFailover
      <2> HIDE DEF c, f
      <2> QED BY <2>1, <2>2, <2>3, WaitStartStep, Zenon
    <1>2. CASE FailoverWaitStart(s)
      <2>1. fo[s].state = "wait" /\ WaitStart(s, cur[s], fo[s], TRUE) /\ UNCHANGED heard
          BY <1>2, Zenon DEF FailoverWaitStart
      <2> QED BY <1>0, <2>1, WaitStartStep, Zenon
    <1>3. CASE SelectSlave(s)
      <2>1. \E f : AskOthers(s, cur[s], f)
          BY Zenon, <1>3 DEF SelectSlave
      <2>2. UNCHANGED <<vote, heard, disk, history, left>>
          BY Zenon, <1>3 DEF SelectSlave
      <2> QED BY Zenon, <1>0, <2>1, <2>2, AskAddsRequests, QuietStep
    <1>4. CASE SendSlaveOfNoOne(s)
      <2>1. \E f : AskOthers(s, cur[s], f)
          BY Zenon, <1>4 DEF SendSlaveOfNoOne
      <2>2. UNCHANGED <<vote, heard, disk, history, left>>
          BY Zenon, <1>4 DEF SendSlaveOfNoOne
      <2> QED BY Zenon, <1>0, <2>1, <2>2, AskAddsRequests, QuietStep
    <1>5. CASE AbortFailover(s)
      <2>1. \E f : AskOthers(s, cur[s], f)
          BY Zenon, <1>5 DEF AbortFailover
      <2>2. UNCHANGED <<vote, heard, disk, history, left>>
          BY Zenon, <1>5 DEF AbortFailover
      <2> QED BY Zenon, <1>0, <2>1, <2>2, AskAddsRequests, QuietStep
    <1>6. CASE ReconfNextSlave(s)
      <2>1. \E f : AskOthers(s, cur[s], f)
          BY Zenon, <1>6 DEF ReconfNextSlave
      <2>2. UNCHANGED <<vote, heard, disk, history, left>>
          BY Zenon, <1>6 DEF ReconfNextSlave
      <2> QED BY Zenon, <1>0, <2>1, <2>2, AskAddsRequests, QuietStep
    <1>7. CASE FailoverEnd(s)
      <2> DEFINE cf == [conf[s] EXCEPT !.addr = fo[s].promoted]
      <2>1. fo[s].promoted \in Instance
          BY Zenon, <1>7, <1>0 DEF FailoverEnd, TypeInv, PromotedOK
      <2>2. conf[s] \in [epoch : Epoch, addr : Instance]
          BY Zenon, <1>0 DEF Master
      <2>3. cf \in Master
          BY Zenon, <2>1, <2>2 DEF Master
      <2>4. ChangeAddress(s, cur[s], cf) /\ UNCHANGED <<heard, ask, history>>
          BY Zenon, <1>7 DEF FailoverEnd
      <2> HIDE DEF cf
      <2> QED BY Zenon, <1>0, <2>3, <2>4, ChangeAddressStep
    <1> QED BY Zenon, <1>1, <1>2, <1>3, <1>4, <1>5, <1>6, <1>7 DEF Timer

\* What the election invariant says of the variables, for the lemmas below.
LEMMA ElectionFacts ==
    ASSUME ElectionInv
    PROVE  /\ TypeInv /\ CastInv /\ SavedInv /\ HeardInv /\ WonInv
           /\ left["flush"] = 0 /\ vote \in [Sentinel -> Vote] /\ cur \in [Sentinel -> Epoch]
           /\ fo \in [Sentinel -> Failover] /\ conf \in [Sentinel -> Master]
           /\ disk \in [Sentinel -> Saved] /\ ask \in [Sentinel -> [Sentinel -> Message]]
           /\ heard \in [Sentinel -> [Sentinel -> Vote]] /\ PromotedOK
    BY Zenon DEF ElectionInv, TypeInv, TypeOK, SavedInv

\* The promotion seen in INFO (sentinelRefreshInstanceInfo)
\* keeps the election invariant.
LEMMA ElectionPromotedSlave ==
    ASSUME ElectionInv, NEW s \in Sentinel, PromotedSlave(s)
    PROVE  CastInv' /\ SavedInv' /\ HeardInv' /\ WonInv'
    <1> DEFINE cf == [conf[s] EXCEPT !.epoch = fo[s].epoch]
               f == [fo[s] EXCEPT !.state = "reconf"]
               d == Config(cur[s], vote[s], cf, f)
    <1>1. /\ conf[s] \in [epoch : Epoch, addr : Instance] /\ fo[s] \in Failover
          /\ fo[s].epoch \in Epoch /\ fo[s].promoted \in Instance
        BY Zenon, ElectionFacts DEF Master, Failover, PromotedOK, PromotedSlave
    <1>2. cf \in Master
        BY Zenon, <1>1 DEF Master
    <1>3. f \in Failover /\ f.promoted \in Instance
        BY <1>1, Zenon DEF Failover
    <1>4. FlushConfig(s, d) /\ UNCHANGED <<vote, heard, ask, history>>
        BY Zenon DEF PromotedSlave
    <1> HIDE DEF cf, f
    <1>5. d \in Saved /\ d.vote = vote[s].epoch
        BY Zenon, ElectionFacts, <1>2, <1>3, ConfigType
    <1> HIDE DEF d
    <1>6. disk' = [disk EXCEPT ![s] = d] /\ UNCHANGED left
        BY Zenon, ElectionFacts, <1>4, <1>5, SavedStep
    <1>7. UNCHANGED <<cast, won>>
        BY Zenon, <1>4 DEF history
    <1>8. CastInv'
        BY Zenon, ElectionFacts, <1>4, <1>7, ForgetStep
    <1>9. SavedInv'
        BY Zenon, ElectionFacts, <1>4, <1>5, <1>6 DEF SavedInv
    <1> QED BY Zenon, ElectionFacts, <1>4, <1>7, <1>8, <1>9, HeardGrows, WonGrows

\* A restart from the configuration file keeps the election invariant.
LEMMA ElectionRestart ==
    ASSUME ElectionInv, NEW s \in Sentinel, Restart(s)
    PROVE  CastInv' /\ SavedInv' /\ HeardInv' /\ WonInv'
    <1>1. left'["flush"] = 0
        BY Zenon, SpendOther DEF Restart
    <1>2. vote' = [vote EXCEPT ![s] = [leader |-> None, epoch |-> disk[s].vote]]
          /\ UNCHANGED <<disk, cast, won>>
        BY Zenon DEF Restart, history
    <1>3. \A t \in Sentinel : /\ vote'[t].epoch = vote[t].epoch
                              /\ vote'[t].leader # None => vote'[t] = vote[t]
        BY Zenon, ElectionFacts, <1>2 DEF SavedInv
    <1>4. CastInv'
        BY Zenon, ElectionFacts, <1>2, <1>3, ForgetStep
    <1>5. SavedInv'
        BY Zenon, ElectionFacts, <1>1, <1>2, <1>3 DEF SavedInv
    <1>6. \A a, b \in Sentinel :
             /\ heard'[a][b] = heard[a][b] \/ heard'[a][b].leader = None
             /\ ask'[a][b] = ask[a][b] \/ ask'[a][b].type # "reply"
        BY Zenon, ElectionFacts DEF Restart, NoVote, NoMsg
    <1> QED BY Zenon, ElectionFacts, <1>2, <1>4, <1>5, <1>6, HeardGrows, WonGrows

\* A vote requested by another Sentinel (IS-MASTER-DOWN-BY-ADDR)
\* keeps the election invariant.
LEMMA ElectionIsMasterDownByAddr ==
    ASSUME ElectionInv, NEW s \in Sentinel, NEW t \in Sentinel, IsMasterDownByAddr(s, t)
    PROVE  CastInv' /\ SavedInv' /\ HeardInv' /\ WonInv'
    <1> DEFINE req == ask[s][t]
               v == VoteLeader(vote[t], cur[t], req.epoch, s)
               c == NewEpoch(cur[t], req.epoch)
               d == Config(c, v, conf[t], fo[t])
    <1>1. req.epoch \in Epoch
      <2>1. req \in Message /\ req.type = "request"
          BY Zenon, ElectionFacts DEF IsMasterDownByAddr
      <2> QED BY <2>1 DEF Message, NoMsg
    <1>2. c \in Epoch /\ v \in Vote
        BY Zenon, ElectionFacts, <1>1, NewEpochIsOne, VoteLeaderType
    <1>3. UNCHANGED <<heard, won>>
        BY Zenon DEF IsMasterDownByAddr
    <1>4. CASE req.addr = conf[t].addr
      <2>1. /\ vote' = [vote EXCEPT ![t] = v]
            /\ Cast(t, v)
            /\ ask' = [ask EXCEPT ![s][t] =
                  [type |-> "reply", leader |-> v.leader, epoch |-> v.epoch]]
            /\ IF c = cur[t] /\ v = vote[t] THEN UNCHANGED <<disk, left>>
               ELSE FlushConfig(t, d)
          BY Zenon, <1>4 DEF IsMasterDownByAddr
      <2>2. CastInv' /\ cast \subseteq cast'
          BY ElectionFacts, <1>1, <2>1, CastStep, Zenon
      <2>3. d \in Saved /\ d.vote = v.epoch
          BY Zenon, ElectionFacts, <1>2, ConfigType DEF PromotedOK
      <2> HIDE DEF d, v, c
      <2>4. SavedInv'
        <3>1. CASE c = cur[t] /\ v = vote[t]
          <4>1. UNCHANGED <<disk, left, vote>>
              BY Zenon, ElectionFacts, <2>1, <3>1
          <4> QED BY Zenon, ElectionFacts, <4>1 DEF SavedInv
        <3>2. CASE ~(c = cur[t] /\ v = vote[t])
          <4>1. disk' = [disk EXCEPT ![t] = d] /\ UNCHANGED left
              BY Zenon, ElectionFacts, <2>1, <2>3, <3>2, SavedStep
          <4> QED BY Zenon, ElectionFacts, <2>1, <2>3, <4>1 DEF SavedInv
        <3> QED BY Zenon, <3>1, <3>2
      <2>5. vote'[t] = v
          BY Zenon, ElectionFacts, <2>1
      <2>6. v.leader # None => Ballot(t, v) \in cast'
          BY Zenon, <2>2, <2>5 DEF CastInv
      <2>7. HeardInv'
        <3> SUFFICES ASSUME NEW a \in Sentinel, NEW b \in Sentinel
                     PROVE  /\ heard'[a][b].leader # None => Ballot(b, heard'[a][b]) \in cast'
                            /\ ask'[a][b].type = "reply" /\ ask'[a][b].leader # None
                                  => Ballot(b, ask'[a][b]) \in cast'
            BY Zenon DEF HeardInv
        <3>1. heard'[a][b].leader # None => Ballot(b, heard'[a][b]) \in cast'
            BY Zenon, ElectionFacts, <1>3, <2>2 DEF HeardInv
        <3>2. CASE a = s /\ b = t
          <4>1. /\ ask'[a][b].leader = v.leader
                /\ ask'[a][b].epoch = v.epoch
              BY Zenon, ElectionFacts, <2>1, <3>2
          <4> QED BY Zenon, <2>6, <3>1, <3>2, <4>1 DEF Ballot
        <3>3. CASE ~(a = s /\ b = t)
          <4>1. ask'[a][b] = ask[a][b]
              BY Zenon, ElectionFacts, <2>1, <3>3
          <4> QED BY Zenon, ElectionFacts, <2>2, <3>1, <4>1 DEF HeardInv
        <3> QED BY Zenon, <3>2, <3>3
      <2> QED BY Zenon, ElectionFacts, <1>3, <2>2, <2>4, <2>7, WonGrows
    <1>5. CASE req.addr # conf[t].addr
      <2>1. /\ ask' = [ask EXCEPT ![s][t] = NoMsg]
            /\ UNCHANGED <<vote, cast, disk, left>>
          BY Zenon, <1>5 DEF IsMasterDownByAddr
      <2>2. \A a, b \in Sentinel : ask'[a][b] = ask[a][b] \/ ask'[a][b].type # "reply"
          BY Zenon, ElectionFacts, <2>1 DEF NoMsg
      <2> QED BY Zenon, ElectionFacts, <1>3, <2>1, <2>2, QuietStep DEF history
    <1> QED BY Zenon, <1>4, <1>5

\* The reply to a request for a vote keeps the election invariant.
LEMMA ElectionReceiveReply ==
    ASSUME ElectionInv, NEW s \in Sentinel, NEW t \in Sentinel, ReceiveReply(s, t)
    PROVE  CastInv' /\ SavedInv' /\ HeardInv' /\ WonInv'
    <1> DEFINE rep == ask[s][t]
    <1>1. /\ rep.type = "reply"
          /\ ask' = [ask EXCEPT ![s][t] = NoMsg]
          /\ heard' = IF rep.leader = None THEN heard
                      ELSE [heard EXCEPT ![s][t] =
                              [leader |-> rep.leader, epoch |-> rep.epoch]]
          /\ UNCHANGED <<vote, disk, cast, won, left>>
        BY Zenon DEF ReceiveReply, history
    <1>2. CastInv'
        BY Zenon, ElectionFacts, <1>1, ForgetStep
    <1>3. SavedInv'
        BY Zenon, ElectionFacts, <1>1 DEF SavedInv
    <1>4. HeardInv'
      <2> SUFFICES ASSUME NEW a \in Sentinel, NEW b \in Sentinel
                   PROVE  /\ heard'[a][b].leader # None => Ballot(b, heard'[a][b]) \in cast
                          /\ ask'[a][b].type = "reply" /\ ask'[a][b].leader # None
                                => Ballot(b, ask'[a][b]) \in cast
          BY Zenon, <1>1 DEF HeardInv
      <2>1. ask'[a][b] = ask[a][b] \/ ask'[a][b].type # "reply"
          BY Zenon, ElectionFacts, <1>1 DEF NoMsg
      <2>2. CASE heard'[a][b] = heard[a][b]
          BY Zenon, ElectionFacts, <2>1, <2>2 DEF HeardInv
      <2>3. CASE heard'[a][b] # heard[a][b]
        <3>1. /\ a = s /\ b = t /\ rep.leader # None
              /\ heard'[a][b] = [leader |-> rep.leader, epoch |-> rep.epoch]
            BY Zenon, ElectionFacts, <1>1, <2>3
        <3>2. Ballot(t, rep) \in cast
            BY Zenon, ElectionFacts, <1>1, <3>1 DEF HeardInv
        <3>3. Ballot(b, heard'[a][b]) \in cast
            BY <3>1, <3>2 DEF Ballot
        <3> QED BY Zenon, ElectionFacts, <2>1, <3>3 DEF HeardInv
      <2> QED BY Zenon, <2>2, <2>3
    <1> QED BY Zenon, ElectionFacts, <1>1, <1>2, <1>3, <1>4, WonGrows

\* A lost link to another Sentinel keeps the election invariant.
LEMMA ElectionLoseLink ==
    ASSUME ElectionInv, NEW s \in Sentinel, NEW t \in Sentinel, LoseLink(s, t)
    PROVE  CastInv' /\ SavedInv' /\ HeardInv' /\ WonInv'
    <1>1. left'["flush"] = 0
        BY Zenon, SpendOther DEF LoseLink
    <1>2. \A a, b \in Sentinel :
             /\ heard'[a][b] = heard[a][b] \/ heard'[a][b].leader = None
             /\ ask'[a][b] = ask[a][b] \/ ask'[a][b].type # "reply"
      <2>1. /\ ask' = [ask EXCEPT ![s][t] = NoMsg]
            /\ heard' = [heard EXCEPT ![s][t].leader = None]
          BY Zenon DEF LoseLink
      <2>2. heard[s][t] \in [leader : Sentinel \cup {None}, epoch : Epoch]
          BY Zenon, ElectionFacts DEF Vote
      <2>3. [heard[s][t] EXCEPT !.leader = None].leader = None
          BY Zenon, <2>2
      <2> QED BY Zenon, ElectionFacts, <2>1, <2>3 DEF NoMsg
    <1> QED BY Zenon, <1>1, <1>2, QuietStep DEF LoseLink

\* A hello message (sentinelProcessHelloMessage) keeps the election invariant.
LEMMA ElectionHello ==
    ASSUME ElectionInv, NEW s \in Sentinel, NEW t \in Sentinel, Hello(s, t)
    PROVE  CastInv' /\ SavedInv' /\ HeardInv' /\ WonInv'
    <1> DEFINE addr == CurrentMasterAddress(conf[s], fo[s])
               c == NewEpoch(cur[t], cur[s])
               newer == conf[t].epoch < conf[s].epoch
               cf == [epoch |-> conf[s].epoch, addr |-> addr]
               d == Config(c, vote[t], conf[t], fo[t])
    <1>1. c \in Epoch
        BY Zenon, ElectionFacts, NewEpochIsOne
    <1>2. addr \in Instance
        BY Zenon, ElectionFacts, ConfigType DEF PromotedOK
    <1>3. cf \in Master
        BY Zenon, ElectionFacts, <1>2 DEF Master
    <1>4. UNCHANGED <<heard, ask, history>>
        BY Zenon DEF Hello
    <1>5. CASE newer /\ addr # conf[t].addr
      <2>1. ChangeAddress(t, c, cf)
          BY Zenon, <1>5 DEF Hello
      <2> HIDE DEF c, cf
      <2> QED BY Zenon, <1>1, <1>3, <1>4, <2>1, ChangeAddressStep
    <1>6. CASE ~(newer /\ addr # conf[t].addr)
      <2>1. /\ IF c = cur[t] THEN UNCHANGED <<disk, left>> ELSE FlushConfig(t, d)
            /\ UNCHANGED vote
          BY Zenon, <1>6 DEF Hello
      <2>2. d \in Saved /\ d.vote = vote[t].epoch
          BY ElectionFacts, <1>1, ConfigType DEF PromotedOK
      <2> HIDE DEF d, c
      <2>3. SavedInv'
        <3>1. CASE UNCHANGED <<disk, left>>
            BY Zenon, ElectionFacts, <2>1, <3>1 DEF SavedInv
        <3>2. CASE FlushConfig(t, d)
          <4>1. disk' = [disk EXCEPT ![t] = d] /\ UNCHANGED left
              BY Zenon, ElectionFacts, <2>2, <3>2, SavedStep
          <4> QED BY Zenon, ElectionFacts, <2>1, <2>2, <4>1 DEF SavedInv
        <3> QED BY Zenon, <2>1, <3>1, <3>2
      <2>4. UNCHANGED <<cast, won>>
          BY Zenon, <1>4 DEF history
      <2>5. CastInv'
          BY Zenon, ElectionFacts, <2>1, <2>4, ForgetStep
      <2> QED BY Zenon, ElectionFacts, <1>4, <2>3, <2>4, <2>5, HeardGrows, WonGrows
    <1> QED BY Zenon, <1>5, <1>6

\* Every step keeps the election invariant.
LEMMA ElectionNext == ElectionInv /\ [Next]_vars => ElectionInv'
    <1> SUFFICES ASSUME ElectionInv, [Next]_vars PROVE ElectionInv'
        BY Zenon
    <1>t. TypeInv'
        BY Zenon, TypeNext DEF ElectionInv
    <1> SUFFICES CastInv' /\ SavedInv' /\ HeardInv' /\ WonInv'
        BY Zenon, <1>t DEF ElectionInv
    <1> DEFINE Goal == CastInv' /\ SavedInv' /\ HeardInv' /\ WonInv'
    <1>1. CASE UNCHANGED vars
        BY Zenon, ElectionFacts, <1>1, QuietStep DEF vars
    <1>2. ASSUME NEW s \in Sentinel, Timer(s) PROVE Goal
        BY Zenon, <1>2, ElectionTimer
    <1>3. ASSUME NEW s \in Sentinel, ForcedFailover(s) PROVE Goal
      <2>1. left'["flush"] = 0
          BY Zenon, <1>3, SpendOther DEF ForcedFailover
      <2> QED BY Zenon, <1>3, <2>1, QuietStep DEF ForcedFailover
    <1>4. ASSUME NEW s \in Sentinel, PromotedSlave(s) PROVE Goal
        BY Zenon, <1>4, ElectionPromotedSlave
    <1>5. ASSUME NEW s \in Sentinel, DelayOver(s) PROVE Goal
      <2>1. left'["flush"] = 0
          BY Zenon, <1>5, SpendOther DEF DelayOver
      <2> QED BY Zenon, <1>5, <2>1, QuietStep DEF DelayOver
    <1>6. ASSUME NEW s \in Sentinel, Restart(s) PROVE Goal
        BY Zenon, <1>6, ElectionRestart
    <1>7. ASSUME NEW s \in Sentinel, NEW i \in Instance,
                 SlaveReconfigured(s, i) \/ FixSlave(s, i)
          PROVE  Goal
        BY Zenon, ElectionFacts, <1>7, QuietStep DEF SlaveReconfigured, FixSlave
    <1>9. ASSUME NEW s \in Sentinel, NEW t \in Sentinel, IsMasterDownByAddr(s, t)
          PROVE Goal
        BY Zenon, <1>9, ElectionIsMasterDownByAddr
    <1>10. ASSUME NEW s \in Sentinel, NEW t \in Sentinel, ReceiveReply(s, t)
           PROVE Goal
        BY Zenon, <1>10, ElectionReceiveReply
    <1>11. ASSUME NEW s \in Sentinel, NEW t \in Sentinel, LoseLink(s, t)
           PROVE Goal
        BY Zenon, <1>11, ElectionLoseLink
    <1>12. ASSUME NEW s \in Sentinel, NEW t \in Sentinel, Hello(s, t)
           PROVE Goal
        BY Zenon, <1>12, ElectionHello
    <1> QED BY Zenon, <1>1, <1>2, <1>3, <1>4, <1>5, <1>6, <1>7, <1>9, <1>10, <1>11, <1>12
            DEF Next

\* Initially nobody has voted.
LEMMA ElectionInit ==
    ASSUME \A b \in Budgets : b["flush"] = 0
    PROVE  Init => ElectionInv
    <1> SUFFICES ASSUME Init PROVE ElectionInv
        BY Zenon
    <1>1. TypeInv
        BY Zenon, TypeInit
    <1>2. CastInv
        BY Zenon DEF Init, CastInv, VoteOnce, NoVote
    <1>3. SavedInv
        BY Zenon DEF Init, SavedInv, NoVote
    <1>4. HeardInv
        BY Zenon DEF Init, HeardInv, NoVote, NoMsg
    <1>5. WonInv
        BY Zenon DEF Init, WonInv
    <1> QED BY Zenon, <1>1, <1>2, <1>3, <1>4, <1>5 DEF ElectionInv

\* A Sentinel whose saves succeed votes once per epoch, for any number of
\* Sentinels, epochs, restarts, lost connections and forced failovers.
THEOREM VotesOnce ==
    ASSUME \A b \in Budgets : b["flush"] = 0
    PROVE  Spec => []VoteOnce
    <1>1. ElectionInv => VoteOnce
        BY Zenon DEF ElectionInv, CastInv
    <1> QED BY ElectionInit, ElectionNext, <1>1, PTL DEF Spec

\* Two Sentinels that count the votes of the epoch they started their failover
\* in do not both win it: each has a majority, the majorities meet, and the
\* Sentinel they share voted once.
THEOREM SingleLeader ==
    ASSUME \A b \in Budgets : b["flush"] = 0
    PROVE  Spec => []OneLeader
    <1>1. ElectionInv => OneLeader
      <2> SUFFICES ASSUME ElectionInv, NEW a \in won, NEW b \in won,
                          a.epoch = b.epoch, a.counted = a.epoch, b.counted = b.epoch
                   PROVE  a.who = b.who
          BY Zenon DEF OneLeader
      <2>1. PICK P : IsMajority(P) /\ \A q \in P :
                       [voter |-> q, epoch |-> a.epoch, leader |-> a.who] \in cast
          BY Zenon DEF ElectionInv, WonInv
      <2>2. PICK Q : IsMajority(Q) /\ \A q \in Q :
                       [voter |-> q, epoch |-> b.epoch, leader |-> b.who] \in cast
          BY Zenon DEF ElectionInv, WonInv
      <2>3. PICK q \in P : q \in Q
          BY Zenon, <2>1, <2>2, MajoritiesMeet
      <2>4. /\ [voter |-> q, epoch |-> a.epoch, leader |-> a.who] \in cast
            /\ [voter |-> q, epoch |-> a.epoch, leader |-> b.who] \in cast
          BY Zenon, <2>1, <2>2, <2>3
      <2> QED BY Zenon, <2>4 DEF ElectionInv, CastInv, VoteOnce
    <1> QED BY ElectionInit, ElectionNext, <1>1, PTL DEF Spec

=============================================================================
