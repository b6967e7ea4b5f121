--------------------------- MODULE RedisSentinel ---------------------------
(***************************************************************************)
(* Redis Sentinel (src/redis-stable/src/sentinel.c): the election of the   *)
(* Sentinel that performs a failover, the failover itself, and the spread  *)
(* of the resulting configuration.  Every Sentinel is one process whose    *)
(* timer and callbacks run one at a time; what a handler sends leaves the  *)
(* process when the handler has returned.  The failure detector is an      *)
(* input: a Sentinel may find the master or a replica down, or up again,   *)
(* at any moment, so that timeouts may always be false.  All the Sentinels *)
(* and all the instances know one another.                                 *)
(***************************************************************************)
EXTENDS Integers, FiniteSets

CONSTANTS
    Sentinel,     \* the Sentinels
    Instance,     \* the Redis instances
    InitMaster,   \* the instance that is the master at first
    Quorum,       \* master->quorum
    ParallelSyncs,\* master->parallel_syncs
    Budgets,      \* bounds: how often each exceptional event may happen
    MaxEpoch,     \* bound: the epochs a Sentinel may start
    Timely,       \* do the news of a failover arrive within the waits of FixSlave?
    None

Events == {"crash", "flush", "delay", "forced", "lose"}

ASSUME SentinelAssumption ==
    /\ IsFiniteSet(Sentinel)
    /\ InitMaster \in Instance
    /\ None \notin Sentinel \cup Instance
    /\ MaxEpoch \in Nat
    /\ Budgets \subseteq [Events -> Nat]
    /\ Timely \in BOOLEAN

VARIABLES
    cur,     \* sentinel.current_epoch
    vote,    \* master->leader and master->leader_epoch: the Sentinel's own vote
    conf,    \* master->config_epoch and master->addr
    fo,      \* the failover of the Sentinel, if it has one
    recent,  \* is the last failover attempt too recent to start another?
    heard,   \* ri->leader and ri->leader_epoch: the votes of the others
    reconf,  \* the SRI_RECONF_ flags of the replicas
    disk,    \* the configuration file
    ask,     \* IS-MASTER-DOWN-BY-ADDR: the request or reply in flight
    of,      \* the master each instance replicates from, itself for a master
    cast,    \* history: the votes cast
    won,     \* history: the elections won
    left     \* how often each exceptional event may still happen

history == <<cast, won>>
vars == <<cur, vote, conf, fo, recent, heard, reconf, disk, ask, of,
          history, left>>

----------------------------------------------------------------------------
NoVote == [leader |-> None, epoch |-> 0]
NoFailover == [state |-> "none", epoch |-> 0, promoted |-> None, forced |-> FALSE]
NoMsg == [type |-> "none"]
Others(s) == Sentinel \ {s}
Replicas(s) == Instance \ {conf[s].addr}
Spend(e) == left[e] > 0 /\ left' = [left EXCEPT ![e] = @ - 1]

\* sentinelGetCurrentMasterAddress: the promoted replica once it is a master.
CurrentMasterAddress(cf, f) ==
    IF f.state = "reconf" THEN f.promoted ELSE cf.addr

\* What sentinelFlushConfig writes, and what a restarted Sentinel reads.
Config(c, v, cf, f) ==
    [cur |-> c, vote |-> v.epoch, epoch |-> cf.epoch,
     addr |-> CurrentMasterAddress(cf, f)]

\* sentinelFlushConfig: a failed rewrite is logged and nothing else.
FlushConfig(s, new) ==
    \/ disk' = [disk EXCEPT ![s] = new] /\ UNCHANGED left
    \/ Spend("flush") /\ UNCHANGED disk

\* The votes for w that sentinelGetLeader counts: those of the others for the
\* current epoch, and the Sentinel's own if it was cast in the failover epoch.
VotesOfOthers(s, c, w) ==
    {t \in Others(s) : heard[s][t] = [leader |-> w, epoch |-> c]}
Votes(s, c, v, e, w) ==
    VotesOfOthers(s, c, w)
       \cup (IF v = [leader |-> w, epoch |-> e] THEN {s} ELSE {})

\* The most voted of the others' votes, or the Sentinel itself.
Favourites(s, c) ==
    LET most == {w \in Sentinel :
                   /\ VotesOfOthers(s, c, w) # {}
                   /\ \A x \in Sentinel : Cardinality(VotesOfOthers(s, c, x))
                                             <= Cardinality(VotesOfOthers(s, c, w))}
    IN  IF most = {} THEN {s} ELSE most

\* A majority of all the Sentinels, and never less than the quorum.
MutantQuorumOnly(votes) == Cardinality(votes) >= Quorum
Enough(votes) ==
    /\ 2 * Cardinality(votes) > Cardinality(Sentinel)
    /\ Cardinality(votes) >= Quorum

\* sentinelVoteLeader: one vote per epoch, and none for an epoch that is over.
NewEpoch(c, e) == IF e > c THEN e ELSE c
MutantVotesAgain(v, c, e, w) ==
    IF NewEpoch(c, e) <= e THEN [leader |-> w, epoch |-> e] ELSE v
VoteLeader(v, c, e, w) ==
    IF v.epoch < e /\ NewEpoch(c, e) <= e THEN [leader |-> w, epoch |-> e] ELSE v

Cast(s, v) ==
    cast' = cast \cup (IF v = vote[s] THEN {}
                       ELSE {[voter |-> s, epoch |-> v.epoch, leader |-> v.leader]})

----------------------------------------------------------------------------
(* The timer (sentinelHandleRedisInstance).  Each state of the failover is *)
(* an action; all end with the requests for votes, which carry the current *)
(* epoch and not the one of the failover.                                  *)

\* sentinelAskMasterStateToOtherSentinels: while a failover is in progress the
\* others are asked to vote (again and again; a Sentinel whose vote for the
\* epoch is known would only repeat it and is left out).
AskOthers(s, c, f) ==
    ask' = [ask EXCEPT ![s] = [t \in Sentinel |->
              IF /\ t # s /\ f.state # "none" /\ @[t] = NoMsg
                 /\ heard[s][t].leader = None \/ heard[s][t].epoch # c
              THEN [type |-> "request", epoch |-> c, addr |-> conf[s].addr]
              ELSE @[t]]]

\* sentinelFailoverWaitStart for the epoch c and the failover f: the Sentinel
\* votes, then either is the leader, goes on waiting, or gives up (timeout).
WaitStart(s, c, f, mayTimeout) ==
    \E w \in Favourites(s, c) :
       LET v == VoteLeader(vote[s], c, f.epoch, w)
           elected == Enough(Votes(s, c, v, f.epoch, s))
           next == IF elected \/ f.forced
                   THEN {[f EXCEPT !.state = "select"]}
                   ELSE {f} \cup (IF mayTimeout
                                  THEN {[NoFailover EXCEPT !.epoch = f.epoch]}
                                  ELSE {})
       IN  \E g \in next :
             /\ fo' = [fo EXCEPT ![s] = g]
             /\ vote' = [vote EXCEPT ![s] = v]
             /\ Cast(s, v)
             /\ won' = won \cup (IF elected THEN
                        {[who |-> s, epoch |-> f.epoch, counted |-> c]} ELSE {})
             /\ IF v = vote[s] THEN UNCHANGED <<disk, left>>
                ELSE FlushConfig(s, Config(c, v, conf[s], f))
             /\ AskOthers(s, c, g)

\* sentinelStartFailoverIfNeeded and the first round of the election.
StartFailover(s) ==
    LET c == cur[s] + 1
    IN  /\ fo[s].state = "none"
        /\ ~recent[s]
        /\ c <= MaxEpoch
        /\ cur' = [cur EXCEPT ![s] = c]
        /\ recent' = [recent EXCEPT ![s] = TRUE]
        /\ WaitStart(s, c, [NoFailover EXCEPT !.state = "wait", !.epoch = c], FALSE)
        /\ UNCHANGED <<conf, heard, reconf, of>>

FailoverWaitStart(s) ==
    /\ fo[s].state = "wait"
    /\ WaitStart(s, cur[s], fo[s], TRUE)
    /\ recent' = [recent EXCEPT ![s] = @ \/ (vote'[s] # vote[s] /\ vote'[s].leader # s)]
    /\ UNCHANGED <<cur, conf, heard, reconf, of>>

\* SENTINEL FAILOVER: a failover that needs no election.
ForcedFailover(s) ==
    LET c == cur[s] + 1
    IN  /\ fo[s].state = "none"
        /\ c <= MaxEpoch
        /\ Replicas(s) # {}
        /\ Spend("forced")
        /\ cur' = [cur EXCEPT ![s] = c]
        /\ fo' = [fo EXCEPT ![s] = [NoFailover EXCEPT !.state = "wait",
                                      !.epoch = c, !.forced = TRUE]]
        /\ recent' = [recent EXCEPT ![s] = TRUE]
        /\ UNCHANGED <<vote, conf, heard, reconf, disk, ask, of, history>>

\* sentinelAbortFailover.
Aborted(s) == [NoFailover EXCEPT !.epoch = fo[s].epoch]
AbortFailover(s) ==
    /\ fo[s].state \in {"select", "noone", "promotion"}
    /\ fo' = [fo EXCEPT ![s] = Aborted(s)]
    /\ AskOthers(s, cur[s], Aborted(s))
    /\ UNCHANGED <<cur, vote, conf, recent, heard, reconf, disk, of, history, left>>

\* sentinelSendSlaveOf: each of the instances executes the command, or it is
\* lost with the connection; an instance that follows itself is a master.
SlaveOf(instances, master) ==
    \E done \in SUBSET instances :
       of' = [i \in Instance |-> IF i \in done THEN master ELSE of[i]]

\* sentinelFailoverSelectSlave: the replicas that look healthy are an input.
SelectSlave(s) ==
    /\ fo[s].state = "select"
    /\ \E r \in Replicas(s) :
          LET f == [fo[s] EXCEPT !.state = "noone", !.promoted = r]
          IN  fo' = [fo EXCEPT ![s] = f] /\ AskOthers(s, cur[s], f)
    /\ UNCHANGED <<cur, vote, conf, recent, heard, reconf, disk, of, history, left>>

SendSlaveOfNoOne(s) ==
    LET f == [fo[s] EXCEPT !.state = "promotion"]
    IN  /\ fo[s].state = "noone"
        /\ fo' = [fo EXCEPT ![s] = f]
        /\ SlaveOf({f.promoted}, f.promoted)
        /\ AskOthers(s, cur[s], f)
        /\ UNCHANGED <<cur, vote, conf, recent, heard, reconf, disk, history, left>>

\* Mutant of PromotedSlave: the configuration epoch is not raised.
MutantKeepsConfigEpoch(s) ==
    LET f == [fo[s] EXCEPT !.state = "reconf"]
    IN  /\ fo[s].state = "promotion"
        /\ of[fo[s].promoted] = fo[s].promoted
        /\ fo' = [fo EXCEPT ![s] = f]
        /\ FlushConfig(s, Config(cur[s], vote[s], conf[s], f))
        /\ UNCHANGED <<cur, vote, conf, recent, heard, reconf, ask, of, history>>

\* sentinelRefreshInstanceInfo: the promoted replica reports to be a master.
PromotedSlave(s) ==
    LET cf == [conf[s] EXCEPT !.epoch = fo[s].epoch]
        f == [fo[s] EXCEPT !.state = "reconf"]
    IN  /\ fo[s].state = "promotion"
        /\ of[fo[s].promoted] = fo[s].promoted
        /\ conf' = [conf EXCEPT ![s] = cf]
        /\ fo' = [fo EXCEPT ![s] = f]
        /\ FlushConfig(s, Config(cur[s], vote[s], cf, f))
        /\ UNCHANGED <<cur, vote, recent, heard, reconf, ask, of, history>>

\* sentinelResetMasterAndChangeAddress: everything about the old master goes,
\* and the vote with it, but not the epoch of the vote.
NoFlags == [i \in Instance |-> "none"]
ChangeAddress(s, c, cf) ==
    LET v == [vote[s] EXCEPT !.leader = None]
        f == [NoFailover EXCEPT !.epoch = fo[s].epoch]
    IN  /\ conf' = [conf EXCEPT ![s] = cf]
        /\ vote' = [vote EXCEPT ![s] = v]
        /\ fo' = [fo EXCEPT ![s] = f]
        /\ recent' = [recent EXCEPT ![s] = FALSE]
        /\ reconf' = [reconf EXCEPT ![s] = NoFlags]
        /\ FlushConfig(s, Config(c, v, cf, f))

\* sentinelFailoverReconfNextSlave: at most ParallelSyncs replicas at a time.
Reconfiguring(s) ==
    {i \in Replicas(s) : reconf[s][i] \in {"sent", "inprog"}}
ReconfNextSlave(s) ==
    /\ fo[s].state = "reconf"
    /\ Cardinality(Reconfiguring(s)) < ParallelSyncs
    /\ \E i \in Replicas(s) \ {fo[s].promoted} :
          \/ /\ reconf[s][i] = "none"
             /\ reconf' = [reconf EXCEPT ![s][i] = "sent"]
             /\ SlaveOf({i}, fo[s].promoted)
          \/ /\ reconf[s][i] = "sent"   \* it takes too long
             /\ reconf' = [reconf EXCEPT ![s][i] = "done"]
             /\ UNCHANGED of
    /\ AskOthers(s, cur[s], fo[s])
    /\ UNCHANGED <<cur, vote, conf, fo, recent, heard, disk, history, left>>

\* sentinelFailoverDetectEnd and sentinelFailoverSwitchToPromotedSlave: all
\* the reachable replicas are reconfigured, or time is up and the others are
\* sent a last SLAVEOF.
FailoverEnd(s) ==
    /\ fo[s].state = "reconf"
    /\ \E timeout \in BOOLEAN :
          SlaveOf({i \in Replicas(s) \ {fo[s].promoted} :
                      timeout /\ reconf[s][i] \notin {"done", "sent"}},
                  fo[s].promoted)
    /\ ChangeAddress(s, cur[s], [conf[s] EXCEPT !.addr = fo[s].promoted])
    /\ UNCHANGED <<cur, heard, ask, history>>

----------------------------------------------------------------------------
(* INFO replies of the replicas (sentinelRefreshInstanceInfo).             *)

\* A replica that is being reconfigured follows the promoted one.
SlaveReconfigured(s, i) ==
    /\ fo[s].state = "reconf"
    /\ i \in Replicas(s)
    /\ of[i] # i
    /\ \/ reconf[s][i] = "sent" /\ of[i] = fo[s].promoted
       \/ reconf[s][i] = "inprog"
    /\ \E up \in BOOLEAN :
          /\ up \/ reconf[s][i] = "sent"
          /\ reconf' = [reconf EXCEPT ![s][i] = IF up THEN "done" ELSE "inprog"]
    /\ UNCHANGED <<cur, vote, conf, fo, recent, heard, disk, ask, of, history, left>>

\* A replica that is a master, or follows another one, is sent back to the
\* master of this Sentinel, provided that one looks sane.  The Sentinel first
\* waits "to receive new configs if any": if the news are timely, none is missing.
UpToDate(s, i) ==
    \A t \in Sentinel :
       /\ conf[t].epoch <= conf[s].epoch
       /\ ~(fo[t].state = "promotion" /\ fo[t].promoted = i)
MutantLeavesMasters(s, i) ==
    /\ Timely => UpToDate(s, i)
    /\ i \in Replicas(s)
    /\ of[i] \notin {i, conf[s].addr}
    /\ of[conf[s].addr] = conf[s].addr
    /\ SlaveOf({i}, conf[s].addr)
    /\ UNCHANGED <<cur, vote, conf, fo, recent, heard, reconf, disk, ask,
                   history, left>>
FixSlave(s, i) ==
    /\ Timely => UpToDate(s, i)
    /\ i \in Replicas(s)
    /\ of[i] # conf[s].addr
    /\ of[conf[s].addr] = conf[s].addr
    /\ of[i] = i => i # fo[s].promoted
    /\ SlaveOf({i}, conf[s].addr)
    /\ UNCHANGED <<cur, vote, conf, fo, recent, heard, reconf, disk, ask,
                   history, left>>

----------------------------------------------------------------------------
(* Between Sentinels.                                                      *)

\* SENTINEL IS-MASTER-DOWN-BY-ADDR with the id of s, handled by t.
IsMasterDownByAddr(s, t) ==
    LET req == ask[s][t]
        v == VoteLeader(vote[t], cur[t], req.epoch, s)
        c == NewEpoch(cur[t], req.epoch)
    IN  /\ req.type = "request"
        /\ IF req.addr = conf[t].addr
           THEN /\ cur' = [cur EXCEPT ![t] = c]
                /\ vote' = [vote EXCEPT ![t] = v]
                /\ Cast(t, v)
                /\ recent' = [recent EXCEPT ![t] = @ \/ v # vote[t]]
                /\ ask' = [ask EXCEPT ![s][t] =
                      [type |-> "reply", leader |-> v.leader, epoch |-> v.epoch]]
                /\ IF c = cur[t] /\ v = vote[t] THEN UNCHANGED <<disk, left>>
                   ELSE FlushConfig(t, Config(c, v, conf[t], fo[t]))
           ELSE /\ ask' = [ask EXCEPT ![s][t] = NoMsg]
                /\ UNCHANGED <<cur, vote, cast, recent, disk, left>>
        /\ UNCHANGED <<conf, fo, heard, reconf, of, won>>

\* sentinelReceiveIsMasterDownReply: whatever vote the reply carries is kept.
ReceiveReply(s, t) ==
    LET rep == ask[s][t]
    IN  /\ rep.type = "reply"
        /\ ask' = [ask EXCEPT ![s][t] = NoMsg]
        /\ heard' = IF rep.leader = None THEN heard
                    ELSE [heard EXCEPT ![s][t] =
                            [leader |-> rep.leader, epoch |-> rep.epoch]]
        /\ UNCHANGED <<cur, vote, conf, fo, recent, reconf, disk, of,
                       history, left>>

\* A connection is lost with what was in flight on it, and it stays down until
\* what the other end said is too old and forgotten.
LoseLink(s, t) ==
    /\ ask[s][t] # NoMsg \/ heard[s][t].leader # None
    /\ Spend("lose")
    /\ ask' = [ask EXCEPT ![s][t] = NoMsg]
    /\ heard' = [heard EXCEPT ![s][t].leader = None]
    /\ UNCHANGED <<cur, vote, conf, fo, recent, reconf, disk, of,
                   history>>

\* Mutant of Hello: a newer epoch hides a newer configuration.
MutantEpochOnly(s, t) ==
    LET c == NewEpoch(cur[t], cur[s])
    IN  /\ cur[t] < cur[s]
        /\ cur' = [cur EXCEPT ![t] = c]
        /\ FlushConfig(t, Config(c, vote[t], conf[t], fo[t]))
        /\ UNCHANGED <<vote, conf, fo, recent, heard, reconf, ask, of, history>>

\* sentinelSendHello of s, sentinelProcessHelloMessage of t.
Hello(s, t) ==
    LET addr == CurrentMasterAddress(conf[s], fo[s])
        c == NewEpoch(cur[t], cur[s])
        newer == conf[t].epoch < conf[s].epoch
        cf == [epoch |-> conf[s].epoch, addr |-> addr]
    IN  /\ cur[t] < cur[s] \/ newer
        /\ cur' = [cur EXCEPT ![t] = c]
        /\ \/ /\ newer /\ addr # conf[t].addr
              /\ ChangeAddress(t, c, cf)
           \/ /\ ~(newer /\ addr # conf[t].addr)
              /\ conf' = IF newer THEN [conf EXCEPT ![t].epoch = cf.epoch] ELSE conf
              /\ IF c = cur[t] THEN UNCHANGED <<disk, left>>
                 ELSE FlushConfig(t, Config(c, vote[t], conf[t], fo[t]))
              /\ UNCHANGED <<vote, fo, recent, reconf>>
        /\ UNCHANGED <<heard, ask, of, history>>

----------------------------------------------------------------------------
(* Time and crashes.                                                       *)

\* Twice the failover timeout has passed since the last attempt.
DelayOver(s) ==
    /\ recent[s]
    /\ Spend("delay")
    /\ recent' = [recent EXCEPT ![s] = FALSE]
    /\ UNCHANGED <<cur, vote, conf, fo, heard, reconf, disk, ask, of, history>>

\* A Sentinel dies and is started again from its configuration file.
Restart(s) ==
    LET d == disk[s]
    IN  /\ Spend("crash")
        /\ cur' = [cur EXCEPT ![s] = NewEpoch(d.cur, d.epoch)]
        /\ vote' = [vote EXCEPT ![s] = [leader |-> None, epoch |-> d.vote]]
        /\ conf' = [conf EXCEPT ![s] = [epoch |-> d.epoch, addr |-> d.addr]]
        /\ fo' = [fo EXCEPT ![s] = NoFailover]
        /\ recent' = [recent EXCEPT ![s] = FALSE]
        /\ heard' = [heard EXCEPT ![s] = [t \in Sentinel |-> NoVote]]
        /\ reconf' = [reconf EXCEPT ![s] = NoFlags]
        /\ ask' = [a \in Sentinel |-> [b \in Sentinel |->
                     IF s \in {a, b} THEN NoMsg ELSE ask[a][b]]]
        /\ UNCHANGED <<disk, of, history>>

----------------------------------------------------------------------------
Init ==
    /\ cur = [s \in Sentinel |-> 0]
    /\ vote = [s \in Sentinel |-> NoVote]
    /\ conf = [s \in Sentinel |-> [epoch |-> 0, addr |-> InitMaster]]
    /\ fo = [s \in Sentinel |-> NoFailover]
    /\ recent = [s \in Sentinel |-> FALSE]
    /\ heard = [s \in Sentinel |-> [t \in Sentinel |-> NoVote]]
    /\ reconf = [s \in Sentinel |-> NoFlags]
    /\ disk = [s \in Sentinel |->
                 [cur |-> 0, vote |-> 0, epoch |-> 0, addr |-> InitMaster]]
    /\ ask = [s \in Sentinel |-> [t \in Sentinel |-> NoMsg]]
    /\ of = [i \in Instance |-> InitMaster]
    /\ cast = {}
    /\ won = {}
    /\ left \in Budgets

Timer(s) ==
    \/ StartFailover(s)
    \/ FailoverWaitStart(s)
    \/ SelectSlave(s)
    \/ SendSlaveOfNoOne(s)
    \/ AbortFailover(s)
    \/ ReconfNextSlave(s)
    \/ FailoverEnd(s)

Next ==
    \E s \in Sentinel :
       \/ Timer(s)
       \/ ForcedFailover(s)
       \/ PromotedSlave(s)
       \/ DelayOver(s)
       \/ Restart(s)
       \/ \E i \in Instance : SlaveReconfigured(s, i) \/ FixSlave(s, i)
       \/ \E t \in Sentinel :
             IsMasterDownByAddr(s, t) \/ ReceiveReply(s, t) \/ LoseLink(s, t) \/ Hello(s, t)

Spec == Init /\ [][Next]_vars

\* Fairness: a failover in progress goes on or times out, the hello messages
\* are repeated until they arrive, and so is the SLAVEOF of a wrong replica.
Advance(s) ==
    /\ fo[s].state # "none"
    /\ Timer(s) \/ PromotedSlave(s)
    /\ fo'[s] # fo[s]
FairSpec ==
    /\ Spec
    /\ \A s \in Sentinel :
          /\ WF_vars(Advance(s))
          /\ \A t \in Sentinel : WF_vars(Hello(s, t))
          /\ \A i \in Instance : WF_vars(FixSlave(s, i) /\ of'[i] = conf[s].addr)

----------------------------------------------------------------------------
Epoch == 0..MaxEpoch
Vote == [leader : Sentinel \cup {None}, epoch : Epoch]
Master == [epoch : Epoch, addr : Instance]
Failover == [state : {"none", "wait", "select", "noone", "promotion", "reconf"},
             epoch : Epoch, promoted : Instance \cup {None}, forced : BOOLEAN]
Saved == [cur : Epoch, vote : Epoch, epoch : Epoch, addr : Instance]
Message ==
    {NoMsg} \cup [type : {"request"}, epoch : Epoch, addr : Instance]
            \cup [type : {"reply"}, leader : Sentinel \cup {None}, epoch : Epoch]

\* Every variable holds what the structures of sentinel.c can hold.
TypeOK ==
    /\ cur \in [Sentinel -> Epoch]
    /\ vote \in [Sentinel -> Vote]
    /\ conf \in [Sentinel -> Master]
    /\ fo \in [Sentinel -> Failover]
    /\ recent \in [Sentinel -> BOOLEAN]
    /\ heard \in [Sentinel -> [Sentinel -> Vote]]
    /\ reconf \in [Sentinel -> [Instance -> {"none", "sent", "inprog", "done"}]]
    /\ disk \in [Sentinel -> Saved]
    /\ ask \in [Sentinel -> [Sentinel -> Message]]
    /\ of \in [Instance -> Instance]
    /\ cast \subseteq [voter : Sentinel, epoch : Epoch, leader : Sentinel]
    /\ won \subseteq [who : Sentinel, epoch : Epoch, counted : Epoch]
    /\ left \in [Events -> Nat]

\* A Sentinel votes once per epoch, whatever requests arrive in whatever order
\* and however often it is restarted from its configuration file.
VoteOnce ==
    \A a, b \in cast : a.voter = b.voter /\ a.epoch = b.epoch => a.leader = b.leader

\* Two Sentinels never win the election of the same epoch, as long as each
\* counted the votes of the epoch it started its failover in.
OneLeader ==
    \A a, b \in won :
       a.epoch = b.epoch /\ a.counted = a.epoch /\ b.counted = b.epoch
          => a.who = b.who

\* Two Sentinels with the same configuration epoch announce the same master.
OneAddressPerConfig ==
    \A s, t \in Sentinel : conf[s].epoch = conf[t].epoch =>
       CurrentMasterAddress(conf[s], fo[s]) = CurrentMasterAddress(conf[t], fo[t])

Address(s) == CurrentMasterAddress(conf[s], fo[s])
Agreed == \A s, t \in Sentinel : conf[s].epoch = conf[t].epoch /\ Address(s) = Address(t)

\* The configuration of a finished failover reaches every Sentinel, also those
\* that were down or had started a failover of their own in the meantime.
EventuallyAgreed == <>[]Agreed

\* In the end every instance replicates from the master the Sentinels announce,
\* whoever crashed or gave up in the middle of a failover.
EventuallyFollowed == <>[](\A s \in Sentinel, i \in Instance : of[i] = Address(s))

=============================================================================
