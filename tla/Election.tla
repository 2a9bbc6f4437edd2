------------------------------ MODULE Election ------------------------------
(***************************************************************************)
(* Part 1's ConsensusModule (part1_election/raft.go) in a cluster, with    *)
(* the goroutines of its election timers, and Server.Call between the      *)
(* servers. One action per section of code that runs under cm.mu.          *)
(*                                                                         *)
(* An RPC is a goroutine of its caller and passes through stages:          *)
(*   "spawned"  the goroutine has yet to fetch the client;                 *)
(*   "request"  the peer has not run it;                                   *)
(*   "reply"    the peer has run it and the caller has not yet handled the *)
(*              answer;                                                    *)
(*   "orphan"   the caller's Call has failed, and the request may still    *)
(*              reach the peer.                                            *)
(* A goroutine reads nothing under mu before it calls. Replies are prompt: *)
(* Call returns sooner than the shortest election timeout, so none of a    *)
(* server's calls outlives the wait before its next election. Requests of  *)
(* a Call that has failed may be late.                                     *)
(*                                                                         *)
(* Who opens and closes clients is left to Harness; here they are open.    *)
(***************************************************************************)
EXTENDS Integers, FiniteSets, Bags

CONSTANTS
    Server,         \* server ids; the peers of a server are all the others
    ElectionBudget, \* bound: elections each server may start
    MaxOrphans,     \* bound: orphans kept in memory
    UnreliableRPC   \* TRUE: RAFT_UNRELIABLE_RPC is set

ASSUME ElectionAssumption ==
    /\ IsFiniteSet(Server) /\ Server \subseteq Nat
    /\ ElectionBudget \in [Server -> Nat]
    /\ MaxOrphans \in Nat
    /\ UnreliableRPC \in BOOLEAN

VARIABLES
    state, currentTerm,
    votedFor,
    starting,      \* starting[i]: timer goroutines that have yet to read the term
    timers,        \* timers[i]: the bag of the terms of i's running timers
    elections,     \* how many elections i has started
    votesReceived, \* who has been counted in i's latest election
    calls,         \* the RPCs under way
    clients        \* the pairs <<i, p>> for which i has an open client to p

serverVars == <<state, currentTerm, votedFor>>
timerVars  == <<starting, timers>>
vars == <<serverVars, timerVars, elections, votesReceived, calls, clients>>

Peers(i) == Server \ {i}
Nobody == -1

(* Which of them may have a client to which.                                *)
Links == {l \in Server \X Server : l[1] # l[2]}

(* A call: its kind, whose it is, and the term its goroutine has captured.  *)
(* ok is VoteGranted or Success. reply counts at stage "reply" only.        *)
Call == [kind : {"RequestVote", "AppendEntries"}, caller : Server, peer : Server,
         term : Nat, stage : {"spawned", "request", "reply", "orphan"},
         reply : [term : Nat, ok : BOOLEAN]]
ZeroReply == [term |-> 0, ok |-> FALSE]
NewCall(kind, i, p, term) ==
    [kind |-> kind, caller |-> i, peer |-> p, term |-> term, stage |-> "spawned",
     reply |-> ZeroReply]

Init ==
    /\ state = [i \in Server |-> "Follower"]
    /\ currentTerm = [i \in Server |-> 0]
    /\ votedFor = [i \in Server |-> Nobody]
    /\ starting = [i \in Server |-> 1]
    /\ timers = [i \in Server |-> EmptyBag]
    /\ elections = [i \in Server |-> 0]
    /\ votesReceived = [i \in Server |-> {}]
    /\ calls = {}
    /\ clients = Links

-----------------------------------------------------------------------------
(* runElectionTimer, one of the goroutines of i: it reads the term.         *)
TimerStart(i) ==
    /\ starting[i] > 0
    /\ starting' = [starting EXCEPT ![i] = @ - 1]
    /\ timers' = [timers EXCEPT ![i] = @ (+) SetToBag({currentTerm[i]})]
    /\ UNCHANGED <<serverVars, elections, votesReceived, calls, clients>>

(* A tick finds that the timer of this term is not needed any more.         *)
TimerBailsOut(i, term) ==
    /\ BagIn(term, timers[i])
    /\ state[i] \notin {"Candidate", "Follower"} \/ term # currentTerm[i]
    /\ timers' = [timers EXCEPT ![i] = @ (-) SetToBag({term})]
    /\ UNCHANGED <<serverVars, starting, elections, votesReceived, calls, clients>>

(* What becomes of these calls when Call gives them up: the goroutines end, *)
(* and of the requests some may yet reach their peer.                       *)
GivenUp(gone) ==
    LET rest == calls \ gone
        late == {[c EXCEPT !.stage = "orphan"] :
                     c \in {d \in gone : d.stage = "request"}}
    IN {rest \cup kept : kept \in {s \in SUBSET late :
            Cardinality({c \in rest \cup s : c.stage = "orphan"}) <= MaxOrphans}}

Own(i) == {c \in calls : c.caller = i /\ c.stage # "orphan"}

(* A goroutine for each target.                                             *)
NewCalls(kind, i, targets, term) == {NewCall(kind, i, p, term) : p \in targets}

(* A tick of a timer of the current term finds the timeout over:            *)
(* startElection, which starts the next timer. i's earlier calls are over.  *)
ElectionTimeout(i) ==
    /\ state[i] \in {"Follower", "Candidate"}
    /\ BagIn(currentTerm[i], timers[i])
    /\ elections[i] < ElectionBudget[i]
    /\ timers' = [timers EXCEPT ![i] = @ (-) SetToBag({currentTerm[i]})]
    /\ starting' = [starting EXCEPT ![i] = @ + 1]
    /\ elections' = [elections EXCEPT ![i] = @ + 1]
    /\ state' = [state EXCEPT ![i] = "Candidate"]
    /\ currentTerm' = [currentTerm EXCEPT ![i] = @ + 1]
    /\ votedFor' = [votedFor EXCEPT ![i] = i]
    /\ votesReceived' = [votesReceived EXCEPT ![i] = {i}]
    /\ \E rest \in GivenUp(Own(i)) :
          calls' = rest \cup
              NewCalls("RequestVote", i, Peers(i), currentTerm[i] + 1)
    /\ UNCHANGED clients

(* Mutant of TimersAfter: a follower has a timer already.                   *)
TimersUnlessFollower(i) ==
    [starting EXCEPT ![i] = IF state[i] = "Follower" THEN @ ELSE @ + 1]

(* becomeFollower starts a timer, whoever has one already.                  *)
TimersAfter(i) == [starting EXCEPT ![i] = @ + 1]

BecomeFollower(i, term) ==
    /\ state' = [state EXCEPT ![i] = "Follower"]
    /\ currentTerm' = [currentTerm EXCEPT ![i] = term]
    /\ votedFor' = [votedFor EXCEPT ![i] = Nobody]
    /\ starting' = TimersAfter(i)

-----------------------------------------------------------------------------
(* Server.Call: the goroutine fetches the client to its peer. Without one   *)
(* Call fails; a client that is closed later on makes the call fail too.    *)
GetClient(c) ==
    /\ c.stage = "spawned"
    /\ calls' = (calls \ {c}) \cup
          IF <<c.caller, c.peer>> \in clients
          THEN {[c EXCEPT !.stage = "request"]} ELSE {}
    /\ UNCHANGED <<serverVars, timerVars, elections, votesReceived, clients>>

Waiting(c, kind) == c.kind = kind /\ c.stage \in {"request", "orphan"}

(* The peer has run the request: a waiting caller gets the reply.           *)
Answer(c, reply) ==
    calls' = (calls \ {c}) \cup
        IF c.stage = "orphan" THEN {}
        ELSE {[c EXCEPT !.stage = "reply", !.reply = reply]}

(* RequestVote at the peer. There is no log to compare.                     *)
RequestVote(c) ==
    LET i       == c.peer
        newer   == c.term > currentTerm[i]
        voted   == IF newer THEN Nobody ELSE votedFor[i]
        granted == c.term >= currentTerm[i] /\ voted \in {Nobody, c.caller}
    IN /\ Waiting(c, "RequestVote")
       /\ state[i] # "Dead"
       /\ state' = [state EXCEPT ![i] = IF newer THEN "Follower" ELSE @]
       /\ currentTerm' = [currentTerm EXCEPT ![i] = IF newer THEN c.term ELSE @]
       /\ votedFor' = [votedFor EXCEPT ![i] = IF granted THEN c.caller ELSE voted]
       /\ starting' = IF newer THEN TimersAfter(i) ELSE starting
       /\ Answer(c, [term |-> currentTerm'[i], ok |-> granted])
       /\ UNCHANGED <<timers, elections, votesReceived, clients>>

(* AppendEntries, here a heartbeat, at the peer.                            *)
AppendEntries(c) ==
    LET i       == c.peer
        success == c.term >= currentTerm[i]
    IN /\ Waiting(c, "AppendEntries")
       /\ state[i] # "Dead"
       /\ IF \/ c.term > currentTerm[i]
             \/ c.term = currentTerm[i] /\ state[i] # "Follower"
          THEN BecomeFollower(i, c.term)
          ELSE UNCHANGED <<serverVars, starting>>
       /\ Answer(c, [term |-> currentTerm'[i], ok |-> success])
       /\ UNCHANGED <<timers, elections, votesReceived, clients>>

(* Either handler at a stopped peer: no error, and a reply of zero values.  *)
AnsweredByDead(c) ==
    /\ c.stage \in {"request", "orphan"}
    /\ state[c.peer] = "Dead"
    /\ Answer(c, ZeroReply)
    /\ UNCHANGED <<serverVars, timerVars, elections, votesReceived, clients>>

(* RPCProxy drops a request: the caller gets an error and ends.             *)
RPCProxyDrops(c) ==
    /\ UnreliableRPC
    /\ c.stage \in {"request", "orphan"}
    /\ calls' = calls \ {c}
    /\ UNCHANGED <<serverVars, timerVars, elections, votesReceived, clients>>

(* The caller handles the answer to a RequestVote: startLeader once a       *)
(* majority has been counted.                                               *)
HandleVoteReply(c) ==
    LET i == c.caller
        outOfDate == state[i] = "Candidate" /\ c.reply.term > c.term
        counts    == state[i] = "Candidate" /\ c.reply.term = c.term /\ c.reply.ok
        counted   == votesReceived[i] \cup {c.peer}
    IN /\ c.kind = "RequestVote" /\ c.stage = "reply"
       /\ calls' = calls \ {c}
       /\ \/ /\ outOfDate
             /\ BecomeFollower(i, c.reply.term)
             /\ UNCHANGED votesReceived
          \/ /\ counts
             /\ votesReceived' = [votesReceived EXCEPT ![i] = counted]
             /\ state' = [state EXCEPT ![i] =
                    IF 2 * Cardinality(counted) > Cardinality(Peers(i)) + 1
                    THEN "Leader" ELSE @]
             /\ UNCHANGED <<currentTerm, votedFor, starting>>
          \/ /\ ~outOfDate /\ ~counts
             /\ UNCHANGED <<serverVars, starting, votesReceived>>
       /\ UNCHANGED <<timers, elections, clients>>

(* A round of leaderSendHeartbeats. Bound: the next heartbeat to a peer is  *)
(* sent when the goroutine of the last one has ended.                       *)
LeaderSendHeartbeats(i) ==
    LET beating == {c.peer : c \in {d \in Own(i) : d.kind = "AppendEntries"}}
        new == NewCalls("AppendEntries", i, Peers(i) \ beating, currentTerm[i])
    IN /\ state[i] = "Leader"
       /\ new # {}
       /\ calls' = calls \cup new
       /\ UNCHANGED <<serverVars, timerVars, elections, votesReceived, clients>>

(* Mutant of Newer: the next term is not new enough.                        *)
NewerByTwo(c) == c.reply.term > c.term + 1

(* What the handler of a heartbeat reply looks at: not the state, and not   *)
(* currentTerm.                                                             *)
Newer(c) == c.reply.term > c.term

HandleAppendReply(c) ==
    /\ c.kind = "AppendEntries" /\ c.stage = "reply"
    /\ calls' = calls \ {c}
    /\ IF Newer(c) THEN BecomeFollower(c.caller, c.reply.term)
                   ELSE UNCHANGED <<serverVars, starting>>
    /\ UNCHANGED <<timers, elections, votesReceived, clients>>

Stop(i) ==
    /\ state' = [state EXCEPT ![i] = "Dead"]
    /\ UNCHANGED <<currentTerm, votedFor, timerVars, elections, votesReceived,
                   calls, clients>>

Next ==
    \/ \E i \in Server : TimerStart(i)
    \/ \E i \in Server : \E term \in BagToSet(timers[i]) : TimerBailsOut(i, term)
    \/ \E i \in Server : ElectionTimeout(i)
    \/ \E i \in Server : LeaderSendHeartbeats(i)
    \/ \E c \in calls : GetClient(c)
    \/ \E c \in calls : RequestVote(c)
    \/ \E c \in calls : AppendEntries(c)
    \/ \E c \in calls : AnsweredByDead(c)
    \/ \E c \in calls : RPCProxyDrops(c)
    \/ \E c \in calls : HandleVoteReply(c)
    \/ \E c \in calls : HandleAppendReply(c)

Spec == Init /\ [][Next]_vars

-----------------------------------------------------------------------------
TypeOK ==
    /\ state \in [Server -> {"Follower", "Candidate", "Leader", "Dead"}]
    /\ currentTerm \in [Server -> Nat]
    /\ votedFor \in [Server -> Server \cup {Nobody}]
    /\ starting \in [Server -> Nat]
    /\ timers = [i \in Server |-> timers[i]]
    /\ \A i \in Server : IsABag(timers[i]) /\ BagToSet(timers[i]) \subseteq Nat
    /\ elections \in [Server -> Nat]
    /\ votesReceived \in [Server -> SUBSET Server]
    /\ calls \subseteq Call
    /\ clients \subseteq Links

(* README, of Part 1: leadership is never established twice in a term,      *)
(* "preventing split-brain behavior and preserving safety".                 *)
ElectionSafety ==
    \A i, j \in Server :
        state[i] = "Leader" /\ state[j] = "Leader" /\ i # j
            => currentTerm[i] # currentTerm[j]

(* Whoever might have to start an election has a timer for it: one of its   *)
(* current term, or one that has yet to read the term. A server without     *)
(* would wait for a leader for ever.                                        *)
TimerAlive ==
    \A i \in Server : state[i] \in {"Follower", "Candidate"} =>
        starting[i] > 0 \/ BagIn(currentTerm[i], timers[i])
=============================================================================
