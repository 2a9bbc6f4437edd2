----------------------------- MODULE Membership -----------------------------
(***************************************************************************)
(* Part 3's ConsensusModule (part3_electionDynamicCluster/raft.go) and the *)
(* harness that adds servers to it (testharness.go): elections and         *)
(* heartbeats of a cluster whose servers learn of a new one at different   *)
(* moments. An election counts votes against the cluster its candidate     *)
(* knew when it began.                                                     *)
(*                                                                         *)
(* Servers are numbered in the order in which the harness adds them.       *)
(* An RPC passes through the stages of Replication, except that its        *)
(* arguments are fixed when its goroutine is started: "request", "reply",  *)
(* and "orphan" for a request whose caller has given up.                   *)
(*                                                                         *)
(* Call has no time limit. Whether a call may outlive the wait before its  *)
(* caller's next election is a parameter, PromptReplies, as in             *)
(* Replication.                                                            *)
(***************************************************************************)
EXTENDS Integers, FiniteSets

CONSTANTS
    Initial,       \* NewHarness's n
    MaxServers,    \* bound: servers after all calls of AddServer
    StandsIn,      \* bound: the terms in which each server may be a candidate
    MaxVoteCalls,  \* bound: RequestVote calls under way
    MaxHeartbeats, \* bound: AppendEntries calls under way
    MaxLateVotes,  \* bound: RequestVote orphans
    MaxLateBeats,  \* bound: AppendEntries orphans
    Stoppable,     \* bound: the servers whose Stop may be called
    PromptReplies  \* TRUE: Call returns sooner than the shortest election
                   \* timeout

Server == 0..(MaxServers - 1)

ASSUME MembershipAssumption ==
    /\ Initial \in Nat \ {0} /\ MaxServers \in Nat /\ Initial <= MaxServers
    /\ StandsIn \in [Server -> SUBSET Nat]
    /\ MaxVoteCalls \in Nat /\ MaxHeartbeats \in Nat
    /\ MaxLateVotes \in Nat /\ MaxLateBeats \in Nat
    /\ Stoppable \subseteq Server
    /\ PromptReplies \in BOOLEAN

VARIABLES
    n,            \* the harness's: servers 0..n-1 exist
    nextTold,     \* AddServer's loop: the next server to get SetPeers
    peers,
    state, currentTerm, votedFor,
    stopped,      \* the servers whose Stop has returned
    clusterSize,  \* of a server's last election
    counted,      \* <<term, peer>>: who has been counted in which election of
                  \* the server (each has a variable of its goroutines)
    voteCalls, heartbeats

harnessVars == <<n, nextTold, peers>>
serverVars  == <<state, currentTerm, votedFor>>
tallyVars   == <<clusterSize, counted>>
vars == <<harnessVars, serverVars, stopped, tallyVars, voteCalls, heartbeats>>

Stage == {"request", "reply", "orphan"}

(* granted is VoteGranted, and size the cluster's size that the goroutine has *)
(* captured; neither is used for a heartbeat (Success is not read).          *)
Call == [caller : Server, peer : Server, term : Nat, size : Nat, stage : Stage,
         replyTerm : Nat, granted : BOOLEAN]

(* The types of the variables. Servers that do not exist yet are followers;  *)
(* no server is its own peer.                                                *)
TypeOK ==
    /\ n \in Initial..MaxServers /\ nextTold \in 0..n
    /\ peers \in [Server -> SUBSET Server]
    /\ \A i \in Server : i \notin peers[i]
    /\ state \in [Server -> {"Follower", "Candidate", "Leader", "Dead"}]
    /\ currentTerm \in [Server -> Nat]
    /\ votedFor \in [Server -> Server \cup {-1}]
    /\ stopped \subseteq Server
    /\ clusterSize \in [Server -> Nat]
    /\ counted \in [Server -> SUBSET (Nat \X Server)]
    /\ voteCalls \subseteq Call
    /\ heartbeats \subseteq Call

Init ==
    /\ n = Initial /\ nextTold = Initial
    /\ peers = [i \in Server |-> IF i < Initial THEN (0..(Initial - 1)) \ {i}
                                               ELSE {}]
    /\ state = [i \in Server |-> "Follower"]
    /\ currentTerm = [i \in Server |-> 0]
    /\ votedFor = [i \in Server |-> -1]
    /\ stopped = {}
    /\ clusterSize = [i \in Server |-> 0]
    /\ counted = [i \in Server |-> {}]
    /\ voteCalls = {} /\ heartbeats = {}

-----------------------------------------------------------------------------
(* Mutant of Others: a server is a peer of itself.                         *)
Everyone(i) == 0..(n - 1)

(* SetPeers' argument without the server's own id.                         *)
Others(i) == (0..(n - 1)) \ {i}

(* AddServer: the new server knows all others and is connected; it runs at *)
(* once. The others are told by SetPeers, one after the other. A test      *)
(* calls the harness from one goroutine, and Shutdown comes last: nobody   *)
(* has been stopped yet.                                                   *)
AddServer ==
    /\ nextTold = n /\ n < MaxServers
    /\ \A i \in Server : state[i] # "Dead"
    /\ n' = n + 1
    /\ nextTold' = 0
    /\ peers' = [peers EXCEPT ![n] = Others(n)]
    /\ UNCHANGED <<serverVars, stopped, tallyVars, voteCalls, heartbeats>>

SetPeers ==
    /\ nextTold < n
    /\ peers' = [peers EXCEPT ![nextTold] = Others(nextTold)]
    /\ nextTold' = nextTold + 1
    /\ UNCHANGED <<n, serverVars, stopped, tallyVars, voteCalls, heartbeats>>

-----------------------------------------------------------------------------
Running(calls) == {c \in calls : c.stage # "orphan"}
Orphans(calls) == calls \ Running(calls)

(* Calls of i, to the given peers.                                         *)
NewCalls(i, targets, term, size) ==
    {[caller |-> i, peer |-> p, term |-> term, size |-> size,
      stage |-> "request", replyTerm |-> 0, granted |-> FALSE] : p \in targets}

(* What may become of the calls that end without an answer: a request may  *)
(* still reach its peer.                                                   *)
GivenUp(calls, ending, limit) ==
    LET late == {[c EXCEPT !.stage = "orphan"] :
                     c \in {d \in ending : d.stage = "request"}}
    IN {(calls \ ending) \cup kept : kept \in {s \in SUBSET late :
            Cardinality(Orphans(calls) \cup s) <= limit}}

CallsOf(calls, i) == {c \in Running(calls) : c.caller = i}

(* The calls of i that its next election does not find under way any more.  *)
Ending(calls, i) == IF PromptReplies THEN CallsOf(calls, i) ELSE {}

VotersIn(i, term) == {v \in Server : <<term, v>> \in counted[i]}

(* Mutant of ClusterSize: the candidate does not count itself.             *)
PeersOnly(i) == Cardinality(peers[i])

(* The size of the cluster as i knows it.                                  *)
ClusterSize(i) == Cardinality(peers[i]) + 1

(* runElectionTimer's expiry and startElectionLocked. targets are the      *)
(* peers whose goroutine gets somewhere: Call fails at once for a peer     *)
(* that is not connected, and the bound leaves peers out too. With         *)
(* PromptReplies the variables of earlier elections are garbage by now.    *)
ElectionTimeout(i) ==
    /\ i < n
    /\ state[i] \in {"Follower", "Candidate"}
    /\ currentTerm[i] + 1 \in StandsIn[i]
    /\ state' = [state EXCEPT ![i] = "Candidate"]
    /\ currentTerm' = [currentTerm EXCEPT ![i] = @ + 1]
    /\ votedFor' = [votedFor EXCEPT ![i] = i]
    /\ clusterSize' = [clusterSize EXCEPT ![i] = ClusterSize(i)]
    /\ counted' = [counted EXCEPT ![i] =
           (IF PromptReplies THEN {} ELSE @) \cup {<<currentTerm[i] + 1, i>>}]
    /\ \E rest \in GivenUp(voteCalls, Ending(voteCalls, i), MaxLateVotes),
          targets \in SUBSET peers[i] :
          /\ Cardinality(Running(rest)) + Cardinality(targets) <= MaxVoteCalls
          /\ voteCalls' = rest \cup
                 NewCalls(i, targets, currentTerm[i] + 1, ClusterSize(i))
    /\ heartbeats' \in GivenUp(heartbeats, Ending(heartbeats, i), MaxLateBeats)
    /\ UNCHANGED <<harnessVars, stopped>>

(* becomeFollowerLocked; all its callers have seen that i is not Dead.     *)
BecomeFollower(i, term) ==
    /\ state' = [state EXCEPT ![i] = "Follower"]
    /\ currentTerm' = [currentTerm EXCEPT ![i] = term]
    /\ votedFor' = [votedFor EXCEPT ![i] = -1]

(* Mutant of Newer: any other term is followed.                            *)
Other(term, i) == term # currentTerm[i]

(* The test of both handlers for a term the server has not reached yet.    *)
Newer(term, i) == term > currentTerm[i]

(* The peer has run the request: a waiting caller gets the reply.          *)
Answered(calls, c, term, granted) ==
    (calls \ {c}) \cup
        IF c.stage = "orphan" THEN {}
        ELSE {[c EXCEPT !.stage = "reply", !.replyTerm = term,
                        !.granted = granted]}

(* Mutant of Grants: forgets that a vote was given already.                *)
GrantsAgain(c, term, voted) == c.term = term

(* Whether a peer in this term and pledged to voted grants its vote: the   *)
(* logs are not compared, and neither is the candidate's membership.       *)
Grants(c, term, voted) == c.term = term /\ voted \in {-1, c.caller}

RequestVote(c) ==
    LET i     == c.peer
        newer == Newer(c.term, i)
        term  == IF newer THEN c.term ELSE currentTerm[i]
        voted == IF newer THEN -1 ELSE votedFor[i]
        granted == Grants(c, term, voted)
    IN /\ c.stage \in {"request", "orphan"}
       /\ state[i] # "Dead"
       /\ state' = [state EXCEPT ![i] = IF newer THEN "Follower" ELSE @]
       /\ currentTerm' = [currentTerm EXCEPT ![i] = term]
       /\ votedFor' = [votedFor EXCEPT ![i] = IF granted THEN c.caller ELSE voted]
       /\ voteCalls' = Answered(voteCalls, c, term, granted)
       /\ UNCHANGED <<harnessVars, stopped, tallyVars, heartbeats>>

(* A stopped peer answers with zero values.                                *)
RequestVoteAtDead(c) ==
    /\ c.stage \in {"request", "orphan"}
    /\ state[c.peer] = "Dead"
    /\ voteCalls' = Answered(voteCalls, c, 0, FALSE)
    /\ UNCHANGED <<harnessVars, serverVars, stopped, tallyVars, heartbeats>>

(* The caller's goroutine handles the answer, whichever of its elections   *)
(* the caller is a candidate of; startLeaderLocked only sets the state.    *)
HandleVoteReply(c) ==
    LET i == c.caller
        voters == VotersIn(i, c.term) \cup {c.peer}
    IN /\ c.stage = "reply"
       /\ voteCalls' = voteCalls \ {c}
       /\ \/ /\ \/ state[i] # "Candidate"
                \/ c.replyTerm < c.term
                \/ c.replyTerm = c.term /\ ~c.granted
             /\ UNCHANGED <<serverVars, counted>>
          \/ /\ state[i] = "Candidate"
             /\ c.replyTerm > c.term
             /\ BecomeFollower(i, c.replyTerm)
             /\ UNCHANGED counted
          \/ /\ state[i] = "Candidate"
             /\ c.replyTerm = c.term /\ c.granted
             /\ counted' = [counted EXCEPT ![i] = @ \cup {<<c.term, c.peer>>}]
             /\ state' = [state EXCEPT ![i] =
                    IF 2 * Cardinality(voters) > c.size
                    THEN "Leader" ELSE @]
             /\ UNCHANGED <<currentTerm, votedFor>>
       /\ UNCHANGED <<harnessVars, stopped, clusterSize, heartbeats>>

-----------------------------------------------------------------------------
(* Mutant of Beats: one that was stopped while it led goes on.             *)
BeatsOn(i) == \/ state[i] = "Leader"
              \/ /\ state[i] = "Dead"
                 /\ 2 * Cardinality(VotersIn(i, currentTerm[i])) > clusterSize[i]

Beats(i) == state[i] = "Leader"

(* A round of leaderSendHeartbeats, to the peers of now. A second call to  *)
(* a peer of the same term while one is under way would do nothing new.    *)
LeaderSendHeartbeats(i) ==
    /\ Beats(i)
    /\ \E targets \in SUBSET peers[i] :
          LET new == NewCalls(i, targets, currentTerm[i], 0)
          IN /\ targets # {} /\ new \cap heartbeats = {}
             /\ Cardinality(Running(heartbeats) \cup new) <= MaxHeartbeats
             /\ heartbeats' = heartbeats \cup new
    /\ UNCHANGED <<harnessVars, serverVars, stopped, tallyVars, voteCalls>>

AppendEntries(c) ==
    LET i == c.peer
    IN /\ c.stage \in {"request", "orphan"}
       /\ state[i] # "Dead"
       /\ IF \/ Newer(c.term, i)
             \/ c.term = currentTerm[i] /\ state[i] # "Follower"
          THEN BecomeFollower(i, c.term)
          ELSE UNCHANGED serverVars
       /\ heartbeats' = Answered(heartbeats, c, currentTerm'[i], FALSE)
       /\ UNCHANGED <<harnessVars, stopped, tallyVars, voteCalls>>

AppendEntriesAtDead(c) ==
    /\ c.stage \in {"request", "orphan"}
    /\ state[c.peer] = "Dead"
    /\ heartbeats' = Answered(heartbeats, c, 0, FALSE)
    /\ UNCHANGED <<harnessVars, serverVars, stopped, tallyVars, voteCalls>>

(* Only a leader listens, but it compares with the term of the heartbeat.  *)
HandleAppendReply(c) ==
    /\ c.stage = "reply"
    /\ heartbeats' = heartbeats \ {c}
    /\ IF state[c.caller] = "Leader" /\ c.replyTerm > c.term
       THEN BecomeFollower(c.caller, c.replyTerm)
       ELSE UNCHANGED serverVars
    /\ UNCHANGED <<harnessVars, stopped, tallyVars, voteCalls>>

(* Call returns an error, because the client to the peer was closed or     *)
(* RPCProxy dropped the request; or the goroutine sees, before it calls,   *)
(* that quit is closed. (While its caller runs, a vote call that fails is  *)
(* one that is never answered.)                                            *)
RequestVoteFails(c) ==
    /\ c \in Running(voteCalls) /\ state[c.caller] = "Dead"
    /\ voteCalls' \in GivenUp(voteCalls, {c}, MaxLateVotes)
    /\ UNCHANGED <<harnessVars, serverVars, stopped, tallyVars, heartbeats>>
AppendEntriesFails(c) ==
    /\ c \in Running(heartbeats)
    /\ heartbeats' \in GivenUp(heartbeats, {c}, MaxLateBeats)
    /\ UNCHANGED <<harnessVars, serverVars, stopped, tallyVars, voteCalls>>

(* Stop sets the state, and closes quit, under mu; then it waits, without  *)
(* mu, for the goroutines of the server. Those inside Call end with it.    *)
(* (The timers and the heartbeat loop end as soon as they look at quit.)   *)
(* The harness is not in the middle of AddServer. It stops its servers one *)
(* after the other; here Stops may overlap.                                *)
Stop(i) ==
    /\ i \in Stoppable /\ i < n /\ nextTold = n
    /\ state[i] # "Dead"
    /\ state' = [state EXCEPT ![i] = "Dead"]
    /\ UNCHANGED <<harnessVars, currentTerm, votedFor, stopped, tallyVars,
                   voteCalls, heartbeats>>

InsideCall(i) == CallsOf(voteCalls, i) \cup CallsOf(heartbeats, i)

StopReturns(i) ==
    /\ state[i] = "Dead" /\ i \notin stopped
    /\ InsideCall(i) = {}
    /\ stopped' = stopped \cup {i}
    /\ UNCHANGED <<harnessVars, serverVars, tallyVars, voteCalls, heartbeats>>

Next ==
    \/ AddServer \/ SetPeers
    \/ \E i \in Server : ElectionTimeout(i)
    \/ \E i \in Server : LeaderSendHeartbeats(i)
    \/ \E i \in Server : Stop(i)
    \/ \E i \in Server : StopReturns(i)
    \/ \E c \in voteCalls : RequestVote(c)
    \/ \E c \in voteCalls : RequestVoteAtDead(c)
    \/ \E c \in voteCalls : HandleVoteReply(c)
    \/ \E c \in voteCalls : RequestVoteFails(c)
    \/ \E c \in heartbeats : AppendEntries(c)
    \/ \E c \in heartbeats : AppendEntriesAtDead(c)
    \/ \E c \in heartbeats : HandleAppendReply(c)
    \/ \E c \in heartbeats : AppendEntriesFails(c)

Spec == Init /\ [][Next]_vars

(* What ends a Stop of i: the peers run the requests they have got from i,  *)
(* its goroutines handle the answers, and wg.Wait returns.                  *)
Stopping(i) ==
    \/ \E c \in CallsOf(voteCalls, i) :
          RequestVote(c) \/ RequestVoteAtDead(c) \/ HandleVoteReply(c)
    \/ \E c \in CallsOf(heartbeats, i) :
          AppendEntries(c) \/ AppendEntriesAtDead(c) \/ HandleAppendReply(c)
    \/ StopReturns(i)

StopFairness == \A i \in Stoppable : WF_vars(Stopping(i))

FairSpec == Spec /\ StopFairness

-----------------------------------------------------------------------------
(* README: "The cluster continues to elect a single leader after new        *)
(* servers are added": no term has two, also while the servers do not agree *)
(* on who is in the cluster.                                                *)
ElectionSafety ==
    \A i, j \in Server :
        state[i] = "Leader" /\ state[j] = "Leader" /\ i # j
            => currentTerm[i] # currentTerm[j]

(* What ElectionSafety rests on: whom a candidate or leader has counted, or *)
(* may still come to count, has voted for it in this term or left the term. *)
Active(i) == state[i] \in {"Candidate", "Leader"}

Voters(i) == VotersIn(i, currentTerm[i])

Supporters(i) ==
    Voters(i) \cup
        {c.peer : c \in {d \in CallsOf(voteCalls, i) :
            d.stage = "reply" /\ d.granted /\ d.term = currentTerm[i]}}

Pledged(v, i) ==
    \/ currentTerm[v] > currentTerm[i]
    \/ currentTerm[v] = currentTerm[i] /\ votedFor[v] = i

SupportersPledged(i) ==
    Active(i) => votedFor[i] = i /\ \A v \in Supporters(i) : Pledged(v, i)

(* A server that has left the term has forgotten whom it supported.         *)
NoCommonSupporter(i, j) ==
    i # j /\ Active(i) /\ Active(j) /\ currentTerm[i] = currentTerm[j]
        => Supporters(i) \cap Supporters(j) = {}

(* The votes are those of a cluster that some servers may not know yet, or  *)
(* that has grown since.                                                    *)
CountedInOwnCluster(i) ==
    Active(i) =>
        /\ Supporters(i) \subseteq 0..(clusterSize[i] - 1)
        /\ clusterSize[i] \in Initial..n
        /\ state[i] = "Leader" => 2 * Cardinality(Voters(i)) > clusterSize[i]

(* This is where PromptReplies matters: no call outlives the candidacy or    *)
(* the leadership it belongs to. No vote is asked for outside its cluster.   *)
NoStaleCalls(i) ==
    Active(i) =>
        /\ \A c \in CallsOf(voteCalls, i) :
              /\ c.term = currentTerm[i]
              /\ c.size = clusterSize[i] /\ c.peer < c.size
        /\ \A c \in CallsOf(heartbeats, i) : c.term = currentTerm[i]

(* A server knows the cluster as it is or was, itself included. One that    *)
(* does not exist yet knows and does nothing.                               *)
KnowsACluster(i) ==
    IF i < n THEN \E size \in Initial..n :
                      i < size /\ peers[i] = (0..(size - 1)) \ {i}
             ELSE peers[i] = {} /\ ~Active(i)

ElectionInv ==
    /\ \A i \in Server : /\ SupportersPledged(i) /\ CountedInOwnCluster(i)
                         /\ NoStaleCalls(i) /\ KnowsACluster(i)
    /\ \A i, j \in Server : NoCommonSupporter(i, j)

(* The term of a server never decreases, though replies are compared with   *)
(* the term of their request.                                               *)
TermMonotone == [][\A i \in Server : currentTerm'[i] >= currentTerm[i]]_vars

(* "Stop cleanly shuts down the CM and waits for its goroutines to exit":   *)
(* it does not wait for ever, though nobody closes the clients that the     *)
(* goroutines wait on, and the peers may be stopped too.                    *)
StopEnds == \A i \in Stoppable : state[i] = "Dead" ~> i \in stopped
=============================================================================
