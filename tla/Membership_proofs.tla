-------------------------- MODULE Membership_proofs --------------------------
(* Machine-checked facts about Membership, for every initial size, every      *)
(* number of servers that join and every bound.                               *)
EXTENDS Membership, TLAPS, FiniteSetTheorems

(* The records that the actions put into the sets of calls are calls, and an  *)
(* answered call keeps its caller, its peer and its term.                     *)
LEMMA AnsweredCall ==
    ASSUME NEW calls \in SUBSET Call, NEW c \in calls, NEW t \in Nat,
           NEW g \in BOOLEAN
    PROVE  /\ Answered(calls, c, t, g) \subseteq Call
           /\ \A d \in Answered(calls, c, t, g) :
                 \/ d \in calls
                 \/ /\ c.stage # "orphan" /\ d.stage = "reply"
                    /\ d.caller = c.caller /\ d.peer = c.peer /\ d.term = c.term
                    /\ d.size = c.size /\ d.granted = g
<1> DEFINE d == [c EXCEPT !.stage = "reply", !.replyTerm = t, !.granted = g]
<1>1. /\ d \in Call /\ d.stage = "reply" /\ d.caller = c.caller
      /\ d.peer = c.peer /\ d.term = c.term /\ d.size = c.size /\ d.granted = g
  BY DEF Call, Stage
<1>2. Answered(calls, c, t, g) \subseteq calls \cup {d}
  BY DEF Answered
<1>3. c.stage = "orphan" => Answered(calls, c, t, g) \subseteq calls
  BY DEF Answered
<1> HIDE DEF d
<1> QED BY <1>1, <1>2, <1>3

(* What is left of calls that are given up: the others, and orphans.          *)
LEMMA GivenUpCalls ==
    ASSUME NEW calls \in SUBSET Call, NEW ending \in SUBSET calls, NEW limit,
           NEW r \in GivenUp(calls, ending, limit)
    PROVE  /\ r \subseteq Call
           /\ \A c \in r : c.stage # "orphan" => c \in calls /\ c \notin ending
<1> DEFINE late == {[c EXCEPT !.stage = "orphan"] :
                        c \in {d \in ending : d.stage = "request"}}
<1>1. PICK kept \in SUBSET late : r = (calls \ ending) \cup kept
  BY DEF GivenUp
<1>2. \A c \in late : c \in Call /\ c.stage = "orphan"
  BY DEF Call, Stage
<1> HIDE DEF late
<1> QED BY <1>1, <1>2

(* New calls are calls of their caller, to the targets, in the given term and *)
(* for the given size.                                                        *)
LEMMA NewCallsOf ==
    ASSUME NEW i \in Server, NEW targets \in SUBSET Server, NEW t \in Nat,
           NEW size \in Nat
    PROVE  /\ NewCalls(i, targets, t, size) \subseteq Call
           /\ \A c \in NewCalls(i, targets, t, size) :
                 /\ c.caller = i /\ c.peer \in targets /\ c.term = t
                 /\ c.size = size /\ c.stage = "request"
<1> DEFINE new(p) == [caller |-> i, peer |-> p, term |-> t, size |-> size,
                      stage |-> "request", replyTerm |-> 0, granted |-> FALSE]
<1>1. \A p \in Server : new(p) \in Call
  BY DEF Call, Stage
<1>2. \A p : /\ new(p).caller = i /\ new(p).peer = p /\ new(p).term = t
             /\ new(p).size = size /\ new(p).stage = "request"
  OBVIOUS
<1>3. NewCalls(i, targets, t, size) = {new(p) : p \in targets}
  BY DEF NewCalls
<1> HIDE DEF new
<1> QED BY <1>1, <1>2, <1>3

(* The set of running calls of a server.                                      *)
LEMMA CallsOfDef ==
    \A calls, i, c : c \in CallsOf(calls, i) <=>
        c \in calls /\ c.stage # "orphan" /\ c.caller = i
BY DEF CallsOf, Running

(* The calls that an election finds over are running ones of its candidate.   *)
LEMMA EndingCalls == \A calls, i : Ending(calls, i) \subseteq calls
BY DEF Ending, CallsOf, Running

-----------------------------------------------------------------------------
(* Every action keeps the types and ranges of TypeOK.                         *)
LEMMA TypeStep == TypeOK /\ [Next]_vars => TypeOK'
<1> SUFFICES ASSUME TypeOK, [Next]_vars PROVE TypeOK'
  OBVIOUS
<1> USE DEF harnessVars, serverVars, tallyVars
<1>0. /\ Initial \in Nat \ {0} /\ MaxServers \in Nat /\ Initial <= MaxServers
      /\ n \in Initial..MaxServers /\ nextTold \in 0..n
      /\ \A i : i \in Server <=> i \in 0..(MaxServers - 1)
  BY MembershipAssumption DEF TypeOK, Server
<1>1. CASE AddServer
  <2>1. n \in Server /\ n + 1 \in Initial..MaxServers
    BY <1>0, <1>1 DEF AddServer
  <2>2. Others(n) \in SUBSET Server /\ n \notin Others(n)
    BY <1>0 DEF Others
  <2>3. peers' = [peers EXCEPT ![n] = Others(n)] /\ n' = n + 1 /\ nextTold' = 0
    BY <1>1 DEF AddServer
  <2>4. n' \in Initial..MaxServers /\ nextTold' \in 0..n'
    BY <1>0, <2>1, <2>3
  <2>5. peers' \in [Server -> SUBSET Server] /\ \A i \in Server : i \notin peers'[i]
    BY <2>1, <2>2, <2>3 DEF TypeOK
  <2> QED BY <1>1, <2>4, <2>5 DEF AddServer, TypeOK
<1>2. CASE SetPeers
  <2>1. nextTold \in Server /\ nextTold + 1 \in 0..n
    BY <1>0, <1>2 DEF SetPeers
  <2>2. Others(nextTold) \in SUBSET Server /\ nextTold \notin Others(nextTold)
    BY <1>0 DEF Others
  <2>3. /\ peers' = [peers EXCEPT ![nextTold] = Others(nextTold)]
        /\ nextTold' = nextTold + 1 /\ n' = n
    BY <1>2 DEF SetPeers
  <2>4. peers' \in [Server -> SUBSET Server] /\ \A i \in Server : i \notin peers'[i]
    BY <2>1, <2>2, <2>3 DEF TypeOK
  <2> QED BY <1>2, <2>1, <2>3, <2>4 DEF SetPeers, TypeOK
<1>3. ASSUME NEW i \in Server, ElectionTimeout(i) PROVE TypeOK'
  <2>1. PICK rest \in GivenUp(voteCalls, Ending(voteCalls, i), MaxLateVotes),
             targets \in SUBSET peers[i] :
            voteCalls' = rest \cup
                NewCalls(i, targets, currentTerm[i] + 1, ClusterSize(i))
    BY <1>3 DEF ElectionTimeout
  <2>2. Ending(voteCalls, i) \subseteq voteCalls
        /\ Ending(heartbeats, i) \subseteq heartbeats
    BY EndingCalls
  <2>3. rest \subseteq Call
    BY <2>2, GivenUpCalls DEF TypeOK
  <2>6. ClusterSize(i) \in Nat
    <3>1. IsFiniteSet(Server)
      BY <1>0, FS_Interval DEF Server
    <3>2. peers[i] \in SUBSET Server
      BY DEF TypeOK
    <3>3. IsFiniteSet(peers[i])
      BY <3>1, <3>2, FS_Subset
    <3>4. Cardinality(peers[i]) \in Nat
      BY <3>3, FS_CardinalityType
    <3> QED BY <3>4 DEF ClusterSize
  <2>4. NewCalls(i, targets, currentTerm[i] + 1, ClusterSize(i)) \subseteq Call
    <3>1. targets \in SUBSET Server /\ currentTerm[i] + 1 \in Nat
      BY DEF TypeOK
    <3> QED BY <2>6, <3>1, NewCallsOf
  <2>5. heartbeats' \subseteq Call
    <3>1. heartbeats' \in GivenUp(heartbeats, Ending(heartbeats, i), MaxLateBeats)
      BY <1>3 DEF ElectionTimeout
    <3> QED BY <2>2, <3>1, GivenUpCalls DEF TypeOK
  <2>7. /\ state' = [state EXCEPT ![i] = "Candidate"]
        /\ currentTerm' = [currentTerm EXCEPT ![i] = currentTerm[i] + 1]
        /\ votedFor' = [votedFor EXCEPT ![i] = i]
        /\ clusterSize' = [clusterSize EXCEPT ![i] = ClusterSize(i)]
        /\ counted' = [counted EXCEPT ![i] =
               (IF PromptReplies THEN {} ELSE counted[i]) \cup {<<currentTerm[i] + 1, i>>}]
        /\ UNCHANGED <<n, nextTold, peers, stopped>>
    BY <1>3 DEF ElectionTimeout
  <2>8. /\ state' \in [Server -> {"Follower", "Candidate", "Leader", "Dead"}]
        /\ currentTerm' \in [Server -> Nat]
        /\ votedFor' \in [Server -> Server \cup {-1}]
        /\ clusterSize' \in [Server -> Nat]
        /\ counted' \in [Server -> SUBSET (Nat \X Server)]
    BY <2>6, <2>7 DEF TypeOK
  <2> QED BY <2>1, <2>3, <2>4, <2>5, <2>7, <2>8 DEF TypeOK
<1>4. ASSUME NEW i \in Server, LeaderSendHeartbeats(i) PROVE TypeOK'
  <2>1. PICK targets \in SUBSET peers[i] :
            heartbeats' = heartbeats \cup NewCalls(i, targets, currentTerm[i], 0)
    BY <1>4 DEF LeaderSendHeartbeats
  <2>2. targets \in SUBSET Server /\ currentTerm[i] \in Nat
    BY DEF TypeOK
  <2>3. heartbeats' \subseteq Call
    BY <2>1, <2>2, NewCallsOf DEF TypeOK
  <2> QED BY <1>4, <2>3 DEF LeaderSendHeartbeats, TypeOK
<1>5. ASSUME NEW i \in Server, Stop(i) PROVE TypeOK'
  BY <1>5 DEF Stop, TypeOK
<1>6. ASSUME NEW i \in Server, StopReturns(i) PROVE TypeOK'
  BY <1>6 DEF StopReturns, TypeOK
<1>7. ASSUME NEW c \in voteCalls, RequestVote(c) PROVE TypeOK'
  <2> DEFINE term == IF Newer(c.term, c.peer) THEN c.term ELSE currentTerm[c.peer]
             voted == IF Newer(c.term, c.peer) THEN -1 ELSE votedFor[c.peer]
  <2>1. c \in Call /\ c.peer \in Server /\ c.caller \in Server /\ c.term \in Nat
    BY DEF TypeOK, Call
  <2>2. term \in Nat /\ voted \in Server \cup {-1} /\ Grants(c, term, voted) \in BOOLEAN
    BY <2>1 DEF TypeOK, Grants
  <2>3. voteCalls' = Answered(voteCalls, c, term, Grants(c, term, voted))
    BY <1>7 DEF RequestVote
  <2>4. voteCalls' \subseteq Call
    BY <2>2, <2>3, AnsweredCall DEF TypeOK
  <2>5. /\ state' \in [Server -> {"Follower", "Candidate", "Leader", "Dead"}]
        /\ currentTerm' \in [Server -> Nat]
        /\ votedFor' \in [Server -> Server \cup {-1}]
    BY <1>7, <2>1, <2>2 DEF RequestVote, TypeOK
  <2> QED BY <1>7, <2>4, <2>5 DEF RequestVote, TypeOK
<1>8. ASSUME NEW c \in voteCalls, RequestVoteAtDead(c) PROVE TypeOK'
  <2>1. voteCalls' \subseteq Call
    BY <1>8, AnsweredCall DEF RequestVoteAtDead, TypeOK
  <2> QED BY <1>8, <2>1 DEF RequestVoteAtDead, TypeOK
<1>9. ASSUME NEW c \in voteCalls, HandleVoteReply(c) PROVE TypeOK'
  <2>1. c \in Call /\ c.peer \in Server /\ c.caller \in Server /\ c.replyTerm \in Nat
    BY DEF TypeOK, Call
  <2>2. /\ state' \in [Server -> {"Follower", "Candidate", "Leader", "Dead"}]
        /\ currentTerm' \in [Server -> Nat]
        /\ votedFor' \in [Server -> Server \cup {-1}]
    BY <1>9, <2>1 DEF HandleVoteReply, BecomeFollower, TypeOK
  <2>3. counted' \in [Server -> SUBSET (Nat \X Server)]
    <3>1. c.term \in Nat
      BY DEF TypeOK, Call
    <3> QED BY <1>9, <2>1, <3>1 DEF HandleVoteReply, TypeOK
  <2>4. voteCalls' \subseteq Call
    BY <1>9 DEF HandleVoteReply, TypeOK
  <2> QED BY <1>9, <2>2, <2>3, <2>4 DEF HandleVoteReply, TypeOK
<1>10. ASSUME NEW c \in voteCalls, RequestVoteFails(c) PROVE TypeOK'
  <2>1. voteCalls' \subseteq Call
    BY <1>10, GivenUpCalls DEF RequestVoteFails, TypeOK
  <2> QED BY <1>10, <2>1 DEF RequestVoteFails, TypeOK
<1>11. ASSUME NEW c \in heartbeats, AppendEntries(c) PROVE TypeOK'
  <2>1. c \in Call /\ c.peer \in Server /\ c.term \in Nat
    BY DEF TypeOK, Call
  <2>2. /\ state' \in [Server -> {"Follower", "Candidate", "Leader", "Dead"}]
        /\ currentTerm' \in [Server -> Nat]
        /\ votedFor' \in [Server -> Server \cup {-1}]
    BY <1>11, <2>1 DEF AppendEntries, BecomeFollower, TypeOK
  <2>3. currentTerm'[c.peer] \in Nat
    BY <2>1, <2>2
  <2>4. heartbeats' \subseteq Call
    BY <1>11, <2>3, AnsweredCall DEF AppendEntries, TypeOK
  <2> QED BY <1>11, <2>2, <2>4 DEF AppendEntries, TypeOK
<1>12. ASSUME NEW c \in heartbeats, AppendEntriesAtDead(c) PROVE TypeOK'
  <2>1. heartbeats' \subseteq Call
    BY <1>12, AnsweredCall DEF AppendEntriesAtDead, TypeOK
  <2> QED BY <1>12, <2>1 DEF AppendEntriesAtDead, TypeOK
<1>13. ASSUME NEW c \in heartbeats, HandleAppendReply(c) PROVE TypeOK'
  <2>1. c \in Call /\ c.caller \in Server /\ c.replyTerm \in Nat
    BY DEF TypeOK, Call
  <2>2. /\ state' \in [Server -> {"Follower", "Candidate", "Leader", "Dead"}]
        /\ currentTerm' \in [Server -> Nat]
        /\ votedFor' \in [Server -> Server \cup {-1}]
    BY <1>13, <2>1 DEF HandleAppendReply, BecomeFollower, TypeOK
  <2>3. heartbeats' \subseteq Call
    BY <1>13 DEF HandleAppendReply, TypeOK
  <2> QED BY <1>13, <2>2, <2>3 DEF HandleAppendReply, TypeOK
<1>14. ASSUME NEW c \in heartbeats, AppendEntriesFails(c) PROVE TypeOK'
  <2>1. heartbeats' \subseteq Call
    BY <1>14, GivenUpCalls DEF AppendEntriesFails, TypeOK
  <2> QED BY <1>14, <2>1 DEF AppendEntriesFails, TypeOK
<1>15. CASE UNCHANGED vars
  BY <1>15 DEF vars, TypeOK
<1> QED
  BY <1>1, <1>2, <1>3, <1>4, <1>5, <1>6, <1>7, <1>8, <1>9, <1>10, <1>11, <1>12,
     <1>13, <1>14, <1>15 DEF Next

(* The types and ranges of TypeOK hold in every reachable state.              *)
THEOREM TypeCorrect == Spec => []TypeOK
<1>1. Init => TypeOK
  <2> SUFFICES ASSUME Init PROVE TypeOK
    OBVIOUS
  <2>1. 0..(Initial - 1) \subseteq Server
    BY MembershipAssumption DEF Server
  <2>2. peers \in [Server -> SUBSET Server] /\ \A i \in Server : i \notin peers[i]
    BY <2>1 DEF Init
  <2>3. n \in Initial..MaxServers /\ nextTold \in 0..n
    BY MembershipAssumption DEF Init
  <2> QED BY <2>2, <2>3 DEF Init, TypeOK
<1> QED BY <1>1, TypeStep, PTL DEF Spec
-----------------------------------------------------------------------------
(* The election argument. VoteStep is what a step may do to terms and votes:  *)
(* a vote is dropped within a term only by a candidate or leader that becomes *)
(* a follower, and such a server had voted for itself.                        *)
VoteStep ==
    \A v \in Server :
        /\ currentTerm'[v] >= currentTerm[v]
        /\ currentTerm'[v] = currentTerm[v] =>
              \/ votedFor'[v] = votedFor[v]
              \/ votedFor[v] = -1
              \/ Active(v) /\ ~Active(v)'

(* A step other than an election timeout makes nobody a candidate.            *)
SameRoles ==
    \A i \in Server : Active(i)' =>
        /\ Active(i)
        /\ currentTerm'[i] = currentTerm[i] /\ votedFor'[i] = votedFor[i]
        /\ state'[i] = state[i]

(* The votes of i's candidacy that wait to be counted.                        *)
GrantedTo(i) ==
    {c.peer : c \in {d \in voteCalls :
        d.caller = i /\ d.term = currentTerm[i] /\ d.stage = "reply" /\ d.granted}}

(* Supporters are those counted and those that wait.                          *)
LEMMA SupportersAre == \A i : Supporters(i) = Voters(i) \cup GrantedTo(i)
<1> SUFFICES ASSUME NEW i PROVE Supporters(i) = Voters(i) \cup GrantedTo(i)
  OBVIOUS
<1>1. {d \in CallsOf(voteCalls, i) :
            d.stage = "reply" /\ d.granted /\ d.term = currentTerm[i]}
      = {d \in voteCalls : d.caller = i /\ d.term = currentTerm[i]
                              /\ d.stage = "reply" /\ d.granted}
  BY DEF CallsOf, Running
<1> QED BY <1>1 DEF Supporters, GrantedTo

(* The same after a step.                                                     *)
LEMMA SupportersArePrime == \A i : Supporters(i)' = Voters(i)' \cup GrantedTo(i)'
<1>1. (\A i : Supporters(i) = Voters(i) \cup GrantedTo(i))'
  BY SupportersAre, PTL
<1> QED BY <1>1

(* Supporters are servers.                                                    *)
LEMMA SupportersAreServers ==
    ASSUME TypeOK, NEW i \in Server PROVE Supporters(i) \subseteq Server
<1>1. \A c \in voteCalls : c.peer \in Server
  BY DEF TypeOK, Call
<1>2. Voters(i) \subseteq Server
  BY DEF Voters, VotersIn
<1> QED BY <1>1, <1>2, SupportersAre DEF GrantedTo

(* Who has been counted in the election of the current term.                  *)
LEMMA SameVoters ==
    ASSUME NEW i, UNCHANGED counted, currentTerm'[i] = currentTerm[i]
    PROVE  Voters(i)' = Voters(i)
BY DEF Voters, VotersIn

(* A pledge to a server that stays in its candidacy or leadership is kept.    *)
LEMMA PledgeKept ==
    ASSUME TypeOK, TypeOK', ElectionInv, VoteStep,
           NEW i \in Server, Active(i), Active(i)', currentTerm'[i] = currentTerm[i],
           NEW v \in Server, Pledged(v, i)
    PROVE  Pledged(v, i)'
<1>1. /\ currentTerm[v] \in Nat /\ currentTerm'[v] \in Nat
      /\ currentTerm[i] \in Nat /\ currentTerm'[v] >= currentTerm[v]
  BY DEF TypeOK, VoteStep
<1>2. CASE currentTerm'[v] > currentTerm'[i]
  BY <1>2 DEF Pledged
<1>3. CASE currentTerm'[v] <= currentTerm'[i]
  <2>1. currentTerm[v] = currentTerm[i] /\ currentTerm'[v] = currentTerm[v]
        /\ votedFor[v] = i
    BY <1>1, <1>3 DEF Pledged
  <2>2. votedFor[v] # -1
    BY <2>1 DEF Server
  <2>3. Active(v) => v = i
    BY <2>1 DEF ElectionInv, SupportersPledged
  <2>4. votedFor'[v] = i
    BY <2>1, <2>2, <2>3 DEF VoteStep
  <2> QED BY <2>1, <2>4 DEF Pledged
<1> QED BY <1>1, <1>2, <1>3 DEF TypeOK

(* The running calls of a step come from running calls of the same caller,    *)
(* peer, term and size.                                                           *)
FromCalls(new, old) ==
    \A c \in new : c.stage = "orphan" \/
        \E d \in old : /\ d.stage # "orphan" /\ d.caller = c.caller
                       /\ d.peer = c.peer /\ d.term = c.term /\ d.size = c.size

(* The invariant survives a step in which nobody starts an election or counts *)
(* a vote, if every reply it creates comes from a pledged server and new      *)
(* heartbeats are of the caller's term.                                       *)
LEMMA QuietStep ==
    ASSUME TypeOK, TypeOK', ElectionInv, VoteStep, SameRoles,
           UNCHANGED tallyVars,
           \/ UNCHANGED <<n, peers>>
           \/ n' >= n /\ \A i \in Server : KnowsACluster(i)',
           \A i \in Server : Active(i)' => \A v \in GrantedTo(i)' :
               \/ v \in GrantedTo(i)
               \/ /\ currentTerm'[v] = currentTerm'[i] /\ votedFor'[v] = i,
           FromCalls(voteCalls', voteCalls),
           FromCalls({c \in heartbeats' : c.term # currentTerm'[c.caller]},
                     heartbeats)
    PROVE  ElectionInv'
<1> USE DEF tallyVars
<1>0. /\ n \in Int /\ n' \in Int /\ n' >= n /\ Initial \in Nat
      /\ \A i \in Server : clusterSize[i] \in Nat /\ i \in Nat
  BY MembershipAssumption DEF TypeOK, Server
<1>1. ASSUME NEW i \in Server, Active(i)'
      PROVE  /\ Active(i) /\ currentTerm'[i] = currentTerm[i]
             /\ votedFor'[i] = i /\ Voters(i)' = Voters(i)
             /\ \A v \in Supporters(i) : v \in Server /\ Pledged(v, i)'
  <2>1. /\ Active(i) /\ currentTerm'[i] = currentTerm[i]
        /\ votedFor'[i] = votedFor[i]
    BY <1>1 DEF SameRoles
  <2>2. /\ votedFor[i] = i
        /\ \A v \in Supporters(i) : Pledged(v, i)
    BY <2>1 DEF ElectionInv, SupportersPledged
  <2>3. Supporters(i) \subseteq Server
    BY SupportersAreServers
  <2>4. \A v \in Supporters(i) : Pledged(v, i)'
    BY <1>1, <2>1, <2>2, <2>3, PledgeKept
  <2>5. Voters(i)' = Voters(i)
    BY <2>1, SameVoters
  <2> QED BY <2>1, <2>2, <2>3, <2>4, <2>5
<1>2. ASSUME NEW i \in Server, Active(i)', NEW v \in Supporters(i)'
      PROVE  \/ v \in Supporters(i)
             \/ currentTerm'[v] = currentTerm'[i] /\ votedFor'[v] = i
  <2>1. Supporters(i)' = Voters(i)' \cup GrantedTo(i)'
    BY SupportersArePrime
  <2>2. Supporters(i) = Voters(i) \cup GrantedTo(i)
    BY SupportersAre
  <2> QED BY <1>1, <1>2, <2>1, <2>2
<1>3. ASSUME NEW i \in Server PROVE SupportersPledged(i)'
  <2> SUFFICES ASSUME Active(i)', NEW v \in Supporters(i)' PROVE Pledged(v, i)'
    BY <1>1 DEF SupportersPledged
  <2>1. CASE v \in Supporters(i)
    BY <1>1, <2>1
  <2>2. CASE currentTerm'[v] = currentTerm'[i] /\ votedFor'[v] = i
    BY <2>2 DEF Pledged
  <2> QED BY <1>2, <2>1, <2>2
<1>4. ASSUME NEW i \in Server PROVE NoStaleCalls(i)'
  <2> SUFFICES ASSUME Active(i)' PROVE NoStaleCalls(i)'
    BY DEF NoStaleCalls
  <2>1. currentTerm'[i] = currentTerm[i] /\ Active(i) /\ NoStaleCalls(i)
    BY <1>1 DEF ElectionInv
  <2>2. ASSUME NEW c \in voteCalls', c.stage # "orphan", c.caller = i
        PROVE  c.term = currentTerm'[i] /\ c.size = clusterSize'[i] /\ c.peer < c.size
    <3>1. PICK d \in voteCalls : /\ d.stage # "orphan" /\ d.caller = i
                                 /\ d.peer = c.peer /\ d.term = c.term
                                 /\ d.size = c.size
      BY <2>2 DEF FromCalls
    <3>2. d \in CallsOf(voteCalls, i)
      BY <3>1, CallsOfDef
    <3> QED BY <2>1, <3>1, <3>2 DEF NoStaleCalls
  <2>3. ASSUME NEW c \in heartbeats', c.stage # "orphan", c.caller = i
        PROVE  c.term = currentTerm'[i]
    <3> SUFFICES ASSUME c.term # currentTerm'[i] PROVE FALSE
      OBVIOUS
    <3>1. PICK d \in heartbeats : /\ d.stage # "orphan" /\ d.caller = i
                                  /\ d.term = c.term
      BY <2>3 DEF FromCalls
    <3>2. d \in CallsOf(heartbeats, i)
      BY <3>1, CallsOfDef
    <3> QED BY <2>1, <3>1, <3>2 DEF NoStaleCalls
  <2> QED BY <2>2, <2>3, CallsOfDef DEF NoStaleCalls
<1>5. ASSUME NEW i \in Server PROVE CountedInOwnCluster(i)'
  <2> SUFFICES ASSUME Active(i)' PROVE CountedInOwnCluster(i)'
    BY DEF CountedInOwnCluster
  <2>1. Active(i) /\ CountedInOwnCluster(i) /\ state'[i] = state[i]
    BY <1>1 DEF ElectionInv, SameRoles
  <2>2. clusterSize'[i] \in Initial..n'
    BY <1>0, <2>1 DEF CountedInOwnCluster
  <2>3. state'[i] = "Leader" => 2 * Cardinality(Voters(i)') > clusterSize'[i]
    BY <1>1, <2>1 DEF CountedInOwnCluster
  <2>4. ASSUME NEW v \in Supporters(i)' PROVE v \in 0..(clusterSize'[i] - 1)
    <3>1. Supporters(i)' = Voters(i)' \cup GrantedTo(i)'
      BY SupportersArePrime
    <3>2. CASE v \in Voters(i)'
      BY <1>1, <2>1, <3>2, SupportersAre DEF CountedInOwnCluster
    <3>3. CASE v \in GrantedTo(i)'
      <4>1. PICK c \in voteCalls' : c.peer = v /\ c.caller = i /\ c.stage = "reply"
        BY <3>3 DEF GrantedTo
      <4>2. c \in CallsOf(voteCalls', i) /\ v \in Server
        BY <4>1, CallsOfDef DEF TypeOK, Call
      <4>3. v < clusterSize'[i]
        BY <1>4, <4>1, <4>2 DEF NoStaleCalls
      <4> QED BY <1>0, <4>2, <4>3
    <3> QED BY <2>4, <3>1, <3>2, <3>3
  <2> QED BY <2>2, <2>3, <2>4 DEF CountedInOwnCluster
<1>6. ASSUME NEW i \in Server PROVE KnowsACluster(i)'
  <2> SUFFICES ASSUME UNCHANGED <<n, peers>> PROVE KnowsACluster(i)'
    BY <1>6
  <2>1. KnowsACluster(i) /\ (Active(i)' => Active(i))
    BY <1>1 DEF ElectionInv
  <2> QED BY <2>1 DEF KnowsACluster
<1>7. ASSUME NEW i \in Server, NEW j \in Server PROVE NoCommonSupporter(i, j)'
  <2> SUFFICES ASSUME i # j, Active(i)', Active(j)', currentTerm'[i] = currentTerm'[j],
                      NEW v \in Supporters(i)', v \in Supporters(j)'
               PROVE  FALSE
    BY DEF NoCommonSupporter
  <2>1. /\ Active(i) /\ Active(j) /\ currentTerm[i] = currentTerm[j]
    BY <1>1
  <2>2. Supporters(i) \cap Supporters(j) = {}
    BY <2>1 DEF ElectionInv, NoCommonSupporter
  <2>3. /\ \/ v \in Supporters(i)
           \/ currentTerm'[v] = currentTerm'[i] /\ votedFor'[v] = i
        /\ \/ v \in Supporters(j)
           \/ currentTerm'[v] = currentTerm'[j] /\ votedFor'[v] = j
    BY <1>2
  <2>4. /\ v \in Supporters(i) => v \in Server /\ Pledged(v, i)'
        /\ v \in Supporters(j) => v \in Server /\ Pledged(v, j)'
    BY <1>1
  <2>5. currentTerm'[i] \in Nat /\ currentTerm'[j] \in Nat
    BY DEF TypeOK
  <2> QED BY <2>2, <2>3, <2>4, <2>5 DEF Pledged
<1> QED BY <1>3, <1>4, <1>5, <1>6, <1>7 DEF ElectionInv
(* Every step keeps terms from going back and votes from changing hands.      *)
LEMMA NextVoteStep ==
    ASSUME TypeOK, ElectionInv, [Next]_vars PROVE VoteStep
<1> USE DEF serverVars, harnessVars, tallyVars
<1>0. \A v \in Server : currentTerm[v] \in Nat
  BY DEF TypeOK
<1>1. ASSUME NEW i \in Server, ElectionTimeout(i) PROVE VoteStep
  <2>1. /\ currentTerm' = [currentTerm EXCEPT ![i] = currentTerm[i] + 1]
        /\ votedFor' = [votedFor EXCEPT ![i] = i]
    BY <1>1 DEF ElectionTimeout
  <2> QED BY <1>0, <2>1 DEF VoteStep, TypeOK
<1>2. ASSUME NEW c \in voteCalls, RequestVote(c) PROVE VoteStep
  <2> DEFINE i == c.peer
             term == IF Newer(c.term, i) THEN c.term ELSE currentTerm[i]
             voted == IF Newer(c.term, i) THEN -1 ELSE votedFor[i]
             granted == Grants(c, term, voted)
  <2>1. /\ currentTerm' = [currentTerm EXCEPT ![i] = term]
        /\ votedFor' = [votedFor EXCEPT ![i] = IF granted THEN c.caller ELSE voted]
    BY <1>2 DEF RequestVote
  <2>2. i \in Server /\ c.term \in Nat
    BY DEF TypeOK, Call
  <2>3. term >= currentTerm[i] /\ (term = currentTerm[i] => voted = votedFor[i])
    BY <1>0, <2>2 DEF Newer
  <2>4. granted => voted \in {-1, c.caller}
    BY DEF Grants
  <2> HIDE DEF term, voted, granted
  <2>5. /\ currentTerm'[i] = term
        /\ votedFor'[i] = IF granted THEN c.caller ELSE voted
        /\ \A v \in Server \ {i} : /\ currentTerm'[v] = currentTerm[v]
                                  /\ votedFor'[v] = votedFor[v]
    BY <2>1, <2>2 DEF TypeOK
  <2> QED BY <1>0, <2>2, <2>3, <2>4, <2>5 DEF VoteStep
<1>3. ASSUME NEW c \in voteCalls, HandleVoteReply(c) PROVE VoteStep
  <2>1. c \in Call /\ c.caller \in Server /\ c.replyTerm \in Nat
    BY DEF TypeOK, Call
  <2>2. CASE /\ state[c.caller] = "Candidate" /\ c.replyTerm > c.term
             /\ BecomeFollower(c.caller, c.replyTerm)
    <3>1. c \in CallsOf(voteCalls, c.caller)
      BY <1>3, CallsOfDef DEF HandleVoteReply
    <3>2. c.term = currentTerm[c.caller]
      BY <2>1, <2>2, <3>1 DEF ElectionInv, NoStaleCalls, Active
    <3>3. /\ currentTerm'[c.caller] \in Nat
          /\ currentTerm'[c.caller] > currentTerm[c.caller]
          /\ \A v \in Server \ {c.caller} : /\ currentTerm'[v] = currentTerm[v]
                                           /\ votedFor'[v] = votedFor[v]
      BY <2>1, <2>2, <3>2 DEF BecomeFollower, TypeOK
    <3> QED BY <1>0, <2>1, <3>3 DEF VoteStep
  <2>3. CASE UNCHANGED <<currentTerm, votedFor>>
    BY <1>0, <2>3 DEF VoteStep
  <2> QED BY <1>3, <2>2, <2>3 DEF HandleVoteReply
<1>4. ASSUME NEW c \in heartbeats, AppendEntries(c) PROVE VoteStep
  <2>1. c.peer \in Server /\ c.term \in Nat
    BY DEF TypeOK, Call
  <2>2. CASE UNCHANGED <<currentTerm, votedFor>>
    BY <1>0, <2>2 DEF VoteStep
  <2>3. CASE /\ Newer(c.term, c.peer)
             /\ BecomeFollower(c.peer, c.term)
    BY <1>0, <2>1, <2>3 DEF Newer, BecomeFollower, VoteStep, TypeOK
  <2>4. CASE /\ c.term = currentTerm[c.peer] /\ state[c.peer] # "Follower"
             /\ BecomeFollower(c.peer, c.term)
    <3>1. Active(c.peer)
      BY <1>4, <2>1, <2>4 DEF AppendEntries, Active, TypeOK
    <3>2. state'[c.peer] = "Follower"
      BY <2>1, <2>4 DEF BecomeFollower, TypeOK
    <3> QED BY <1>0, <2>1, <2>4, <3>1, <3>2
            DEF BecomeFollower, VoteStep, Active, TypeOK
  <2> QED BY <1>4, <2>2, <2>3, <2>4 DEF AppendEntries
<1>5. ASSUME NEW c \in heartbeats, HandleAppendReply(c) PROVE VoteStep
  <2>1. c.caller \in Server /\ c.replyTerm \in Nat
    BY DEF TypeOK, Call
  <2>2. CASE UNCHANGED <<currentTerm, votedFor>>
    BY <1>0, <2>2 DEF VoteStep
  <2>3. CASE /\ state[c.caller] = "Leader" /\ c.replyTerm > c.term
             /\ BecomeFollower(c.caller, c.replyTerm)
    <3>1. c \in CallsOf(heartbeats, c.caller)
      BY <1>5, CallsOfDef DEF HandleAppendReply
    <3>2. c.term = currentTerm[c.caller]
      BY <2>1, <2>3, <3>1 DEF ElectionInv, NoStaleCalls, Active
    <3> QED BY <1>0, <2>1, <2>3, <3>2 DEF BecomeFollower, VoteStep, TypeOK
  <2> QED BY <1>5, <2>2, <2>3 DEF HandleAppendReply
<1>6. CASE UNCHANGED <<currentTerm, votedFor>>
  BY <1>0, <1>6 DEF VoteStep
<1> QED
  BY <1>1, <1>2, <1>3, <1>4, <1>5, <1>6
  DEF Next, vars, AddServer, SetPeers, LeaderSendHeartbeats, Stop, StopReturns,
      RequestVoteAtDead, RequestVoteFails, AppendEntriesAtDead, AppendEntriesFails

(* A harness call hands out the whole cluster of the moment.                  *)
LEMMA HarnessStep ==
    ASSUME TypeOK, ElectionInv, AddServer \/ SetPeers
    PROVE  n' >= n /\ \A i \in Server : KnowsACluster(i)'
<1>0. /\ Initial \in Nat \ {0} /\ MaxServers \in Nat
      /\ n \in Initial..MaxServers /\ nextTold \in 0..n
      /\ \A i : i \in Server <=> i \in 0..(MaxServers - 1)
  BY MembershipAssumption DEF TypeOK, Server
<1> USE DEF serverVars
<1>1. CASE AddServer
  <2>1. /\ n < MaxServers /\ n' = n + 1 /\ UNCHANGED state
        /\ peers' = [peers EXCEPT ![n] = (0..(n - 1)) \ {n}]
    BY <1>1 DEF AddServer, Others
  <2>2. n \in Server /\ n + 1 \in Initial..MaxServers
    BY <1>0, <2>1
  <2>3. ASSUME NEW i \in Server, i = n PROVE KnowsACluster(i)'
    <3>1. peers'[i] = (0..((n + 1) - 1)) \ {i}
      <4>1. peers'[n] = (0..(n - 1)) \ {n}
        BY <2>1, <2>2 DEF TypeOK
      <4>2. (0..(n - 1)) \ {n} = (0..((n + 1) - 1)) \ {n}
        BY <1>0
      <4> QED BY <2>3, <4>1, <4>2
    <3>2. n + 1 \in Initial..(n + 1) /\ i < n + 1
      BY <1>0, <2>3
    <3> QED BY <2>1, <3>1, <3>2 DEF KnowsACluster
  <2>4. ASSUME NEW i \in Server, i # n PROVE KnowsACluster(i)'
    <3>1. KnowsACluster(i) /\ peers'[i] = peers[i] /\ (Active(i)' <=> Active(i))
      BY <2>1, <2>4 DEF ElectionInv, TypeOK, Active
    <3>2. i \in Int /\ (i < n <=> i < n')
      BY <1>0, <2>1, <2>4
    <3>3. Initial..n \subseteq Initial..n'
      BY <1>0, <2>1
    <3> QED BY <3>1, <3>2, <3>3 DEF KnowsACluster
  <2>5. n' >= n
    BY <1>0, <2>1
  <2> QED BY <2>3, <2>4, <2>5
<1>2. CASE SetPeers
  <2>1. /\ nextTold < n /\ n' = n /\ UNCHANGED state
        /\ peers' = [peers EXCEPT ![nextTold] = (0..(n - 1)) \ {nextTold}]
    BY <1>2 DEF SetPeers, Others
  <2>2. nextTold \in Server /\ n \in Initial..n
    BY <1>0, <2>1
  <2>3. ASSUME NEW i \in Server, i = nextTold PROVE KnowsACluster(i)'
    <3>1. i < n' /\ peers'[i] = (0..(n' - 1)) \ {i} /\ n' \in Initial..n'
      BY <2>1, <2>2, <2>3 DEF TypeOK
    <3> QED BY <3>1 DEF KnowsACluster
  <2>4. ASSUME NEW i \in Server, i # nextTold PROVE KnowsACluster(i)'
    <3>1. KnowsACluster(i) /\ peers'[i] = peers[i] /\ (Active(i)' <=> Active(i))
      BY <2>1, <2>4 DEF ElectionInv, TypeOK, Active
    <3> QED BY <2>1, <3>1 DEF KnowsACluster
  <2> QED BY <1>0, <2>1, <2>3, <2>4
<1> QED BY <1>1, <1>2

(* The size that an election starts with is the size its candidate knows.     *)
LEMMA KnownSize ==
    ASSUME TypeOK, ElectionInv, NEW i \in Server, i < n
    PROVE  /\ ClusterSize(i) \in Initial..n
           /\ i < ClusterSize(i)
           /\ peers[i] \subseteq 0..(ClusterSize(i) - 1)
<1>1. PICK size \in Initial..n : i < size /\ peers[i] = (0..(size - 1)) \ {i}
  BY DEF ElectionInv, KnowsACluster
<1>2. size \in Nat /\ i \in Nat
  BY MembershipAssumption DEF TypeOK, Server
<1>3. i \in 0..(size - 1)
  BY <1>1, <1>2
<1>4. IsFiniteSet(0..(size - 1)) /\ Cardinality(0..(size - 1)) = size
  <2>1. 0 \in Int /\ size - 1 \in Int /\ ~(0 > size - 1) /\ size - 1 - 0 + 1 = size
    BY <1>1, <1>2
  <2> QED BY <2>1, FS_Interval
<1>5. Cardinality(peers[i]) = size - 1
  BY <1>1, <1>3, <1>4, FS_RemoveElement
<1>6. ClusterSize(i) = size
  BY <1>2, <1>5 DEF ClusterSize
<1> QED BY <1>1, <1>6
(* The steps that leave votes, vote calls and the harness alone, that let     *)
(* nobody become a candidate or leader and that only take heartbeats away or  *)
(* answer them.                                                               *)
LEMMA CallsUntouched ==
    ASSUME TypeOK, TypeOK', ElectionInv, VoteStep, SameRoles,
           UNCHANGED <<harnessVars, tallyVars, voteCalls>>,
           FromCalls(heartbeats', heartbeats)
    PROVE  ElectionInv'
<1>1. \A i \in Server : Active(i)' => GrantedTo(i)' = GrantedTo(i)
  BY DEF SameRoles, GrantedTo
<1>2. FromCalls(voteCalls', voteCalls)
  BY DEF FromCalls
<1>3. FromCalls({c \in heartbeats' : c.term # currentTerm'[c.caller]}, heartbeats)
  BY DEF FromCalls
<1> QED BY <1>1, <1>2, <1>3, QuietStep DEF harnessVars

(* The start of an election: the calls of the last one are given up.          *)
LEMMA ElectionStep ==
    ASSUME PromptReplies, TypeOK, TypeOK', ElectionInv, VoteStep,
           NEW i \in Server, ElectionTimeout(i)
    PROVE  ElectionInv'
<1> USE DEF harnessVars
<1>0. /\ \A v \in Server : currentTerm[v] \in Nat /\ v \in Nat
      /\ Initial \in Nat /\ n \in Int
  BY MembershipAssumption DEF TypeOK, Server
<1>1. PICK targets \in SUBSET peers[i],
           rest \in GivenUp(voteCalls, CallsOf(voteCalls, i), MaxLateVotes) :
          voteCalls' = rest \cup
              NewCalls(i, targets, currentTerm[i] + 1, ClusterSize(i))
  BY DEF ElectionTimeout, Ending
<1>2. \A c \in rest :
          c.stage # "orphan" => c \in voteCalls /\ c.caller # i
  <2>1. CallsOf(voteCalls, i) \subseteq voteCalls
    BY CallsOfDef
  <2>2. \A c \in rest : c.stage # "orphan" => c \in voteCalls /\ c \notin CallsOf(voteCalls, i)
    BY <2>1, GivenUpCalls DEF TypeOK
  <2> QED BY <2>2, CallsOfDef
<1>3. \A c \in NewCalls(i, targets, currentTerm[i] + 1, ClusterSize(i)) :
          /\ c.caller = i /\ c.peer \in targets /\ c.term = currentTerm[i] + 1
          /\ c.size = ClusterSize(i) /\ c.stage = "request"
  <2>1. targets \in SUBSET Server /\ currentTerm[i] + 1 \in Nat
        /\ clusterSize'[i] = ClusterSize(i) /\ clusterSize'[i] \in Nat
    BY DEF ElectionTimeout, TypeOK
  <2> QED BY <2>1, NewCallsOf
<1>4. \A c \in heartbeats' :
          c.stage # "orphan" => c \in heartbeats /\ c.caller # i
  <2>1. CallsOf(heartbeats, i) \subseteq heartbeats
    BY CallsOfDef
  <2>2. heartbeats' \in GivenUp(heartbeats, CallsOf(heartbeats, i), MaxLateBeats)
    BY DEF ElectionTimeout, Ending
  <2>3. \A c \in heartbeats' :
            c.stage # "orphan" => c \in heartbeats /\ c \notin CallsOf(heartbeats, i)
    BY <2>1, <2>2, GivenUpCalls DEF TypeOK
  <2> QED BY <2>3, CallsOfDef
<1>5. /\ i < n /\ state' = [state EXCEPT ![i] = "Candidate"]
      /\ currentTerm' = [currentTerm EXCEPT ![i] = currentTerm[i] + 1]
      /\ votedFor' = [votedFor EXCEPT ![i] = i]
      /\ clusterSize' = [clusterSize EXCEPT ![i] = ClusterSize(i)]
      /\ counted' = [counted EXCEPT ![i] = {<<currentTerm[i] + 1, i>>}]
      /\ n' = n /\ peers' = peers
  BY DEF ElectionTimeout
<1>6. /\ state'[i] = "Candidate" /\ currentTerm'[i] = currentTerm[i] + 1
      /\ votedFor'[i] = i /\ clusterSize'[i] = ClusterSize(i)
      /\ counted'[i] = {<<currentTerm[i] + 1, i>>}
  BY <1>5 DEF TypeOK
<1>7. /\ ClusterSize(i) \in Initial..n /\ i < ClusterSize(i)
      /\ peers[i] \subseteq 0..(ClusterSize(i) - 1)
  BY <1>5, KnownSize
<1>8. Supporters(i)' = {i}
  <2>1. GrantedTo(i)' = {}
    BY <1>1, <1>2, <1>3 DEF GrantedTo
  <2>2. Voters(i)' = {i}
    BY <1>6 DEF Voters, VotersIn
  <2> QED BY <2>1, <2>2, SupportersArePrime
<1>9. SupportersPledged(i)'
  BY <1>6, <1>8 DEF SupportersPledged, Pledged
<1>10. CountedInOwnCluster(i)'
  <2>1. i \in 0..(ClusterSize(i) - 1)
    BY <1>0, <1>7
  <2> QED BY <1>5, <1>6, <1>7, <1>8, <2>1 DEF CountedInOwnCluster
<1>11. NoStaleCalls(i)'
  <2>1. ASSUME NEW c \in CallsOf(voteCalls', i)
        PROVE  c.term = currentTerm'[i] /\ c.size = clusterSize'[i] /\ c.peer < c.size
    <3>1. c \in voteCalls' /\ c.stage # "orphan" /\ c.caller = i
      BY <2>1, CallsOfDef
    <3>2. c \in NewCalls(i, targets, currentTerm[i] + 1, ClusterSize(i))
      BY <1>1, <1>2, <3>1
    <3>3. /\ c.term = currentTerm'[i] /\ c.size = ClusterSize(i)
          /\ c.peer \in 0..(ClusterSize(i) - 1)
      BY <1>3, <1>6, <1>7, <3>2
    <3> QED BY <1>0, <1>6, <1>7, <3>3
  <2>2. CallsOf(heartbeats', i) = {}
    BY <1>4, CallsOfDef
  <2> QED BY <2>1, <2>2 DEF NoStaleCalls
<1>12. ASSUME NEW j \in Server, j # i
       PROVE  /\ SupportersPledged(j)' /\ NoStaleCalls(j)' /\ CountedInOwnCluster(j)'
              /\ Supporters(j)' \subseteq Supporters(j)
              /\ (Active(j)' <=> Active(j)) /\ currentTerm'[j] = currentTerm[j]
  <2>1. /\ state'[j] = state[j] /\ currentTerm'[j] = currentTerm[j]
        /\ votedFor'[j] = votedFor[j] /\ counted'[j] = counted[j]
        /\ clusterSize'[j] = clusterSize[j]
    BY <1>5, <1>12 DEF TypeOK
  <2>v. Voters(j)' = Voters(j)
    BY <2>1 DEF Voters, VotersIn
  <2>2. \A c \in voteCalls' :
            c.caller = j /\ c.stage # "orphan" => c \in voteCalls
    BY <1>1, <1>2, <1>3, <1>12
  <2>3. Supporters(j)' \subseteq Supporters(j)
    <3>1. GrantedTo(j)' \subseteq GrantedTo(j)
      BY <2>1, <2>2 DEF GrantedTo
    <3> QED BY <2>v, <3>1, SupportersAre, SupportersArePrime
  <2>4. SupportersPledged(j)'
    <3> SUFFICES ASSUME Active(j)'
                 PROVE  /\ votedFor'[j] = j
                        /\ \A v \in Supporters(j)' : Pledged(v, j)'
      BY DEF SupportersPledged
    <3>1. Active(j)
      BY <2>1 DEF Active
    <3>2. /\ votedFor[j] = j
          /\ \A v \in Supporters(j) : Pledged(v, j)
      BY <3>1 DEF ElectionInv, SupportersPledged
    <3>3. \A v \in Supporters(j) : Pledged(v, j)'
      BY <2>1, <3>1, <3>2, PledgeKept, SupportersAreServers
    <3> QED BY <2>1, <2>3, <3>2, <3>3
  <2>5. NoStaleCalls(j)'
    <3>1. CallsOf(voteCalls', j) \subseteq CallsOf(voteCalls, j)
      BY <2>2, CallsOfDef
    <3>2. CallsOf(heartbeats', j) \subseteq CallsOf(heartbeats, j)
      BY <1>4, CallsOfDef
    <3> QED BY <2>1, <3>1, <3>2 DEF ElectionInv, NoStaleCalls, Active
  <2>6. CountedInOwnCluster(j)'
    BY <1>5, <2>1, <2>3, <2>v DEF ElectionInv, CountedInOwnCluster, Active
  <2> QED BY <2>1, <2>3, <2>4, <2>5, <2>6 DEF Active
<1>13. ASSUME NEW j \in Server PROVE KnowsACluster(j)'
  <2>1. KnowsACluster(j)
    BY DEF ElectionInv
  <2>2. j = i \/ (Active(j)' <=> Active(j))
    BY <1>12
  <2> QED BY <1>5, <2>1, <2>2 DEF KnowsACluster
<1>14. ASSUME NEW j \in Server, j # i, Active(j)', currentTerm'[i] = currentTerm'[j]
       PROVE  i \notin Supporters(j)'
  <2>1. currentTerm[i] \in Nat /\ currentTerm[j] = currentTerm[i] + 1 /\ Active(j)
    BY <1>6, <1>12, <1>14 DEF TypeOK
  <2>2. ~Pledged(i, j)
    BY <2>1 DEF Pledged
  <2> QED BY <1>12, <1>14, <2>1, <2>2 DEF ElectionInv, SupportersPledged
<1>15. ASSUME NEW j \in Server, NEW k \in Server PROVE NoCommonSupporter(j, k)'
  <2> SUFFICES ASSUME j # k, Active(j)', Active(k)', currentTerm'[j] = currentTerm'[k]
               PROVE  Supporters(j)' \cap Supporters(k)' = {}
    BY DEF NoCommonSupporter
  <2>1. CASE j = i
    BY <1>8, <1>14, <2>1
  <2>2. CASE k = i
    BY <1>8, <1>14, <2>2
  <2>3. CASE j # i /\ k # i
    <3>1. Supporters(j) \cap Supporters(k) = {}
      BY <1>12, <2>3 DEF ElectionInv, NoCommonSupporter
    <3> QED BY <1>12, <2>3, <3>1
  <2> QED BY <2>1, <2>2, <2>3
<1> QED BY <1>9, <1>10, <1>11, <1>12, <1>13, <1>15 DEF ElectionInv

(* Granting a vote.                                                           *)
LEMMA GrantStep ==
    ASSUME TypeOK, TypeOK', ElectionInv, VoteStep,
           NEW c \in voteCalls, RequestVote(c)
    PROVE  ElectionInv'
<1> DEFINE p == c.peer
           term == IF Newer(c.term, p) THEN c.term ELSE currentTerm[p]
           voted == IF Newer(c.term, p) THEN -1 ELSE votedFor[p]
           granted == Grants(c, term, voted)
<1>1. /\ state' = [state EXCEPT ![p] = IF Newer(c.term, p) THEN "Follower" ELSE @]
      /\ currentTerm' = [currentTerm EXCEPT ![p] = term]
      /\ votedFor' = [votedFor EXCEPT ![p] = IF granted THEN c.caller ELSE voted]
      /\ voteCalls' = Answered(voteCalls, c, term, granted)
      /\ UNCHANGED <<harnessVars, tallyVars, heartbeats>>
  BY DEF RequestVote
<1>2. c \in Call /\ p \in Server /\ c.caller \in Server /\ c.term \in Nat
      /\ currentTerm[p] \in Nat
  BY DEF TypeOK, Call
<1>3. \A d \in voteCalls' :
          \/ d \in voteCalls
          \/ /\ c.stage # "orphan" /\ d.stage = "reply"
             /\ d.caller = c.caller /\ d.peer = c.peer /\ d.term = c.term
             /\ d.size = c.size /\ d.granted = granted
  <2>1. term \in Nat /\ granted \in BOOLEAN
    BY <1>2 DEF Grants
  <2> QED BY <1>1, <2>1, AnsweredCall DEF TypeOK
<1>4. granted => term = c.term /\ voted \in {-1, c.caller}
  BY DEF Grants
<1>5. SameRoles
  <2> SUFFICES ASSUME NEW i \in Server, Active(i)'
               PROVE  /\ Active(i) /\ currentTerm'[i] = currentTerm[i]
                      /\ votedFor'[i] = votedFor[i] /\ state'[i] = state[i]
    BY DEF SameRoles
  <2>1. CASE i # p
    BY <1>1, <1>2, <2>1 DEF Active, TypeOK
  <2>2. CASE i = p
    <3>1. ~Newer(c.term, p)
      BY <1>1, <1>2, <2>2 DEF Active, TypeOK
    <3>2. term = currentTerm[p] /\ voted = votedFor[p]
      BY <3>1
    <3>3. state'[i] = state[i] /\ Active(i) /\ currentTerm'[i] = currentTerm[i]
      BY <1>1, <1>2, <2>2, <3>1, <3>2 DEF Active, TypeOK
    <3>4. votedFor[p] = p
      BY <2>2, <3>3 DEF ElectionInv, SupportersPledged
    <3>5. votedFor[p] # -1
      BY <1>2, <3>4 DEF Server
    <3>6. granted => c.caller = votedFor[p]
      BY <1>4, <3>2, <3>5
    <3> HIDE DEF granted, voted, term
    <3> QED BY <1>1, <1>2, <2>2, <3>2, <3>3, <3>6 DEF TypeOK
  <2> QED BY <2>1, <2>2
<1>6. ASSUME NEW i \in Server, Active(i)', NEW v \in GrantedTo(i)'
      PROVE  \/ v \in GrantedTo(i)
             \/ currentTerm'[v] = currentTerm'[i] /\ votedFor'[v] = i
  <2>1. PICK e \in voteCalls' : /\ e.peer = v /\ e.caller = i
                               /\ e.term = currentTerm'[i] /\ e.stage = "reply"
                               /\ e.granted
    BY DEF GrantedTo
  <2>2. CASE e \in voteCalls
    <3>1. currentTerm'[i] = currentTerm[i]
      BY <1>5, <1>6 DEF SameRoles
    <3> QED BY <2>1, <2>2, <3>1 DEF GrantedTo
  <2>3. CASE e \notin voteCalls
    <3>1. granted /\ v = p /\ i = c.caller /\ c.term = currentTerm'[i]
      BY <1>3, <2>1, <2>3
    <3>2. votedFor'[p] = c.caller /\ currentTerm'[p] = c.term
      <4>1. /\ votedFor'[p] = IF granted THEN c.caller ELSE voted
            /\ currentTerm'[p] = term
        BY <1>1, <1>2 DEF TypeOK
      <4> HIDE DEF granted, voted, term
      <4> QED BY <1>4, <3>1, <4>1
    <3> QED BY <3>1, <3>2
  <2> QED BY <2>2, <2>3
<1> HIDE DEF granted
<1>7. FromCalls(voteCalls', voteCalls)
  BY <1>3 DEF FromCalls
<1>8. FromCalls({e \in heartbeats' : e.term # currentTerm'[e.caller]}, heartbeats)
  BY <1>1 DEF FromCalls
<1>9. UNCHANGED <<n, peers>>
  BY <1>1 DEF harnessVars
<1> QED BY <1>1, <1>5, <1>6, <1>7, <1>8, <1>9, QuietStep
(* Counting a vote.                                                           *)
LEMMA CountStep ==
    ASSUME TypeOK, TypeOK', ElectionInv, VoteStep,
           NEW c \in voteCalls, HandleVoteReply(c)
    PROVE  ElectionInv'
<1> USE DEF harnessVars, serverVars, tallyVars
<1> DEFINE i == c.caller
           now == Voters(i) \cup {c.peer}
<1>1. /\ voteCalls' = voteCalls \ {c} /\ c.stage = "reply"
      /\ c \in Call /\ i \in Server /\ c.peer \in Server
      /\ UNCHANGED <<n, nextTold, peers, clusterSize, heartbeats>>
  BY DEF HandleVoteReply, TypeOK, Call
<1>2. /\ FromCalls(voteCalls', voteCalls)
      /\ FromCalls({e \in heartbeats' : e.term # currentTerm'[e.caller]}, heartbeats)
  BY <1>1 DEF FromCalls
<1>3. CASE UNCHANGED <<state, currentTerm, votedFor, counted>>
  <2>1. SameRoles
    BY <1>3 DEF SameRoles, Active
  <2>2. \A j : GrantedTo(j)' \subseteq GrantedTo(j)
    BY <1>1, <1>3 DEF GrantedTo
  <2> QED BY <1>1, <1>2, <1>3, <2>1, <2>2, QuietStep
<1>4. CASE BecomeFollower(i, c.replyTerm) /\ UNCHANGED counted
  <2>1. SameRoles
    BY <1>1, <1>4 DEF BecomeFollower, SameRoles, Active, TypeOK
  <2>2. \A j \in Server : Active(j)' => GrantedTo(j)' \subseteq GrantedTo(j)
    BY <1>1, <2>1 DEF GrantedTo, SameRoles
  <2> QED BY <1>1, <1>2, <1>4, <2>1, <2>2, QuietStep
<1>5. CASE /\ state[i] = "Candidate" /\ c.replyTerm = c.term /\ c.granted
           /\ counted' = [counted EXCEPT ![i] = @ \cup {<<c.term, c.peer>>}]
           /\ state' = [state EXCEPT ![i] =
                  IF 2 * Cardinality(VotersIn(i, c.term) \cup {c.peer}) > c.size
                  THEN "Leader" ELSE @]
           /\ UNCHANGED <<currentTerm, votedFor>>
  <2>1. c \in CallsOf(voteCalls, i) /\ Active(i)
    BY <1>1, <1>5, CallsOfDef DEF Active
  <2>2. c.term = currentTerm[i] /\ c.size = clusterSize[i]
    BY <1>1, <2>1 DEF ElectionInv, NoStaleCalls
  <2>3. c.peer \in GrantedTo(i)
    BY <1>1, <1>5, <2>2 DEF GrantedTo
  <2>4. /\ Voters(i)' = now /\ state'[i] \in {"Candidate", "Leader"}
        /\ state'[i] = "Leader" => 2 * Cardinality(now) > clusterSize[i]
    <3>1. VotersIn(i, c.term) \cup {c.peer} = now
      BY <2>2 DEF Voters
    <3>2. /\ counted'[i] = counted[i] \cup {<<currentTerm[i], c.peer>>}
          /\ currentTerm'[i] = currentTerm[i]
      BY <1>1, <1>5, <2>2 DEF TypeOK
    <3>3. Voters(i)' = now
      BY <1>1, <3>2 DEF Voters, VotersIn
    <3> HIDE DEF now
    <3>4. state'[i] = IF 2 * Cardinality(now) > clusterSize[i] THEN "Leader"
                      ELSE state[i]
      BY <1>1, <1>5, <2>2, <3>1 DEF TypeOK
    <3> QED BY <1>5, <3>3, <3>4
  <2>5. \A j \in Server \ {i} : Voters(j)' = Voters(j) /\ state'[j] = state[j]
    <3>1. \A j \in Server \ {i} : counted'[j] = counted[j] /\ state'[j] = state[j]
      BY <1>1, <1>5 DEF TypeOK
    <3> QED BY <1>5, <3>1 DEF Voters, VotersIn
  <2>6. \A j : GrantedTo(j)' \subseteq GrantedTo(j)
    BY <1>1, <1>5 DEF GrantedTo
  <2>7. \A v, j : Pledged(v, j)' <=> Pledged(v, j)
    BY <1>5 DEF Pledged
  <2> HIDE DEF i
  <2>8. \A j \in Server : /\ Supporters(j)' \subseteq Supporters(j)
                          /\ (Active(j)' <=> Active(j))
    <3>1. ASSUME NEW j \in Server, j # i
          PROVE  Supporters(j)' \subseteq Supporters(j) /\ (Active(j)' <=> Active(j))
      BY <2>5, <2>6, <3>1, SupportersAre, SupportersArePrime DEF Active
    <3>2. Supporters(i)' \subseteq Supporters(i)
      <4>1. Supporters(i)' = Voters(i)' \cup GrantedTo(i)'
        BY SupportersArePrime
      <4>2. Supporters(i) = Voters(i) \cup GrantedTo(i)
        BY SupportersAre
      <4> QED BY <2>3, <2>4, <2>6, <4>1, <4>2
    <3>3. Active(i)' /\ Active(i)
      <4>1. Active(i)'
        BY <2>4 DEF Active
      <4> QED BY <2>1, <4>1
    <3> QED BY <3>1, <3>2, <3>3
  <2>9. ASSUME NEW j \in Server
        PROVE  SupportersPledged(j)' /\ NoStaleCalls(j)' /\ CountedInOwnCluster(j)'
               /\ KnowsACluster(j)'
    <3>1. SupportersPledged(j)'
      BY <1>5, <2>7, <2>8 DEF ElectionInv, SupportersPledged
    <3>2. NoStaleCalls(j)'
      <4>1. CallsOf(voteCalls', j) \subseteq CallsOf(voteCalls, j)
        BY <1>1, CallsOfDef
      <4>2. CallsOf(heartbeats', j) = CallsOf(heartbeats, j)
        BY <1>1
      <4>3. currentTerm'[j] = currentTerm[j] /\ clusterSize'[j] = clusterSize[j]
        BY <1>1, <1>5
      <4> QED BY <2>8, <4>1, <4>2, <4>3 DEF ElectionInv, NoStaleCalls
    <3>3. CountedInOwnCluster(j)'
      <4>1. state'[j] = "Leader" /\ Active(j)'
               => 2 * Cardinality(Voters(j)') > clusterSize'[j]
        <5>1. CASE j = i
          BY <1>1, <2>4, <5>1
        <5>2. CASE j # i
          BY <1>1, <2>5, <2>8, <5>2 DEF ElectionInv, CountedInOwnCluster
        <5> QED BY <5>1, <5>2
      <4> QED BY <1>1, <2>8, <4>1 DEF ElectionInv, CountedInOwnCluster
    <3>4. KnowsACluster(j)'
      BY <1>1, <2>8 DEF ElectionInv, KnowsACluster
    <3> QED BY <3>1, <3>2, <3>3, <3>4
  <2>10. \A j, k \in Server : NoCommonSupporter(j, k)'
    BY <1>5, <2>8 DEF ElectionInv, NoCommonSupporter
  <2> QED BY <2>9, <2>10 DEF ElectionInv
<1> QED BY <1>3, <1>4, <1>5 DEF HandleVoteReply

(* Every step keeps the election invariant.                                   *)
LEMMA ElectionInvStep ==
    ASSUME PromptReplies, TypeOK, TypeOK', ElectionInv, [Next]_vars
    PROVE  ElectionInv'
<1> USE DEF serverVars
<1>0. VoteStep
  BY NextVoteStep
<1>1. ASSUME NEW i \in Server, ElectionTimeout(i) PROVE ElectionInv'
  BY <1>0, <1>1, ElectionStep
<1>2. ASSUME NEW c \in voteCalls, RequestVote(c) PROVE ElectionInv'
  BY <1>0, <1>2, GrantStep
<1>3. ASSUME NEW c \in voteCalls, HandleVoteReply(c) PROVE ElectionInv'
  BY <1>0, <1>3, CountStep
<1>4. CASE AddServer \/ SetPeers
  <2>1. UNCHANGED <<state, currentTerm, votedFor, tallyVars, voteCalls, heartbeats>>
    BY <1>4 DEF AddServer, SetPeers
  <2>2. SameRoles
    BY <2>1 DEF SameRoles, Active
  <2>3. \A j \in Server : GrantedTo(j)' = GrantedTo(j)
    BY <2>1 DEF GrantedTo
  <2>4. /\ FromCalls(voteCalls', voteCalls)
        /\ FromCalls({c \in heartbeats' : c.term # currentTerm'[c.caller]}, heartbeats)
    BY <2>1 DEF FromCalls
  <2>5. n' >= n /\ \A i \in Server : KnowsACluster(i)'
    BY <1>4, HarnessStep
  <2> QED BY <1>0, <2>1, <2>2, <2>3, <2>4, <2>5, QuietStep
<1>5. ASSUME NEW i \in Server, LeaderSendHeartbeats(i) PROVE ElectionInv'
  <2>1. UNCHANGED <<n, peers, state, currentTerm, votedFor, tallyVars, voteCalls>>
    BY <1>5 DEF LeaderSendHeartbeats, harnessVars
  <2>2. SameRoles
    BY <2>1 DEF SameRoles, Active
  <2>3. \A j \in Server : GrantedTo(j)' = GrantedTo(j)
    BY <2>1 DEF GrantedTo
  <2>4. FromCalls(voteCalls', voteCalls)
    BY <2>1 DEF FromCalls
  <2>5. FromCalls({c \in heartbeats' : c.term # currentTerm'[c.caller]}, heartbeats)
    <3>1. PICK targets \in SUBSET peers[i] :
              heartbeats' = heartbeats \cup NewCalls(i, targets, currentTerm[i], 0)
      BY <1>5 DEF LeaderSendHeartbeats
    <3>2. targets \in SUBSET Server /\ currentTerm[i] \in Nat
      BY DEF TypeOK
    <3>3. \A c \in NewCalls(i, targets, currentTerm[i], 0) :
              c.term = currentTerm[c.caller]
      BY <3>2, NewCallsOf
    <3> QED BY <2>1, <3>1, <3>3 DEF FromCalls
  <2> QED BY <1>0, <2>1, <2>2, <2>3, <2>4, <2>5, QuietStep
<1>6. ASSUME NEW c \in voteCalls, RequestVoteAtDead(c) PROVE ElectionInv'
  <2>1. /\ UNCHANGED <<n, peers, state, currentTerm, votedFor, tallyVars, heartbeats>>
        /\ voteCalls' = Answered(voteCalls, c, 0, FALSE)
    BY <1>6 DEF RequestVoteAtDead, harnessVars
  <2>2. SameRoles
    BY <2>1 DEF SameRoles, Active
  <2>3. \A d \in voteCalls' :
            \/ d \in voteCalls
            \/ /\ c.stage # "orphan" /\ d.stage = "reply" /\ d.granted = FALSE
               /\ d.caller = c.caller /\ d.peer = c.peer /\ d.term = c.term
               /\ d.size = c.size
    BY <2>1, AnsweredCall, ZenonT(90) DEF TypeOK
  <2>4. \A j \in Server : GrantedTo(j)' \subseteq GrantedTo(j)
    BY <2>1, <2>3 DEF GrantedTo
  <2>5. /\ FromCalls(voteCalls', voteCalls)
        /\ FromCalls({e \in heartbeats' : e.term # currentTerm'[e.caller]}, heartbeats)
    BY <2>1, <2>3 DEF FromCalls
  <2> QED BY <1>0, <2>1, <2>2, <2>4, <2>5, QuietStep
<1>7. ASSUME NEW c \in voteCalls, RequestVoteFails(c) PROVE ElectionInv'
  <2>1. /\ UNCHANGED <<n, peers, state, currentTerm, votedFor, tallyVars, heartbeats>>
        /\ voteCalls' \in GivenUp(voteCalls, {c}, MaxLateVotes)
    BY <1>7 DEF RequestVoteFails, harnessVars
  <2>2. SameRoles
    BY <2>1 DEF SameRoles, Active
  <2>3. \A d \in voteCalls' : d.stage # "orphan" => d \in voteCalls
    BY <2>1, GivenUpCalls DEF TypeOK
  <2>4. \A j \in Server : GrantedTo(j)' \subseteq GrantedTo(j)
    BY <2>1, <2>3 DEF GrantedTo
  <2>5. /\ FromCalls(voteCalls', voteCalls)
        /\ FromCalls({e \in heartbeats' : e.term # currentTerm'[e.caller]}, heartbeats)
    BY <2>1, <2>3 DEF FromCalls
  <2> QED BY <1>0, <2>1, <2>2, <2>4, <2>5, QuietStep
<1>8. ASSUME NEW c \in heartbeats, AppendEntries(c) PROVE ElectionInv'
  <2>1. c.peer \in Server /\ c.term \in Nat
    BY DEF TypeOK, Call
  <2>2. UNCHANGED <<harnessVars, tallyVars, voteCalls>>
    BY <1>8 DEF AppendEntries
  <2>3. SameRoles
    BY <1>8, <2>1 DEF AppendEntries, BecomeFollower, SameRoles, Active, TypeOK
  <2>4. FromCalls(heartbeats', heartbeats)
    <3>1. currentTerm'[c.peer] \in Nat
      BY <2>1 DEF TypeOK
    <3>2. PICK t \in Nat : heartbeats' = Answered(heartbeats, c, t, FALSE)
      BY <1>8, <3>1 DEF AppendEntries
    <3>3. \A d \in heartbeats' :
              \/ d \in heartbeats
              \/ /\ c.stage # "orphan"
                 /\ d.caller = c.caller /\ d.peer = c.peer /\ d.term = c.term
                 /\ d.size = c.size
      BY <3>2, AnsweredCall, ZenonT(30) DEF TypeOK
    <3> QED BY <3>3 DEF FromCalls
  <2> QED BY <1>0, <2>2, <2>3, <2>4, CallsUntouched
<1>9. ASSUME NEW c \in heartbeats, AppendEntriesAtDead(c) PROVE ElectionInv'
  <2>1. UNCHANGED <<harnessVars, state, currentTerm, votedFor, tallyVars, voteCalls>>
    BY <1>9 DEF AppendEntriesAtDead
  <2>2. SameRoles
    BY <2>1 DEF SameRoles, Active
  <2>3. FromCalls(heartbeats', heartbeats)
    BY <1>9, AnsweredCall, ZenonT(30) DEF AppendEntriesAtDead, FromCalls, TypeOK
  <2> QED BY <1>0, <2>1, <2>2, <2>3, CallsUntouched
<1>10. ASSUME NEW c \in heartbeats, HandleAppendReply(c) PROVE ElectionInv'
  <2>1. c.caller \in Server
    BY DEF TypeOK, Call
  <2>2. UNCHANGED <<harnessVars, tallyVars, voteCalls>>
    BY <1>10 DEF HandleAppendReply
  <2>3. SameRoles
    BY <1>10, <2>1 DEF HandleAppendReply, BecomeFollower, SameRoles, Active, TypeOK
  <2>4. FromCalls(heartbeats', heartbeats)
    BY <1>10 DEF HandleAppendReply, FromCalls
  <2> QED BY <1>0, <2>2, <2>3, <2>4, CallsUntouched
<1>11. ASSUME NEW c \in heartbeats, AppendEntriesFails(c) PROVE ElectionInv'
  <2>1. UNCHANGED <<harnessVars, state, currentTerm, votedFor, tallyVars, voteCalls>>
    BY <1>11 DEF AppendEntriesFails
  <2>2. SameRoles
    BY <2>1 DEF SameRoles, Active
  <2>3. FromCalls(heartbeats', heartbeats)
    BY <1>11, GivenUpCalls DEF AppendEntriesFails, FromCalls, TypeOK
  <2> QED BY <1>0, <2>1, <2>2, <2>3, CallsUntouched
<1>12. ASSUME NEW i \in Server, Stop(i) PROVE ElectionInv'
  <2>1. UNCHANGED <<harnessVars, tallyVars, voteCalls>>
    BY <1>12 DEF Stop
  <2>2. SameRoles
    BY <1>12 DEF Stop, SameRoles, Active, TypeOK
  <2>3. FromCalls(heartbeats', heartbeats)
    BY <1>12 DEF Stop, FromCalls
  <2> QED BY <1>0, <2>1, <2>2, <2>3, CallsUntouched
<1>13. CASE UNCHANGED <<harnessVars, state, currentTerm, votedFor, tallyVars,
                        voteCalls, heartbeats>>
  <2>1. SameRoles
    BY <1>13 DEF SameRoles, Active
  <2>2. FromCalls(heartbeats', heartbeats)
    BY <1>13 DEF FromCalls
  <2> QED BY <1>0, <1>13, <2>1, <2>2, CallsUntouched
<1> QED
  BY <1>1, <1>2, <1>3, <1>4, <1>5, <1>6, <1>7, <1>8, <1>9, <1>10, <1>11, <1>12,
     <1>13
  DEF Next, vars, StopReturns

(* The election invariant holds in every reachable state, however many        *)
(* servers are added, if replies are prompt.                                  *)
THEOREM ElectionInvariant == ASSUME PromptReplies PROVE Spec => []ElectionInv
<1>1. Init => ElectionInv
  <2> SUFFICES ASSUME Init PROVE ElectionInv
    OBVIOUS
  <2>1. \A i \in Server : ~Active(i)
    BY DEF Init, Active
  <2>2. ASSUME NEW i \in Server PROVE KnowsACluster(i)
    <3>1. Initial \in Initial..n /\ i \in Int
      BY MembershipAssumption DEF Init, Server
    <3> QED BY <2>1, <3>1 DEF Init, KnowsACluster
  <2> QED BY <2>1, <2>2 DEF ElectionInv, SupportersPledged, CountedInOwnCluster,
                            NoStaleCalls, NoCommonSupporter
<1>2. TypeOK /\ TypeOK' /\ ElectionInv /\ [Next]_vars => ElectionInv'
  BY ElectionInvStep
<1> QED BY <1>1, <1>2, TypeCorrect, PTL DEF Spec

(* What two leaders of one term need: majorities that do not meet, so the     *)
(* clusters of their elections differ by two servers at least.                *)
LEMMA InvSeparatesLeaders ==
    ASSUME TypeOK, ElectionInv, NEW i \in Server, NEW j \in Server, i # j,
           state[i] = "Leader", state[j] = "Leader",
           currentTerm[i] = currentTerm[j], clusterSize[i] <= clusterSize[j]
    PROVE  /\ clusterSize[i] + 2 <= clusterSize[j]
           /\ clusterSize[i] \in Initial..n /\ clusterSize[j] \in Initial..n
<1> DEFINE U == 0..(clusterSize[j] - 1)
           A == Voters(i)
           B == Voters(j)
<1>1. /\ clusterSize[i] \in Initial..n /\ clusterSize[j] \in Initial..n
      /\ Supporters(i) \subseteq 0..(clusterSize[i] - 1)
      /\ Supporters(j) \subseteq 0..(clusterSize[j] - 1)
      /\ 2 * Cardinality(A) > clusterSize[i] /\ 2 * Cardinality(B) > clusterSize[j]
      /\ Supporters(i) \cap Supporters(j) = {}
  BY DEF ElectionInv, CountedInOwnCluster, NoCommonSupporter, Active
<1>2. /\ clusterSize[i] \in Nat /\ clusterSize[j] \in Nat
      /\ 0..(clusterSize[i] - 1) \subseteq U
  BY <1>1, MembershipAssumption DEF TypeOK
<1>3. A \in SUBSET U /\ B \in SUBSET U /\ A \cap B = {}
  BY <1>1, <1>2, SupportersAre
<1>4. IsFiniteSet(U) /\ Cardinality(U) = clusterSize[j]
  <2>1. 0 \in Int /\ clusterSize[j] - 1 \in Int
        /\ (0 > clusterSize[j] - 1 => clusterSize[j] = 0)
        /\ clusterSize[j] - 1 - 0 + 1 = clusterSize[j]
    BY <1>2
  <2> QED BY <2>1, FS_Interval
<1>5. /\ IsFiniteSet(A) /\ IsFiniteSet(B) /\ IsFiniteSet(A \cup B)
      /\ Cardinality(A \cup B) <= Cardinality(U)
  <2>1. A \cup B \in SUBSET U
    BY <1>3
  <2> HIDE DEF A, B, U
  <2> QED BY <1>3, <1>4, <2>1, FS_Subset
<1>6. /\ Cardinality(A) \in Nat /\ Cardinality(B) \in Nat
      /\ Cardinality(A \cup B) = Cardinality(A) + Cardinality(B)
  <2> HIDE DEF A, B, U
  <2>1. Cardinality(A) \in Nat /\ Cardinality(B) \in Nat
    BY <1>5, FS_CardinalityType
  <2>2. Cardinality(A \cup B)
            = Cardinality(A) + Cardinality(B) - Cardinality(A \cap B)
    BY <1>5, FS_Union
  <2>3. Cardinality(A \cap B) = 0
    BY <1>3, FS_EmptySet
  <2> QED BY <2>1, <2>2, <2>3
<1> HIDE DEF A, B, U
<1>7. clusterSize[i] + 2 <= clusterSize[j]
  BY <1>1, <1>2, <1>4, <1>5, <1>6
<1> QED BY <1>1, <1>7

(* With prompt replies two leaders of one term can only come of elections in  *)
(* clusters that differ by two servers at least.                              *)
THEOREM LeadersOfOneTerm ==
    ASSUME PromptReplies PROVE
    Spec => [](\A i, j \in Server :
        state[i] = "Leader" /\ state[j] = "Leader" /\ i # j
        /\ currentTerm[i] = currentTerm[j]
            => \/ clusterSize[i] + 2 <= clusterSize[j]
               \/ clusterSize[j] + 2 <= clusterSize[i])
<1> DEFINE Apart == \A i, j \in Server :
        state[i] = "Leader" /\ state[j] = "Leader" /\ i # j
        /\ currentTerm[i] = currentTerm[j]
            => \/ clusterSize[i] + 2 <= clusterSize[j]
               \/ clusterSize[j] + 2 <= clusterSize[i]
<1>1. ASSUME TypeOK, ElectionInv PROVE Apart
  <2> SUFFICES ASSUME NEW i \in Server, NEW j \in Server, i # j,
                      state[i] = "Leader", state[j] = "Leader",
                      currentTerm[i] = currentTerm[j]
               PROVE  \/ clusterSize[i] + 2 <= clusterSize[j]
                      \/ clusterSize[j] + 2 <= clusterSize[i]
    OBVIOUS
  <2>1. clusterSize[i] <= clusterSize[j] \/ clusterSize[j] <= clusterSize[i]
    BY <1>1 DEF TypeOK
  <2> QED BY <1>1, <2>1, InvSeparatesLeaders
<1> QED BY <1>1, ElectionInvariant, TypeCorrect, PTL

(* With prompt replies, and while at most one server is added to the initial  *)
(* ones, no term has two leaders: two neighbouring cluster sizes have no      *)
(* disjoint majorities.                                                       *)
THEOREM ElectionSafe ==
    ASSUME PromptReplies, MaxServers <= Initial + 1 PROVE Spec => []ElectionSafety
<1>1. ASSUME TypeOK, ElectionInv PROVE ElectionSafety
  <2> SUFFICES ASSUME NEW i \in Server, NEW j \in Server, i # j,
                      state[i] = "Leader", state[j] = "Leader",
                      currentTerm[i] = currentTerm[j]
               PROVE  FALSE
    BY DEF ElectionSafety
  <2>1. /\ clusterSize[i] \in Nat /\ clusterSize[j] \in Nat
        /\ n \in Int /\ n <= Initial + 1 /\ Initial \in Nat
    BY <1>1, MembershipAssumption DEF TypeOK
  <2>2. CASE clusterSize[i] <= clusterSize[j]
    <3>1. /\ clusterSize[i] + 2 <= clusterSize[j]
          /\ clusterSize[i] \in Initial..n /\ clusterSize[j] \in Initial..n
      BY <1>1, <2>2, InvSeparatesLeaders
    <3> QED BY <2>1, <3>1
  <2>3. CASE clusterSize[j] <= clusterSize[i]
    <3>1. /\ clusterSize[j] + 2 <= clusterSize[i]
          /\ clusterSize[j] \in Initial..n /\ clusterSize[i] \in Initial..n
      BY <1>1, <2>3, InvSeparatesLeaders
    <3> QED BY <2>1, <3>1
  <2> QED BY <2>1, <2>2, <2>3
<1> QED BY <1>1, ElectionInvariant, TypeCorrect, PTL

(* With prompt replies no server's term ever decreases.                       *)
THEOREM TermsNeverDecrease == ASSUME PromptReplies PROVE Spec => TermMonotone
<1>1. TypeOK /\ ElectionInv /\ [Next]_vars
        => [\A i \in Server : currentTerm'[i] >= currentTerm[i]]_vars
  BY NextVoteStep DEF VoteStep
<1> QED BY <1>1, ElectionInvariant, TypeCorrect, PTL DEF Spec, TermMonotone
=============================================================================
