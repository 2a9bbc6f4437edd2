--------------------------- MODULE Harness_proofs ---------------------------
(***************************************************************************)
(* Theorems about Part 1's servers in their test harness. Every step is    *)
(* one of the servers, with the harness as it was, or one of the harness.  *)
(***************************************************************************)
EXTENDS Harness, FiniteSetTheorems, SequenceTheorems, TLAPS

-----------------------------------------------------------------------------
(* Calls that are given up end, or live on as orphans.                     *)
LEMMA GivenUpCalls ==
    ASSUME TypeOK, NEW gone \in SUBSET calls, NEW rest \in GivenUp(gone)
    PROVE  rest \subseteq Call
<1>1. \A c \in Call : [c EXCEPT !.stage = "orphan"] \in Call
  BY DEF Call
<1>2. calls \subseteq Call
  BY DEF TypeOK
<1>3. {[c EXCEPT !.stage = "orphan"] : c \in {d \in gone : d.stage = "request"}} \subseteq Call
  BY <1>1, <1>2
<1> QED BY <1>2, <1>3 DEF GivenUp

LEMMA NewCallsTyped ==
    ASSUME NEW kind \in {"RequestVote", "AppendEntries"}, NEW i \in Server,
           NEW targets \in SUBSET Server, NEW term \in Nat
    PROVE  NewCalls(kind, i, targets, term) \subseteq Call
<1>1. ASSUME NEW p \in Server PROVE NewCall(kind, i, p, term) \in Call
  BY DEF NewCall, ZeroReply, Call
<1> QED BY <1>1 DEF NewCalls

LEMMA AnswerTyped ==
    ASSUME TypeOK, NEW c \in calls,
           NEW reply \in [term : Nat, ok : BOOLEAN], Answer(c, reply)
    PROVE  calls' \subseteq Call
<1>1. calls \subseteq Call
  BY DEF TypeOK
<1>2. [c EXCEPT !.stage = "reply", !.reply = reply] \in Call
  BY <1>1 DEF Call
<1> QED BY <1>1, <1>2 DEF Answer

(* Adding a timer to a bag of them, and taking one out.                    *)
LEMMA TimerAdded ==
    ASSUME NEW B, IsABag(B), BagToSet(B) \subseteq Nat, NEW t \in Nat
    PROVE  /\ IsABag(B (+) SetToBag({t})) /\ BagToSet(B (+) SetToBag({t})) \subseteq Nat
           /\ BagIn(t, B (+) SetToBag({t}))
           /\ \A u : BagIn(u, B) => BagIn(u, B (+) SetToBag({t}))
BY DEF IsABag, BagIn, BagToSet, SetToBag, (+)

LEMMA TimerRemoved ==
    ASSUME NEW B, IsABag(B), BagToSet(B) \subseteq Nat, NEW t, BagIn(t, B)
    PROVE  /\ IsABag(B (-) SetToBag({t})) /\ BagToSet(B (-) SetToBag({t})) \subseteq Nat
           /\ \A u : u # t /\ BagIn(u, B) => BagIn(u, B (-) SetToBag({t}))
BY DEF IsABag, BagIn, BagToSet, SetToBag, (-)

-----------------------------------------------------------------------------
(* A server that starts to follow.                                         *)
LEMMA FollowerTyped ==
    ASSUME TypeOK, NEW i \in Server, NEW term \in Nat, BecomeFollower(i, term)
    PROVE  /\ state' \in [Server -> {"Follower", "Candidate", "Leader", "Dead"}]
           /\ currentTerm' \in [Server -> Nat]
           /\ votedFor' \in [Server -> Server \cup {Nobody}]
           /\ starting' \in [Server -> Nat]
BY DEF TypeOK, BecomeFollower, TimersAfter

(* The timers of one server change.                                         *)
LEMMA TimersTypedAfter ==
    ASSUME TypeOK, NEW i \in Server, NEW B, IsABag(B), BagToSet(B) \subseteq Nat,
           timers' = [timers EXCEPT ![i] = B]
    PROVE  /\ timers' = [j \in Server |-> timers'[j]]
           /\ \A j \in Server : IsABag(timers'[j]) /\ BagToSet(timers'[j]) \subseteq Nat
<1>1. /\ timers = [j \in Server |-> timers[j]]
      /\ \A j \in Server : IsABag(timers[j]) /\ BagToSet(timers[j]) \subseteq Nat
  BY DEF TypeOK
<1>2. timers' = [j \in Server |-> IF j = i THEN B ELSE timers[j]]
  BY <1>1
<1> QED BY <1>1, <1>2

StatesTyped ==
    /\ state \in [Server -> {"Follower", "Candidate", "Leader", "Dead"}]
    /\ currentTerm \in [Server -> Nat]
    /\ votedFor \in [Server -> Server \cup {Nobody}]
    /\ starting \in [Server -> Nat]
TimersTyped ==
    /\ timers = [j \in Server |-> timers[j]]
    /\ \A j \in Server : IsABag(timers[j]) /\ BagToSet(timers[j]) \subseteq Nat
TalliesTyped ==
    elections \in [Server -> Nat] /\ votesReceived \in [Server -> SUBSET Server]

(* The steps of the servers keep the types.                                *)
LEMMA ServersTyped == TypeOK /\ [Next]_vars => TypeOK'
<1> SUFFICES ASSUME TypeOK, [Next]_vars PROVE TypeOK'
  OBVIOUS
<1>0. /\ UNCHANGED <<serverVars, starting>> => StatesTyped'
      /\ UNCHANGED timers => TimersTyped'
      /\ UNCHANGED <<elections, votesReceived>> => TalliesTyped'
      /\ UNCHANGED calls => calls' \subseteq Call
      /\ UNCHANGED clients => clients' \subseteq Links
      /\ calls \subseteq Call
  BY DEF TypeOK, serverVars, StatesTyped, TimersTyped, TalliesTyped
<1> SUFFICES /\ StatesTyped' /\ TimersTyped' /\ TalliesTyped'
             /\ calls' \subseteq Call /\ clients' \subseteq Links
  BY DEF TypeOK, StatesTyped, TimersTyped, TalliesTyped
<1> DEFINE Typed == /\ StatesTyped' /\ TimersTyped' /\ TalliesTyped'
                    /\ calls' \subseteq Call /\ clients' \subseteq Links
<1>1. ASSUME NEW i \in Server, TimerStart(i) PROVE Typed
  <2>1. StatesTyped'
    BY <1>1 DEF TimerStart, TypeOK, serverVars, StatesTyped
  <2>2. currentTerm[i] \in Nat /\ IsABag(timers[i]) /\ BagToSet(timers[i]) \subseteq Nat
    BY DEF TypeOK
  <2>3. PICK B : B = timers[i] (+) SetToBag({currentTerm[i]})
    OBVIOUS
  <2>4. IsABag(B) /\ BagToSet(B) \subseteq Nat
    BY <2>2, <2>3, TimerAdded
  <2>5. timers' = [timers EXCEPT ![i] = B]
    BY <1>1, <2>3 DEF TimerStart
  <2>6. TimersTyped'
    BY <2>4, <2>5, TimersTypedAfter DEF TimersTyped
  <2> QED BY <1>0, <1>1, <2>1, <2>6 DEF TimerStart
<1>2. ASSUME NEW i \in Server, NEW term, TimerBailsOut(i, term) PROVE Typed
  <2>1. BagIn(term, timers[i]) /\ IsABag(timers[i]) /\ BagToSet(timers[i]) \subseteq Nat
    BY <1>2 DEF TypeOK, TimerBailsOut
  <2>2. PICK B : B = timers[i] (-) SetToBag({term})
    OBVIOUS
  <2>3. IsABag(B) /\ BagToSet(B) \subseteq Nat
    BY <2>1, <2>2, TimerRemoved
  <2>4. timers' = [timers EXCEPT ![i] = B]
    BY <1>2, <2>2 DEF TimerBailsOut
  <2>5. TimersTyped'
    BY <2>3, <2>4, TimersTypedAfter DEF TimersTyped
  <2> QED BY <1>0, <1>2, <2>5 DEF TimerBailsOut
<1>3. ASSUME NEW i \in Server, ElectionTimeout(i) PROVE Typed
  <2>1. StatesTyped'
    BY <1>3 DEF ElectionTimeout, TypeOK, StatesTyped
  <2>2. /\ BagIn(currentTerm[i], timers[i]) /\ currentTerm[i] + 1 \in Nat
        /\ IsABag(timers[i]) /\ BagToSet(timers[i]) \subseteq Nat
    BY <1>3 DEF TypeOK, ElectionTimeout
  <2>3. PICK B : B = timers[i] (-) SetToBag({currentTerm[i]})
    OBVIOUS
  <2>4. IsABag(B) /\ BagToSet(B) \subseteq Nat
    BY <2>2, <2>3, TimerRemoved
  <2>5. timers' = [timers EXCEPT ![i] = B]
    BY <1>3, <2>3 DEF ElectionTimeout
  <2>6. TimersTyped'
    BY <2>4, <2>5, TimersTypedAfter DEF TimersTyped
  <2>7. TalliesTyped'
    BY <1>3 DEF ElectionTimeout, TypeOK, TalliesTyped
  <2>8. PICK rest \in GivenUp(Own(i)) : calls' = rest \cup
              NewCalls("RequestVote", i, Peers(i), currentTerm[i] + 1)
    BY <1>3 DEF ElectionTimeout
  <2>9. rest \subseteq Call
    BY GivenUpCalls DEF Own
  <2>10. NewCalls("RequestVote", i, Peers(i), currentTerm[i] + 1) \subseteq Call
    BY <2>2, NewCallsTyped DEF Peers
  <2> QED BY <1>0, <1>3, <2>1, <2>6, <2>7, <2>8, <2>9, <2>10 DEF ElectionTimeout
<1>4. ASSUME NEW i \in Server, LeaderSendHeartbeats(i) PROVE Typed
  <2>1. PICK targets \in SUBSET Server :
           calls' = calls \cup NewCalls("AppendEntries", i, targets, currentTerm[i])
    <3>1. \A S : Peers(i) \ S \in SUBSET Server
      BY DEF Peers
    <3> QED BY <1>4, <3>1 DEF LeaderSendHeartbeats
  <2>2. NewCalls("AppendEntries", i, targets, currentTerm[i]) \subseteq Call
    BY NewCallsTyped DEF TypeOK
  <2> QED BY <1>0, <1>4, <2>1, <2>2 DEF LeaderSendHeartbeats, timerVars, serverVars
<1>5. ASSUME NEW c \in calls, RequestVote(c) PROVE Typed
  <2>1. c.peer \in Server /\ c.caller \in Server /\ c.term \in Nat
    BY <1>0 DEF Call
  <2>2. StatesTyped'
    BY <1>5, <2>1 DEF RequestVote, TimersAfter, TypeOK, StatesTyped
  <2>3. PICK granted \in BOOLEAN :
            Answer(c, [term |-> currentTerm'[c.peer], ok |-> granted])
    BY <1>5 DEF RequestVote
  <2>4. [term |-> currentTerm'[c.peer], ok |-> granted] \in [term : Nat, ok : BOOLEAN]
    BY <2>1, <2>2 DEF StatesTyped
  <2>5. calls' \subseteq Call
    BY <2>3, <2>4, AnswerTyped
  <2> QED BY <1>0, <1>5, <2>2, <2>5 DEF RequestVote
<1>6. ASSUME NEW c \in calls, AppendEntries(c) PROVE Typed
  <2>1. c.peer \in Server /\ c.term \in Nat
    BY <1>0 DEF Call
  <2>2. StatesTyped'
    <3>1. CASE BecomeFollower(c.peer, c.term)
      BY <2>1, <3>1, FollowerTyped DEF StatesTyped
    <3> QED BY <1>0, <1>6, <3>1 DEF AppendEntries
  <2> DEFINE success == c.term >= currentTerm[c.peer]
  <2>3. Answer(c, [term |-> currentTerm'[c.peer], ok |-> success]) /\ success \in BOOLEAN
    BY <1>6 DEF AppendEntries
  <2> HIDE DEF success
  <2>4. [term |-> currentTerm'[c.peer], ok |-> success] \in [term : Nat, ok : BOOLEAN]
    BY <2>1, <2>2, <2>3 DEF StatesTyped
  <2>5. calls' \subseteq Call
    BY <2>3, <2>4, AnswerTyped
  <2> QED BY <1>0, <1>6, <2>2, <2>5 DEF AppendEntries
<1>7. ASSUME NEW c \in calls, AnsweredByDead(c) PROVE Typed
  <2>1. calls' \subseteq Call
    BY <1>7, AnswerTyped DEF AnsweredByDead, ZeroReply
  <2> QED BY <1>0, <1>7, <2>1 DEF AnsweredByDead, timerVars, serverVars
<1>8. ASSUME NEW c \in calls, RPCProxyDrops(c) PROVE Typed
  BY <1>0, <1>8 DEF RPCProxyDrops, timerVars, serverVars
<1>9. ASSUME NEW c \in calls, HandleVoteReply(c) PROVE Typed
  <2>1. c.caller \in Server /\ c.peer \in Server /\ c.reply.term \in Nat
    BY <1>0 DEF Call
  <2>2. calls' \subseteq Call
    BY <1>0, <1>9 DEF HandleVoteReply
  <2>3. CASE BecomeFollower(c.caller, c.reply.term) /\ UNCHANGED votesReceived
    <3>1. StatesTyped'
      BY <2>1, <2>3, FollowerTyped DEF StatesTyped
    <3> QED BY <1>0, <1>9, <2>2, <2>3, <3>1 DEF HandleVoteReply
  <2>4. ASSUME NEW counted, NEW s \in {"Leader", state[c.caller]},
               counted = votesReceived[c.caller] \cup {c.peer},
               votesReceived' = [votesReceived EXCEPT ![c.caller] = counted],
               state' = [state EXCEPT ![c.caller] = s],
               UNCHANGED <<currentTerm, votedFor, starting>>
        PROVE  Typed
    <3>1. StatesTyped' /\ votesReceived' \in [Server -> SUBSET Server]
      BY <2>1, <2>4 DEF TypeOK, StatesTyped
    <3> QED BY <1>0, <1>9, <2>2, <3>1 DEF HandleVoteReply, TypeOK, TalliesTyped
  <2>5. CASE UNCHANGED <<serverVars, starting, votesReceived>>
    BY <1>0, <1>9, <2>2, <2>5 DEF HandleVoteReply
  <2> QED BY <1>9, <2>3, <2>4, <2>5 DEF HandleVoteReply
<1>10. ASSUME NEW c \in calls, HandleAppendReply(c) PROVE Typed
  <2>1. c.caller \in Server /\ c.reply.term \in Nat
    BY <1>0 DEF Call
  <2>2. CASE BecomeFollower(c.caller, c.reply.term)
    <3>1. StatesTyped'
      BY <2>1, <2>2, FollowerTyped DEF StatesTyped
    <3> QED BY <1>0, <1>10, <3>1 DEF HandleAppendReply
  <2>3. CASE UNCHANGED <<serverVars, starting>>
    BY <1>0, <1>10, <2>3 DEF HandleAppendReply
  <2> QED BY <1>10, <2>2, <2>3 DEF HandleAppendReply
<1>11. CASE UNCHANGED vars
  BY <1>0, <1>11 DEF vars, timerVars, serverVars
<1>12. ASSUME NEW c \in calls, GetClient(c) PROVE Typed
  <2>1. [c EXCEPT !.stage = "request"] \in Call
    BY <1>0 DEF Call
  <2> QED BY <1>0, <1>12, <2>1 DEF GetClient, timerVars, serverVars
<1> QED BY <1>1, <1>2, <1>3, <1>4, <1>5, <1>6, <1>7, <1>8, <1>9, <1>10, <1>11, <1>12 DEF Next

-----------------------------------------------------------------------------
(* Why the flags are honest. Disconnecting id closes clients from and to   *)
(* id only; reconnecting it has opened the clients that are not in a step  *)
(* still to come. No operation has run out of steps, and a server that is  *)
(* shut down is still in the list.                                         *)
Linked(S) == \A i, j \in S : i # j => <<i, j>> \in clients

StepsLeft ==
    /\ op.do \in {"disconnect", "reconnect"} => op.id \in Server
    /\ op.do \in {"disconnect", "reconnect", "shutdown"} => op.todo # <<>>
    /\ op.do \in {"stop", "wait"} => toStop # <<>>

Disconnecting ==
    op.do = "disconnect" =>
        /\ Linked(connected \ {op.id})
        /\ \A k \in 1..Len(op.todo) : \A l \in op.todo[k] : op.id \in {l[1], l[2]}

ToCome(l) == \E k \in 1..Len(op.todo) : l \in op.todo[k]

Reconnecting ==
    op.do = "reconnect" =>
        /\ Linked(connected)
        /\ \A p \in Peers(op.id) : \A l \in {<<op.id, p>>, <<p, op.id>>} :
              l \in clients \/ ToCome(l)

FlagsInv ==
    /\ op.do = "idle" => Linked(connected)
    /\ Disconnecting
    /\ Reconnecting

HarnessInv == HarnessTypeOK /\ StepsLeft /\ FlagsInv

LEMMA AllServers == AllInOrder \in Seq(Server) /\ AllInOrder # <<>>
<1>1. NumServers - 1 \in Nat /\ NumServers \in Nat /\ Server = 0..(NumServers - 1)
  BY HarnessAssumption, ElectionAssumption, FS_CardinalityType DEF NumServers
<1>2. \A k \in 1..NumServers : k - 1 \in Server
  BY <1>1
<1>3. AllInOrder \in [1..NumServers -> Server]
  BY <1>2 DEF AllInOrder
<1>4. AllInOrder \in Seq(Server) /\ Len(AllInOrder) = NumServers
  BY <1>1, <1>3, LenProperties
<1>5. Len(AllInOrder) # 0
  BY <1>1, <1>4, HarnessAssumption
<1> QED BY <1>4, <1>5, EmptySeq

LEMMA OthersAreServers ==
    ASSUME NEW id \in Server, NEW k \in 1..(NumServers - 1)
    PROVE  OthersInOrder(id)[k] \in Peers(id)
<1>1. NumServers \in Nat /\ Server = 0..(NumServers - 1)
  BY HarnessAssumption, ElectionAssumption, FS_CardinalityType DEF NumServers
<1>2. OthersInOrder(id)[k] = IF k <= id THEN k - 1 ELSE k
  BY DEF OthersInOrder
<1> QED BY <1>1, <1>2 DEF Peers

(* Each other server has its turn.                                         *)
LEMMA OthersAreAll ==
    ASSUME NEW id \in Server, NEW p \in Peers(id)
    PROVE  \E k \in 1..(NumServers - 1) : OthersInOrder(id)[k] = p
<1>1. NumServers \in Nat /\ Server = 0..(NumServers - 1)
  BY HarnessAssumption, ElectionAssumption, FS_CardinalityType DEF NumServers
<1>2. CASE p < id
  <2>1. p + 1 \in 1..(NumServers - 1) /\ p + 1 <= id
    BY <1>1, <1>2 DEF Peers
  <2>2. OthersInOrder(id)[p + 1] = (p + 1) - 1
    BY <2>1 DEF OthersInOrder
  <2> QED BY <1>1, <2>1, <2>2 DEF Peers
<1>3. CASE p > id
  <2>1. p \in 1..(NumServers - 1) /\ ~(p <= id)
    BY <1>1, <1>3 DEF Peers
  <2> QED BY <2>1 DEF OthersInOrder
<1> QED BY <1>1, <1>2, <1>3 DEF Peers

(* A function on 1..n is a sequence of length n.                           *)
LEMMA FunctionIsSeq ==
    ASSUME NEW S, NEW n \in Nat, NEW f \in [1..n -> S]
    PROVE  f \in Seq(S) /\ Len(f) = n /\ (n > 0 => f # <<>>)
<1>1. f \in Seq(S) /\ Len(f) = n
  BY LenProperties
<1> QED BY <1>1, EmptySeq

LEMMA DisconnectStepsLeft ==
    ASSUME NEW id \in Server
    PROVE  /\ DisconnectSteps(id) \in Seq(SUBSET Links) /\ DisconnectSteps(id) # <<>>
           /\ \A k \in 1..Len(DisconnectSteps(id)) :
                 \A l \in DisconnectSteps(id)[k] : id \in {l[1], l[2]}
<1>1. NumServers \in Nat /\ NumServers > 1
  BY HarnessAssumption, ElectionAssumption, FS_CardinalityType DEF NumServers
<1>2. \A l \in AllOf(id) : l \in Links /\ id \in {l[1], l[2]}
  BY DEF AllOf, Links, Peers
<1>3. ASSUME NEW k \in 1..NumServers, k # 1
      PROVE  \A l \in {<<OthersInOrder(id)[k - 1], id>>} : l \in Links /\ id \in {l[1], l[2]}
  <2>1. k - 1 \in 1..(NumServers - 1)
    BY <1>1, <1>3
  <2>2. OthersInOrder(id)[k - 1] \in Peers(id)
    BY <2>1, OthersAreServers
  <2> QED BY <2>2 DEF Links, Peers
<1>4. \A k \in 1..NumServers : \A l \in DisconnectSteps(id)[k] :
          l \in Links /\ id \in {l[1], l[2]}
  <2> SUFFICES ASSUME NEW k \in 1..NumServers, NEW l \in DisconnectSteps(id)[k]
               PROVE  l \in Links /\ id \in {l[1], l[2]}
    OBVIOUS
  <2>1. DisconnectSteps(id)[k] = IF k = 1 THEN AllOf(id)
                                          ELSE {<<OthersInOrder(id)[k - 1], id>>}
    BY DEF DisconnectSteps
  <2>2. CASE k = 1
    BY <1>2, <2>1, <2>2
  <2>3. CASE k # 1
    BY <1>3, <2>1, <2>3
  <2> QED BY <2>2, <2>3
<1>5. DisconnectSteps(id) \in [1..NumServers -> SUBSET Links]
  <2>1. DisconnectSteps(id) = [k \in 1..NumServers |-> DisconnectSteps(id)[k]]
    BY DEF DisconnectSteps
  <2> QED BY <1>4, <2>1
<1> QED BY <1>1, <1>4, <1>5, FunctionIsSeq

(* ReconnectPeer opens both clients of each pair.                          *)
LEMMA ReconnectStepsLeft ==
    ASSUME NEW id \in Server
    PROVE  /\ ReconnectSteps(id) \in Seq(SUBSET Links) /\ ReconnectSteps(id) # <<>>
           /\ \A p \in Peers(id) : \A l \in {<<id, p>>, <<p, id>>} :
                 \E k \in 1..Len(ReconnectSteps(id)) : l \in ReconnectSteps(id)[k]
<1>1. NumServers \in Nat /\ NumServers > 1
  BY HarnessAssumption, ElectionAssumption, FS_CardinalityType DEF NumServers
<1>2. PICK n \in Nat : n = 2 * (NumServers - 1) /\ n > 0
  BY <1>1
<1>3. ASSUME NEW k \in 1..n
      PROVE  ReconnectSteps(id)[k] =
                 IF k % 2 = 1 THEN {<<id, OthersInOrder(id)[(k + 1) \div 2]>>}
                              ELSE {<<OthersInOrder(id)[(k + 1) \div 2], id>>}
  BY <1>2 DEF ReconnectSteps
<1>4. ReconnectSteps(id) \in [1..n -> SUBSET Links]
  <2>1. ReconnectSteps(id) = [k \in 1..n |-> ReconnectSteps(id)[k]]
    BY <1>2 DEF ReconnectSteps
  <2>2. ASSUME NEW k \in 1..n PROVE ReconnectSteps(id)[k] \subseteq Links
    <3>1. (k + 1) \div 2 \in 1..(NumServers - 1)
      BY <1>1, <1>2
    <3>2. PICK p \in Peers(id) : p = OthersInOrder(id)[(k + 1) \div 2]
      BY <3>1, OthersAreServers
    <3>3. <<id, p>> \in Links /\ <<p, id>> \in Links
      BY DEF Links, Peers
    <3>4. ReconnectSteps(id)[k] = {<<id, p>>} \/ ReconnectSteps(id)[k] = {<<p, id>>}
      BY <1>3, <3>2
    <3> QED BY <3>3, <3>4
  <2> QED BY <2>1, <2>2
<1>5. ReconnectSteps(id) \in Seq(SUBSET Links) /\ Len(ReconnectSteps(id)) = n
      /\ ReconnectSteps(id) # <<>>
  BY <1>2, <1>4, FunctionIsSeq
<1>6. ASSUME NEW p \in Peers(id)
      PROVE  \A l \in {<<id, p>>, <<p, id>>} :
                 \E k \in 1..n : l \in ReconnectSteps(id)[k]
  <2>1. PICK m \in 1..(NumServers - 1) : OthersInOrder(id)[m] = p
    BY OthersAreAll
  <2>2. /\ 2 * m - 1 \in 1..n /\ (2 * m - 1) % 2 = 1 /\ ((2 * m - 1) + 1) \div 2 = m
        /\ 2 * m \in 1..n /\ (2 * m) % 2 = 0 /\ (2 * m + 1) \div 2 = m
    BY <1>1, <1>2
  <2>3. ReconnectSteps(id)[2 * m - 1] = {<<id, p>>}
    BY <1>3, <2>1, <2>2
  <2>4. ReconnectSteps(id)[2 * m] = {<<p, id>>}
    <3>1. PICK k \in 1..n : k = 2 * m /\ k % 2 # 1 /\ (k + 1) \div 2 = m
      BY <2>2
    <3> QED BY <1>3, <2>1, <3>1
  <2>5. <<id, p>> \in ReconnectSteps(id)[2 * m - 1] /\ <<p, id>> \in ReconnectSteps(id)[2 * m]
    BY <2>3, <2>4
  <2>6. /\ \E k \in 1..n : <<id, p>> \in ReconnectSteps(id)[k]
        /\ \E k \in 1..n : <<p, id>> \in ReconnectSteps(id)[k]
    BY <2>2, <2>5
  <2> QED BY <2>6
<1> QED BY <1>5, <1>6

LEMMA ShutdownStepsLeft ==
    ShutdownSteps \in Seq(SUBSET Links) /\ ShutdownSteps # <<>>
<1>1. NumServers \in Nat /\ NumServers > 1 /\ AllInOrder \in Seq(Server)
  BY HarnessAssumption, ElectionAssumption, FS_CardinalityType, AllServers DEF NumServers
<1>2. DOMAIN AllInOrder = 1..NumServers
  BY DEF AllInOrder
<1>3. \A i \in Server : AllOf(i) \in SUBSET Links
  BY DEF AllOf, Links, Peers
<1>4. \A k \in 1..NumServers : AllInOrder[k] \in Server
  <2>1. Len(AllInOrder) = NumServers
    BY <1>1, <1>2, LenProperties
  <2> QED BY <1>1, <2>1, ElementOfSeq
<1>5. ShutdownSteps \in [1..NumServers -> SUBSET Links]
  BY <1>2, <1>3, <1>4 DEF ShutdownSteps
<1> QED BY <1>1, <1>5, FunctionIsSeq

(* What is left of a sequence of steps.                                    *)
LEMMA TailLeft ==
    ASSUME NEW S, NEW s \in Seq(S), s # <<>>
    PROVE  /\ Tail(s) \in Seq(S) /\ Head(s) \in S /\ Len(s) \in Nat /\ Len(s) > 0
           /\ Head(s) = s[1] /\ Len(Tail(s)) = Len(s) - 1
           /\ \A k \in 1..(Len(s) - 1) : Tail(s)[k] = s[k + 1]
           /\ Tail(s) = <<>> <=> Len(s) = 1
<1>1. Len(s) \in Nat /\ Len(s) > 0
  BY EmptySeq, LenProperties
<1>2. /\ Tail(s) \in Seq(S) /\ Head(s) \in S
      /\ Len(Tail(s)) = Len(s) - 1
      /\ \A k \in 1..Len(Tail(s)) : Tail(s)[k] = s[k + 1]
  BY HeadTailProperties
<1>5. Head(s) = s[1]
  BY <1>1
<1>3. Tail(s) = <<>> <=> Len(Tail(s)) = 0
  BY <1>2, EmptySeq
<1>4. Len(s) - 1 = 0 <=> Len(s) = 1
  BY <1>1
<1> QED BY <1>1, <1>2, <1>3, <1>4, <1>5

-----------------------------------------------------------------------------
(* Every step is one of the servers or one of the harness.                 *)
LEMMA HarnessOrServers ==
    ASSUME [HarnessNext]_allVars
    PROVE  \/ [Next]_vars /\ UNCHANGED harnessVars
           \/ \E id \in Movable : DisconnectPeer(id)
           \/ \E id \in Movable : ReconnectPeer(id)
           \/ Shutdown \/ CloseNext \/ OpenNext \/ StopNext \/ ServerDown
<1>1. CASE UNCHANGED allVars
  BY <1>1 DEF allVars
<1>2. ASSUME Next, UNCHANGED harnessVars PROVE [Next]_vars /\ UNCHANGED harnessVars
  BY <1>2
<1> QED BY <1>1, <1>2 DEF HarnessNext, HarnessGoesOn, Next

(* An operation goes on to its next step.                                  *)
GoesOn ==
    \/ /\ op.do = "disconnect"
       /\ DisconnectGoesOn
    \/ /\ op.do = "reconnect"
       /\ ReconnectGoesOn
    \/ /\ op.do = "shutdown"
       /\ ShutdownGoesOn

LEMMA GoesOnTyped ==
    ASSUME HarnessTypeOK, StepsLeft, GoesOn
    PROVE  /\ connected' \subseteq Server
           /\ op' \in [do : {"idle", "disconnect", "reconnect", "shutdown", "stop", "wait", "down"},
                       id : Server \cup {Nobody}, todo : Seq(SUBSET Links)]
           /\ toStop' \in Seq(Server)
           /\ ops' \in 0..MaxOps
           /\ StepsLeft'
<1> DEFINE todo == Tail(op.todo)
<1>1. /\ connected \subseteq Server /\ toStop \in Seq(Server) /\ ops \in 0..MaxOps
      /\ op.id \in Server \cup {Nobody} /\ op.todo \in Seq(SUBSET Links) /\ op.todo # <<>>
      /\ op \in [do : {"idle", "disconnect", "reconnect", "shutdown", "stop", "wait", "down"},
                 id : Server \cup {Nobody}, todo : Seq(SUBSET Links)]
      /\ op.do \in {"disconnect", "reconnect"} => op.id \in Server
  BY DEF HarnessTypeOK, StepsLeft, GoesOn
<1>2. todo \in Seq(SUBSET Links) /\ <<>> \in Seq(SUBSET Links)
  BY <1>1, TailLeft, EmptySeq
<1>3. ops' = ops
  BY DEF GoesOn, DisconnectGoesOn, ReconnectGoesOn, ShutdownGoesOn
<1>4. connected' \subseteq Server
  BY <1>1 DEF GoesOn, DisconnectGoesOn, ReconnectGoesOn, ShutdownGoesOn
<1>5. \/ todo # <<>> /\ op' = [op EXCEPT !.todo = todo] /\ toStop' = toStop
      \/ op' = Idle /\ toStop' = toStop
      \/ op' = [op EXCEPT !.todo = todo, !.do = "stop"] /\ toStop' = AllInOrder
  BY <1>1 DEF GoesOn, DisconnectGoesOn, ReconnectGoesOn, ShutdownGoesOn
<1> HIDE DEF todo
<1>6. CASE todo # <<>> /\ op' = [op EXCEPT !.todo = todo] /\ toStop' = toStop
  <2>1. op'.do = op.do /\ op'.id = op.id /\ op'.todo = todo
    BY <1>1, <1>6
  <2> QED BY <1>1, <1>2, <1>3, <1>4, <1>6, <2>1 DEF StepsLeft
<1>7. CASE op' = Idle /\ toStop' = toStop
  BY <1>1, <1>2, <1>3, <1>4, <1>7 DEF Idle, StepsLeft
<1>8. CASE op' = [op EXCEPT !.todo = todo, !.do = "stop"] /\ toStop' = AllInOrder
  BY <1>1, <1>2, <1>3, <1>4, <1>8, AllServers DEF StepsLeft
<1> QED BY <1>5, <1>6, <1>7, <1>8

LEMMA HarnessTyped ==
    ASSUME HarnessTypeOK, StepsLeft, [HarnessNext]_allVars
    PROVE  HarnessTypeOK' /\ StepsLeft'
<1> DEFINE Ops == [do : {"idle", "disconnect", "reconnect", "shutdown", "stop", "wait", "down"},
                   id : Server \cup {Nobody}, todo : Seq(SUBSET Links)]
<1>0. /\ TypeOK /\ connected \subseteq Server /\ toStop \in Seq(Server) /\ ops \in 0..MaxOps
      /\ op \in Ops
  BY DEF HarnessTypeOK
<1>1. CASE [Next]_vars /\ UNCHANGED harnessVars
  BY <1>1, ServersTyped DEF HarnessTypeOK, StepsLeft, harnessVars
<1>2. ASSUME UNCHANGED vars PROVE TypeOK'
  BY <1>0, <1>2, ServersTyped
<1>3. MaxOps \in Nat /\ Movable \subseteq Server
  BY HarnessAssumption
<1>4. ASSUME NEW id \in Movable, DisconnectPeer(id) PROVE HarnessTypeOK' /\ StepsLeft'
  <2>1. /\ op' = [do |-> "disconnect", id |-> id, todo |-> DisconnectSteps(id)]
        /\ ops' = ops + 1 /\ ops < MaxOps /\ UNCHANGED <<vars, connected, toStop>>
    BY <1>4 DEF DisconnectPeer
  <2>2. DisconnectSteps(id) \in Seq(SUBSET Links) /\ DisconnectSteps(id) # <<>>
    BY <1>3, DisconnectStepsLeft
  <2>3. op' \in Ops /\ op'.do = "disconnect" /\ op'.id = id /\ op'.todo # <<>>
    BY <1>3, <2>1, <2>2
  <2> QED BY <1>0, <1>2, <1>3, <2>1, <2>3 DEF HarnessTypeOK, StepsLeft
<1>5. ASSUME NEW id \in Movable, ReconnectPeer(id) PROVE HarnessTypeOK' /\ StepsLeft'
  <2>1. /\ op' = [do |-> "reconnect", id |-> id, todo |-> ReconnectSteps(id)]
        /\ ops' = ops + 1 /\ ops < MaxOps /\ UNCHANGED <<vars, connected, toStop>>
    BY <1>5 DEF ReconnectPeer
  <2>2. ReconnectSteps(id) \in Seq(SUBSET Links) /\ ReconnectSteps(id) # <<>>
    BY <1>3, ReconnectStepsLeft
  <2>3. op' \in Ops /\ op'.do = "reconnect" /\ op'.id = id /\ op'.todo # <<>>
    BY <1>3, <2>1, <2>2
  <2> QED BY <1>0, <1>2, <1>3, <2>1, <2>3 DEF HarnessTypeOK, StepsLeft
<1>6. CASE Shutdown
  <2>1. /\ op' = [do |-> "shutdown", id |-> Nobody, todo |-> ShutdownSteps]
        /\ UNCHANGED <<vars, connected, toStop, ops>>
    BY <1>6 DEF Shutdown
  <2>2. op' \in Ops /\ op'.do = "shutdown" /\ op'.todo # <<>>
    BY <2>1, ShutdownStepsLeft
  <2> QED BY <1>0, <1>2, <2>1, <2>2 DEF HarnessTypeOK, StepsLeft
<1>7. CASE CloseNext
  <2>1. GoesOn /\ UNCHANGED <<serverVars, timerVars, elections, votesReceived>>
    BY <1>7 DEF CloseNext, GoesOn
  <2>2. clients' \subseteq Links
    BY <1>0, <1>7 DEF CloseNext, TypeOK
  <2>3. PICK gone \in SUBSET calls : calls' \in GivenUp(gone)
    BY <1>7 DEF CloseNext
  <2>4. calls' \subseteq Call
    BY <1>0, <2>3, GivenUpCalls
  <2>5. TypeOK'
    BY <1>0, <2>1, <2>2, <2>4 DEF TypeOK, serverVars, timerVars
  <2> QED BY <2>1, <2>5, GoesOnTyped DEF HarnessTypeOK
<1>8. CASE OpenNext
  <2>1. GoesOn /\ op.do = "reconnect" /\ clients' = clients \cup Head(op.todo)
        /\ UNCHANGED <<serverVars, timerVars, elections, votesReceived, calls>>
    BY <1>8 DEF OpenNext, GoesOn
  <2>2. op.todo \in Seq(SUBSET Links) /\ op.todo # <<>>
    BY <1>0, <2>1 DEF StepsLeft
  <2>3. Head(op.todo) \in SUBSET Links
    BY <2>2, TailLeft
  <2>4. TypeOK'
    BY <1>0, <2>1, <2>3 DEF TypeOK, serverVars, timerVars
  <2> QED BY <2>1, <2>4, GoesOnTyped DEF HarnessTypeOK
<1>9. CASE StopNext
  <2>1. /\ op' = [op EXCEPT !.do = "wait"] /\ toStop # <<>>
        /\ UNCHANGED <<connected, toStop, ops>> /\ Stop(Head(toStop))
    BY <1>9 DEF StopNext
  <2>2. op' \in Ops /\ op'.do = "wait"
    BY <1>0, <2>1
  <2>3. Head(toStop) \in Server
    BY <1>0, <2>1, TailLeft
  <2>4. TypeOK'
    BY <1>0, <2>1, <2>3 DEF TypeOK, Stop, timerVars
  <2> QED BY <1>0, <2>1, <2>2, <2>4 DEF HarnessTypeOK, StepsLeft
<1>10. CASE ServerDown
  <2>1. /\ op' = [op EXCEPT !.do = IF Len(toStop) = 1 THEN "down" ELSE "stop"]
        /\ toStop' = Tail(toStop) /\ toStop # <<>>
        /\ UNCHANGED <<vars, connected, ops>>
    BY <1>10 DEF ServerDown, StepsLeft
  <2>2. op' \in Ops /\ op'.do = IF Len(toStop) = 1 THEN "down" ELSE "stop"
    BY <1>0, <2>1
  <2>3. toStop' \in Seq(Server) /\ (toStop' = <<>> <=> Len(toStop) = 1)
    BY <1>0, <2>1, TailLeft
  <2> QED BY <1>0, <1>2, <2>1, <2>2, <2>3 DEF HarnessTypeOK, StepsLeft
<1> QED BY <1>1, <1>4, <1>5, <1>6, <1>7, <1>8, <1>9, <1>10, HarnessOrServers

-----------------------------------------------------------------------------
(* The servers do not touch their clients.                                 *)
LEMMA ServersLeaveClients ==
    ASSUME [Next]_vars PROVE UNCHANGED clients
BY DEF Next, vars, TimerStart, TimerBailsOut, ElectionTimeout, LeaderSendHeartbeats,
       GetClient, RequestVote, AppendEntries, AnsweredByDead, RPCProxyDrops,
       HandleVoteReply, HandleAppendReply

(* A step of the harness takes away only clients of the server that is     *)
(* disconnected, and opens each client of the server that is reconnected.  *)
LEMMA FlagsStep ==
    ASSUME HarnessTypeOK, StepsLeft, FlagsInv, [HarnessNext]_allVars
    PROVE  FlagsInv'
<1>0. /\ connected \subseteq Server /\ op.todo \in Seq(SUBSET Links)
      /\ op \in [do : {"idle", "disconnect", "reconnect", "shutdown", "stop", "wait", "down"},
                 id : Server \cup {Nobody}, todo : Seq(SUBSET Links)]
  BY DEF HarnessTypeOK
<1>1. CASE [Next]_vars /\ UNCHANGED harnessVars
  <2>1. UNCHANGED <<clients, connected, op>>
    BY <1>1, ServersLeaveClients DEF harnessVars
  <2> QED BY <2>1 DEF FlagsInv, Linked, Disconnecting, Reconnecting, ToCome
<1>2. Movable \subseteq Server
  BY HarnessAssumption
<1>3. ASSUME NEW id \in Movable, DisconnectPeer(id) PROVE FlagsInv'
  <2>1. op'.do = "disconnect" /\ op'.id = id /\ op'.todo = DisconnectSteps(id)
    BY <1>3 DEF DisconnectPeer
  <2>2. op.do = "idle" /\ UNCHANGED <<clients, connected>>
    BY <1>3 DEF DisconnectPeer, Idle, vars
  <2>3. Linked(connected)
    BY <2>2 DEF FlagsInv
  <2>4. Linked(connected \ {id})'
    BY <2>2, <2>3, <1>2 DEF Linked
  <2>5. \A k \in 1..Len(op'.todo) : \A l \in op'.todo[k] : op'.id \in {l[1], l[2]}
    BY <1>2, <2>1, DisconnectStepsLeft
  <2>6. Disconnecting'
    BY <2>1, <2>4, <2>5 DEF Disconnecting, Linked
  <2> QED BY <2>1, <2>6 DEF FlagsInv, Reconnecting
<1>4. ASSUME NEW id \in Movable, ReconnectPeer(id) PROVE FlagsInv'
  <2>1. op'.do = "reconnect" /\ op'.id = id /\ op'.todo = ReconnectSteps(id)
    BY <1>4 DEF ReconnectPeer
  <2>2. op.do = "idle" /\ UNCHANGED <<clients, connected>>
    BY <1>4 DEF ReconnectPeer, Idle, vars
  <2>3. Linked(connected)'
    BY <2>2 DEF FlagsInv, Linked
  <2>4. \A p \in Peers(id) : \A l \in {<<id, p>>, <<p, id>>} :
            \E k \in 1..Len(op'.todo) : l \in op'.todo[k]
    BY <1>2, <2>1, ReconnectStepsLeft
  <2>5. Reconnecting'
    BY <2>1, <2>3, <2>4 DEF Reconnecting, ToCome
  <2> QED BY <2>1, <2>5 DEF FlagsInv, Disconnecting
<1>5. CASE Shutdown
  <2>1. op'.do = "shutdown"
    BY <1>5 DEF Shutdown
  <2> QED BY <2>1 DEF FlagsInv, Disconnecting, Reconnecting
<1>6. CASE CloseNext
  <2> DEFINE todo == Tail(op.todo)
  <2>1. /\ clients' = clients \ (clients \cap Head(op.todo))
        /\ \/ op.do = "disconnect" /\ DisconnectGoesOn
           \/ op.do = "shutdown" /\ ShutdownGoesOn
    BY <1>6 DEF CloseNext
  <2>2. op.todo # <<>>
    BY <2>1 DEF StepsLeft
  <2>3. /\ todo \in Seq(SUBSET Links) /\ Head(op.todo) = op.todo[1] /\ Len(op.todo) \in Nat
        /\ Len(op.todo) > 0 /\ Len(todo) = Len(op.todo) - 1
        /\ \A k \in 1..(Len(op.todo) - 1) : todo[k] = op.todo[k + 1]
    BY <1>0, <2>2, TailLeft
  <2> HIDE DEF todo
  <2>4. CASE op.do = "shutdown" /\ ShutdownGoesOn
    <3>1. op'.do \in {"shutdown", "stop"}
      BY <1>0, <2>4 DEF ShutdownGoesOn
    <3> QED BY <3>1 DEF FlagsInv, Disconnecting, Reconnecting
  <2>5. CASE op.do = "disconnect" /\ DisconnectGoesOn
    <3>1. Linked(connected \ {op.id})
      BY <2>5 DEF FlagsInv, Disconnecting
    <3>2. \A k \in 1..Len(op.todo) : \A l \in op.todo[k] : op.id \in {l[1], l[2]}
      BY <2>5 DEF FlagsInv, Disconnecting
    <3>3. \A l \in Head(op.todo) : op.id \in {l[1], l[2]}
      BY <2>3, <3>2
    <3>4. \A i, j \in connected \ {op.id} : i # j => <<i, j>> \in clients'
      <4> SUFFICES ASSUME NEW i \in connected \ {op.id}, NEW j \in connected \ {op.id}, i # j
                   PROVE  <<i, j>> \in clients'
        OBVIOUS
      <4>1. <<i, j>> \in clients
        BY <3>1 DEF Linked
      <4>2. <<i, j>> \notin Head(op.todo)
        BY <3>3
      <4> QED BY <2>1, <4>1, <4>2
    <3>5. CASE todo # <<>> /\ op' = [op EXCEPT !.todo = todo]
      <4>1. op'.do = "disconnect" /\ op'.id = op.id /\ op'.todo = todo
        BY <1>0, <2>5, <3>5
      <4>2. connected' = connected
        BY <2>5, <3>5 DEF DisconnectGoesOn, todo
      <4>3. \A k \in 1..Len(todo) : \A l \in todo[k] : op.id \in {l[1], l[2]}
        <5> SUFFICES ASSUME NEW k \in 1..Len(todo) PROVE \A l \in todo[k] : op.id \in {l[1], l[2]}
          OBVIOUS
        <5>1. k + 1 \in 1..Len(op.todo) /\ todo[k] = op.todo[k + 1]
          BY <2>3
        <5> QED BY <3>2, <5>1
      <4>4. Disconnecting'
        BY <3>4, <4>1, <4>2, <4>3 DEF Disconnecting, Linked
      <4> QED BY <4>1, <4>4 DEF FlagsInv, Reconnecting
    <3>6. CASE todo = <<>> /\ op' = Idle
      <4>1. op'.do = "idle"
        BY <3>6 DEF Idle
      <4>2. connected' = connected \ {op.id}
        BY <2>5, <3>6 DEF DisconnectGoesOn, todo
      <4> QED BY <3>4, <4>1, <4>2 DEF FlagsInv, Disconnecting, Reconnecting, Linked
    <3> QED BY <2>5, <3>5, <3>6 DEF DisconnectGoesOn, todo
  <2> QED BY <2>1, <2>4, <2>5
<1>7. CASE OpenNext
  <2> DEFINE todo == Tail(op.todo)
  <2>1. ReconnectGoesOn /\ clients' = clients \cup Head(op.todo) /\ op.do = "reconnect"
    BY <1>7 DEF OpenNext
  <2>2. op.todo # <<>> /\ op.id \in Server
    BY <2>1 DEF StepsLeft
  <2>3. /\ todo \in Seq(SUBSET Links) /\ Head(op.todo) = op.todo[1] /\ Len(op.todo) \in Nat
        /\ Len(op.todo) > 0 /\ Len(todo) = Len(op.todo) - 1
        /\ \A k \in 1..(Len(op.todo) - 1) : todo[k] = op.todo[k + 1]
        /\ todo = <<>> <=> Len(op.todo) = 1
    BY <1>0, <2>2, TailLeft
  <2> HIDE DEF todo
  <2>4. \A i, j \in connected : i # j => <<i, j>> \in clients'
    BY <2>1 DEF FlagsInv, Reconnecting, Linked
  <2>5. ASSUME NEW p \in Peers(op.id), NEW l \in {<<op.id, p>>, <<p, op.id>>}
        PROVE  l \in clients' \/ \E k \in 1..Len(todo) : l \in todo[k]
    <3>1. l \in clients \/ \E k \in 1..Len(op.todo) : l \in op.todo[k]
      BY <2>1 DEF FlagsInv, Reconnecting, ToCome
    <3>2. ASSUME NEW k \in 1..Len(op.todo), l \in op.todo[k]
          PROVE  l \in clients' \/ \E m \in 1..Len(todo) : l \in todo[m]
      <4>1. CASE k = 1
        BY <2>1, <2>3, <3>2, <4>1
      <4>2. CASE k # 1
        <5>1. k - 1 \in 1..Len(todo) /\ k - 1 \in 1..(Len(op.todo) - 1) /\ (k - 1) + 1 = k
          BY <2>3, <4>2
        <5>2. todo[k - 1] = op.todo[k]
          BY <2>3, <5>1
        <5> QED BY <3>2, <5>1, <5>2
      <4> QED BY <4>1, <4>2
    <3> QED BY <2>1, <3>1, <3>2
  <2>6. CASE todo # <<>> /\ op' = [op EXCEPT !.todo = todo]
    <3>1. op'.do = "reconnect" /\ op'.id = op.id /\ op'.todo = todo
      BY <1>0, <2>1, <2>6
    <3>2. connected' = connected
      BY <2>1, <2>6 DEF ReconnectGoesOn, todo
    <3>3. Reconnecting'
      BY <2>4, <2>5, <3>1, <3>2 DEF Reconnecting, Linked, ToCome
    <3> QED BY <3>1, <3>3 DEF FlagsInv, Disconnecting
  <2>7. CASE todo = <<>> /\ op' = Idle
    <3>1. op'.do = "idle"
      BY <2>7 DEF Idle
    <3>2. connected' = connected \cup {op.id}
      BY <2>1, <2>7 DEF ReconnectGoesOn, todo
    <3>3. Len(todo) = 0
      BY <2>3, <2>7
    <3>4. \A p \in Peers(op.id) : <<op.id, p>> \in clients' /\ <<p, op.id>> \in clients'
      <4>1. \A p \in Peers(op.id) : \A l \in {<<op.id, p>>, <<p, op.id>>} : l \in clients'
        <5>1. 1..Len(todo) = {}
          BY <3>3
        <5> QED BY <2>5, <5>1
      <4> QED BY <4>1
    <3>5. Linked(connected)'
      <4> SUFFICES ASSUME NEW i \in connected', NEW j \in connected', i # j
                   PROVE  <<i, j>> \in clients'
        BY DEF Linked
      <4>1. CASE i = op.id
        BY <1>0, <2>2, <3>2, <3>4, <4>1 DEF Peers
      <4>2. CASE j = op.id
        BY <1>0, <2>2, <3>2, <3>4, <4>2 DEF Peers
      <4>3. CASE i # op.id /\ j # op.id
        BY <2>4, <3>2, <4>3
      <4> QED BY <4>1, <4>2, <4>3
    <3> QED BY <3>1, <3>5 DEF FlagsInv, Disconnecting, Reconnecting
  <2> QED BY <2>1, <2>6, <2>7 DEF ReconnectGoesOn, todo
<1>8. CASE StopNext
  <2>1. op'.do = "wait"
    BY <1>0, <1>8 DEF StopNext
  <2> QED BY <2>1 DEF FlagsInv, Disconnecting, Reconnecting
<1>9. CASE ServerDown
  <2>1. op'.do \in {"stop", "down"}
    BY <1>0, <1>9 DEF ServerDown
  <2> QED BY <2>1 DEF FlagsInv, Disconnecting, Reconnecting
<1> QED BY <1>1, <1>3, <1>4, <1>5, <1>6, <1>7, <1>8, <1>9, HarnessOrServers

-----------------------------------------------------------------------------
(* Why timers stay alive: whoever follows, and whoever starts an election, *)
(* has a goroutine that has yet to read the term, and a timer ends only    *)
(* when its term or its server's state is over.                            *)
Alive(j) == state[j] \in {"Follower", "Candidate"} =>
                starting[j] > 0 \/ BagIn(currentTerm[j], timers[j])

LEMMA FollowerAlive ==
    ASSUME TypeOK, TimerAlive, NEW i \in Server, NEW term, BecomeFollower(i, term),
           UNCHANGED timers
    PROVE  TimerAlive'
<1> SUFFICES ASSUME NEW j \in Server PROVE Alive(j)'
  BY DEF TimerAlive, Alive
<1>1. Alive(j) /\ starting[j] \in Nat
  BY DEF TimerAlive, Alive, TypeOK
<1>2. CASE j = i
  <2>1. starting'[j] = starting[j] + 1
    BY <1>2 DEF BecomeFollower, TimersAfter, TypeOK
  <2> QED BY <1>1, <2>1 DEF Alive
<1>3. CASE j # i
  <2>1. state'[j] = state[j] /\ currentTerm'[j] = currentTerm[j] /\ starting'[j] = starting[j]
    BY <1>3 DEF BecomeFollower, TimersAfter, TypeOK
  <2> QED BY <1>1, <2>1 DEF Alive
<1> QED BY <1>2, <1>3

LEMMA ServersKeepTimers ==
    ASSUME TypeOK, TimerAlive, [Next]_vars
    PROVE  TimerAlive'
<1>0. ASSUME UNCHANGED <<serverVars, starting, timers>> PROVE TimerAlive'
  BY <1>0 DEF TimerAlive, serverVars
<1>t. ASSUME NEW i \in Server
      PROVE  /\ IsABag(timers[i]) /\ BagToSet(timers[i]) \subseteq Nat
             /\ starting[i] \in Nat /\ currentTerm[i] \in Nat /\ Alive(i)
  BY DEF TypeOK, TimerAlive, Alive
<1>c. calls \subseteq Call
  BY DEF TypeOK
<1>1. ASSUME NEW i \in Server, TimerStart(i) PROVE TimerAlive'
  <2> SUFFICES ASSUME NEW j \in Server PROVE Alive(j)'
    BY DEF TimerAlive, Alive
  <2>1. state' = state /\ currentTerm' = currentTerm
    BY <1>1 DEF TimerStart, serverVars
  <2>2. CASE j = i
    <3>1. PICK B : B = timers[i] (+) SetToBag({currentTerm[i]})
      OBVIOUS
    <3>2. BagIn(currentTerm[i], B)
      BY <1>t, <3>1, TimerAdded
    <3>3. timers'[i] = B
      BY <1>1, <3>1 DEF TimerStart, TypeOK
    <3> QED BY <2>1, <2>2, <3>2, <3>3 DEF Alive
  <2>3. CASE j # i
    <3>1. timers'[j] = timers[j] /\ starting'[j] = starting[j]
      BY <1>1, <2>3 DEF TimerStart, TypeOK
    <3> QED BY <1>t, <2>1, <3>1 DEF Alive
  <2> QED BY <2>2, <2>3
<1>2. ASSUME NEW i \in Server, NEW term, TimerBailsOut(i, term) PROVE TimerAlive'
  <2> SUFFICES ASSUME NEW j \in Server PROVE Alive(j)'
    BY DEF TimerAlive, Alive
  <2>1. state' = state /\ currentTerm' = currentTerm /\ starting' = starting
    BY <1>2 DEF TimerBailsOut, serverVars
  <2>2. CASE j = i /\ state[i] \in {"Follower", "Candidate"}
    <3>1. PICK B : B = timers[i] (-) SetToBag({term})
      OBVIOUS
    <3>2. BagIn(term, timers[i]) /\ term # currentTerm[i]
      BY <1>2, <2>2 DEF TimerBailsOut
    <3>3. BagIn(currentTerm[i], timers[i]) => BagIn(currentTerm[i], B)
      BY <1>t, <3>1, <3>2, TimerRemoved
    <3>4. timers'[i] = B
      BY <1>2, <3>1 DEF TimerBailsOut, TypeOK
    <3> QED BY <1>t, <2>1, <2>2, <3>3, <3>4 DEF Alive
  <2>3. CASE j # i
    <3>1. timers'[j] = timers[j]
      BY <1>2, <2>3 DEF TimerBailsOut, TypeOK
    <3> QED BY <1>t, <2>1, <3>1 DEF Alive
  <2>4. CASE j = i /\ state[i] \notin {"Follower", "Candidate"}
    BY <2>1, <2>4 DEF Alive
  <2> QED BY <2>2, <2>3, <2>4
<1>3. ASSUME NEW i \in Server, ElectionTimeout(i) PROVE TimerAlive'
  <2> SUFFICES ASSUME NEW j \in Server PROVE Alive(j)'
    BY DEF TimerAlive, Alive
  <2>1. CASE j = i
    <3>1. starting'[j] = starting[j] + 1
      BY <1>3, <2>1 DEF ElectionTimeout, TypeOK
    <3> QED BY <1>t, <3>1 DEF Alive
  <2>2. CASE j # i
    <3>1. /\ timers'[j] = timers[j] /\ starting'[j] = starting[j]
          /\ state'[j] = state[j] /\ currentTerm'[j] = currentTerm[j]
      BY <1>3, <2>2 DEF ElectionTimeout, TypeOK
    <3> QED BY <1>t, <3>1 DEF Alive
  <2> QED BY <2>1, <2>2
<1>4. ASSUME NEW i \in Server, LeaderSendHeartbeats(i) PROVE TimerAlive'
  BY <1>0, <1>4 DEF LeaderSendHeartbeats, timerVars
<1>5. ASSUME NEW c \in calls, RequestVote(c) PROVE TimerAlive'
  <2> SUFFICES ASSUME NEW j \in Server PROVE Alive(j)'
    BY DEF TimerAlive, Alive
  <2>1. c.peer \in Server
    BY <1>c DEF Call
  <2>2. CASE j = c.peer /\ c.term > currentTerm[c.peer]
    <3>1. starting'[j] = starting[j] + 1
      BY <1>5, <2>2 DEF RequestVote, TimersAfter, TypeOK
    <3> QED BY <1>t, <3>1 DEF Alive
  <2>3. CASE j # c.peer \/ ~(c.term > currentTerm[c.peer])
    <3>1. /\ timers'[j] = timers[j] /\ starting'[j] = starting[j]
          /\ state'[j] = state[j] /\ currentTerm'[j] = currentTerm[j]
      BY <1>5, <2>3 DEF RequestVote, TimersAfter, TypeOK
    <3> QED BY <1>t, <3>1 DEF Alive
  <2> QED BY <2>2, <2>3
<1>6. ASSUME NEW c \in calls, AppendEntries(c) PROVE TimerAlive'
  <2>1. c.peer \in Server
    BY <1>c DEF Call
  <2> QED BY <1>0, <1>6, <2>1, FollowerAlive DEF AppendEntries
<1>7. ASSUME NEW c \in calls, GetClient(c) \/ AnsweredByDead(c) \/ RPCProxyDrops(c)
      PROVE  TimerAlive'
  BY <1>0, <1>7 DEF GetClient, AnsweredByDead, RPCProxyDrops, timerVars
<1>8. ASSUME NEW c \in calls, HandleVoteReply(c) PROVE TimerAlive'
  <2>1. c.caller \in Server
    BY <1>c DEF Call
  <2>2. UNCHANGED timers
    BY <1>8 DEF HandleVoteReply
  <2>3. ASSUME NEW s \in {"Leader", state[c.caller]},
               state' = [state EXCEPT ![c.caller] = s],
               UNCHANGED <<currentTerm, votedFor, starting>>
        PROVE  TimerAlive'
    <3> SUFFICES ASSUME NEW j \in Server PROVE Alive(j)'
      BY DEF TimerAlive, Alive
    <3>1. state'[j] \in {"Leader", state[j]}
      BY <2>3 DEF TypeOK
    <3> QED BY <1>t, <2>2, <2>3, <3>1 DEF Alive
  <2> QED BY <1>0, <1>8, <2>1, <2>2, <2>3, FollowerAlive DEF HandleVoteReply
<1>9. ASSUME NEW c \in calls, HandleAppendReply(c) PROVE TimerAlive'
  <2>1. c.caller \in Server
    BY <1>c DEF Call
  <2> QED BY <1>0, <1>9, <2>1, FollowerAlive DEF HandleAppendReply
<1>10. CASE UNCHANGED vars
  BY <1>0, <1>10 DEF vars, timerVars
<1> QED BY <1>1, <1>2, <1>3, <1>4, <1>5, <1>6, <1>7, <1>8, <1>9, <1>10 DEF Next

(* The harness only takes servers out of those that need a timer.          *)
LEMMA TimerAliveStep ==
    ASSUME HarnessTypeOK, TimerAlive, [HarnessNext]_allVars
    PROVE  TimerAlive'
<1>1. TypeOK
  BY DEF HarnessTypeOK
<1>2. ASSUME UNCHANGED <<state, currentTerm, starting, timers>> PROVE TimerAlive'
  BY <1>2 DEF TimerAlive
<1>3. CASE StopNext
  <2>1. /\ state' = [state EXCEPT ![Head(toStop)] = "Dead"]
        /\ UNCHANGED <<currentTerm, starting, timers>>
    BY <1>3 DEF StopNext, Stop, timerVars
  <2>2. \A j \in Server : state'[j] \in {"Dead", state[j]}
    BY <1>1, <2>1 DEF TypeOK
  <2> QED BY <2>1, <2>2 DEF TimerAlive
<1>4. CASE CloseNext \/ OpenNext
  BY <1>2, <1>4 DEF CloseNext, OpenNext, serverVars, timerVars
<1>5. CASE UNCHANGED vars
  BY <1>2, <1>5 DEF vars, serverVars, timerVars
<1>6. CASE [Next]_vars
  BY <1>1, <1>6, ServersKeepTimers
<1>7. CASE \/ \E id \in Movable : DisconnectPeer(id) \/ ReconnectPeer(id)
           \/ Shutdown \/ ServerDown
  BY <1>5, <1>7 DEF DisconnectPeer, ReconnectPeer, Shutdown, ServerDown
<1> QED BY <1>3, <1>4, <1>6, <1>7, HarnessOrServers

-----------------------------------------------------------------------------
LEMMA HarnessInitially == HarnessInit => HarnessInv /\ TimerAlive
<1> SUFFICES ASSUME HarnessInit PROVE HarnessInv /\ TimerAlive
  OBVIOUS
<1>1. IsABag(EmptyBag) /\ BagToSet(EmptyBag) = {}
  BY DEF EmptyBag, SetToBag, IsABag, BagToSet
<1>2. TypeOK
  <2>1. TimersTyped
    BY <1>1 DEF HarnessInit, Init, TimersTyped
  <2>2. calls = {} /\ clients = Links
    BY DEF HarnessInit, Init
  <2>3. StatesTyped /\ TalliesTyped
    BY DEF HarnessInit, Init, StatesTyped, TalliesTyped
  <2> QED BY <2>1, <2>2, <2>3 DEF TypeOK, TimersTyped, StatesTyped, TalliesTyped
<1>3. op = Idle /\ connected = Server /\ toStop = <<>> /\ ops = 0 /\ MaxOps \in Nat
  BY HarnessAssumption DEF HarnessInit
<1>4. HarnessTypeOK /\ StepsLeft
  BY <1>2, <1>3 DEF HarnessTypeOK, StepsLeft, Idle
<1>5. Linked(connected)
  BY <1>3 DEF HarnessInit, Init, Links, Linked
<1>6. FlagsInv
  BY <1>3, <1>5 DEF FlagsInv, Idle, Disconnecting, Reconnecting
<1>7. TimerAlive
  BY DEF HarnessInit, Init, TimerAlive
<1> QED BY <1>4, <1>6, <1>7 DEF HarnessInv

(* The inductive invariant: the types, the steps left, and the clients     *)
(* that are open while an operation is under way.                          *)
THEOREM HarnessInvariant == HarnessSpec => []HarnessInv
<1>1. HarnessInit => HarnessInv
  BY HarnessInitially
<1>2. HarnessInv /\ [HarnessNext]_allVars => HarnessInv'
  BY HarnessTyped, FlagsStep DEF HarnessInv
<1> QED BY <1>1, <1>2, PTL DEF HarnessSpec

(* Every variable keeps its type, whatever the harness does, however many  *)
(* servers, elections and operations there are.                            *)
THEOREM TypeCorrect == HarnessSpec => []HarnessTypeOK
<1>1. HarnessInv => HarnessTypeOK
  BY DEF HarnessInv
<1> QED BY <1>1, HarnessInvariant, PTL

(* Part 1: a server that may have to start an election always has a timer  *)
(* for it (becomeFollower and startElection start one each time;           *)
(* runElectionTimer ends only one of an old term or state).                *)
THEOREM TimersAlive == HarnessSpec => []TimerAlive
<1>1. HarnessInit => TimerAlive
  BY HarnessInitially
<1>2. HarnessTypeOK /\ TimerAlive /\ [HarnessNext]_allVars => TimerAlive'
  BY TimerAliveStep
<1> QED BY <1>1, <1>2, TypeCorrect, PTL DEF HarnessSpec

(* Part 1's harness: after any DisconnectPeer and ReconnectPeer calls, in  *)
(* any order and for any of the servers, two servers that are flagged      *)
(* connected have open clients to each other.                              *)
THEOREM FlagsStayHonest == HarnessSpec => []FlagsHonest
<1>1. HarnessInv => FlagsHonest
  BY DEF HarnessInv, FlagsInv, Linked, FlagsHonest, Idle
<1> QED BY <1>1, HarnessInvariant, PTL
=============================================================================
