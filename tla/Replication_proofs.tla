------------------------- MODULE Replication_proofs -------------------------
(* Machine-checked facts about Replication, for every value of the constants. *)
EXTENDS Replication, TLAPS, FiniteSetTheorems, SequenceTheorems

(* AppendEntries leaves a log of entries behind.                              *)
LEMMA SplicedType ==
    ASSUME NEW l \in Seq(Entry), NEW prev \in Int, prev >= -1, prev < Len(l),
           NEW es \in Seq(Entry)
    PROVE  Spliced(l, prev, es) \in Seq(Entry)
<1>1. CASE Agrees(l, prev, es, Len(es))
  BY <1>1 DEF Spliced
<1>2. CASE ~Agrees(l, prev, es, Len(es))
  <2> DEFINE n == prev + 1 + Len(es)
             E(k) == IF k <= prev + 1 \/ Agrees(l, prev, es, k - prev - 1)
                     THEN l[k] ELSE es[k - prev - 1]
  <2>1. n \in Nat /\ Len(l) \in Nat /\ Len(es) \in Nat
    OBVIOUS
  <2>2. ASSUME NEW k \in 1..n PROVE E(k) \in Entry
    <3>1. CASE k <= prev + 1
      BY <3>1
    <3>2. CASE k > prev + 1 /\ Agrees(l, prev, es, k - prev - 1)
      <4>1. k <= Len(l)
        BY <3>2, <2>1 DEF Agrees
      <4> QED BY <4>1, <3>2
    <3>3. CASE k > prev + 1 /\ ~Agrees(l, prev, es, k - prev - 1)
      BY <3>3
    <3> QED BY <3>1, <3>2, <3>3
  <2>3. [k \in 1..n |-> E(k)] \in [1..n -> Entry]
    BY <2>2
  <2>4. [k \in 1..n |-> E(k)] \in Seq(Entry)
    BY <2>1, <2>3
  <2> QED BY <2>4, <1>2 DEF Spliced
<1> QED BY <1>1, <1>2

(* Abandoned keeps calls of other servers and makes orphans of requests.      *)
LEMMA AbandonedVotes ==
    ASSUME NEW calls \in SUBSET VoteCall, NEW i, NEW r \in Abandoned(calls, i)
    PROVE  /\ r \subseteq VoteCall
           /\ \A c \in r : c \in calls \/ c.stage = "orphan"
           /\ \A c \in r : c.caller = i => c.stage = "orphan"
<1> DEFINE mine == {c \in calls : c.caller = i /\ c.stage # "orphan"}
           late == {[c EXCEPT !.stage = "orphan"] :
                       c \in {d \in mine : d.stage = "request"}}
<1>1. PICK kept \in SUBSET late : r = (calls \ mine) \cup kept
  BY DEF Abandoned
<1>2. \A c \in late : c \in VoteCall /\ c.stage = "orphan"
  BY DEF VoteCall, Stage
<1> QED BY <1>1, <1>2

LEMMA AbandonedAppends ==
    ASSUME NEW calls \in SUBSET AppendCall, NEW i, NEW r \in Abandoned(calls, i)
    PROVE  r \subseteq AppendCall
<1> DEFINE mine == {c \in calls : c.caller = i /\ c.stage # "orphan"}
           late == {[c EXCEPT !.stage = "orphan"] :
                       c \in {d \in mine : d.stage = "request"}}
<1>1. PICK kept \in SUBSET late : r = (calls \ mine) \cup kept
  BY DEF Abandoned
<1>2. \A c \in late : c \in AppendCall
  BY DEF AppendCall, Stage
<1> QED BY <1>1, <1>2


(* The records the actions put into the sets of calls are calls.              *)
LEMMA AnsweredVote ==
    ASSUME voteCalls \subseteq VoteCall, NEW c \in voteCalls,
           NEW r \in VoteReply, AnswerVote(c, r)
    PROVE  voteCalls' \subseteq VoteCall
<1>1. c \in VoteCall /\ NoVoteArgs \in VoteArgs
  BY DEF NoVoteArgs, VoteArgs
<1>2. [c EXCEPT !.stage = "reply", !.args = NoVoteArgs, !.reply = r] \in VoteCall
  BY <1>1 DEF VoteCall, Stage
<1> QED BY <1>2 DEF AnswerVote

LEMMA AnsweredAppend ==
    ASSUME NEW calls \in SUBSET AppendCall, NEW c \in AppendCall,
           NEW r \in AppendReply
    PROVE  Answered(calls, c, r) \subseteq AppendCall
<1>1. NoAppendArgs \in AppendArgs
  BY DEF NoAppendArgs, AppendArgs
<1>2. [c EXCEPT !.stage = "reply", !.args = NoAppendArgs, !.reply = r]
        \in AppendCall
  BY <1>1 DEF AppendCall, Stage
<1> QED BY <1>2 DEF Answered

LEMMA SpawnedVote ==
    ASSUME NEW i \in Server, NEW p \in Server, NEW n \in Nat, NEW t \in Nat
    PROVE  [caller |-> i, peer |-> p, election |-> n, term |-> t,
            stage |-> "spawned", args |-> NoVoteArgs, reply |-> ZeroVoteReply]
               \in VoteCall
<1>1. NoVoteArgs \in VoteArgs /\ ZeroVoteReply \in VoteReply
  BY DEF NoVoteArgs, VoteArgs, ZeroVoteReply, VoteReply
<1> QED BY <1>1 DEF VoteCall, Stage

LEMMA SpawnedAppend ==
    ASSUME NEW i \in Server, NEW p \in Server, NEW s \in Nat, NEW t \in Nat
    PROVE  [caller |-> i, peer |-> p, slot |-> s, term |-> t,
            stage |-> "spawned", ni |-> 0, sent |-> 0,
            args |-> NoAppendArgs, reply |-> ZeroAppendReply] \in AppendCall
<1>1. NoAppendArgs \in AppendArgs /\ ZeroAppendReply \in AppendReply
  BY DEF NoAppendArgs, AppendArgs, ZeroAppendReply, AppendReply
<1> QED BY <1>1 DEF AppendCall, Stage

(* Every action keeps the types and ranges of TypeOK.                         *)
LEMMA TypeStep == TypeOK /\ [Next]_vars => TypeOK'
<1> SUFFICES ASSUME TypeOK, [Next]_vars PROVE TypeOK'
  OBVIOUS
<1> USE DEF serverVars, logVars, leaderVars
<1>1. ASSUME NEW i \in Server, ElectionTimeout(i) PROVE TypeOK'
  <2>1. votesReceived[i] \in Seq(SUBSET Server) /\ Len(votesReceived[i]) \in Nat
    BY DEF TypeOK
  <2>2. [e \in 1..Len(votesReceived[i]) |-> {}] \in Seq(SUBSET Server)
    BY <2>1
  <2>3. votesReceived' \in [Server -> Seq(SUBSET Server)]
    <3> DEFINE old == IF PromptReplies THEN [e \in 1..Len(votesReceived[i]) |-> {}]
                                      ELSE votesReceived[i]
    <3>1. Append(old, {i}) \in Seq(SUBSET Server)
      BY <2>1, <2>2
    <3>2. votesReceived' = [votesReceived EXCEPT ![i] = Append(old, {i})]
      BY <1>1 DEF ElectionTimeout, TypeOK
    <3> QED BY <3>1, <3>2 DEF TypeOK
  <2>4. voteCalls' \subseteq VoteCall
    <3> DEFINE call(p) ==
            [caller |-> i, peer |-> p, election |-> Len(votesReceived[i]) + 1,
             term |-> currentTerm[i] + 1, stage |-> "spawned",
             args |-> NoVoteArgs, reply |-> ZeroVoteReply]
    <3>1. PICK targets \in SUBSET Peers(i),
               rest \in IF PromptReplies THEN Abandoned(voteCalls, i)
                                          ELSE {voteCalls} :
               voteCalls' = rest \cup {call(p) : p \in targets}
      BY <1>1 DEF ElectionTimeout
    <3>2. rest \subseteq VoteCall
      BY AbandonedVotes DEF TypeOK
    <3>3. \A p \in targets : call(p) \in VoteCall
      BY <2>1, SpawnedVote DEF TypeOK, Peers
    <3> QED BY <3>1, <3>2, <3>3
  <2>5. appendCalls' \subseteq AppendCall
    BY <1>1, AbandonedAppends DEF ElectionTimeout, TypeOK
  <2> QED BY <1>1, <2>3, <2>4, <2>5 DEF ElectionTimeout, TypeOK
<1>2. ASSUME NEW i \in Server, Submit(i) PROVE TypeOK'
  <2>1. [command |-> nextCommand, term |-> currentTerm[i]] \in Entry
    BY DEF TypeOK, Entry
  <2> QED BY <1>2, <2>1 DEF Submit, TypeOK
<1>3. ASSUME NEW i \in Server, LeaderSendHeartbeats(i) PROVE TypeOK'
  <2> DEFINE call(p, slot) ==
               [caller |-> i, peer |-> p, slot |-> slot[p],
                term |-> currentTerm[i], stage |-> "spawned",
                ni |-> 0, sent |-> 0,
                args |-> NoAppendArgs, reply |-> ZeroAppendReply]
  <2>1. PICK targets \in SUBSET Peers(i) : \E slot \in [targets -> 1..Slots] :
            appendCalls' = appendCalls \cup {call(p, slot) : p \in targets}
    BY <1>3 DEF LeaderSendHeartbeats
  <2>4. PICK slot \in [targets -> 1..Slots] :
            appendCalls' = appendCalls \cup {call(p, slot) : p \in targets}
    BY <2>1
  <2>2. ASSUME NEW p \in targets PROVE call(p, slot) \in AppendCall
    <3>1. p \in Server /\ slot[p] \in Nat /\ currentTerm[i] \in Nat
      BY <2>1, BoundAssumption DEF Peers, TypeOK
    <3> QED BY <3>1, SpawnedAppend
  <2> HIDE DEF call
  <2>3. appendCalls' \subseteq AppendCall
    BY <2>4, <2>2 DEF TypeOK
  <2> QED BY <1>3, <2>3 DEF LeaderSendHeartbeats, TypeOK
<1>4. ASSUME NEW i \in Server, Stop(i) PROVE TypeOK'
  BY <1>4 DEF Stop, TypeOK
<1>5. ASSUME NEW c \in voteCalls, SendRequestVote(c) PROVE TypeOK'
  <2>1. c \in VoteCall
    BY DEF TypeOK
  <2>2. LastLogIndex(log[c.caller]) \in Int /\ LastLogTerm(log[c.caller]) \in Int
    <3>1. log[c.caller] \in Seq(Entry) /\ Len(log[c.caller]) \in Nat
      BY <2>1 DEF TypeOK, VoteCall
    <3>2. log[c.caller] # <<>> => log[c.caller][Len(log[c.caller])] \in Entry
      BY <3>1
    <3> QED BY <3>1, <3>2 DEF LastLogIndex, LastLogTerm, EntryTerm, Entry
  <2>3. [c EXCEPT !.stage = "request",
                  !.args = [lastLogIndex |-> LastLogIndex(log[c.caller]),
                            lastLogTerm |-> LastLogTerm(log[c.caller])]] \in VoteCall
    BY <2>1, <2>2 DEF VoteCall, VoteArgs, Stage
  <2>4. voteCalls' \subseteq VoteCall
    BY <1>5, <2>3 DEF SendRequestVote, TypeOK
  <2> QED BY <1>5, <2>4 DEF SendRequestVote, TypeOK
<1>6. ASSUME NEW c \in voteCalls, RequestVote(c) PROVE TypeOK'
  <2>1. c \in VoteCall
    BY DEF TypeOK
  <2>2. c.peer \in Server /\ c.caller \in Server /\ c.term \in Nat
    BY <2>1 DEF VoteCall
  <2> DEFINE term == IF Newer(c.term, c.peer) THEN c.term ELSE currentTerm[c.peer]
             voted == IF Newer(c.term, c.peer) THEN None ELSE votedFor[c.peer]
  <2>3. term \in Nat /\ Grants(c, term, voted) \in BOOLEAN
    BY <2>2 DEF TypeOK, Grants
  <2>4. voteCalls' \subseteq VoteCall
    BY <1>6, <2>1, <2>3, AnsweredVote DEF RequestVote, VoteReply, TypeOK
  <2>5. /\ state' \in [Server -> {"Follower", "Candidate", "Leader", "Dead"}]
        /\ currentTerm' \in [Server -> Nat]
        /\ votedFor' \in [Server -> Server \cup {None}]
    BY <1>6, <2>2, <2>3 DEF RequestVote, TypeOK
  <2> QED BY <1>6, <2>4, <2>5 DEF RequestVote, TypeOK
<1>7. ASSUME NEW c \in voteCalls, RequestVoteAtDead(c) PROVE TypeOK'
  <2>1. voteCalls' \subseteq VoteCall
    BY <1>7, AnsweredVote DEF RequestVoteAtDead, ZeroVoteReply, VoteReply, TypeOK
  <2> QED BY <1>7, <2>1 DEF RequestVoteAtDead, TypeOK
<1>8. ASSUME NEW c \in voteCalls, HandleVoteReply(c) PROVE TypeOK'
  <2>1. c \in VoteCall
    BY DEF TypeOK
  <2>2. c.caller \in Server /\ c.peer \in Server /\ c.reply.term \in Nat
    BY <2>1 DEF VoteCall, VoteReply
  <2>3. Len(log[c.caller]) \in Nat
    BY <2>2 DEF TypeOK
  <2>4. /\ state' \in [Server -> {"Follower", "Candidate", "Leader", "Dead"}]
        /\ currentTerm' \in [Server -> Nat]
        /\ votedFor' \in [Server -> Server \cup {None}]
    BY <1>8, <2>2, ZenonT(30) DEF HandleVoteReply, BecomeFollower, StartLeader, TypeOK
  <2>6. /\ nextIndex' \in [Server -> [Server -> Int]]
        /\ matchIndex' \in [Server -> [Server -> Nat \cup {-1}]]
    <3> DEFINE ni == [p \in Server |-> Len(log[c.caller])]
               mi == [p \in Server |-> -1]
    <3>1. ni \in [Server -> Int] /\ mi \in [Server -> Nat \cup {-1}]
      BY <2>3
    <3>2. \/ UNCHANGED leaderVars
          \/ /\ nextIndex' = [nextIndex EXCEPT ![c.caller] = ni]
             /\ matchIndex' = [matchIndex EXCEPT ![c.caller] = mi]
      BY <1>8 DEF HandleVoteReply, StartLeader
    <3> HIDE DEF ni, mi
    <3>3. [nextIndex EXCEPT ![c.caller] = ni] \in [Server -> [Server -> Int]]
      BY <2>2, <3>1 DEF TypeOK
    <3>4. [matchIndex EXCEPT ![c.caller] = mi] \in [Server -> [Server -> Nat \cup {-1}]]
      BY <2>2, <3>1 DEF TypeOK
    <3> QED BY <3>2, <3>3, <3>4 DEF TypeOK
  <2>5. votesReceived' \in [Server -> Seq(SUBSET Server)]
    <3>1. CASE UNCHANGED votesReceived
      BY <3>1 DEF TypeOK
    <3>2. CASE votesReceived' = [votesReceived EXCEPT ![c.caller][c.election] =
                                  votesReceived[c.caller][c.election] \cup {c.peer}]
      <4> DEFINE vs == votesReceived[c.caller]
                 new == vs[c.election] \cup {c.peer}
                 ws == [vs EXCEPT ![c.election] = new]
      <4>1. vs \in Seq(SUBSET Server) /\ votesReceived' = [votesReceived EXCEPT ![c.caller] = ws]
        BY <3>2, <2>2 DEF TypeOK
      <4>3. DOMAIN vs = 1..Len(vs)
        BY <4>1
      <4>4. ASSUME c.election \in DOMAIN vs PROVE ws \in Seq(SUBSET Server)
        <5>1. vs[c.election] \in SUBSET Server
          BY <4>1, <4>3, <4>4, ElementOfSeq
        <5>2. new \in SUBSET Server
          BY <2>2, <5>1
        <5> HIDE DEF vs, new
        <5> QED BY <4>1, <4>3, <4>4, <5>2, ExceptSeq
      <4>5. ASSUME c.election \notin DOMAIN vs PROVE ws = vs
        <5> HIDE DEF vs, new
        <5> QED BY <4>1, <4>3, <4>5
      <4>2. ws \in Seq(SUBSET Server)
        BY <4>1, <4>4, <4>5
      <4> HIDE DEF ws, vs
      <4> QED BY <4>1, <4>2, <2>2 DEF TypeOK
    <3> QED BY <1>8, <3>1, <3>2 DEF HandleVoteReply
  <2> QED BY <1>8, <2>4, <2>5, <2>6 DEF HandleVoteReply, TypeOK
<1>9. ASSUME NEW c \in appendCalls, SendAppendEntries(c) PROVE TypeOK'
  <2>1. c \in AppendCall /\ c.caller \in Server /\ c.peer \in Server
    BY DEF TypeOK, AppendCall
  <2>2. appendCalls' \subseteq AppendCall
    <3> DEFINE l == log[c.caller]
               ni == nextIndex[c.caller][c.peer]
    <3>1. CASE UNCHANGED appendCalls
      BY <3>1 DEF TypeOK
    <3>2. CASE ni \in 0..Len(l)
      <4>1. l \in Seq(Entry) /\ Len(l) \in Nat /\ ni \in Nat
        BY <2>1, <3>2 DEF TypeOK
      <4>2. SubSeq(l, ni + 1, Len(l)) \in Seq(Entry)
        BY <4>1, SubSeqProperties, ElementOfSeq
      <4>3. (IF ni = 0 THEN -1 ELSE EntryTerm(l, ni - 1)) \in Int
        <5>1. ni # 0 => l[(ni - 1) + 1] \in Entry
          BY <4>1, <3>2
        <5> QED BY <5>1 DEF EntryTerm, Entry
      <4>4. commitIndex[c.caller] \in Int
        BY <2>1 DEF TypeOK
      <4> DEFINE args ==
            [prevLogIndex |-> ni - 1,
             prevLogTerm |-> IF ni = 0 THEN -1 ELSE EntryTerm(l, ni - 1),
             entries |-> SubSeq(l, ni + 1, Len(l)),
             leaderCommit |-> commitIndex[c.caller]]
      <4>6. args \in AppendArgs
        BY <4>1, <4>2, <4>3, <4>4, SMTT(30) DEF AppendArgs
      <4>7. Len(l) - ni \in Nat
        BY <4>1, <3>2
      <4> HIDE DEF args, l, ni
      <4>5. [c EXCEPT !.stage = "request", !.ni = ni, !.sent = Len(l) - ni,
                      !.args = args] \in AppendCall
        BY <2>1, <4>1, <4>6, <4>7 DEF AppendCall, Stage
      <4> USE DEF args, l, ni
      <4> QED BY <1>9, <3>2, <4>5 DEF SendAppendEntries, TypeOK
    <3> QED BY <1>9, <3>1, <3>2 DEF SendAppendEntries
  <2>3. panicked' \in BOOLEAN
    BY <1>9 DEF SendAppendEntries, TypeOK
  <2> QED BY <1>9, <2>2, <2>3 DEF SendAppendEntries, TypeOK
<1>10. ASSUME NEW c \in appendCalls, AppendEntries(c) PROVE TypeOK'
  <2>1. c \in AppendCall /\ c.peer \in Server /\ c.term \in Nat /\ c.ni \in Nat
    BY DEF TypeOK, AppendCall
  <2>2. /\ state' \in [Server -> {"Follower", "Candidate", "Leader", "Dead"}]
        /\ currentTerm' \in [Server -> Nat]
        /\ votedFor' \in [Server -> Server \cup {None}]
    BY <1>10, <2>1 DEF AppendEntries, BecomeFollower, TypeOK
  <2>3. /\ c.args.prevLogIndex \in Nat \cup {-1} /\ c.args.entries \in Seq(Entry)
        /\ c.args.leaderCommit \in Int
    BY <2>1 DEF AppendCall, AppendArgs
  <2>4. CASE /\ AcceptEntries(c)
             /\ HasPrev(log[c.peer], c.args.prevLogIndex, c.args.prevLogTerm)
    <3> DEFINE newLog == Spliced(log[c.peer], c.args.prevLogIndex, c.args.entries)
    <3>1. newLog \in Seq(Entry) /\ Len(newLog) \in Nat
      <4>1. log[c.peer] \in Seq(Entry) /\ Len(log[c.peer]) \in Nat
        BY <2>1 DEF TypeOK
      <4>2. c.args.prevLogIndex < Len(log[c.peer])
        BY <2>3, <2>4, <4>1 DEF HasPrev
      <4> HIDE DEF newLog
      <4>3. newLog \in Seq(Entry)
        BY <2>3, <4>1, <4>2, SplicedType DEF newLog
      <4> QED BY <4>3
    <3> HIDE DEF newLog
    <3>2. log' \in [Server -> Seq(Entry)]
      BY <2>1, <2>4, <3>1 DEF AcceptEntries, TypeOK, newLog
    <3>3. commitIndex' \in [Server -> Nat \cup {-1}] /\ panicked' \in BOOLEAN
      <4>1. commitIndex[c.peer] \in Nat \cup {-1}
        BY <2>1 DEF TypeOK
      <4>2. Len(newLog) - 1 \in Nat \cup {-1}
        BY <3>1
      <4>3. c.args.leaderCommit > commitIndex[c.peer] => c.args.leaderCommit \in Nat
        BY <2>3, <4>1
      <4>4. panicked' \in BOOLEAN
        BY <2>4 DEF AcceptEntries, NotifyCommit, TypeOK
      <4>5. \/ UNCHANGED commitIndex
            \/ \E k \in Nat \cup {-1} :
                  commitIndex' = [commitIndex EXCEPT ![c.peer] = k]
        <5> DEFINE k == IF c.args.leaderCommit < Len(newLog) - 1
                        THEN c.args.leaderCommit ELSE Len(newLog) - 1
        <5>1. \/ UNCHANGED commitIndex
              \/ /\ c.args.leaderCommit > commitIndex[c.peer]
                 /\ commitIndex' = [commitIndex EXCEPT ![c.peer] = k]
          BY <2>4 DEF AcceptEntries, newLog
        <5>2. c.args.leaderCommit > commitIndex[c.peer] => k \in Nat \cup {-1}
          BY <4>2, <4>3
        <5> HIDE DEF k
        <5> QED BY <5>1, <5>2
      <4> QED BY <4>4, <4>5 DEF TypeOK
    <3>4. ASSUME NEW calls \in AfterOverwrite(c.peer, newLog)
          PROVE  calls \subseteq AppendCall
      <4>1. ASSUME NEW d \in appendCalls, NEW q \in 0..d.sent
            PROVE  Torn(d, q, newLog) \in AppendCall
        <5> DEFINE es == d.args.entries
                   n == Len(es)
                   E(k) == IF k <= q \/ d.ni + k > Len(newLog)
                           THEN es[k] ELSE newLog[d.ni + k]
        <5>1. /\ d \in AppendCall /\ d.args \in AppendArgs /\ es \in Seq(Entry)
              /\ d.ni \in Nat /\ d.sent \in Nat /\ n \in Nat
          <6>1. d \in AppendCall
            BY DEF TypeOK
          <6>2. d.args \in AppendArgs /\ d.ni \in Nat /\ d.sent \in Nat
            BY <6>1 DEF AppendCall
          <6>3. es \in Seq(Entry)
            BY <6>2 DEF AppendArgs
          <6> QED BY <6>1, <6>2, <6>3
        <5>2. \A k \in 1..n : E(k) \in Entry
          BY <3>1, <5>1
        <5>3. [k \in 1..n |-> E(k)] \in Seq(Entry)
          BY <5>1, <5>2
        <5>4. Torn(d, q, newLog) =
                [d EXCEPT !.args = [d.args EXCEPT !.entries = [k \in 1..n |-> E(k)]]]
          BY <5>1 DEF Torn, AppendCall
        <5> HIDE DEF E
        <5>5. [d.args EXCEPT !.entries = [k \in 1..n |-> E(k)]] \in AppendArgs
          BY <5>1, <5>3 DEF AppendArgs
        <5> QED BY <5>1, <5>4, <5>5 DEF AppendCall
      <4> QED BY <4>1 DEF AfterOverwrite, TypeOK
    <3>5. appendCalls' \subseteq AppendCall
      BY <2>1, <2>4, <3>4, AnsweredAppend DEF AcceptEntries, AppendReply, newLog
    <3> QED BY <1>10, <2>2, <3>2, <3>3, <3>5 DEF AppendEntries, TypeOK
  <2>5. CASE /\ appendCalls' = Answered(appendCalls, c,
                         [term |-> currentTerm'[c.peer], success |-> FALSE])
             /\ UNCHANGED <<logVars, panicked>>
    <3>1. [term |-> currentTerm'[c.peer], success |-> FALSE] \in AppendReply
      BY <2>1, <2>2 DEF AppendReply
    <3>2. appendCalls' \subseteq AppendCall
      BY <2>1, <2>5, <3>1, AnsweredAppend DEF TypeOK
    <3> QED BY <1>10, <2>2, <2>5, <3>2 DEF AppendEntries, TypeOK
  <2> QED BY <1>10, <2>4, <2>5 DEF AppendEntries
<1>11. ASSUME NEW c \in appendCalls, AppendEntriesAtDead(c) PROVE TypeOK'
  <2>1. c \in AppendCall /\ ZeroAppendReply \in AppendReply
    BY DEF TypeOK, ZeroAppendReply, AppendReply
  <2>3. appendCalls' \subseteq AppendCall
    BY <1>11, <2>1, AnsweredAppend DEF AppendEntriesAtDead, TypeOK
  <2> QED BY <1>11, <2>3 DEF AppendEntriesAtDead, TypeOK
<1>12. ASSUME NEW c \in appendCalls, HandleAppendReply(c) PROVE TypeOK'
  <2>1. /\ c.caller \in Server /\ c.peer \in Server /\ c.reply.term \in Nat
        /\ c.ni \in Nat /\ c.sent \in Nat
    BY DEF TypeOK, AppendCall, AppendReply
  <2>2. /\ state' \in [Server -> {"Follower", "Candidate", "Leader", "Dead"}]
        /\ currentTerm' \in [Server -> Nat]
        /\ votedFor' \in [Server -> Server \cup {None}]
    BY <1>12, <2>1, ZenonT(30) DEF HandleAppendReply, BecomeFollower, TypeOK
  <2>3. MatchedUpTo(c) \in Nat \cup {-1}
    BY <2>1 DEF MatchedUpTo
  <2>4. /\ nextIndex' \in [Server -> [Server -> Int]]
        /\ matchIndex' \in [Server -> [Server -> Nat \cup {-1}]]
    <3> DEFINE match == [matchIndex[c.caller] EXCEPT ![c.peer] = MatchedUpTo(c)]
    <3>1. match \in [Server -> Nat \cup {-1}]
      BY <2>1, <2>3 DEF TypeOK
    <3>2. matchIndex' \in {matchIndex, [matchIndex EXCEPT ![c.caller] = match]}
      BY <1>12 DEF HandleAppendReply
    <3>3. \/ UNCHANGED nextIndex
          \/ \E n \in Int : nextIndex' = [nextIndex EXCEPT ![c.caller] =
                                 [nextIndex[c.caller] EXCEPT ![c.peer] = n]]
      <4>1. NextAfter(c) \in Int /\ c.ni - 1 \in Int
        BY <2>1 DEF NextAfter
      <4> QED BY <1>12, <4>1 DEF HandleAppendReply
    <3> HIDE DEF match
    <3>4. nextIndex' \in [Server -> [Server -> Int]]
      <4>1. \A n \in Int : [nextIndex[c.caller] EXCEPT ![c.peer] = n] \in [Server -> Int]
        BY <2>1 DEF TypeOK
      <4>2. \A f \in [Server -> Int] :
                [nextIndex EXCEPT ![c.caller] = f] \in [Server -> [Server -> Int]]
        BY <2>1 DEF TypeOK
      <4>3. CASE UNCHANGED nextIndex
        BY <4>3 DEF TypeOK
      <4>4. ASSUME NEW n \in Int, nextIndex' = [nextIndex EXCEPT ![c.caller] =
                                     [nextIndex[c.caller] EXCEPT ![c.peer] = n]]
            PROVE  nextIndex' \in [Server -> [Server -> Int]]
        <5> DEFINE f == [nextIndex[c.caller] EXCEPT ![c.peer] = n]
        <5>1. f \in [Server -> Int]
          BY <4>1
        <5> HIDE DEF f
        <5>2. [nextIndex EXCEPT ![c.caller] = f] \in [Server -> [Server -> Int]]
          BY <4>2, <5>1
        <5> QED BY <4>4, <5>2 DEF f
      <4> QED BY <3>3, <4>3, <4>4
    <3>5. matchIndex' \in [Server -> [Server -> Nat \cup {-1}]]
      BY <2>1, <3>1, <3>2 DEF TypeOK
    <3> QED BY <3>4, <3>5
  <2>5. commitIndex' \in [Server -> Nat \cup {-1}] /\ panicked' \in BOOLEAN
    <3>1. CASE UNCHANGED <<commitIndex, panicked>>
      BY <3>1 DEF TypeOK
    <3>2. ASSUME NEW match, AdvanceCommit(c.caller, match)
          PROVE  commitIndex' \in [Server -> Nat \cup {-1}] /\ panicked' \in BOOLEAN
      <4>1. commitIndex[c.caller] \in Nat \cup {-1} /\ Len(log[c.caller]) \in Nat
        BY <2>1, SMTT(30) DEF TypeOK
      <4>2. Committable(log[c.caller], commitIndex[c.caller], currentTerm[c.caller],
                        match, Peers(c.caller)) \subseteq Nat
        BY <4>1 DEF Committable
      <4>3. panicked' \in BOOLEAN
        BY <3>2 DEF AdvanceCommit, NotifyCommit, TypeOK
      <4>4. \/ UNCHANGED commitIndex
            \/ \E k \in Nat : commitIndex' = [commitIndex EXCEPT ![c.caller] = k]
        BY <3>2, <4>2 DEF AdvanceCommit
      <4> QED BY <4>3, <4>4 DEF TypeOK
    <3> QED BY <1>12, <3>1, <3>2 DEF HandleAppendReply
  <2> QED BY <1>12, <2>2, <2>4, <2>5 DEF HandleAppendReply, TypeOK
<1>13. ASSUME NEW c \in appendCalls, AppendEntriesFails(c) PROVE TypeOK'
  <2>1. c \in AppendCall
    BY DEF TypeOK
  <2>2. [c EXCEPT !.stage = "orphan"] \in AppendCall
    BY <2>1 DEF AppendCall, Stage
  <2>3. appendCalls' \subseteq AppendCall
    BY <1>13, <2>2 DEF AppendEntriesFails, TypeOK
  <2> QED BY <1>13, <2>3 DEF AppendEntriesFails, TypeOK
<1>14. CASE UNCHANGED vars
  BY <1>14 DEF TypeOK, vars
<1> QED
  BY <1>1, <1>2, <1>3, <1>4, <1>5, <1>6, <1>7, <1>8, <1>9, <1>10, <1>11, <1>12,
     <1>13, <1>14 DEF Next

(* The types and ranges of TypeOK hold in every reachable state.              *)
THEOREM TypeCorrect == Spec => []TypeOK
<1>1. Init => TypeOK
  <2> SUFFICES ASSUME Init PROVE TypeOK
    OBVIOUS
  <2>1. <<>> \in Seq(Entry) /\ <<>> \in Seq(SUBSET Server)
    OBVIOUS
  <2>2. /\ log \in [Server -> Seq(Entry)]
        /\ votesReceived \in [Server -> Seq(SUBSET Server)]
    BY <2>1 DEF Init
  <2>3. commitIndex \in [Server -> Nat \cup {-1}]
    BY DEF Init
  <2>4. /\ nextIndex \in [Server -> [Server -> Int]]
        /\ matchIndex \in [Server -> [Server -> Nat \cup {-1}]]
    BY DEF Init
  <2> QED BY <2>2, <2>3, <2>4 DEF Init, TypeOK
<1> QED BY <1>1, TypeStep, PTL DEF Spec

-----------------------------------------------------------------------------
(* The election argument. VoteStep is what a step may do to terms and votes:  *)
(* a vote is dropped within a term only by a candidate or leader that becomes *)
(* a follower, and such a server had voted for itself.                        *)
VoteStep ==
    \A v \in Server :
        /\ currentTerm'[v] >= currentTerm[v]
        /\ currentTerm'[v] = currentTerm[v] =>
              \/ votedFor'[v] = votedFor[v]
              \/ votedFor[v] = None
              \/ Active(v) /\ ~Active(v)'

(* A step other than an election timeout makes nobody a candidate.            *)
SameRoles ==
    \A i \in Server : Active(i)' =>
        /\ Active(i)
        /\ currentTerm'[i] = currentTerm[i] /\ votedFor'[i] = votedFor[i]
        /\ state'[i] = state[i]

LEMMA SupportersAreServers ==
    ASSUME TypeOK, NEW i \in Server
    PROVE  /\ votesReceived[i] # <<>> => CurrentVotes(i) \subseteq Server
           /\ GrantedTo(i) \subseteq Server
<1>1. ASSUME votesReceived[i] # <<>> PROVE CurrentVotes(i) \subseteq Server
  <2>1. votesReceived[i] \in Seq(SUBSET Server)
    BY DEF TypeOK
  <2>2. Len(votesReceived[i]) \in 1..Len(votesReceived[i])
    BY <1>1, <2>1
  <2> QED BY <2>1, <2>2, ElementOfSeq DEF CurrentVotes
<1>2. GrantedTo(i) \subseteq Server
  <2>1. \A c \in voteCalls : c.peer \in Server
    BY DEF TypeOK, VoteCall
  <2> QED BY <2>1 DEF GrantedTo
<1> QED BY <1>1, <1>2

(* A pledge to a server that stays in its candidacy or leadership is kept.    *)
LEMMA PledgeKept ==
    ASSUME TypeOK, TypeOK', ElectionInv, VoteStep,
           NEW i \in Server, Active(i), Active(i)', currentTerm'[i] = currentTerm[i],
           NEW v \in Server, Pledged(v, i)
    PROVE  Pledged(v, i)'
<1>1. /\ currentTerm[v] \in Nat /\ currentTerm'[v] \in Nat
      /\ currentTerm[i] \in Nat /\ currentTerm'[v] >= currentTerm[v]
  BY DEF TypeOK, VoteStep
<1>2. CASE currentTerm'[v] > currentTerm'[i]
  BY <1>2 DEF Pledged
<1>3. CASE currentTerm'[v] <= currentTerm'[i]
  <2>1. currentTerm[v] = currentTerm[i] /\ currentTerm'[v] = currentTerm[v]
        /\ votedFor[v] = i
    BY <1>1, <1>3 DEF Pledged
  <2>2. votedFor[v] # None
    BY <2>1, ServerAssumption
  <2>3. Active(v) => v = i
    BY <2>1 DEF ElectionInv, SupportersPledged
  <2>4. votedFor'[v] = i
    BY <2>1, <2>2, <2>3 DEF VoteStep
  <2> QED BY <2>1, <2>4 DEF Pledged
<1> QED BY <1>1, <1>2, <1>3 DEF TypeOK

(* The invariant survives a step in which nobody starts an election or counts *)
(* a vote, if every reply it creates comes from a pledged server.             *)
LEMMA QuietStep ==
    ASSUME TypeOK, TypeOK', ElectionInv, VoteStep, SameRoles,
           UNCHANGED votesReceived,
           \A i \in Server : Active(i)' => \A v \in GrantedTo(i)' :
               \/ v \in GrantedTo(i)
               \/ /\ currentTerm'[v] = currentTerm'[i] /\ votedFor'[v] = i,
           \A c \in voteCalls' : c.stage = "orphan" \/
               \E d \in voteCalls : /\ d.stage # "orphan" /\ d.caller = c.caller
                                    /\ d.term = c.term /\ d.election = c.election
    PROVE  ElectionInv'
<1>1. ASSUME NEW i \in Server, Active(i)'
      PROVE  /\ Active(i) /\ currentTerm'[i] = currentTerm[i]
             /\ votedFor'[i] = i /\ votesReceived'[i] # <<>>
             /\ CurrentVotes(i)' = CurrentVotes(i)
             /\ \A v \in Supporters(i) : v \in Server /\ Pledged(v, i)'
  <2>1. /\ Active(i) /\ currentTerm'[i] = currentTerm[i]
        /\ votedFor'[i] = votedFor[i]
    BY <1>1 DEF SameRoles
  <2>2. /\ votedFor[i] = i /\ votesReceived[i] # <<>>
        /\ \A v \in Supporters(i) : Pledged(v, i)
    BY <2>1 DEF ElectionInv, SupportersPledged
  <2>3. CurrentVotes(i)' = CurrentVotes(i)
    BY DEF CurrentVotes
  <2>4. Supporters(i) \subseteq Server
    BY <2>2, SupportersAreServers DEF Supporters
  <2>5. \A v \in Supporters(i) : Pledged(v, i)'
    BY <1>1, <2>1, <2>2, <2>4, PledgeKept
  <2> QED BY <2>1, <2>2, <2>3, <2>4, <2>5
<1>2. ASSUME NEW i \in Server PROVE SupportersPledged(i)'
  <2> SUFFICES ASSUME Active(i)', NEW v \in Supporters(i)' PROVE Pledged(v, i)'
    BY <1>1 DEF SupportersPledged
  <2>1. CASE v \in Supporters(i)
    BY <1>1, <2>1
  <2>2. CASE currentTerm'[v] = currentTerm'[i] /\ votedFor'[v] = i
    BY <2>2 DEF Pledged
  <2> QED BY <1>1, <2>1, <2>2 DEF Supporters
<1>3. ASSUME NEW i \in Server PROVE NoStaleVoteCalls(i)'
  <2> SUFFICES ASSUME state'[i] = "Candidate", NEW c \in voteCalls',
                      c.caller = i, c.stage # "orphan"
               PROVE  c.term = currentTerm'[i] /\ c.election = Len(votesReceived'[i])
    BY DEF NoStaleVoteCalls
  <2>1. state[i] = "Candidate" /\ currentTerm'[i] = currentTerm[i]
    BY DEF SameRoles, Active
  <2> QED BY <2>1 DEF ElectionInv, NoStaleVoteCalls
<1>4. ASSUME NEW i \in Server PROVE WonByMajority(i)'
  BY DEF ElectionInv, WonByMajority, SameRoles, Active, CurrentVotes
<1>5. ASSUME NEW i \in Server, NEW j \in Server PROVE NoCommonSupporter(i, j)'
  <2> SUFFICES ASSUME i # j, Active(i)', Active(j)', currentTerm'[i] = currentTerm'[j],
                      NEW v \in Supporters(i)', v \in Supporters(j)'
               PROVE  FALSE
    BY DEF NoCommonSupporter
  <2>1. /\ Active(i) /\ Active(j) /\ currentTerm[i] = currentTerm[j]
    BY <1>1
  <2>2. Supporters(i) \cap Supporters(j) = {}
    BY <2>1 DEF ElectionInv, NoCommonSupporter
  <2>3. /\ \/ v \in Supporters(i)
           \/ currentTerm'[v] = currentTerm'[i] /\ votedFor'[v] = i
        /\ \/ v \in Supporters(j)
           \/ currentTerm'[v] = currentTerm'[j] /\ votedFor'[v] = j
    <3>1. CurrentVotes(i)' = CurrentVotes(i) /\ CurrentVotes(j)' = CurrentVotes(j)
      BY <1>1
    <3>2. /\ v \in CurrentVotes(i)' \/ v \in GrantedTo(i)'
          /\ v \in CurrentVotes(j)' \/ v \in GrantedTo(j)'
      BY DEF Supporters
    <3> QED BY <3>1, <3>2 DEF Supporters
  <2>4. /\ v \in Supporters(i) => v \in Server /\ Pledged(v, i)'
        /\ v \in Supporters(j) => v \in Server /\ Pledged(v, j)'
    BY <1>1
  <2>5. currentTerm'[i] \in Nat /\ currentTerm'[j] \in Nat
    BY DEF TypeOK
  <2> QED BY <2>2, <2>3, <2>4, <2>5 DEF Pledged
<1> QED BY <1>2, <1>3, <1>4, <1>5 DEF ElectionInv

(* Every step keeps terms from going back and votes from changing hands.      *)
LEMMA NextVoteStep ==
    ASSUME TypeOK, ElectionInv, [Next]_vars PROVE VoteStep
<1> USE DEF serverVars, logVars, leaderVars
<1>0. \A v \in Server : currentTerm[v] \in Nat
  BY DEF TypeOK
<1>1. ASSUME NEW i \in Server, ElectionTimeout(i) PROVE VoteStep
  <2>1. /\ currentTerm' = [currentTerm EXCEPT ![i] = currentTerm[i] + 1]
        /\ votedFor' = [votedFor EXCEPT ![i] = i]
    BY <1>1 DEF ElectionTimeout
  <2> QED BY <1>0, <2>1 DEF VoteStep, TypeOK
<1>2. ASSUME NEW c \in voteCalls, RequestVote(c) PROVE VoteStep
  <2> DEFINE i == c.peer
             term == IF Newer(c.term, i) THEN c.term ELSE currentTerm[i]
             voted == IF Newer(c.term, i) THEN None ELSE votedFor[i]
             granted == Grants(c, term, voted)
  <2>1. /\ currentTerm' = [currentTerm EXCEPT ![i] = term]
        /\ votedFor' = [votedFor EXCEPT ![i] = IF granted THEN c.caller ELSE voted]
    BY <1>2 DEF RequestVote
  <2>2. i \in Server /\ c.term \in Nat
    BY DEF TypeOK, VoteCall
  <2>3. term >= currentTerm[i] /\ (term = currentTerm[i] => voted = votedFor[i])
    BY <1>0, <2>2 DEF Newer
  <2>4. granted => voted \in {None, c.caller}
    BY DEF Grants
  <2> HIDE DEF term, voted, granted
  <2>5. /\ currentTerm'[i] = term
        /\ votedFor'[i] = IF granted THEN c.caller ELSE voted
        /\ \A v \in Server \ {i} : /\ currentTerm'[v] = currentTerm[v]
                                  /\ votedFor'[v] = votedFor[v]
    BY <2>1, <2>2 DEF TypeOK
  <2> QED BY <1>0, <2>2, <2>3, <2>4, <2>5 DEF VoteStep
<1>3. ASSUME NEW c \in voteCalls, HandleVoteReply(c) PROVE VoteStep
  <2>1. c \in VoteCall /\ c.caller \in Server /\ c.reply.term \in Nat
    BY DEF TypeOK, VoteCall, VoteReply
  <2>2. CASE /\ state[c.caller] = "Candidate" /\ c.reply.term > c.term
             /\ BecomeFollower(c.caller, c.reply.term)
    <3>1. c.stage # "orphan"
      BY <1>3 DEF HandleVoteReply
    <3>2. c.term = currentTerm[c.caller]
      BY <2>1, <2>2, <3>1 DEF ElectionInv, NoStaleVoteCalls
    <3>3. /\ currentTerm'[c.caller] \in Nat
          /\ currentTerm'[c.caller] > currentTerm[c.caller]
          /\ \A v \in Server \ {c.caller} : /\ currentTerm'[v] = currentTerm[v]
                                           /\ votedFor'[v] = votedFor[v]
      BY <2>1, <2>2, <3>2 DEF BecomeFollower, TypeOK
    <3> QED BY <1>0, <2>1, <3>3 DEF VoteStep
  <2>3. CASE UNCHANGED <<currentTerm, votedFor>>
    BY <1>0, <2>3 DEF VoteStep
  <2> QED BY <1>3, <2>2, <2>3 DEF HandleVoteReply, StartLeader
<1>4. ASSUME NEW c \in appendCalls, AppendEntries(c) PROVE VoteStep
  <2>1. c.peer \in Server /\ c.term \in Nat
    BY DEF TypeOK, AppendCall
  <2>2. CASE UNCHANGED <<currentTerm, votedFor>>
    BY <1>0, <2>2 DEF VoteStep
  <2>3. CASE /\ Newer(c.term, c.peer)
             /\ BecomeFollower(c.peer, c.term)
    BY <1>0, <2>1, <2>3 DEF Newer, BecomeFollower, VoteStep, TypeOK
  <2>4. CASE /\ c.term = currentTerm[c.peer] /\ state[c.peer] # "Follower"
             /\ BecomeFollower(c.peer, c.term)
    <3>1. Active(c.peer)
      BY <1>4, <2>1, <2>4 DEF AppendEntries, Active, TypeOK
    <3>2. state'[c.peer] = "Follower"
      BY <2>1, <2>4 DEF BecomeFollower, TypeOK
    <3> QED BY <1>0, <2>1, <2>4, <3>1, <3>2
            DEF BecomeFollower, VoteStep, Active, TypeOK
  <2> QED BY <1>4, <2>2, <2>3, <2>4 DEF AppendEntries
<1>5. ASSUME NEW c \in appendCalls, HandleAppendReply(c) PROVE VoteStep
  <2>1. c.caller \in Server /\ c.reply.term \in Nat
    BY DEF TypeOK, AppendCall, AppendReply
  <2>2. CASE UNCHANGED <<currentTerm, votedFor>>
    BY <1>0, <2>2 DEF VoteStep
  <2>3. CASE /\ c.reply.term > currentTerm[c.caller]
             /\ BecomeFollower(c.caller, c.reply.term)
    BY <1>0, <2>1, <2>3, SMTT(30) DEF BecomeFollower, VoteStep, TypeOK
  <2> QED BY <1>5, <2>2, <2>3 DEF HandleAppendReply
<1>6. CASE UNCHANGED <<currentTerm, votedFor>>
  BY <1>0, <1>6 DEF VoteStep
<1> QED
  BY <1>1, <1>2, <1>3, <1>4, <1>5, <1>6
  DEF Next, vars, Submit, LeaderSendHeartbeats, Stop, SendRequestVote,
      RequestVoteAtDead, SendAppendEntries, AppendEntriesAtDead, AppendEntriesFails

(* The steps that leave votes and vote calls alone and that let nobody become *)
(* a candidate or leader.                                                     *)
LEMMA CallsUntouched ==
    ASSUME TypeOK, TypeOK', ElectionInv, VoteStep, SameRoles,
           UNCHANGED <<votesReceived, voteCalls>>
    PROVE  ElectionInv'
<1>1. \A i \in Server : Active(i)' => GrantedTo(i)' = GrantedTo(i)
  BY DEF SameRoles, GrantedTo
<1> QED BY <1>1, QuietStep

(* With prompt replies every step keeps the election invariant.               *)
LEMMA ElectionInvStep ==
    ASSUME PromptReplies, TypeOK, TypeOK', ElectionInv, [Next]_vars
    PROVE  ElectionInv'
<1> USE DEF serverVars, logVars, leaderVars
<1>0. VoteStep
  BY NextVoteStep
<1>1. ASSUME NEW i \in Server, ElectionTimeout(i) PROVE ElectionInv'
  <2> DEFINE call(p) ==
            [caller |-> i, peer |-> p, election |-> Len(votesReceived[i]) + 1,
             term |-> currentTerm[i] + 1, stage |-> "spawned",
             args |-> NoVoteArgs, reply |-> ZeroVoteReply]
  <2>1. PICK targets \in SUBSET Peers(i), rest \in Abandoned(voteCalls, i) :
            voteCalls' = rest \cup {call(p) : p \in targets}
    BY <1>1 DEF ElectionTimeout
  <2>2. /\ \A c \in rest : c \in voteCalls \/ c.stage = "orphan"
        /\ \A c \in rest : c.caller = i => c.stage = "orphan"
    BY AbandonedVotes DEF TypeOK
  <2>3. \A p : /\ call(p).caller = i /\ call(p).stage = "spawned"
               /\ call(p).term = currentTerm[i] + 1
               /\ call(p).election = Len(votesReceived[i]) + 1
    OBVIOUS
  <2> HIDE DEF call
  <2>4. /\ state' = [state EXCEPT ![i] = "Candidate"]
        /\ currentTerm' = [currentTerm EXCEPT ![i] = currentTerm[i] + 1]
        /\ votedFor' = [votedFor EXCEPT ![i] = i]
    BY <1>1 DEF ElectionTimeout
  <2>5. /\ votesReceived' = [votesReceived EXCEPT ![i] =
               Append([e \in 1..Len(votesReceived[i]) |-> {}], {i})]
        /\ [e \in 1..Len(votesReceived[i]) |-> {}] \in Seq(SUBSET Server)
        /\ Len(votesReceived[i]) \in Nat
    BY <1>1 DEF ElectionTimeout, TypeOK
  <2>6. /\ Len(votesReceived'[i]) = Len(votesReceived[i]) + 1
        /\ votesReceived'[i][Len(votesReceived'[i])] = {i}
    <3> DEFINE old == [e \in 1..Len(votesReceived[i]) |-> {}]
    <3>1. old \in Seq(SUBSET Server) /\ Len(old) = Len(votesReceived[i])
      BY <2>5
    <3>2. votesReceived'[i] = Append(old, {i})
      BY <2>5 DEF TypeOK
    <3> HIDE DEF old
    <3> QED BY <3>1, <3>2
  <2>7. /\ SupportersPledged(i)' /\ NoStaleVoteCalls(i)' /\ WonByMajority(i)'
        /\ Supporters(i)' = {i} /\ currentTerm'[i] = currentTerm[i] + 1
    <3>1. GrantedTo(i)' = {}
      BY <2>1, <2>2, <2>3 DEF GrantedTo
    <3>2. CurrentVotes(i)' = {i}
      BY <2>6 DEF CurrentVotes
    <3>3. /\ votedFor'[i] = i /\ state'[i] = "Candidate"
          /\ currentTerm'[i] = currentTerm[i] + 1
      BY <2>4 DEF TypeOK
    <3>4. votesReceived'[i] # <<>>
      BY <2>5, <2>6, SMTT(30)
    <3>5. SupportersPledged(i)'
      BY <3>1, <3>2, <3>3, <3>4 DEF SupportersPledged, Pledged, Supporters
    <3>6. NoStaleVoteCalls(i)'
      BY <2>1, <2>2, <2>3, <2>6, <3>3 DEF NoStaleVoteCalls
    <3>7. WonByMajority(i)'
      BY <3>3 DEF WonByMajority
    <3> QED BY <3>1, <3>2, <3>3, <3>5, <3>6, <3>7 DEF Supporters
  <2>8. ASSUME NEW j \in Server, j # i
        PROVE  /\ SupportersPledged(j)' /\ NoStaleVoteCalls(j)' /\ WonByMajority(j)'
               /\ Supporters(j)' \subseteq Supporters(j)
               /\ (Active(j)' <=> Active(j)) /\ currentTerm'[j] = currentTerm[j]
    <3>1. /\ state'[j] = state[j] /\ currentTerm'[j] = currentTerm[j]
          /\ votedFor'[j] = votedFor[j] /\ votesReceived'[j] = votesReceived[j]
      BY <2>4, <2>5, <2>8 DEF TypeOK
    <3>2. \A c \in voteCalls' :
              c.caller = j /\ c.stage # "orphan" => c \in voteCalls
      BY <2>1, <2>2, <2>3, <2>8
    <3>3. GrantedTo(j)' \subseteq GrantedTo(j)
      BY <3>1, <3>2 DEF GrantedTo
    <3>4. CurrentVotes(j)' = CurrentVotes(j)
      BY <3>1 DEF CurrentVotes
    <3>5. SupportersPledged(j)'
      <4> SUFFICES ASSUME Active(j)'
                   PROVE  /\ votedFor'[j] = j /\ votesReceived'[j] # <<>>
                          /\ \A v \in Supporters(j)' : Pledged(v, j)'
        BY DEF SupportersPledged
      <4>1. Active(j)
        BY <3>1 DEF Active
      <4>2. /\ votedFor[j] = j /\ votesReceived[j] # <<>>
            /\ \A v \in Supporters(j) : Pledged(v, j)
        BY <4>1 DEF ElectionInv, SupportersPledged
      <4>3. \A v \in Supporters(j) : Pledged(v, j)'
        BY <1>0, <3>1, <4>1, <4>2, PledgeKept, SupportersAreServers DEF Supporters
      <4> QED BY <3>1, <3>3, <3>4, <4>2, <4>3 DEF Supporters
    <3>6. NoStaleVoteCalls(j)'
      BY <3>1, <3>2 DEF ElectionInv, NoStaleVoteCalls
    <3>7. WonByMajority(j)'
      BY <3>1, <3>4 DEF ElectionInv, WonByMajority
    <3> QED BY <3>1, <3>3, <3>4, <3>5, <3>6, <3>7 DEF Supporters, Active
  <2>9. ASSUME NEW j \in Server, j # i, Active(j)', currentTerm'[i] = currentTerm'[j]
        PROVE  i \notin Supporters(j)'
    <3>1. currentTerm[i] \in Nat /\ currentTerm[j] = currentTerm[i] + 1 /\ Active(j)
      BY <2>7, <2>8, <2>9 DEF TypeOK
    <3>2. ~Pledged(i, j)
      BY <3>1 DEF Pledged
    <3> QED BY <2>8, <2>9, <3>1, <3>2 DEF ElectionInv, SupportersPledged
  <2>10. ASSUME NEW j \in Server, NEW k \in Server PROVE NoCommonSupporter(j, k)'
    <3> SUFFICES ASSUME j # k, Active(j)', Active(k)', currentTerm'[j] = currentTerm'[k]
                 PROVE  Supporters(j)' \cap Supporters(k)' = {}
      BY DEF NoCommonSupporter
    <3>1. CASE j = i
      BY <2>7, <2>9, <3>1
    <3>2. CASE k = i
      BY <2>7, <2>9, <3>2
    <3>3. CASE j # i /\ k # i
      <4>1. Supporters(j) \cap Supporters(k) = {}
        BY <2>8, <3>3 DEF ElectionInv, NoCommonSupporter
      <4> QED BY <2>8, <3>3, <4>1
    <3> QED BY <3>1, <3>2, <3>3
  <2> QED BY <2>7, <2>8, <2>10 DEF ElectionInv
<1>2. ASSUME NEW c \in voteCalls, SendRequestVote(c) PROVE ElectionInv'
  <2> DEFINE d == [c EXCEPT !.stage = "request",
                       !.args = [lastLogIndex |-> LastLogIndex(log[c.caller]),
                                 lastLogTerm |-> LastLogTerm(log[c.caller])]]
  <2>1. /\ voteCalls' = (voteCalls \ {c}) \cup {d} /\ c.stage = "spawned"
        /\ UNCHANGED <<state, currentTerm, votedFor, votesReceived>>
    BY <1>2 DEF SendRequestVote
  <2>2. /\ d.stage = "request" /\ d.caller = c.caller /\ d.term = c.term
        /\ d.election = c.election
    BY DEF TypeOK, VoteCall
  <2> HIDE DEF d
  <2>3. SameRoles
    BY <2>1 DEF SameRoles, Active
  <2>4. \A i : GrantedTo(i)' \subseteq GrantedTo(i)
    BY <2>1, <2>2 DEF GrantedTo
  <2>5. \A e \in voteCalls' : e.stage = "orphan" \/
            \E o \in voteCalls : /\ o.stage # "orphan" /\ o.caller = e.caller
                                 /\ o.term = e.term /\ o.election = e.election
    BY <2>1, <2>2
  <2> QED BY <1>0, <2>1, <2>3, <2>4, <2>5, QuietStep
<1>3. ASSUME NEW c \in voteCalls, RequestVote(c) PROVE ElectionInv'
  <2> DEFINE p == c.peer
             term == IF Newer(c.term, p) THEN c.term ELSE currentTerm[p]
             voted == IF Newer(c.term, p) THEN None ELSE votedFor[p]
             granted == Grants(c, term, voted)
             r == [term |-> term, voteGranted |-> granted]
             d == [c EXCEPT !.stage = "reply", !.args = NoVoteArgs, !.reply = r]
  <2>1. /\ state' = [state EXCEPT ![p] = IF Newer(c.term, p) THEN "Follower" ELSE @]
        /\ currentTerm' = [currentTerm EXCEPT ![p] = term]
        /\ votedFor' = [votedFor EXCEPT ![p] = IF granted THEN c.caller ELSE voted]
        /\ voteCalls' = (voteCalls \ {c}) \cup IF c.stage = "orphan" THEN {} ELSE {d}
        /\ UNCHANGED votesReceived
    BY <1>3 DEF RequestVote, AnswerVote
  <2>2. c \in VoteCall /\ p \in Server /\ c.caller \in Server /\ c.term \in Nat
        /\ currentTerm[p] \in Nat
    BY DEF TypeOK, VoteCall
  <2>3. /\ d.stage = "reply" /\ d.caller = c.caller /\ d.term = c.term /\ d.peer = p
        /\ d.election = c.election /\ (d.reply.voteGranted => granted)
    BY <2>2 DEF VoteCall
  <2>4. granted => term = c.term /\ voted \in {None, c.caller}
    BY DEF Grants
  <2> HIDE DEF d, r
  <2>5. SameRoles
    <3> SUFFICES ASSUME NEW i \in Server, Active(i)'
                 PROVE  /\ Active(i) /\ currentTerm'[i] = currentTerm[i]
                        /\ votedFor'[i] = votedFor[i] /\ state'[i] = state[i]
      BY DEF SameRoles
    <3>1. CASE i # p
      BY <2>1, <2>2, <3>1 DEF Active, TypeOK
    <3>2. CASE i = p
      <4>1. ~Newer(c.term, p)
        BY <2>1, <2>2, <3>2 DEF Active, TypeOK
      <4>2. term = currentTerm[p] /\ voted = votedFor[p]
        BY <4>1
      <4>3. state'[i] = state[i] /\ Active(i) /\ currentTerm'[i] = currentTerm[i]
        BY <2>1, <2>2, <3>2, <4>1, <4>2 DEF Active, TypeOK
      <4>4. votedFor[p] = p
        BY <3>2, <4>3 DEF ElectionInv, SupportersPledged
      <4>5. votedFor[p] # None
        BY <2>2, <4>4, ServerAssumption
      <4>6. granted => c.caller = votedFor[p]
        BY <2>4, <4>2, <4>5
      <4> HIDE DEF granted, voted, term
      <4> QED BY <2>1, <2>2, <3>2, <4>2, <4>3, <4>6 DEF TypeOK
    <3> QED BY <3>1, <3>2
  <2>6. ASSUME NEW i \in Server, Active(i)', NEW v \in GrantedTo(i)'
        PROVE  \/ v \in GrantedTo(i)
               \/ currentTerm'[v] = currentTerm'[i] /\ votedFor'[v] = i
    <3>1. PICK e \in voteCalls' : /\ e.peer = v /\ e.caller = i
                                 /\ e.term = currentTerm'[i] /\ e.stage = "reply"
                                 /\ e.reply.voteGranted
      BY DEF GrantedTo
    <3>2. CASE e \in voteCalls
      <4>1. currentTerm'[i] = currentTerm[i]
        BY <2>5, <2>6 DEF SameRoles
      <4> QED BY <3>1, <3>2, <4>1 DEF GrantedTo
    <3>3. CASE e = d
      <4>1. granted /\ v = p /\ i = c.caller /\ c.term = currentTerm'[i]
        BY <2>3, <3>1, <3>3
      <4>2. votedFor'[p] = c.caller /\ currentTerm'[p] = c.term
        BY <2>1, <2>2, <2>4, <4>1 DEF TypeOK
      <4> QED BY <4>1, <4>2
    <3> QED BY <2>1, <3>1, <3>2, <3>3
  <2>7. \A e \in voteCalls' : e.stage = "orphan" \/
            \E o \in voteCalls : /\ o.stage # "orphan" /\ o.caller = e.caller
                                 /\ o.term = e.term /\ o.election = e.election
    BY <2>1, <2>3
  <2> QED BY <1>0, <2>1, <2>5, <2>6, <2>7, QuietStep
<1>4. ASSUME NEW c \in voteCalls, RequestVoteAtDead(c) PROVE ElectionInv'
  <2> DEFINE d == [c EXCEPT !.stage = "reply", !.args = NoVoteArgs,
                            !.reply = ZeroVoteReply]
  <2>1. /\ voteCalls' = (voteCalls \ {c}) \cup IF c.stage = "orphan" THEN {} ELSE {d}
        /\ UNCHANGED <<state, currentTerm, votedFor, votesReceived>>
    BY <1>4 DEF RequestVoteAtDead, AnswerVote
  <2>2. /\ d.caller = c.caller /\ d.term = c.term /\ d.election = c.election
        /\ ~d.reply.voteGranted
    BY DEF TypeOK, VoteCall, ZeroVoteReply
  <2> HIDE DEF d
  <2>3. SameRoles
    BY <2>1 DEF SameRoles, Active
  <2>4. \A i : GrantedTo(i)' \subseteq GrantedTo(i)
    BY <2>1, <2>2 DEF GrantedTo
  <2>5. \A e \in voteCalls' : e.stage = "orphan" \/
            \E o \in voteCalls : /\ o.stage # "orphan" /\ o.caller = e.caller
                                 /\ o.term = e.term /\ o.election = e.election
    BY <2>1, <2>2
  <2> QED BY <1>0, <2>1, <2>3, <2>4, <2>5, QuietStep
<1>5. ASSUME NEW c \in voteCalls, HandleVoteReply(c) PROVE ElectionInv'
  <2> DEFINE i == c.caller
             counted == votesReceived[i][c.election] \cup {c.peer}
  <2>1. /\ voteCalls' = voteCalls \ {c} /\ c.stage = "reply"
        /\ c \in VoteCall /\ i \in Server /\ c.peer \in Server
    BY <1>5 DEF HandleVoteReply, TypeOK, VoteCall
  <2>2. \A e \in voteCalls' : e.stage = "orphan" \/
            \E o \in voteCalls : /\ o.stage # "orphan" /\ o.caller = e.caller
                                 /\ o.term = e.term /\ o.election = e.election
    BY <2>1
  <2>3. CASE UNCHANGED <<state, currentTerm, votedFor, votesReceived>>
    <3>1. SameRoles
      BY <2>3 DEF SameRoles, Active
    <3>2. \A j : GrantedTo(j)' \subseteq GrantedTo(j)
      BY <2>1, <2>3 DEF GrantedTo
    <3> QED BY <1>0, <2>2, <2>3, <3>1, <3>2, QuietStep
  <2>4. CASE BecomeFollower(i, c.reply.term) /\ UNCHANGED votesReceived
    <3>1. SameRoles
      BY <2>1, <2>4 DEF BecomeFollower, SameRoles, Active, TypeOK
    <3>2. \A j \in Server : Active(j)' => GrantedTo(j)' \subseteq GrantedTo(j)
      BY <2>1, <3>1 DEF GrantedTo, SameRoles
    <3> QED BY <1>0, <2>2, <2>4, <3>1, <3>2, QuietStep
  <2>5. CASE /\ state[i] = "Candidate" /\ c.reply.term = c.term /\ c.reply.voteGranted
             /\ votesReceived' = [votesReceived EXCEPT ![i][c.election] = counted]
             /\ UNCHANGED <<currentTerm, votedFor>>
             /\ \/ /\ 2 * Cardinality(counted) > Cardinality(Peers(i)) + 1
                   /\ state' = [state EXCEPT ![i] = "Leader"]
                \/ UNCHANGED state
    <3>1. c.term = currentTerm[i] /\ c.election = Len(votesReceived[i])
      BY <2>1, <2>5 DEF ElectionInv, NoStaleVoteCalls
    <3>2. /\ votedFor[i] = i /\ votesReceived[i] # <<>>
          /\ \A v \in Supporters(i) : Pledged(v, i)
      BY <2>1, <2>5 DEF ElectionInv, SupportersPledged, Active
    <3>3. c.peer \in GrantedTo(i)
      BY <2>1, <2>5, <3>1 DEF GrantedTo
    <3>4. /\ Len(votesReceived'[i]) = Len(votesReceived[i])
          /\ CurrentVotes(i)' = counted /\ votesReceived'[i] # <<>>
          /\ counted = CurrentVotes(i) \cup {c.peer}
      <4> DEFINE vs == votesReceived[i]
      <4>1. vs \in Seq(SUBSET Server) /\ Len(vs) \in 1..Len(vs)
        <5>1. vs \in Seq(SUBSET Server)
          BY <2>1 DEF TypeOK
        <5>2. vs # <<>>
          BY <3>2
        <5> HIDE DEF vs
        <5> QED BY <5>1, <5>2
      <4>2. votesReceived'[i] = [vs EXCEPT ![Len(vs)] = counted]
        BY <2>1, <2>5, <3>1 DEF TypeOK
      <4>3. counted = CurrentVotes(i) \cup {c.peer}
        BY <3>1 DEF CurrentVotes
      <4>4. CurrentVotes(i) \subseteq Server
        BY <2>1, <3>2, SupportersAreServers
      <4>5. counted \in SUBSET Server
        BY <2>1, <4>3, <4>4
      <4> HIDE DEF vs, counted
      <4>6. Len(votesReceived'[i]) = Len(vs) /\ votesReceived'[i][Len(vs)] = counted
        BY <4>1, <4>2, <4>5, ExceptSeq
      <4>7. votesReceived'[i] # <<>>
        BY <4>1, <4>6
      <4> QED BY <4>3, <4>6, <4>7 DEF CurrentVotes, vs
    <3> HIDE DEF counted
    <3>5. \A j \in Server \ {i} : /\ votesReceived'[j] = votesReceived[j]
                                /\ state'[j] = state[j]
      BY <2>1, <2>5 DEF TypeOK
    <3>6. state'[i] \in {"Candidate", "Leader"}
      BY <2>1, <2>5 DEF TypeOK
    <3>7. \A j : GrantedTo(j)' \subseteq GrantedTo(j)
      BY <2>1, <2>5 DEF GrantedTo
    <3>8. \A v, j : Pledged(v, j)' <=> Pledged(v, j)
      BY <2>5 DEF Pledged
    <3>9. /\ SupportersPledged(i)' /\ NoStaleVoteCalls(i)' /\ WonByMajority(i)'
          /\ Supporters(i)' \subseteq Supporters(i) /\ Active(i)
      <4>1. SupportersPledged(i)'
        BY <2>5, <3>2, <3>3, <3>4, <3>7, <3>8 DEF SupportersPledged, Supporters
      <4>2. NoStaleVoteCalls(i)'
        BY <2>1, <2>5, <3>4 DEF ElectionInv, NoStaleVoteCalls
      <4>3. Cardinality(Server) = Cardinality(Peers(i)) + 1
        <5>1. IsFiniteSet(Server) /\ i \in Server
          BY <2>1, ServerAssumption
        <5>2. Cardinality(Server) \in Nat
          BY <5>1, FS_CardinalityType
        <5>3. Cardinality(Peers(i)) = Cardinality(Server) - 1
          BY <5>1, FS_RemoveElement DEF Peers
        <5> HIDE DEF i
        <5> QED BY <5>2, <5>3
      <4>4. WonByMajority(i)'
        BY <2>1, <2>5, <3>4, <4>3 DEF WonByMajority
      <4>5. Supporters(i)' \subseteq Supporters(i) /\ Active(i)
        BY <2>5, <3>3, <3>4, <3>7 DEF Supporters, Active
      <4> QED BY <4>1, <4>2, <4>4, <4>5
    <3>10. ASSUME NEW j \in Server, j # i
           PROVE  /\ SupportersPledged(j)' /\ NoStaleVoteCalls(j)' /\ WonByMajority(j)'
                  /\ Supporters(j)' \subseteq Supporters(j)
                  /\ (Active(j)' <=> Active(j))
      <4>1. /\ CurrentVotes(j)' = CurrentVotes(j) /\ votesReceived'[j] = votesReceived[j]
            /\ state'[j] = state[j] /\ (Active(j)' <=> Active(j))
        BY <3>5, <3>10 DEF CurrentVotes, Active
      <4>2. SupportersPledged(j)'
        BY <2>5, <3>7, <3>8, <4>1 DEF ElectionInv, SupportersPledged, Supporters
      <4>3. NoStaleVoteCalls(j)'
        <5>1. currentTerm'[j] = currentTerm[j]
              /\ Len(votesReceived'[j]) = Len(votesReceived[j])
          BY <2>5, <4>1
        <5> QED BY <2>1, <4>1, <5>1 DEF ElectionInv, NoStaleVoteCalls
      <4>4. WonByMajority(j)'
        BY <4>1 DEF ElectionInv, WonByMajority
      <4> QED BY <3>7, <4>1, <4>2, <4>3, <4>4 DEF Supporters
    <3>11. \A j, k \in Server : NoCommonSupporter(j, k)'
      <4>1. \A j \in Server : /\ Supporters(j)' \subseteq Supporters(j)
                              /\ Active(j)' => Active(j)
        BY <2>1, <3>9, <3>10
      <4> QED BY <2>5, <4>1 DEF ElectionInv, NoCommonSupporter
    <3> QED BY <2>1, <3>9, <3>10, <3>11 DEF ElectionInv
  <2> QED BY <1>5, <2>3, <2>4, <2>5 DEF HandleVoteReply, StartLeader
<1>6. ASSUME NEW c \in appendCalls, AppendEntries(c) PROVE ElectionInv'
  <2>1. c.peer \in Server /\ c.term \in Nat
    BY DEF TypeOK, AppendCall
  <2>2. UNCHANGED <<votesReceived, voteCalls>>
    BY <1>6 DEF AppendEntries
  <2>3. SameRoles
    BY <1>6, <2>1, ZenonT(30) DEF AppendEntries, BecomeFollower, SameRoles, Active, TypeOK
  <2> QED BY <1>0, <2>2, <2>3, CallsUntouched
<1>7. ASSUME NEW c \in appendCalls, HandleAppendReply(c) PROVE ElectionInv'
  <2>1. c.caller \in Server
    BY DEF TypeOK, AppendCall
  <2>2. UNCHANGED <<votesReceived, voteCalls>>
    BY <1>7 DEF HandleAppendReply
  <2>3. SameRoles
    BY <1>7, <2>1 DEF HandleAppendReply, BecomeFollower, SameRoles, Active, TypeOK
  <2> QED BY <1>0, <2>2, <2>3, CallsUntouched
<1>8. ASSUME NEW i \in Server, Stop(i) PROVE ElectionInv'
  <2>1. UNCHANGED <<votesReceived, voteCalls>>
    BY <1>8 DEF Stop
  <2>2. SameRoles
    BY <1>8 DEF Stop, SameRoles, Active, TypeOK
  <2> QED BY <1>0, <2>1, <2>2, CallsUntouched
<1>9. CASE UNCHANGED <<state, currentTerm, votedFor, votesReceived, voteCalls>>
  <2>1. SameRoles
    BY <1>9 DEF SameRoles, Active
  <2> QED BY <1>0, <1>9, <2>1, CallsUntouched
<1> QED
  BY <1>1, <1>2, <1>3, <1>4, <1>5, <1>6, <1>7, <1>8, <1>9
  DEF Next, vars, Submit, LeaderSendHeartbeats, SendAppendEntries,
      AppendEntriesAtDead, AppendEntriesFails

(* The election invariant puts at most one leader into a term: two majorities *)
(* share a server, and nobody supports two servers of a term.                 *)
LEMMA InvImpliesElectionSafety ==
    ASSUME TypeOK, ElectionInv PROVE ElectionSafety
<1> SUFFICES ASSUME NEW i \in Server, NEW j \in Server, i # j,
                    state[i] = "Leader", state[j] = "Leader",
                    currentTerm[i] = currentTerm[j]
             PROVE  FALSE
  BY DEF ElectionSafety
<1>1. votesReceived[i] # <<>> /\ votesReceived[j] # <<>>
  BY DEF ElectionInv, SupportersPledged, Active
<1>2. CurrentVotes(i) \subseteq Server /\ CurrentVotes(j) \subseteq Server
  BY <1>1, SupportersAreServers
<1>3. /\ 2 * Cardinality(CurrentVotes(i)) > Cardinality(Server)
      /\ 2 * Cardinality(CurrentVotes(j)) > Cardinality(Server)
  BY DEF ElectionInv, WonByMajority
<1>4. /\ Cardinality(CurrentVotes(i)) \in Nat /\ Cardinality(CurrentVotes(j)) \in Nat
      /\ Cardinality(Server) \in Nat
  BY <1>2, ServerAssumption, FS_Subset, FS_CardinalityType
<1>5. CurrentVotes(i) \cap CurrentVotes(j) # {}
  BY <1>2, <1>3, <1>4, ServerAssumption, FS_MajoritiesIntersect
<1>6. Supporters(i) \cap Supporters(j) = {}
  BY DEF ElectionInv, NoCommonSupporter, Active
<1> QED BY <1>5, <1>6 DEF Supporters

(* With prompt replies the election invariant holds in every reachable state. *)
THEOREM ElectionInvariant == ASSUME PromptReplies PROVE Spec => []ElectionInv
<1>1. Init => ElectionInv
  BY DEF Init, ElectionInv, SupportersPledged, NoStaleVoteCalls, WonByMajority,
        NoCommonSupporter, Active
<1>2. TypeOK /\ TypeOK' /\ ElectionInv /\ [Next]_vars => ElectionInv'
  BY ElectionInvStep
<1> QED BY <1>1, <1>2, TypeCorrect, PTL DEF Spec

(* With prompt replies no term has two leaders, for any number of servers,    *)
(* elections, heartbeats and calls under way, whether servers are stopped and *)
(* revived, requests are overwritten while they are encoded, or run late.     *)
THEOREM ElectionSafe == ASSUME PromptReplies PROVE Spec => []ElectionSafety
BY InvImpliesElectionSafety, ElectionInvariant, TypeCorrect, PTL

(* With prompt replies no server's term ever decreases.                       *)
THEOREM TermsNeverDecrease == ASSUME PromptReplies PROVE Spec => TermMonotone
<1>1. TypeOK /\ ElectionInv /\ [Next]_vars
        => [\A i \in Server : currentTerm'[i] >= currentTerm[i]]_vars
  BY NextVoteStep DEF VoteStep
<1> QED BY <1>1, ElectionInvariant, TypeCorrect, PTL DEF Spec, TermMonotone
=============================================================================
