------------------------- MODULE LogMatching_proofs -------------------------
(***************************************************************************)
(* Why the logs of Replication match: every reachable state has a history  *)
(* that fits it (LogInv), for any number of servers, elections, commands   *)
(* and calls under way. The history grows by a log when a leader starts    *)
(* and by an entry when a command is submitted; no other step changes it.  *)
(***************************************************************************)
EXTENDS ReplicationHistory, Replication_proofs

(* Logs traced to the leaders that have an entry of one term in one place  *)
(* are the same up to there.                                               *)
LEMMA SameTermAgree ==
    ASSUME NEW lead, NEW l1 \in Seq(Entry), NEW l2 \in Seq(Entry),
           Traced(l1, lead), Traced(l2, lead),
           NEW k \in Nat, k > 0, k <= Len(l1), k <= Len(l2), l1[k].term = l2[k].term
    PROVE  Agree(l1, l2, k)
<1>1. Agree(l1, lead[l1[k].term], k) /\ Agree(l2, lead[l1[k].term], k)
  BY DEF Traced
<1> QED BY <1>1 DEF Agree

(* Agreement is passed on.                                                 *)
LEMMA AgreeTransitive ==
    ASSUME NEW l1, NEW l2, NEW l3, NEW m \in Nat, NEW n \in Nat,
           Len(l1) \in Nat, Len(l2) \in Nat, Len(l3) \in Nat,
           Agree(l1, l2, m), Agree(l2, l3, n), m <= n
    PROVE  Agree(l1, l3, m)
BY DEF Agree

(* The insertion loop of AppendEntries: run on a request that carries a    *)
(* traced log, it makes a log that agrees with the request and breaks off  *)
(* no agreement there was.                                                 *)
LEMMA SplicedAgrees ==
    ASSUME NEW lead, NEW l \in Seq(Entry), NEW from \in Seq(Entry),
           Traced(l, lead), Traced(from, lead),
           NEW c \in AppendCall, Carries(c, from),
           HasPrev(l, c.args.prevLogIndex, c.args.prevLogTerm),
           NEW new, new = Spliced(l, c.args.prevLogIndex, c.args.entries)
    PROVE  /\ new \in Seq(Entry)
           /\ Agree(new, from, c.ni + c.sent)
           /\ new = l \/ Len(new) = c.ni + c.sent
           /\ \A m \in Nat : Agree(l, from, m) => Agree(new, from, m)
<1> DEFINE prev == c.args.prevLogIndex
           es == c.args.entries
           ni == c.ni
           n == c.sent
<1>1. /\ ni \in Nat /\ n \in Nat /\ es \in Seq(Entry) /\ prev = ni - 1 /\ n = Len(es)
      /\ ni + n <= Len(from) /\ Len(from) \in Nat /\ Len(l) \in Nat
      /\ ni > 0 => c.args.prevLogTerm = from[ni].term
      /\ \A k \in 1..n : es[k] = from[ni + k]
  BY DEF AppendCall, AppendArgs, Carries
<1>0. /\ HasPrev(l, prev, c.args.prevLogTerm) /\ new = Spliced(l, prev, es)
      /\ c.ni = ni /\ c.sent = n
  OBVIOUS
<1> HIDE DEF prev, es, ni, n
<1>2. ni <= Len(l) /\ Agree(l, from, ni)
  <2>1. CASE ni = 0
    BY <1>1, <2>1 DEF Agree
  <2>2. CASE ni > 0
    <3>1. ni <= Len(l) /\ l[ni].term = from[ni].term
      BY <1>0, <1>1, <2>2 DEF HasPrev, EntryTerm
    <3> QED BY <1>1, <2>2, <3>1, SameTermAgree
  <2> QED BY <1>1, <2>1, <2>2
<1>3. ASSUME NEW k \in Nat, k <= n, Agrees(l, prev, es, k)
      PROVE  Agree(l, from, ni + k)
  <2>1. CASE k = 0
    BY <1>1, <1>2, <2>1
  <2>2. CASE k > 0
    <3>1. ni + k <= Len(l) /\ \A m \in 1..k : l[ni + m].term = es[m].term
      BY <1>1, <1>3 DEF Agrees
    <3>2. l[ni + k].term = from[ni + k].term
      <4>1. k \in 1..k /\ k \in 1..n
        BY <1>1, <1>3, <2>2
      <4> QED BY <1>1, <3>1, <4>1
    <3>3. ni + k \in Nat /\ ni + k > 0 /\ ni + k <= Len(from)
      BY <1>1, <1>3, <2>2
    <3> QED BY <3>1, <3>2, <3>3, SameTermAgree
  <2> QED BY <2>1, <2>2
<1>4. ASSUME NEW m \in Nat, Agree(l, from, m), m >= ni + n PROVE Agrees(l, prev, es, n)
  <2>1. ni + n <= Len(l) /\ \A k \in 1..m : l[k] = from[k]
    BY <1>1, <1>4 DEF Agree
  <2>2. ASSUME NEW k \in 1..n PROVE l[ni + k].term = es[k].term
    <3>1. ni + k \in 1..m
      BY <1>1, <1>4
    <3> QED BY <1>1, <2>1, <3>1
  <2>3. prev + 1 = ni
    BY <1>1
  <2> QED BY <2>1, <2>2, <2>3 DEF Agrees
<1>5. prev \in Int /\ prev >= -1 /\ prev < Len(l)
  BY <1>1, <1>2
<1>6. new \in Seq(Entry)
  BY <1>0, <1>1, <1>5, SplicedType
<1>7. CASE Agrees(l, prev, es, n)
  <2>1. new = l
    BY <1>0, <1>1, <1>7 DEF Spliced
  <2>2. Agree(l, from, ni + n)
    BY <1>1, <1>3, <1>7
  <2> QED BY <1>0, <1>6, <2>1, <2>2
<1>8. CASE ~Agrees(l, prev, es, n)
  <2>1. new = [k \in 1..(ni + n) |->
                 IF k <= ni \/ Agrees(l, prev, es, k - ni) THEN l[k] ELSE es[k - ni]]
    <3>1. new = [k \in 1..(prev + 1 + n) |->
                   IF k <= prev + 1 \/ Agrees(l, prev, es, k - prev - 1)
                   THEN l[k] ELSE es[k - prev - 1]]
      BY <1>0, <1>1, <1>8 DEF Spliced
    <3>2. prev + 1 = ni /\ \A k \in 1..(ni + n) : k - prev - 1 = k - ni
      BY <1>1
    <3> QED BY <3>1, <3>2
  <2>2. Len(new) = ni + n
    BY <1>1, <1>6, <2>1
  <2>3. ASSUME NEW k \in 1..(ni + n) PROVE new[k] = from[k]
    <3>1. k \in Nat /\ k <= ni + n /\ k > 0
      BY <1>1
    <3>2. CASE k <= ni
      BY <1>2, <2>1, <3>1, <3>2 DEF Agree
    <3>3. CASE k > ni /\ Agrees(l, prev, es, k - ni)
      <4>1. Agree(l, from, ni + (k - ni))
        <5>1. k - ni \in Nat /\ k - ni <= n
          BY <1>1, <3>1, <3>3
        <5> QED BY <1>3, <3>3, <5>1
      <4>2. ni + (k - ni) = k
        BY <1>1, <3>1
      <4> QED BY <2>1, <3>1, <3>3, <4>1, <4>2 DEF Agree
    <3>4. CASE k > ni /\ ~Agrees(l, prev, es, k - ni)
      <4>1. new[k] = es[k - ni]
        BY <1>1, <2>1, <3>1, <3>4
      <4>2. k - ni \in 1..n /\ ni + (k - ni) = k
        BY <1>1, <3>1, <3>4
      <4> QED BY <1>1, <4>1, <4>2
    <3> QED BY <1>1, <3>1, <3>2, <3>3, <3>4
  <2>4. Agree(new, from, ni + n)
    BY <1>1, <2>2, <2>3 DEF Agree
  <2>5. ASSUME NEW m \in Nat, Agree(l, from, m) PROVE Agree(new, from, m)
    <3>1. m < ni + n
      BY <1>1, <1>4, <1>8, <2>5
    <3> QED BY <1>1, <2>4, <3>1 DEF Agree
  <2> QED BY <1>0, <1>6, <2>2, <2>4, <2>5
<1> QED BY <1>0, <1>7, <1>8

(* So that log, too, is traced to the leaders.                             *)
LEMMA SplicedTraced ==
    ASSUME NEW lead, NEW l \in Seq(Entry), NEW from \in Seq(Entry),
           Traced(l, lead), Traced(from, lead),
           NEW c \in AppendCall, Carries(c, from),
           HasPrev(l, c.args.prevLogIndex, c.args.prevLogTerm),
           NEW new, new = Spliced(l, c.args.prevLogIndex, c.args.entries)
    PROVE  Traced(new, lead)
<1>1. /\ Agree(new, from, c.ni + c.sent)
      /\ new = l \/ Len(new) = c.ni + c.sent
  BY SplicedAgrees
<1>2. CASE new = l
  BY <1>2
<1>3. CASE Len(new) = c.ni + c.sent
  <2> SUFFICES ASSUME NEW k \in 1..Len(new) PROVE Agree(new, lead[new[k].term], k)
    BY DEF Traced
  <2>1. Len(new) \in Nat /\ Len(from) \in Nat
    BY <1>3 DEF AppendCall
  <2>2. new[k] = from[k] /\ k \in 1..Len(from)
    BY <1>1, <1>3, <2>1 DEF Agree
  <2>3. Agree(from, lead[from[k].term], k)
    BY <2>2 DEF Traced
  <2> QED BY <1>1, <1>3, <2>1, <2>2, <2>3 DEF Agree
<1> QED BY <1>1, <1>2, <1>3

-----------------------------------------------------------------------------
(* The logs of the leaders only grow.                                      *)
Grows(lead, lead2) == \A t \in Nat : Agree(lead[t], lead2[t], Len(lead[t]))

(* What a step may do to a history: a server that was a candidate wins its *)
(* term with the log it has; the leader of a term adds an entry of it.     *)
HistoryStep(lead, winner, won, lead2, winner2, won2) ==
    /\ Grows(lead, lead2)
    /\ \A t \in Nat : winner[t] # None => winner2[t] = winner[t] /\ won2[t] = won[t]
    /\ \A t \in Nat : \A i \in Server : winner[t] = None /\ winner2[t] = i =>
          /\ state[i] = "Candidate" /\ currentTerm[i] = t
          /\ state'[i] = "Leader" /\ currentTerm'[i] = t
          /\ won2[t] \subseteq Supporters(i)
          /\ lead2[t] = log[i]
    /\ \A t \in Nat : winner[t] # None /\ lead2[t] # lead[t] =>
          /\ state[winner[t]] = "Leader" /\ currentTerm[winner[t]] = t
          /\ \E e \in Entry : e.term = t /\ lead2[t] = Append(lead[t], e)

LEMMA HistoryTypes ==
    ASSUME NEW lead \in [Nat -> Seq(Entry)], NEW t \in Nat
    PROVE  lead[t] \in Seq(Entry) /\ Len(lead[t]) \in Nat
<1>1. lead[t] \in Seq(Entry)
  OBVIOUS
<1> QED BY <1>1, LenProperties

LEMMA AgreeGrows ==
    ASSUME NEW lead \in [Nat -> Seq(Entry)], NEW lead2 \in [Nat -> Seq(Entry)],
           Grows(lead, lead2), NEW t \in Nat, NEW m \in Nat, NEW l \in Seq(Entry),
           Agree(l, lead[t], m)
    PROVE  Agree(l, lead2[t], m)
<1>1. lead[t] \in Seq(Entry) /\ lead2[t] \in Seq(Entry)
  OBVIOUS
<1>2. Agree(lead[t], lead2[t], Len(lead[t]))
  BY DEF Grows
<1>3. m <= Len(lead[t])
  BY DEF Agree
<1>4. Len(l) \in Nat
  OBVIOUS
<1>5. Len(lead[t]) \in Nat
  BY <1>1
<1>6. Len(lead2[t]) \in Nat
  BY <1>1
<1> QED BY <1>2, <1>3, <1>4, <1>5, <1>6, AgreeTransitive

LEMMA TracedGrows ==
    ASSUME NEW lead \in [Nat -> Seq(Entry)], NEW lead2 \in [Nat -> Seq(Entry)],
           Grows(lead, lead2), NEW l \in Seq(Entry), Traced(l, lead)
    PROVE  Traced(l, lead2)
<1> SUFFICES ASSUME NEW k \in 1..Len(l) PROVE Agree(l, lead2[l[k].term], k)
  BY DEF Traced
<1>1. l[k] \in Entry /\ k \in Nat
  BY ElementOfSeq
<1>2. l[k].term \in Nat
  BY <1>1 DEF Entry
<1>3. Agree(l, lead[l[k].term], k)
  BY DEF Traced
<1> QED BY <1>1, <1>2, <1>3, AgreeGrows

LEMMA CarriesExtended ==
    ASSUME NEW from \in Seq(Entry), NEW longer \in Seq(Entry),
           Agree(from, longer, Len(from)), NEW c \in AppendCall, Carries(c, from)
    PROVE  Carries(c, longer)
<1>1. /\ c.ni \in Nat /\ c.sent \in Nat /\ Len(from) \in Nat /\ Len(longer) \in Nat
      /\ c.ni + c.sent <= Len(from)
  BY DEF AppendCall, Carries
<1>2. /\ Len(from) <= Len(longer)
      /\ \A k \in 1..Len(from) : longer[k] = from[k]
  BY <1>1 DEF Agree
<1>3. c.ni > 0 => longer[c.ni] = from[c.ni]
  <2>1. c.ni > 0 => c.ni \in 1..Len(from)
    BY <1>1
  <2> QED BY <1>2, <2>1
<1>4. ASSUME NEW k \in 1..c.sent PROVE longer[c.ni + k] = from[c.ni + k]
  <2>1. c.ni + k \in 1..Len(from)
    BY <1>1
  <2> QED BY <1>2, <2>1
<1>5. c.ni + c.sent <= Len(longer)
  BY <1>1, <1>2
<1> QED BY <1>3, <1>4, <1>5 DEF Carries

LEMMA CarriesGrows ==
    ASSUME NEW lead \in [Nat -> Seq(Entry)], NEW lead2 \in [Nat -> Seq(Entry)],
           Grows(lead, lead2), NEW t \in Nat, NEW c \in AppendCall,
           Carries(c, lead[t])
    PROVE  Carries(c, lead2[t])
<1>1. lead[t] \in Seq(Entry) /\ lead2[t] \in Seq(Entry)
  OBVIOUS
<1>2. Agree(lead[t], lead2[t], Len(lead[t]))
  BY DEF Grows
<1> QED BY <1>1, <1>2, CarriesExtended

(* A log changes where a command is submitted, and where AppendEntries     *)
(* accepts a request.                                                      *)
Accepts(c) ==
    /\ c.stage \in {"request", "orphan"}
    /\ c.term >= currentTerm[c.peer]
    /\ HasPrev(log[c.peer], c.args.prevLogIndex, c.args.prevLogTerm)
    /\ currentTerm'[c.peer] = c.term /\ state'[c.peer] = "Follower"
    /\ log' = [log EXCEPT ![c.peer] =
                  Spliced(log[c.peer], c.args.prevLogIndex, c.args.entries)]
    /\ SameRoles

LEMMA AcceptStep ==
    ASSUME TypeOK, NEW c \in appendCalls, AppendEntries(c),
           c.term >= currentTerm[c.peer],
           HasPrev(log[c.peer], c.args.prevLogIndex, c.args.prevLogTerm)
    PROVE  AcceptEntries(c) /\ Accepts(c)
<1> USE DEF serverVars, logVars
<1>0. AcceptEntries(c)
  BY DEF AppendEntries
<1>1. c.peer \in Server /\ c.term \in Nat /\ currentTerm[c.peer] \in Nat
  BY DEF TypeOK, AppendCall
<1>2. currentTerm'[c.peer] = c.term
  BY <1>1 DEF AppendEntries, BecomeFollower, Newer, TypeOK
<1>3. SameRoles
  BY <1>1 DEF AppendEntries, BecomeFollower, SameRoles, Active, TypeOK
<1>4. c.stage \in {"request", "orphan"}
  BY DEF AppendEntries
<1>5. state'[c.peer] = "Follower"
  BY <1>1 DEF AppendEntries, BecomeFollower, Newer, TypeOK
<1> QED BY <1>0, <1>2, <1>3, <1>4, <1>5 DEF Accepts, AcceptEntries

LEMMA LogChanges ==
    ASSUME TypeOK, [Next]_vars
    PROVE  \/ UNCHANGED log
           \/ \E i \in Server : Submit(i)
           \/ \E c \in appendCalls : Accepts(c)
<1> USE DEF serverVars, logVars
<1>1. ASSUME NEW c \in appendCalls, AppendEntries(c)
      PROVE  UNCHANGED log \/ Accepts(c)
  <2>1. CASE /\ c.term >= currentTerm[c.peer]
             /\ HasPrev(log[c.peer], c.args.prevLogIndex, c.args.prevLogTerm)
    BY <1>1, <2>1, AcceptStep
  <2>2. CASE ~(/\ c.term >= currentTerm[c.peer]
               /\ HasPrev(log[c.peer], c.args.prevLogIndex, c.args.prevLogTerm))
    BY <1>1, <2>2 DEF AppendEntries
  <2> QED BY <2>1, <2>2
<1> QED BY <1>1 DEF Next, vars, ElectionTimeout, LeaderSendHeartbeats, Stop,
      SendRequestVote, RequestVote, RequestVoteAtDead, HandleVoteReply,
      SendAppendEntries, AppendEntriesAtDead, HandleAppendReply, AppendEntriesFails

-----------------------------------------------------------------------------
(* Where a candidate's or leader's supporters come from: it had them in    *)
(* the same election, or they have voted in this step, or the election has *)
(* just begun.                                                             *)
Persuades(c, i, v) ==
    /\ c.stage = "request" /\ c.caller = i /\ c.peer = v
    /\ UpToDate(c.args.lastLogTerm, c.args.lastLogIndex, log[v])

Continues(i) ==
    /\ Active(i) /\ currentTerm'[i] = currentTerm[i]
    /\ state'[i] = state[i] \/ state[i] = "Candidate"
    /\ \A v \in Supporters(i)' :
          \/ v \in Supporters(i)
          \/ /\ currentTerm'[v] = currentTerm[i] /\ state'[i] = state[i]
             /\ UNCHANGED log
             /\ \E c \in voteCalls : Persuades(c, i, v)

Begins(i) ==
    /\ state'[i] = "Candidate" /\ currentTerm'[i] = currentTerm[i] + 1
    /\ Supporters(i)' = {i}
    /\ appendCalls' \in Abandoned(appendCalls, i)

LEMMA SupportersStep ==
    ASSUME PromptReplies, TypeOK, TypeOK', ElectionInv, [Next]_vars,
           NEW i \in Server, Active(i)'
    PROVE  Continues(i) \/ Begins(i)
<1> USE DEF serverVars, logVars, leaderVars
<1>1. ASSUME NEW j \in Server, ElectionTimeout(j) PROVE Continues(i) \/ Begins(i)
  <2> DEFINE call(p) ==
            [caller |-> j, peer |-> p, election |-> Len(votesReceived[j]) + 1,
             term |-> currentTerm[j] + 1, stage |-> "spawned",
             args |-> NoVoteArgs, reply |-> ZeroVoteReply]
  <2>1. PICK targets \in SUBSET Peers(j), rest \in Abandoned(voteCalls, j) :
            voteCalls' = rest \cup {call(p) : p \in targets}
    BY <1>1 DEF ElectionTimeout
  <2>2. /\ \A c \in rest : c \in voteCalls \/ c.stage = "orphan"
        /\ \A c \in rest : c.caller = j => c.stage = "orphan"
    <3>1. voteCalls \in SUBSET VoteCall
      BY DEF TypeOK
    <3> QED BY <3>1, AbandonedVotes
  <2>3. \A p : call(p).caller = j /\ call(p).stage = "spawned"
    OBVIOUS
  <2> HIDE DEF call
  <2>4. /\ state' = [state EXCEPT ![j] = "Candidate"]
        /\ currentTerm' = [currentTerm EXCEPT ![j] = currentTerm[j] + 1]
        /\ votesReceived' = [votesReceived EXCEPT ![j] =
               Append([e \in 1..Len(votesReceived[j]) |-> {}], {j})]
        /\ appendCalls' \in Abandoned(appendCalls, j)
    BY <1>1 DEF ElectionTimeout
  <2>5. CASE i = j
    <3> DEFINE old == [e \in 1..Len(votesReceived[i]) |-> {}]
    <3>1. old \in Seq(SUBSET Server)
      <4>1. Len(votesReceived[i]) \in Nat
        BY DEF TypeOK
      <4> QED BY <4>1
    <3>2. votesReceived'[i] = Append(old, {i})
      BY <2>4, <2>5 DEF TypeOK
    <3> HIDE DEF old
    <3>3. CurrentVotes(i)' = {i}
      BY <3>1, <3>2 DEF CurrentVotes
    <3>4. GrantedTo(i)' = {}
      BY <2>1, <2>2, <2>3, <2>5 DEF GrantedTo
    <3> QED BY <2>4, <2>5, <3>3, <3>4 DEF Begins, Supporters, TypeOK
  <2>6. CASE i # j
    <3>1. /\ state'[i] = state[i] /\ currentTerm'[i] = currentTerm[i]
          /\ votesReceived'[i] = votesReceived[i]
      BY <2>4, <2>6 DEF TypeOK
    <3>2. GrantedTo(i)' \subseteq GrantedTo(i)
      BY <2>1, <2>2, <2>3, <2>6, <3>1 DEF GrantedTo
    <3> QED BY <3>1, <3>2 DEF Continues, Active, Supporters, CurrentVotes
  <2> QED BY <2>5, <2>6
<1>2. ASSUME NEW c \in voteCalls, RequestVote(c) PROVE Continues(i)
  <2> DEFINE p == c.peer
             term == IF Newer(c.term, p) THEN c.term ELSE currentTerm[p]
             voted == IF Newer(c.term, p) THEN None ELSE votedFor[p]
             granted == Grants(c, term, voted)
             d == [c EXCEPT !.stage = "reply", !.args = NoVoteArgs,
                            !.reply = [term |-> term, voteGranted |-> granted]]
  <2>1. /\ state' = [state EXCEPT ![p] = IF Newer(c.term, p) THEN "Follower" ELSE @]
        /\ currentTerm' = [currentTerm EXCEPT ![p] = term]
        /\ voteCalls' = (voteCalls \ {c}) \cup IF c.stage = "orphan" THEN {} ELSE {d}
        /\ UNCHANGED votesReceived
    BY <1>2 DEF RequestVote, AnswerVote
  <2>2. c \in VoteCall /\ p \in Server /\ c.term \in Nat /\ currentTerm[p] \in Nat
    BY DEF TypeOK, VoteCall
  <2>3. /\ d.caller = c.caller /\ d.term = c.term /\ d.peer = p
        /\ d.reply.voteGranted =>
              /\ term = c.term
              /\ UpToDate(c.args.lastLogTerm, c.args.lastLogIndex, log[p])
    BY <2>2 DEF VoteCall, Grants
  <2>7. UNCHANGED log
    BY <1>2 DEF RequestVote
  <2> HIDE DEF d
  <2>4. /\ Active(i) /\ currentTerm'[i] = currentTerm[i] /\ state'[i] = state[i]
    <3>1. CASE i # p
      BY <2>1, <2>2, <3>1 DEF Active, TypeOK
    <3>2. CASE i = p
      BY <2>1, <2>2, <3>2 DEF Active, TypeOK
    <3> QED BY <3>1, <3>2
  <2>5. \A v \in GrantedTo(i)' : \/ v \in GrantedTo(i)
                                 \/ currentTerm'[v] = currentTerm[i] /\ Persuades(c, i, v)
    <3> SUFFICES ASSUME NEW e \in voteCalls', e.caller = i, e.stage = "reply",
                        e.term = currentTerm'[i], e.reply.voteGranted
                 PROVE  \/ e.peer \in GrantedTo(i)
                        \/ currentTerm'[e.peer] = currentTerm[i] /\ Persuades(c, i, e.peer)
      BY DEF GrantedTo
    <3>1. CASE e \in voteCalls
      BY <2>4, <3>1 DEF GrantedTo
    <3>2. CASE e = d /\ c.stage # "orphan"
      <4>1. term = c.term /\ c.term = currentTerm[i] /\ e.peer = p
        BY <2>3, <2>4, <3>2
      <4>2. currentTerm'[p] = term
        BY <2>1, <2>2 DEF TypeOK
      <4>3. c.stage = "request" /\ c.caller = i
        BY <1>2, <2>3, <3>2 DEF RequestVote
      <4>4. UpToDate(c.args.lastLogTerm, c.args.lastLogIndex, log[p])
        BY <2>3, <3>2
      <4> QED BY <4>1, <4>2, <4>3, <4>4 DEF Persuades
    <3> QED BY <2>1, <3>1, <3>2
  <2>6. CurrentVotes(i)' = CurrentVotes(i)
    BY <2>1 DEF CurrentVotes
  <2> QED BY <2>4, <2>5, <2>6, <2>7 DEF Continues, Supporters
<1>3. ASSUME NEW c \in voteCalls, HandleVoteReply(c) PROVE Continues(i)
  <2> DEFINE j == c.caller
             counted == votesReceived[j][c.election] \cup {c.peer}
  <2>1. /\ voteCalls' = voteCalls \ {c} /\ c.stage = "reply"
        /\ c \in VoteCall /\ j \in Server /\ c.peer \in Server
    BY <1>3 DEF HandleVoteReply, TypeOK, VoteCall
  <2>2. ASSUME currentTerm'[i] = currentTerm[i] PROVE GrantedTo(i)' \subseteq GrantedTo(i)
    BY <2>1, <2>2 DEF GrantedTo
  <2>3. CASE UNCHANGED <<state, currentTerm, votesReceived>>
    BY <2>2, <2>3 DEF Continues, Active, Supporters, CurrentVotes
  <2>4. CASE BecomeFollower(j, c.reply.term) /\ UNCHANGED votesReceived
    <3>1. i # j
      BY <2>1, <2>4 DEF BecomeFollower, Active, TypeOK
    <3>2. state'[i] = state[i] /\ currentTerm'[i] = currentTerm[i]
      BY <2>1, <2>4, <3>1 DEF BecomeFollower, TypeOK
    <3> QED BY <2>2, <2>4, <3>2 DEF Continues, Active, Supporters, CurrentVotes
  <2>5. CASE /\ state[j] = "Candidate" /\ c.reply.term = c.term /\ c.reply.voteGranted
             /\ votesReceived' = [votesReceived EXCEPT ![j][c.election] = counted]
             /\ UNCHANGED currentTerm
             /\ state' = [state EXCEPT ![j] = "Leader"] \/ UNCHANGED state
    <3>1. state'[i] = state[i] \/ state[i] = "Candidate"
      BY <2>1, <2>5 DEF TypeOK
    <3>2. CASE i # j
      <4>1. votesReceived'[i] = votesReceived[i] /\ state'[i] = state[i]
        BY <2>1, <2>5, <3>2 DEF TypeOK
      <4> QED BY <2>2, <2>5, <4>1 DEF Continues, Active, Supporters, CurrentVotes
    <3>3. CASE i = j
      <4>1. c.term = currentTerm[i] /\ c.election = Len(votesReceived[i])
        BY <2>1, <2>5, <3>3 DEF ElectionInv, NoStaleVoteCalls
      <4>2. c.peer \in GrantedTo(i)
        BY <2>1, <2>5, <3>3, <4>1 DEF GrantedTo
      <4>3. CurrentVotes(i)' = CurrentVotes(i) \cup {c.peer}
        <5> DEFINE vs == votesReceived[i]
        <5>1. vs \in Seq(SUBSET Server) /\ vs # <<>>
          BY <2>5, <3>3 DEF TypeOK, ElectionInv, SupportersPledged, Active
        <5>2. counted = vs[Len(vs)] \cup {c.peer}
          BY <3>3, <4>1
        <5>3. votesReceived'[i] = [vs EXCEPT ![Len(vs)] = counted]
          BY <2>5, <3>3, <4>1 DEF TypeOK
        <5> HIDE DEF vs, counted
        <5>4. Len(vs) \in 1..Len(vs) /\ vs[Len(vs)] \in SUBSET Server
          BY <5>1, ElementOfSeq
        <5>5. counted \in SUBSET Server
          BY <2>1, <5>2, <5>4
        <5>6. Len(votesReceived'[i]) = Len(vs) /\ votesReceived'[i][Len(vs)] = counted
          BY <5>1, <5>3, <5>4, <5>5, ExceptSeq
        <5> QED BY <5>2, <5>6 DEF CurrentVotes, vs
      <4>4. Supporters(i)' \subseteq Supporters(i)
        BY <2>2, <2>5, <4>2, <4>3 DEF Supporters
      <4>5. currentTerm'[i] = currentTerm[i] /\ Active(i)
        BY <2>5, <3>3 DEF Active
      <4> QED BY <3>1, <4>4, <4>5 DEF Continues
    <3> QED BY <3>2, <3>3
  <2> QED BY <1>3, <2>3, <2>4, <2>5 DEF HandleVoteReply, StartLeader
<1>4. ASSUME SameRoles, UNCHANGED votesReceived,
             \A c \in voteCalls' : c \in voteCalls \/ ~c.reply.voteGranted
                                   \/ c.stage # "reply"
      PROVE  Continues(i)
  <2>1. /\ Active(i) /\ currentTerm'[i] = currentTerm[i] /\ state'[i] = state[i]
    BY <1>4 DEF SameRoles
  <2>2. GrantedTo(i)' \subseteq GrantedTo(i)
    BY <1>4, <2>1 DEF GrantedTo
  <2> QED BY <1>4, <2>1, <2>2 DEF Continues, Supporters, CurrentVotes
<1>5. ASSUME NEW c \in voteCalls, SendRequestVote(c) PROVE Continues(i)
  <2> DEFINE d == [c EXCEPT !.stage = "request",
                       !.args = [lastLogIndex |-> LastLogIndex(log[c.caller]),
                                 lastLogTerm |-> LastLogTerm(log[c.caller])]]
  <2>1. voteCalls' = (voteCalls \ {c}) \cup {d}
    BY <1>5 DEF SendRequestVote
  <2>2. d.stage = "request"
    BY DEF TypeOK, VoteCall
  <2> HIDE DEF d
  <2>3. SameRoles /\ UNCHANGED votesReceived
    BY <1>5 DEF SendRequestVote, SameRoles, Active
  <2> QED BY <1>4, <2>1, <2>2, <2>3
<1>6. ASSUME NEW c \in voteCalls, RequestVoteAtDead(c) PROVE Continues(i)
  <2> DEFINE d == [c EXCEPT !.stage = "reply", !.args = NoVoteArgs,
                            !.reply = ZeroVoteReply]
  <2>1. voteCalls' = (voteCalls \ {c}) \cup IF c.stage = "orphan" THEN {} ELSE {d}
    BY <1>6 DEF RequestVoteAtDead, AnswerVote
  <2>2. ~d.reply.voteGranted
    BY DEF TypeOK, VoteCall, ZeroVoteReply
  <2> HIDE DEF d
  <2>3. SameRoles /\ UNCHANGED votesReceived
    BY <1>6 DEF RequestVoteAtDead, SameRoles, Active
  <2> QED BY <1>4, <2>1, <2>2, <2>3
<1>7. ASSUME NEW c \in appendCalls, AppendEntries(c) PROVE Continues(i)
  <2>1. c.peer \in Server /\ UNCHANGED <<votesReceived, voteCalls>>
    BY <1>7 DEF TypeOK, AppendCall, AppendEntries
  <2>2. SameRoles
    BY <1>7, <2>1, ZenonT(30) DEF AppendEntries, BecomeFollower, SameRoles, Active, TypeOK
  <2> QED BY <1>4, <2>1, <2>2
<1>8. ASSUME NEW c \in appendCalls, HandleAppendReply(c) PROVE Continues(i)
  <2>1. c.caller \in Server /\ UNCHANGED <<votesReceived, voteCalls>>
    BY <1>8 DEF TypeOK, AppendCall, HandleAppendReply
  <2>2. SameRoles
    BY <1>8, <2>1, ZenonT(30) DEF HandleAppendReply, BecomeFollower, SameRoles, Active, TypeOK
  <2> QED BY <1>4, <2>1, <2>2
<1>9. ASSUME NEW j \in Server, Stop(j) PROVE Continues(i)
  <2>1. SameRoles /\ UNCHANGED <<votesReceived, voteCalls>>
    BY <1>9 DEF Stop, SameRoles, Active, TypeOK
  <2> QED BY <1>4, <2>1
<1>10. CASE UNCHANGED <<state, currentTerm, votedFor, votesReceived, voteCalls>>
  <2>1. SameRoles
    BY <1>10 DEF SameRoles, Active
  <2> QED BY <1>4, <1>10, <2>1
<1> QED
  BY <1>1, <1>2, <1>3, <1>5, <1>6, <1>7, <1>8, <1>9, <1>10
  DEF Next, vars, Submit, LeaderSendHeartbeats, SendAppendEntries,
      AppendEntriesAtDead, AppendEntriesFails

-----------------------------------------------------------------------------
(* No request reaches a leader in its own term: the sender would have won  *)
(* that term too. So a leader that stays in its term keeps its vote.       *)
LEMMA NoRivalRequest ==
    ASSUME NEW lead, NEW winner, LeadersKnown(lead, winner),
           NEW c \in appendCalls, CallKnown(c, lead, winner),
           c.peer \in Server, state[c.peer] = "Leader"
    PROVE  c.term # currentTerm[c.peer]
BY DEF LeadersKnown, CallKnown

LEMMA LeaderKeepsVote ==
    ASSUME TypeOK, ElectionInv, [Next]_vars,
           NEW lead, NEW winner, NEW won, Fits(lead, winner, won),
           NEW v \in Server, state[v] = "Leader", currentTerm'[v] = currentTerm[v]
    PROVE  votedFor'[v] = votedFor[v]
<1> USE DEF serverVars
<1>0. currentTerm[v] \in Nat
  BY DEF TypeOK
<1>1. ASSUME NEW i \in Server, ElectionTimeout(i) PROVE votedFor'[v] = votedFor[v]
  <2>1. i # v
    BY <1>1 DEF ElectionTimeout
  <2> QED BY <1>1, <2>1 DEF ElectionTimeout, TypeOK
<1>2. ASSUME NEW c \in voteCalls, RequestVote(c) PROVE votedFor'[v] = votedFor[v]
  <2> DEFINE i == c.peer
             term == IF Newer(c.term, i) THEN c.term ELSE currentTerm[i]
             voted == IF Newer(c.term, i) THEN None ELSE votedFor[i]
             granted == Grants(c, term, voted)
  <2>1. /\ currentTerm' = [currentTerm EXCEPT ![i] = term]
        /\ votedFor' = [votedFor EXCEPT ![i] = IF granted THEN c.caller ELSE voted]
        /\ i \in Server /\ c.term \in Nat
    BY <1>2 DEF RequestVote, TypeOK, VoteCall
  <2>2. CASE i # v
    BY <2>1, <2>2 DEF TypeOK
  <2>3. CASE i = v
    <3>1. term = currentTerm[i]
      BY <2>1, <2>3 DEF TypeOK
    <3>2. voted = votedFor[i]
      BY <1>0, <2>1, <2>3, <3>1 DEF Newer
    <3>3. votedFor[i] = i /\ i # None
      BY <2>1, <2>3, ServerAssumption DEF ElectionInv, SupportersPledged, Active
    <3>4. granted => c.caller = votedFor[i]
      BY <3>2, <3>3 DEF Grants
    <3> HIDE DEF granted, voted, term
    <3> QED BY <2>1, <2>3, <3>2, <3>4 DEF TypeOK
  <2> QED BY <2>2, <2>3
<1>3. ASSUME NEW c \in voteCalls, HandleVoteReply(c) PROVE votedFor'[v] = votedFor[v]
  <2>1. CASE UNCHANGED votedFor
    BY <2>1
  <2>2. CASE state[c.caller] = "Candidate" /\ BecomeFollower(c.caller, c.reply.term)
    BY <2>2 DEF BecomeFollower, TypeOK
  <2> QED BY <1>3, <2>1, <2>2 DEF HandleVoteReply, StartLeader
<1>4. ASSUME NEW c \in appendCalls, AppendEntries(c) PROVE votedFor'[v] = votedFor[v]
  <2>0. c.peer \in Server /\ c.term \in Nat
    BY DEF TypeOK, AppendCall
  <2>1. c.peer = v => c.term # currentTerm[v]
    <3>1. LeadersKnown(lead, winner) /\ CallKnown(c, lead, winner)
      BY DEF Fits
    <3> QED BY <2>0, <3>1, NoRivalRequest
  <2>2. CASE BecomeFollower(c.peer, c.term)
    BY <2>0, <2>1, <2>2 DEF BecomeFollower, TypeOK
  <2>3. CASE UNCHANGED votedFor
    BY <2>3
  <2> QED BY <1>4, <2>2, <2>3 DEF AppendEntries
<1>5. ASSUME NEW c \in appendCalls, HandleAppendReply(c) PROVE votedFor'[v] = votedFor[v]
  <2>1. c.caller \in Server /\ c.reply.term \in Nat
    BY DEF TypeOK, AppendCall, AppendReply
  <2>2. CASE c.reply.term > currentTerm[c.caller] /\ BecomeFollower(c.caller, c.reply.term)
    BY <1>0, <2>1, <2>2, SMTT(30) DEF BecomeFollower, TypeOK
  <2>3. CASE UNCHANGED votedFor
    BY <2>3
  <2> QED BY <1>5, <2>2, <2>3 DEF HandleAppendReply
<1>6. CASE UNCHANGED votedFor
  BY <1>6
<1> QED BY <1>1, <1>2, <1>3, <1>4, <1>5, <1>6
  DEF Next, vars, Submit, LeaderSendHeartbeats, Stop, SendRequestVote,
      RequestVoteAtDead, SendAppendEntries, AppendEntriesAtDead, AppendEntriesFails

(* The votes that won a term stay spent.                                   *)
LEMMA WonVotesKept ==
    ASSUME TypeOK, TypeOK', ElectionInv, [Next]_vars,
           NEW lead, NEW winner, NEW won, Fits(lead, winner, won),
           NEW t \in Nat, NEW v \in won[t]
    PROVE  /\ currentTerm'[v] >= t
           /\ currentTerm'[v] = t => votedFor'[v] = winner[t]
<1>1. VoteStep
  BY NextVoteStep
<1>2. /\ v \in Server /\ winner[t] # None
      /\ currentTerm[v] >= t
      /\ currentTerm[v] = t => votedFor[v] = winner[t]
  BY DEF Fits, IsHistory, VotesSpent
<1>3. /\ currentTerm[v] \in Nat /\ currentTerm'[v] \in Nat
      /\ currentTerm'[v] >= currentTerm[v]
  BY <1>1, <1>2 DEF TypeOK, VoteStep
<1>4. ASSUME currentTerm'[v] = t PROVE votedFor'[v] = winner[t]
  <2>1. currentTerm[v] = t /\ votedFor[v] = winner[t]
    BY <1>2, <1>3, <1>4
  <2>2. CASE votedFor'[v] = votedFor[v]
    BY <2>1, <2>2
  <2>3. CASE Active(v)
    <3>1. votedFor[v] = v
      BY <1>2, <2>3 DEF ElectionInv, SupportersPledged
    <3>2. state[v] # "Candidate"
      BY <1>2, <2>1, <3>1 DEF Fits, VotesSpent
    <3>3. state[v] = "Leader"
      BY <2>3, <3>2 DEF Active
    <3> QED BY <1>2, <1>4, <2>1, <3>3, LeaderKeepsVote
  <2> QED BY <1>1, <1>2, <1>3, <1>4, <2>1, <2>2, <2>3 DEF VoteStep
<1> QED BY <1>2, <1>3, <1>4

(* No candidate gets one of them.                                          *)
LEMMA NoSpentSupporter ==
    ASSUME PromptReplies, TypeOK, TypeOK', ElectionInv, ElectionInv', [Next]_vars,
           NEW lead, NEW winner, NEW won, Fits(lead, winner, won),
           NEW i \in Server, state'[i] = "Candidate"
    PROVE  /\ currentTerm'[i] > 0
           /\ winner[currentTerm'[i]] # i
           /\ Supporters(i)' \cap won[currentTerm'[i]] = {}
<1>1. Continues(i) \/ Begins(i)
  BY SupportersStep DEF Active
<1>2. currentTerm[i] \in Nat /\ currentTerm'[i] \in Nat
  BY DEF TypeOK
<1>3. CASE Begins(i)
  <2>1. currentTerm'[i] = currentTerm[i] + 1
    BY <1>3 DEF Begins
  <2>2. i \notin won[currentTerm'[i]]
    BY <1>2, <2>1 DEF Fits, VotesSpent
  <2>3. winner[currentTerm'[i]] # i
    BY <1>2, <2>1, ServerAssumption DEF Fits, VotesSpent
  <2> QED BY <1>2, <1>3, <2>1, <2>2, <2>3 DEF Begins
<1>4. CASE Continues(i)
  <2>1. currentTerm'[i] = currentTerm[i] /\ state[i] = "Candidate"
    BY <1>4 DEF Continues
  <2>2. /\ currentTerm[i] > 0 /\ winner[currentTerm[i]] # i
        /\ Supporters(i) \cap won[currentTerm[i]] = {}
    BY <2>1 DEF Fits, VotesSpent
  <2>3. ASSUME NEW v \in Supporters(i)', v \in won[currentTerm[i]] PROVE FALSE
    <3>1. currentTerm'[v] = currentTerm[i]
      BY <1>4, <2>2, <2>3 DEF Continues
    <3>2. votedFor'[v] = winner[currentTerm[i]]
      BY <1>2, <2>3, <3>1, WonVotesKept
    <3>3. Pledged(v, i)'
      BY <2>3 DEF ElectionInv, SupportersPledged, Active
    <3> QED BY <1>2, <2>1, <2>2, <3>1, <3>2, <3>3 DEF Pledged
  <2> QED BY <2>1, <2>2, <2>3
<1> QED BY <1>1, <1>3, <1>4

LEMMA VotesSpentKept ==
    ASSUME PromptReplies, TypeOK, TypeOK', ElectionInv, ElectionInv', [Next]_vars,
           NEW lead, NEW winner, NEW won, Fits(lead, winner, won)
    PROVE  VotesSpent(winner, won)'
<1>1. ASSUME NEW t \in Nat, winner[t] # None PROVE currentTerm'[winner[t]] >= t
  <2>1. winner[t] \in Server /\ currentTerm[winner[t]] >= t
    BY <1>1 DEF Fits, IsHistory, VotesSpent
  <2>2. /\ currentTerm[winner[t]] \in Nat /\ currentTerm'[winner[t]] \in Nat
        /\ currentTerm'[winner[t]] >= currentTerm[winner[t]]
    BY <2>1, NextVoteStep DEF VoteStep, TypeOK
  <2> QED BY <2>1, <2>2
<1> QED BY <1>1, WonVotesKept, NoSpentSupporter DEF VotesSpent

-----------------------------------------------------------------------------
(* The history of the next state, related to that of this one: what the    *)
(* lemmas on single parts of it assume.                                    *)
Grown(lead, winner, won, lead2, winner2, won2) ==
    /\ IsHistory(lead, winner, won) /\ IsHistory(lead2, winner2, won2)
    /\ HistoryStep(lead, winner, won, lead2, winner2, won2)

(* A server that leads a term it has won led it before the step.           *)
LEMMA LeaderRemains ==
    ASSUME PromptReplies, TypeOK, TypeOK', ElectionInv, [Next]_vars,
           NEW lead, NEW winner, NEW won, Fits(lead, winner, won),
           NEW i \in Server, state'[i] = "Leader",
           NEW t \in Nat, currentTerm'[i] = t, winner[t] = i
    PROVE  state[i] = "Leader" /\ currentTerm[i] = t
<1>1. Continues(i)
  BY SupportersStep DEF Active, Begins
<1>2. currentTerm[i] = t /\ state[i] \in {"Leader", "Candidate"}
  BY <1>1 DEF Continues, Active
<1>3. state[i] # "Candidate"
  BY <1>2 DEF Fits, VotesSpent
<1> QED BY <1>2, <1>3

(* Where a server of a leader's term agrees with that leader's log, it     *)
(* does so after the step.                                                 *)
LEMMA AgreementKept ==
    ASSUME ~TornReads, TypeOK, TypeOK', [Next]_vars,
           NEW lead, NEW winner, NEW won, Fits(lead, winner, won),
           NEW lead2, NEW winner2, NEW won2,
           Grown(lead, winner, won, lead2, winner2, won2),
           NEW i \in Server, state'[i] = "Leader",
           NEW t \in Nat, currentTerm'[i] = t,
           NEW p \in Server, currentTerm'[p] = t,
           NEW m \in Nat, Agree(log[p], lead[t], m)
    PROVE  Agree(log'[p], lead2[t], m)
<1>1. /\ lead \in [Nat -> Seq(Entry)] /\ lead2 \in [Nat -> Seq(Entry)]
      /\ Grows(lead, lead2)
  BY DEF Grown, IsHistory, HistoryStep
<1>0. /\ lead[t] \in Seq(Entry) /\ lead2[t] \in Seq(Entry)
      /\ log[p] \in Seq(Entry) /\ log'[p] \in Seq(Entry)
  BY <1>1, HistoryTypes DEF TypeOK
<1>2. Agree(log[p], lead2[t], m)
  BY <1>0, <1>1, AgreeGrows
<1>3. CASE log'[p] = log[p]
  BY <1>2, <1>3
<1>4. ASSUME NEW j \in Server, Submit(j) PROVE Agree(log'[p], lead2[t], m)
  <2>1. CASE j = p
    <3> DEFINE e == [command |-> nextCommand, term |-> currentTerm[j]]
    <3>1. log'[p] = Append(log[p], e)
      BY <1>4, <2>1 DEF Submit, TypeOK
    <3> HIDE DEF e
    <3>4. e \in Entry
      BY DEF e, Entry, TypeOK
    <3>2. \A k \in 1..Len(log[p]) : log'[p][k] = log[p][k]
      BY <1>0, <3>1, <3>4, AppendProperties
    <3>3. Len(log'[p]) = Len(log[p]) + 1 /\ Len(log[p]) \in Nat
      BY <1>0, <3>1, <3>4, AppendProperties, LenProperties
    <3> QED BY <1>2, <3>2, <3>3 DEF Agree
  <2>2. CASE j # p
    BY <1>3, <1>4, <2>2 DEF Submit, TypeOK
  <2> QED BY <2>1, <2>2
<1>5. ASSUME NEW c \in appendCalls, Accepts(c) PROVE Agree(log'[p], lead2[t], m)
  <2>1. CASE c.peer # p
    <3>1. log'[p] = log[p]
      BY <1>5, <2>1 DEF Accepts, TypeOK
    <3> QED BY <1>3, <3>1
  <2>2. CASE c.peer = p
    <3>1. /\ c \in AppendCall /\ c.term = t
          /\ log'[p] = Spliced(log[p], c.args.prevLogIndex, c.args.entries)
          /\ HasPrev(log[p], c.args.prevLogIndex, c.args.prevLogTerm)
      BY <1>5, <2>2 DEF Accepts, TypeOK
    <3>2. state[i] = "Leader" /\ currentTerm[i] = t
      BY <1>5 DEF Accepts, SameRoles, Active
    <3>3. c.caller = i
      BY <3>1, <3>2 DEF Fits, LeadersKnown, CallKnown
    <3>4. Carries(c, lead[t])
      BY <1>5, <3>1, <3>2, <3>3 DEF Accepts, Fits, CallKnown, RequestKnown, Leads
    <3>5. Traced(log[p], lead) /\ Traced(lead[t], lead)
      BY DEF Fits, LogsTraced, IsHistory
    <3>6. Agree(log'[p], lead[t], m)
      BY <1>0, <3>1, <3>4, <3>5, SplicedAgrees
    <3> QED BY <1>0, <1>1, <3>6, AgreeGrows
  <2> QED BY <2>1, <2>2
<1> QED BY <1>3, <1>4, <1>5, LogChanges

(* What is known of a call stays true, as long as its caller keeps its     *)
(* part.                                                                   *)
LEMMA CallStays ==
    ASSUME PromptReplies, ~TornReads, TypeOK, TypeOK', ElectionInv, [Next]_vars,
           NEW lead, NEW winner, NEW won, Fits(lead, winner, won),
           NEW lead2, NEW winner2, NEW won2,
           Grown(lead, winner, won, lead2, winner2, won2),
           NEW c \in AppendCall, CallKnown(c, lead, winner),
           c.stage = "orphan" \/ Continues(c.caller) \/ ~Active(c.caller)'
    PROVE  CallKnown(c, lead2, winner2)'
<1>1. /\ c.caller \in Server /\ c.peer \in Server /\ c.term \in Nat
      /\ c.ni \in Nat /\ c.sent \in Nat
  BY DEF AppendCall
<1>2. /\ lead \in [Nat -> Seq(Entry)] /\ lead2 \in [Nat -> Seq(Entry)]
      /\ Grows(lead, lead2)
  BY DEF Grown, IsHistory, HistoryStep
<1>3. /\ winner[c.term] = c.caller /\ winner[c.term] # None /\ c.peer # c.caller
  BY <1>1, ServerAssumption DEF CallKnown
<1>4. winner2[c.term] = c.caller
  BY <1>1, <1>3 DEF Grown, HistoryStep
<1>5. c.stage # "orphan" /\ Active(c.caller)' => Leads(c.caller, c.term)'
  <2> SUFFICES ASSUME c.stage # "orphan", Active(c.caller)'
               PROVE  Leads(c.caller, c.term)'
    OBVIOUS
  <2>1. Continues(c.caller)
    OBVIOUS
  <2>2. Leads(c.caller, c.term)
    BY <2>1 DEF CallKnown, Continues
  <2> QED BY <2>1, <2>2 DEF Continues, Leads
<1>6. ASSUME Leads(c.caller, c.term)' PROVE Leads(c.caller, c.term)
  <2>1. state'[c.caller] = "Leader" /\ currentTerm'[c.caller] = c.term
    BY <1>6 DEF Leads
  <2>2. state[c.caller] = "Leader" /\ currentTerm[c.caller] = c.term
    BY <1>1, <1>3, <2>1, LeaderRemains
  <2> QED BY <2>2 DEF Leads
<1>7. RequestKnown(c, lead2)'
  <2> SUFFICES ASSUME c.stage \in {"request", "orphan"}
               PROVE  /\ \E u \in Nat : Carries(c, lead2[u])
                      /\ Leads(c.caller, c.term)' => Carries(c, lead2[c.term])
    BY DEF RequestKnown
  <2>1. PICK u \in Nat : Carries(c, lead[u])
    BY DEF CallKnown, RequestKnown
  <2>2. Carries(c, lead2[u])
    BY <1>2, <2>1, CarriesGrows
  <2>3. ASSUME Leads(c.caller, c.term)' PROVE Carries(c, lead2[c.term])
    <3>1. Carries(c, lead[c.term])
      BY <1>6, <2>3 DEF CallKnown, RequestKnown
    <3> QED BY <1>1, <1>2, <3>1, CarriesGrows
  <2> QED BY <2>2, <2>3
<1>8. ReplyKnown(c, lead2)'
  <2> SUFFICES ASSUME c.stage = "reply" PROVE ReplyKnown(c, lead2)'
    BY DEF ReplyKnown
  <2>1. /\ c.reply.success => c.reply.term = c.term
        /\ c.reply.success => currentTerm[c.peer] >= c.term
        /\ ~c.reply.success /\ c.reply.term = c.term => c.ni > 0
    BY DEF CallKnown, ReplyKnown
  <2>2. /\ currentTerm'[c.peer] >= currentTerm[c.peer]
        /\ currentTerm'[c.peer] \in Nat /\ currentTerm[c.peer] \in Nat
    BY <1>1, NextVoteStep DEF VoteStep, TypeOK
  <2>3. c.reply.success => currentTerm'[c.peer] >= c.term
    BY <1>1, <2>1, <2>2
  <2>4. ASSUME Leads(c.caller, c.term)'
        PROVE  /\ c.ni + c.sent <= Len(lead2[c.term])
               /\ c.reply.success /\ currentTerm'[c.peer] = c.term
                     => Agree(log'[c.peer], lead2[c.term], c.ni + c.sent)
    <3>1. /\ c.ni + c.sent <= Len(lead[c.term])
          /\ c.reply.success /\ currentTerm[c.peer] = c.term
                => Agree(log[c.peer], lead[c.term], c.ni + c.sent)
      BY <1>6, <2>4 DEF CallKnown, ReplyKnown
    <3>2. Len(lead[c.term]) <= Len(lead2[c.term])
      <4>1. Agree(lead[c.term], lead2[c.term], Len(lead[c.term]))
        BY <1>1, <1>2 DEF Grows
      <4> QED BY <4>1 DEF Agree
    <3>3. Len(lead[c.term]) \in Nat
      BY <1>1, <1>2, HistoryTypes
    <3>4. Len(lead2[c.term]) \in Nat
      BY <1>1, <1>2, HistoryTypes
    <3>5. c.ni + c.sent \in Nat
      BY <1>1
    <3>6. ASSUME c.reply.success, currentTerm'[c.peer] = c.term
          PROVE  Agree(log'[c.peer], lead2[c.term], c.ni + c.sent)
      <4>1. currentTerm[c.peer] = c.term
        BY <1>1, <2>1, <2>2, <3>6
      <4>2. Agree(log[c.peer], lead[c.term], c.ni + c.sent)
        BY <3>1, <3>6, <4>1
      <4>3. state'[c.caller] = "Leader" /\ currentTerm'[c.caller] = c.term
        BY <2>4 DEF Leads
      <4> QED BY <1>1, <1>3, <3>5, <3>6, <4>2, <4>3, AgreementKept
    <3> QED BY <3>1, <3>2, <3>3, <3>4, <3>5, <3>6
  <2> QED BY <2>1, <2>3, <2>4 DEF ReplyKnown
<1> QED BY <1>3, <1>4, <1>5, <1>7, <1>8 DEF CallKnown

(* What a leader remembers of a peer stays true while it leads.            *)
LEMMA PeerStays ==
    ASSUME ~TornReads, TypeOK, TypeOK', ElectionInv, [Next]_vars,
           NEW lead, NEW winner, NEW won, Fits(lead, winner, won),
           NEW lead2, NEW winner2, NEW won2,
           Grown(lead, winner, won, lead2, winner2, won2),
           LeadersKnown(lead2, winner2)',
           NEW i \in Server, NEW p \in Peers(i),
           state[i] = "Leader", currentTerm'[i] = currentTerm[i],
           nextIndex'[i][p] = nextIndex[i][p], matchIndex'[i][p] = matchIndex[i][p]
    PROVE  PeerKnown(i, p)'
<1> SUFFICES ASSUME state'[i] = "Leader" PROVE PeerKnown(i, p)'
  BY DEF PeerKnown
<1> DEFINE t == currentTerm[i]
<1>1. /\ p \in Server /\ t \in Nat
      /\ currentTerm[p] \in Nat /\ currentTerm'[p] \in Nat
      /\ currentTerm'[p] >= currentTerm[p]
  BY NextVoteStep DEF Peers, TypeOK, VoteStep
<1>2. log[i] = lead[t] /\ log'[i] = lead2[t]
  BY DEF Fits, LeadersKnown
<1>3. /\ nextIndex[i][p] \in 0..Len(log[i])
      /\ matchIndex[i][p] < Len(log[i])
      /\ matchIndex[i][p] >= 0 => currentTerm[p] >= t
      /\ currentTerm[p] = t => Agree(log[p], log[i], matchIndex[i][p] + 1)
  BY DEF Fits, PeerKnown
<1>4. /\ Len(log[i]) \in Nat /\ Len(log'[i]) \in Nat /\ Len(log'[p]) \in Nat
      /\ matchIndex[i][p] \in Nat \cup {-1}
  <2>1. /\ log[i] \in Seq(Entry) /\ log'[i] \in Seq(Entry) /\ log'[p] \in Seq(Entry)
        /\ matchIndex[i][p] \in Nat \cup {-1}
    BY <1>1 DEF TypeOK
  <2> QED BY <2>1, LenProperties
<1>5. Len(log[i]) <= Len(log'[i])
  <2>1. Agree(lead[t], lead2[t], Len(lead[t]))
    BY <1>1 DEF Grown, HistoryStep, Grows
  <2> QED BY <1>2, <2>1 DEF Agree
<1>6. ASSUME currentTerm'[p] = t
      PROVE  Agree(log'[p], log'[i], matchIndex[i][p] + 1)
  <2>1. CASE matchIndex[i][p] = -1
    BY <1>4, <2>1 DEF Agree
  <2>2. CASE matchIndex[i][p] \in Nat
    <3>1. currentTerm[p] = t
      BY <1>1, <1>3, <1>6, <2>2
    <3>2. Agree(log[p], lead[t], matchIndex[i][p] + 1)
      BY <1>2, <1>3, <3>1
    <3>3. matchIndex[i][p] + 1 \in Nat
      BY <2>2
    <3> QED BY <1>1, <1>2, <1>6, <3>2, <3>3, AgreementKept
  <2> QED BY <1>4, <2>1, <2>2
<1>7. matchIndex[i][p] >= 0 => currentTerm'[p] >= t
  BY <1>1, <1>3, <1>4
<1>8. nextIndex[i][p] \in 0..Len(log'[i]) /\ matchIndex[i][p] < Len(log'[i])
  BY <1>3, <1>4, <1>5
<1> QED BY <1>6, <1>7, <1>8 DEF PeerKnown

(* The logs of the next state, too, are traced.                            *)
LEMMA LogsTracedKept ==
    ASSUME TypeOK, TypeOK', [Next]_vars,
           NEW lead, NEW winner, NEW won, Fits(lead, winner, won),
           NEW lead2, NEW winner2, NEW won2,
           Grown(lead, winner, won, lead2, winner2, won2),
           LeadersKnown(lead2, winner2)'
    PROVE  LogsTraced(lead2)'
<1> SUFFICES ASSUME NEW p \in Server PROVE Traced(log'[p], lead2)
  BY DEF LogsTraced
<1>1. /\ lead \in [Nat -> Seq(Entry)] /\ lead2 \in [Nat -> Seq(Entry)]
      /\ Grows(lead, lead2) /\ Traced(log[p], lead)
      /\ log[p] \in Seq(Entry) /\ log'[p] \in Seq(Entry)
  BY ZenonT(30) DEF Grown, IsHistory, HistoryStep, Fits, LogsTraced, TypeOK
<1>2. CASE log'[p] = log[p]
  BY <1>1, <1>2, TracedGrows
<1>3. ASSUME NEW i \in Server, Submit(i) PROVE Traced(log'[p], lead2)
  <2>1. CASE i = p
    <3>1. currentTerm'[p] \in Nat /\ log'[p] = lead2[currentTerm'[p]]
      BY <1>3, <2>1 DEF Submit, serverVars, LeadersKnown, TypeOK
    <3> QED BY <3>1 DEF Grown, IsHistory
  <2>2. CASE i # p
    BY <1>2, <1>3, <2>2 DEF Submit, TypeOK
  <2> QED BY <2>1, <2>2
<1>4. ASSUME NEW c \in appendCalls, Accepts(c) PROVE Traced(log'[p], lead2)
  <2>1. CASE c.peer # p
    <3>1. log'[p] = log[p]
      BY <1>4, <2>1 DEF Accepts, TypeOK
    <3> QED BY <1>2, <3>1
  <2>2. CASE c.peer = p
    <3>1. /\ c \in AppendCall
          /\ log'[p] = Spliced(log[p], c.args.prevLogIndex, c.args.entries)
          /\ HasPrev(log[p], c.args.prevLogIndex, c.args.prevLogTerm)
      BY <1>4, <2>2 DEF Accepts, TypeOK
    <3>2. PICK u \in Nat : Carries(c, lead[u])
      BY <1>4 DEF Accepts, Fits, CallKnown, RequestKnown
    <3>3. Traced(lead[u], lead) /\ lead[u] \in Seq(Entry)
      BY <1>1, HistoryTypes DEF Fits, IsHistory
    <3>4. Traced(log'[p], lead)
      BY <1>1, <3>1, <3>2, <3>3, SplicedTraced
    <3> QED BY <1>1, <3>4, TracedGrows
  <2> QED BY <2>1, <2>2
<1> QED BY <1>2, <1>3, <1>4, LogChanges

(* A server that begins an election has dropped its calls.                 *)
LEMMA AbandonedFrom ==
    ASSUME NEW calls \in SUBSET AppendCall, NEW i, NEW r \in Abandoned(calls, i),
           NEW c \in r
    PROVE  /\ c.caller = i => c.stage = "orphan"
           /\ \/ c \in calls
              \/ \E d \in calls : d.stage = "request" /\ c = [d EXCEPT !.stage = "orphan"]
<1> DEFINE mine == {d \in calls : d.caller = i /\ d.stage # "orphan"}
           late == {[d EXCEPT !.stage = "orphan"] :
                       d \in {e \in mine : e.stage = "request"}}
<1>1. PICK kept \in SUBSET late : r = (calls \ mine) \cup kept
  BY DEF Abandoned
<1>2. ASSUME c \in late
      PROVE  /\ c.stage = "orphan"
             /\ \E d \in calls : d.stage = "request" /\ c = [d EXCEPT !.stage = "orphan"]
  BY <1>2 DEF AppendCall
<1> QED BY <1>1, <1>2

LEMMA CallerContinues ==
    ASSUME PromptReplies, TypeOK, TypeOK', ElectionInv, [Next]_vars,
           NEW c \in appendCalls'
    PROVE  c.stage = "orphan" \/ Continues(c.caller) \/ ~Active(c.caller)'
<1> SUFFICES ASSUME Active(c.caller)', Begins(c.caller) PROVE c.stage = "orphan"
  <2>1. c.caller \in Server
    BY DEF TypeOK, AppendCall
  <2> QED BY <2>1, SupportersStep
<1> DEFINE i == c.caller
<1>1. appendCalls \in SUBSET AppendCall /\ appendCalls' \in Abandoned(appendCalls, i)
  BY DEF Begins, TypeOK
<1>2. c.caller = i
  OBVIOUS
<1> HIDE DEF i
<1>3. \A r \in Abandoned(appendCalls, i) : \A d \in r : d.caller = i => d.stage = "orphan"
  BY <1>1, AbandonedFrom
<1> QED BY <1>1, <1>2, <1>3

(* The parts put together: what is left to show of a step is that the      *)
(* leaders and the calls it makes are known.                               *)
LEMMA FitsAgain ==
    ASSUME PromptReplies, ~TornReads, TypeOK, TypeOK', ElectionInv, [Next]_vars,
           NEW lead, NEW winner, NEW won, Fits(lead, winner, won),
           NEW lead2, NEW winner2, NEW won2,
           Grown(lead, winner, won, lead2, winner2, won2),
           VotesSpent(winner2, won2)', LeadersKnown(lead2, winner2)',
           \A c \in appendCalls' :
              CallKnown(c, lead, winner) \/ CallKnown(c, lead2, winner2)',
           \A i \in Server : \A p \in Peers(i) :
              PeerKnown(i, p)' \/ /\ state[i] = "Leader"
                                  /\ nextIndex'[i][p] = nextIndex[i][p]
                                  /\ matchIndex'[i][p] = matchIndex[i][p]
    PROVE  Fits(lead2, winner2, won2)'
<1>1. ASSUME NEW c \in appendCalls' PROVE CallKnown(c, lead2, winner2)'
  <2>1. c \in AppendCall
    BY DEF TypeOK
  <2>2. c.stage = "orphan" \/ Continues(c.caller) \/ ~Active(c.caller)'
    BY CallerContinues
  <2>3. CASE CallKnown(c, lead, winner)
    BY <2>1, <2>2, <2>3, CallStays
  <2> QED BY <2>3
<1>2. ASSUME NEW i \in Server, NEW p \in Peers(i) PROVE PeerKnown(i, p)'
  <2>1. CASE /\ state[i] = "Leader" /\ state'[i] = "Leader"
             /\ nextIndex'[i][p] = nextIndex[i][p]
             /\ matchIndex'[i][p] = matchIndex[i][p]
    <3>1. currentTerm'[i] = currentTerm[i]
      BY <2>1, SupportersStep DEF Active, Continues, Begins
    <3> QED BY <2>1, <3>1, PeerStays
  <2>2. CASE state'[i] # "Leader"
    BY <2>2 DEF PeerKnown
  <2> QED BY <2>1, <2>2
<1>3. LogsTraced(lead2)'
  BY LogsTracedKept
<1>4. IsHistory(lead2, winner2, won2)
  BY DEF Grown
<1>5. (\A c \in appendCalls : CallKnown(c, lead2, winner2))'
  BY <1>1
<1>6. (\A i \in Server : \A p \in Peers(i) : PeerKnown(i, p))'
  BY <1>2 DEF Peers
<1> QED BY <1>3, <1>4, <1>5, <1>6 DEF Fits

(* Only a candidate that has just counted a majority starts leading.       *)
LEMMA NewLeader ==
    ASSUME TypeOK, [Next]_vars, NEW i \in Server, state'[i] = "Leader", state[i] # "Leader"
    PROVE  \E c \in voteCalls : /\ HandleVoteReply(c) /\ StartLeader(i)
                                /\ c.caller = i /\ state[i] = "Candidate"
<1> USE DEF serverVars
<1>1. ASSUME NEW c \in voteCalls, HandleVoteReply(c)
      PROVE  c.caller = i /\ state[i] = "Candidate" /\ StartLeader(i)
  <2>1. ~UNCHANGED state
    OBVIOUS
  <2>2. ~BecomeFollower(c.caller, c.reply.term)
    BY DEF BecomeFollower, TypeOK
  <2>3. state[c.caller] = "Candidate" /\ StartLeader(c.caller)
    BY <1>1, <2>1, <2>2 DEF HandleVoteReply
  <2>4. c.caller = i
    BY <2>3 DEF StartLeader, TypeOK
  <2> QED BY <2>3, <2>4
<1>2. ASSUME NEW c \in appendCalls, AppendEntries(c) PROVE FALSE
  <2>1. ~UNCHANGED state /\ ~BecomeFollower(c.peer, c.term)
    BY DEF BecomeFollower, TypeOK
  <2> QED BY <1>2, <2>1 DEF AppendEntries
<1>3. ASSUME NEW c \in appendCalls, HandleAppendReply(c) PROVE FALSE
  <2>1. ~UNCHANGED state /\ ~BecomeFollower(c.caller, c.reply.term)
    BY DEF BecomeFollower, TypeOK
  <2> QED BY <1>3, <2>1 DEF HandleAppendReply
<1>4. ASSUME NEW c \in voteCalls, RequestVote(c) PROVE FALSE
  BY <1>4 DEF RequestVote, TypeOK
<1>5. ASSUME NEW j \in Server, ElectionTimeout(j) \/ Stop(j) PROVE FALSE
  BY <1>5 DEF ElectionTimeout, Stop, TypeOK
<1> QED BY <1>1, <1>2, <1>3, <1>4, <1>5 DEF Next, vars, Submit, LeaderSendHeartbeats,
      SendRequestVote, RequestVoteAtDead, SendAppendEntries, AppendEntriesAtDead,
      AppendEntriesFails

(* A new leader opens the history of its term with its log: nobody had won *)
(* the term, since two majorities share a server.                          *)
LEMMA LeaderStep ==
    ASSUME PromptReplies, ~TornReads, TypeOK, TypeOK', ElectionInv, ElectionInv',
           [Next]_vars, NEW lead, NEW winner, NEW won, Fits(lead, winner, won),
           NEW i \in Server, state'[i] = "Leader", state[i] # "Leader"
    PROVE  \E lead2, winner2, won2 :
              /\ Grown(lead, winner, won, lead2, winner2, won2)
              /\ Fits(lead2, winner2, won2)'
<1>1. /\ UNCHANGED <<currentTerm, votedFor, log, appendCalls>>
      /\ state' = [state EXCEPT ![i] = "Leader"] /\ state[i] = "Candidate"
      /\ nextIndex' = [nextIndex EXCEPT ![i] = [p \in Server |-> Len(log[i])]]
      /\ matchIndex' = [matchIndex EXCEPT ![i] = [p \in Server |-> -1]]
  BY NewLeader DEF HandleVoteReply, StartLeader, logVars
<1>01. PICK t \in Nat, l \in Seq(Entry) : t = currentTerm[i] /\ l = log[i]
  BY DEF TypeOK
<1>02. PICK votes : votes = CurrentVotes(i)'
  OBVIOUS
<1>0. t = currentTerm[i] /\ l = log[i] /\ votes = CurrentVotes(i)'
  BY <1>01, <1>02
<1>2. currentTerm'[i] = t /\ log'[i] = l
  BY <1>0, <1>1
<1>3. /\ votes \subseteq Supporters(i)' /\ votes \subseteq Server
      /\ 2 * Cardinality(votes) > Cardinality(Server)
      /\ \A v \in votes : Pledged(v, i)'
  <2>1. SupportersPledged(i)' /\ WonByMajority(i)'
    BY DEF ElectionInv
  <2>2. votesReceived'[i] # <<>>
    BY <2>1 DEF SupportersPledged, Active
  <2>3. votesReceived'[i] \in Seq(SUBSET Server)
    BY DEF TypeOK
  <2>4. Len(votesReceived'[i]) \in 1..Len(votesReceived'[i])
    BY <2>2, <2>3
  <2>5. votes \subseteq Server
    BY <1>0, <2>3, <2>4, ElementOfSeq DEF CurrentVotes
  <2> QED BY <1>0, <2>1, <2>5 DEF SupportersPledged, WonByMajority, Active, Supporters
<1>4. votes \subseteq Supporters(i) /\ t > 0 /\ votes \cap won[t] = {}
  <2>1. Continues(i)
    BY SupportersStep DEF Active, Begins
  <2>2. votes \subseteq Supporters(i)
    BY <1>0, <1>1, <1>3, <2>1 DEF Continues
  <2>3. t > 0 /\ Supporters(i) \cap won[t] = {}
    BY <1>0, <1>1 DEF Fits, VotesSpent
  <2> QED BY <2>2, <2>3
<1>5. winner[t] = None /\ lead[t] = <<>>
  <2>1. ASSUME winner[t] # None PROVE FALSE
    <3>1. won[t] \subseteq Server /\ 2 * Cardinality(won[t]) > Cardinality(Server)
      BY <1>2, <2>1 DEF Fits, IsHistory
    <3>2. /\ Cardinality(won[t]) \in Nat /\ Cardinality(votes) \in Nat
          /\ Cardinality(Server) \in Nat
      BY <1>3, <3>1, ServerAssumption, FS_Subset, FS_CardinalityType
    <3>3. won[t] \cap votes # {}
      BY <1>3, <3>1, <3>2, ServerAssumption, FS_MajoritiesIntersect
    <3> QED BY <1>4, <3>3
  <2> QED BY <1>2, <2>1 DEF Fits, IsHistory
<1>61. PICK lead2, winner2, won2 : /\ lead2 = [lead EXCEPT ![t] = l]
                                 /\ winner2 = [winner EXCEPT ![t] = i]
                                 /\ won2 = [won EXCEPT ![t] = votes]
  OBVIOUS
<1>6. /\ lead \in [Nat -> Seq(Entry)] /\ lead2 \in [Nat -> Seq(Entry)]
      /\ winner \in [Nat -> Server \cup {None}] /\ winner2 \in [Nat -> Server \cup {None}]
      /\ won \in [Nat -> SUBSET Server] /\ won2 \in [Nat -> SUBSET Server]
      /\ lead2[t] = l /\ winner2[t] = i /\ won2[t] = votes
      /\ \A u \in Nat \ {t} : lead2[u] = lead[u] /\ winner2[u] = winner[u] /\ won2[u] = won[u]
  BY <1>3, <1>61 DEF Fits, IsHistory
<1>7. Grows(lead, lead2)
  <2> SUFFICES ASSUME NEW u \in Nat PROVE Agree(lead[u], lead2[u], Len(lead[u]))
    BY DEF Grows
  <2>1. CASE u = t
    <3>1. Len(lead[u]) = 0
      BY <1>5, <2>1
    <3>2. Len(lead2[u]) \in Nat
      BY <1>6, HistoryTypes
    <3> QED BY <3>1, <3>2 DEF Agree
  <2>2. CASE u # t
    <3>1. lead2[u] = lead[u] /\ Len(lead[u]) \in Nat
      BY <1>6, <2>2, HistoryTypes
    <3> QED BY <3>1 DEF Agree
  <2> QED BY <2>1, <2>2
<1>8. \A u \in Nat : Traced(lead2[u], lead2)
  <2> TAKE u \in Nat
  <2>1. Traced(lead[u], lead) /\ Traced(l, lead)
    BY <1>0 DEF Fits, IsHistory, LogsTraced
  <2>2. lead2[u] \in {l, lead[u]} /\ lead[u] \in Seq(Entry)
    BY <1>6, HistoryTypes
  <2> QED BY <1>2, <1>6, <1>7, <2>1, <2>2, TracedGrows
<1>9. IsHistory(lead2, winner2, won2)
  <2>1. ASSUME NEW u \in Nat
        PROVE  /\ winner2[u] = None => lead2[u] = <<>> /\ won2[u] = {}
               /\ winner2[u] # None => u > 0
               /\ winner2[u] # None => 2 * Cardinality(won2[u]) > Cardinality(Server)
    <3>1. CASE u = t
      BY <1>2, <1>3, <1>4, <1>6, <3>1, ServerAssumption
    <3>2. CASE u # t
      <4>1. /\ winner[u] = None => lead[u] = <<>> /\ won[u] = {}
            /\ winner[u] # None => u > 0
            /\ winner[u] # None => 2 * Cardinality(won[u]) > Cardinality(Server)
        BY DEF Fits, IsHistory
      <4> QED BY <1>6, <3>2, <4>1
    <3> QED BY <3>1, <3>2
  <2> QED BY <1>6, <1>8, <2>1 DEF IsHistory
<1>10. HistoryStep(lead, winner, won, lead2, winner2, won2)
  <2>1. \A u \in Nat : winner[u] # None =>
           winner2[u] = winner[u] /\ won2[u] = won[u] /\ lead2[u] = lead[u]
    BY <1>5, <1>6
  <2>2. ASSUME NEW u \in Nat, NEW j \in Server, winner[u] = None, winner2[u] = j
        PROVE  u = t /\ j = i
    <3>1. j # None
      BY ServerAssumption
    <3> QED BY <1>6, <2>2, <3>1
  <2>3. state'[i] = "Leader" /\ lead2[t] = log[i] /\ won2[t] \subseteq Supporters(i)
    BY <1>0, <1>4, <1>6
  <2> QED BY <1>0, <1>1, <1>2, <1>7, <2>1, <2>2, <2>3 DEF HistoryStep
<1>11. Grown(lead, winner, won, lead2, winner2, won2)
  BY <1>9, <1>10 DEF Grown, Fits
<1>12. LeadersKnown(lead2, winner2)'
  <2> SUFFICES ASSUME NEW j \in Server, state'[j] = "Leader"
               PROVE  winner2[currentTerm'[j]] = j /\ lead2[currentTerm'[j]] = log'[j]
    BY DEF LeadersKnown
  <2>1. CASE j = i
    BY <1>1, <1>2, <1>6, <2>1
  <2>2. CASE j # i
    <3>1. state[j] = "Leader"
      BY <1>1, <2>2 DEF TypeOK
    <3>2. winner[currentTerm[j]] = j /\ lead[currentTerm[j]] = log[j]
          /\ currentTerm[j] \in Nat
      BY <3>1 DEF Fits, LeadersKnown, TypeOK
    <3>3. currentTerm[j] # t
      BY <1>5, <3>2, ServerAssumption
    <3> QED BY <1>1, <1>6, <3>2, <3>3
  <2> QED BY <2>1, <2>2
<1>13. VotesSpent(winner2, won2)'
  <2>1. VotesSpent(winner, won)'
    BY VotesSpentKept
  <2>2. ASSUME NEW u \in Nat, winner2[u] # None PROVE currentTerm'[winner2[u]] >= u
    <3>1. CASE u = t
      <4>1. winner2[u] = i /\ currentTerm'[i] = u
        BY <1>2, <1>6, <3>1
      <4>2. u >= u
        OBVIOUS
      <4> QED BY <4>1, <4>2
    <3>2. CASE u # t
      BY <1>6, <2>1, <2>2, <3>2 DEF VotesSpent
    <3> QED BY <3>1, <3>2
  <2>3. ASSUME NEW u \in Nat, NEW v \in won2[u]
        PROVE  /\ currentTerm'[v] >= u
               /\ currentTerm'[v] = u => votedFor'[v] = winner2[u]
    <3>1. CASE u = t
      <4>1. v \in Server /\ Pledged(v, i)' /\ currentTerm'[v] \in Nat
        BY <1>3, <1>6, <2>3, <3>1 DEF TypeOK
      <4>2. \/ currentTerm'[v] > u
            \/ currentTerm'[v] = u /\ votedFor'[v] = i
        BY <1>2, <3>1, <4>1 DEF Pledged
      <4>3. u \in Nat /\ winner2[u] = i
        BY <1>6, <3>1
      <4> QED BY <4>1, <4>2, <4>3
    <3>2. CASE u # t
      BY <1>6, <2>1, <2>3, <3>2 DEF VotesSpent
    <3> QED BY <3>1, <3>2
  <2>4. ASSUME NEW j \in Server, state'[j] = "Candidate"
        PROVE  /\ currentTerm'[j] > 0 /\ winner2[currentTerm'[j]] # j
               /\ Supporters(j)' \cap won2[currentTerm'[j]] = {}
    <3>1. /\ currentTerm'[j] > 0 /\ winner[currentTerm'[j]] # j
          /\ Supporters(j)' \cap won[currentTerm'[j]] = {}
      BY <2>1, <2>4 DEF VotesSpent
    <3>2. CASE currentTerm'[j] = t
      <4>1. j # i
        BY <1>1, <2>4 DEF TypeOK
      <4>2. Supporters(i)' \cap Supporters(j)' = {}
        BY <1>2, <2>4, <3>2, <4>1 DEF ElectionInv, NoCommonSupporter, Active
      <4> QED BY <1>3, <1>6, <3>1, <3>2, <4>1, <4>2
    <3>3. CASE currentTerm'[j] # t
      <4>1. currentTerm'[j] \in Nat
        BY DEF TypeOK
      <4> QED BY <1>6, <3>1, <3>3, <4>1
    <3> QED BY <3>2, <3>3
  <2> QED BY <2>2, <2>3, <2>4 DEF VotesSpent
<1>14. \A c \in appendCalls' : CallKnown(c, lead, winner)
  BY <1>1 DEF Fits
<1>15. ASSUME NEW j \in Server, NEW p \in Peers(j)
       PROVE  PeerKnown(j, p)' \/ /\ state[j] = "Leader"
                                  /\ nextIndex'[j][p] = nextIndex[j][p]
                                  /\ matchIndex'[j][p] = matchIndex[j][p]
  <2>1. CASE state'[j] # "Leader"
    BY <2>1 DEF PeerKnown
  <2>2. CASE j # i /\ state'[j] = "Leader"
    BY <1>1, <2>2 DEF TypeOK
  <2>3. CASE j = i
    <3>1. p \in Server /\ log[p] \in Seq(Entry)
      BY DEF Peers, TypeOK
    <3>2. Len(log[p]) \in Nat /\ Len(l) \in Nat
      BY <1>2, <3>1, LenProperties
    <3>3. nextIndex'[i][p] = Len(l) /\ matchIndex'[i][p] = -1
      BY <1>0, <1>1, <3>1 DEF TypeOK
    <3>4. Agree(log'[p], log'[i], 0)
      BY <1>1, <1>2, <3>2 DEF Agree
    <3> QED BY <1>2, <2>3, <3>2, <3>3, <3>4 DEF PeerKnown
  <2> QED BY <2>1, <2>2, <2>3
<1>16. Fits(lead2, winner2, won2)'
  BY <1>11, <1>12, <1>13, <1>14, <1>15, FitsAgain
<1> QED BY <1>11, <1>16

(* A command that is submitted prolongs the history of the leader's term.  *)
LEMMA SubmitStep ==
    ASSUME PromptReplies, ~TornReads, TypeOK, TypeOK', ElectionInv, ElectionInv',
           [Next]_vars, NEW lead, NEW winner, NEW won, Fits(lead, winner, won),
           NEW i \in Server, Submit(i)
    PROVE  \E lead2 : /\ Grown(lead, winner, won, lead2, winner, won)
                      /\ Fits(lead2, winner, won)'
<1>0. PICK t \in Nat, l \in Seq(Entry), e \in Entry :
           t = currentTerm[i] /\ l = log[i]
           /\ e = [command |-> nextCommand, term |-> t]
  BY DEF TypeOK, Entry
<1>1. /\ UNCHANGED <<state, currentTerm, appendCalls, nextIndex, matchIndex>>
      /\ state[i] = "Leader" /\ e.term = t
      /\ log' = [log EXCEPT ![i] = Append(l, e)] /\ log'[i] = Append(l, e)
  BY <1>0 DEF Submit, serverVars, leaderVars, TypeOK
<1>2. /\ winner[t] = i /\ lead[t] = l /\ i # None
      /\ Append(l, e) \in Seq(Entry) /\ Len(Append(l, e)) = Len(l) + 1
      /\ Len(l) \in Nat /\ Append(l, e)[Len(l) + 1] = e
      /\ \A k \in 1..Len(l) : Append(l, e)[k] = l[k]
  <2>1. winner[t] = i /\ lead[t] = l /\ i # None
    BY <1>0, <1>1, ServerAssumption DEF Fits, LeadersKnown
  <2> QED BY <2>1, AppendProperties, LenProperties
<1>3. PICK lead2 : lead2 = [lead EXCEPT ![t] = Append(l, e)]
  OBVIOUS
<1>4. /\ lead \in [Nat -> Seq(Entry)] /\ lead2 \in [Nat -> Seq(Entry)]
      /\ lead2[t] = Append(l, e)
      /\ \A u \in Nat \ {t} : lead2[u] = lead[u]
  BY <1>2, <1>3 DEF Fits, IsHistory
<1>5. Grows(lead, lead2)
  <2> SUFFICES ASSUME NEW u \in Nat PROVE Agree(lead[u], lead2[u], Len(lead[u]))
    BY DEF Grows
  <2>1. CASE u = t
    <3>1. lead[u] = l /\ lead2[u] = Append(l, e)
      BY <1>2, <1>4, <2>1
    <3>2. Agree(l, Append(l, e), Len(l))
      BY <1>2 DEF Agree
    <3> QED BY <3>1, <3>2
  <2>2. CASE u # t
    <3>1. lead2[u] = lead[u] /\ Len(lead[u]) \in Nat
      BY <1>4, <2>2, HistoryTypes
    <3> QED BY <3>1 DEF Agree
  <2> QED BY <2>1, <2>2
<1>6. ASSUME NEW u \in Nat PROVE Traced(lead2[u], lead2)
  <2>1. Traced(lead[u], lead) /\ lead[u] \in Seq(Entry)
    BY <1>4, HistoryTypes DEF Fits, IsHistory
  <2>2. Traced(lead[u], lead2)
    BY <1>4, <1>5, <2>1, TracedGrows
  <2>3. CASE u # t
    BY <1>4, <2>2, <2>3
  <2>4. CASE u = t
    <3> SUFFICES ASSUME NEW k \in 1..(Len(l) + 1)
                 PROVE  Agree(lead2[t], lead2[Append(l, e)[k].term], k)
      BY <1>2, <1>4, <2>4 DEF Traced
    <3>0. /\ lead2[t] = Append(l, e) /\ k \in Nat
          /\ Len(lead2[t]) = Len(l) + 1 /\ k <= Len(l) + 1
      BY <1>2, <1>4
    <3>1. CASE k = Len(l) + 1
      <4>1. Append(l, e)[k].term = t
        BY <1>1, <1>2, <3>1
      <4>2. Agree(lead2[t], lead2[t], k)
        BY <3>0 DEF Agree
      <4> QED BY <4>1, <4>2
    <3>2. CASE k # Len(l) + 1
      <4>1. k \in 1..Len(l) /\ Append(l, e)[k] = l[k]
        BY <1>2, <3>2
      <4>2. Agree(l, lead2[l[k].term], k)
        BY <1>2, <2>2, <2>4, <4>1 DEF Traced
      <4>3. \A j \in 1..k : lead2[t][j] = l[j]
        BY <1>2, <3>0, <4>1
      <4>4. Agree(lead2[t], lead2[l[k].term], k)
        BY <3>0, <4>2, <4>3 DEF Agree
      <4> QED BY <4>1, <4>4
    <3> QED BY <3>1, <3>2
  <2> QED BY <2>3, <2>4
<1>7. IsHistory(lead2, winner, won)
  <2>1. \A u \in Nat : winner[u] = None => lead2[u] = <<>>
    BY <1>2, <1>4 DEF Fits, IsHistory
  <2> QED BY <1>4, <1>6, <2>1 DEF Fits, IsHistory
<1>8. HistoryStep(lead, winner, won, lead2, winner, won)
  <2>1. \A u \in Nat : lead2[u] # lead[u] => u = t
    BY <1>4
  <2>2. \A j \in Server : j # None
    BY ServerAssumption
  <2> QED BY <1>0, <1>1, <1>2, <1>4, <1>5, <2>1, <2>2 DEF HistoryStep
<1>9. Grown(lead, winner, won, lead2, winner, won)
  BY <1>7, <1>8 DEF Grown, Fits
<1>10. LeadersKnown(lead2, winner)'
  <2> SUFFICES ASSUME NEW j \in Server, state'[j] = "Leader"
               PROVE  winner[currentTerm'[j]] = j /\ lead2[currentTerm'[j]] = log'[j]
    BY DEF LeadersKnown
  <2>1. CASE j = i
    BY <1>0, <1>1, <1>2, <1>4, <2>1
  <2>2. CASE j # i
    <3>1. /\ winner[currentTerm[j]] = j /\ lead[currentTerm[j]] = log[j]
          /\ currentTerm[j] \in Nat
      BY <1>1 DEF Fits, LeadersKnown, TypeOK
    <3>2. currentTerm[j] # t /\ log'[j] = log[j]
      BY <1>1, <1>2, <2>2, <3>1 DEF TypeOK
    <3> QED BY <1>1, <1>4, <3>1, <3>2
  <2> QED BY <2>1, <2>2
<1>11. VotesSpent(winner, won)'
  BY VotesSpentKept
<1>12. \A c \in appendCalls' : CallKnown(c, lead, winner)
  BY <1>1 DEF Fits
<1>13. ASSUME NEW j \in Server, NEW p \in Peers(j)
       PROVE  PeerKnown(j, p)' \/ /\ state[j] = "Leader"
                                  /\ nextIndex'[j][p] = nextIndex[j][p]
                                  /\ matchIndex'[j][p] = matchIndex[j][p]
  BY <1>1 DEF PeerKnown
<1>14. Fits(lead2, winner, won)'
  BY <1>9, <1>10, <1>11, <1>12, <1>13, FitsAgain
<1> QED BY <1>9, <1>14

(* Nothing changes in the history of a step that is neither of these.      *)
LEMMA SameHistory ==
    ASSUME NEW lead, NEW winner, NEW won, IsHistory(lead, winner, won)
    PROVE  Grown(lead, winner, won, lead, winner, won)
<1>1. Grows(lead, lead)
  <2> SUFFICES ASSUME NEW u \in Nat PROVE Agree(lead[u], lead[u], Len(lead[u]))
    BY DEF Grows
  <2>1. Len(lead[u]) \in Nat
    BY HistoryTypes DEF IsHistory
  <2> QED BY <2>1 DEF Agree
<1>2. \A j \in Server : j # None
  BY ServerAssumption
<1> QED BY <1>1, <1>2 DEF Grown, HistoryStep

(* What is known of a request is known of it when its caller has given up. *)
LEMMA OrphanKnown ==
    ASSUME NEW lead, NEW winner, NEW c \in AppendCall, CallKnown(c, lead, winner),
           c.stage = "request"
    PROVE  CallKnown([c EXCEPT !.stage = "orphan"], lead, winner)
<1> DEFINE d == [c EXCEPT !.stage = "orphan"]
<1>1. /\ d.caller = c.caller /\ d.peer = c.peer /\ d.term = c.term
      /\ d.ni = c.ni /\ d.sent = c.sent /\ d.args = c.args /\ d.stage = "orphan"
  BY DEF AppendCall
<1> HIDE DEF d
<1>2. \A l : Carries(c, l) => Carries(d, l)
  BY <1>1 DEF Carries
<1>3. RequestKnown(d, lead) /\ ReplyKnown(d, lead)
  BY <1>1, <1>2 DEF CallKnown, RequestKnown, ReplyKnown
<1> QED BY <1>1, <1>3 DEF CallKnown, d

(* The answer of a peer that has run a request.                            *)
LEMMA AnswerKnown ==
    ASSUME TypeOK, TypeOK', ~TornReads, NEW lead, NEW winner, NEW won,
           Fits(lead, winner, won),
           NEW c \in appendCalls, AppendEntries(c), c.stage = "request",
           NEW d, \E r \in AppendReply :
              /\ d = [c EXCEPT !.stage = "reply", !.args = NoAppendArgs, !.reply = r]
              /\ \/ AcceptEntries(c) /\ r = [term |-> c.term, success |-> TRUE]
                    /\ c.term >= currentTerm[c.peer]
                    /\ HasPrev(log[c.peer], c.args.prevLogIndex, c.args.prevLogTerm)
                 \/ /\ r = [term |-> currentTerm'[c.peer], success |-> FALSE]
                    /\ \/ c.term < currentTerm[c.peer]
                       \/ ~HasPrev(log[c.peer], c.args.prevLogIndex, c.args.prevLogTerm)
    PROVE  CallKnown(d, lead, winner) \/ CallKnown(d, lead, winner)'
<1>1. PICK r \in AppendReply :
        /\ d = [c EXCEPT !.stage = "reply", !.args = NoAppendArgs, !.reply = r]
        /\ \/ AcceptEntries(c) /\ r = [term |-> c.term, success |-> TRUE]
              /\ c.term >= currentTerm[c.peer]
              /\ HasPrev(log[c.peer], c.args.prevLogIndex, c.args.prevLogTerm)
           \/ /\ r = [term |-> currentTerm'[c.peer], success |-> FALSE]
              /\ \/ c.term < currentTerm[c.peer]
                 \/ ~HasPrev(log[c.peer], c.args.prevLogIndex, c.args.prevLogTerm)
  OBVIOUS
<1>2. /\ c \in AppendCall /\ c.caller \in Server /\ c.peer \in Server
      /\ c.term \in Nat /\ c.ni \in Nat /\ c.sent \in Nat
      /\ currentTerm[c.peer] \in Nat
  BY DEF TypeOK, AppendCall
<1>3. /\ d.caller = c.caller /\ d.peer = c.peer /\ d.term = c.term /\ d.stage = "reply"
      /\ d.ni = c.ni /\ d.sent = c.sent /\ d.reply = r
  BY <1>1, <1>2 DEF AppendCall
<1>4. /\ winner[c.term] = c.caller /\ c.peer # c.caller
      /\ Active(c.caller) => Leads(c.caller, c.term)
      /\ Leads(c.caller, c.term) => Carries(c, lead[c.term])
      /\ c.args.prevLogIndex = c.ni - 1
  <2>1. CallKnown(c, lead, winner)
    BY DEF Fits
  <2> QED BY <2>1 DEF CallKnown, RequestKnown, Carries
<1>5. Leads(c.caller, c.term) => c.ni + c.sent <= Len(lead[c.term])
  BY <1>4 DEF Carries
<1>6. currentTerm'[c.peer] = IF c.term >= currentTerm[c.peer] THEN c.term
                             ELSE currentTerm[c.peer]
  <2>1. CASE c.term > currentTerm[c.peer]
    <3>1. BecomeFollower(c.peer, c.term)
      BY <2>1 DEF AppendEntries, Newer
    <3>2. currentTerm'[c.peer] = c.term
      BY <1>2, <3>1 DEF BecomeFollower, TypeOK
    <3> QED BY <1>2, <2>1, <3>2
  <2>2. CASE c.term = currentTerm[c.peer]
    <3>1. BecomeFollower(c.peer, c.term) \/ UNCHANGED serverVars
      BY DEF AppendEntries
    <3>2. currentTerm'[c.peer] = c.term
      BY <1>2, <2>2, <3>1 DEF BecomeFollower, serverVars, TypeOK
    <3> QED BY <1>2, <2>2, <3>2
  <2>3. CASE c.term < currentTerm[c.peer]
    <3>1. ~(c.term > currentTerm[c.peer]) /\ c.term # currentTerm[c.peer]
      BY <1>2, <2>3
    <3>2. UNCHANGED currentTerm
      BY <3>1 DEF AppendEntries, Newer, serverVars
    <3> QED BY <1>2, <2>3, <3>2
  <2> QED BY <1>2, <2>1, <2>2, <2>3
<1>7. SameRoles
  BY <1>2, ZenonT(30) DEF AppendEntries, BecomeFollower, serverVars, SameRoles, Active, TypeOK
<1>8. RequestKnown(d, lead) /\ RequestKnown(d, lead)'
  BY <1>3 DEF RequestKnown
<1>9. CASE ~r.success
  <2>1. /\ r.term = currentTerm'[c.peer]
        /\ \/ c.term < currentTerm[c.peer]
           \/ ~HasPrev(log[c.peer], c.args.prevLogIndex, c.args.prevLogTerm)
    BY <1>1, <1>9
  <2>2. r.term = c.term => c.ni > 0
    <3> SUFFICES ASSUME r.term = c.term PROVE c.ni > 0
      OBVIOUS
    <3>1. c.term >= currentTerm[c.peer]
      BY <1>2, <1>6, <2>1
    <3>2. c.args.prevLogIndex # -1
      BY <1>2, <2>1, <3>1 DEF HasPrev
    <3> QED BY <1>2, <1>4, <3>2
  <2>3. ReplyKnown(d, lead)
    BY <1>3, <1>5, <1>9, <2>2 DEF ReplyKnown
  <2> QED BY <1>3, <1>4, <1>8, <2>3 DEF CallKnown
<1>10. CASE r.success
  <2>1. /\ AcceptEntries(c) /\ r.term = c.term /\ c.term >= currentTerm[c.peer]
        /\ HasPrev(log[c.peer], c.args.prevLogIndex, c.args.prevLogTerm)
    BY <1>1, <1>10
  <2>2. currentTerm'[c.peer] = c.term /\ c.term >= c.term
    BY <1>2, <1>6, <2>1
  <2>3. Leads(c.caller, c.term)' => Leads(c.caller, c.term)
    BY <1>2, <1>7 DEF SameRoles, Active, Leads
  <2>4. ASSUME Leads(c.caller, c.term)
        PROVE  Agree(log'[c.peer], lead[c.term], c.ni + c.sent)
    <3>1. /\ log[c.peer] \in Seq(Entry) /\ lead[c.term] \in Seq(Entry)
          /\ Traced(log[c.peer], lead) /\ Traced(lead[c.term], lead)
      BY <1>2, HistoryTypes DEF TypeOK, Fits, IsHistory, LogsTraced
    <3>2. log'[c.peer] = Spliced(log[c.peer], c.args.prevLogIndex, c.args.entries)
      BY <1>2, <2>1 DEF AcceptEntries, TypeOK
    <3> QED BY <1>2, <1>4, <2>1, <2>4, <3>1, <3>2, SplicedAgrees
  <2>5. ReplyKnown(d, lead)'
    BY <1>3, <1>5, <1>10, <2>1, <2>2, <2>3, <2>4 DEF ReplyKnown
  <2>6. Active(c.caller)' => Leads(c.caller, c.term)'
    BY <1>2, <1>4, <1>7 DEF SameRoles, Leads
  <2> QED BY <1>3, <1>4, <1>8, <2>5, <2>6 DEF CallKnown
<1>11. r.success \in BOOLEAN
  BY DEF AppendReply
<1> QED BY <1>9, <1>10, <1>11

(* No leader's log changes but by its own clients' commands.               *)
LEMMA LeadersStay ==
    ASSUME PromptReplies, TypeOK, TypeOK', ElectionInv, [Next]_vars,
           NEW lead, NEW winner, NEW won, Fits(lead, winner, won),
           \A i \in Server : ~Submit(i),
           \A i \in Server : state'[i] = "Leader" => state[i] = "Leader"
    PROVE  LeadersKnown(lead, winner)'
<1> SUFFICES ASSUME NEW i \in Server, state'[i] = "Leader"
             PROVE  winner[currentTerm'[i]] = i /\ lead[currentTerm'[i]] = log'[i]
  BY DEF LeadersKnown
<1>1. state[i] = "Leader" /\ currentTerm'[i] = currentTerm[i]
  BY SupportersStep DEF Active, Continues, Begins
<1>2. winner[currentTerm[i]] = i /\ lead[currentTerm[i]] = log[i]
  BY <1>1 DEF Fits, LeadersKnown
<1>3. log'[i] = log[i]
  <2>1. ASSUME NEW c \in appendCalls, Accepts(c) PROVE log'[i] = log[i]
    <3>1. c.peer # i
      <4> SUFFICES ASSUME c.peer = i PROVE FALSE
        OBVIOUS
      <4>1. c.term # currentTerm[i]
        BY <1>1, NoRivalRequest DEF Fits
      <4> QED BY <1>1, <2>1, <4>1 DEF Accepts
    <3> QED BY <2>1, <3>1 DEF Accepts, TypeOK
  <2> QED BY <2>1, LogChanges
<1> QED BY <1>1, <1>2, <1>3

(* The request that a goroutine makes of its caller's log, as it is now.   *)
LEMMA SentKnown ==
    ASSUME TypeOK, NEW lead, NEW winner, NEW won, Fits(lead, winner, won),
           NEW c \in appendCalls, c.stage = "spawned",
           NEW ni \in Nat, NEW l, l = log[c.caller], ni <= Len(l),
           NEW d \in AppendCall, d.caller = c.caller, d.peer = c.peer, d.term = c.term,
           d.stage = "request", d.ni = ni, d.sent = Len(l) - ni,
           d.args.prevLogIndex = ni - 1,
           d.args.prevLogTerm = IF ni = 0 THEN -1 ELSE EntryTerm(l, ni - 1),
           d.args.entries = SubSeq(l, ni + 1, Len(l))
    PROVE  CallKnown(d, lead, winner)
<1>1. /\ l \in Seq(Entry) /\ Len(l) \in Nat /\ c.caller \in Server /\ c.term \in Nat
  BY LenProperties DEF TypeOK, AppendCall
<1>2. /\ winner[c.term] = c.caller /\ c.peer # c.caller
      /\ Active(c.caller) => Leads(c.caller, c.term)
  BY DEF Fits, CallKnown
<1>3. /\ lead \in [Nat -> Seq(Entry)] /\ Traced(l, lead)
      /\ Leads(c.caller, c.term) => lead[c.term] = l
  BY <1>1 DEF Fits, IsHistory, LogsTraced, LeadersKnown, Leads
<1>4. Carries(d, l)
  <2>1. Len(SubSeq(l, ni + 1, Len(l))) = Len(l) - ni
    BY <1>1, SubSeqProperties
  <2>2. \A k \in 1..(Len(l) - ni) : SubSeq(l, ni + 1, Len(l))[k] = l[ni + k]
    BY <1>1, SubSeqProperties
  <2>3. ni > 0 => d.args.prevLogTerm = l[ni].term
    BY <1>1 DEF EntryTerm
  <2>4. d.ni + d.sent = Len(l)
    BY <1>1
  <2>5. d.args.prevLogIndex = d.ni - 1 /\ d.sent = Len(d.args.entries)
    BY <2>1
  <2>6. \A k \in 1..d.sent : d.args.entries[k] = l[d.ni + k]
    BY <2>2
  <2>7. d.ni > 0 => d.args.prevLogTerm = l[d.ni].term
    BY <2>3
  <2>8. d.ni + d.sent <= Len(l)
    BY <1>1, <2>4
  <2> QED BY <2>5, <2>6, <2>7, <2>8 DEF Carries
<1>5. \E u \in Nat : Carries(d, lead[u])
  <2>1. CASE l = <<>>
    <3>1. d.ni = 0 /\ d.sent = 0 /\ Len(d.args.entries) = 0
      BY <1>1, <1>4, <2>1 DEF Carries
    <3>2. Len(lead[0]) \in Nat
      BY <1>3, HistoryTypes
    <3>3. Carries(d, lead[0])
      BY <3>1, <3>2 DEF Carries
    <3> QED BY <3>3
  <2>2. CASE l # <<>>
    <3>1. Len(l) \in 1..Len(l)
      BY <1>1, <2>2, EmptySeq
    <3>2. l[Len(l)] \in Entry
      BY <1>1, <3>1, ElementOfSeq
    <3>3. PICK u \in Nat : u = l[Len(l)].term
      BY <3>2 DEF Entry
    <3>4. Agree(l, lead[u], Len(l))
      BY <1>3, <3>1, <3>3 DEF Traced
    <3>5. lead[u] \in Seq(Entry)
      BY <1>3, HistoryTypes
    <3> QED BY <1>1, <1>4, <3>4, <3>5, CarriesExtended
  <2> QED BY <2>1, <2>2
<1>6. RequestKnown(d, lead) /\ ReplyKnown(d, lead)
  BY <1>3, <1>4, <1>5 DEF RequestKnown, ReplyKnown
<1> QED BY <1>2, <1>6 DEF CallKnown

(* Every call under way after a step is one from before, in its old stage  *)
(* or a newer one, or belongs to a heartbeat that a leader has just begun. *)
LEMMA CallsFrom ==
    ASSUME PromptReplies, ~TornReads, TypeOK, TypeOK', ElectionInv, [Next]_vars,
           NEW lead, NEW winner, NEW won, Fits(lead, winner, won),
           NEW d \in appendCalls'
    PROVE  CallKnown(d, lead, winner) \/ CallKnown(d, lead, winner)'
<1> USE DEF serverVars, logVars, leaderVars
<1>0. /\ appendCalls \in SUBSET AppendCall /\ d \in AppendCall
      /\ \A c \in appendCalls : CallKnown(c, lead, winner)
  BY DEF TypeOK, Fits
<1>1. ASSUME d \in appendCalls PROVE CallKnown(d, lead, winner)
  BY <1>0, <1>1
<1>2. ASSUME NEW c \in appendCalls, c.stage = "request",
             d = [c EXCEPT !.stage = "orphan"]
      PROVE  CallKnown(d, lead, winner)
  BY <1>0, <1>2, OrphanKnown
<1>3. ASSUME NEW i \in Server, ElectionTimeout(i) PROVE CallKnown(d, lead, winner)
  <2>1. appendCalls' \in Abandoned(appendCalls, i)
    BY <1>3 DEF ElectionTimeout
  <2>2. \/ d \in appendCalls
        \/ \E c \in appendCalls : /\ c.stage = "request"
                                  /\ d = [c EXCEPT !.stage = "orphan"]
    <3>1. \A r \in Abandoned(appendCalls, i) : \A e \in r :
             \/ e \in appendCalls
             \/ \E c \in appendCalls : /\ c.stage = "request"
                                       /\ e = [c EXCEPT !.stage = "orphan"]
      BY <1>0, AbandonedFrom
    <3> QED BY <2>1, <3>1
  <2> QED BY <1>1, <1>2, <2>2
<1>4. ASSUME NEW i \in Server, LeaderSendHeartbeats(i)
      PROVE  CallKnown(d, lead, winner)
  <2>1. state[i] = "Leader" /\ currentTerm[i] \in Nat
    BY <1>4 DEF LeaderSendHeartbeats, TypeOK
  <2>2. \/ d \in appendCalls
        \/ /\ d.caller = i /\ d.peer \in Peers(i) /\ d.term = currentTerm[i]
           /\ d.stage = "spawned"
    BY <1>4 DEF LeaderSendHeartbeats
  <2>3. CASE /\ d.caller = i /\ d.peer \in Peers(i) /\ d.term = currentTerm[i]
             /\ d.stage = "spawned"
    <3>1. winner[d.term] = i /\ d.peer # i /\ Leads(i, d.term)
      BY <2>1, <2>3 DEF Fits, LeadersKnown, Leads, Peers
    <3>2. RequestKnown(d, lead) /\ ReplyKnown(d, lead)
      BY <2>3 DEF RequestKnown, ReplyKnown
    <3> QED BY <2>3, <3>1, <3>2 DEF CallKnown
  <2> QED BY <1>1, <2>2, <2>3
<1>5. ASSUME NEW c \in appendCalls, SendAppendEntries(c)
      PROVE  CallKnown(d, lead, winner)
  <2>1. c \in AppendCall /\ c.stage = "spawned"
    BY <1>0, <1>5 DEF SendAppendEntries
  <2>2. PICK ni, l : ni = nextIndex[c.caller][c.peer] /\ l = log[c.caller]
    OBVIOUS
  <2>3. CASE d \notin appendCalls
    <3>1. /\ ni \in 0..Len(l)
          /\ d = [c EXCEPT !.stage = "request", !.ni = ni, !.sent = Len(l) - ni,
                           !.args = [prevLogIndex |-> ni - 1,
                                     prevLogTerm |-> IF ni = 0 THEN -1
                                                     ELSE EntryTerm(l, ni - 1),
                                     entries |-> SubSeq(l, ni + 1, Len(l)),
                                     leaderCommit |-> commitIndex[c.caller]]]
      BY <1>5, <2>2, <2>3 DEF SendAppendEntries
    <3>2. Len(l) \in Nat
      BY <2>1, <2>2, LenProperties DEF TypeOK, AppendCall
    <3>3. ni \in Nat /\ ni <= Len(l)
      BY <3>1, <3>2
    <3>4. /\ d.caller = c.caller /\ d.peer = c.peer /\ d.term = c.term
          /\ d.stage = "request" /\ d.ni = ni /\ d.sent = Len(l) - ni
          /\ d.args.prevLogIndex = ni - 1
          /\ d.args.prevLogTerm = IF ni = 0 THEN -1 ELSE EntryTerm(l, ni - 1)
          /\ d.args.entries = SubSeq(l, ni + 1, Len(l))
      BY <2>1, <3>1 DEF AppendCall
    <3> QED BY <1>0, <2>1, <2>2, <3>3, <3>4, SentKnown
  <2> QED BY <1>1, <2>3
<1>6. ASSUME NEW c \in appendCalls, AppendEntries(c)
      PROVE  CallKnown(d, lead, winner) \/ CallKnown(d, lead, winner)'
  <2>1. /\ c \in AppendCall /\ c.term \in Nat
        /\ currentTerm[c.peer] \in Nat /\ currentTerm'[c.peer] \in Nat
    BY <1>0 DEF TypeOK, AppendCall
  <2>2. ASSUME NEW r \in AppendReply, NEW calls \in AfterOverwrite(c.peer, log'[c.peer]),
               appendCalls' = Answered(calls, c, r), d \notin appendCalls
        PROVE  /\ c.stage = "request"
               /\ d = [c EXCEPT !.stage = "reply", !.args = NoAppendArgs, !.reply = r]
    <3>1. calls = appendCalls
      BY <2>2 DEF AfterOverwrite
    <3>2. c.stage # "orphan"
      BY <2>2, <3>1 DEF Answered
    <3> QED BY <1>6, <2>2, <3>1, <3>2 DEF Answered, AppendEntries
  <2>3. CASE /\ c.term >= currentTerm[c.peer]
             /\ HasPrev(log[c.peer], c.args.prevLogIndex, c.args.prevLogTerm)
             /\ d \notin appendCalls
    <3>1. AcceptEntries(c)
      BY <1>6, <2>3 DEF AppendEntries
    <3>2. PICK r \in AppendReply : r = [term |-> c.term, success |-> TRUE]
      BY <2>1 DEF AppendCall, AppendReply
    <3>3. /\ log'[c.peer] = Spliced(log[c.peer], c.args.prevLogIndex, c.args.entries)
          /\ \E calls \in AfterOverwrite(c.peer,
                    Spliced(log[c.peer], c.args.prevLogIndex, c.args.entries)) :
               appendCalls' = Answered(calls, c, r)
      BY <2>1, <3>1, <3>2 DEF AcceptEntries, TypeOK, AppendCall
    <3>4. /\ c.stage = "request"
          /\ d = [c EXCEPT !.stage = "reply", !.args = NoAppendArgs, !.reply = r]
      BY <2>2, <2>3, <3>3
    <3> QED BY <1>6, <2>3, <3>1, <3>2, <3>4, AnswerKnown
  <2>4. CASE /\ ~ /\ c.term >= currentTerm[c.peer]
                  /\ HasPrev(log[c.peer], c.args.prevLogIndex, c.args.prevLogTerm)
             /\ d \notin appendCalls
    <3>1. PICK r \in AppendReply : r = [term |-> currentTerm'[c.peer], success |-> FALSE]
      BY <2>1 DEF AppendReply
    <3>2. appendCalls' = Answered(appendCalls, c, r)
      BY <1>6, <2>4, <3>1 DEF AppendEntries
    <3>3. appendCalls \in AfterOverwrite(c.peer, log'[c.peer])
      BY DEF AfterOverwrite
    <3>4. /\ c.stage = "request"
          /\ d = [c EXCEPT !.stage = "reply", !.args = NoAppendArgs, !.reply = r]
      BY <2>2, <2>4, <3>2, <3>3
    <3>5. \/ c.term < currentTerm[c.peer]
          \/ ~HasPrev(log[c.peer], c.args.prevLogIndex, c.args.prevLogTerm)
      BY <2>1, <2>4
    <3>6. \E q \in AppendReply :
             /\ d = [c EXCEPT !.stage = "reply", !.args = NoAppendArgs, !.reply = q]
             /\ q = [term |-> currentTerm'[c.peer], success |-> FALSE]
             /\ \/ c.term < currentTerm[c.peer]
                \/ ~HasPrev(log[c.peer], c.args.prevLogIndex, c.args.prevLogTerm)
      BY <3>1, <3>4, <3>5
    <3> QED BY <1>6, <3>4, <3>6, AnswerKnown
  <2> QED BY <1>1, <2>3, <2>4
<1>7. ASSUME NEW c \in appendCalls, AppendEntriesAtDead(c)
      PROVE  CallKnown(d, lead, winner)
  <2>1. c \in AppendCall /\ CallKnown(c, lead, winner) /\ c.caller \in Server
    BY <1>0 DEF AppendCall
  <2>2. CASE d \notin appendCalls
    <3>1. /\ c.stage = "request"
          /\ d = [c EXCEPT !.stage = "reply", !.args = NoAppendArgs,
                           !.reply = ZeroAppendReply]
      BY <1>7, <2>2 DEF AppendEntriesAtDead, Answered
    <3>2. /\ d.caller = c.caller /\ d.peer = c.peer /\ d.term = c.term
          /\ d.stage = "reply" /\ d.ni = c.ni /\ d.sent = c.sent
          /\ d.reply.term = 0 /\ ~d.reply.success
      BY <2>1, <3>1 DEF AppendCall, ZeroAppendReply
    <3>3. c.term # 0
      <4>1. winner[c.term] # None
        BY <2>1, ServerAssumption DEF CallKnown
      <4>2. c.term \in Nat /\ c.term > 0
        BY <2>1, <4>1 DEF Fits, IsHistory, AppendCall
      <4> QED BY <4>2
    <3>4. Leads(c.caller, c.term) => c.ni + c.sent <= Len(lead[c.term])
      BY <2>1, <3>1 DEF CallKnown, RequestKnown, Carries
    <3>5. RequestKnown(d, lead) /\ ReplyKnown(d, lead)
      BY <3>2, <3>3, <3>4 DEF RequestKnown, ReplyKnown
    <3> QED BY <2>1, <3>1, <3>2, <3>5 DEF CallKnown
  <2> QED BY <1>1, <2>2
<1>8. ASSUME NEW c \in appendCalls, AppendEntriesFails(c)
      PROVE  CallKnown(d, lead, winner)
  <2>1. \/ d \in appendCalls
        \/ c.stage = "request" /\ d = [c EXCEPT !.stage = "orphan"]
    BY <1>8 DEF AppendEntriesFails
  <2> QED BY <1>1, <1>2, <2>1
<1>9. ASSUME NEW c \in appendCalls, HandleAppendReply(c)
      PROVE  CallKnown(d, lead, winner)
  BY <1>1, <1>9 DEF HandleAppendReply
<1>10. ASSUME UNCHANGED appendCalls PROVE CallKnown(d, lead, winner)
  BY <1>1, <1>10
<1> QED BY <1>3, <1>4, <1>5, <1>6, <1>7, <1>8, <1>9, <1>10
        DEF Next, vars, Submit, Stop, SendRequestVote, RequestVote,
            RequestVoteAtDead, HandleVoteReply

(* What a leader learns from an answer is true.                            *)
LEMMA PeersLearned ==
    ASSUME PromptReplies, TypeOK, TypeOK', ElectionInv, [Next]_vars,
           NEW lead, NEW winner, NEW won, Fits(lead, winner, won),
           \A i \in Server : state'[i] = "Leader" => state[i] = "Leader",
           NEW i \in Server, NEW p \in Peers(i)
    PROVE  \/ PeerKnown(i, p)'
           \/ /\ state[i] = "Leader"
              /\ nextIndex'[i][p] = nextIndex[i][p]
              /\ matchIndex'[i][p] = matchIndex[i][p]
<1> USE DEF serverVars, logVars, leaderVars
<1>0. SUFFICES ASSUME state'[i] = "Leader" PROVE
           \/ PeerKnown(i, p)'
           \/ /\ nextIndex'[i][p] = nextIndex[i][p]
              /\ matchIndex'[i][p] = matchIndex[i][p]
  BY DEF PeerKnown
<1>1. state[i] = "Leader" /\ p \in Server /\ PeerKnown(i, p)
  BY <1>0 DEF Peers, Fits
<1>2. ASSUME NEW c \in appendCalls, HandleAppendReply(c), c.caller = i, c.peer = p,
             c.reply.term <= currentTerm[i], c.term = c.reply.term
      PROVE  PeerKnown(i, p)'
  <2>1. c \in AppendCall /\ CallKnown(c, lead, winner) /\ c.stage = "reply"
    BY <1>2 DEF TypeOK, Fits, HandleAppendReply
  <2>2. PICK t \in Nat, ni \in Nat, n \in Nat, l \in Seq(Entry) :
           t = c.term /\ ni = c.ni /\ n = c.sent /\ l = log[i]
    BY <2>1 DEF AppendCall, TypeOK
  <2>3. Len(l) \in Nat
    BY LenProperties
  <2>4. Leads(i, t)
    BY <1>1, <1>2, <2>1, <2>2 DEF CallKnown, Active
  <2>5. lead[t] = l
    BY <2>2, <2>4 DEF Fits, LeadersKnown, Leads
  <2>6. /\ ni + n <= Len(l)
        /\ c.reply.success => currentTerm[p] >= t
        /\ c.reply.success /\ currentTerm[p] = t => Agree(log[p], l, ni + n)
        /\ ~c.reply.success => ni > 0
    BY <1>2, <2>1, <2>2, <2>4, <2>5 DEF CallKnown, ReplyKnown
  <2>7. ~(c.reply.term > currentTerm[i])
    BY <1>2, <2>2, <2>4 DEF Leads
  <2>8. UNCHANGED <<state, currentTerm, log>>
    BY <1>2, <2>7 DEF HandleAppendReply
  <2>9. CASE c.reply.success
    <3>1. nextIndex'[i][p] = ni + n /\ matchIndex'[i][p] = ni + n - 1
      <4>1. /\ nextIndex' = [nextIndex EXCEPT ![i][p] = ni + n]
            /\ matchIndex' = [matchIndex EXCEPT ![i] =
                                 [matchIndex[i] EXCEPT ![p] = ni + n - 1]]
        BY <1>1, <1>2, <2>2, <2>4, <2>7, <2>9
           DEF HandleAppendReply, MatchedUpTo, NextAfter, Leads
      <4>2. /\ nextIndex \in [Server -> [Server -> Int]]
            /\ matchIndex \in [Server -> [Server -> Nat \cup {-1}]]
        BY DEF TypeOK
      <4> QED BY <1>1, <4>1, <4>2
    <3>2. (ni + n - 1) + 1 = ni + n
      BY <2>2, SMTT(30)
    <3>3. ni + n \in 0..Len(l) /\ ni + n - 1 < Len(l)
      BY <2>2, <2>3, <2>6
    <3> QED BY <2>2, <2>4, <2>6, <2>8, <2>9, <3>1, <3>2, <3>3 DEF PeerKnown, Leads
  <2>10. CASE ~c.reply.success
    <3>1. nextIndex'[i][p] = ni - 1 /\ matchIndex'[i][p] = matchIndex[i][p]
      <4>1. nextIndex' = [nextIndex EXCEPT ![i][p] = ni - 1] /\ UNCHANGED matchIndex
        BY <1>1, <1>2, <2>2, <2>4, <2>7, <2>10 DEF HandleAppendReply, Leads
      <4>2. nextIndex \in [Server -> [Server -> Int]]
        BY DEF TypeOK
      <4> QED BY <1>1, <4>1, <4>2
    <3>2. ni - 1 \in 0..Len(l)
      BY <2>2, <2>3, <2>6, <2>10
    <3> QED BY <1>1, <2>2, <2>8, <3>1, <3>2 DEF PeerKnown
  <2> QED BY <2>9, <2>10
<1>3. ASSUME NEW c \in appendCalls, HandleAppendReply(c)
      PROVE  \/ PeerKnown(i, p)'
             \/ /\ nextIndex'[i][p] = nextIndex[i][p]
                /\ matchIndex'[i][p] = matchIndex[i][p]
  <2>1. c.caller \in Server /\ c.peer \in Server
    BY DEF TypeOK, AppendCall
  <2>2. CASE /\ c.caller = i /\ c.peer = p
             /\ c.reply.term <= currentTerm[i] /\ c.term = c.reply.term
    BY <1>2, <1>3, <2>2
  <2>3. CASE ~(c.caller = i /\ c.peer = p)
    <3>1. PICK x, m :
             /\ \/ nextIndex' = [nextIndex EXCEPT ![c.caller][c.peer] = x]
                \/ UNCHANGED nextIndex
             /\ \/ matchIndex' = [matchIndex EXCEPT ![c.caller] =
                                     [matchIndex[c.caller] EXCEPT ![c.peer] = m]]
                \/ UNCHANGED matchIndex
      BY <1>3, ZenonT(30) DEF HandleAppendReply
    <3>2. /\ nextIndex \in [Server -> [Server -> Int]]
          /\ matchIndex \in [Server -> [Server -> Nat \cup {-1}]]
      BY DEF TypeOK
    <3>3. nextIndex'[i][p] = nextIndex[i][p]
      BY <1>1, <2>1, <2>3, <3>1, <3>2
    <3>4. matchIndex'[i][p] = matchIndex[i][p]
      BY <1>1, <2>1, <2>3, <3>1, <3>2
    <3> QED BY <3>3, <3>4
  <2>4. CASE /\ c.caller = i /\ c.peer = p
             /\ ~(c.reply.term <= currentTerm[i] /\ c.term = c.reply.term)
    BY <1>3, <2>4 DEF HandleAppendReply
  <2> QED BY <2>2, <2>3, <2>4
<1>4. ASSUME NEW c \in voteCalls, HandleVoteReply(c)
      PROVE  nextIndex'[i] = nextIndex[i] /\ matchIndex'[i] = matchIndex[i]
  <2>1. c.caller \in Server
    BY DEF TypeOK, VoteCall
  <2>2. CASE StartLeader(c.caller) /\ state[c.caller] = "Candidate"
    <3>1. c.caller # i
      BY <1>1, <2>2
    <3> QED BY <2>1, <2>2, <3>1, ZenonT(30) DEF StartLeader, TypeOK
  <2> QED BY <1>4, <2>2 DEF HandleVoteReply
<1> QED BY <1>3, <1>4
        DEF Next, vars, ElectionTimeout, LeaderSendHeartbeats, Stop, Submit,
            SendRequestVote, RequestVote, RequestVoteAtDead,
            SendAppendEntries, AppendEntries, AppendEntriesAtDead, AppendEntriesFails

(* A step in which no server starts to lead and no client submits.         *)
LEMMA OtherStep ==
    ASSUME PromptReplies, ~TornReads, TypeOK, TypeOK', ElectionInv, ElectionInv',
           [Next]_vars, NEW lead, NEW winner, NEW won, Fits(lead, winner, won),
           \A i \in Server : ~Submit(i),
           \A i \in Server : state'[i] = "Leader" => state[i] = "Leader"
    PROVE  /\ Grown(lead, winner, won, lead, winner, won)
           /\ Fits(lead, winner, won)'
<1>1. Grown(lead, winner, won, lead, winner, won)
  BY SameHistory DEF Fits
<1>2. VotesSpent(winner, won)' /\ LeadersKnown(lead, winner)'
  BY VotesSpentKept, LeadersStay
<1>3. \A c \in appendCalls' : CallKnown(c, lead, winner) \/ CallKnown(c, lead, winner)'
  BY CallsFrom
<1>4. \A i \in Server : \A p \in Peers(i) :
         PeerKnown(i, p)' \/ /\ state[i] = "Leader"
                             /\ nextIndex'[i][p] = nextIndex[i][p]
                             /\ matchIndex'[i][p] = matchIndex[i][p]
  BY PeersLearned
<1> QED BY <1>1, <1>2, <1>3, <1>4, FitsAgain

(* Whatever the step, the history that fitted grows into one that fits.    *)
LEMMA FitsStep ==
    ASSUME PromptReplies, ~TornReads, TypeOK, TypeOK', ElectionInv, ElectionInv',
           [Next]_vars, NEW lead, NEW winner, NEW won, Fits(lead, winner, won)
    PROVE  \E lead2, winner2, won2 :
              /\ Grown(lead, winner, won, lead2, winner2, won2)
              /\ Fits(lead2, winner2, won2)'
<1>1. CASE \E i \in Server : state'[i] = "Leader" /\ state[i] # "Leader"
  BY <1>1, LeaderStep
<1>2. CASE \E i \in Server : Submit(i)
  BY <1>2, SubmitStep
<1>3. CASE /\ \A i \in Server : state'[i] = "Leader" => state[i] = "Leader"
           /\ \A i \in Server : ~Submit(i)
  BY <1>3, OtherStep
<1> QED BY <1>1, <1>2, <1>3

LEMMA FitsInit ==
    ASSUME Init
    PROVE  \E lead, winner, won :
              Fits(lead, winner, won) /\ \A t \in Nat : winner[t] = None
<1> DEFINE lead == [t \in Nat |-> <<>>]
           winner == [t \in Nat |-> None]
           won == [t \in Nat |-> {}]
<1>1. <<>> \in Seq(Entry) /\ Len(<<>>) = 0
  BY EmptySeq
<1>2. \A t \in Nat : lead[t] = <<>> /\ winner[t] = None /\ won[t] = {}
  OBVIOUS
<1>3. /\ lead \in [Nat -> Seq(Entry)] /\ winner \in [Nat -> Server \cup {None}]
      /\ won \in [Nat -> SUBSET Server]
  BY <1>1
<1> HIDE DEF lead, winner, won
<1>4. Traced(<<>>, lead)
  BY <1>1 DEF Traced
<1>5. IsHistory(lead, winner, won)
  BY <1>2, <1>3, <1>4 DEF IsHistory
<1>6. VotesSpent(winner, won) /\ LeadersKnown(lead, winner) /\ LogsTraced(lead)
  BY <1>2, <1>4 DEF Init, VotesSpent, LeadersKnown, LogsTraced
<1>7. \A c \in appendCalls : CallKnown(c, lead, winner)
  BY DEF Init
<1>8. \A i \in Server : \A p \in Peers(i) : PeerKnown(i, p)
  BY DEF Init, PeerKnown
<1>9. Fits(lead, winner, won)
  BY <1>5, <1>6, <1>7, <1>8 DEF Fits
<1> QED BY <1>2, <1>9

-----------------------------------------------------------------------------
(* Every reachable state has a history that fits it: the terms won so far, *)
(* by whom, with whose votes, and the logs of the winners explain all      *)
(* logs, requests and replies there are.                                   *)
THEOREM LogInvariant == ASSUME PromptReplies, ~TornReads PROVE Spec => []LogInv
<1>1. Init => LogInv
  BY FitsInit DEF LogInv
<1>2. TypeOK /\ TypeOK' /\ ElectionInv /\ ElectionInv' /\ LogInv /\ [Next]_vars => LogInv'
  <2> SUFFICES ASSUME TypeOK, TypeOK', ElectionInv, ElectionInv', LogInv, [Next]_vars
               PROVE  LogInv'
    OBVIOUS
  <2>1. PICK lead, winner, won : Fits(lead, winner, won)
    BY DEF LogInv
  <2>2. \E lead2, winner2, won2 : Fits(lead2, winner2, won2)'
    BY <2>1, FitsStep
  <2> QED BY <2>2 DEF LogInv
<1> QED BY <1>1, <1>2, TypeCorrect, ElectionInvariant, PTL DEF Spec

(* A log and a leader's log, as the code counts their entries.             *)
LEMMA AgreeMeansSame ==
    ASSUME NEW i \in Server, NEW j \in Server, NEW m \in Nat,
           Len(log[i]) \in Nat, Len(log[j]) \in Nat, Agree(log[i], log[j], m),
           NEW k \in Nat, k < m
    PROVE  SameEntry(i, j, k) /\ SameEntry(j, i, k)
<1>1. k + 1 \in 1..m /\ k < Len(log[i]) /\ k < Len(log[j])
  BY DEF Agree
<1>2. log[i][k + 1] = log[j][k + 1]
  BY <1>1 DEF Agree
<1> QED BY <1>1, <1>2 DEF SameEntry, Holds

(* Two logs that have an entry of the same term at the same index are the  *)
(* same up to there, commands included, although AppendEntries compares    *)
(* terms only, and only one entry of a log it does not overwrite.          *)
THEOREM LogsMatch == ASSUME PromptReplies, ~TornReads PROVE Spec => []LogMatching
<1>1. TypeOK /\ LogInv => LogMatching
  <2> SUFFICES ASSUME TypeOK, LogInv, NEW i \in Server, NEW j \in Server,
                      NEW k \in 0..(Len(log[i]) - 1), Holds(j, k),
                      EntryTerm(log[i], k) = EntryTerm(log[j], k),
                      NEW m \in 0..k
               PROVE  SameEntry(i, j, m)
    BY DEF LogMatching
  <2>1. PICK lead, winner, won : Fits(lead, winner, won)
    BY DEF LogInv
  <2>2. PICK l1, l2 : l1 = log[i] /\ l2 = log[j]
    OBVIOUS
  <2>3. l1 \in Seq(Entry) /\ l2 \in Seq(Entry)
    BY <2>2 DEF TypeOK
  <2>4. Len(l1) \in Nat /\ Len(l2) \in Nat
    BY <2>3, LenProperties
  <2>5. Traced(l1, lead) /\ Traced(l2, lead)
    BY <2>1, <2>2 DEF Fits, LogsTraced
  <2>6. /\ k \in Nat /\ k + 1 \in Nat /\ k + 1 > 0 /\ k + 1 <= Len(l1) /\ k + 1 <= Len(l2)
        /\ m \in Nat /\ m < k + 1
    BY <2>2, <2>4 DEF Holds
  <2>7. l1[k + 1].term = l2[k + 1].term
    BY <2>2 DEF EntryTerm
  <2>8. Agree(l1, l2, k + 1)
    BY <2>3, <2>5, <2>6, <2>7, SameTermAgree
  <2> QED BY <2>2, <2>4, <2>6, <2>8, AgreeMeansSame
<1> QED BY <1>1, LogInvariant, TypeCorrect, PTL

(* What a leader's matchIndex says of a peer of its term is true, however  *)
(* late and in whatever order the answers to its heartbeats are handled.   *)
THEOREM MatchIndicesHonest ==
    ASSUME PromptReplies, ~TornReads PROVE Spec => []MatchIndexHonest
<1>1. TypeOK /\ LogInv => MatchIndexHonest
  <2> SUFFICES ASSUME TypeOK, LogInv, NEW i \in Server, NEW p \in Peers(i),
                      state[i] = "Leader", currentTerm[p] = currentTerm[i],
                      NEW k \in 0..matchIndex[i][p]
               PROVE  SameEntry(i, p, k)
    BY DEF MatchIndexHonest
  <2>1. PICK lead, winner, won : Fits(lead, winner, won)
    BY DEF LogInv
  <2>2. p \in Server /\ matchIndex[i][p] \in Nat \cup {-1}
    BY DEF TypeOK, Peers
  <2>3. k \in Nat /\ matchIndex[i][p] + 1 \in Nat /\ k < matchIndex[i][p] + 1
    BY <2>2
  <2>4. Agree(log[p], log[i], matchIndex[i][p] + 1)
    BY <2>1 DEF Fits, PeerKnown
  <2>5. Len(log[i]) \in Nat /\ Len(log[p]) \in Nat
    BY <2>2, LenProperties DEF TypeOK
  <2> QED BY <2>2, <2>3, <2>4, <2>5, AgreeMeansSame
<1> QED BY <1>1, LogInvariant, TypeCorrect, PTL

(* While a server leads, the slices it takes of its log are in range.      *)
THEOREM NextIndicesInRange ==
    ASSUME PromptReplies, ~TornReads PROVE Spec => []NextIndexInRange
<1>1. LogInv => NextIndexInRange
  BY DEF LogInv, Fits, PeerKnown, NextIndexInRange
<1> QED BY <1>1, LogInvariant, PTL
=============================================================================
