------------------------- MODULE CommitSafety_proofs ------------------------
(***************************************************************************)
(* Theorems about what Replication commits. The invariant is CommitInv: an *)
(* entry that its leader has found on a majority is on that majority for   *)
(* good and in the log of every later leader, because whoever has won a    *)
(* later term, or may still win one, needed the vote of a server that held *)
(* the entry and compared logs.                                            *)
(***************************************************************************)
EXTENDS CommitHistory, LogMatching_proofs

(* Where an entry is, the log is its leader's, up to there.                *)
LEMMA ContainsAgrees ==
    ASSUME NEW lead, NEW l \in Seq(Entry), Traced(l, lead),
           NEW t, NEW m \in Nat, m > 0, Contains(l, t, m)
    PROVE  Agree(l, lead[t], m)
<1>1. m \in 1..Len(l) /\ l[m].term = t
  BY LenProperties DEF Contains
<1> QED BY <1>1 DEF Traced

LEMMA AgreesContains ==
    ASSUME NEW l1, NEW l2, NEW t, NEW m \in Nat, m > 0, Agree(l1, l2, m)
    PROVE  Contains(l1, t, m) <=> Contains(l2, t, m)
<1>1. m \in 1..m
  OBVIOUS
<1> QED BY <1>1 DEF Agree, Contains

(* Two logs that contain one entry are the same up to there.               *)
LEMMA ContainAgree ==
    ASSUME NEW lead, NEW l1 \in Seq(Entry), NEW l2 \in Seq(Entry),
           Traced(l1, lead), Traced(l2, lead), NEW t, NEW m \in Nat, m > 0,
           Contains(l1, t, m), Contains(l2, t, m)
    PROVE  Agree(l1, l2, m) /\ Agree(l2, l1, m)
BY SameTermAgree DEF Contains

LEMMA ContainsGrows ==
    ASSUME NEW lead \in [Nat -> Seq(Entry)], NEW lead2 \in [Nat -> Seq(Entry)],
           Grows(lead, lead2), NEW u \in Nat, NEW t, NEW m \in Nat, m > 0,
           Contains(lead[u], t, m)
    PROVE  Contains(lead2[u], t, m)
<1>1. m \in 1..Len(lead[u])
  BY HistoryTypes DEF Contains
<1>2. Len(lead[u]) \in Nat /\ Len(lead2[u]) \in Nat
  BY HistoryTypes
<1>3. Agree(lead[u], lead2[u], Len(lead[u]))
  BY DEF Grows
<1>4. lead2[u][m] = lead[u][m] /\ m <= Len(lead2[u])
  BY <1>1, <1>2, <1>3 DEF Agree
<1> QED BY <1>4 DEF Contains

(* The terms along a log with a history never decrease.                    *)
LEMMA TracedOrdered ==
    ASSUME NEW lead \in [Nat -> Seq(Entry)], LeadersOrdered(lead),
           NEW l \in Seq(Entry), Traced(l, lead), NEW k \in 1..Len(l), NEW j \in 1..k
    PROVE  l[j].term <= l[k].term
<1>1. l[k] \in Entry /\ k \in Nat /\ Len(l) \in Nat
  BY ElementOfSeq, LenProperties
<1>2. PICK x \in Nat : x = l[k].term
  BY <1>1 DEF Entry
<1>3. Agree(l, lead[x], k)
  BY <1>2 DEF Traced
<1>4. Len(lead[x]) \in Nat
  BY HistoryTypes
<1>5. k \in 1..Len(lead[x]) /\ j \in 1..k /\ l[j] = lead[x][j] /\ l[k] = lead[x][k]
  BY <1>1, <1>3, <1>4 DEF Agree
<1>6. Ordered(lead[x], x)
  BY DEF LeadersOrdered
<1>7. lead[x][j].term <= lead[x][k].term
  BY <1>5, <1>6 DEF Ordered
<1> QED BY <1>5, <1>7

LEMMA LastEntry ==
    ASSUME NEW l \in Seq(Entry), l # <<>>
    PROVE  /\ Len(l) \in Nat /\ Len(l) \in 1..Len(l)
           /\ l[Len(l)].term \in Nat /\ LastLogTerm(l) = l[Len(l)].term
           /\ LastLogIndex(l) = Len(l) - 1
<1>1. Len(l) \in Nat
  BY LenProperties
<1>2. Len(l) \in 1..Len(l)
  BY <1>1, EmptySeq
<1>3. l[Len(l)] \in Entry
  BY <1>2, ElementOfSeq
<1>4. l[Len(l)].term \in Nat
  BY <1>3 DEF Entry
<1>5. Len(l) - 1 + 1 = Len(l)
  BY <1>1
<1> QED BY <1>1, <1>2, <1>4, <1>5 DEF LastLogTerm, LastLogIndex, EntryTerm

(* The heart of the argument: a log that is at least as up to date as one  *)
(* that contains an entry contains it too, if all leaders of later terms   *)
(* have it.                                                                *)
LEMMA UpToDateContains ==
    ASSUME NEW lead, NEW winner, NEW won, IsHistory(lead, winner, won),
           LeadersOrdered(lead), NEW lv \in Seq(Entry), NEW lw \in Seq(Entry),
           Traced(lv, lead), Traced(lw, lead),
           UpToDate(LastLogTerm(lw), LastLogIndex(lw), lv),
           NEW t \in Nat, NEW m \in Nat, m > 0, Contains(lv, t, m),
           \A u \in Nat : u > t /\ winner[u] # None => Contains(lead[u], t, m)
    PROVE  Contains(lw, t, m)
<1>0. lead \in [Nat -> Seq(Entry)] /\ Len(lv) \in Nat /\ Len(lw) \in Nat
  BY LenProperties DEF IsHistory
<1>1. m \in 1..Len(lv) /\ lv[m].term = t
  BY <1>0 DEF Contains
<1>2. lv # <<>>
  BY <1>0, <1>1, EmptySeq
<1>20. PICK x \in Nat : x = lv[Len(lv)].term
  BY <1>2, LastEntry
<1>3. t <= x /\ LastLogTerm(lv) = x /\ LastLogIndex(lv) = Len(lv) - 1
  <2>1. Len(lv) \in 1..Len(lv) /\ m \in 1..Len(lv)
    BY <1>1, <1>2, LastEntry
  <2>2. lv[m].term <= lv[Len(lv)].term
    BY <1>0, <2>1, TracedOrdered
  <2> QED BY <1>1, <1>2, <1>20, <2>2, LastEntry
<1>4. lw # <<>>
  <2> SUFFICES ASSUME lw = <<>> PROVE FALSE
    OBVIOUS
  <2>1. LastLogTerm(lw) = -1
    BY DEF LastLogTerm
  <2> QED BY <1>20, <1>3, <2>1 DEF UpToDate
<1>5. Len(lw) \in 1..Len(lw)
  BY <1>4, LastEntry
<1>6. PICK y \in Nat : y = lw[Len(lw)].term
  BY <1>4, LastEntry
<1>7. LastLogTerm(lw) = y /\ LastLogIndex(lw) = Len(lw) - 1
  BY <1>4, <1>6, LastEntry
<1>8. \/ y > x
      \/ y = x /\ Len(lw) >= Len(lv)
  <2>1. LastLogIndex(lw) >= LastLogIndex(lv) => Len(lw) >= Len(lv)
    BY <1>0, <1>3, <1>7
  <2> QED BY <1>3, <1>7, <2>1 DEF UpToDate
<1>9. /\ Agree(lw, lead[y], Len(lw)) /\ lead[y] \in Seq(Entry) /\ Len(lead[y]) \in Nat
      /\ Traced(lead[y], lead)
  BY <1>0, <1>5, <1>6, HistoryTypes DEF Traced, IsHistory
<1>10. ASSUME m <= Len(lw), Contains(lead[y], t, m) PROVE Contains(lw, t, m)
  <2>1. m \in 1..Len(lw)
    BY <1>0, <1>10
  <2> QED BY <1>9, <1>10, <2>1 DEF Agree, Contains
<1>11. CASE y > t
  <2>1. winner[y] # None
    <3>1. lead[y] # <<>>
      BY <1>0, <1>5, <1>9, EmptySeq DEF Agree
    <3> QED BY <3>1 DEF IsHistory
  <2>2. Contains(lead[y], t, m)
    BY <1>11, <2>1
  <2>3. m <= Len(lw)
    <3> SUFFICES ASSUME m > Len(lw) PROVE FALSE
      BY <1>0
    <3>1. m \in 1..Len(lead[y]) /\ Len(lw) \in 1..m
      BY <1>0, <1>5, <1>9, <2>2 DEF Contains
    <3>2. lead[y][Len(lw)].term <= lead[y][m].term
      BY <3>1 DEF LeadersOrdered, Ordered
    <3>3. lead[y][Len(lw)] = lw[Len(lw)]
      BY <1>5, <1>9 DEF Agree
    <3> QED BY <1>6, <1>11, <2>2, <3>2, <3>3 DEF Contains
  <2> QED BY <1>10, <2>2, <2>3
<1>12. CASE y = t
  <2>1. x = t /\ Len(lw) >= Len(lv) /\ m <= Len(lw)
    BY <1>0, <1>1, <1>3, <1>8, <1>12
  <2>2. Agree(lv, lead[t], m)
    BY <1>1, ContainsAgrees DEF Contains
  <2>3. Contains(lead[t], t, m)
    BY <2>2, AgreesContains
  <2> QED BY <1>10, <1>12, <2>1, <2>3
<1> QED BY <1>3, <1>8, <1>11, <1>12

-----------------------------------------------------------------------------
(* A step between two states with histories that fit, the second grown     *)
(* from the first.                                                         *)
Goes(lead, winner, won, lead2, winner2, won2) ==
    /\ TypeOK /\ TypeOK' /\ ElectionInv /\ ElectionInv' /\ [Next]_vars
    /\ Fits(lead, winner, won) /\ CommitsFit(lead, winner, won)
    /\ Grown(lead, winner, won, lead2, winner2, won2)
    /\ Fits(lead2, winner2, won2)'

LEMMA GoesTypes ==
    ASSUME NEW lead, NEW winner, NEW won, NEW lead2, NEW winner2, NEW won2,
           Goes(lead, winner, won, lead2, winner2, won2)
    PROVE  /\ lead \in [Nat -> Seq(Entry)] /\ lead2 \in [Nat -> Seq(Entry)]
           /\ Grows(lead, lead2)
           /\ winner \in [Nat -> Server \cup {None}]
           /\ winner2 \in [Nat -> Server \cup {None}]
           /\ \A t \in Nat : won[t] \subseteq Server /\ won2[t] \subseteq Server
           /\ \A t \in Nat : winner[t] # None => winner2[t] = winner[t] /\ won2[t] = won[t]
BY DEF Goes, Grown, IsHistory, HistoryStep

(* What a follower's log is when it has accepted a request of the leader   *)
(* of its term.                                                            *)
LEMMA Accepted ==
    ASSUME NEW lead, NEW winner, NEW won, NEW lead2, NEW winner2, NEW won2,
           Goes(lead, winner, won, lead2, winner2, won2),
           NEW c \in appendCalls, Accepts(c)
    PROVE  /\ c.peer \in Server /\ c.term \in Nat /\ c.ni \in Nat /\ c.sent \in Nat
           /\ c.term >= currentTerm[c.peer] /\ currentTerm'[c.peer] = c.term
           /\ winner[c.term] # None
           /\ Agree(log'[c.peer], lead[c.term], c.ni + c.sent)
           /\ log'[c.peer] = log[c.peer] \/ Len(log'[c.peer]) = c.ni + c.sent
           /\ \A m \in Nat : Agree(log[c.peer], lead[c.term], m)
                                => Agree(log'[c.peer], lead[c.term], m)
           /\ \A i \in Server \ {c.peer} : log'[i] = log[i]
<1>1. /\ c \in AppendCall /\ c.peer \in Server /\ c.term \in Nat
      /\ c.ni \in Nat /\ c.sent \in Nat /\ c.caller \in Server
  BY DEF Goes, TypeOK, AppendCall
<1>2. c.term >= currentTerm[c.peer] /\ currentTerm'[c.peer] = c.term
  BY DEF Accepts
<1>3. winner[c.term] = c.caller
  BY DEF Goes, Fits, CallKnown
<1>4. winner[c.term] # None
  BY <1>1, <1>3, ServerAssumption
<1>5. Carries(c, lead[c.term])
  BY DEF Accepts, Goes, CommitsFit, RequestOfLeader
<1>6. PICK l, new : l = log[c.peer] /\ new = log'[c.peer]
  OBVIOUS
<1>7. /\ l \in Seq(Entry) /\ lead[c.term] \in Seq(Entry)
      /\ Traced(l, lead) /\ Traced(lead[c.term], lead)
  <2>1. l \in Seq(Entry) /\ Traced(l, lead)
    BY <1>1, <1>6 DEF Goes, TypeOK, Fits, LogsTraced
  <2>2. lead[c.term] \in Seq(Entry)
    BY <1>1, GoesTypes, HistoryTypes
  <2>3. Traced(lead[c.term], lead)
    BY <1>1 DEF Goes, Fits, IsHistory
  <2> QED BY <2>1, <2>2, <2>3
<1>8. /\ log' = [log EXCEPT ![c.peer] = Spliced(log[c.peer], c.args.prevLogIndex,
                                                c.args.entries)]
      /\ HasPrev(l, c.args.prevLogIndex, c.args.prevLogTerm)
  BY <1>6 DEF Accepts
<1>9. new = Spliced(l, c.args.prevLogIndex, c.args.entries)
  BY <1>1, <1>6, <1>8 DEF Goes, TypeOK
<1>10. /\ Agree(new, lead[c.term], c.ni + c.sent)
       /\ new = l \/ Len(new) = c.ni + c.sent
       /\ \A m \in Nat : Agree(l, lead[c.term], m) => Agree(new, lead[c.term], m)
  <2>1. HasPrev(l, c.args.prevLogIndex, c.args.prevLogTerm)
    BY <1>8
  <2> QED BY <1>1, <1>5, <1>7, <1>9, <2>1, SplicedAgrees
<1>11. \A i \in Server \ {c.peer} : log'[i] = log[i]
  BY <1>8 DEF Goes, TypeOK
<1> QED BY <1>1, <1>2, <1>4, <1>6, <1>10, <1>11

(* A submitted command is added at the end of a leader's log.              *)
LEMMA Submitted ==
    ASSUME TypeOK, NEW i \in Server, Submit(i)
    PROVE  /\ state[i] = "Leader" /\ UNCHANGED <<serverVars, appendCalls, voteCalls>>
           /\ \A j \in Server \ {i} : log'[j] = log[j]
           /\ Len(log'[i]) = Len(log[i]) + 1
           /\ \A k \in 1..Len(log[i]) : log'[i][k] = log[i][k]
           /\ log'[i][Len(log[i]) + 1].term = currentTerm[i]
<1>1. PICK l, e : l = log[i] /\ e = [command |-> nextCommand, term |-> currentTerm[i]]
  OBVIOUS
<1>2. l \in Seq(Entry) /\ e \in Entry /\ e.term = currentTerm[i]
  BY <1>1 DEF TypeOK, Entry
<1>3. log' = [log EXCEPT ![i] = Append(l, e)]
  BY <1>1 DEF Submit
<1>4. log'[i] = Append(l, e) /\ \A j \in Server \ {i} : log'[j] = log[j]
  BY <1>3 DEF TypeOK
<1>5. /\ Len(Append(l, e)) = Len(l) + 1
      /\ \A k \in 1..Len(l) : Append(l, e)[k] = l[k]
      /\ Append(l, e)[Len(l) + 1] = e
  BY <1>2, AppendProperties
<1> QED BY <1>1, <1>2, <1>4, <1>5 DEF Submit

(* An entry that every later leader has is cut from no log.                *)
LEMMA EntryKept ==
    ASSUME NEW lead, NEW winner, NEW won, NEW lead2, NEW winner2, NEW won2,
           Goes(lead, winner, won, lead2, winner2, won2),
           NEW v \in Server, NEW t \in Nat, NEW m \in Nat, m > 0,
           Contains(log[v], t, m), currentTerm[v] >= t,
           Contains(lead[t], t, m),
           \A u \in Nat : u > t /\ winner[u] # None => Contains(lead[u], t, m)
    PROVE  Contains(log'[v], t, m) /\ Agree(log[v], log'[v], m)
<1>0. /\ log[v] \in Seq(Entry) /\ log'[v] \in Seq(Entry) /\ Traced(log[v], lead)
      /\ Len(log[v]) \in Nat /\ Len(log'[v]) \in Nat /\ currentTerm[v] \in Nat
  BY LenProperties DEF Goes, TypeOK, Fits, LogsTraced
<1>1. CASE log'[v] = log[v]
  BY <1>0, <1>1 DEF Contains, Agree
<1>2. ASSUME Submit(v) PROVE Contains(log'[v], t, m) /\ Agree(log[v], log'[v], m)
  <2>1. /\ Len(log'[v]) = Len(log[v]) + 1
        /\ \A k \in 1..Len(log[v]) : log'[v][k] = log[v][k]
    BY <1>2, Submitted DEF Goes
  <2>2. Agree(log[v], log'[v], m)
    BY <1>0, <2>1 DEF Contains, Agree
  <2> QED BY <2>2, AgreesContains
<1>3. ASSUME NEW c \in appendCalls, Accepts(c), c.peer = v
      PROVE  Contains(log'[v], t, m) /\ Agree(log[v], log'[v], m)
  <2>1. /\ c.term \in Nat /\ c.term >= currentTerm[v] /\ winner[c.term] # None
        /\ \A n \in Nat : Agree(log[v], lead[c.term], n) => Agree(log'[v], lead[c.term], n)
    BY <1>3, Accepted
  <2>2. /\ lead[c.term] \in Seq(Entry) /\ Len(lead[c.term]) \in Nat
        /\ Traced(lead[c.term], lead)
    BY <2>1, GoesTypes, HistoryTypes DEF Goes, Fits, IsHistory
  <2>3. c.term = t \/ c.term > t
    BY <1>0, <2>1
  <2>4. Contains(lead[c.term], t, m)
    BY <2>1, <2>3
  <2>5. Agree(log[v], lead[c.term], m)
    BY <1>0, <2>2, <2>4, ContainAgree
  <2>6. Agree(log'[v], lead[c.term], m)
    BY <2>1, <2>5
  <2>7. Contains(log'[v], t, m)
    BY <2>4, <2>6, AgreesContains
  <2>8. Agree(log[v], log'[v], m)
    BY <2>5, <2>6 DEF Agree
  <2> QED BY <2>7, <2>8
<1>4. \/ UNCHANGED log
      \/ \E i \in Server : Submit(i)
      \/ \E c \in appendCalls : Accepts(c)
  BY LogChanges DEF Goes
<1>5. ASSUME NEW i \in Server, Submit(i), i # v PROVE log'[v] = log[v]
  BY <1>5, Submitted DEF Goes
<1>6. ASSUME NEW c \in appendCalls, Accepts(c), c.peer # v PROVE log'[v] = log[v]
  BY <1>6, Accepted
<1> QED BY <1>1, <1>2, <1>3, <1>4, <1>5, <1>6

-----------------------------------------------------------------------------
(* A candidate keeps its log, and whoever supports it is itself, did so    *)
(* before, or has just compared logs.                                      *)
LEMMA CandidateStep ==
    ASSUME PromptReplies, NEW lead, NEW winner, NEW won, NEW lead2, NEW winner2, NEW won2,
           Goes(lead, winner, won, lead2, winner2, won2),
           NEW w \in Server, state'[w] = "Candidate", NEW v \in Supporters(w)'
    PROVE  /\ log'[w] = log[w]
           /\ \/ v = w
              \/ /\ state[w] = "Candidate" /\ currentTerm'[w] = currentTerm[w]
                 /\ v \in Supporters(w)
              \/ /\ state[w] = "Candidate" /\ currentTerm'[w] = currentTerm[w]
                 /\ UpToDate(LastLogTerm(log[w]), LastLogIndex(log[w]), log[v])
<1>1. Continues(w) \/ Begins(w)
  BY SupportersStep DEF Goes, Active
<1>2. log'[w] = log[w]
  <2>1. ASSUME NEW i \in Server, Submit(i) PROVE log'[w] = log[w]
    <3>1. i # w
      BY <2>1, Submitted DEF Goes, serverVars
    <3> QED BY <2>1, <3>1, Submitted DEF Goes
  <2>2. ASSUME NEW c \in appendCalls, Accepts(c) PROVE log'[w] = log[w]
    <3>1. c.peer # w
      BY <2>2 DEF Accepts
    <3> QED BY <2>2, <3>1, Accepted
  <2> QED BY <2>1, <2>2, LogChanges DEF Goes
<1>3. CASE Begins(w)
  BY <1>2, <1>3 DEF Begins
<1>4. CASE Continues(w)
  <2>1. currentTerm'[w] = currentTerm[w] /\ (v \in Supporters(w) \/ state'[w] = state[w])
    BY <1>4 DEF Continues
  <2>2. state[w] = "Candidate"
    BY <1>4 DEF Continues
  <2>3. v \in Supporters(w) \/ \E c \in voteCalls : Persuades(c, w, v)
    BY <1>4 DEF Continues
  <2>4. ASSUME NEW c \in voteCalls, Persuades(c, w, v)
        PROVE  UpToDate(LastLogTerm(log[w]), LastLogIndex(log[w]), log[v])
    <3>1. VoteRequestKnown(c)
      BY DEF Goes, CommitsFit
    <3> QED BY <2>2, <2>4, <3>1 DEF Persuades, VoteRequestKnown
  <2> QED BY <1>2, <2>1, <2>2, <2>3, <2>4
<1> QED BY <1>1, <1>3, <1>4

(* What is secured stays so, or a later term is won without any of those   *)
(* who secure it.                                                          *)
LEMMA SecuredStep ==
    ASSUME PromptReplies, NEW lead, NEW winner, NEW won, NEW lead2, NEW winner2, NEW won2,
           Goes(lead, winner, won, lead2, winner2, won2),
           NEW t \in Nat, NEW m \in Nat, m > 0, NEW Q \in SUBSET Server,
           Secured(t, m, Q, lead, winner)
    PROVE  Secured(t, m, Q, lead2, winner2)' \/ Bypassed(t, Q, winner2, won2)
<1> SUFFICES ASSUME ~Bypassed(t, Q, winner2, won2)
             PROVE  Secured(t, m, Q, lead2, winner2)'
  OBVIOUS
<1>0. /\ lead \in [Nat -> Seq(Entry)] /\ lead2 \in [Nat -> Seq(Entry)]
      /\ Grows(lead, lead2)
  BY GoesTypes
<1>1. Contains(lead2[t], t, m)
  BY <1>0, ContainsGrows DEF Secured
<1>2. ASSUME NEW v \in Q PROVE currentTerm'[v] >= t /\ Contains(log'[v], t, m)
  <2>1. v \in Server /\ currentTerm[v] >= t /\ Contains(log[v], t, m)
    BY DEF Secured
  <2>2. Contains(log'[v], t, m)
    BY <2>1, EntryKept DEF Secured
  <2>3. VoteStep
    BY NextVoteStep DEF Goes
  <2>4. currentTerm'[v] >= t
    BY <2>1, <2>3 DEF VoteStep, Goes, TypeOK
  <2> QED BY <2>2, <2>4
<1>3. ASSUME NEW u \in Nat, u > t, winner2[u] # None PROVE Contains(lead2[u], t, m)
  <2>1. CASE winner[u] # None
    BY <1>0, <1>3, <2>1, ContainsGrows DEF Secured
  <2>2. CASE winner[u] = None
    <3>1. PICK i \in Server : /\ state[i] = "Candidate" /\ currentTerm[i] = u
                              /\ won2[u] \subseteq Supporters(i) /\ lead2[u] = log[i]
      <4>1. HistoryStep(lead, winner, won, lead2, winner2, won2)
        BY DEF Goes, Grown
      <4>2. winner2[u] \in Server
        <5>1. winner2 \in [Nat -> Server \cup {None}]
          BY GoesTypes
        <5> QED BY <1>3, <5>1
      <4>3. \A i \in Server : winner[u] = None /\ winner2[u] = i =>
               /\ state[i] = "Candidate" /\ currentTerm[i] = u
               /\ won2[u] \subseteq Supporters(i) /\ lead2[u] = log[i]
        BY <4>1 DEF HistoryStep
      <4> QED BY <2>2, <4>2, <4>3
    <3>2. PICK v \in Q : v \in won2[u]
      BY <1>3 DEF Bypassed
    <3>3. v \in Supporters(i)
      BY <3>1, <3>2
    <3> QED BY <1>3, <3>1, <3>3 DEF Secured
  <2> QED BY <2>1, <2>2
<1>4. ASSUME NEW w \in Server, NEW v \in Q, state'[w] = "Candidate",
             currentTerm'[w] > t, v \in Supporters(w)'
      PROVE  Contains(log'[w], t, m)
  <2>1. /\ log'[w] = log[w]
        /\ \/ v = w
           \/ /\ state[w] = "Candidate" /\ currentTerm'[w] = currentTerm[w]
              /\ v \in Supporters(w)
           \/ /\ state[w] = "Candidate" /\ currentTerm'[w] = currentTerm[w]
              /\ UpToDate(LastLogTerm(log[w]), LastLogIndex(log[w]), log[v])
    BY <1>4, CandidateStep
  <2>2. CASE v = w
    BY <2>1, <2>2 DEF Secured
  <2>3. CASE state[w] = "Candidate" /\ currentTerm'[w] = currentTerm[w]
             /\ v \in Supporters(w)
    BY <1>4, <2>1, <2>3 DEF Secured
  <2>4. CASE UpToDate(LastLogTerm(log[w]), LastLogIndex(log[w]), log[v])
    <3>1. /\ IsHistory(lead, winner, won) /\ LeadersOrdered(lead)
          /\ log[v] \in Seq(Entry) /\ log[w] \in Seq(Entry)
          /\ Traced(log[v], lead) /\ Traced(log[w], lead)
      BY DEF Goes, TypeOK, Fits, LogsTraced, CommitsFit
    <3>2. Contains(log[v], t, m)
      BY DEF Secured
    <3>3. \A u \in Nat : u > t /\ winner[u] # None => Contains(lead[u], t, m)
      BY DEF Secured
    <3>4. Contains(log[w], t, m)
      BY <2>4, <3>1, <3>2, <3>3, UpToDateContains
    <3> QED BY <2>1, <3>4
  <2> QED BY <2>1, <2>2, <2>3, <2>4
<1> QED BY <1>1, <1>2, <1>3, <1>4 DEF Secured

-----------------------------------------------------------------------------
LEMMA MajoritiesMeet ==
    ASSUME NEW Q, NEW R \in SUBSET Server, Majority(Q),
           2 * Cardinality(R) > Cardinality(Server)
    PROVE  Q \cap R # {}
<1>1. IsFiniteSet(Server) /\ IsFiniteSet(Q) /\ IsFiniteSet(R) /\ Q \subseteq Server
  BY ServerAssumption, FS_Subset DEF Majority
<1>2. /\ Cardinality(Server) \in Nat /\ Cardinality(Q) \in Nat /\ Cardinality(R) \in Nat
  BY <1>1, FS_CardinalityType
<1>3. Cardinality(Q) + Cardinality(R) > Cardinality(Server)
  BY <1>2 DEF Majority
<1> QED BY <1>1, <1>3, FS_MajoritiesIntersect

(* Nobody is elected without a vote of a majority.                         *)
LEMMA MajorityNotBypassed ==
    ASSUME NEW lead, NEW winner, NEW won, IsHistory(lead, winner, won),
           NEW t, NEW Q, Majority(Q)
    PROVE  ~Bypassed(t, Q, winner, won)
<1> SUFFICES ASSUME NEW u \in Nat, winner[u] # None, won[u] \cap Q = {} PROVE FALSE
  BY DEF Bypassed
<1>1. won[u] \in SUBSET Server /\ 2 * Cardinality(won[u]) > Cardinality(Server)
  BY DEF IsHistory
<1> QED BY <1>1, MajoritiesMeet

(* More servers may be found to have the entry, in its own term, and fewer *)
(* may be looked at.                                                       *)
LEMMA SecuredAgain ==
    ASSUME PromptReplies, NEW lead, NEW winner, NEW won, NEW lead2, NEW winner2, NEW won2,
           Goes(lead, winner, won, lead2, winner2, won2),
           NEW t \in Nat, NEW m \in Nat, m > 0, NEW Q \in SUBSET Server,
           Secured(t, m, Q, lead, winner) \/ Bypassed(t, Q, winner, won),
           NEW R \in SUBSET Server,
           \A v \in R : v \in Q \/ (currentTerm'[v] = t /\ Contains(log'[v], t, m))
    PROVE  Secured(t, m, R, lead2, winner2)' \/ Bypassed(t, R, winner2, won2)
<1>1. CASE Bypassed(t, Q, winner2, won2)
  <2>1. PICK u \in Nat : u > t /\ winner2[u] # None /\ won2[u] \cap Q = {}
    BY <1>1 DEF Bypassed
  <2>2. ASSUME NEW v \in R, v \in won2[u] PROVE FALSE
    <3>1. currentTerm'[v] = t
      BY <2>1, <2>2
    <3>2. currentTerm'[v] >= u
      BY <2>2 DEF Goes, Fits, VotesSpent
    <3> QED BY <2>1, <3>1, <3>2
  <2> QED BY <2>1, <2>2 DEF Bypassed
<1>2. CASE Secured(t, m, Q, lead2, winner2)'
  <2>1. ASSUME NEW v \in R PROVE currentTerm'[v] >= t /\ Contains(log'[v], t, m)
    <3>1. CASE v \in Q
      BY <1>2, <3>1 DEF Secured
    <3>2. CASE currentTerm'[v] = t /\ Contains(log'[v], t, m)
      BY <3>2
    <3> QED BY <3>1, <3>2
  <2>2. ASSUME NEW w \in Server, NEW v \in R, state'[w] = "Candidate",
               currentTerm'[w] > t, v \in Supporters(w)'
        PROVE  Contains(log'[w], t, m)
    <3>1. CASE v \in Q
      BY <1>2, <2>2, <3>1 DEF Secured
    <3>2. CASE currentTerm'[v] = t
      <4>1. Pledged(v, w)'
        BY <2>2 DEF Goes, ElectionInv, SupportersPledged, Active
      <4>2. currentTerm'[w] \in Nat
        BY DEF Goes, TypeOK
      <4> QED BY <2>2, <3>2, <4>1, <4>2 DEF Pledged
    <3> QED BY <3>1, <3>2
  <2>3. /\ Contains(lead2[t], t, m)
        /\ \A u \in Nat : u > t /\ winner2[u] # None => Contains(lead2[u], t, m)
    BY <1>2 DEF Secured
  <2>4. \A w \in Server : \A v \in R :
           state'[w] = "Candidate" /\ currentTerm'[w] > t /\ v \in Supporters(w)'
              => Contains(log'[w], t, m)
    BY <2>2
  <2> QED BY <2>1, <2>3, <2>4 DEF Secured
<1>3. CASE Bypassed(t, Q, winner, won)
  <2>1. \A u \in Nat : winner[u] # None => winner2[u] = winner[u] /\ won2[u] = won[u]
    BY DEF Goes, Grown, HistoryStep
  <2>2. Bypassed(t, Q, winner2, won2)
    BY <1>3, <2>1 DEF Bypassed
  <2> QED BY <1>1, <2>2
<1>4. CASE Secured(t, m, Q, lead, winner)
  BY <1>1, <1>2, <1>4, SecuredStep
<1> QED BY <1>3, <1>4

(* What was committed stays so, and is so in every log that agrees.        *)
LEMMA CommittedStep ==
    ASSUME PromptReplies, NEW lead, NEW winner, NEW won, NEW lead2, NEW winner2, NEW won2,
           Goes(lead, winner, won, lead2, winner2, won2),
           NEW m \in Nat, m > 0, NEW l, NEW l2, Agree(l, l2, m),
           NEW term \in Nat, NEW term2 \in Nat, term <= term2,
           CommittedIn(l, m, term, lead, winner)
    PROVE  CommittedIn(l2, m, term2, lead2, winner2)'
<1>1. PICK t \in Nat, Q \in SUBSET Server :
          t <= term /\ Contains(l, t, m) /\ Majority(Q) /\ Secured(t, m, Q, lead, winner)
  BY DEF CommittedIn
<1>2. Contains(l2, t, m)
  BY <1>1, AgreesContains
<1>3. ~Bypassed(t, Q, winner2, won2)
  BY <1>1, MajorityNotBypassed DEF Goes, Grown
<1>4. Secured(t, m, Q, lead2, winner2)'
  BY <1>1, <1>3, SecuredStep
<1>5. t <= term2
  BY <1>1
<1> QED BY <1>1, <1>2, <1>4, <1>5 DEF CommittedIn

-----------------------------------------------------------------------------
SameCall(d, c) ==
    /\ d.caller = c.caller /\ d.peer = c.peer /\ d.term = c.term
    /\ d.ni = c.ni /\ d.sent = c.sent

(* The two ways in which a call gets on with a step.                       *)
Requested(d, c) ==
    /\ SendAppendEntries(c) /\ d.stage = "request"
    /\ d.caller = c.caller /\ d.peer = c.peer /\ d.term = c.term
    /\ d.ni + d.sent = Len(log[c.caller])
    /\ d.args.leaderCommit = commitIndex[c.caller]

Replied(d, c) ==
    /\ c.stage = "request" /\ d.stage = "reply" /\ SameCall(d, c)
    /\ d.reply.success => Accepts(c)

(* Every call after a step is one from before, in its stage or a later one *)
(* or has just begun.                                                      *)
LEMMA CallOrigin ==
    ASSUME PromptReplies, ~TornReads, TypeOK, TypeOK', [Next]_vars, NEW d \in appendCalls'
    PROVE  \/ d \in appendCalls
           \/ d.stage = "spawned"
           \/ \E c \in appendCalls : /\ c.stage = "request" /\ d.stage = "orphan"
                                     /\ SameCall(d, c) /\ d.args = c.args
           \/ \E c \in appendCalls : Requested(d, c)
           \/ \E c \in appendCalls : Replied(d, c)
<1> USE DEF serverVars, logVars, leaderVars
<1> SUFFICES ASSUME d \notin appendCalls
             PROVE  \/ d.stage = "spawned"
                    \/ \E c \in appendCalls : /\ c.stage = "request" /\ d.stage = "orphan"
                                              /\ SameCall(d, c) /\ d.args = c.args
                    \/ \E c \in appendCalls : Requested(d, c)
                    \/ \E c \in appendCalls : Replied(d, c)
  OBVIOUS
<1>0. appendCalls \in SUBSET AppendCall /\ d \in AppendCall
  BY DEF TypeOK
<1>1. ASSUME NEW c \in appendCalls, c.stage = "request",
             d = [c EXCEPT !.stage = "orphan"]
      PROVE  d.stage = "orphan" /\ SameCall(d, c) /\ d.args = c.args
  BY <1>0, <1>1 DEF AppendCall, SameCall
<1>2. ASSUME NEW i \in Server, ElectionTimeout(i)
      PROVE  \E c \in appendCalls : /\ c.stage = "request" /\ d.stage = "orphan"
                                    /\ SameCall(d, c) /\ d.args = c.args
  <2>1. appendCalls' \in Abandoned(appendCalls, i)
    BY <1>2 DEF ElectionTimeout
  <2>2. \A r \in Abandoned(appendCalls, i) : \A e \in r :
           \/ e \in appendCalls
           \/ \E c \in appendCalls : /\ c.stage = "request"
                                     /\ e = [c EXCEPT !.stage = "orphan"]
    BY <1>0, AbandonedFrom
  <2>3. \E c \in appendCalls : c.stage = "request" /\ d = [c EXCEPT !.stage = "orphan"]
    BY <2>1, <2>2
  <2> QED BY <1>1, <2>3
<1>3. ASSUME NEW i \in Server, LeaderSendHeartbeats(i) PROVE d.stage = "spawned"
  BY <1>3 DEF LeaderSendHeartbeats
<1>4. ASSUME NEW c \in appendCalls, SendAppendEntries(c) PROVE Requested(d, c)
  <2>1. c \in AppendCall
    BY <1>0
  <2>2. PICK ni, l : ni = nextIndex[c.caller][c.peer] /\ l = log[c.caller]
    OBVIOUS
  <2>3. /\ ni \in 0..Len(l)
        /\ d = [c EXCEPT !.stage = "request", !.ni = ni, !.sent = Len(l) - ni,
                         !.args = [prevLogIndex |-> ni - 1,
                                   prevLogTerm |-> IF ni = 0 THEN -1
                                                   ELSE EntryTerm(l, ni - 1),
                                   entries |-> SubSeq(l, ni + 1, Len(l)),
                                   leaderCommit |-> commitIndex[c.caller]]]
    BY <1>4, <2>2 DEF SendAppendEntries
  <2>4. Len(l) \in Nat
    BY <2>1, <2>2, LenProperties DEF TypeOK, AppendCall
  <2>5. /\ d.caller = c.caller /\ d.peer = c.peer /\ d.term = c.term
        /\ d.stage = "request" /\ d.ni = ni /\ d.sent = Len(l) - ni
        /\ d.args.leaderCommit = commitIndex[c.caller]
    BY <2>1, <2>3 DEF AppendCall
  <2>6. d.ni + d.sent = Len(l)
    BY <2>3, <2>4, <2>5
  <2> QED BY <1>4, <2>2, <2>5, <2>6 DEF Requested
<1>5. ASSUME NEW c \in appendCalls, NEW r, c.stage \in {"request", "orphan"},
             appendCalls' = Answered(appendCalls, c, r)
      PROVE  c.stage = "request" /\ d.stage = "reply" /\ SameCall(d, c) /\ d.reply = r
  <2>1. /\ c.stage = "request"
        /\ d = [c EXCEPT !.stage = "reply", !.args = NoAppendArgs, !.reply = r]
    BY <1>5 DEF Answered
  <2> QED BY <1>0, <2>1 DEF AppendCall, SameCall
<1>6. ASSUME NEW c \in appendCalls, AppendEntries(c) PROVE Replied(d, c)
  <2>0. c.stage \in {"request", "orphan"}
    BY <1>6 DEF AppendEntries
  <2>1. CASE /\ c.term >= currentTerm[c.peer]
             /\ HasPrev(log[c.peer], c.args.prevLogIndex, c.args.prevLogTerm)
    <3>1. AcceptEntries(c) /\ Accepts(c)
      BY <1>6, <2>1, AcceptStep
    <3>2. \E calls \in AfterOverwrite(c.peer, Spliced(log[c.peer], c.args.prevLogIndex,
                                                      c.args.entries)) :
             appendCalls' = Answered(calls, c, [term |-> c.term, success |-> TRUE])
      BY <3>1 DEF AcceptEntries
    <3>3. appendCalls' = Answered(appendCalls, c, [term |-> c.term, success |-> TRUE])
      BY <3>2 DEF AfterOverwrite
    <3> QED BY <1>5, <2>0, <3>1, <3>3 DEF Replied
  <2>2. CASE ~(/\ c.term >= currentTerm[c.peer]
               /\ HasPrev(log[c.peer], c.args.prevLogIndex, c.args.prevLogTerm))
    <3>1. PICK r : /\ r = [term |-> currentTerm'[c.peer], success |-> FALSE]
                   /\ appendCalls' = Answered(appendCalls, c, r)
      BY <1>6, <2>2 DEF AppendEntries
    <3> QED BY <1>5, <2>0, <3>1 DEF Replied
  <2> QED BY <2>1, <2>2
<1>7. ASSUME NEW c \in appendCalls, AppendEntriesAtDead(c) PROVE Replied(d, c)
  <2>1. /\ c.stage \in {"request", "orphan"}
        /\ appendCalls' = Answered(appendCalls, c, ZeroAppendReply)
    BY <1>7 DEF AppendEntriesAtDead
  <2> QED BY <1>5, <2>1 DEF Replied, ZeroAppendReply
<1>8. ASSUME NEW c \in appendCalls, AppendEntriesFails(c)
      PROVE  /\ c.stage = "request" /\ d.stage = "orphan"
             /\ SameCall(d, c) /\ d.args = c.args
  BY <1>1, <1>8 DEF AppendEntriesFails
<1>9. ASSUME NEW c \in appendCalls, HandleAppendReply(c) PROVE FALSE
  BY <1>9 DEF HandleAppendReply
<1>10. ASSUME UNCHANGED appendCalls PROVE FALSE
  BY <1>10
<1> QED BY <1>2, <1>3, <1>4, <1>6, <1>7, <1>8, <1>9, <1>10
        DEF Next, vars, Submit, Stop, SendRequestVote, RequestVote,
            RequestVoteAtDead, HandleVoteReply

(* A leader's matchIndex changes when it handles a success.                *)
LEMMA MatchStep ==
    ASSUME PromptReplies, TypeOK, TypeOK', [Next]_vars,
           NEW i \in Server, state[i] = "Leader", NEW p \in Peers(i)
    PROVE  \/ matchIndex'[i][p] = matchIndex[i][p]
           \/ \E c \in appendCalls :
                 /\ c.caller = i /\ c.peer = p /\ c.stage = "reply" /\ c.reply.success
                 /\ matchIndex'[i][p] + 1 = c.ni + c.sent
<1> USE DEF serverVars, logVars, leaderVars
<1>0. p \in Server
  BY DEF Peers
<1>1. ASSUME NEW c \in appendCalls, HandleAppendReply(c)
      PROVE  \/ matchIndex'[i][p] = matchIndex[i][p]
             \/ /\ c.caller = i /\ c.peer = p /\ c.stage = "reply" /\ c.reply.success
                /\ matchIndex'[i][p] + 1 = c.ni + c.sent
  <2>1. /\ c.caller \in Server /\ c.peer \in Server /\ c.ni \in Nat /\ c.sent \in Nat
    BY DEF TypeOK, AppendCall
  <2>2. matchIndex \in [Server -> [Server -> Nat \cup {-1}]]
    BY DEF TypeOK
  <2>3. CASE UNCHANGED matchIndex
    BY <2>3
  <2>4. CASE ~UNCHANGED matchIndex
    <3>1. PICK mi : mi = c.ni + c.sent - 1
      OBVIOUS
    <3>2. /\ c.stage = "reply" /\ c.reply.success
          /\ matchIndex' = [matchIndex EXCEPT ![c.caller] =
                               [matchIndex[c.caller] EXCEPT ![c.peer] = mi]]
      BY <1>1, <2>4, <3>1 DEF HandleAppendReply, MatchedUpTo
    <3>3. mi + 1 = c.ni + c.sent
      BY <2>1, <3>1
    <3>4. CASE c.caller = i /\ c.peer = p
      BY <1>0, <2>2, <3>2, <3>3, <3>4
    <3>5. CASE ~(c.caller = i /\ c.peer = p)
      BY <1>0, <2>1, <2>2, <3>2, <3>5
    <3> QED BY <3>4, <3>5
  <2> QED BY <2>3, <2>4
<1>2. ASSUME NEW c \in voteCalls, HandleVoteReply(c) PROVE matchIndex'[i] = matchIndex[i]
  <2>1. c.caller \in Server
    BY DEF TypeOK, VoteCall
  <2>2. CASE StartLeader(c.caller) /\ state[c.caller] = "Candidate"
    <3>1. c.caller # i
      BY <2>2
    <3> QED BY <2>1, <2>2, <3>1 DEF StartLeader, TypeOK
  <2> QED BY <1>2, <2>2 DEF HandleVoteReply
<1>3. CASE UNCHANGED matchIndex
  BY <1>3
<1> QED BY <1>1, <1>2, <1>3
        DEF Next, vars, ElectionTimeout, LeaderSendHeartbeats, Stop, Submit,
            SendRequestVote, RequestVote, RequestVoteAtDead,
            SendAppendEntries, AppendEntries, AppendEntriesAtDead, AppendEntriesFails

(* In this step v accepts what i has sent it, up to position m.            *)
AcceptsOf(v, i, m) ==
    \E c \in appendCalls : /\ Accepts(c) /\ c.peer = v /\ c.term = currentTerm[i]
                           /\ c.ni + c.sent >= m

(* Whoever a leader may newly count has just accepted a request of it.     *)
LEMMA HoldersStep ==
    ASSUME PromptReplies, ~TornReads,
           NEW lead, NEW winner, NEW won, NEW lead2, NEW winner2, NEW won2,
           Goes(lead, winner, won, lead2, winner2, won2),
           NEW i \in Server, state[i] = "Leader", currentTerm'[i] = currentTerm[i],
           NEW m \in Nat, NEW v \in Holders(i, m)'
    PROVE  v \in Holders(i, m) \/ AcceptsOf(v, i, m)
<1>1. CASE v = i
  BY <1>1 DEF Holders
<1>2. CASE v \in Peers(i) /\ matchIndex'[i][v] + 1 >= m
  <2>1. CASE matchIndex'[i][v] = matchIndex[i][v]
    BY <1>2, <2>1 DEF Holders
  <2>2. ASSUME NEW c \in appendCalls,
               c.caller = i, c.peer = v, c.stage = "reply", c.reply.success,
               matchIndex'[i][v] + 1 = c.ni + c.sent
        PROVE  v \in Holders(i, m)
    <3>1. CallKnown(c, lead, winner)
      BY DEF Goes, Fits
    <3>2. c.term = currentTerm[i]
      BY <2>2, <3>1 DEF CallKnown, Active, Leads
    <3>3. c.ni + c.sent >= m
      BY <1>2, <2>2
    <3> QED BY <2>2, <3>2, <3>3 DEF Holders
  <2>3. \/ matchIndex'[i][v] = matchIndex[i][v]
        \/ \E c \in appendCalls :
              /\ c.caller = i /\ c.peer = v /\ c.stage = "reply" /\ c.reply.success
              /\ matchIndex'[i][v] + 1 = c.ni + c.sent
    BY <1>2, MatchStep DEF Goes
  <2> QED BY <2>1, <2>2, <2>3
<1>3. ASSUME NEW d \in appendCalls', d.caller = i, d.term = currentTerm[i],
             d.stage = "reply", d.reply.success, d.ni + d.sent >= m, d.peer = v
      PROVE  v \in Holders(i, m) \/ AcceptsOf(v, i, m)
  <2>1. d \in appendCalls \/ \E c \in appendCalls : Replied(d, c)
    BY <1>3, CallOrigin DEF Goes, Requested
  <2>2. CASE d \in appendCalls
    BY <1>3, <2>2 DEF Holders
  <2> QED BY <1>3, <2>1, <2>2 DEF Replied, SameCall, AcceptsOf
<1> QED BY <1>1, <1>2, <1>3 DEF Holders

(* A command that has just been submitted is with its leader alone. If no  *)
(* later term is won yet, nobody can win one with its vote and without it. *)
LEMMA NewEntrySecured ==
    ASSUME PromptReplies, ~TornReads,
           NEW lead, NEW winner, NEW won, NEW lead2, NEW winner2, NEW won2,
           Goes(lead, winner, won, lead2, winner2, won2),
           NEW i \in Server, Submit(i), NEW t \in Nat, t = currentTerm[i],
           NEW m \in Nat, m = Len(log'[i]), NEW Q, Q = Holders(i, m)'
    PROVE  Secured(t, m, Q, lead2, winner2)' \/ Bypassed(t, Q, winner2, won2)
<1>1. /\ state[i] = "Leader" /\ UNCHANGED <<state, currentTerm, appendCalls>>
      /\ Len(log'[i]) = Len(log[i]) + 1
      /\ log'[i][Len(log[i]) + 1].term = currentTerm[i]
  BY Submitted DEF Goes, serverVars
<1>2. Len(log[i]) \in Nat /\ m > 0 /\ m = Len(log[i]) + 1 /\ log'[i][m].term = t
  <2>1. Len(log[i]) \in Nat
    BY LenProperties DEF Goes, TypeOK
  <2> QED BY <1>1, <2>1
<1>3. lead[t] = log[i] /\ lead2[t] = log'[i]
  BY <1>1 DEF Goes, Fits, LeadersKnown
<1>4. Contains(log'[i], t, m)
  BY <1>2 DEF Contains
<1>5. Q = {i}
  <2>1. ASSUME NEW p \in Peers(i), matchIndex'[i][p] + 1 >= m PROVE FALSE
    <3>1. PeerKnown(i, p) /\ matchIndex[i][p] \in Nat \cup {-1}
      BY DEF Goes, Fits, TypeOK, Peers
    <3>2. matchIndex[i][p] < Len(log[i])
      BY <1>1, <3>1 DEF PeerKnown
    <3>3. UNCHANGED matchIndex
      BY DEF Submit, leaderVars
    <3> QED BY <1>2, <2>1, <3>1, <3>2, <3>3
  <2>2. ASSUME NEW c \in appendCalls', c.caller = i, c.term = currentTerm'[i],
               c.stage = "reply", c.ni + c.sent >= m
        PROVE  FALSE
    <3>1. c \in appendCalls /\ c \in AppendCall /\ Leads(i, c.term) /\ c.term = t
      BY <1>1, <2>2 DEF Goes, TypeOK, Leads
    <3>2. ReplyKnown(c, lead)
      BY <3>1 DEF Goes, Fits, CallKnown
    <3>3. c.ni + c.sent <= Len(log[i])
      BY <1>3, <2>2, <3>1, <3>2 DEF ReplyKnown
    <3>4. c.ni \in Nat /\ c.sent \in Nat
      BY <3>1 DEF AppendCall
    <3> QED BY <1>2, <2>2, <3>3, <3>4
  <2> QED BY <2>1, <2>2 DEF Holders
<1>6. CASE \E u \in Nat : u > t /\ winner2[u] # None
  <2>1. PICK u \in Nat : u > t /\ winner2[u] # None
    BY <1>6
  <2>2. i \notin won2[u]
    <3> SUFFICES ASSUME i \in won2[u] PROVE FALSE
      OBVIOUS
    <3>1. currentTerm'[i] >= u
      BY DEF Goes, Fits, VotesSpent
    <3> QED BY <1>1, <2>1, <3>1
  <2> QED BY <1>5, <2>1, <2>2 DEF Bypassed
<1>7. CASE ~ \E u \in Nat : u > t /\ winner2[u] # None
  <2>1. ASSUME NEW w \in Server, state'[w] = "Candidate",
               currentTerm'[w] > t, i \in Supporters(w)'
        PROVE  FALSE
    <3>1. Pledged(i, w)'
      BY <2>1 DEF Goes, ElectionInv, SupportersPledged, Active
    <3>2. currentTerm'[w] \in Nat
      BY DEF Goes, TypeOK
    <3> QED BY <1>1, <2>1, <3>1, <3>2 DEF Pledged
  <2> QED BY <1>1, <1>3, <1>4, <1>5, <1>7, <2>1 DEF Secured
<1> QED BY <1>6, <1>7

(* An entry of a leader's own term stays secured, whoever accepts it.      *)
LEMMA OwnEntrySecured ==
    ASSUME PromptReplies, ~TornReads,
           NEW lead, NEW winner, NEW won, NEW lead2, NEW winner2, NEW won2,
           Goes(lead, winner, won, lead2, winner2, won2),
           NEW i \in Server, state[i] = "Leader", state'[i] = "Leader",
           NEW t \in Nat, t = currentTerm[i], t = currentTerm'[i],
           NEW m \in Nat, m > 0, m <= Len(log[i]), log[i][m].term = t,
           NEW R, R = Holders(i, m)'
    PROVE  Secured(t, m, R, lead2, winner2)' \/ Bypassed(t, R, winner2, won2)
<1>1. PICK Q : Q = Holders(i, m)
  OBVIOUS
<1>2. Q \in SUBSET Server
  BY <1>1 DEF Holders, Peers, Goes, TypeOK, AppendCall
<1>3. R \in SUBSET Server
  BY DEF Holders, Peers, Goes, TypeOK, AppendCall
<1>4. Secured(t, m, Q, lead, winner) \/ Bypassed(t, Q, winner, won)
  <2>1. m \in 1..Len(log[i])
    BY LenProperties DEF Goes, TypeOK
  <2>2. EntrySecured(i, m, lead, winner, won)
    BY <2>1 DEF Goes, CommitsFit
  <2> QED BY <1>1, <2>2 DEF EntrySecured
<1>5. ASSUME NEW v \in R
      PROVE  v \in Q \/ (currentTerm'[v] = t /\ Contains(log'[v], t, m))
  <2>1. ASSUME NEW c \in appendCalls, Accepts(c), c.peer = v, c.term = t,
               c.ni + c.sent >= m
        PROVE  currentTerm'[v] = t /\ Contains(log'[v], t, m)
    <3>1. /\ c.ni \in Nat /\ c.sent \in Nat /\ currentTerm'[v] = t
          /\ Agree(log'[v], lead[t], c.ni + c.sent)
      BY <2>1, Accepted
    <3>2. lead[t] = log[i]
      BY DEF Goes, Fits, LeadersKnown
    <3>3. Len(lead[t]) \in Nat /\ Len(log'[v]) \in Nat
      <4>1. v \in Server
        BY <1>3
      <4>2. log[i] \in Seq(Entry) /\ log'[v] \in Seq(Entry)
        BY <4>1 DEF Goes, TypeOK
      <4> QED BY <3>2, <4>2, LenProperties
    <3>4. Agree(log'[v], lead[t], m)
      <4>1. PICK n \in Nat : n = c.ni + c.sent
        BY <3>1
      <4>2. n >= m /\ Agree(log'[v], lead[t], n)
        BY <2>1, <3>1, <4>1
      <4> QED BY <3>3, <4>2, SMTT(30) DEF Agree
    <3>5. Contains(lead[t], t, m)
      BY <3>2 DEF Contains
    <3> QED BY <3>1, <3>4, <3>5, AgreesContains
  <2>2. \/ v \in Q
        \/ \E c \in appendCalls : /\ Accepts(c) /\ c.peer = v /\ c.term = t
                                  /\ c.ni + c.sent >= m
    <3>1. v \in Holders(i, m)' /\ currentTerm'[i] = currentTerm[i]
      BY <1>5
    <3>2. v \in Holders(i, m) \/ AcceptsOf(v, i, m)
      BY <3>1, HoldersStep
    <3> QED BY <1>1, <3>2 DEF AcceptsOf
  <2> QED BY <2>1, <2>2
<1> QED BY <1>2, <1>3, <1>4, <1>5, SecuredAgain

LEMMA EntrySecuredStep ==
    ASSUME PromptReplies, ~TornReads,
           NEW lead, NEW winner, NEW won, NEW lead2, NEW winner2, NEW won2,
           Goes(lead, winner, won, lead2, winner2, won2),
           NEW i \in Server, NEW m \in 1..Len(log'[i])
    PROVE  EntrySecured(i, m, lead2, winner2, won2)'
<1>0. PICK R : R = Holders(i, m)'
  OBVIOUS
<1>1. PICK t \in Nat : t = currentTerm'[i] /\ R = Holders(i, m)'
  BY <1>0 DEF Goes, TypeOK
<1> SUFFICES ASSUME state'[i] = "Leader", log'[i][m].term = t
             PROVE  Secured(t, m, R, lead2, winner2)' \/ Bypassed(t, R, winner2, won2)
  BY <1>1 DEF EntrySecured, Secured, Bypassed
<1>2. m \in Nat /\ m > 0 /\ Len(log[i]) \in Nat /\ Len(log'[i]) \in Nat /\ m <= Len(log'[i])
  <2>1. Len(log[i]) \in Nat /\ Len(log'[i]) \in Nat
    BY LenProperties DEF Goes, TypeOK
  <2> QED BY <2>1
<1>3. Continues(i) /\ currentTerm[i] = t
  BY <1>1, SupportersStep DEF Goes, Active, Begins, Continues
<1>4. CASE Submit(i)
  <2>1. /\ state[i] = "Leader" /\ Len(log'[i]) = Len(log[i]) + 1
        /\ \A k \in 1..Len(log[i]) : log'[i][k] = log[i][k]
    BY <1>4, Submitted DEF Goes
  <2>2. CASE m = Len(log'[i])
    BY <1>1, <1>3, <1>4, <2>2, NewEntrySecured
  <2>3. CASE m # Len(log'[i])
    <3>1. m \in 1..Len(log[i])
      BY <1>2, <2>1, <2>3
    <3>2. m <= Len(log[i]) /\ log[i][m].term = t
      BY <1>2, <2>1, <3>1
    <3> QED BY <1>1, <1>2, <1>3, <2>1, <3>2, OwnEntrySecured
  <2> QED BY <2>2, <2>3
<1>5. CASE ~Submit(i)
  <2>1. log'[i] = log[i]
    <3>1. ASSUME NEW c \in appendCalls, Accepts(c) PROVE log'[i] = log[i]
      <4>1. c.peer # i
        BY <3>1 DEF Accepts
      <4> QED BY <3>1, <4>1, Accepted
    <3>2. ASSUME NEW j \in Server, Submit(j) PROVE log'[i] = log[i]
      <4>1. j # i
        BY <1>5, <3>2
      <4> QED BY <3>2, <4>1, Submitted DEF Goes
    <3> QED BY <3>1, <3>2, LogChanges DEF Goes
  <2>2. CASE state[i] = "Leader"
    BY <1>1, <1>2, <1>3, <2>1, <2>2, OwnEntrySecured
  <2>3. CASE state[i] = "Candidate"
    <3>1. Agree(log[i], lead[t], m) /\ lead[t] \in Seq(Entry)
      <4>1. Traced(log[i], lead)
        BY DEF Goes, Fits, LogsTraced
      <4>2. lead[t] \in Seq(Entry)
        BY GoesTypes, HistoryTypes
      <4> QED BY <2>1, <4>1, <4>2 DEF Traced
    <3>2. lead[t] # <<>>
      BY <1>2, <3>1, EmptySeq DEF Agree
    <3>3. winner[t] # None
      BY <3>2 DEF Goes, Fits, IsHistory
    <3>4. winner2[t] = i
      BY <1>1 DEF Goes, Fits, LeadersKnown
    <3>5. winner[t] = i
      BY <3>3, <3>4 DEF Goes, Grown, HistoryStep
    <3>6. winner[t] # i
      BY <1>3, <2>3 DEF Goes, Fits, VotesSpent
    <3> QED BY <3>5, <3>6
  <2> QED BY <1>3, <2>2, <2>3 DEF Continues
<1> QED BY <1>4, <1>5

-----------------------------------------------------------------------------
(* How a commitIndex changes: a follower follows leaderCommit, a leader    *)
(* finds entries of its term on a majority.                                *)
LEMMA CommitChanges ==
    ASSUME TypeOK, [Next]_vars, NEW i \in Server
    PROVE  \/ commitIndex'[i] = commitIndex[i]
           \/ \E c \in appendCalls :
                 /\ Accepts(c) /\ c.peer = i /\ c.args.leaderCommit > commitIndex[i]
                 /\ commitIndex'[i] = IF c.args.leaderCommit < Len(log'[i]) - 1
                                      THEN c.args.leaderCommit ELSE Len(log'[i]) - 1
           \/ /\ state[i] = "Leader" /\ UNCHANGED <<serverVars, log>>
              /\ commitIndex'[i] \in Committable(log[i], commitIndex[i], currentTerm[i],
                                                 matchIndex'[i], Peers(i))
<1> USE DEF serverVars, logVars, leaderVars
<1>1. ASSUME NEW c \in appendCalls, AppendEntries(c)
      PROVE  \/ commitIndex'[i] = commitIndex[i]
             \/ /\ Accepts(c) /\ c.peer = i /\ c.args.leaderCommit > commitIndex[i]
                /\ commitIndex'[i] = IF c.args.leaderCommit < Len(log'[i]) - 1
                                     THEN c.args.leaderCommit ELSE Len(log'[i]) - 1
  <2>0. c.peer \in Server
    BY DEF TypeOK, AppendCall
  <2>1. CASE /\ c.term >= currentTerm[c.peer]
             /\ HasPrev(log[c.peer], c.args.prevLogIndex, c.args.prevLogTerm)
    <3>1. AcceptEntries(c) /\ Accepts(c)
      BY <1>1, <2>1, AcceptStep
    <3>2. PICK l : l = Spliced(log[c.peer], c.args.prevLogIndex, c.args.entries)
      OBVIOUS
    <3>3. log'[c.peer] = l
      BY <2>0, <3>1, <3>2 DEF Accepts, TypeOK
    <3>4. \/ UNCHANGED commitIndex
          \/ /\ c.args.leaderCommit > commitIndex[c.peer]
             /\ commitIndex' = [commitIndex EXCEPT ![c.peer] =
                      IF c.args.leaderCommit < Len(l) - 1 THEN c.args.leaderCommit
                                                          ELSE Len(l) - 1]
      BY <3>1, <3>2 DEF AcceptEntries
    <3>5. CASE c.peer = i
      BY <2>0, <3>1, <3>3, <3>4, <3>5 DEF TypeOK
    <3>6. CASE c.peer # i
      BY <2>0, <3>4, <3>6 DEF TypeOK
    <3> QED BY <3>5, <3>6
  <2>2. CASE ~(/\ c.term >= currentTerm[c.peer]
               /\ HasPrev(log[c.peer], c.args.prevLogIndex, c.args.prevLogTerm))
    BY <1>1, <2>2 DEF AppendEntries
  <2> QED BY <2>1, <2>2
<1>2. ASSUME NEW c \in appendCalls, HandleAppendReply(c)
      PROVE  \/ commitIndex'[i] = commitIndex[i]
             \/ /\ state[i] = "Leader" /\ UNCHANGED <<serverVars, log>>
                /\ commitIndex'[i] \in Committable(log[i], commitIndex[i], currentTerm[i],
                                                   matchIndex'[i], Peers(i))
  <2>1. c.caller \in Server
    BY DEF TypeOK, AppendCall
  <2>2. CASE UNCHANGED commitIndex
    BY <2>2
  <2>3. CASE ~UNCHANGED commitIndex
    <3>1. PICK match : match = [matchIndex[c.caller] EXCEPT ![c.peer] = MatchedUpTo(c)]
      OBVIOUS
    <3>2. /\ state[c.caller] = "Leader" /\ UNCHANGED <<serverVars, log>>
          /\ matchIndex' = [matchIndex EXCEPT ![c.caller] = match]
          /\ AdvanceCommit(c.caller, match)
      BY <1>2, <2>3, <3>1 DEF HandleAppendReply
    <3>3. PICK k \in Committable(log[c.caller], commitIndex[c.caller],
                                 currentTerm[c.caller], match, Peers(c.caller)) :
             commitIndex' = [commitIndex EXCEPT ![c.caller] = k]
      BY <2>3, <3>2 DEF AdvanceCommit
    <3>4. CASE c.caller = i
      <4>1. commitIndex'[i] = k /\ matchIndex'[i] = match
        BY <3>2, <3>3, <3>4 DEF TypeOK
      <4> QED BY <3>2, <3>3, <3>4, <4>1
    <3>5. CASE c.caller # i
      BY <2>1, <3>3, <3>5 DEF TypeOK
    <3> QED BY <3>4, <3>5
  <2> QED BY <2>2, <2>3
<1>3. CASE UNCHANGED commitIndex
  BY <1>3
<1> QED BY <1>1, <1>2, <1>3
        DEF Next, vars, ElectionTimeout, LeaderSendHeartbeats, Stop, Submit,
            SendRequestVote, RequestVote, RequestVoteAtDead, HandleVoteReply,
            SendAppendEntries, AppendEntriesAtDead, AppendEntriesFails

(* A leader that counts a majority has found entries that are secured.     *)
LEMMA MajorityFound ==
    ASSUME PromptReplies, ~TornReads,
           NEW lead, NEW winner, NEW won, NEW lead2, NEW winner2, NEW won2,
           Goes(lead, winner, won, lead2, winner2, won2),
           NEW i \in Server, state[i] = "Leader", UNCHANGED <<serverVars, log>>,
           NEW k \in Nat, NEW l, l = log'[i],
           NEW term, term = currentTerm'[i],
           k \in Committable(log[i], commitIndex[i], currentTerm[i],
                             matchIndex'[i], Peers(i))
    PROVE  CommittedIn(l, k + 1, term, lead2, winner2)'
<1> USE DEF serverVars
<1>1. PICK P : P = {p \in Peers(i) : matchIndex'[i][p] >= k}
  OBVIOUS
<1>2. PICK R : R = Holders(i, k + 1)'
  OBVIOUS
<1>3. /\ term \in Nat /\ Len(l) \in Nat /\ l = log[i] /\ term = currentTerm[i]
      /\ commitIndex[i] \in Nat \cup {-1}
      /\ matchIndex'[i] \in [Server -> Nat \cup {-1}]
  BY LenProperties DEF Goes, TypeOK
<1>4. /\ k + 1 \in 1..Len(l) /\ l[k + 1].term = term
      /\ 2 * (1 + Cardinality(P)) > Cardinality(Peers(i)) + 1
  <2>1. /\ k \in (commitIndex[i] + 1)..(Len(l) - 1)
        /\ EntryTerm(l, k) = term
        /\ 2 * (1 + Cardinality(P)) > Cardinality(Peers(i)) + 1
    BY <1>1, <1>3 DEF Committable
  <2>2. k + 1 \in 1..Len(l)
    BY <1>3, <2>1
  <2> QED BY <2>1, <2>2 DEF EntryTerm
<1>5. {i} \cup P \subseteq R /\ R \in SUBSET Server
  <2>1. ASSUME NEW p \in P PROVE matchIndex'[i][p] + 1 >= k + 1
    <3>1. p \in Server /\ matchIndex'[i][p] >= k
      BY <1>1, <2>1 DEF Peers
    <3> QED BY <1>3, <3>1
  <2>2. R \in SUBSET Server
    BY <1>2 DEF Holders, Peers, Goes, TypeOK, AppendCall
  <2> QED BY <1>1, <1>2, <2>1, <2>2 DEF Holders
<1>6. Majority(R)
  <2>1. IsFiniteSet(Server) /\ IsFiniteSet(R) /\ IsFiniteSet(P) /\ IsFiniteSet({i} \cup P)
    BY <1>5, ServerAssumption, FS_Subset
  <2>2. Cardinality({i} \cup P) = Cardinality(P) + 1
    <3>1. i \notin P /\ {i} \cup P = P \cup {i}
      BY <1>1 DEF Peers
    <3> QED BY <2>1, <3>1, FS_AddElement
  <2>3. Cardinality(Server) = Cardinality(Peers(i)) + 1 /\ IsFiniteSet(Peers(i))
    <3>1. IsFiniteSet(Peers(i)) /\ Cardinality(Peers(i)) = Cardinality(Server) - 1
      BY <2>1, FS_RemoveElement DEF Peers
    <3>2. Cardinality(Server) \in Nat
      BY <2>1, FS_CardinalityType
    <3> QED BY <3>1, <3>2
  <2>4. Cardinality({i} \cup P) <= Cardinality(R)
    BY <1>5, <2>1, FS_Subset
  <2>5. /\ Cardinality(P) \in Nat /\ Cardinality(R) \in Nat
        /\ Cardinality(Peers(i)) \in Nat
    BY <2>1, <2>3, FS_CardinalityType
  <2>6. 2 * Cardinality(R) > Cardinality(Server)
    BY <1>4, <2>2, <2>3, <2>4, <2>5
  <2> QED BY <1>5, <2>6 DEF Majority
<1>7. PICK m \in Nat : m = k + 1
  OBVIOUS
<1>8. EntrySecured(i, m, lead2, winner2, won2)'
  BY <1>3, <1>4, <1>7, EntrySecuredStep
<1>9. Secured(term, m, R, lead2, winner2)' \/ Bypassed(term, R, winner2, won2)
  BY <1>2, <1>3, <1>4, <1>7, <1>8 DEF EntrySecured, Secured, Bypassed
<1>10. ~Bypassed(term, R, winner2, won2)
  BY <1>6, MajorityNotBypassed DEF Goes, Grown
<1>11. Contains(l, term, m)
  BY <1>3, <1>4, <1>7 DEF Contains
<1>12. CommittedIn(l, m, term, lead2, winner2)'
  BY <1>3, <1>5, <1>6, <1>9, <1>10, <1>11 DEF CommittedIn
<1> QED BY <1>7, <1>12

LEMMA CommitKnownStep ==
    ASSUME PromptReplies, ~TornReads,
           NEW lead, NEW winner, NEW won, NEW lead2, NEW winner2, NEW won2,
           Goes(lead, winner, won, lead2, winner2, won2),
           NEW i \in Server
    PROVE  CommitKnown(i, lead2, winner2)'
<1>1. PICK k, l, term : k = commitIndex'[i] /\ l = log'[i] /\ term = currentTerm'[i]
  OBVIOUS
<1> SUFFICES ASSUME k >= 0 PROVE CommittedIn(l, k + 1, term, lead2, winner2)'
  BY <1>1 DEF CommitKnown, CommittedIn, Secured
<1>2. /\ k \in Nat /\ k + 1 \in Nat /\ k + 1 > 0 /\ term \in Nat /\ Len(l) \in Nat
      /\ currentTerm[i] \in Nat /\ currentTerm[i] <= term
  <2>1. k \in Nat \cup {-1} /\ l \in Seq(Entry) /\ term \in Nat /\ currentTerm[i] \in Nat
    BY <1>1 DEF Goes, TypeOK
  <2>2. currentTerm[i] <= term
    BY <1>1, <2>1, NextVoteStep DEF Goes, VoteStep
  <2> QED BY <2>1, <2>2, LenProperties
<1>3. CASE commitIndex'[i] = commitIndex[i]
  <2>1. PICK l0, term0 : l0 = log[i] /\ term0 = currentTerm[i]
    OBVIOUS
  <2>2. CommitKnown(i, lead, winner)
    BY DEF Goes, CommitsFit
  <2>3. CommittedIn(l0, k + 1, term0, lead, winner)
    BY <1>1, <1>3, <2>1, <2>2 DEF CommitKnown
  <2>4. PICK t \in Nat : \E Q \in SUBSET Server :
           /\ t <= term0 /\ Contains(l0, t, k + 1) /\ Secured(t, k + 1, Q, lead, winner)
    BY <2>3 DEF CommittedIn
  <2>5. /\ Contains(lead[t], t, k + 1)
        /\ \A u \in Nat : u > t /\ winner[u] # None => Contains(lead[u], t, k + 1)
    BY <2>4 DEF Secured
  <2>6. Agree(l0, l, k + 1)
    BY <1>1, <1>2, <2>1, <2>4, <2>5, EntryKept
  <2> QED BY <1>2, <2>1, <2>3, <2>6, CommittedStep
<1>4. ASSUME NEW c \in appendCalls, Accepts(c), c.peer = i,
             c.args.leaderCommit > commitIndex[i],
             commitIndex'[i] = IF c.args.leaderCommit < Len(log'[i]) - 1
                               THEN c.args.leaderCommit ELSE Len(log'[i]) - 1
      PROVE  CommittedIn(l, k + 1, term, lead2, winner2)'
  <2>1. /\ c.ni \in Nat /\ c.sent \in Nat /\ c.term \in Nat /\ term = c.term
        /\ Agree(l, lead[c.term], c.ni + c.sent)
    BY <1>1, <1>4, Accepted
  <2>2. c.args.leaderCommit \in Nat
    <3>1. c.args.leaderCommit \in Int /\ commitIndex[i] \in Nat \cup {-1}
      BY DEF Goes, TypeOK, AppendCall, AppendArgs
    <3> QED BY <1>4, <3>1
  <2>3. PICK lc \in Nat : lc = c.args.leaderCommit
    BY <2>2
  <2>4. LeaderCommitKnown(c, lead, winner) /\ c.stage \in {"request", "orphan"}
    BY <1>4 DEF Goes, CommitsFit, Accepts
  <2>5. lc + 1 <= c.ni + c.sent /\ CommittedIn(lead[c.term], lc + 1, c.term, lead, winner)
    BY <2>3, <2>4 DEF LeaderCommitKnown
  <2>6. PICK n \in Nat : n = c.ni + c.sent
    BY <2>1
  <2>7. n <= Len(l)
    BY <2>1, <2>6 DEF Agree
  <2>8. k = lc
    BY <1>1, <1>2, <1>4, <2>3, <2>5, <2>6, <2>7
  <2>9. Agree(lead[c.term], l, k + 1)
    <3>1. Len(lead[c.term]) \in Nat
      BY <2>1, GoesTypes, HistoryTypes
    <3>2. Agree(l, lead[c.term], n) /\ k + 1 <= n
      BY <2>1, <2>5, <2>6, <2>8
    <3> QED BY <1>2, <3>1, <3>2 DEF Agree
  <2> QED BY <1>2, <2>1, <2>5, <2>8, <2>9, CommittedStep
<1>5. ASSUME state[i] = "Leader", UNCHANGED <<serverVars, log>>,
             commitIndex'[i] \in Committable(log[i], commitIndex[i], currentTerm[i],
                                             matchIndex'[i], Peers(i))
      PROVE  CommittedIn(l, k + 1, term, lead2, winner2)'
  BY <1>1, <1>2, <1>5, MajorityFound
<1> QED BY <1>3, <1>4, <1>5, CommitChanges DEF Goes

-----------------------------------------------------------------------------
(* Without late sends a request is made of a leader's log, which has what  *)
(* the leader knows to be committed.                                       *)
LEMMA RequestStep ==
    ASSUME PromptReplies, ~TornReads, ~LateSend,
           NEW lead, NEW winner, NEW won, NEW lead2, NEW winner2, NEW won2,
           Goes(lead, winner, won, lead2, winner2, won2),
           NEW c \in appendCalls, NEW d \in appendCalls', Requested(d, c)
    PROVE  /\ Leads(c.caller, c.term) /\ Leads(c.caller, c.term)'
           /\ lead[c.term] = log[c.caller] /\ Carries(d, lead2[d.term])
<1>1. Leads(c.caller, c.term) /\ c.caller \in Server
  BY DEF LateSend, Requested, Goes, TypeOK, AppendCall
<1>2. Leads(c.caller, c.term)'
  BY <1>1 DEF Requested, SendAppendEntries, serverVars, Leads
<1>3. lead[c.term] = log[c.caller]
  BY <1>1 DEF Goes, Fits, LeadersKnown, Leads
<1>4. CallKnown(d, lead2, winner2)'
  BY DEF Goes, Fits
<1>5. d.stage = "request" /\ d.caller = c.caller /\ d.term = c.term
  BY DEF Requested
<1>6. Carries(d, lead2[d.term])
  BY <1>2, <1>4, <1>5 DEF CallKnown, RequestKnown
<1> QED BY <1>1, <1>2, <1>3, <1>6

LEMMA RequestOfLeaderStep ==
    ASSUME PromptReplies, ~TornReads, ~LateSend,
           NEW lead, NEW winner, NEW won, NEW lead2, NEW winner2, NEW won2,
           Goes(lead, winner, won, lead2, winner2, won2),
           NEW d \in appendCalls'
    PROVE  RequestOfLeader(d, lead2)
<1> SUFFICES ASSUME d.stage \in {"request", "orphan"} PROVE Carries(d, lead2[d.term])
  BY DEF RequestOfLeader
<1>1. d \in AppendCall /\ d.term \in Nat
  BY DEF Goes, TypeOK, AppendCall
<1>2. ASSUME Carries(d, lead[d.term]) PROVE Carries(d, lead2[d.term])
  BY <1>1, <1>2, GoesTypes, CarriesGrows
<1>3. CASE d \in appendCalls
  BY <1>2, <1>3 DEF Goes, CommitsFit, RequestOfLeader
<1>4. ASSUME NEW c \in appendCalls, c.stage = "request", SameCall(d, c), d.args = c.args
      PROVE  Carries(d, lead[d.term])
  <2>1. Carries(c, lead[c.term])
    BY <1>4 DEF Goes, CommitsFit, RequestOfLeader
  <2> QED BY <1>4, <2>1 DEF Carries, SameCall
<1>5. ASSUME NEW c \in appendCalls, Requested(d, c) PROVE Carries(d, lead2[d.term])
  BY <1>5, RequestStep
<1>6. \A c \in appendCalls : ~Replied(d, c)
  BY DEF Replied
<1> QED BY <1>2, <1>3, <1>4, <1>5, <1>6, CallOrigin DEF Goes

LEMMA LeaderCommitKnownStep ==
    ASSUME PromptReplies, ~TornReads, ~LateSend,
           NEW lead, NEW winner, NEW won, NEW lead2, NEW winner2, NEW won2,
           Goes(lead, winner, won, lead2, winner2, won2),
           NEW d \in appendCalls'
    PROVE  LeaderCommitKnown(d, lead2, winner2)'
<1>1. PICK lc, l, l2, t : /\ lc = d.args.leaderCommit /\ t = d.term
                          /\ l = lead[t] /\ l2 = lead2[t]
  OBVIOUS
<1> SUFFICES ASSUME d.stage \in {"request", "orphan"}, lc >= 0
             PROVE  /\ lc + 1 <= d.ni + d.sent
                    /\ CommittedIn(l2, lc + 1, t, lead2, winner2)'
  BY <1>1 DEF LeaderCommitKnown
<1>2. d \in AppendCall /\ t \in Nat /\ lc \in Nat /\ lc + 1 \in Nat /\ lc + 1 > 0
  <2>1. d \in AppendCall /\ t \in Nat /\ lc \in Int
    BY <1>1 DEF Goes, TypeOK, AppendCall, AppendArgs
  <2> QED BY <2>1
<1>3. Len(l) \in Nat /\ Len(l2) \in Nat /\ Agree(l, l2, Len(l))
  <2>1. Len(l) \in Nat /\ Len(l2) \in Nat
    BY <1>1, <1>2, GoesTypes, HistoryTypes
  <2>2. Grows(lead, lead2)
    BY GoesTypes
  <2> QED BY <1>1, <1>2, <2>1, <2>2 DEF Grows
<1>4. ASSUME lc + 1 <= d.ni + d.sent, CommittedIn(l, lc + 1, t, lead, winner)
      PROVE  /\ lc + 1 <= d.ni + d.sent
             /\ CommittedIn(l2, lc + 1, t, lead2, winner2)'
  <2>1. lc + 1 <= Len(l)
    BY <1>4 DEF CommittedIn, Contains
  <2>2. Agree(l, l2, lc + 1)
    BY <1>2, <1>3, <2>1 DEF Agree
  <2>3. t <= t
    BY <1>2
  <2>4. CommittedIn(l2, lc + 1, t, lead2, winner2)'
    BY <1>2, <1>4, <2>2, <2>3, CommittedStep
  <2> QED BY <1>4, <2>4
<1>5. CASE d \in appendCalls
  <2>1. LeaderCommitKnown(d, lead, winner)
    BY <1>5 DEF Goes, CommitsFit
  <2> QED BY <1>1, <1>4, <2>1 DEF LeaderCommitKnown
<1>6. ASSUME NEW c \in appendCalls, c.stage = "request", SameCall(d, c), d.args = c.args
      PROVE  /\ lc + 1 <= d.ni + d.sent
             /\ CommittedIn(l2, lc + 1, t, lead2, winner2)'
  <2>1. LeaderCommitKnown(c, lead, winner)
    BY DEF Goes, CommitsFit
  <2>2. lc + 1 <= d.ni + d.sent /\ CommittedIn(l, lc + 1, t, lead, winner)
    BY <1>1, <1>6, <2>1 DEF LeaderCommitKnown, SameCall
  <2> QED BY <1>4, <2>2
<1>7. ASSUME NEW c \in appendCalls, Requested(d, c)
      PROVE  /\ lc + 1 <= d.ni + d.sent
             /\ CommittedIn(l2, lc + 1, t, lead2, winner2)'
  <2>1. Leads(c.caller, c.term) /\ lead[c.term] = log[c.caller]
    BY <1>7, RequestStep
  <2>2. /\ d.term = c.term /\ d.ni + d.sent = Len(log[c.caller])
        /\ d.args.leaderCommit = commitIndex[c.caller]
    BY <1>7 DEF Requested
  <2>3. CommitKnown(c.caller, lead, winner)
    BY DEF Goes, TypeOK, AppendCall, CommitsFit
  <2>4. /\ lc = commitIndex[c.caller] /\ l = log[c.caller] /\ t = currentTerm[c.caller]
    BY <1>1, <2>1, <2>2 DEF Leads
  <2>5. CommittedIn(l, lc + 1, t, lead, winner)
    BY <2>3, <2>4 DEF CommitKnown
  <2>6. lc + 1 <= d.ni + d.sent
    BY <2>2, <2>4, <2>5 DEF CommittedIn, Contains
  <2> QED BY <1>4, <2>5, <2>6
<1>8. \A c \in appendCalls : ~Replied(d, c)
  BY DEF Replied
<1> QED BY <1>5, <1>6, <1>7, <1>8, CallOrigin DEF Goes

-----------------------------------------------------------------------------
(* A leader adds entries of its own term, and took over a log whose terms  *)
(* its own had reached.                                                    *)
LEMMA LeadersOrderedStep ==
    ASSUME NEW lead, NEW winner, NEW won, NEW lead2, NEW winner2, NEW won2,
           Goes(lead, winner, won, lead2, winner2, won2)
    PROVE  LeadersOrdered(lead2)
<1> SUFFICES ASSUME NEW t \in Nat PROVE Ordered(lead2[t], t)
  BY DEF LeadersOrdered
<1>0. /\ lead \in [Nat -> Seq(Entry)] /\ lead2 \in [Nat -> Seq(Entry)]
      /\ lead[t] \in Seq(Entry) /\ lead2[t] \in Seq(Entry)
      /\ Len(lead[t]) \in Nat /\ Len(lead2[t]) \in Nat
      /\ winner2 \in [Nat -> Server \cup {None}]
  BY GoesTypes, HistoryTypes
<1>1. CASE winner2[t] = None
  <2>1. lead2[t] = <<>>
    BY <1>1 DEF Goes, Fits, IsHistory
  <2>2. Len(lead2[t]) = 0
    BY <2>1
  <2> QED BY <2>2 DEF Ordered
<1>2. CASE winner2[t] # None /\ winner[t] = None
  <2>1. PICK i \in Server : winner2[t] = i
    BY <1>0, <1>2
  <2>2. lead2[t] = log[i] /\ currentTerm[i] = t
    <3>1. \A j \in Server : winner[t] = None /\ winner2[t] = j =>
             lead2[t] = log[j] /\ currentTerm[j] = t
      BY DEF Goes, Grown, HistoryStep
    <3> QED BY <1>2, <2>1, <3>1
  <2>3. ASSUME NEW k \in 1..Len(lead2[t]) PROVE lead2[t][k].term <= t
    BY <2>2, <2>3 DEF Goes, CommitsFit, TermsReached
  <2>4. ASSUME NEW k \in 1..Len(lead2[t]), NEW j \in 1..k
        PROVE  lead2[t][j].term <= lead2[t][k].term
    <3>1. LeadersOrdered(lead) /\ Traced(log[i], lead) /\ log[i] \in Seq(Entry)
      BY DEF Goes, CommitsFit, Fits, LogsTraced, TypeOK
    <3> QED BY <1>0, <2>2, <2>4, <3>1, TracedOrdered
  <2> QED BY <2>3, <2>4 DEF Ordered
<1>3. CASE winner[t] # None
  <2>1. Ordered(lead[t], t)
    BY DEF Goes, CommitsFit, LeadersOrdered
  <2>2. lead2[t] = lead[t] \/ \E e \in Entry : e.term = t /\ lead2[t] = Append(lead[t], e)
    BY <1>3 DEF Goes, Grown, HistoryStep
  <2>3. ASSUME NEW e \in Entry, e.term = t, lead2[t] = Append(lead[t], e)
        PROVE  Ordered(lead2[t], t)
    <3>1. PICK n \in Nat : n = Len(lead[t])
      BY <1>0
    <3>2. /\ Len(lead2[t]) = n + 1 /\ lead2[t][n + 1].term = t
          /\ \A k \in 1..n : lead2[t][k] = lead[t][k]
      BY <1>0, <2>3, <3>1, AppendProperties
    <3>3. \A k \in 1..n : lead2[t][k].term <= t
      BY <2>1, <3>1, <3>2 DEF Ordered
    <3>4. \A k \in 1..(n + 1) : lead2[t][k].term <= t
      BY <3>2, <3>3
    <3>5. ASSUME NEW k \in 1..(n + 1), NEW j \in 1..k
          PROVE  lead2[t][j].term <= lead2[t][k].term
      <4>1. CASE k = n + 1
        BY <3>2, <3>4, <3>5, <4>1
      <4>2. CASE k \in 1..n
        <5>1. j \in 1..n /\ lead[t][j].term <= lead[t][k].term
          BY <2>1, <3>1, <4>2 DEF Ordered
        <5> QED BY <3>2, <4>2, <5>1
      <4> QED BY <4>1, <4>2
    <3> QED BY <3>2, <3>4, <3>5 DEF Ordered
  <2> QED BY <2>1, <2>2, <2>3
<1> QED BY <1>1, <1>2, <1>3

LEMMA TermsReachedStep ==
    ASSUME NEW lead, NEW winner, NEW won, NEW lead2, NEW winner2, NEW won2,
           Goes(lead, winner, won, lead2, winner2, won2)
    PROVE  TermsReached'
<1> SUFFICES ASSUME NEW i \in Server, NEW k \in 1..Len(log'[i])
             PROVE  log'[i][k].term <= currentTerm'[i]
  BY DEF TermsReached
<1>1. /\ currentTerm[i] \in Nat /\ currentTerm'[i] \in Nat
      /\ currentTerm[i] <= currentTerm'[i]
      /\ Len(log[i]) \in Nat /\ Len(log'[i]) \in Nat
      /\ log[i] \in Seq(Entry) /\ log'[i] \in Seq(Entry)
  BY NextVoteStep, LenProperties DEF Goes, TypeOK, VoteStep
<1>2. ASSUME NEW j \in 1..Len(log[i]) PROVE log[i][j].term <= currentTerm'[i]
  <2>1. log[i][j].term <= currentTerm[i]
    BY DEF Goes, CommitsFit, TermsReached
  <2>2. log[i][j] \in Entry
    BY <1>1, ElementOfSeq
  <2>3. log[i][j].term \in Nat
    BY <2>2 DEF Entry
  <2> QED BY <1>1, <2>1, <2>3
<1>3. CASE log'[i] = log[i]
  BY <1>2, <1>3
<1>4. CASE Submit(i)
  <2>1. /\ Len(log'[i]) = Len(log[i]) + 1 /\ UNCHANGED currentTerm
        /\ \A j \in 1..Len(log[i]) : log'[i][j] = log[i][j]
        /\ log'[i][Len(log[i]) + 1].term = currentTerm[i]
    BY <1>4, Submitted DEF Goes, serverVars
  <2>2. CASE k = Len(log[i]) + 1
    BY <1>1, <2>1, <2>2
  <2>3. CASE k \in 1..Len(log[i])
    BY <1>2, <2>1, <2>3
  <2> QED BY <1>1, <2>1, <2>2, <2>3
<1>5. ASSUME NEW c \in appendCalls, Accepts(c), c.peer = i, log'[i] # log[i]
      PROVE  log'[i][k].term <= currentTerm'[i]
  <2>1. /\ c.term \in Nat /\ currentTerm'[i] = c.term
        /\ Agree(log'[i], lead[c.term], Len(log'[i]))
    BY <1>5, Accepted
  <2>2. Len(lead[c.term]) \in Nat
    BY <2>1, GoesTypes, HistoryTypes
  <2>3. k \in 1..Len(lead[c.term]) /\ log'[i][k] = lead[c.term][k]
    BY <1>1, <2>1, <2>2 DEF Agree
  <2>4. Ordered(lead[c.term], c.term)
    BY <2>1 DEF Goes, CommitsFit, LeadersOrdered
  <2> QED BY <2>1, <2>3, <2>4 DEF Ordered
<1>6. ASSUME NEW j \in Server, Submit(j), j # i PROVE log'[i] = log[i]
  BY <1>6, Submitted DEF Goes
<1>7. ASSUME NEW c \in appendCalls, Accepts(c), c.peer # i PROVE log'[i] = log[i]
  BY <1>7, Accepted
<1> QED BY <1>3, <1>4, <1>5, <1>6, <1>7, LogChanges DEF Goes

(* A candidate's request was made of the log it still has: it starts its   *)
(* next election without the calls of this one, and loses its candidacy    *)
(* where its log changes.                                                  *)
LEMMA VoteRequestKnownStep ==
    ASSUME PromptReplies,
           NEW lead, NEW winner, NEW won, NEW lead2, NEW winner2, NEW won2,
           Goes(lead, winner, won, lead2, winner2, won2),
           NEW d \in voteCalls'
    PROVE  VoteRequestKnown(d)'
<1> USE DEF serverVars, logVars, leaderVars
<1> SUFFICES ASSUME d.stage = "request", state'[d.caller] = "Candidate"
             PROVE  VoteRequestKnown(d)'
  BY DEF VoteRequestKnown
<1>0. d \in VoteCall /\ d.caller \in Server /\ voteCalls \in SUBSET VoteCall
  BY DEF Goes, TypeOK, VoteCall
<1>1. log'[d.caller] = log[d.caller]
  <2>2. ASSUME NEW c \in appendCalls, Accepts(c) PROVE log'[d.caller] = log[d.caller]
    <3>1. c.peer # d.caller
      BY <2>2 DEF Accepts
    <3> QED BY <1>0, <2>2, <3>1, Accepted
  <2>3. ASSUME NEW j \in Server, Submit(j) PROVE log'[d.caller] = log[d.caller]
    <3>1. j # d.caller
      BY <2>3, Submitted DEF Goes
    <3> QED BY <1>0, <2>3, <3>1, Submitted DEF Goes
  <2> QED BY <2>2, <2>3, LogChanges DEF Goes
<1>2. ASSUME d \in voteCalls, state[d.caller] = "Candidate" PROVE VoteRequestKnown(d)'
  <2>1. VoteRequestKnown(d)
    BY <1>2 DEF Goes, CommitsFit
  <2> QED BY <1>1, <1>2, <2>1 DEF VoteRequestKnown
<1>3. ASSUME NEW i \in Server, ElectionTimeout(i) PROVE VoteRequestKnown(d)'
  <2> DEFINE call(p) ==
            [caller |-> i, peer |-> p, election |-> Len(votesReceived[i]) + 1,
             term |-> currentTerm[i] + 1, stage |-> "spawned",
             args |-> NoVoteArgs, reply |-> ZeroVoteReply]
  <2>1. PICK targets \in SUBSET Peers(i), rest \in Abandoned(voteCalls, i) :
            voteCalls' = rest \cup {call(p) : p \in targets}
    BY <1>3 DEF ElectionTimeout
  <2>5. \A p : call(p).stage = "spawned"
    OBVIOUS
  <2> HIDE DEF call
  <2>2. d \in rest
    BY <2>1, <2>5
  <2>3. d \in voteCalls /\ d.caller # i
    BY <1>0, <2>2, AbandonedVotes
  <2>4. state[d.caller] = "Candidate"
    BY <1>0, <1>3, <2>3 DEF ElectionTimeout, Goes, TypeOK
  <2> QED BY <1>2, <2>3, <2>4
<1>4. ASSUME NEW c \in voteCalls, SendRequestVote(c) PROVE VoteRequestKnown(d)'
  <2>1. UNCHANGED <<state, log>>
    BY <1>4 DEF SendRequestVote
  <2>2. CASE d \in voteCalls
    BY <1>2, <2>1, <2>2
  <2>3. CASE d \notin voteCalls
    <3>1. d = [c EXCEPT !.stage = "request",
                        !.args = [lastLogIndex |-> LastLogIndex(log[c.caller]),
                                  lastLogTerm |-> LastLogTerm(log[c.caller])]]
      BY <1>4, <2>3 DEF SendRequestVote
    <3>2. /\ d.caller = c.caller /\ d.args.lastLogIndex = LastLogIndex(log[c.caller])
          /\ d.args.lastLogTerm = LastLogTerm(log[c.caller])
      BY <1>0, <3>1 DEF VoteCall
    <3> QED BY <2>1, <3>2 DEF VoteRequestKnown
  <2> QED BY <2>2, <2>3
<1>5. ASSUME NEW c \in voteCalls, NEW r, AnswerVote(c, r) PROVE d \in voteCalls
  BY <1>0, <1>5 DEF AnswerVote, VoteCall
<1>6. ASSUME NEW c \in voteCalls, RequestVote(c) PROVE VoteRequestKnown(d)'
  <2>1. d \in voteCalls
    BY <1>5, <1>6 DEF RequestVote
  <2>2. state[d.caller] = "Candidate"
    <3>1. PICK x : state' = [state EXCEPT ![c.peer] = IF x THEN "Follower" ELSE @]
      BY <1>6 DEF RequestVote
    <3>2. c.peer \in Server
      BY <1>0 DEF VoteCall
    <3> QED BY <1>0, <3>1, <3>2 DEF Goes, TypeOK
  <2> QED BY <1>2, <2>1, <2>2
<1>7. ASSUME NEW c \in voteCalls, RequestVoteAtDead(c) PROVE VoteRequestKnown(d)'
  <2>1. d \in voteCalls /\ UNCHANGED state
    BY <1>5, <1>7 DEF RequestVoteAtDead
  <2> QED BY <1>2, <2>1
<1>8. ASSUME NEW c \in voteCalls, HandleVoteReply(c) PROVE VoteRequestKnown(d)'
  <2>1. d \in voteCalls /\ c.caller \in Server
    BY <1>0, <1>8 DEF HandleVoteReply, VoteCall
  <2>2. state[d.caller] = "Candidate"
    <3>1. \/ UNCHANGED state
          \/ state' = [state EXCEPT ![c.caller] = "Follower"]
          \/ state' = [state EXCEPT ![c.caller] = "Leader"]
      BY <1>8 DEF HandleVoteReply, BecomeFollower, StartLeader
    <3> QED BY <1>0, <2>1, <3>1 DEF Goes, TypeOK
  <2> QED BY <1>2, <2>1, <2>2
<1>9. ASSUME NEW c \in appendCalls, AppendEntries(c) PROVE VoteRequestKnown(d)'
  <2>1. d \in voteCalls /\ c.peer \in Server
    BY <1>9 DEF AppendEntries, Goes, TypeOK, AppendCall
  <2>2. state[d.caller] = "Candidate"
    BY <1>0, <1>9, <2>1, ZenonT(30) DEF AppendEntries, BecomeFollower, Goes, TypeOK
  <2> QED BY <1>2, <2>1, <2>2
<1>10. ASSUME NEW c \in appendCalls, HandleAppendReply(c) PROVE VoteRequestKnown(d)'
  <2>1. d \in voteCalls /\ c.caller \in Server
    BY <1>10 DEF HandleAppendReply, Goes, TypeOK, AppendCall
  <2>2. state[d.caller] = "Candidate"
    BY <1>0, <1>10, <2>1 DEF HandleAppendReply, BecomeFollower, Goes, TypeOK
  <2> QED BY <1>2, <2>1, <2>2
<1>11. ASSUME NEW i \in Server, Stop(i) PROVE VoteRequestKnown(d)'
  <2>1. d \in voteCalls /\ state[d.caller] = "Candidate"
    BY <1>0, <1>11 DEF Stop, Goes, TypeOK
  <2> QED BY <1>2, <2>1
<1>12. CASE UNCHANGED <<state, voteCalls>>
  BY <1>2, <1>12
<1>13. [Next]_vars
  BY DEF Goes
<1> QED
  BY <1>3, <1>4, <1>6, <1>7, <1>8, <1>9, <1>10, <1>11, <1>12, <1>13
  DEF Next, vars, Submit, LeaderSendHeartbeats, SendAppendEntries,
      AppendEntriesAtDead, AppendEntriesFails

-----------------------------------------------------------------------------
LEMMA CommitsFitStep ==
    ASSUME PromptReplies, ~TornReads, ~LateSend,
           NEW lead, NEW winner, NEW won, NEW lead2, NEW winner2, NEW won2,
           Goes(lead, winner, won, lead2, winner2, won2)
    PROVE  CommitsFit(lead2, winner2, won2)'
<1>1. LeadersOrdered(lead2) /\ TermsReached'
  BY LeadersOrderedStep, TermsReachedStep
<1>2. /\ \A c \in appendCalls' : RequestOfLeader(c, lead2)
      /\ \A c \in voteCalls' : VoteRequestKnown(c)'
  BY RequestOfLeaderStep, VoteRequestKnownStep
<1>3. \A i \in Server : \A m \in 1..Len(log'[i]) : EntrySecured(i, m, lead2, winner2, won2)'
  BY EntrySecuredStep
<1>4. /\ \A i \in Server : CommitKnown(i, lead2, winner2)'
      /\ \A c \in appendCalls' : LeaderCommitKnown(c, lead2, winner2)'
  BY CommitKnownStep, LeaderCommitKnownStep
<1> QED BY <1>1, <1>2, <1>3, <1>4 DEF CommitsFit

LEMMA CommitsFitInit ==
    ASSUME Init, NEW lead, NEW winner, NEW won, Fits(lead, winner, won),
           \A t \in Nat : winner[t] = None
    PROVE  CommitsFit(lead, winner, won)
<1>1. Len(<<>>) = 0
  BY EmptySeq
<1>2. \A t \in Nat : Len(lead[t]) = 0
  BY <1>1 DEF Fits, IsHistory
<1>3. LeadersOrdered(lead)
  BY <1>2 DEF LeadersOrdered, Ordered
<1>4. /\ \A i \in Server : log[i] = <<>> /\ commitIndex[i] = -1
      /\ appendCalls = {} /\ voteCalls = {}
  BY DEF Init
<1>5. TermsReached
  BY <1>1, <1>4 DEF TermsReached
<1>6. \A i \in Server : \A m \in 1..Len(log[i]) : EntrySecured(i, m, lead, winner, won)
  BY <1>1, <1>4
<1>7. \A i \in Server : CommitKnown(i, lead, winner)
  BY <1>4 DEF CommitKnown
<1> QED BY <1>3, <1>4, <1>5, <1>6, <1>7 DEF CommitsFit

(* To send is never to leave everything as it is.                          *)
LEMMA SendsMove == TypeOK /\ [~LateSend]_vars => ~LateSend
<1> SUFFICES ASSUME TypeOK, UNCHANGED vars,
                    NEW c \in appendCalls, SendAppendEntries(c)
             PROVE  FALSE
  BY DEF LateSend
<1>1. UNCHANGED <<appendCalls, panicked>> /\ c \in AppendCall
  BY DEF vars, TypeOK
<1>2. PICK ni, n, args : appendCalls' = (appendCalls \ {c}) \cup
          {[c EXCEPT !.stage = "request", !.ni = ni, !.sent = n, !.args = args]}
  BY <1>1, ZenonT(30) DEF SendAppendEntries
<1>3. PICK d : d = [c EXCEPT !.stage = "request", !.ni = ni, !.sent = n, !.args = args]
  OBVIOUS
<1>4. d.stage = "request" /\ c.stage = "spawned"
  BY <1>1, <1>3 DEF AppendCall, SendAppendEntries
<1> QED BY <1>1, <1>2, <1>3, <1>4

(* While no heartbeat goroutine is so late that its server has lost its    *)
(* term before it locks mu, whatever is taken to be committed is secured   *)
(* by a majority.                                                          *)
THEOREM CommitInvariant ==
    ASSUME PromptReplies, ~TornReads
    PROVE  Spec /\ [][~LateSend]_vars => []CommitInv
<1>1. Init => CommitInv
  <2> SUFFICES ASSUME Init PROVE CommitInv
    OBVIOUS
  <2>1. PICK lead, winner, won :
           Fits(lead, winner, won) /\ \A t \in Nat : winner[t] = None
    BY FitsInit
  <2> QED BY <2>1, CommitsFitInit DEF CommitInv
<1>2. TypeOK /\ TypeOK' /\ ElectionInv /\ ElectionInv' /\ CommitInv
      /\ [Next]_vars /\ [~LateSend]_vars => CommitInv'
  <2> SUFFICES ASSUME TypeOK, TypeOK', ElectionInv, ElectionInv', CommitInv,
                      [Next]_vars, [~LateSend]_vars
               PROVE  CommitInv'
    OBVIOUS
  <2>1. PICK lead, winner, won : Fits(lead, winner, won) /\ CommitsFit(lead, winner, won)
    BY DEF CommitInv
  <2>2. PICK lead2, winner2, won2 : /\ Grown(lead, winner, won, lead2, winner2, won2)
                                    /\ Fits(lead2, winner2, won2)'
    BY <2>1, FitsStep
  <2>3. Goes(lead, winner, won, lead2, winner2, won2)
    BY <2>1, <2>2 DEF Goes
  <2>4. ~LateSend
    BY SendsMove
  <2>5. CommitsFit(lead2, winner2, won2)'
    BY <2>3, <2>4, CommitsFitStep
  <2> QED BY <2>2, <2>5 DEF CommitInv
<1> QED BY <1>1, <1>2, TypeCorrect, ElectionInvariant, PTL DEF Spec

-----------------------------------------------------------------------------
(* The certificate of what a server knows to be committed.                 *)
LEMMA CommittedCertified ==
    ASSUME TypeOK, NEW lead, NEW winner, NEW won,
           Fits(lead, winner, won), CommitsFit(lead, winner, won),
           NEW i \in Server, NEW m, m = commitIndex[i] + 1, commitIndex[i] >= 0
    PROVE  /\ m \in Nat /\ m > 0
           /\ \E t \in Nat, Q \in SUBSET Server :
                 /\ t <= currentTerm[i] /\ Contains(log[i], t, m)
                 /\ Majority(Q) /\ Secured(t, m, Q, lead, winner)
<1>1. commitIndex[i] \in Nat
  BY DEF TypeOK
<1>2. CommittedIn(log[i], m, currentTerm[i], lead, winner)
  BY DEF CommitsFit, CommitKnown
<1> QED BY <1>1, <1>2 DEF CommittedIn

LEMMA LogContainsAgree ==
    ASSUME TypeOK, NEW lead, NEW winner, NEW won, Fits(lead, winner, won),
           NEW i \in Server, NEW j \in Server, NEW t \in Nat, NEW m \in Nat, m > 0,
           Contains(log[i], t, m), Contains(log[j], t, m)
    PROVE  Agree(log[i], log[j], m) /\ \A k \in 0..(m - 1) : SameEntry(i, j, k)
<1>1. /\ log[i] \in Seq(Entry) /\ log[j] \in Seq(Entry)
      /\ Traced(log[i], lead) /\ Traced(log[j], lead)
  BY DEF TypeOK, Fits, LogsTraced
<1>2. Agree(log[i], log[j], m)
  BY <1>1, ContainAgree
<1>3. ASSUME NEW k \in 0..(m - 1) PROVE SameEntry(i, j, k)
  <2>1. k \in Nat /\ k < m
    OBVIOUS
  <2> QED BY <1>1, <1>2, <2>1, AgreeMeansSame, LenProperties
<1> QED BY <1>2, <1>3

LEMMA CommitsAgree ==
    ASSUME TypeOK, CommitInv, NEW i \in Server, NEW j \in Server,
           NEW k \in Nat, k <= commitIndex[i], k <= commitIndex[j]
    PROVE  SameEntry(i, j, k)
<1>1. PICK lead, winner, won : Fits(lead, winner, won) /\ CommitsFit(lead, winner, won)
  BY DEF CommitInv
<1>2. /\ commitIndex[i] \in Nat /\ commitIndex[j] \in Nat
  BY DEF TypeOK
<1>3. PICK m1, m2 : m1 = commitIndex[i] + 1 /\ m2 = commitIndex[j] + 1
  OBVIOUS
<1>4. PICK t1 \in Nat, Q1 \in SUBSET Server :
         Contains(log[i], t1, m1) /\ Majority(Q1) /\ Secured(t1, m1, Q1, lead, winner)
  BY <1>1, <1>2, <1>3, CommittedCertified
<1>5. PICK t2 \in Nat, Q2 \in SUBSET Server :
         Contains(log[j], t2, m2) /\ Majority(Q2) /\ Secured(t2, m2, Q2, lead, winner)
  BY <1>1, <1>2, <1>3, CommittedCertified
<1>6. PICK v \in Server : v \in Q1 /\ v \in Q2
  <2>1. Q1 \cap Q2 # {}
    BY <1>4, <1>5, MajoritiesMeet DEF Majority
  <2> QED BY <2>1
<1>7. Contains(log[v], t1, m1) /\ Contains(log[v], t2, m2)
  BY <1>4, <1>5, <1>6 DEF Secured
<1>8. m1 \in Nat /\ m2 \in Nat /\ m1 > 0 /\ m2 > 0 /\ k \in 0..(m1 - 1) /\ k \in 0..(m2 - 1)
  BY <1>2, <1>3
<1>9. SameEntry(i, v, k)
  BY <1>1, <1>4, <1>7, <1>8, LogContainsAgree
<1>10. SameEntry(j, v, k)
  BY <1>1, <1>5, <1>7, <1>8, LogContainsAgree
<1> QED BY <1>9, <1>10 DEF SameEntry

(* No two servers ever take different entries to be committed at an index. *)
THEOREM CommittedEntriesAgree ==
    ASSUME PromptReplies, ~TornReads
    PROVE  Spec /\ [][~LateSend]_vars => []StateMachineSafety
<1>1. TypeOK /\ CommitInv => StateMachineSafety
  <2> SUFFICES ASSUME TypeOK, CommitInv, NEW i \in Server, NEW j \in Server,
                      NEW k \in 0..commitIndex[i], k <= commitIndex[j]
               PROVE  SameEntry(i, j, k)
    BY DEF StateMachineSafety
  <2>1. k \in Nat /\ k <= commitIndex[i]
    BY DEF TypeOK
  <2> QED BY <2>1, CommitsAgree
<1> QED BY <1>1, CommitInvariant, TypeCorrect, PTL

(* A leader has all that any server of its term or an older one takes to   *)
(* be committed.                                                           *)
THEOREM LeadersComplete ==
    ASSUME PromptReplies, ~TornReads
    PROVE  Spec /\ [][~LateSend]_vars => []LeaderCompleteness
<1>1. TypeOK /\ CommitInv => LeaderCompleteness
  <2> SUFFICES ASSUME TypeOK, CommitInv, NEW i \in Server, NEW j \in Server,
                      state[i] = "Leader", currentTerm[j] <= currentTerm[i],
                      NEW k \in 0..commitIndex[j]
               PROVE  SameEntry(i, j, k)
    BY DEF LeaderCompleteness
  <2>1. PICK lead, winner, won : Fits(lead, winner, won) /\ CommitsFit(lead, winner, won)
    BY DEF CommitInv
  <2>2. commitIndex[j] \in Nat /\ currentTerm[i] \in Nat /\ currentTerm[j] \in Nat
    BY DEF TypeOK
  <2>3. PICK m, u : m = commitIndex[j] + 1 /\ u = currentTerm[i]
    OBVIOUS
  <2>4. PICK t \in Nat, Q \in SUBSET Server :
           /\ t <= currentTerm[j] /\ Contains(log[j], t, m)
           /\ Secured(t, m, Q, lead, winner)
    BY <2>1, <2>2, <2>3, CommittedCertified
  <2>5. winner[u] = i /\ lead[u] = log[i] /\ u \in Nat
    BY <2>1, <2>2, <2>3 DEF Fits, LeadersKnown
  <2>6. winner[u] # None /\ (u = t \/ u > t)
    BY <2>2, <2>3, <2>4, <2>5, ServerAssumption
  <2>7. Contains(log[i], t, m)
    BY <2>4, <2>5, <2>6 DEF Secured
  <2>8. m \in Nat /\ m > 0 /\ k \in 0..(m - 1)
    BY <2>2, <2>3
  <2> QED BY <2>1, <2>4, <2>7, <2>8, LogContainsAgree
<1> QED BY <1>1, CommitInvariant, TypeCorrect, PTL

(* Whatever a server takes to be committed is in the logs of a majority,   *)
(* and stays there.                                                        *)
THEOREM CommittedEntriesDurable ==
    ASSUME PromptReplies, ~TornReads
    PROVE  Spec /\ [][~LateSend]_vars => []CommittedDurable
<1>1. TypeOK /\ CommitInv => CommittedDurable
  <2> SUFFICES ASSUME TypeOK, CommitInv, NEW i \in Server, NEW k \in 0..commitIndex[i]
               PROVE  2 * Cardinality({j \in Server : SameEntry(i, j, k)})
                         > Cardinality(Server)
    BY DEF CommittedDurable
  <2>1. PICK lead, winner, won : Fits(lead, winner, won) /\ CommitsFit(lead, winner, won)
    BY DEF CommitInv
  <2>2. commitIndex[i] \in Nat
    BY DEF TypeOK
  <2>3. PICK m : m = commitIndex[i] + 1
    OBVIOUS
  <2>4. PICK t \in Nat, Q \in SUBSET Server :
           Contains(log[i], t, m) /\ Majority(Q) /\ Secured(t, m, Q, lead, winner)
    BY <2>1, <2>2, <2>3, CommittedCertified
  <2>5. m \in Nat /\ m > 0 /\ k \in 0..(m - 1)
    BY <2>2, <2>3
  <2>6. ASSUME NEW j \in Q PROVE SameEntry(i, j, k)
    <3>1. Contains(log[j], t, m)
      BY <2>4 DEF Secured
    <3> QED BY <2>1, <2>4, <2>5, <3>1, LogContainsAgree
  <2>7. PICK S : S = {j \in Server : SameEntry(i, j, k)}
    OBVIOUS
  <2>8. Q \subseteq S /\ S \subseteq Server
    BY <2>6, <2>7
  <2>9. IsFiniteSet(S) /\ IsFiniteSet(Q) /\ Cardinality(Q) <= Cardinality(S)
    BY <2>8, ServerAssumption, FS_Subset
  <2>10. Cardinality(S) \in Nat /\ Cardinality(Q) \in Nat /\ Cardinality(Server) \in Nat
    BY <2>9, ServerAssumption, FS_CardinalityType
  <2>11. 2 * Cardinality(Q) > Cardinality(Server)
    BY <2>4 DEF Majority
  <2> QED BY <2>7, <2>9, <2>10, <2>11
<1> QED BY <1>1, CommitInvariant, TypeCorrect, PTL

(* A step takes no commit back, and rewrites no log below its commitIndex. *)
LEMMA CommitIndexGrows ==
    ASSUME PromptReplies, ~TornReads,
           NEW lead, NEW winner, NEW won, NEW lead2, NEW winner2, NEW won2,
           Goes(lead, winner, won, lead2, winner2, won2),
           NEW i \in Server
    PROVE  commitIndex'[i] >= commitIndex[i]
<1>1. commitIndex[i] \in Nat \cup {-1} /\ commitIndex'[i] \in Nat \cup {-1}
  BY DEF Goes, TypeOK
<1>2. ASSUME NEW c \in appendCalls, Accepts(c), c.peer = i,
             c.args.leaderCommit > commitIndex[i],
             commitIndex'[i] = IF c.args.leaderCommit < Len(log'[i]) - 1
                               THEN c.args.leaderCommit ELSE Len(log'[i]) - 1
      PROVE  commitIndex'[i] >= commitIndex[i]
  <2>1. /\ c.ni \in Nat /\ c.sent \in Nat
        /\ Agree(log'[i], lead[c.term], c.ni + c.sent)
    BY <1>2, Accepted
  <2>2. c.args.leaderCommit \in Int /\ log'[i] \in Seq(Entry)
    BY DEF Goes, TypeOK, AppendCall, AppendArgs
  <2>3. Len(log'[i]) \in Nat /\ c.ni + c.sent <= Len(log'[i])
    BY <2>1, <2>2, LenProperties DEF Agree
  <2>4. LeaderCommitKnown(c, lead, winner) /\ c.stage \in {"request", "orphan"}
    BY <1>2 DEF Goes, CommitsFit, Accepts
  <2>5. c.args.leaderCommit >= 0
    BY <1>1, <1>2, <2>2
  <2>6. c.args.leaderCommit + 1 <= c.ni + c.sent
    BY <2>4, <2>5 DEF LeaderCommitKnown
  <2>7. c.args.leaderCommit <= Len(log'[i]) - 1
    BY <2>1, <2>2, <2>3, <2>6
  <2> QED BY <1>1, <1>2, <2>2, <2>3, <2>7
<1>3. ASSUME commitIndex'[i] \in Committable(log[i], commitIndex[i], currentTerm[i],
                                             matchIndex'[i], Peers(i))
      PROVE  commitIndex'[i] >= commitIndex[i]
  <2>1. Len(log[i]) \in Nat
    BY LenProperties DEF Goes, TypeOK
  <2>2. commitIndex'[i] \in (commitIndex[i] + 1)..(Len(log[i]) - 1)
    BY <1>3 DEF Committable
  <2> QED BY <1>1, <2>1, <2>2
<1> QED BY <1>1, <1>2, <1>3, CommitChanges DEF Goes

LEMMA CommittedKept ==
    ASSUME PromptReplies, ~TornReads, TypeOK, TypeOK', ElectionInv, ElectionInv',
           CommitInv, [Next]_vars, NEW i \in Server
    PROVE  /\ commitIndex'[i] >= commitIndex[i]
           /\ Agree(log[i], log'[i], commitIndex[i] + 1)
<1>1. PICK lead, winner, won : Fits(lead, winner, won) /\ CommitsFit(lead, winner, won)
  BY DEF CommitInv
<1>2. PICK lead2, winner2, won2 : /\ Grown(lead, winner, won, lead2, winner2, won2)
                                  /\ Fits(lead2, winner2, won2)'
  BY <1>1, FitsStep
<1>3. Goes(lead, winner, won, lead2, winner2, won2)
  BY <1>1, <1>2 DEF Goes
<1>4. commitIndex'[i] >= commitIndex[i]
  BY <1>3, CommitIndexGrows
<1>5. CASE commitIndex[i] = -1
  <2>1. Len(log[i]) \in Nat /\ Len(log'[i]) \in Nat
    BY LenProperties DEF TypeOK
  <2>2. Agree(log[i], log'[i], 0)
    BY <2>1 DEF Agree
  <2> QED BY <1>4, <1>5, <2>2
<1>6. CASE commitIndex[i] # -1
  <2>1. commitIndex[i] >= 0
    BY <1>6 DEF TypeOK
  <2>2. PICK m : m = commitIndex[i] + 1
    OBVIOUS
  <2>3. m \in Nat /\ m > 0
    BY <1>1, <2>1, <2>2, CommittedCertified
  <2>4. PICK t \in Nat, Q \in SUBSET Server :
           /\ t <= currentTerm[i] /\ Contains(log[i], t, m)
           /\ Secured(t, m, Q, lead, winner)
    BY <1>1, <2>1, <2>2, CommittedCertified
  <2>5. /\ Contains(lead[t], t, m)
        /\ \A u \in Nat : u > t /\ winner[u] # None => Contains(lead[u], t, m)
    BY <2>4 DEF Secured
  <2>6. currentTerm[i] >= t
    BY <2>4 DEF TypeOK
  <2>7. Agree(log[i], log'[i], m)
    BY <1>3, <2>3, <2>4, <2>5, <2>6, EntryKept
  <2> QED BY <1>4, <2>2, <2>7
<1> QED BY <1>5, <1>6

(* commitIndex never goes back, and what is below it is never rewritten:   *)
(* commitChanSender may unlock before it sends the entries it has read.    *)
THEOREM CommittedPrefixesStable ==
    ASSUME PromptReplies, ~TornReads
    PROVE  Spec /\ [][~LateSend]_vars => CommittedPrefixStable
<1> DEFINE Stable == \A i \in Server :
        /\ commitIndex'[i] >= commitIndex[i]
        /\ \A k \in 0..commitIndex[i] :
              k < Len(log'[i]) /\ log'[i][k + 1] = log[i][k + 1]
<1>1. TypeOK /\ TypeOK' /\ ElectionInv /\ ElectionInv' /\ CommitInv /\ [Next]_vars
         => Stable
  <2> SUFFICES ASSUME TypeOK, TypeOK', ElectionInv, ElectionInv', CommitInv,
                      [Next]_vars, NEW i \in Server
               PROVE  /\ commitIndex'[i] >= commitIndex[i]
                      /\ \A k \in 0..commitIndex[i] :
                            k < Len(log'[i]) /\ log'[i][k + 1] = log[i][k + 1]
    OBVIOUS
  <2>1. /\ commitIndex'[i] >= commitIndex[i]
        /\ Agree(log[i], log'[i], commitIndex[i] + 1)
    BY CommittedKept
  <2>2. /\ commitIndex[i] \in Nat \cup {-1}
        /\ Len(log[i]) \in Nat /\ Len(log'[i]) \in Nat
    BY LenProperties DEF TypeOK
  <2>3. ASSUME NEW k \in 0..commitIndex[i]
        PROVE  k < Len(log'[i]) /\ log'[i][k + 1] = log[i][k + 1]
    <3>1. k + 1 \in 1..(commitIndex[i] + 1)
      BY <2>2
    <3>2. log'[i][k + 1] = log[i][k + 1]
      BY <2>1, <3>1 DEF Agree
    <3> QED BY <2>1, <2>2, <3>2 DEF Agree
  <2> QED BY <2>1, <2>3
<1>2. Stable => [Stable]_vars
  OBVIOUS
<1> QED BY <1>1, <1>2, CommitInvariant, TypeCorrect, ElectionInvariant, PTL
        DEF CommittedPrefixStable, Spec

(* Stop aside, nothing in the consensus module panics: a heartbeat         *)
(* goroutine that still leads finds nextIndex inside its log, and no       *)
(* closed channel is sent on.                                              *)
THEOREM NothingPanics ==
    ASSUME PromptReplies, ~TornReads, Stoppable = {}
    PROVE  Spec /\ [][~LateSend]_vars => []NoPanic
<1> DEFINE Quiet == stopped = {} /\ ~panicked
<1>1. Init => Quiet
  BY DEF Init
<1>2. TypeOK /\ LogInv /\ Quiet /\ [Next]_vars /\ [~LateSend]_vars => Quiet'
  <2> SUFFICES ASSUME TypeOK, LogInv, Quiet, [Next]_vars, [~LateSend]_vars
               PROVE  Quiet'
    OBVIOUS
  <2>1. PICK lead, winner, won : Fits(lead, winner, won)
    BY DEF LogInv
  <2>2. ASSUME NEW c \in appendCalls, SendAppendEntries(c) PROVE Quiet'
    <3>1. Leads(c.caller, c.term)
      BY <2>2, SendsMove DEF LateSend
    <3>2. winner[c.term] = c.caller /\ c.peer # c.caller
      BY <2>1 DEF Fits, CallKnown
    <3>3. c.caller \in Server /\ c.peer \in Peers(c.caller)
      BY <3>2 DEF TypeOK, AppendCall, Peers
    <3>4. nextIndex[c.caller][c.peer] \in 0..Len(log[c.caller])
      BY <2>1, <3>1, <3>3 DEF Fits, PeerKnown, Leads
    <3> QED BY <2>2, <3>4 DEF SendAppendEntries
  <2>3. ASSUME NEW c \in appendCalls, AppendEntries(c) PROVE Quiet'
    BY <2>3 DEF AppendEntries, AcceptEntries, NotifyCommit, logVars
  <2>4. ASSUME NEW c \in appendCalls, HandleAppendReply(c) PROVE Quiet'
    BY <2>4 DEF HandleAppendReply, AdvanceCommit, NotifyCommit
  <2>5. \A i \in Server : ~Stop(i)
    BY DEF Stop
  <2>6. CASE UNCHANGED <<stopped, panicked>>
    BY <2>6
  <2> HIDE DEF Quiet
  <2> QED BY <2>2, <2>3, <2>4, <2>5, <2>6
          DEF Next, vars, ElectionTimeout, LeaderSendHeartbeats, Submit,
              SendRequestVote, RequestVote, RequestVoteAtDead, HandleVoteReply,
              AppendEntriesAtDead, AppendEntriesFails
<1>3. Quiet => NoPanic
  BY DEF NoPanic
<1> HIDE DEF Quiet
<1> QED BY <1>1, <1>2, <1>3, LogInvariant, TypeCorrect, PTL DEF Spec
=============================================================================
