--------------------- MODULE ReplicationRefinement_proofs -------------------
(***************************************************************************)
(* Replication implements CommittedLog. The two facts behind it are those  *)
(* of CommitSafety_proofs: servers agree about what is committed, and what *)
(* a server takes to be committed stays at its place in the server's log.  *)
(***************************************************************************)
EXTENDS ReplicationRefinement, CommitSafety_proofs

(* The most commits of any server are the commits of some server.          *)
HasForemost == \E f \in Server : \A j \in Server : commitIndex[j] <= commitIndex[f]

LEMMA ForemostIsForemost ==
    ASSUME HasForemost
    PROVE  Foremost \in Server /\ \A j \in Server : commitIndex[j] <= commitIndex[Foremost]
BY DEF HasForemost, Foremost

(* One server at a time learns of commits.                                 *)
LEMMA OneCommitIndex ==
    ASSUME TypeOK, [Next]_vars
    PROVE  \/ UNCHANGED commitIndex
           \/ \E r \in Server : \A j \in Server \ {r} : commitIndex'[j] = commitIndex[j]
<1> USE DEF serverVars, logVars, leaderVars
<1>1. ASSUME NEW c \in appendCalls, AppendEntries(c), ~UNCHANGED commitIndex
      PROVE  \A j \in Server \ {c.peer} : commitIndex'[j] = commitIndex[j]
  <2>1. AcceptEntries(c)
    BY <1>1 DEF AppendEntries
  <2>2. \E n : commitIndex' = [commitIndex EXCEPT ![c.peer] = n]
    BY <1>1, <2>1 DEF AcceptEntries
  <2> QED BY <2>2 DEF TypeOK
<1>2. ASSUME NEW c \in appendCalls, HandleAppendReply(c), ~UNCHANGED commitIndex
      PROVE  \A j \in Server \ {c.caller} : commitIndex'[j] = commitIndex[j]
  <2>1. \E match : AdvanceCommit(c.caller, match)
    BY <1>2 DEF HandleAppendReply
  <2>2. \E n : commitIndex' = [commitIndex EXCEPT ![c.caller] = n]
    BY <1>2, <2>1 DEF AdvanceCommit
  <2> QED BY <2>2 DEF TypeOK
<1>3. \A c \in appendCalls : c.peer \in Server /\ c.caller \in Server
  BY DEF TypeOK, AppendCall
<1>4. CASE UNCHANGED commitIndex
  BY <1>4
<1> QED BY <1>1, <1>2, <1>3, <1>4
        DEF Next, vars, ElectionTimeout, LeaderSendHeartbeats, Stop, Submit,
            SendRequestVote, RequestVote, RequestVoteAtDead, HandleVoteReply,
            SendAppendEntries, AppendEntriesAtDead, AppendEntriesFails

LEMMA ForemostStep ==
    ASSUME TypeOK, TypeOK', HasForemost, [Next]_vars,
           \A i \in Server : commitIndex'[i] >= commitIndex[i]
    PROVE  HasForemost'
<1>1. PICK f \in Server : \A j \in Server : commitIndex[j] <= commitIndex[f]
  BY DEF HasForemost
<1>2. CASE UNCHANGED commitIndex
  BY <1>1, <1>2 DEF HasForemost
<1>3. ASSUME NEW r \in Server, \A j \in Server \ {r} : commitIndex'[j] = commitIndex[j]
      PROVE  HasForemost'
  <2>1. \A j \in Server : commitIndex[j] \in Int /\ commitIndex'[j] \in Int
    <3>1. /\ \A j \in Server : commitIndex[j] \in Nat \cup {-1}
          /\ \A j \in Server : commitIndex'[j] \in Nat \cup {-1}
      BY DEF TypeOK
    <3> QED BY <3>1
  <2>2. CASE commitIndex'[r] <= commitIndex'[f]
    <3>1. \A j \in Server : commitIndex'[j] <= commitIndex'[f]
      BY <1>1, <1>3, <2>1, <2>2
    <3> QED BY <3>1 DEF HasForemost
  <2>3. CASE commitIndex'[r] > commitIndex'[f]
    <3>1. \A j \in Server : commitIndex'[j] <= commitIndex'[r]
      BY <1>1, <1>3, <2>1, <2>3
    <3> QED BY <3>1 DEF HasForemost
  <2>4. commitIndex'[r] <= commitIndex'[f] \/ commitIndex'[r] > commitIndex'[f]
    BY <2>1
  <2> QED BY <2>2, <2>3, <2>4
<1> QED BY <1>2, <1>3, OneCommitIndex

-----------------------------------------------------------------------------
(* A log up to a commitIndex, as a sequence.                               *)
LEMMA PrefixEntries ==
    ASSUME NEW l \in Seq(Entry), NEW n \in Nat, n <= Len(l)
    PROVE  /\ SubSeq(l, 1, n) \in Seq(Entry) /\ Len(SubSeq(l, 1, n)) = n
           /\ \A k \in 1..n : SubSeq(l, 1, n)[k] = l[k]
<1>1. Len(l) \in Nat /\ \A k \in 1..Len(l) : l[k] \in Entry
  BY LenProperties, ElementOfSeq
<1>2. SubSeq(l, 1, n) = [k \in 1..n |-> l[k]]
  BY <1>1
<1>3. [k \in 1..n |-> l[k]] \in [1..n -> Entry]
  BY <1>1
<1>4. SubSeq(l, 1, n) \in Seq(Entry) /\ Len(SubSeq(l, 1, n)) = n
  BY <1>1, <1>2, <1>3, SubSeqProperties
<1> QED BY <1>2, <1>4

(* Prefixes of logs that agree are the same.                               *)
LEMMA SamePrefix ==
    ASSUME NEW l1 \in Seq(Entry), NEW l2 \in Seq(Entry), NEW n \in Nat, NEW m \in Nat,
           n <= m, m <= Len(l2), n <= Len(l1), \A k \in 1..n : l1[k] = l2[k]
    PROVE  SubSeq(SubSeq(l2, 1, m), 1, n) = SubSeq(l1, 1, n)
<1>1. PICK p : p = SubSeq(l2, 1, m)
  OBVIOUS
<1>2. p \in Seq(Entry) /\ Len(p) = m /\ \A k \in 1..m : p[k] = l2[k]
  BY <1>1, PrefixEntries
<1>3. SubSeq(p, 1, n) = [k \in 1..n |-> p[k]]
  BY <1>2
<1>4. SubSeq(l1, 1, n) = [k \in 1..n |-> l1[k]]
  OBVIOUS
<1>5. \A k \in 1..n : p[k] = l1[k]
  BY <1>2
<1> QED BY <1>1, <1>3, <1>4, <1>5

(* What StateMachineSafety says of logs up to a commitIndex.               *)
LEMMA CommitsInLog ==
    ASSUME TypeOK, StateMachineSafety, NEW i \in Server
    PROVE  /\ log[i] \in Seq(Entry) /\ Len(log[i]) \in Nat
           /\ commitIndex[i] + 1 \in Nat /\ commitIndex[i] + 1 <= Len(log[i])
<1>1. /\ log[i] \in Seq(Entry) /\ Len(log[i]) \in Nat
      /\ commitIndex[i] \in Nat \cup {-1}
  BY LenProperties DEF TypeOK
<1>2. CASE commitIndex[i] \in Nat
  <2>1. commitIndex[i] \in 0..commitIndex[i]
    BY <1>2
  <2>2. Holds(i, commitIndex[i])
    BY <1>2, <2>1 DEF StateMachineSafety, SameEntry
  <2> QED BY <1>1, <1>2, <2>2 DEF Holds
<1> QED BY <1>1, <1>2

Prefixes(logs, n) == [i \in Server |-> SubSeq(logs[i], 1, n[i])]

(* CommittedLog's step, of readers K that know the most at f, then at g.   *)
OneLearns(K1, K2, f, g, r) ==
    /\ Len(K2[g]) >= Len(K1[f]) /\ SubSeq(K2[g], 1, Len(K1[f])) = K1[f]
    /\ \/ K2 = K1
       \/ \E n \in (Len(K1[r]) + 1)..Len(K2[g]) :
             K2 = [K1 EXCEPT ![r] = SubSeq(K2[g], 1, n)]

(* The mapped state changes as CommittedLog says, when a step changes one  *)
(* commitIndex and keeps what was committed.                               *)
LEMMA OneLogStep ==
    ASSUME NEW log1 \in [Server -> Seq(Entry)], NEW log2 \in [Server -> Seq(Entry)],
           NEW n1 \in [Server -> Nat], NEW n2 \in [Server -> Nat],
           NEW f \in Server, NEW g \in Server,
           \A i \in Server : n1[i] <= Len(log1[i]) /\ n2[i] <= Len(log2[i]),
           \A i \in Server : n1[i] <= n1[f] /\ n2[i] <= n2[g],
           \A i \in Server : n1[i] <= n2[i] /\ Agree(log1[i], log2[i], n1[i]),
           \A i \in Server : \A k \in 1..n2[i] : log2[i][k] = log2[g][k],
           NEW r \in Server, \A i \in Server \ {r} : n2[i] = n1[i],
           NEW K1, K1 = Prefixes(log1, n1), NEW K2, K2 = Prefixes(log2, n2)
    PROVE  OneLearns(K1, K2, f, g, r)
<1> USE DEF OneLearns
<1>1. \A i \in Server : /\ Len(log1[i]) \in Nat /\ Len(log2[i]) \in Nat
                        /\ log1[i] \in Seq(Entry) /\ log2[i] \in Seq(Entry)
  BY LenProperties
<1>2. \A i \in Server : n1[i] \in Nat /\ n2[i] \in Nat
  OBVIOUS
<1>3. \A i \in Server : /\ K1[i] = SubSeq(log1[i], 1, n1[i]) /\ Len(K1[i]) = n1[i]
                        /\ K2[i] = SubSeq(log2[i], 1, n2[i]) /\ Len(K2[i]) = n2[i]
  <2> SUFFICES ASSUME NEW i \in Server
               PROVE  /\ K1[i] = SubSeq(log1[i], 1, n1[i]) /\ Len(K1[i]) = n1[i]
                      /\ K2[i] = SubSeq(log2[i], 1, n2[i]) /\ Len(K2[i]) = n2[i]
    OBVIOUS
  <2>1. K1[i] = SubSeq(log1[i], 1, n1[i]) /\ K2[i] = SubSeq(log2[i], 1, n2[i])
    BY DEF Prefixes
  <2>2. Len(SubSeq(log1[i], 1, n1[i])) = n1[i] /\ Len(SubSeq(log2[i], 1, n2[i])) = n2[i]
    BY <1>1, <1>2, PrefixEntries
  <2> QED BY <2>1, <2>2
<1>4. Len(K2[g]) >= Len(K1[f])
  <2>1. n1[f] <= n2[f] /\ n2[f] <= n2[g]
    OBVIOUS
  <2>2. n1[f] \in Nat /\ n2[f] \in Nat /\ n2[g] \in Nat
    BY <1>2
  <2>3. Len(K1[f]) = n1[f] /\ Len(K2[g]) = n2[g]
    BY <1>3
  <2> QED BY <2>1, <2>2, <2>3
<1>5. SubSeq(K2[g], 1, Len(K1[f])) = K1[f]
  <2>1. \A k \in 1..n1[f] : log1[f][k] = log2[g][k]
    <3> SUFFICES ASSUME NEW k \in 1..n1[f] PROVE log1[f][k] = log2[g][k]
      OBVIOUS
    <3>1. log1[f][k] = log2[f][k]
      BY DEF Agree
    <3>2. k \in 1..n2[f]
      BY <1>2
    <3> QED BY <3>1, <3>2
  <2>2. /\ K1[f] = SubSeq(log1[f], 1, n1[f]) /\ Len(K1[f]) = n1[f]
        /\ K2[g] = SubSeq(log2[g], 1, n2[g]) /\ Len(K2[g]) = n2[g]
    BY <1>3
  <2>3. n1[f] <= n2[g] /\ n2[g] <= Len(log2[g]) /\ n1[f] <= Len(log1[f])
    BY <1>4, <2>2
  <2>4. PICK l1, l2, n, m : l1 = log1[f] /\ l2 = log2[g] /\ n = n1[f] /\ m = n2[g]
    OBVIOUS
  <2>5. l1 \in Seq(Entry) /\ l2 \in Seq(Entry) /\ n \in Nat /\ m \in Nat
    BY <1>1, <1>2, <2>4
  <2>6. SubSeq(SubSeq(l2, 1, m), 1, n) = SubSeq(l1, 1, n)
    BY <2>1, <2>3, <2>4, <2>5, SamePrefix, SMTT(30)
  <2> QED BY <2>2, <2>4, <2>6
<1>6. ASSUME NEW i \in Server, n2[i] = n1[i] PROVE K2[i] = K1[i]
  <2>1. \A k \in 1..n1[i] : log1[i][k] = log2[i][k]
    BY DEF Agree
  <2>2. SubSeq(log1[i], 1, n1[i]) = [k \in 1..n1[i] |-> log1[i][k]]
    BY <1>1, <1>2, SMTT(30)
  <2>3. SubSeq(log2[i], 1, n1[i]) = [k \in 1..n1[i] |-> log2[i][k]]
    BY <1>1, <1>2, SMTT(30)
  <2>4. [k \in 1..n1[i] |-> log1[i][k]] = [k \in 1..n1[i] |-> log2[i][k]]
    BY <2>1
  <2>5. K1[i] = SubSeq(log1[i], 1, n1[i]) /\ K2[i] = SubSeq(log2[i], 1, n1[i])
    BY <1>3, <1>6
  <2> QED BY <2>2, <2>3, <2>4, <2>5
<1>7. K1 \in [Server -> Seq(Entry)] /\ K2 \in [Server -> Seq(Entry)]
  BY <1>1, <1>2, PrefixEntries DEF Prefixes
<1>8. CASE n2[r] = n1[r]
  <2>1. \A i \in Server : K2[i] = K1[i]
    BY <1>6, <1>8
  <2> QED BY <1>4, <1>5, <1>7, <2>1, SMTT(30)
<1>9. CASE n2[r] # n1[r]
  <2>1. n2[r] \in (Len(K1[r]) + 1)..Len(K2[g])
    <3>1. n1[r] <= n2[r] /\ n2[r] <= n2[g]
      OBVIOUS
    <3>2. n1[r] \in Nat /\ n2[r] \in Nat /\ n2[g] \in Nat
      BY <1>2
    <3>3. Len(K1[r]) = n1[r] /\ Len(K2[g]) = n2[g]
      BY <1>3
    <3> QED BY <1>9, <3>1, <3>2, <3>3
  <2>2. K2[r] = SubSeq(K2[g], 1, n2[r])
    <3>1. n2[r] <= n2[g] /\ n2[g] <= Len(log2[g]) /\ n2[r] <= Len(log2[r])
      OBVIOUS
    <3>2. \A k \in 1..n2[r] : log2[r][k] = log2[g][k]
      OBVIOUS
    <3>3. PICK l1, l2, n, m : l1 = log2[r] /\ l2 = log2[g] /\ n = n2[r] /\ m = n2[g]
      OBVIOUS
    <3>4. l1 \in Seq(Entry) /\ l2 \in Seq(Entry) /\ n \in Nat /\ m \in Nat
      BY <1>1, <1>2, <3>3
    <3>5. SubSeq(SubSeq(l2, 1, m), 1, n) = SubSeq(l1, 1, n)
      BY <3>1, <3>2, <3>3, <3>4, SamePrefix, SMTT(30)
    <3>6. K2[g] = SubSeq(log2[g], 1, n2[g]) /\ K2[r] = SubSeq(log2[r], 1, n2[r])
      BY <1>3
    <3> QED BY <3>3, <3>5, <3>6
  <2>3. \A i \in Server \ {r} : K2[i] = K1[i]
    BY <1>6
  <2>4. K2 = [K1 EXCEPT ![r] = SubSeq(K2[g], 1, n2[r])]
    BY <1>7, <2>2, <2>3
  <2> QED BY <1>4, <1>5, <2>1, <2>4
<1> QED BY <1>8, <1>9

LEMMA RefinementInit == ASSUME Server # {}, Init PROVE OneLog!Init
<1>1. PICK f : f = Foremost
  OBVIOUS
<1>2. HasForemost
  BY DEF HasForemost, Init
<1>3. f \in Server
  BY <1>1, <1>2, ForemostIsForemost
<1>4. \A i \in Server : log[i] = <<>> /\ commitIndex[i] + 1 = 0
  BY DEF Init
<1>5. \A i \in Server : CommittedPrefix(i) = <<>>
  BY <1>4, SubSeqEmpty DEF CommittedPrefix
<1>6. CommittedPrefix(f) = <<>> /\ [i \in Server |-> CommittedPrefix(i)] = [i \in Server |-> <<>>]
  BY <1>3, <1>5
<1> QED BY <1>1, <1>6 DEF OneLog!Init

LEMMA RefinementStep ==
    ASSUME TypeOK, TypeOK', StateMachineSafety, StateMachineSafety',
           HasForemost, HasForemost', [Next]_vars,
           \A i \in Server : /\ commitIndex'[i] >= commitIndex[i]
                             /\ \A k \in 0..commitIndex[i] :
                                   k < Len(log'[i]) /\ log'[i][k + 1] = log[i][k + 1]
    PROVE  OneLog!Next \/ UNCHANGED <<CommittedPrefix(Foremost),
                                      [i \in Server |-> CommittedPrefix(i)]>>
<1>1. PICK f, g : f = Foremost /\ g = Foremost'
  OBVIOUS
<1>2. /\ f \in Server /\ \A i \in Server : commitIndex[i] <= commitIndex[f]
      /\ g \in Server /\ \A i \in Server : commitIndex'[i] <= commitIndex'[g]
  <2>1. f \in Server /\ \A i \in Server : commitIndex[i] <= commitIndex[f]
    BY <1>1, ForemostIsForemost
  <2>2. g \in Server /\ \A i \in Server : commitIndex'[i] <= commitIndex'[g]
    BY <1>1 DEF HasForemost, Foremost
  <2> QED BY <2>1, <2>2
<1>3. PICK log1, log2, n1, n2 :
          /\ log1 = log /\ n1 = [i \in Server |-> commitIndex[i] + 1]
          /\ log2 = log' /\ n2 = [i \in Server |-> commitIndex'[i] + 1]
  OBVIOUS
<1>4. /\ log1 \in [Server -> Seq(Entry)] /\ log2 \in [Server -> Seq(Entry)]
  BY <1>3 DEF TypeOK
<1>5. \A i \in Server : /\ Len(log1[i]) \in Nat /\ commitIndex[i] \in Nat \cup {-1}
                        /\ n1[i] = commitIndex[i] + 1
                        /\ n1[i] \in Nat /\ n1[i] <= Len(log1[i])
  BY <1>3, CommitsInLog DEF TypeOK
<1>6. \A i \in Server : /\ Len(log2[i]) \in Nat /\ commitIndex'[i] \in Nat \cup {-1}
                        /\ n2[i] = commitIndex'[i] + 1
                        /\ n2[i] \in Nat /\ n2[i] <= Len(log2[i])
  <2> SUFFICES ASSUME NEW i \in Server
               PROVE  /\ Len(log2[i]) \in Nat /\ commitIndex'[i] \in Nat \cup {-1}
                      /\ n2[i] = commitIndex'[i] + 1
                      /\ n2[i] \in Nat /\ n2[i] <= Len(log2[i])
    OBVIOUS
  <2>1. Len(log2[i]) \in Nat /\ commitIndex'[i] \in Nat \cup {-1}
    BY <1>3, <1>4, LenProperties DEF TypeOK
  <2>2. n2[i] = commitIndex'[i] + 1
    BY <1>3
  <2>3. CASE commitIndex'[i] \in Nat
    <3>1. commitIndex'[i] \in 0..commitIndex'[i]
      BY <2>3
    <3>2. commitIndex'[i] < Len(log'[i])
      BY <2>3, <3>1 DEF StateMachineSafety, SameEntry, Holds
    <3> QED BY <1>3, <2>1, <2>2, <2>3, <3>2
  <2> QED BY <2>1, <2>2, <2>3
<1>7. n1 \in [Server -> Nat] /\ n2 \in [Server -> Nat]
  BY <1>3, <1>5, <1>6
<1>8. \A i \in Server : n1[i] <= n1[f] /\ n2[i] <= n2[g]
  <2> SUFFICES ASSUME NEW i \in Server PROVE n1[i] <= n1[f] /\ n2[i] <= n2[g]
    OBVIOUS
  <2>1. n1[i] <= n1[f]
    BY <1>2, <1>5, SMTT(30)
  <2>2. n2[i] <= n2[g]
    <3>1. /\ n2[i] = commitIndex'[i] + 1 /\ n2[g] = commitIndex'[g] + 1
          /\ commitIndex'[i] \in Int /\ commitIndex'[g] \in Int
      BY <1>2, <1>6
    <3>2. commitIndex'[i] <= commitIndex'[g]
      BY <1>2
    <3> QED BY <3>1, <3>2
  <2> QED BY <2>1, <2>2
<1>9. \A i \in Server : n1[i] <= n2[i] /\ Agree(log1[i], log2[i], n1[i])
  <2> SUFFICES ASSUME NEW i \in Server
               PROVE  n1[i] <= n2[i] /\ Agree(log1[i], log2[i], n1[i])
    OBVIOUS
  <2>1. n1[i] <= n2[i]
    BY <1>5, <1>6
  <2>2. ASSUME NEW k \in 1..n1[i] PROVE k <= Len(log2[i]) /\ log1[i][k] = log2[i][k]
    <3>1. k - 1 \in 0..commitIndex[i] /\ (k - 1) + 1 = k /\ k \in Nat
      BY <1>5
    <3>2. k - 1 < Len(log'[i]) /\ log'[i][k] = log[i][k]
      BY <3>1
    <3> QED BY <1>3, <1>6, <3>1, <3>2
  <2>3. n1[i] <= Len(log2[i])
    BY <1>5, <1>6, <2>1
  <2> QED BY <1>5, <2>1, <2>2, <2>3 DEF Agree
<1>10. \A i \in Server : \A k \in 1..n2[i] : log2[i][k] = log2[g][k]
  <2> SUFFICES ASSUME NEW i \in Server, NEW k \in 1..n2[i]
               PROVE  log2[i][k] = log2[g][k]
    OBVIOUS
  <2>1. k - 1 \in 0..commitIndex'[i] /\ (k - 1) + 1 = k /\ k - 1 <= commitIndex'[g]
    BY <1>2, <1>6, SMTT(30)
  <2>2. log'[i][(k - 1) + 1] = log'[g][(k - 1) + 1]
    BY <1>2, <2>1 DEF StateMachineSafety, SameEntry
  <2> QED BY <1>3, <2>1, <2>2
<1>11. PICK r \in Server : \A i \in Server \ {r} : n2[i] = n1[i]
  <2>1. PICK r \in Server : \A i \in Server \ {r} : commitIndex'[i] = commitIndex[i]
    BY <1>2, OneCommitIndex
  <2>2. \A i \in Server \ {r} : n2[i] = n1[i]
    BY <1>5, <1>6, <2>1
  <2> QED BY <2>2
<1>12. PICK K1, K2 : K1 = Prefixes(log1, n1) /\ K2 = Prefixes(log2, n2)
  OBVIOUS
<1>13. /\ Len(K2[g]) >= Len(K1[f]) /\ SubSeq(K2[g], 1, Len(K1[f])) = K1[f]
       /\ \/ K2 = K1
          \/ \E n \in (Len(K1[r]) + 1)..Len(K2[g]) :
                K2 = [K1 EXCEPT ![r] = SubSeq(K2[g], 1, n)]
  <2>1. \A i \in Server : n1[i] <= Len(log1[i]) /\ n2[i] <= Len(log2[i])
    BY <1>5, <1>6
  <2>2. f \in Server /\ g \in Server
    BY <1>2
  <2>3. OneLearns(K1, K2, f, g, r)
    BY ONLY <1>4, <1>7, <1>8, <1>9, <1>10, <1>11, <1>12, <2>1, <2>2, OneLogStep
  <2> QED BY <2>3 DEF OneLearns
<1>14. K1 = [i \in Server |-> CommittedPrefix(i)] /\ K1[f] = CommittedPrefix(Foremost)
  <2>1. K1 = [i \in Server |-> CommittedPrefix(i)]
    BY <1>3, <1>5, <1>12 DEF Prefixes, CommittedPrefix
  <2> QED BY <1>1, <1>2, <2>1
<1>15. K2 = [i \in Server |-> CommittedPrefix(i)]' /\ K2[g] = CommittedPrefix(Foremost)'
  <2>1. K2 = [i \in Server |-> CommittedPrefix(i)]'
    BY <1>3, <1>6, <1>12 DEF Prefixes, CommittedPrefix
  <2>2. K2[g] = SubSeq(log'[g], 1, commitIndex'[g] + 1)
    BY <1>2, <1>3, <1>6, <1>12 DEF Prefixes
  <2>3. CommittedPrefix(Foremost)' = SubSeq(log'[Foremost'], 1, commitIndex'[Foremost'] + 1)
    BY DEF CommittedPrefix
  <2> QED BY <1>1, <2>1, <2>2, <2>3
<1>16. OneLog!OnlyGrows
  BY <1>13, <1>14, <1>15 DEF OneLog!OnlyGrows
<1>17. CASE K2 = K1
  BY <1>14, <1>15, <1>16, <1>17 DEF OneLog!Next, OneLog!Commit
<1>18. ASSUME NEW n \in (Len(K1[r]) + 1)..Len(K2[g]),
              K2 = [K1 EXCEPT ![r] = SubSeq(K2[g], 1, n)]
       PROVE  OneLog!Learn(r)
  BY <1>14, <1>15, <1>16, <1>18 DEF OneLog!Learn
<1> QED BY <1>13, <1>17, <1>18 DEF OneLog!Next

(* All servers apply the same committed entries in the same order: every   *)
(* behaviour of the consensus modules is, seen through their commit        *)
(* indices, one of readers of a single log that only grows.                *)
THEOREM ReplicationImplementsCommittedLog ==
    ASSUME Server # {}, PromptReplies, ~TornReads
    PROVE  Spec /\ [][~LateSend]_vars => ImplementsCommittedLog
<1> DEFINE Stable == \A i \in Server :
        /\ commitIndex'[i] >= commitIndex[i]
        /\ \A k \in 0..commitIndex[i] :
              k < Len(log'[i]) /\ log'[i][k + 1] = log[i][k + 1]
<1>1. Init => HasForemost /\ OneLog!Init
  <2>1. Init => HasForemost
    BY DEF Init, HasForemost
  <2> QED BY <2>1, RefinementInit
<1>2. TypeOK /\ TypeOK' /\ HasForemost /\ [Next]_vars /\ [Stable]_vars => HasForemost'
  <2> SUFFICES ASSUME TypeOK, TypeOK', HasForemost, [Next]_vars, [Stable]_vars
               PROVE  HasForemost'
    OBVIOUS
  <2>1. CASE Stable
    BY <2>1, ForemostStep
  <2>2. CASE UNCHANGED vars
    BY <2>2 DEF vars, logVars, HasForemost
  <2> QED BY <2>1, <2>2
<1>3. TypeOK /\ TypeOK' /\ StateMachineSafety /\ StateMachineSafety'
      /\ HasForemost /\ HasForemost' /\ [Next]_vars /\ [Stable]_vars
         => OneLog!Next \/ UNCHANGED <<CommittedPrefix(Foremost),
                                       [i \in Server |-> CommittedPrefix(i)]>>
  <2> SUFFICES ASSUME TypeOK, TypeOK', StateMachineSafety, StateMachineSafety',
                      HasForemost, HasForemost', [Next]_vars, [Stable]_vars
               PROVE  OneLog!Next \/ UNCHANGED <<CommittedPrefix(Foremost),
                                       [i \in Server |-> CommittedPrefix(i)]>>
    OBVIOUS
  <2>1. CASE Stable
    BY <2>1, RefinementStep
  <2>2. CASE UNCHANGED vars
    BY <2>2 DEF vars, logVars, CommittedPrefix, Foremost
  <2> QED BY <2>1, <2>2
<1>4. CommittedPrefixStable => [][Stable]_vars
  BY DEF CommittedPrefixStable
<1> HIDE DEF Stable
<1> QED BY <1>1, <1>2, <1>3, <1>4, CommittedEntriesAgree, CommittedPrefixesStable,
           TypeCorrect, PTL
        DEF Spec, ImplementsCommittedLog, OneLog!Spec
=============================================================================
