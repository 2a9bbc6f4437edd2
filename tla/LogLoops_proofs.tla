--------------------------- MODULE LogLoops_proofs --------------------------
(***************************************************************************)
(* The loops of LogLoops compute what LogOps says, for logs and clusters   *)
(* of every size. Each theorem has the loop's invariant: what has been     *)
(* found out of the part of the log that the loop has passed.              *)
(***************************************************************************)
EXTENDS LogLoops, FiniteSetTheorems, SequenceTheorems, TLAPS

LogEntry == [command : {"old", "new"}, term : Nat]

InsertInput ==
    /\ input.log \in Seq(LogEntry) /\ input.entries \in Seq(LogEntry)
    /\ input.prevLogIndex \in -1..(Len(input.log) - 1)

(* The insertion loop has passed newEntriesIndex entries that agree.       *)
InsertInv ==
    /\ pc = "insert" =>
          /\ InsertInput
          /\ log = input.log
          /\ newEntriesIndex \in 0..Len(input.entries)
          /\ logInsertIndex = input.prevLogIndex + 1 + newEntriesIndex
          /\ Agrees(log, input.prevLogIndex, input.entries, newEntriesIndex)
    /\ InsertsAsSpliced

Found == Committable(log, input.commitIndex, input.currentTerm,
                     input.matchIndex, input.peerIds)

(* c is the last index below n that was found, or what it was before.      *)
LastBelow(n, found, before, c) ==
    IF \A k \in found : k >= n THEN c = before
    ELSE c \in found /\ c < n /\ \A k \in found : k < n => k <= c

ScanInput ==
    /\ log \in Seq(LogEntry)
    /\ input.commitIndex \in -1..(Len(log) - 1)
    /\ input.peerIds \subseteq AllPeers
    /\ input.matchIndex \in [input.peerIds -> Int]

Counted == {p \in input.peerIds \ uncounted : input.matchIndex[p] >= i}

(* The scan has looked at the indices below i, and commitIndex is right    *)
(* for them; peers are counted in any order.                               *)
ScanInv ==
    /\ pc \in {"scan", "count"} =>
          /\ ScanInput
          /\ i \in (input.commitIndex + 1)..Len(log)
          /\ LastBelow(i, Found, input.commitIndex, commitIndex)
    /\ pc = "count" =>
          /\ i < Len(log) /\ EntryTerm(log, i) = input.currentTerm
          /\ uncounted \subseteq input.peerIds
          /\ matchCount = 1 + Cardinality(Counted)
    /\ ScanFindsLastCommittable

-----------------------------------------------------------------------------
LEMMA EntriesAreLogs ==
    ASSUME NEW command \in {"old", "new"}, NEW l \in Entries(command)
    PROVE  l \in Seq(LogEntry) /\ Len(l) \in Nat
<1>1. PICK n \in 0..MaxLen : l \in [1..n -> [command : {command}, term : Terms]]
  BY DEF Entries
<1>2. n \in Nat
  BY LoopsAssumption
<1>3. [command : {command}, term : Terms] \subseteq LogEntry
  BY LoopsAssumption DEF LogEntry
<1>4. l \in [1..n -> LogEntry]
  BY <1>1, <1>3
<1>5. l \in Seq(LogEntry)
  BY <1>2, <1>4
<1> QED BY <1>5, LenProperties

(* What follows the insertion loop, when it has stopped for good.          *)
LEMMA SpliceAfterLoop ==
    ASSUME NEW l \in Seq(LogEntry), NEW new \in Seq(LogEntry), NEW prev \in -1..(Len(l) - 1),
           NEW n \in 0..Len(new), Agrees(l, prev, new, n),
           ~(/\ prev + 1 + n < Len(l) /\ n < Len(new)
             /\ l[prev + 1 + n + 1].term = new[n + 1].term)
    PROVE  Spliced(l, prev, new) =
              IF n >= Len(new) THEN l
              ELSE SubSeq(l, 1, prev + 1 + n) \o SubSeq(new, n + 1, Len(new))
<1>1. Len(l) \in Nat /\ Len(new) \in Nat /\ n \in Nat /\ prev + 1 \in Nat /\ prev \in Int
  BY LenProperties
<1>2. CASE n >= Len(new)
  <2>1. n = Len(new)
    BY <1>1, <1>2
  <2> QED BY <1>2, <2>1 DEF Spliced
<1>3. CASE n < Len(new)
  <2>1. \A k \in Nat : k > n /\ k <= Len(new) => ~Agrees(l, prev, new, k)
    <3> SUFFICES ASSUME NEW k \in Nat, k > n, k <= Len(new), Agrees(l, prev, new, k)
                 PROVE  FALSE
      OBVIOUS
    <3>1. n + 1 \in 1..k
      BY <1>1
    <3>2. l[prev + 1 + (n + 1)].term = new[n + 1].term /\ prev + 1 + k <= Len(l)
      BY <3>1 DEF Agrees
    <3>3. prev + 1 + (n + 1) = prev + 1 + n + 1 /\ prev + 1 + n < Len(l)
      BY <1>1, <3>2
    <3> QED BY <1>3, <3>2, <3>3
  <2>2. \A k \in 0..n : Agrees(l, prev, new, k)
    BY <1>1 DEF Agrees
  <2>3. ~Agrees(l, prev, new, Len(new))
    BY <1>1, <1>3, <2>1
  <2>4. PICK p : p = prev + 1 + n
    OBVIOUS
  <2>5. p \in Nat /\ p <= Len(l)
    BY <1>1, <2>4 DEF Agrees
  <2>6. PICK s, t : s = SubSeq(l, 1, p) /\ t = SubSeq(new, n + 1, Len(new))
    OBVIOUS
  <2>7. /\ s \in Seq(LogEntry) /\ Len(s) = p /\ \A k \in 1..p : s[k] = l[k]
    <3>1. \A k \in 1..p : l[k] \in LogEntry
      BY <1>1, <2>5, ElementOfSeq
    <3>2. /\ SubSeq(l, 1, p) \in Seq(LogEntry)
          /\ Len(SubSeq(l, 1, p)) = IF 1 <= p THEN p - 1 + 1 ELSE 0
          /\ \A k \in 1..(p - 1 + 1) : SubSeq(l, 1, p)[k] = l[1 + k - 1]
      BY <2>5, <3>1, SubSeqProperties
    <3>3. p - 1 + 1 = p /\ (IF 1 <= p THEN p - 1 + 1 ELSE 0) = p
      BY <2>5
    <3>4. \A k \in 1..p : 1 + k - 1 = k
      OBVIOUS
    <3>5. \A k \in 1..p : s[k] = l[k]
      BY <2>6, <3>2, <3>3, <3>4
    <3> QED BY <2>6, <3>2, <3>3, <3>5
  <2>8. /\ t \in Seq(LogEntry) /\ Len(t) = Len(new) - n
        /\ \A k \in 1..(Len(new) - n) : t[k] = new[n + k]
    <3>1. \A k \in (n + 1)..Len(new) : new[k] \in LogEntry
      BY <1>1, ElementOfSeq
    <3>2. /\ SubSeq(new, n + 1, Len(new)) \in Seq(LogEntry)
          /\ Len(SubSeq(new, n + 1, Len(new))) =
                IF n + 1 <= Len(new) THEN Len(new) - (n + 1) + 1 ELSE 0
          /\ \A k \in 1..(Len(new) - (n + 1) + 1) :
                SubSeq(new, n + 1, Len(new))[k] = new[(n + 1) + k - 1]
      BY <1>1, <3>1, SubSeqProperties
    <3>3. Len(t) = Len(new) - n
      BY <1>1, <1>3, <2>6, <3>2
    <3>4. ASSUME NEW k \in 1..(Len(new) - n) PROVE t[k] = new[n + k]
      <4>1. k \in 1..(Len(new) - (n + 1) + 1) /\ (n + 1) + k - 1 = n + k
        BY <1>1
      <4> QED BY <2>6, <3>2, <4>1
    <3> QED BY <2>6, <3>2, <3>3, <3>4
  <2>9. s \o t = [k \in 1..(p + (Len(new) - n)) |-> IF k <= p THEN s[k] ELSE t[k - p]]
    <3>1. PICK w, m : w = s \o t /\ m = p + (Len(new) - n)
      OBVIOUS
    <3>2. /\ w \in Seq(LogEntry) /\ Len(w) = Len(s) + Len(t)
          /\ \A k \in 1..(Len(s) + Len(t)) :
                w[k] = IF k <= Len(s) THEN s[k] ELSE t[k - Len(s)]
      BY <2>7, <2>8, <3>1, ConcatProperties, ZenonT(30)
    <3>3. Len(s) + Len(t) = m
      BY <1>1, <2>5, <2>7, <2>8, <3>1
    <3>4. /\ w \in [1..m -> LogEntry]
          /\ \A k \in 1..m : w[k] = IF k <= p THEN s[k] ELSE t[k - p]
      BY <2>7, <3>2, <3>3, LenProperties
    <3>5. w = [k \in 1..m |-> IF k <= p THEN s[k] ELSE t[k - p]]
      BY <3>4
    <3> QED BY <3>1, <3>5
  <2>10. p + (Len(new) - n) = prev + 1 + Len(new)
    BY <1>1, <2>4
  <2>11. ASSUME NEW k \in 1..(prev + 1 + Len(new))
         PROVE  (IF \/ k <= prev + 1 \/ Agrees(l, prev, new, k - prev - 1)
                 THEN l[k] ELSE new[k - prev - 1]) =
                IF k <= p THEN s[k] ELSE t[k - p]
    <3>1. k \in Nat /\ k >= 1
      BY <1>1
    <3>2. CASE k <= p
      <4>1. k <= prev + 1 \/ k - prev - 1 \in 0..n
        BY <1>1, <2>4, <3>1, <3>2
      <4>2. k <= prev + 1 \/ Agrees(l, prev, new, k - prev - 1)
        BY <2>2, <4>1
      <4>3. s[k] = l[k]
        BY <2>5, <2>7, <3>1, <3>2
      <4> QED BY <3>2, <4>2, <4>3
    <3>3. CASE ~(k <= p)
      <4>1. /\ k - prev - 1 \in Nat /\ k - prev - 1 > n /\ k - prev - 1 <= Len(new)
            /\ ~(k <= prev + 1) /\ k - p \in 1..(Len(new) - n) /\ n + (k - p) = k - prev - 1
        BY <1>1, <2>4, <3>1, <3>3
      <4>2. ~Agrees(l, prev, new, k - prev - 1)
        BY <2>1, <4>1
      <4>3. t[k - p] = new[k - prev - 1]
        BY <2>8, <4>1
      <4> QED BY <3>3, <4>1, <4>2, <4>3
    <3> QED BY <3>2, <3>3
  <2>12. Spliced(l, prev, new) =
            [k \in 1..(prev + 1 + Len(new)) |->
               IF \/ k <= prev + 1 \/ Agrees(l, prev, new, k - prev - 1)
               THEN l[k] ELSE new[k - prev - 1]]
    BY <2>3 DEF Spliced
  <2>13. Spliced(l, prev, new) = s \o t
    BY <2>9, <2>10, <2>11, <2>12
  <2>14. ~(n >= Len(new))
    BY <1>1, <1>3
  <2> QED BY <2>4, <2>6, <2>13, <2>14
<1>4. n >= Len(new) \/ n < Len(new)
  BY <1>1
<1> QED BY <1>2, <1>3, <1>4

(* However the loop of AppendEntries breaks, what follows it leaves the    *)
(* log that Spliced says, and by which Replication takes one step.         *)
THEOREM InsertionCorrect == Spec => []InsertsAsSpliced
<1>1. Init => InsertInv
  <2> SUFFICES ASSUME Init PROVE InsertInv
    OBVIOUS
  <2>1. ASSUME StartInsert PROVE InsertInv
    <3>1. PICK prev \in -1..(Len(log) - 1), new \in Entries("new") :
             input = [prevLogIndex |-> prev, entries |-> new, log |-> log]
      BY <2>1 DEF StartInsert
    <3>2. /\ input.prevLogIndex = prev /\ input.entries = new /\ input.log = log
      BY <3>1
    <3>3. /\ log \in Seq(LogEntry) /\ Len(log) \in Nat
          /\ new \in Seq(LogEntry) /\ Len(new) \in Nat
      BY EntriesAreLogs DEF Init
    <3>4. InsertInput
      BY <3>2, <3>3 DEF InsertInput
    <3>5. /\ pc = "insert" /\ newEntriesIndex = 0 /\ logInsertIndex = prev + 1
      BY <2>1, <3>2 DEF StartInsert
    <3>6. Agrees(log, prev, new, 0)
      BY <3>3 DEF Agrees
    <3>7. /\ newEntriesIndex \in 0..Len(new) /\ logInsertIndex = prev + 1 + newEntriesIndex
      BY <3>3, <3>5
    <3> QED BY <3>2, <3>4, <3>5, <3>6, <3>7 DEF InsertInv, InsertsAsSpliced
  <2>2. ASSUME StartScan PROVE InsertInv
    BY <2>2 DEF StartScan, InsertInv, InsertsAsSpliced
  <2> QED BY <2>1, <2>2 DEF Init
<1>2. InsertInv /\ [Next]_vars => InsertInv'
  <2> SUFFICES ASSUME InsertInv, [Next]_vars PROVE InsertInv'
    OBVIOUS
  <2>1. ASSUME pc = "insert"
        PROVE  /\ Len(log) \in Nat /\ Len(input.entries) \in Nat
               /\ input.prevLogIndex \in Int /\ newEntriesIndex \in Nat
               /\ input.prevLogIndex + 1 \in Nat
    BY <2>1, LenProperties DEF InsertInv, InsertInput
  <2>2. ASSUME InsertNext PROVE InsertInv'
    <3>1. /\ pc = "insert" /\ StillEqual
          /\ logInsertIndex' = logInsertIndex + 1 /\ newEntriesIndex' = newEntriesIndex + 1
          /\ UNCHANGED <<pc, log, input>>
      BY <2>2 DEF InsertNext
    <3>2. PICK prev, new, n : prev = input.prevLogIndex /\ new = input.entries
                              /\ n = newEntriesIndex
      OBVIOUS
    <3>3. /\ Agrees(log, prev, new, n) /\ n \in 0..Len(new)
          /\ logInsertIndex = prev + 1 + n
          /\ prev + 1 + n < Len(log) /\ n < Len(new)
          /\ log[prev + 1 + n + 1].term = new[n + 1].term
      BY <3>1, <3>2 DEF InsertInv, StillEqual
    <3>4. /\ Len(log) \in Nat /\ Len(new) \in Nat /\ prev \in Int /\ n \in Nat
          /\ prev + 1 \in Nat
      BY <2>1, <3>1, <3>2
    <3>5. Agrees(log, prev, new, n + 1)
      <4>1. prev + 1 + (n + 1) <= Len(log)
        BY <3>3, <3>4
      <4>2. ASSUME NEW m \in 1..(n + 1) PROVE log[prev + 1 + m].term = new[m].term
        <5>1. m \in 1..n \/ m = n + 1
          BY <3>4
        <5>2. prev + 1 + (n + 1) = prev + 1 + n + 1
          BY <3>4
        <5> QED BY <3>3, <5>1, <5>2 DEF Agrees
      <4> QED BY <4>1, <4>2 DEF Agrees
    <3>6. n + 1 \in 0..Len(new) /\ logInsertIndex' = prev + 1 + (n + 1)
      BY <3>1, <3>3, <3>4
    <3>7. InsertInput' /\ log' = input'.log /\ pc' = "insert"
      BY <3>1 DEF InsertInv, InsertInput
    <3>8. Agrees(log', input'.prevLogIndex, input'.entries, newEntriesIndex')
      BY <3>1, <3>2, <3>5
    <3> QED BY <3>1, <3>2, <3>6, <3>7, <3>8 DEF InsertInv, InsertsAsSpliced
  <2>3. ASSUME InsertEnd PROVE InsertInv'
    <3>1. /\ pc = "insert" /\ ~StillEqual /\ pc' = "inserted" /\ UNCHANGED input
          /\ log' = IF NothingNew THEN log
                    ELSE SubSeq(log, 1, logInsertIndex) \o
                         SubSeq(input.entries, newEntriesIndex + 1, Len(input.entries))
      BY <2>3 DEF InsertEnd
    <3>2. PICK prev, new, n : prev = input.prevLogIndex /\ new = input.entries
                              /\ n = newEntriesIndex
      OBVIOUS
    <3>3. /\ log \in Seq(LogEntry) /\ new \in Seq(LogEntry) /\ log = input.log
          /\ prev \in -1..(Len(log) - 1) /\ n \in 0..Len(new)
          /\ Agrees(log, prev, new, n) /\ logInsertIndex = prev + 1 + n
      BY <3>1, <3>2 DEF InsertInv, InsertInput
    <3>4. ~(/\ prev + 1 + n < Len(log) /\ n < Len(new)
            /\ log[prev + 1 + n + 1].term = new[n + 1].term)
      BY <3>1, <3>2, <3>3 DEF StillEqual
    <3>5. log' = IF n >= Len(new) THEN log
                 ELSE SubSeq(log, 1, prev + 1 + n) \o SubSeq(new, n + 1, Len(new))
      BY <3>1, <3>2, <3>3 DEF NothingNew
    <3>6. log' = Spliced(log, prev, new)
      BY <3>3, <3>4, <3>5, SpliceAfterLoop
    <3>7. log' = Spliced(input'.log, input'.prevLogIndex, input'.entries)
      BY <3>1, <3>2, <3>3, <3>6
    <3> QED BY <3>1, <3>7 DEF InsertInv, InsertsAsSpliced
  <2>4. ASSUME ScanEntry \/ CountPeer \/ CountEnd \/ ScanEnd PROVE InsertInv'
    BY <2>4 DEF ScanEntry, CountPeer, CountEnd, ScanEnd, InsertInv, InsertsAsSpliced
  <2>5. CASE UNCHANGED vars
    BY <2>5 DEF vars, InsertInv, InsertInput, InsertsAsSpliced
  <2> QED BY <2>2, <2>3, <2>4, <2>5 DEF Next
<1>3. InsertInv => InsertsAsSpliced
  BY DEF InsertInv
<1> QED BY <1>1, <1>2, <1>3, PTL DEF Spec

-----------------------------------------------------------------------------
LEMMA LastStays ==
    ASSUME NEW found, found \subseteq Int, NEW n \in Int, n \notin found, NEW before, NEW c,
           LastBelow(n, found, before, c)
    PROVE  LastBelow(n + 1, found, before, c)
<1>1. \A k \in found : k < n <=> k < n + 1
  OBVIOUS
<1>2. \A k \in found : k >= n <=> k >= n + 1
  OBVIOUS
<1> QED BY <1>1, <1>2 DEF LastBelow

LEMMA LastFound ==
    ASSUME NEW found, found \subseteq Int, NEW n \in found, NEW before
    PROVE  LastBelow(n + 1, found, before, n)
BY DEF LastBelow

(* What the scan may find.                                                 *)
LEMMA FoundIs ==
    ASSUME ScanInput
    PROVE  /\ Found \subseteq Int /\ input.commitIndex \in Int /\ Len(log) \in Nat
           /\ IsFiniteSet(input.peerIds)
           /\ \A k \in Int : k \in Found <=>
                 /\ k >= input.commitIndex + 1 /\ k < Len(log)
                 /\ EntryTerm(log, k) = input.currentTerm
                 /\ 2 * (1 + Cardinality({p \in input.peerIds : input.matchIndex[p] >= k}))
                       > Cardinality(input.peerIds) + 1
<1>1. input.commitIndex \in Int /\ Len(log) \in Nat
  BY LenProperties DEF ScanInput
<1>2. IsFiniteSet(input.peerIds)
  BY LoopsAssumption, FS_Subset DEF ScanInput
<1>3. Found \subseteq Int
  BY <1>1 DEF Found, Committable
<1> QED BY <1>1, <1>2, <1>3 DEF Found, Committable

(* The scan of a leader leaves commitIndex at the last index that its new  *)
(* matchIndex allows to commit, and alone when there is none: Replication  *)
(* takes the scan in one step.                                             *)
THEOREM CommitScanCorrect == Spec => []ScanFindsLastCommittable
<1>1. Init => ScanInv
  <2> SUFFICES ASSUME Init PROVE ScanInv
    OBVIOUS
  <2>1. ASSUME StartInsert PROVE ScanInv
    BY <2>1 DEF StartInsert, ScanInv, ScanFindsLastCommittable
  <2>2. ASSUME StartScan PROVE ScanInv
    <3>0. PICK peerIds \in SUBSET AllPeers, term \in Terms :
             \E match \in [peerIds -> -1..(Len(log) - 1)] :
                input = [peerIds |-> peerIds, matchIndex |-> match,
                         currentTerm |-> term, commitIndex |-> commitIndex]
      BY <2>2 DEF StartScan
    <3>1. PICK match \in [peerIds -> -1..(Len(log) - 1)] :
             input = [peerIds |-> peerIds, matchIndex |-> match,
                      currentTerm |-> term, commitIndex |-> commitIndex]
      BY <3>0
    <3>2. /\ pc = "scan" /\ commitIndex \in -1..(Len(log) - 1) /\ i = commitIndex + 1
      BY <2>2 DEF StartScan
    <3>3. /\ input.peerIds = peerIds /\ input.matchIndex = match
          /\ input.commitIndex = commitIndex
      BY <3>1
    <3>4. log \in Seq(LogEntry) /\ Len(log) \in Nat
      BY EntriesAreLogs DEF Init
    <3>5. match \in [peerIds -> Int]
      BY <3>1, <3>4
    <3>6. ScanInput
      BY <3>2, <3>3, <3>4, <3>5 DEF ScanInput
    <3>7. \A k \in Found : k >= i
      BY <3>2, <3>3, <3>6, FoundIs
    <3>8. i \in (input.commitIndex + 1)..Len(log)
      BY <3>2, <3>3, <3>4
    <3>9. LastBelow(i, Found, input.commitIndex, commitIndex)
      BY <3>3, <3>7 DEF LastBelow
    <3> QED BY <3>2, <3>6, <3>8, <3>9 DEF ScanInv, ScanFindsLastCommittable
  <2> QED BY <2>1, <2>2 DEF Init
<1>2. ScanInv /\ [Next]_vars => ScanInv'
  <2> SUFFICES ASSUME ScanInv, [Next]_vars PROVE ScanInv'
    OBVIOUS
  <2>1. ASSUME pc \in {"scan", "count"}, UNCHANGED <<log, input>>
        PROVE  /\ ScanInput /\ ScanInput' /\ Found' = Found /\ Found \subseteq Int
               /\ i \in Int /\ Len(log) \in Nat /\ input.commitIndex \in Int
               /\ IsFiniteSet(input.peerIds)
               /\ i \in (input.commitIndex + 1)..Len(log)
               /\ LastBelow(i, Found, input.commitIndex, commitIndex)
    <3>1. /\ ScanInput /\ i \in (input.commitIndex + 1)..Len(log)
          /\ LastBelow(i, Found, input.commitIndex, commitIndex)
      BY <2>1 DEF ScanInv
    <3>2. ScanInput' /\ Found' = Found
      BY <2>1, <3>1 DEF ScanInput, Found
    <3>3. /\ Found \subseteq Int /\ Len(log) \in Nat /\ input.commitIndex \in Int
          /\ IsFiniteSet(input.peerIds)
      BY <3>1, FoundIs
    <3> QED BY <3>1, <3>2, <3>3
  <2>2. ASSUME ScanEntry PROVE ScanInv'
    <3>1. /\ pc = "scan" /\ i < Len(log) /\ UNCHANGED <<log, input, commitIndex>>
      BY <2>2 DEF ScanEntry
    <3>2. CASE EntryTerm(log, i) = input.currentTerm
      <4>1. /\ pc' = "count" /\ matchCount' = 1 /\ uncounted' = input.peerIds /\ i' = i
        BY <2>2, <3>2 DEF ScanEntry
      <4>2. Counted' = {}
        BY <3>1, <4>1 DEF Counted
      <4>3. matchCount' = 1 + Cardinality(Counted')
        BY <4>1, <4>2, FS_EmptySet
      <4>4. i' < Len(log') /\ EntryTerm(log', i') = input'.currentTerm
        BY <3>1, <3>2, <4>1
      <4>5. uncounted' \subseteq input'.peerIds
        BY <3>1, <4>1
      <4>6. /\ ScanInput' /\ i' \in (input'.commitIndex + 1)..Len(log')
            /\ LastBelow(i', Found', input'.commitIndex, commitIndex')
        BY <2>1, <3>1, <4>1
      <4> QED BY <4>1, <4>3, <4>4, <4>5, <4>6 DEF ScanInv, ScanFindsLastCommittable
    <3>3. CASE EntryTerm(log, i) # input.currentTerm
      <4>1. pc' = "scan" /\ i' = i + 1
        BY <2>2, <3>1, <3>3 DEF ScanEntry
      <4>2. i \notin Found
        BY <2>1, <3>1, <3>3, FoundIs
      <4>3. LastBelow(i + 1, Found, input.commitIndex, commitIndex)
        BY <2>1, <3>1, <4>2, LastStays
      <4>4. i' \in (input'.commitIndex + 1)..Len(log')
        BY <2>1, <3>1, <4>1
      <4>5. ScanInput' /\ LastBelow(i', Found', input'.commitIndex, commitIndex')
        BY <2>1, <3>1, <4>1, <4>3
      <4> QED BY <4>1, <4>4, <4>5 DEF ScanInv, ScanFindsLastCommittable
    <3> QED BY <3>2, <3>3
  <2>3. ASSUME CountPeer PROVE ScanInv'
    <3>1. /\ pc = "count" /\ UNCHANGED <<pc, log, commitIndex, input, i>>
      BY <2>3 DEF CountPeer
    <3>2. PICK p \in uncounted :
             /\ uncounted' = uncounted \ {p}
             /\ matchCount' = IF input.matchIndex[p] >= i THEN matchCount + 1
                                                          ELSE matchCount
      BY <2>3 DEF CountPeer
    <3>3. /\ uncounted \subseteq input.peerIds /\ matchCount = 1 + Cardinality(Counted)
          /\ i < Len(log) /\ EntryTerm(log, i) = input.currentTerm
      BY <3>1 DEF ScanInv
    <3>4. IsFiniteSet(Counted) /\ Cardinality(Counted) \in Nat
      <4>1. Counted \subseteq input.peerIds
        BY DEF Counted
      <4> QED BY <2>1, <3>1, <4>1, FS_Subset, FS_CardinalityType
    <3>5. matchCount' = 1 + Cardinality(Counted')
      <4>1. CASE input.matchIndex[p] >= i
        <5>1. Counted' = Counted \cup {p} /\ p \notin Counted
          BY <3>1, <3>2, <3>3, <4>1 DEF Counted
        <5>2. Cardinality(Counted \cup {p}) = Cardinality(Counted) + 1
          BY <3>4, <5>1, FS_AddElement
        <5> QED BY <3>2, <3>3, <3>4, <4>1, <5>1, <5>2
      <4>2. CASE ~(input.matchIndex[p] >= i)
        <5>1. Counted' = Counted
          BY <3>1, <3>2, <3>3, <4>2 DEF Counted
        <5> QED BY <3>2, <3>3, <4>2, <5>1
      <4> QED BY <4>1, <4>2
    <3>6. /\ ScanInput' /\ i' \in (input'.commitIndex + 1)..Len(log')
          /\ LastBelow(i', Found', input'.commitIndex, commitIndex')
      BY <2>1, <3>1
    <3>7. i' < Len(log') /\ EntryTerm(log', i') = input'.currentTerm
      BY <3>1, <3>3
    <3>8. uncounted' \subseteq input'.peerIds
      BY <3>1, <3>2, <3>3
    <3> QED BY <3>1, <3>5, <3>6, <3>7, <3>8 DEF ScanInv, ScanFindsLastCommittable
  <2>4. ASSUME CountEnd PROVE ScanInv'
    <3>1. /\ pc = "count" /\ uncounted = {} /\ UNCHANGED <<log, input>>
          /\ commitIndex' = IF Majority THEN i ELSE commitIndex
          /\ i' = i + 1 /\ pc' = "scan"
      BY <2>4 DEF CountEnd
    <3>2. /\ matchCount = 1 + Cardinality(Counted)
          /\ i < Len(log) /\ EntryTerm(log, i) = input.currentTerm
      BY <3>1 DEF ScanInv
    <3>3. Counted = {p \in input.peerIds : input.matchIndex[p] >= i}
      BY <3>1 DEF Counted
    <3>4. Cardinality(Counted) \in Nat /\ Cardinality(input.peerIds) \in Nat
      <4>1. Counted \subseteq input.peerIds
        BY DEF Counted
      <4> QED BY <2>1, <3>1, <4>1, FS_Subset, FS_CardinalityType
    <3>5. Majority <=> i \in Found
      <4>1. i \in Found <=> 2 * (1 + Cardinality(Counted)) > Cardinality(input.peerIds) + 1
        BY <2>1, <3>1, <3>2, <3>3, FoundIs
      <4> QED BY <3>2, <3>4, <4>1 DEF Majority
    <3>6. LastBelow(i + 1, Found, input.commitIndex, commitIndex')
      <4>1. CASE Majority
        <5>1. i \in Found /\ commitIndex' = i
          BY <3>1, <3>5, <4>1
        <5> QED BY <2>1, <3>1, <5>1, LastFound
      <4>2. CASE ~Majority
        <5>1. i \notin Found /\ commitIndex' = commitIndex
          BY <3>1, <3>5, <4>2
        <5> QED BY <2>1, <3>1, <5>1, LastStays
      <4> QED BY <4>1, <4>2
    <3>7. i' \in (input'.commitIndex + 1)..Len(log')
      BY <2>1, <3>1, <3>2
    <3>8. ScanInput' /\ LastBelow(i', Found', input'.commitIndex, commitIndex')
      BY <2>1, <3>1, <3>6
    <3> QED BY <3>1, <3>7, <3>8 DEF ScanInv, ScanFindsLastCommittable
  <2>5. ASSUME ScanEnd PROVE ScanInv'
    <3>1. /\ pc = "scan" /\ i >= Len(log) /\ pc' = "scanned"
          /\ UNCHANGED <<log, input, commitIndex>>
      BY <2>5 DEF ScanEnd
    <3>2. \A k \in Found : k < i
      <4>1. ScanInput /\ Found \subseteq Int /\ i \in Int /\ Len(log) \in Nat
        BY <2>1, <3>1
      <4>2. ASSUME NEW k \in Found PROVE k < i
        <5>1. k \in Int /\ k < Len(log)
          BY <4>1, <4>2, FoundIs
        <5> QED BY <3>1, <4>1, <5>1
      <4> QED BY <4>2
    <3>3. IF Found = {} THEN commitIndex = input.commitIndex
          ELSE commitIndex \in Found /\ \A k \in Found : k <= commitIndex
      <4>1. \A k \in Found : ~(k >= i)
        BY <2>1, <3>1, <3>2
      <4>2. LastBelow(i, Found, input.commitIndex, commitIndex)
        BY <2>1, <3>1
      <4> QED BY <3>2, <4>1, <4>2 DEF LastBelow
    <3>4. ScanFindsLastCommittable'
      BY <3>1, <3>3 DEF ScanFindsLastCommittable, Found
    <3> QED BY <3>1, <3>4 DEF ScanInv
  <2>6. ASSUME InsertNext \/ InsertEnd PROVE ScanInv'
    BY <2>6 DEF InsertNext, InsertEnd, ScanInv, ScanFindsLastCommittable
  <2>7. CASE UNCHANGED vars
    BY <2>7 DEF vars, ScanInv, ScanInput, Found, Counted, ScanFindsLastCommittable
  <2> QED BY <2>2, <2>3, <2>4, <2>5, <2>6, <2>7 DEF Next
<1>3. ScanInv => ScanFindsLastCommittable
  BY DEF ScanInv
<1> QED BY <1>1, <1>2, <1>3, PTL DEF Spec
=============================================================================
