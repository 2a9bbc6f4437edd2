------------------------ MODULE CommitPipeline_proofs ------------------------
(* Machine-checked facts about CommitPipeline, for every capacity of the      *)
(* notification channel, every number of entries, terms and clients.          *)
EXTENDS CommitPipeline, TLAPS, SequenceTheorems

LogEntry == [command : Nat, term : Nat]

(* Counting up to a larger number.                                            *)
LEMMA Widen == \A a, b \in Int : b >= a => /\ 1..(a + 1) \subseteq 1..(b + 1)
                                          /\ b + 1 >= a + 1
OBVIOUS

(* Functions on 1..n are sequences.                                           *)
LEMMA FunctionIsSeq ==
    ASSUME NEW n \in Nat, NEW S, NEW f \in [1..n -> S]
    PROVE  f \in Seq(S) /\ Len(f) = n
OBVIOUS

Rewritten(l, keep, n, first, terms) ==
    SubSeq(l, 1, keep) \o [k \in 1..n |-> [command |-> first + k - 1, term |-> terms[k]]]

(* The log after AppendEntries: what was kept is where it was, and the new    *)
(* entries carry terms up to the leader's.                                    *)
LEMMA RewrittenLog ==
    ASSUME NEW l \in Seq(LogEntry), NEW keep \in 0..Len(l), NEW n \in Nat,
           NEW first \in Nat, NEW t \in Nat, NEW terms \in [1..n -> 1..t]
    PROVE  /\ Rewritten(l, keep, n, first, terms) \in Seq(LogEntry)
           /\ Len(Rewritten(l, keep, n, first, terms)) = keep + n
           /\ \A k \in 1..keep : Rewritten(l, keep, n, first, terms)[k] = l[k]
           /\ \A k \in (keep + 1)..(keep + n) :
                  Rewritten(l, keep, n, first, terms)[k].term <= t
<1> DEFINE E(k) == [command |-> first + k - 1, term |-> terms[k]]
           new == [k \in 1..n |-> E(k)]
           old == SubSeq(l, 1, keep)
<1>1. old \in Seq(LogEntry) /\ Len(old) = keep /\ \A k \in 1..keep : old[k] = l[k]
  OBVIOUS
<1>2. \A k \in 1..n : E(k) \in LogEntry /\ E(k).term <= t
  BY DEF LogEntry
<1>3. Rewritten(l, keep, n, first, terms) = old \o new
  BY DEF Rewritten
<1> HIDE DEF E, old
<1>4. new \in [1..n -> LogEntry] /\ \A k \in 1..n : new[k].term <= t
  BY <1>2
<1> HIDE DEF new
<1>5. new \in Seq(LogEntry) /\ Len(new) = n
  BY <1>4
<1>6. /\ old \o new \in Seq(LogEntry) /\ Len(old \o new) = keep + n
      /\ \A k \in 1..(keep + n) :
            (old \o new)[k] = IF k <= keep THEN old[k] ELSE new[k - keep]
  BY <1>1, <1>5, ConcatProperties
<1>7. \A k \in (keep + 1)..(keep + n) : k - keep \in 1..n
  OBVIOUS
<1>8. \A k \in 1..keep : (old \o new)[k] = l[k]
  <2>1. \A k \in 1..keep : k \in 1..(keep + n) /\ k <= keep
    OBVIOUS
  <2> QED BY <1>1, <1>6, <2>1
<1>9. \A k \in (keep + 1)..(keep + n) : (old \o new)[k].term <= t
  <2>1. \A k \in (keep + 1)..(keep + n) : k \in 1..(keep + n) /\ ~(k <= keep)
    OBVIOUS
  <2>2. \A k \in (keep + 1)..(keep + n) : (old \o new)[k] = new[k - keep]
    BY <1>6, <2>1
  <2> QED BY <1>4, <1>7, <2>2
<1> QED BY <1>3, <1>6, <1>8, <1>9, ZenonT(30)

-----------------------------------------------------------------------------
(* Every step keeps the inductive invariant.                                  *)
LEMMA PipelineStep == PipelineInv /\ [Next]_vars => PipelineInv'
<1> SUFFICES ASSUME PipelineInv, [Next]_vars PROVE PipelineInv'
  OBVIOUS
<1> USE DEF cmVars, clientVars, shutdownVars
<1>0. /\ log \in Seq(LogEntry) /\ Len(log) \in Nat
      /\ commitIndex \in Nat \cup {-1} /\ lastApplied \in Nat \cup {-1}
      /\ currentTerm \in Nat /\ nextCommand \in Nat /\ ready \in 0..Capacity
      /\ received \in Seq([command : Nat, index : Nat, term : Nat])
      /\ Len(received) \in Nat /\ Capacity \in Nat
      /\ lastApplied <= commitIndex /\ commitIndex < Len(log)
      /\ Len(received) <= commitIndex + 1
  BY PipelineAssumption
  DEF PipelineInv, TypeOK, LogEntry, TakenCommittedLogged, ReceivedInOrder
(* Steps that leave the indices and what the client has got alone.            *)
<1>A. ASSUME UNCHANGED <<log, commitIndex, lastApplied, received, nextCommand>>,
             UNCHANGED <<sender, batch, notifying, ready, panicked>>,
             TypeOK', currentTerm' >= currentTerm, chanClosed => chanClosed'
      PROVE  PipelineInv'
  <2>1. NoFutureTerms'
    <3>1. currentTerm' \in Nat
      BY <1>A DEF TypeOK
    <3>2. \A k \in 1..Len(log) : log[k] \in LogEntry
      BY <1>0
    <3>3. \A k \in 1..Len(log) : log[k].term \in Nat
      BY <3>2 DEF LogEntry
    <3> QED BY <1>0, <1>A, <3>1, <3>3 DEF PipelineInv, NoFutureTerms
  <2> QED BY <1>A, <2>1 DEF PipelineInv, TakenCommittedLogged, BatchFollowsReceived,
             PanicsSending, ReceivedInOrder, NoLostWakeup
<1>1. CASE ChangeTerm
  <2>1. TypeOK' /\ currentTerm' >= currentTerm
    BY <1>0, <1>1 DEF ChangeTerm, PipelineInv, TypeOK
  <2> QED BY <1>1, <1>A, <2>1 DEF ChangeTerm
<1>2. CASE AppendEntries
  <2>0. PICK keep \in (commitIndex + 1)..Len(log), n \in 0..2 :
          \E terms \in [1..n -> 1..currentTerm] :
             /\ log' = Rewritten(log, keep, n, nextCommand, terms)
             /\ nextCommand' = nextCommand + n
    BY <1>2 DEF AppendEntries, Rewritten
  <2>1. PICK terms \in [1..n -> 1..currentTerm] :
          /\ log' = Rewritten(log, keep, n, nextCommand, terms)
          /\ nextCommand' = nextCommand + n
    BY <2>0
  <2>2. keep \in 0..Len(log) /\ n \in Nat
    BY <1>0
  <2>3. /\ log' \in Seq(LogEntry) /\ Len(log') = keep + n
        /\ \A k \in 1..keep : log'[k] = log[k]
        /\ \A k \in (keep + 1)..(keep + n) : log'[k].term <= currentTerm
    <3>1. log \in Seq(LogEntry) /\ nextCommand \in Nat /\ currentTerm \in Nat
      BY <1>0
    <3>2. /\ Rewritten(log, keep, n, nextCommand, terms) \in Seq(LogEntry)
          /\ Len(Rewritten(log, keep, n, nextCommand, terms)) = keep + n
          /\ \A k \in 1..keep : Rewritten(log, keep, n, nextCommand, terms)[k] = log[k]
          /\ \A k \in (keep + 1)..(keep + n) :
                 Rewritten(log, keep, n, nextCommand, terms)[k].term <= currentTerm
      BY <2>2, <3>1, RewrittenLog, ZenonT(30)
    <3> QED BY <2>1, <3>2
  <2>4. /\ commitIndex' \in commitIndex..(Len(log') - 1)
        /\ notifying' = (commitIndex' > commitIndex)
    BY <1>2 DEF AppendEntries
  <2>5. UNCHANGED <<lastApplied, currentTerm, isLeader, dead, ready, sender, batch,
                    received, submitter, chanClosed, panicked>>
    BY <1>2 DEF AppendEntries
  <2>6. muFree
    BY <1>2 DEF AppendEntries
  <2>7. TypeOK'
    BY <1>0, <2>1, <2>3, <2>4, <2>5 DEF PipelineInv, TypeOK, LogEntry
  <2>8. TakenCommittedLogged'
    BY <1>0, <2>3, <2>4, <2>5 DEF TakenCommittedLogged
  <2>9. NoFutureTerms'
    <3> SUFFICES ASSUME NEW k \in 1..Len(log') PROVE log'[k].term <= currentTerm
      BY <2>5 DEF NoFutureTerms
    <3>1. CASE k \in 1..keep
      BY <2>2, <2>3, <3>1 DEF PipelineInv, NoFutureTerms
    <3>2. CASE k \in (keep + 1)..(keep + n)
      BY <1>0, <2>3, <3>2
    <3> QED BY <2>2, <2>3, <3>1, <3>2
  <2>10. BatchFollowsReceived'
    <3>1. CASE sender = "sending"
      <4>1. /\ batch.last = lastApplied
            /\ batch.next = Len(received) /\ batch.next <= batch.last
            /\ \A k \in batch.next..batch.last : log[k + 1].term <= batch.term
        BY <3>1 DEF PipelineInv, BatchFollowsReceived
      <4>2. \A k \in batch.next..batch.last : k + 1 \in 1..keep
        BY <1>0, <2>1, <4>1
      <4> QED BY <2>3, <2>5, <3>1, <4>1, <4>2 DEF BatchFollowsReceived
    <3> QED BY <2>5, <3>1 DEF PipelineInv, BatchFollowsReceived
  <2>11. ReceivedInOrder'
    <3>1. \A k \in 1..Len(received) : k \in 1..keep
      BY <1>0, <2>1
    <3>2. Len(received) <= commitIndex' + 1
      BY <1>0, <2>3, <2>4
    <3> QED BY <2>3, <2>5, <3>1, <3>2 DEF PipelineInv, ReceivedInOrder
  <2>12. NoLostWakeup'
    <3>1. CASE commitIndex' > commitIndex
      BY <2>4, <3>1 DEF NoLostWakeup
    <3>2. CASE commitIndex' = commitIndex
      BY <2>5, <2>6, <3>2 DEF PipelineInv, NoLostWakeup, muFree
    <3> QED BY <1>0, <2>3, <2>4, <3>1, <3>2
  <2>13. PanicsSending'
    BY <2>5 DEF PipelineInv, PanicsSending
  <2> QED BY <2>7, <2>8, <2>9, <2>10, <2>11, <2>12, <2>13 DEF PipelineInv
<1>3. CASE AdvanceCommit
  <2>1. PICK k \in (commitIndex + 1)..(Len(log) - 1) : commitIndex' = k
    BY <1>3 DEF AdvanceCommit
  <2>2. /\ notifying' = TRUE
        /\ UNCHANGED <<log, lastApplied, currentTerm, isLeader, dead, nextCommand,
                       ready, sender, batch, received, submitter, chanClosed, panicked>>
    BY <1>3 DEF AdvanceCommit
  <2>3. commitIndex' \in Nat /\ commitIndex' > commitIndex /\ commitIndex' < Len(log)
    BY <1>0, <2>1
  <2>4. TypeOK'
    BY <2>2, <2>3 DEF PipelineInv, TypeOK
  <2> QED BY <1>0, <2>2, <2>3, <2>4 DEF PipelineInv, TakenCommittedLogged,
             NoFutureTerms, BatchFollowsReceived, PanicsSending, ReceivedInOrder,
             NoLostWakeup
<1>4. CASE Notify
  <2>0. ready' \in 0..Capacity
    BY <1>0, <1>4 DEF Notify
  <2>1. TypeOK'
    BY <2>0, <1>4 DEF Notify, PipelineInv, TypeOK
  <2> QED BY <1>0, <1>4, <2>1 DEF Notify, PipelineInv, TakenCommittedLogged,
             NoFutureTerms, BatchFollowsReceived, PanicsSending, ReceivedInOrder,
             NoLostWakeup
<1>5. CASE Stop
  <2>1. currentTerm' >= currentTerm
    BY <1>0, <1>5 DEF Stop
  <2>2. TypeOK'
    BY <1>5 DEF Stop, PipelineInv, TypeOK
  <2> QED BY <1>5, <1>A, <2>1, <2>2 DEF Stop
<1>6. ASSUME NEW s \in Submitters, CallSubmit(s) PROVE PipelineInv'
  <2>1. TypeOK' /\ currentTerm' >= currentTerm
    BY <1>0, <1>6 DEF CallSubmit, PipelineInv, TypeOK
  <2> QED BY <1>6, <1>A, <2>1 DEF CallSubmit
<1>7. ASSUME NEW s \in Submitters, Submit(s) PROVE PipelineInv'
  <2>1. CASE isLeader
    <3> DEFINE e == [command |-> nextCommand, term |-> currentTerm]
    <3>1. log' = Append(log, e) /\ nextCommand' = nextCommand + 1
      BY <1>7, <2>1 DEF Submit
    <3>2. /\ submitter' = [submitter EXCEPT ![s] = "returned"]
          /\ UNCHANGED <<commitIndex, lastApplied, currentTerm, isLeader, dead,
                         notifying, ready, sender, batch, received, chanClosed,
                         panicked>>
      BY <1>7 DEF Submit
    <3>3. e \in LogEntry /\ e.term = currentTerm
      BY <1>0 DEF LogEntry
    <3> HIDE DEF e
    <3>4. /\ log' \in Seq(LogEntry) /\ Len(log') = Len(log) + 1
          /\ \A k \in 1..Len(log) : log'[k] = log[k]
          /\ log'[Len(log) + 1].term = currentTerm
      BY <1>0, <3>1, <3>3
    <3>5. TypeOK'
      BY <1>0, <3>1, <3>2, <3>4 DEF PipelineInv, TypeOK, LogEntry
    <3>6. NoFutureTerms'
      <4>1. \A k \in 1..Len(log') : k \in 1..Len(log) \/ k = Len(log) + 1
        <5>1. Len(log') = Len(log) + 1 /\ Len(log) \in Nat
          BY <1>0, <3>4
        <5> QED BY <5>1
      <4> QED BY <1>0, <3>2, <3>4, <4>1, SMTT(30) DEF PipelineInv, NoFutureTerms
    <3>7. TakenCommittedLogged' /\ NoLostWakeup' /\ PanicsSending'
      BY <1>0, <3>2, <3>4 DEF PipelineInv, TakenCommittedLogged, NoLostWakeup,
         PanicsSending
    <3>8. ReceivedInOrder'
      <4>1. \A k \in 1..Len(received) : k \in 1..Len(log)
        BY <1>0
      <4> QED BY <3>2, <3>4, <4>1 DEF PipelineInv, ReceivedInOrder
    <3>9. BatchFollowsReceived'
      <4>1. CASE sender = "sending"
        <5>1. /\ batch.last = lastApplied
              /\ batch.next = Len(received) /\ batch.next <= batch.last
              /\ \A k \in batch.next..batch.last : log[k + 1].term <= batch.term
          BY <4>1 DEF PipelineInv, BatchFollowsReceived
        <5>2. \A k \in batch.next..batch.last : k + 1 \in 1..Len(log)
          BY <1>0, <5>1
        <5> QED BY <3>2, <3>4, <4>1, <5>1, <5>2 DEF BatchFollowsReceived
      <4> QED BY <3>2, <4>1 DEF PipelineInv, BatchFollowsReceived
    <3> QED BY <3>5, <3>6, <3>7, <3>8, <3>9 DEF PipelineInv
  <2>2. CASE ~isLeader
    <3>1. TypeOK' /\ currentTerm' >= currentTerm
      BY <1>0, <1>7, <2>2 DEF Submit, PipelineInv, TypeOK
    <3> QED BY <1>7, <1>A, <2>2, <3>1 DEF Submit
  <2> QED BY <2>1, <2>2
<1>8. CASE Receive
  <2>1. TypeOK'
    BY <1>0, <1>8 DEF Receive, PipelineInv, TypeOK
  <2> QED BY <1>0, <1>8, <2>1 DEF Receive, PipelineInv, TakenCommittedLogged,
             NoFutureTerms, BatchFollowsReceived, PanicsSending, ReceivedInOrder,
             NoLostWakeup
<1>9. CASE SenderDone
  <2>1. TypeOK'
    BY <1>0, <1>9 DEF SenderDone, PipelineInv, TypeOK
  <2> QED BY <1>0, <1>9, <2>1 DEF SenderDone, PipelineInv, TakenCommittedLogged,
             NoFutureTerms, BatchFollowsReceived, PanicsSending, ReceivedInOrder,
             NoLostWakeup
<1>10. CASE Take
  <2>1. /\ sender = "locking" /\ ~notifying /\ ~panicked
        /\ UNCHANGED <<log, commitIndex, currentTerm, isLeader, dead, nextCommand,
                       notifying, ready, received, submitter, chanClosed, panicked>>
    BY <1>10 DEF Take, muFree
  <2>2. Len(received) = lastApplied + 1
    BY <2>1 DEF PipelineInv, BatchFollowsReceived
  <2>3. CASE commitIndex > lastApplied
    <3>1. /\ batch' = [next |-> lastApplied + 1, last |-> commitIndex,
                       term |-> currentTerm]
          /\ lastApplied' = commitIndex /\ sender' = "sending"
      BY <1>10, <2>3 DEF Take, TakeFrom, TakeUpTo
    <3>2. TypeOK'
      BY <1>0, <2>1, <3>1 DEF PipelineInv, TypeOK
    <3>3. BatchFollowsReceived'
      <4>1. \A k \in (lastApplied + 1)..commitIndex : k + 1 \in 1..Len(log)
        BY <1>0
      <4>2. \A k \in (lastApplied + 1)..commitIndex : log[k + 1].term <= currentTerm
        BY <4>1 DEF PipelineInv, NoFutureTerms
      <4> QED BY <1>0, <2>1, <2>2, <2>3, <3>1, <4>2 DEF BatchFollowsReceived
    <3> QED BY <1>0, <2>1, <3>1, <3>2, <3>3 DEF PipelineInv, TakenCommittedLogged,
               NoFutureTerms, PanicsSending, ReceivedInOrder, NoLostWakeup
  <2>4. CASE ~(commitIndex > lastApplied)
    <3>1. sender' = "waiting" /\ UNCHANGED <<batch, lastApplied>>
      BY <1>10, <2>4 DEF Take
    <3>2. TypeOK'
      BY <1>0, <2>1, <3>1 DEF PipelineInv, TypeOK
    <3> QED BY <1>0, <2>1, <2>2, <2>4, <3>1, <3>2 DEF PipelineInv,
               TakenCommittedLogged, NoFutureTerms, BatchFollowsReceived,
               PanicsSending, ReceivedInOrder, NoLostWakeup
  <2> QED BY <2>3, <2>4
<1>11. CASE Deliver
  <2> DEFINE e == [command |-> log[batch.next + 1].command, index |-> batch.next,
                   term |-> batch.term]
  <2>1. /\ sender = "sending" /\ ~chanClosed
        /\ received' = Append(received, e)
        /\ batch' = [batch EXCEPT !.next = batch.next + 1]
        /\ sender' = IF batch.next = batch.last THEN "waiting" ELSE "sending"
        /\ UNCHANGED <<log, commitIndex, lastApplied, currentTerm, isLeader, dead,
                       nextCommand, notifying, ready, submitter, chanClosed, panicked>>
    BY <1>11 DEF Deliver
  <2>2. /\ batch.last = lastApplied
        /\ batch.next = Len(received) /\ batch.next <= batch.last
        /\ \A k \in batch.next..batch.last : log[k + 1].term <= batch.term
    BY <2>1 DEF PipelineInv, BatchFollowsReceived
  <2>3. batch \in [next : Nat, last : Nat \cup {-1}, term : Nat]
    BY DEF PipelineInv, TypeOK
  <2>4. batch.next + 1 \in 1..Len(log) /\ batch.next \in batch.next..batch.last
    BY <1>0, <2>2, <2>3
  <2>5. log[batch.next + 1] \in LogEntry
    BY <1>0, <2>4
  <2>6. e \in [command : Nat, index : Nat, term : Nat]
    BY <2>3, <2>5 DEF LogEntry
  <2>7. /\ e.index = batch.next /\ e.command = log[batch.next + 1].command
        /\ e.term >= log[batch.next + 1].term
    BY <2>2, <2>3, <2>4, <2>5 DEF LogEntry
  <2> HIDE DEF e
  <2>8. /\ received' \in Seq([command : Nat, index : Nat, term : Nat])
        /\ Len(received') = Len(received) + 1
        /\ \A k \in 1..Len(received) : received'[k] = received[k]
        /\ received'[Len(received) + 1] = e
    BY <1>0, <2>1, <2>6
  <2>9. /\ batch'.next = batch.next + 1 /\ batch'.last = batch.last
        /\ batch'.term = batch.term
        /\ batch' \in [next : Nat, last : Nat \cup {-1}, term : Nat]
    BY <2>1, <2>3
  <2>10. TypeOK'
    BY <2>1, <2>8, <2>9 DEF PipelineInv, TypeOK
  <2>11. ReceivedInOrder'
    <3>1. \A k \in 1..Len(received') : k \in 1..Len(received) \/ k = Len(received) + 1
      BY <1>0, <2>8
    <3>2. Len(received') <= commitIndex' + 1
      <4>1. /\ Len(received') = Len(received) + 1 /\ commitIndex' = commitIndex
            /\ Len(received) <= lastApplied
        BY <2>1, <2>2, <2>8
      <4>2. /\ lastApplied <= commitIndex /\ Len(received) \in Nat
            /\ lastApplied \in Int /\ commitIndex \in Int
        BY <1>0
      <4> QED BY <4>1, <4>2
    <3>3. ASSUME NEW k \in 1..Len(received')
          PROVE  /\ received'[k].index = k - 1
                 /\ received'[k].command = log[k].command
                 /\ received'[k].term >= log[k].term
      <4>1. CASE k \in 1..Len(received)
        BY <2>8, <4>1 DEF PipelineInv, ReceivedInOrder
      <4>2. CASE k = Len(received) + 1
        BY <1>0, <2>2, <2>7, <2>8, <4>2, SMTT(30)
      <4> QED BY <3>1, <4>1, <4>2
    <3> QED BY <2>1, <3>2, <3>3 DEF ReceivedInOrder
  <2>12. BatchFollowsReceived'
    <3>1. CASE batch.next = batch.last
      BY <1>0, <2>1, <2>2, <2>8, <3>1 DEF BatchFollowsReceived
    <3>2. CASE batch.next # batch.last
      <4>1. batch'.next <= batch'.last /\ batch'.next = Len(received')
        BY <1>0, <2>2, <2>3, <2>8, <2>9, <3>2
      <4>2. \A k \in batch'.next..batch'.last : k \in batch.next..batch.last
        BY <2>3, <2>9
      <4> QED BY <2>1, <2>2, <2>9, <3>2, <4>1, <4>2 DEF BatchFollowsReceived
    <3> QED BY <3>1, <3>2
  <2>13. TakenCommittedLogged' /\ NoFutureTerms' /\ PanicsSending' /\ NoLostWakeup'
    BY <2>1 DEF PipelineInv, TakenCommittedLogged, NoFutureTerms, PanicsSending,
       NoLostWakeup
  <2> QED BY <2>10, <2>11, <2>12, <2>13 DEF PipelineInv
<1>12. CASE CloseCommitChan
  <2>1. TypeOK' /\ currentTerm' >= currentTerm
    BY <1>0, <1>12 DEF CloseCommitChan, PipelineInv, TypeOK
  <2> QED BY <1>12, <1>A, <2>1 DEF CloseCommitChan
<1>13. CASE SendOnClosed
  <2>1. TypeOK'
    BY <1>0, <1>13 DEF SendOnClosed, PipelineInv, TypeOK
  <2> QED BY <1>0, <1>13, <2>1 DEF SendOnClosed, PipelineInv, TakenCommittedLogged,
             NoFutureTerms, BatchFollowsReceived, PanicsSending, ReceivedInOrder,
             NoLostWakeup
<1>14. CASE UNCHANGED vars
  <2>1. TypeOK'
    BY <1>14 DEF vars, PipelineInv, TypeOK
  <2> QED BY <1>14, <2>1 DEF vars, PipelineInv, TakenCommittedLogged,
             NoFutureTerms, BatchFollowsReceived, PanicsSending, ReceivedInOrder,
             NoLostWakeup
<1> QED
  BY <1>1, <1>2, <1>3, <1>4, <1>5, <1>6, <1>7, <1>8, <1>9, <1>10, <1>11, <1>12,
     <1>13, <1>14 DEF Next

(* The inductive invariant holds in every reachable state.                    *)
THEOREM PipelineInvariant == Spec => []PipelineInv
<1>1. Init => PipelineInv
  <2> SUFFICES ASSUME Init PROVE PipelineInv
    OBVIOUS
  <2>1. /\ log = <<>> /\ received = <<>> /\ commitIndex = -1 /\ lastApplied = -1
        /\ sender = "waiting" /\ panicked = FALSE
    BY DEF Init
  <2>2. /\ <<>> \in Seq([command : Nat, term : Nat])
        /\ <<>> \in Seq([command : Nat, index : Nat, term : Nat])
        /\ Len(log) = 0 /\ Len(received) = 0
    BY <2>1
  <2>3. batch \in [next : Nat, last : Nat \cup {-1}, term : Nat]
    BY DEF Init
  <2>4. TypeOK
    <3>1. 0 \in 0..Capacity
      BY PipelineAssumption
    <3>2. submitter \in [Submitters -> {"idle", "waiting", "returned"}]
      BY DEF Init
    <3> QED BY <2>1, <2>2, <2>3, <3>1, <3>2 DEF Init, TypeOK
  <2>5. TakenCommittedLogged /\ NoFutureTerms /\ PanicsSending /\ NoLostWakeup
    BY <2>1, <2>2 DEF TakenCommittedLogged, NoFutureTerms, PanicsSending, NoLostWakeup
  <2>6. ReceivedInOrder /\ BatchFollowsReceived
    BY <2>1, <2>2 DEF ReceivedInOrder, BatchFollowsReceived
  <2> QED BY <2>4, <2>5, <2>6 DEF PipelineInv
<1> QED BY <1>1, PipelineStep, PTL DEF Spec

(* The client reads the committed entries once each, in the order of the log, *)
(* with commitChanSender sending without mu while entries above commitIndex   *)
(* are rewritten and terms change.                                            *)
THEOREM ClientReadsInOrder == Spec => []ReceivedInOrder
<1>1. PipelineInv => ReceivedInOrder
  BY DEF PipelineInv
<1> QED BY <1>1, PipelineInvariant, PTL

(* No notification of newCommitReadyChan is lost, whatever its capacity.      *)
THEOREM WakeupsKept == Spec => []NoLostWakeup
<1>1. PipelineInv => NoLostWakeup
  BY DEF PipelineInv
<1> QED BY <1>1, PipelineInvariant, PTL

(* A client that has collected everything committed may close commitChan.     *)
THEOREM ShutdownAfterAllCollected == Spec => []QuietShutdown
<1>1. PipelineInv => QuietShutdown
  <2> SUFFICES ASSUME PipelineInv, panicked PROVE Len(received) <= commitIndex
    BY DEF QuietShutdown
  <2>1. sender = "sending"
    BY DEF PipelineInv, PanicsSending
  <2>2. batch.last = lastApplied /\ batch.next = Len(received) /\ batch.next <= batch.last
    BY <2>1 DEF PipelineInv, BatchFollowsReceived
  <2>3. Len(received) \in Nat /\ lastApplied \in Int /\ commitIndex \in Int
    BY DEF PipelineInv, TypeOK
  <2> QED BY <2>2, <2>3 DEF PipelineInv, TakenCommittedLogged
<1> QED BY <1>1, PipelineInvariant, PTL

-----------------------------------------------------------------------------
(* The refinement of CommittedLog. The abstract state, by the names the       *)
(* instance OneLog gives it.                                                  *)
Command == [k \in 1..(commitIndex + 1) |-> log[k].command]
Known   == [k \in DOMAIN received |-> received[k].command]

(* The committed entries and what the client knows are sequences, and what it *)
(* knows is the beginning of what is committed.                               *)
AbstractlyPrefix ==
    /\ Command \in Seq(Nat) /\ Len(Command) = commitIndex + 1
    /\ Known \in Seq(Nat) /\ Len(Known) = Len(received)
    /\ Len(received) <= commitIndex + 1
    /\ \A k \in 1..Len(received) : Known[k] = Command[k]

LEMMA AbstractState == PipelineInv => AbstractlyPrefix
<1> SUFFICES ASSUME PipelineInv PROVE AbstractlyPrefix
  OBVIOUS
<1>1. /\ log \in Seq(LogEntry) /\ Len(log) \in Nat
      /\ commitIndex \in Nat \cup {-1} /\ commitIndex < Len(log)
      /\ Len(received) <= commitIndex + 1
  BY DEF PipelineInv, TypeOK, LogEntry, TakenCommittedLogged, ReceivedInOrder
<1>2. /\ received \in Seq([command : Nat, index : Nat, term : Nat])
      /\ Len(received) \in Nat /\ DOMAIN received = 1..Len(received)
  BY DEF PipelineInv, TypeOK
<1>3. \A k \in 1..(commitIndex + 1) : log[k].command \in Nat
  <2>1. \A k \in 1..(commitIndex + 1) : k \in 1..Len(log)
    BY <1>1
  <2>2. \A k \in 1..Len(log) : log[k] \in LogEntry
    BY <1>1, ElementOfSeq
  <2> QED BY <2>1, <2>2 DEF LogEntry
<1>4. \A k \in 1..Len(received) : received[k].command \in Nat
  <2>1. \A k \in 1..Len(received) :
            received[k] \in [command : Nat, index : Nat, term : Nat]
    BY <1>2, ElementOfSeq
  <2> QED BY <2>1
<1>5. Command \in Seq(Nat) /\ Len(Command) = commitIndex + 1
  <2>1. Command \in [1..(commitIndex + 1) -> Nat] /\ commitIndex + 1 \in Nat
    BY <1>1, <1>3 DEF Command
  <2> QED BY <2>1, FunctionIsSeq
<1>6. Known \in Seq(Nat) /\ Len(Known) = Len(received)
  <2>1. Known \in [1..Len(received) -> Nat]
    BY <1>2, <1>4 DEF Known
  <2> QED BY <1>2, <2>1, FunctionIsSeq
<1>7. ASSUME NEW k \in 1..Len(received) PROVE Known[k] = Command[k]
  <2>1. k \in 1..(commitIndex + 1) /\ k \in DOMAIN received
    BY <1>1, <1>2
  <2>2. received[k].command = log[k].command
    BY DEF PipelineInv, ReceivedInOrder
  <2> QED BY <2>1, <2>2 DEF Known, Command
<1> QED BY <1>1, <1>5, <1>6, <1>7 DEF AbstractlyPrefix

(* No step takes back or changes what is committed.                           *)
LEMMA CommittedGrows ==
    ASSUME PipelineInv, PipelineInv', [Next]_vars
    PROVE  /\ Len(Command') >= Len(Command)
           /\ SubSeq(Command', 1, Len(Command)) = Command
<1> USE DEF cmVars, clientVars, shutdownVars
<1>1. /\ log \in Seq(LogEntry) /\ Len(log) \in Nat
      /\ commitIndex \in Nat \cup {-1} /\ commitIndex < Len(log)
      /\ commitIndex' \in Nat \cup {-1} /\ currentTerm \in Nat /\ nextCommand \in Nat
  BY DEF PipelineInv, TypeOK, LogEntry, TakenCommittedLogged
<1>2. /\ Command \in Seq(Nat) /\ Len(Command) = commitIndex + 1
      /\ Command' \in Seq(Nat) /\ Len(Command') = commitIndex' + 1
  <2>1. PipelineInv' => AbstractlyPrefix'
    BY AbstractState, PTL
  <2> QED BY <2>1, AbstractState DEF AbstractlyPrefix
<1>3. /\ commitIndex' >= commitIndex
      /\ \A k \in 1..(commitIndex + 1) : log'[k] = log[k]
  <2>1. CASE AppendEntries
    <3>0. PICK keep \in (commitIndex + 1)..Len(log), n \in 0..2 :
              \E terms \in [1..n -> 1..currentTerm] :
                 log' = Rewritten(log, keep, n, nextCommand, terms)
      BY <2>1 DEF AppendEntries, Rewritten
    <3>1. PICK terms \in [1..n -> 1..currentTerm] :
              log' = Rewritten(log, keep, n, nextCommand, terms)
      BY <3>0
    <3>2. keep \in 0..Len(log) /\ n \in Nat
      BY <1>1
    <3>3. \A k \in 1..keep : log'[k] = log[k]
      <4>1. log \in Seq(LogEntry) /\ nextCommand \in Nat /\ currentTerm \in Nat
        BY <1>1
      <4>2. /\ Rewritten(log, keep, n, nextCommand, terms) \in Seq(LogEntry)
            /\ Len(Rewritten(log, keep, n, nextCommand, terms)) = keep + n
            /\ \A k \in 1..keep : Rewritten(log, keep, n, nextCommand, terms)[k] = log[k]
            /\ \A k \in (keep + 1)..(keep + n) :
                   Rewritten(log, keep, n, nextCommand, terms)[k].term <= currentTerm
        BY <3>2, <4>1, RewrittenLog, ZenonT(30)
      <4> QED BY <3>1, <4>2
    <3>4. commitIndex' \in commitIndex..(Len(log') - 1)
      BY <2>1 DEF AppendEntries
    <3>5. commitIndex' >= commitIndex
      BY <1>1, <3>4
    <3>6. \A k \in 1..(commitIndex + 1) : k \in 1..keep
      BY <1>1
    <3> QED BY <3>3, <3>5, <3>6
  <2>2. CASE AdvanceCommit
    <3>1. PICK k \in (commitIndex + 1)..(Len(log) - 1) : commitIndex' = k
      BY <2>2 DEF AdvanceCommit
    <3>2. log' = log
      BY <2>2 DEF AdvanceCommit
    <3> QED BY <1>1, <3>1, <3>2
  <2>3. ASSUME NEW s \in Submitters, Submit(s)
        PROVE  /\ commitIndex' = commitIndex
               /\ \A k \in 1..(commitIndex + 1) : log'[k] = log[k]
    <3>1. commitIndex' = commitIndex
      BY <2>3 DEF Submit
    <3>2. CASE log' = log
      BY <3>1, <3>2
    <3>3. CASE log' = Append(log, [command |-> nextCommand, term |-> currentTerm])
      <4>1. [command |-> nextCommand, term |-> currentTerm] \in LogEntry
        BY <1>1 DEF LogEntry
      <4>2. \A k \in 1..Len(log) : log'[k] = log[k]
        BY <1>1, <3>3, <4>1, AppendProperties
      <4>3. \A k \in 1..(commitIndex + 1) : k \in 1..Len(log)
        BY <1>1
      <4> QED BY <3>1, <4>2, <4>3
    <3> QED BY <2>3, <3>2, <3>3 DEF Submit
  <2>4. CASE UNCHANGED <<log, commitIndex>>
    BY <1>1, <2>4
  <2> QED
    BY <1>1, <2>1, <2>2, <2>3, <2>4
    DEF Next, vars, ChangeTerm, Notify, Stop, CallSubmit, Receive, SenderDone, Take,
        Deliver, CloseCommitChan, SendOnClosed
<1>7. /\ 1..(commitIndex + 1) \subseteq 1..(commitIndex' + 1)
      /\ commitIndex' + 1 >= commitIndex + 1
  <2>1. commitIndex \in Int /\ commitIndex' \in Int
    BY <1>1
  <2> QED BY <1>3, <2>1, Widen
<1>4. ASSUME NEW k \in 1..(commitIndex + 1) PROVE Command'[k] = Command[k]
  <2>1. k \in 1..(commitIndex' + 1)
    BY <1>7
  <2>2. log'[k] = log[k]
    BY <1>3
  <2> QED BY <2>1, <2>2 DEF Command
<1>5. SubSeq(Command', 1, Len(Command)) = Command
  <2> DEFINE sub == SubSeq(Command', 1, Len(Command))
  <2>1. Len(Command) \in 0..Len(Command')
    <3>1. /\ Len(Command) \in Nat /\ Len(Command') \in Nat
          /\ Len(Command') >= Len(Command)
      BY <1>2, <1>7
    <3> QED BY <3>1
  <2>2. /\ sub \in Seq(Nat) /\ Len(sub) = Len(Command)
        /\ \A k \in 1..Len(Command) : sub[k] = Command'[k]
    BY <1>2, <2>1
  <2>3. \A k \in 1..Len(Command) : sub[k] = Command[k]
    BY <1>2, <1>4, <2>2
  <2> HIDE DEF sub
  <2>4. sub = Command
    BY <1>2, <2>2, <2>3, SeqEqual
  <2> QED BY <2>4 DEF sub
<1>6. Len(Command') >= Len(Command)
  BY <1>2, <1>7
<1> QED BY <1>5, <1>6

(* Every step commits, or lets the client learn, or is no step of the         *)
(* abstract log: only Deliver changes what the client knows.                  *)
LEMMA RefinementStep ==
    ASSUME PipelineInv, PipelineInv', [Next]_vars
    PROVE  [OneLog!Next]_<<Command, [r \in {"client"} |-> Known]>>
<1> USE DEF cmVars, clientVars, shutdownVars
<1>1. OneLog!OnlyGrows
  BY CommittedGrows DEF OneLog!OnlyGrows, Command
<1>2. CASE UNCHANGED received
  <2>1. OneLog!Commit
    BY <1>1, <1>2 DEF OneLog!Commit
  <2> QED BY <2>1 DEF OneLog!Next
<1>3. CASE Deliver
  <2> DEFINE e == [command |-> log[batch.next + 1].command, index |-> batch.next,
                   term |-> batch.term]
             n == Len(received) + 1
  <2>1. received' = Append(received, e)
    BY <1>3 DEF Deliver
  <2>2. /\ Command' \in Seq(Nat) /\ Known' \in Seq(Nat)
        /\ Len(Known') = Len(received') /\ Len(received') <= Len(Command')
        /\ \A k \in 1..Len(received') : Known'[k] = Command'[k]
    <3>1. PipelineInv' => AbstractlyPrefix'
      BY AbstractState, PTL
    <3>2. /\ Len(Command') = commitIndex' + 1 /\ Len(received') <= commitIndex' + 1
          /\ Known' \in Seq(Nat) /\ Command' \in Seq(Nat)
          /\ Len(Known') = Len(received')
      BY <3>1 DEF AbstractlyPrefix
    <3>3. \A k \in 1..Len(received') : Known'[k] = Command'[k]
      BY <3>1 DEF AbstractlyPrefix
    <3> QED BY <3>2, <3>3
  <2>3. Len(received') = n /\ Len(received) \in Nat
    BY <2>1 DEF PipelineInv, TypeOK
  <2>4. Len(Known) = Len(received)
    BY AbstractState DEF AbstractlyPrefix
  <2> HIDE DEF n
  <2>5. n \in (Len(Known) + 1)..Len(Command')
    BY <2>2, <2>3, <2>4 DEF n
  <2>6. Known' = SubSeq(Command', 1, n)
    <3> DEFINE sub == SubSeq(Command', 1, n)
    <3>1. n \in 0..Len(Command')
      BY <2>3, <2>5, <2>4
    <3>2. /\ sub \in Seq(Nat) /\ Len(sub) = n
          /\ \A k \in 1..n : sub[k] = Command'[k]
      BY <2>2, <3>1
    <3> HIDE DEF sub
    <3>3. Known' = sub
      BY <2>2, <2>3, <3>2, SeqEqual
    <3> QED BY <3>3 DEF sub
  <2>7. OneLog!Learn("client")
    <3>1. [r \in {"client"} |-> Known]["client"] = Known
      OBVIOUS
    <3>2. [r \in {"client"} |-> Known'] =
              [[r \in {"client"} |-> Known] EXCEPT !["client"] = Known']
      OBVIOUS
    <3> QED BY <1>1, <2>5, <2>6, <3>1, <3>2 DEF OneLog!Learn, Known, Command
  <2> QED BY <2>7 DEF OneLog!Next
<1> QED
  BY <1>2, <1>3
  DEF Next, vars, ChangeTerm, AppendEntries, AdvanceCommit, Notify, Stop, CallSubmit,
      Submit, Receive, SenderDone, Take, CloseCommitChan, SendOnClosed

(* A client of commitChan is a reader of the one log: it learns of longer and *)
(* longer prefixes of what is committed, and of no more.                      *)
THEOREM RefinesCommittedLog == Spec => ImplementsCommittedLog
<1>1. Init => OneLog!Init
  <2> SUFFICES ASSUME Init PROVE OneLog!Init
    OBVIOUS
  <2>1. Command = <<>>
    BY DEF Init, Command
  <2>2. Known = <<>>
    BY DEF Init, Known
  <2> QED BY <2>1, <2>2 DEF OneLog!Init, Command, Known
<1>2. PipelineInv /\ PipelineInv' /\ [Next]_vars
        => [OneLog!Next]_<<Command, [r \in {"client"} |-> Known]>>
  BY RefinementStep
<1> QED BY <1>1, <1>2, PipelineInvariant, PTL
    DEF Spec, ImplementsCommittedLog, OneLog!Spec, Command, Known
=============================================================================
