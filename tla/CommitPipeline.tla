--------------------------- MODULE CommitPipeline ---------------------------
(***************************************************************************)
(* How Part 2 hands committed entries to the client                        *)
(* (part2_commandsAndLogReplication/raft.go): the handlers that advance    *)
(* commitIndex notify newCommitReadyChan while they hold cm.mu;            *)
(* commitChanSender takes the new entries under mu and sends them one by   *)
(* one, without mu, on the unbuffered commitChan.                          *)
(*                                                                         *)
(* One CM. What the cluster makes it do is chosen freely, within what      *)
(* Replication shows of it: only entries above commitIndex are rewritten.  *)
(* A critical section of mu is one step, except that its holder may be     *)
(* stuck there while newCommitReadyChan is full. A stopped CM that becomes *)
(* a follower again is left to Replication. The client is the test harness *)
(* (testharness.go): it collects the commits, and its Shutdown closes      *)
(* commitChan once Stop has returned.                                      *)
(***************************************************************************)
EXTENDS Integers, Sequences

CONSTANTS
    Capacity,    \* of newCommitReadyChan: 16 in the code
    MaxCommands, \* bound: entries a leader elsewhere appends to the log
    MaxTerm,     \* bound: terms
    Submitters,  \* client goroutines; each calls Submit once
    ShutsDown    \* TRUE: after Stop the harness may close commitChan

ASSUME PipelineAssumption ==
    /\ Capacity \in Nat \ {0} /\ MaxCommands \in Nat /\ MaxTerm \in Nat
    /\ ShutsDown \in BOOLEAN

VARIABLES
    log, commitIndex, lastApplied, currentTerm,
    isLeader,    \* state = Leader
    dead,        \* state = Dead; newCommitReadyChan is closed with it
    nextCommand, \* commands are unique
    notifying,   \* a handler holds mu and sends on newCommitReadyChan
    ready,       \* the number of notifications in newCommitReadyChan
    sender,      \* where commitChanSender is
    batch,       \* its locals: the indices left to send, and savedTerm
    received,    \* what the client has read from commitChan
    submitter,   \* where each call of Submit is
    chanClosed,  \* commitChan is closed
    panicked     \* the process has died in a Go panic

cmVars == <<log, commitIndex, lastApplied, currentTerm, isLeader, dead>>
clientVars == <<received, submitter>>
shutdownVars == <<chanClosed, panicked>>
vars == <<cmVars, nextCommand, notifying, ready, sender, batch, clientVars,
          shutdownVars>>

Init ==
    /\ log = <<>> /\ commitIndex = -1 /\ lastApplied = -1 /\ currentTerm = 0
    /\ isLeader = FALSE /\ dead = FALSE /\ nextCommand = 1
    /\ notifying = FALSE /\ ready = 0
    /\ sender = "waiting"
    /\ batch = [next |-> 0, last |-> -1, term |-> 0]
    /\ received = <<>>
    /\ submitter = [s \in Submitters |-> "idle"]
    /\ chanClosed = FALSE /\ panicked = FALSE

(* mu can be locked: nobody holds it, in a process that is alive.           *)
muFree == ~notifying /\ ~panicked

-----------------------------------------------------------------------------
(* becomeFollower, startElection or startLeader: another term, another role. *)
ChangeTerm ==
    /\ muFree /\ ~dead
    /\ currentTerm < MaxTerm
    /\ currentTerm' = currentTerm + 1
    /\ isLeader' \in BOOLEAN
    /\ UNCHANGED <<log, commitIndex, lastApplied, dead, nextCommand, notifying,
                   ready, sender, batch, clientVars, shutdownVars>>

(* AppendEntries from a leader, past its consistency check: the entries     *)
(* after the first keep are replaced by n new ones, of this term or of      *)
(* earlier ones; terms never decrease along a log. A leader sends its log   *)
(* to the end, so its commitIndex is never beyond the log that results.     *)
AppendEntries ==
    /\ muFree /\ ~dead /\ ~isLeader
    /\ \E keep \in (commitIndex + 1)..Len(log), n \in 0..2 :
       \E terms \in [1..n -> 1..currentTerm] :
          /\ nextCommand + n <= MaxCommands + 1
          /\ n = 0 => keep = Len(log)
          /\ log' = SubSeq(log, 1, keep) \o
                [k \in 1..n |-> [command |-> nextCommand + k - 1,
                                  term |-> terms[k]]]
          /\ \A k \in 2..Len(log') : log'[k - 1].term <= log'[k].term
          /\ nextCommand' = nextCommand + n
    /\ \E leaderCommit \in commitIndex..(Len(log') - 1) :
          /\ commitIndex' = leaderCommit
          /\ notifying' = (leaderCommit > commitIndex)
    /\ UNCHANGED <<lastApplied, currentTerm, isLeader, dead, ready, sender, batch,
                   clientVars, shutdownVars>>

(* The leader's commit scan stops at an entry of its term.                  *)
AdvanceCommit ==
    /\ muFree /\ ~dead /\ isLeader
    /\ \E k \in (commitIndex + 1)..(Len(log) - 1) :
          /\ log[k + 1].term = currentTerm
          /\ commitIndex' = k
    /\ notifying' = TRUE
    /\ UNCHANGED <<log, lastApplied, currentTerm, isLeader, dead, nextCommand,
                   ready, sender, batch, clientVars, shutdownVars>>

(* newCommitReadyChan <- struct{}{} gets through; mu is released.           *)
Notify ==
    /\ notifying /\ ~panicked
    /\ ready < Capacity
    /\ ready' = ready + 1
    /\ notifying' = FALSE
    /\ UNCHANGED <<cmVars, nextCommand, sender, batch, clientVars, shutdownVars>>

(* The owner calls Stop once.                                               *)
Stop ==
    /\ muFree /\ ~dead
    /\ dead' = TRUE
    /\ isLeader' = FALSE
    /\ UNCHANGED <<log, commitIndex, lastApplied, currentTerm, nextCommand,
                   notifying, ready, sender, batch, clientVars, shutdownVars>>

(* A client calls Submit, which waits for mu.                               *)
CallSubmit(s) ==
    /\ submitter[s] = "idle" /\ ~panicked
    /\ submitter' = [submitter EXCEPT ![s] = "waiting"]
    /\ UNCHANGED <<cmVars, nextCommand, notifying, ready, sender, batch, received,
                   shutdownVars>>

Submit(s) ==
    /\ submitter[s] = "waiting"
    /\ muFree
    /\ submitter' = [submitter EXCEPT ![s] = "returned"]
    /\ IF isLeader
       THEN /\ log' = Append(log, [command |-> nextCommand, term |-> currentTerm])
            /\ nextCommand' = nextCommand + 1
       ELSE UNCHANGED <<log, nextCommand>>
    /\ UNCHANGED <<commitIndex, lastApplied, currentTerm, isLeader, dead, notifying,
                   ready, sender, batch, received, shutdownVars>>

-----------------------------------------------------------------------------
(* commitChanSender receives a notification, also from a closed channel     *)
(* that is not empty yet.                                                   *)
Receive ==
    /\ sender = "waiting" /\ ~panicked
    /\ ready > 0
    /\ ready' = ready - 1
    /\ sender' = "locking"
    /\ UNCHANGED <<cmVars, nextCommand, notifying, batch, clientVars, shutdownVars>>

SenderDone ==
    /\ sender = "waiting" /\ ~panicked
    /\ ready = 0 /\ dead
    /\ sender' = "done"
    /\ UNCHANGED <<cmVars, nextCommand, notifying, ready, batch, clientVars, shutdownVars>>

(* Mutants of TakeFrom and TakeUpTo: lastApplied is not consulted; every    *)
(* notification stands for one entry.                                       *)
TakeFromStart == 0
TakeOne == lastApplied + 1

TakeFrom == lastApplied + 1
TakeUpTo == commitIndex

(* The sender's critical section. The entries are a slice of the log, so    *)
(* only their indices are taken: they are read as they are sent.            *)
Take ==
    /\ sender = "locking"
    /\ muFree
    /\ IF commitIndex > lastApplied
       THEN /\ batch' = [next |-> TakeFrom, last |-> TakeUpTo, term |-> currentTerm]
            /\ lastApplied' = TakeUpTo
            /\ sender' = "sending"
       ELSE sender' = "waiting" /\ UNCHANGED <<batch, lastApplied>>
    /\ UNCHANGED <<log, commitIndex, currentTerm, isLeader, dead, nextCommand,
                   notifying, ready, clientVars, shutdownVars>>

(* An entry goes over commitChan: the client reads while the sender sends.  *)
Deliver ==
    /\ sender = "sending" /\ ~chanClosed
    /\ received' = Append(received,
          [command |-> log[batch.next + 1].command, index |-> batch.next,
           term |-> batch.term])
    /\ batch' = [batch EXCEPT !.next = @ + 1]
    /\ sender' = IF batch.next = batch.last THEN "waiting" ELSE "sending"
    /\ UNCHANGED <<cmVars, nextCommand, notifying, ready, submitter, shutdownVars>>

-----------------------------------------------------------------------------
(* Harness.Shutdown, after Server.Shutdown and with it Stop has returned:   *)
(* nobody has waited for commitChanSender.                                  *)
CloseCommitChan ==
    /\ ShutsDown
    /\ dead /\ ~chanClosed
    /\ chanClosed' = TRUE
    /\ UNCHANGED <<cmVars, nextCommand, notifying, ready, sender, batch, clientVars,
                   panicked>>

(* commitChanSender sends, or has been waiting to, on the closed channel.   *)
SendOnClosed ==
    /\ sender = "sending" /\ chanClosed /\ ~panicked
    /\ panicked' = TRUE
    /\ UNCHANGED <<cmVars, nextCommand, notifying, ready, sender, batch, clientVars,
                   chanClosed>>

Next ==
    \/ ChangeTerm \/ AppendEntries \/ AdvanceCommit \/ Notify \/ Stop
    \/ \E s \in Submitters : CallSubmit(s)
    \/ \E s \in Submitters : Submit(s)
    \/ Receive \/ SenderDone \/ Take \/ Deliver
    \/ CloseCommitChan \/ SendOnClosed

(* Goroutines run on; sync.Mutex hands itself to whoever waits long enough. *)
SenderFairness == WF_vars(Notify) /\ WF_vars(Receive) /\ SF_vars(Take)
SubmitFairness == \A s \in Submitters : SF_vars(Submit(s))

(* The client keeps reading commitChan.                                     *)
ClientFairness == WF_vars(Deliver)

Spec == Init /\ [][Next]_vars /\ SenderFairness /\ SubmitFairness /\ ClientFairness

-----------------------------------------------------------------------------
(* The client gets every entry once, in the order of the log, with its      *)
(* index, as it is in the log, and only when it is committed; the term that *)
(* comes with it is never older than the entry's.                           *)
ReceivedInOrder ==
    /\ Len(received) <= commitIndex + 1
    /\ \A k \in 1..Len(received) :
          /\ received[k].index = k - 1
          /\ received[k].command = log[k].command
          /\ received[k].term >= log[k].term

(* While there are entries to send, a notification is under way: the client *)
(* never waits for a commit to come.                                        *)
NoLostWakeup ==
    commitIndex > lastApplied => notifying \/ ready > 0 \/ sender = "locking"

(* The sender has taken a notification and waits for mu, whose holder waits *)
(* for room in the channel: for ever.                                       *)
Wedged == sender = "locking" /\ notifying /\ ready = Capacity

(* What is committed reaches a client that keeps reading, also when the CM  *)
(* is stopped in between (the notifications left in the closed channel are  *)
(* drained), unless the pipeline gets wedged or the harness closes the      *)
(* client's channel: nothing else stops it.                                 *)
CommittedDelivered ==
    \A k \in 0..MaxCommands :
        commitIndex >= k ~> Len(received) > k \/ Wedged \/ chanClosed

(* A Shutdown of the harness is safe once everything committed has been     *)
(* collected: the notifications left over make the sender send nothing, so  *)
(* only an entry not yet delivered can meet the closed channel and panic.   *)
QuietShutdown == panicked => Len(received) <= commitIndex

(* Submit's comment: "This function doesn't block". It returns for a client *)
(* that keeps reading its commit channel.                                   *)
SubmitReturns ==
    \A s \in Submitters : submitter[s] = "waiting" ~> submitter[s] = "returned"

(* Why the three invariants above hold: the inductive part of the argument. *)
TypeOK ==
    /\ log \in Seq([command : Nat, term : Nat])
    /\ commitIndex \in Nat \cup {-1} /\ lastApplied \in Nat \cup {-1}
    /\ currentTerm \in Nat /\ nextCommand \in Nat
    /\ isLeader \in BOOLEAN /\ dead \in BOOLEAN /\ notifying \in BOOLEAN
    /\ ready \in 0..Capacity
    /\ sender \in {"waiting", "locking", "sending", "done"}
    /\ batch \in [next : Nat, last : Nat \cup {-1}, term : Nat]
    /\ received \in Seq([command : Nat, index : Nat, term : Nat])
    /\ submitter \in [Submitters -> {"idle", "waiting", "returned"}]
    /\ chanClosed \in BOOLEAN /\ panicked \in BOOLEAN

(* What is taken is committed, and what is committed is in the log.         *)
TakenCommittedLogged == lastApplied <= commitIndex /\ commitIndex < Len(log)

NoFutureTerms == \A k \in 1..Len(log) : log[k].term <= currentTerm

(* The client has what was taken, up to the batch under way, and the batch  *)
(* was taken in a term that no entry of it exceeds.                         *)
BatchFollowsReceived ==
    IF sender = "sending"
    THEN /\ batch.last = lastApplied
         /\ batch.next = Len(received) /\ batch.next <= batch.last
         /\ \A k \in batch.next..batch.last : log[k + 1].term <= batch.term
    ELSE Len(received) = lastApplied + 1

(* The only panic is that of commitChanSender in the middle of a batch.     *)
PanicsSending == panicked => sender = "sending" /\ chanClosed

PipelineInv ==
    /\ TypeOK
    /\ TakenCommittedLogged
    /\ NoFutureTerms
    /\ BatchFollowsReceived
    /\ PanicsSending
    /\ ReceivedInOrder
    /\ NoLostWakeup

OneLog == INSTANCE CommittedLog WITH
    Reader    <- {"client"},
    committed <- [k \in 1..(commitIndex + 1) |-> log[k].command],
    known     <- [r \in {"client"} |-> [k \in DOMAIN received |-> received[k].command]]

(* The client is one more reader of the one log that the servers keep: it   *)
(* learns of longer and longer prefixes of what is committed, and of no     *)
(* more, whatever the CM rewrites, whoever leads and when it is stopped.    *)
ImplementsCommittedLog == OneLog!Spec
=============================================================================
