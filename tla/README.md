# Raft in three parts: models, model checking and proofs

The repository builds Raft in three independent Go packages, and this
directory holds a TLA+ development of them.

| package | what it has |
|---|---|
| `part1_election` | leader election and heartbeats, no log |
| `part2_commandsAndLogReplication` | the same with commands, log replication, commit index, commit channel |
| `part3_electionDynamicCluster` | Part 1's election with a peer set that can grow (`SetPeers`) and a `Stop` that waits |
| `tools/raft-testlog-viz` | turns the log of a test run into an HTML table |

Part 2 is the core: it has elections and the log. Part 3 is modelled for its
growing cluster and its `Stop`, Part 1 for the goroutines of its election timers
and, as its server and harness are nearly those of the other parts, for
connections and shutdown.

## Inventory

### Consensus module (`raft.go` of each part)

State, all under `cm.mu`: `state` (Follower, Candidate, Leader, Dead),
`currentTerm`, `votedFor`, `electionResetEvent`; in Part 2 also `log`,
`commitIndex`, `lastApplied`, `nextIndex`, `matchIndex`, and three channels:
`newCommitReadyChan` (buffered, 16), `commitChan` (the client's, unbuffered in
the harness), `ready`. Nothing is persisted: a stopped server is gone.

| operation | runs | locks `mu` |
|---|---|---|
| `RequestVote`, `AppendEntries` | in a goroutine of the RPC server, one per request | once, for the whole handler |
| `runElectionTimer` | a goroutine per timer, started by `becomeFollower` and `startElection`, ticks every 10 ms, until the state or the term is not its own | to read the term, then once per tick |
| `startElection` | from the timer, under `mu`; starts a goroutine per peer | |
| ... the goroutine per peer | reads the log, calls, handles the reply | twice, not during the call |
| `startLeader` | under `mu`; starts the heartbeat goroutine | |
| `leaderSendHeartbeats` | every 50 ms; starts a goroutine per peer | once |
| ... the goroutine per peer | reads `nextIndex` and the log, calls, handles the reply | twice, not during the call |
| `Submit` (Part 2) | by a client | once |
| `commitChanSender` (Part 2) | a goroutine for the CM's life: receive a notification, take the new entries under `mu`, send them without `mu` | once per notification |
| `SetPeers` (Part 3) | by the harness when a server joins | once |
| `Stop` | by the owner of the server | once |

What makes it hard:

- every step of a goroutine between two critical sections can meet any change
  of state: the arguments of a call, and the comparison of its reply, use
  values that were read earlier (`savedCurrentTerm`, `ni`, `entries`);
- an RPC has no order with respect to any other, also not between the same two
  servers, and a request may run long after its caller has given up;
- a reply is matched with the election or the leadership it belongs to by its
  term only, and not always by the current one;
- `entries` and `cm.log` share an array across an unlock;
- `newCommitReadyChan` is written with `mu` held, and its reader takes `mu`.

What makes it correct: one leader per term; terms do not decrease; logs that
share an entry share what is before it; what is committed is on a majority, is
in the log of every later leader and is never rewritten; a leader's
`matchIndex` is true of the peer and `nextIndex` stays in range; the client
gets the committed entries once each and in order, and eventually; a
server that has to start an election has a timer for it; an outdated leader that
can be reached steps down; `Stop` and `Shutdown` return; no handler panics or
blocks for ever.

### Server and RPC proxy (`server.go`)

State: peer clients, the listener, a `quit` channel, a wait group. `Call` fails
at once if the peer's client is nil (disconnected) and otherwise waits for the
answer without a time limit; `RPCProxy` delays a request by 1 to 5 ms and, with
`RAFT_UNRELIABLE_RPC`, drops (an error to the caller) or delays it by 75 ms.
Hard: a call that fails when its client is closed, though its request was sent.

### Test harness (`testharness.go`)

State: the servers, `connected` flags, in Part 2 the collected commits. Connects,
disconnects and shuts down servers, adds servers (Part 3), and asserts what the
tests assert (`CheckSingleLeader`, `CheckCommitted`). Hard: servers are
connected one call at a time; shutdown closes channels that goroutines of the
servers still use.

### Visualizer (`tools/raft-testlog-viz/main.go`)

Reads `go test -v` output with three regular expressions and writes an HTML file
per test; a test that was run again gets a number after its name, and so a file
of its own. Sequential, and nothing about it is hard to test.

### Interactions

Client or harness calls `Submit`, `Stop`, `SetPeers`; a CM calls
`server.Call`; the peer's RPC server calls `RPCProxy`, which calls the peer's
CM; the CM's sender writes on the client's `commitChan`. CMs share no memory,
except that all run in one process in the tests, so a panic in one ends all.

## Modules

| module | models | state and actions |
|---|---|---|
| `LogOps` | the pure log computations of Part 2: `lastLogIndexAndTerm`, the up-to-date test, the consistency check, the splice of `AppendEntries`, the leader's commit scan | operators, no state, no recursion |
| `Replication` | Part 2's CMs of a whole cluster and the RPCs between them | below |
| `CommittedLog` | what a cluster promises about committed entries: an abstract specification | `committed`, `known` |
| `ReplicationRefinement` | that `Replication` implements `CommittedLog` | a refinement mapping |
| `MCReplication` | budgets, symmetry and constraints for TLC | |
| `Replication_proofs` | theorems about `Replication`: types, terms, elections | |
| `ReplicationHistory`, `LogMatching_proofs` | what a state tells of its past, and the theorems about logs and indices | |
| `CommitHistory`, `CommitSafety_proofs` | who secures an entry, and the theorems about what is committed | |
| `ReplicationRefinement_proofs` | the proof that `Replication` implements `CommittedLog` | |
| `LogLoops`, `MCLogLoops` | the two loops over the log, one action per iteration, against `LogOps` | locals of the loops |
| `LogLoops_proofs` | the loop invariants, and that the loops end as `LogOps` says | |
| `CommitPipeline`, `MCCommitPipeline` | one CM, its notification channel, `commitChanSender`, the client that reads and clients that submit, shutdown; that it implements `CommittedLog` | below |
| `CommitPipeline_proofs` | theorems about it, its refinement of `CommittedLog` included | |
| `Membership`, `MCMembership` | Part 3's CMs, their `Stop`, and the harness that adds servers | below |
| `Membership_proofs` | theorems about it | |
| `Election`, `MCElection` | Part 1's CMs with the goroutines of their election timers | below |
| `Harness`, `MCHarness` | `Election` composed with Part 1's servers and the test harness: disconnect, reconnect, shutdown | below |
| `Harness_proofs` | theorems about both: types, timers, the harness's flags | |

### Replication

One action is one critical section of `cm.mu`, with everything it does.

| action | code (`part2_commandsAndLogReplication/raft.go`) |
|---|---|
| `ElectionTimeout` | a tick of `runElectionTimer` that finds the timeout over, with `startElection` |
| `SendRequestVote` | the first critical section of a vote goroutine |
| `RequestVote`, `RequestVoteAtDead` | the handler |
| `HandleVoteReply` | the second critical section, with `startLeader` |
| `Submit` | `Submit` at a leader |
| `LeaderSendHeartbeats` | `leaderSendHeartbeats`: the goroutines are started with the term of now |
| `SendAppendEntries` | the first critical section of a heartbeat goroutine, which may panic |
| `AppendEntries`, `AppendEntriesAtDead` | the handler, with the splice, the commit index and its notification |
| `HandleAppendReply` | the second critical section, with the commit scan |
| `AppendEntriesFails` | `Call` returns an error |
| `Stop` | `Stop` |

A call is a record in `voteCalls` or `appendCalls` that goes through the stages
of its goroutine: `spawned`, `request`, `reply`. A set has no order, so calls
overtake each other freely. A call that never gets an answer is one that stays
where it is. When `Call` fails, the request may survive as an `orphan` which
runs at the peer and whose answer nobody reads. The network of the code never
duplicates a request (TCP, `net/rpc`), and neither does the model.

Time is left out: whoever may start an election may do so now. One relation of
times is kept, as the constant `PromptReplies`: a call returns sooner than the
shortest election timeout (150 ms), so none of a server's calls outlives the
wait before its next election. It holds for a network that is not
overloaded (the slowest path of `RPCProxy` is 75 ms), but the code does not
enforce it, as `Call` has no time limit. It is `TRUE` in the passing runs and
an assumption of most theorems about `Replication`, and run `late_vote` shows what happens without
it. Requests, unlike replies, may be arbitrarily late in every run: that is
what orphans are.

`votesReceived` is per election, because each election's goroutines capture a
variable of their own. It is a set of voters where the code counts: each peer
gets one call per election, so the two are the same. `panicked` is the end of
the process; after it nothing happens.

With `TornReads`, an `AppendEntries` handler that overwrites its log in place
may replace the tail of the entries of a request that is being encoded. In
Go the outcome of this race is undefined; the model takes the mildest outcome,
in which each entry is either the old one or the new one.

Servers whose `Stop` was called keep handling replies, as the code does: the
reply to a heartbeat with a newer term makes such a server a follower again,
which votes, may stand for election, and panics when it commits, because `Stop`
has closed `newCommitReadyChan`. Run `elections` has a `Stoppable` server, so
the election properties are checked against this too.

### CommittedLog

The promise to the clients, whatever leaders, terms and messages do: there is
one log, `committed`, which only grows, and each reader knows a prefix of it
(`known`), which only grows too. Two systems implement it:

- `ReplicationRefinement`: the readers are the servers, each knows its log up
  to `commitIndex`, and the one log is that of a server with the largest
  `commitIndex`. This is stronger than `StateMachineSafety` with
  `CommittedDurable`: a server may not exchange, drop or reorder an entry in any
  step, and a server that becomes the foremost one must continue the log
  of the one before.
- `CommitPipeline`: the one reader is the client, which knows what it has read
  from `commitChan`.

So what the client of a server reads is, by way of the same abstraction, a
prefix of what the cluster has committed.

### Membership

Part 3's CMs and the harness's `AddServer`. The stages of a call, the
abandoned calls, the absence of time and the constant `PromptReplies` are as in
`Replication`; a call has no `spawned` stage, because Part 3's goroutines read
nothing under `mu` before they call. New are `peers`, which differ from server
to server, and `clusterSize`, which an election captures when it begins (a call
carries it as `size`). Each election has a `votesReceived` of its own, which its
goroutines share: `counted` holds `<<term, peer>>` for each vote, and
`VotersIn(i, term)` is one election's tally. The handler only asks whether its
server is a candidate, so a reply is counted in the election that asked for it
and may make its server a leader of whatever term it stands in by then;
`PromptReplies` keeps that from happening.

A test calls the harness from one goroutine, and its `Shutdown` comes last. So no
server is stopped while one is being added, and none is added after a `Stop`.
The `Stop`s of several servers may overlap in the model, which is more than
the harness's loop does.

| action | code (`part3_electionDynamicCluster`) |
|---|---|
| `AddServer` | `AddServer` up to its last loop: the new server is created with all others as peers and runs at once |
| `SetPeers` | an iteration of that loop: one server learns of the new one |
| `ElectionTimeout`, `RequestVote`, `RequestVoteAtDead`, `HandleVoteReply` | as in `Replication`; votes are counted against `clusterSize` |
| `LeaderSendHeartbeats`, `AppendEntries`, `AppendEntriesAtDead`, `HandleAppendReply`, `AppendEntriesFails` | heartbeats without a log |
| `RequestVoteFails`, `AppendEntriesFails` | `Call` returns an error, or the goroutine sees that `quit` is closed |
| `Stop` | `Stop` under `mu` |
| `StopReturns` | its `wg.Wait()`: no goroutine of the server is inside `Call` or has an answer left |

Two sizes that differ by one have majorities that share a server; sizes that
differ by two need not. So `ElectionSafety` holds while one server joins, which is
run `one_join`, and fails if a second one joins during the same
election (with `MaxServers = Initial + 2` and an old and a new server that both
stand in term 1, TLC finds a leader with two votes of three beside one with
three of five, in seconds). The code says that it is not a
joint-consensus membership change (`raft.go:43`), so this is a stated limit of
Part 3 and no finding.

### CommitPipeline

One CM, with what the cluster makes it do chosen freely within what
`Replication` shows: entries at or below `commitIndex` are not rewritten
(`CommittedPrefixStable`), and the new ones of a request have terms up to the
leader's, in the order of a log. A stopped CM stays stopped here. A handler that advances `commitIndex` holds `mu`
until its notification is in the channel (`notifying`), and
`commitChanSender` is at one of `waiting` (on the channel), `locking` (for
`mu`), `sending` (an entry to the client) and `done`. Because
`entries := cm.log[...]` is a slice of the log, only its indices are taken, and
the entries are read as they are sent.

The harness is the client. After `Stop` its `Shutdown` closes `commitChan`
(`CloseCommitChan`) and does not wait for `commitChanSender`, which panics if it
is still sending (`SendOnClosed`). `QuietShutdown` says when that cannot happen:
once the client has everything that was committed.

### Election

| action | code (`part1_election/raft.go`) |
|---|---|
| `TimerStart` | `runElectionTimer` reads the term |
| `TimerBailsOut` | a tick that finds the state or the term changed |
| `ElectionTimeout` | a tick of a timer of the current term that finds the timeout over, with `startElection` |
| `RequestVote`, `AppendEntries`, `AnsweredByDead` | the handlers |
| `GetClient` | the first half of `Server.Call`, for either kind: the goroutine fetches the client, and ends if there is none |
| `HandleVoteReply` | the goroutine of a vote, after its `Call`; with `startLeader` |
| `LeaderSendHeartbeats` | a round of `leaderSendHeartbeats` |
| `HandleAppendReply` | the goroutine of a heartbeat, after its `Call` |
| `RPCProxyDrops` | the lots that `RPCProxy` draws with `RAFT_UNRELIABLE_RPC` (`server.go`) |
| `Stop` | `Stop` |

A server has any number of timer goroutines: `starting` counts those that have
not read the term yet, and `timers` is the bag of the terms the others have
read. Two timers of the same term may run, which is harmless: the first that
expires begins a new term. `TimerAlive` is what must not go wrong: a timer may
only bail out if it leaves another behind, or its server needs none.

Only vote replies are compared with the state. The reply to a heartbeat is
compared with the term of the heartbeat and with nothing else
(`HandleAppendReply`), so it may also set a term back, or revive a stopped
server. Part 1 keeps neither `TermMonotone` nor, as `part1_split` shows,
`ElectionSafety`. Replies are prompt: a server's calls are over when it starts
its next election.

A goroutine fetches the client of its peer some time after it was started
(stage `spawned`): the harness may disconnect the peer in between, or reconnect
it and let the call of a lonely election through. One bound has no counterpart
in the code: a leader has one heartbeat per peer under way, where the code sends
the next after 50 ms, whatever became of the last. It bounds the calls that
handlers and harness meet, and the order of two heartbeats of one leader is the
subject of `replication`.

### Harness

The harness is one goroutine. `DisconnectPeer`, `ReconnectPeer` and `Shutdown`
are sequences of calls that take one server's `mu` each, and between any two of
them the cluster goes on. So an operation is a sequence of steps (`op.todo`),
and a step is a set of clients that are closed, or opened, together.

| action | code (`part1_election/testharness.go`, `server.go`) |
|---|---|
| `DisconnectPeer`, `ReconnectPeer`, `Shutdown` | the call; its steps are `DisconnectSteps`, `ReconnectSteps`, `ShutdownSteps` |
| `DisconnectGoesOn`, `ReconnectGoesOn`, `ShutdownGoesOn` | not actions but the part of the next two that is the harness's: on to the next server of the loop, and the flags |
| `CloseNext` | `Server.DisconnectAll` or `Server.DisconnectPeer`: the calls that wait on these clients fail, and a request may still arrive |
| `OpenNext` | `Server.ConnectToPeer` |
| `StopNext` | `Server.Shutdown` up to its wait: `Stop`, the listener |
| `ServerDown` | its `wg.Wait()`: all connections to this server have ended and their requests have been run (`ConnectionsEnded`) |
| all actions of `Election` | with `clients`, which they read, as the harness left it |

`ReconnectPeer` also connects to servers that are themselves disconnected, and
leaves their `connected` flag alone, although the comment on the flag says that
a server without it is partitioned (`testharness.go:17`). So `FlagsHonest` claims
the other direction only: servers that have the flag can call each other.

`HarnessAssumption` says that the servers are numbered from 0, as `NewHarness`
does, and that there are at least two: with one, `ReconnectPeer` has no step.

## Runs

Elections and commands are bounded by budgets (`ElectionBudget` per server,
`MaxCommands`), the calls under way by `MaxVoteCalls`, `MaxAppendCalls` and
`Slots` (per pair of servers), requests without a caller by `MaxOrphans`.
Budgets run out and a majority may be stopped, so a run may end:
`CHECK_DEADLOCK FALSE`, and blocking, which that setting would hide, is what
`CommittedDelivered`, `SubmitReturns`, `StopEnds` and `ShutdownReturns` are about.

| run | bounds | checks |
|---|---|---|
| `elections` | 3 servers; 2 elections of `a`, 1 of `b`; 2 vote calls, 1 heartbeat, 1 orphan of each kind per caller; `a` may be stopped | `TypeOK`, `ElectionInv`, `ElectionSafety`, `TermMonotone` |
| `replication` | 3 servers; 1 election of `a` and of `b`, votes from `c`; 3 commands; 2 AppendEntries under way, of one leader or of both, two at a time to `c` only | `LogMatching`, `MatchIndexHonest`, `NextIndexInRange`, `CommittedPrefixStable` |
| `old_term_entries` | 3 servers; 2 elections of `a` and of `b`; 2 commands; one call under way | `LeaderCompleteness`, `StateMachineSafety`, `CommittedDurable`, `ImplementsCommittedLog` |
| `log_loops` | logs and requests of up to 3 entries of 3 terms; clusters of 1 to 4 servers | `InsertsAsSpliced`, `ScanFindsLastCommittable` |
| `commit_pipeline` | channel of capacity 1, 4 commands, 3 terms, 1 submitter, shutdown at any time after `Stop` | `ReceivedInOrder`, `NoLostWakeup`, `QuietShutdown`, `PipelineInv`, `CommittedDelivered`, `ImplementsCommittedLog` of `CommitPipeline` |
| `one_join` | servers 0 to 2 and 3, which joins; 0 stands in terms 1 and 2, 3 in term 1; 2 vote calls, 1 heartbeat, 1 late vote request; 0 and 1 may be stopped | `TypeOK`, `ElectionInv`, `ElectionSafety`, `TermMonotone`, `StopEnds` of `Membership` |
| `reconnect` | 2 servers with 1 election each, RPCs dropped, 1 late request; server 0 is disconnected or reconnected twice, then shutdown | `HarnessTypeOK`, `TimerAlive`, `FlagsHonest`, `OutdatedStepsDown`, `ShutdownReturns` |
| `late_vote` | as `elections`, replies late, `c` as rival | `ElectionSafety`: violated |
| `lost_commit` | 5 servers, 1 election each of `a`, `b` and `c`, 2 commands | `StateMachineSafety`: violated |
| `torn_request` | 5 servers, 4 commands, `TornReads` | `LogMatching`: violated |
| `submit_blocks` | channel of capacity 1, 3 commands, 2 terms, 1 submitter, no shutdown | `SubmitReturns`: violated |
| `part1_split` | 3 servers of Part 1, 1 election each, reliable RPCs | `ElectionSafety` of `Election`: violated |

Why these bounds are enough to meet the interesting cases:

- Three servers are the smallest cluster with a majority that is not everyone,
  and `a` against `b` with `c` as the swing vote is the smallest contest. Two
  elections of the same server are needed for its own old replies and requests
  to meet its new ones.
- `old_term_entries` is figure 8 of the Raft paper: `a` leads, `b` leads, `a`
  leads again and replicates its old entry. It needs four elections and two
  commands, and no two calls at the same time: constraint `OneCallAtATime`
  leaves the order of calls and where each stops free. That the figure is
  reached is what the mutant `CommittableAnyTerm`, which commits an entry of an
  old term, shows: it violates `CommittedDurable`.
- Calls that overlap are the subject of `replication`: two of a leader to one
  follower, answered in either order, or one of a deposed leader beside one of
  its successor. Constraint `VotesAndPairsToC` makes `c` the voter of both
  elections (a voter other than `c` would be the rival itself) and the follower
  that gets two at a time; `a` and `b` get one at a time from each other.
- `one_join` has an even cluster as its larger one (where half is not a
  majority). Term 1 is contested by server 0, which counts against three if it
  began before it was told of server 3 and against four otherwise, and by
  server 3, which counts against four and asks for votes as soon as it has
  joined, before the others know it. All the encounters are reached: 0 and 3 as
  candidates of term 1 with sizes 3 and 4 and votes from others, 3 leading while
  0 is a candidate against three, and the other way round. 0 stands once more in
  term 2, when its old requests may still be on their way. Servers 0 and 1 may be
  stopped, so a stopping server waits for a peer that is being stopped as well.
  A candidate that counts one server too few (mutant `PeersOnly`) gets two
  leaders elected.
- In `reconnect` two servers are enough: each is a majority only with the other,
  so every election needs a client that the harness opens and closes.
  An outdated leader arises when a leader is disconnected and the other stands
  for election. To reconnect a server that is connected changes nothing, so two
  operations include the tests with fewer.
- `SYMMETRY SwapAB` is used where `a` and `b` have the same budget, are not told
  apart by any constant, and no liveness property is checked.
- The constraints `LateHeartbeatOfA`, `SlowRequestsOfA` and `RivalsOfALeader`
  are used only in runs that look for a violation: they keep the search near a
  known schedule and remove behaviours, never add any.
- Capacity 1 makes the notification channel full after one notification. The
  code has 16: every state of the channel (empty, in between, full) that a guard
  tells apart is empty or full. A backlog of 16 needs 16 commits that a slow
  client has not read, and two more.

### Fairness

Three specifications state fairness, and each conjunct has its reason.

`CommitPipeline`:

- `WF(Notify)`, `WF(Receive)`: a goroutine whose channel operation stays
  possible gets to run (the Go scheduler).
- `SF(Take)`, `SF(Submit)`: a goroutine that waits for `mu` gets it if `mu` is
  free again and again. `sync.Mutex` passes itself on to a waiter of more than
  1 ms (starvation mode).
- `WF(Deliver)`: the client keeps reading. A client that does not read is
  outside the promise.

`Membership` (`StopFairness`), for each server that may be stopped: as long as
its calls can go on (a request runs at its peer, a goroutine handles an answer)
or `wg.Wait` can return, one of these happens. Handlers and goroutines only wait
for `mu`, which nobody holds for long in Part 3. Nobody is assumed to close the
clients, and calls need not fail.

`Harness` (`HarnessFairness`):

- `WF(HarnessGoesOn)`: the harness's goroutine runs on within an operation. It
  is under no obligation to begin one.
- `WF(LeaderSendHeartbeats)`: the ticker of a leader ticks.
- `WF(CallRuns)`, `WF(ReplyRuns)`: a goroutine that has been started fetches its
  client, and one with an answer handles it.
- `SF(RequestRuns)` per pair of servers: `RPCProxy` drops a request in one of
  ten cases, by lot, so of infinitely many some get through. Weak fairness would
  be too little: a dropped request disables its action.

Nothing is fair about timeouts, terms, commands, commits or `Stop`. No
election is promised to end: split votes may repeat for ever, and only chance
ends them.

## What the checks found

Five runs are expected to fail; each is a disagreement of the code with its own
documentation, and each has a finding in `PROJECT.json`.

1. `late_vote`. The handler of a vote reply checks that the server is a
   candidate and that the reply has the term of the election it was sent in,
   not that this is the election under way. A vote of term 1 that arrives
   during the election of term 2 makes a leader of term 2. It takes a
   reply later than an election timeout.
2. `lost_commit`. `leaderAppendEntries` starts a goroutine per peer which locks
   `mu` again and looks neither at the state nor at the term. If its server has
   stepped down in between, it sends what is now a follower's log, with a
   follower's `commitIndex`, under the term it once led. In the run, `a` leads
   term 1, `b` term 2 and `c` term 3. `a` follows `c` and learns from it that an
   entry is committed; the late goroutine of `a` passes both on under term 1;
   `e`, which has heard of no later term, commits the entry. Then `b`, which has
   not heard of term 3, overwrites it at `e` with an entry of its own, and two
   servers take different entries to be committed. The same missing check makes
   the slice of the log at the old `nextIndex` panic if the log has been cut
   meanwhile. The theorems about commits state what holds without such a late
   goroutine.
3. `torn_request`. The entries of a request alias the log and are encoded
   without `mu`.
4. `submit_blocks`. `newCommitReadyChan` is full, its sender holds `mu`, and
   `commitChanSender` has taken a notification and waits for `mu`. The CM is
   blocked for ever, and `Submit` with it. `CommittedDelivered` of
   `commit_pipeline` shows that this is the only thing that stops a committed
   entry on its way to a client whose channel stays open.
5. `part1_split`. In Part 1 a server leads in term 1 and the two others stand in
   term 2. It votes for one of them. Then the reply to one of its own
   heartbeats arrives, with term 2, and makes it a follower of term 2 a second
   time: `votedFor` is cleared, and it votes for the other one too. Part 2
   compares such a reply with `currentTerm`, Part 3 first asks whether the
   server still leads; neither has this fault.

Everything else checked holds.

## Proofs

All theorems hold for every set of servers (or number of peers, or capacity of
the channel), every budget and every bound.

### Elections: `Replication_proofs`

- `TypeCorrect`: `Spec => []TypeOK`. The ranges matter: `matchIndex` is at
  least -1, and the entries of a log are entries. It needs what `Spliced`
  returns (`SplicedType`) and what becomes of calls (`AbandonedVotes`,
  `AnsweredVote`, ...). No assumption on `PromptReplies` or `TornReads`.
- `ElectionInvariant`: with `PromptReplies`, `Spec => []ElectionInv`.
- `ElectionSafe`: with `PromptReplies`, `Spec => []ElectionSafety`.
- `TermsNeverDecrease`: with `PromptReplies`, `Spec => TermMonotone`.

`ElectionSafety` is not inductive. `ElectionInv` says why it holds, in four
parts. `SupportersPledged`: whoever a candidate or leader has counted, or whose
granted vote is still on its way to it, has it in `votedFor` or has moved on to
a later term. `NoCommonSupporter`: no server supports two candidates of a term.
The second does not follow from the first, because a server that has moved on
has forgotten its vote. `NoStaleVoteCalls`: the answers a candidate waits for are
those of its present election; this is what `PromptReplies` gives, and where
the proof would fail without it, as `late_vote` does. `WonByMajority`: a leader
counted more than half. Two leaders of a term would have two majorities, which
share a server (`FS_MajoritiesIntersect`), which would support both.

A step can disturb these parts in few ways. `VoteStep` names them: terms only
grow, and within a term a vote is not changed except by the server's own
election or by becoming a follower. `NextVoteStep` shows it of every action,
`PledgeKept` that pledges survive it, and `QuietStep` deals with all actions
that touch no vote call. `ElectionInvStep` then goes through the actions.
A candidate that becomes a follower in its own term loses its vote
(`becomeFollower` sets `votedFor` to -1). That does not
break the invariant, because it no longer is active, and its own vote was for
itself.

### Logs: `LogMatching_proofs`

With `PromptReplies` and without `TornReads`:

- `LogsMatch`: `Spec => []LogMatching`.
- `MatchIndicesHonest`: `Spec => []MatchIndexHonest`.
- `NextIndicesInRange`: `Spec => []NextIndexInRange`.

Why a log is as it is lies in the past, and the model keeps no history. So the
invariant, `LogInv`, says that there is a history which fits the state
(`ReplicationHistory`): functions that give for every term who won it
(`winner`), with whose votes (`won`), and what log the winner had (`lead`).
`Fits` then says that votes once spent are not given again (`VotesSpent`), that
who leads has its term's log (`LeadersKnown`), that each entry of any log, and
all before it, comes from the leader of its term (`LogsTraced`), that a request
carries a part of some leader's log, and of the caller's own while it still
leads (`RequestKnown`), that a reply tells the truth of its peer (`ReplyKnown`),
and that so do `nextIndex` and `matchIndex` (`PeerKnown`).
`LogInvariant` proves it. In an induction step the history stays, or the log of
a leader grows in it (`SubmitStep`), or a term gets its winner (`LeaderStep`);
that nobody else has won this term or can still win it is `NoSpentSupporter`,
which rests on `ElectionInv`. `SplicedAgrees` is the fact about the code's two
index loops: a log that passed the consistency check agrees, after the splice,
with the log the request came from.

These theorems include heartbeat goroutines that lock `mu` late: what they send
is a log that fits the history too, and no longer counts for `matchIndex`.

### Commits: `CommitSafety_proofs`, `ReplicationRefinement_proofs`

With `PromptReplies`, without `TornReads`, of `Spec /\ [][~LateSend]_vars`: the
behaviours in which no heartbeat goroutine locks `mu` after its server has lost
the goroutine's term. Without this hypothesis the statements are false, which is
run `lost_commit`.

- `CommittedEntriesAgree`: `StateMachineSafety`.
- `LeadersComplete`: `LeaderCompleteness`.
- `CommittedEntriesDurable`: `CommittedDurable`.
- `CommittedPrefixesStable`: `CommittedPrefixStable`, which `CommitPipeline`
  takes for granted.
- `NothingPanics`: if no server is stopped, `panicked` stays `FALSE`.
- `ReplicationImplementsCommittedLog`: if there is a server at all, the
  refinement of `CommittedLog`.

The invariant, `CommitInv` (`CommitHistory`), adds to a fitting history what is
known of entries. An entry is `Secured` by a set of servers if each of them
has it, every leader of a later term has it, and so does every
candidate of a later term that one of them supports. A set is `Bypassed` if a
later term was won without a vote of the set. `EntrySecured`: an entry of a
leader's own term is secured by its `Holders` (those whom the leader counts, or
will when an answer arrives), or they are bypassed. A majority cannot be
bypassed (`MajorityNotBypassed`), so what a leader finds on a majority is
secured, and `CommitKnown` and `LeaderCommitKnown` say that every `commitIndex`,
a server's or one under way in a request, stands for an entry that is secured by
a majority.

The step that matters is a vote: `UpToDateContains` shows that a log at least as
up to date as one with a secured entry has the entry too. It needs that terms
along a log do not decrease (`LeadersOrdered`) and the induction over terms that
`Secured` has built in: all leaders of later terms so far have the entry. That
only an entry of the leader's own term may be committed by counting is needed in
`EntrySecured`; the mutant `CommittableAnyTerm` breaks it.

For the refinement, the abstract log is that of a server with the largest
`commitIndex` (`ForemostIsForemost`). A step changes the `commitIndex` of one
server at most (`OneCommitIndex`). If that server becomes the foremost one, its
log continues the one before, because both are prefixes of what is committed
(`CommitsAgree`) and nothing committed is rewritten (`CommittedKept`).

### The loops: `LogLoops_proofs`

`InsertionCorrect` and `CommitScanCorrect`: the loops of `AppendEntries` and of
the commit scan end as `LogOps` says, for logs of every length. `InsertInv` is
the first loop's invariant: the entries before `newEntriesIndex` are those the
log has already. `ScanInv` is the second's: `commitIndex` is the last committable
index among those visited, and `matchCount` is one more than the number of
visited peers that have the entry. This is where the model of one step per handler
(`Replication`) is tied to the code's loops.

### The commit channel: `CommitPipeline_proofs`

- `PipelineInvariant`: `Spec => []PipelineInv`, and from it
  `ClientReadsInOrder` (`ReceivedInOrder`), `WakeupsKept` (`NoLostWakeup`) and
  `ShutdownAfterAllCollected` (`QuietShutdown`).
- `RefinesCommittedLog`: `Spec => ImplementsCommittedLog`.

`PipelineInv` is inductive, and run `commit_pipeline` checks it as well. It says
where each committed entry is: read by the client, in the batch that
`commitChanSender` is sending, or above `lastApplied`, in which last case a
notification is in the channel or about to be put there, or the sender has one
in hand. It also says that the indices of a batch stay within the committed
part of the log, which is why entries may be read after `mu` is released.

### Growing clusters: `Membership_proofs`

`TypeCorrect` has no hypothesis. `ElectionInvariant`, `TermsNeverDecrease` and
`LeadersOfOneTerm` (two leaders of a term were elected with cluster sizes that
differ by at least two) assume `PromptReplies`. `ElectionSafe` assumes this and
`MaxServers <= Initial + 1`: one server joins. Part 3's handler of a vote reply
has the missing test of Part 2's (`late_vote`), and with `PromptReplies` false,
servers 0 and 3 standing in terms 1 and 2 and three calls, TLC finds two leaders
of a term in a few seconds. The argument is that of `Replication_proofs`,
with a difference: the votes are a majority of `clusterSize`, which is what the
candidate knew when it began, and `ElectionInv` has to relate it to the set of
servers that existed then. Two majorities, of n and of n + 1 servers, are
together larger than n + 1 and so share a server.

### Timers and the harness: `Harness_proofs`

Of `HarnessSpec`, in which every step is one of `Election` with the harness as
it was, or one of the harness (`HarnessOrServers`):

- `TypeCorrect`: `HarnessTypeOK`. The timers stay bags (`TimerAdded`,
  `TimerRemoved`), and calls that are given up stay calls (`GivenUpCalls`).
- `TimersAlive`: `TimerAlive`, for any number of servers, elections and timers.
- `FlagsStayHonest`: `FlagsHonest`, for any sequence of operations.

`TimerAlive` is inductive with the types. Its argument is short, once the
timers of a server are a bag: becoming a follower or starting an election adds a
goroutine that has yet to read the term (`FollowerAlive`), and a timer that
bails out takes only one of another term out of the bag.

`FlagsHonest` says nothing while an operation is under way, and so cannot be
inductive. `FlagsInv` says what holds in between. While a server is
disconnected, the others that have the flag are still linked, as each step left
closes clients from or to that server only (`DisconnectStepsLeft`). While it is
reconnected, each client between it and any other server is open or is in a
step left (`ReconnectStepsLeft`, which rests on `OthersAreAll`: the loop over
`j # id` reaches each other server). The elections that go on do not touch the
clients (`ServersLeaveClients`). `FlagsInv` was first checked by TLC, in the
instance of run `reconnect` and with three servers and four operations.

### What is only model-checked

The liveness properties, which are out of the prover's reach:
`CommittedDelivered`, `StopEnds`, `OutdatedStepsDown` and `ShutdownReturns`.

## Not modelled, and why

- Real time: an election timeout may be over at any tick, and a call is at any
  stage for as long as it likes. Timer goroutines are modelled in `Election`; the
  code of the other two parts is the same (Part 3's also ends at `quit`), and
  `Replication` and `Membership` keep only their expiry.
- Liveness of elections: the code leaves it to random timeouts, and no fairness
  makes a split vote end.
- Sockets, `Serve` and its accept loop, `net/rpc`: library and I/O. What they do
  for the servers is in `GivenUp` (a closed client) and `ServerDown`.
- The harnesses of Parts 2 and 3 connect, disconnect and shut down with the same
  code as Part 1's, so this is modelled once. The `CheckX` functions only read,
  and what they assert is what the properties say.
- The visualizer: sequential, no shared state, and its correctness is that of
  regular expressions and of layout.
- A cluster of one server: the code never looks at the majority unless a reply
  comes, so it never elects. There is no step to model.
- A second `Stop` of a CM of Part 2, which would close a closed channel: no
  caller does that.
- Logging, `Report`: read-only.
- Commands are numbers, unique, and their content never matters to the code.
- `lastApplied` is in `CommitPipeline` only: nothing else reads it.
- The `ready` channel that starts the servers: an election cannot start
  before it, and a server that has not begun is one whose timer is late.

## Plan

Done: `LogOps` and `Replication` with their runs; `LogLoops`; `CommitPipeline`
with shutdown; `Membership` with `Stop`; `Election` with its timers; `Harness`;
`CommittedLog` and its two refinements. Proved: the safety of elections in Parts
2 and 3, of logs and of commits in Part 2, of the commit channel, of the timers
and the harness in Part 1, both refinements, and the loops.

Left: nothing that the prover can reach. The safety property of Part 1 that its
documentation claims, `ElectionSafety`, is false of it (`part1_split`).
