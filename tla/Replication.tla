---------------------------- MODULE Replication -----------------------------
(***************************************************************************)
(* Part 2's ConsensusModule (part2_commandsAndLogReplication/raft.go):     *)
(* elections, heartbeats, log replication and the commit index of a fixed  *)
(* cluster. One action per section of code that runs under cm.mu.          *)
(*                                                                         *)
(* An RPC is a goroutine of its caller and passes through stages:          *)
(*   "spawned"  the goroutine exists and has not yet locked mu to read the *)
(*              state its arguments are made of;                           *)
(*   "request"  the arguments are fixed and the peer has not run them;     *)
(*   "reply"    the peer has run them and the caller has not yet handled   *)
(*              the answer;                                                *)
(*   "orphan"   the caller's Call has failed (its client was closed), and  *)
(*              the request may still reach the peer.                      *)
(* A call whose goroutine has ended is in no set any more. Nothing orders  *)
(* two calls, also not two calls between the same servers: each has a      *)
(* goroutine of its own at both ends.                                      *)
(*                                                                         *)
(* Left to other modules or abstracted: real time (any server that may     *)
(* start an election may do so now), commitChanSender and its channels,    *)
(* logging. commitChanSender only reads this state.                        *)
(***************************************************************************)
EXTENDS LogOps

CONSTANTS
    Server,          \* server ids; the peers of a server are all the others
    None,            \* votedFor = -1
    ElectionBudget,  \* bound: elections each server may start
    MaxCommands,     \* bound: commands the clients submit
    Slots,           \* bound: heartbeats under way from one server to one peer
    MaxAppendCalls,  \* bound: heartbeats under way in all
    MaxVoteCalls,    \* bound: RequestVote calls under way in all
    MaxOrphans,      \* bound: orphans of a caller kept in memory, per RPC kind
    Stoppable,       \* the servers whose Stop may be called
    PromptReplies,   \* TRUE: Call returns sooner than the shortest election
                     \* timeout, so none of a server's calls outlives the
                     \* wait before its next election
    TornReads        \* TRUE: a request is encoded, outside mu, as late as
                     \* possible, from a slice AppendEntries may overwrite

ASSUME ServerAssumption == IsFiniteSet(Server) /\ None \notin Server
ASSUME BoundAssumption ==
    /\ ElectionBudget \in [Server -> Nat]
    /\ MaxCommands \in Nat
    /\ Slots \in Nat
    /\ MaxAppendCalls \in Nat
    /\ MaxVoteCalls \in Nat
    /\ MaxOrphans \in Nat
    /\ Stoppable \subseteq Server
    /\ PromptReplies \in BOOLEAN
    /\ TornReads \in BOOLEAN

VARIABLES
    state,          \* CMState of each server
    currentTerm,
    votedFor,
    log,
    commitIndex,
    nextIndex,      \* nextIndex[i][p]; the Go maps have no entry for i itself
    matchIndex,     \* and read 0 before the first election: both never matter
    votesReceived,  \* votesReceived[i][e]: who has been counted in i's e-th
                    \* election (the variable captured by its goroutines)
    voteCalls,      \* RequestVote calls under way
    appendCalls,    \* AppendEntries calls under way
    nextCommand,    \* the next command a client submits; commands are unique
    stopped,        \* the servers whose newCommitReadyChan is closed
    panicked        \* the process has died in a Go panic

serverVars == <<state, currentTerm, votedFor>>
logVars    == <<log, commitIndex>>
leaderVars == <<nextIndex, matchIndex>>
vars == <<serverVars, logVars, leaderVars, votesReceived, voteCalls,
          appendCalls, nextCommand, stopped, panicked>>

Peers(i) == Server \ {i}
Entry    == [command : Nat, term : Nat]
Stage    == {"spawned", "request", "reply", "orphan"}

(* The parts of RequestVoteArgs and AppendEntriesArgs that are read from    *)
(* the log, and the replies. Zero replies are what Go initializes them to.  *)
VoteArgs      == [lastLogIndex : Int, lastLogTerm : Int]
NoVoteArgs    == [lastLogIndex |-> -1, lastLogTerm |-> -1]
VoteReply     == [term : Nat, voteGranted : BOOLEAN]
ZeroVoteReply == [term |-> 0, voteGranted |-> FALSE]

AppendArgs == [prevLogIndex : Nat \cup {-1}, prevLogTerm : Int,
               entries : Seq(Entry), leaderCommit : Int]
NoAppendArgs == [prevLogIndex |-> -1, prevLogTerm |-> -1,
                 entries |-> <<>>, leaderCommit |-> -1]
AppendReply     == [term : Nat, success : BOOLEAN]
ZeroAppendReply == [term |-> 0, success |-> FALSE]

(* A call: whose it is, its term, and what its goroutine has captured. args *)
(* count only at stages "request" and "orphan", reply only at "reply".      *)
VoteCall ==
    [caller : Server, peer : Server, election : Nat, term : Nat, stage : Stage,
     args : VoteArgs, reply : VoteReply]

(* ni and sent (the number of entries) are kept for the answer.             *)
AppendCall ==
    [caller : Server, peer : Server, slot : Nat, term : Nat, stage : Stage,
     ni : Nat, sent : Nat, args : AppendArgs, reply : AppendReply]

(* The types of the variables, with the ranges the indices stay in.        *)
TypeOK ==
    /\ state \in [Server -> {"Follower", "Candidate", "Leader", "Dead"}]
    /\ currentTerm \in [Server -> Nat]
    /\ votedFor \in [Server -> Server \cup {None}]
    /\ log \in [Server -> Seq(Entry)]
    /\ commitIndex \in [Server -> Nat \cup {-1}]
    /\ nextIndex \in [Server -> [Server -> Int]]
    /\ matchIndex \in [Server -> [Server -> Nat \cup {-1}]]
    /\ votesReceived \in [Server -> Seq(SUBSET Server)]
    /\ voteCalls \subseteq VoteCall
    /\ appendCalls \subseteq AppendCall
    /\ nextCommand \in Nat
    /\ stopped \subseteq Server
    /\ panicked \in BOOLEAN

Init ==
    /\ state = [i \in Server |-> "Follower"]
    /\ currentTerm = [i \in Server |-> 0]
    /\ votedFor = [i \in Server |-> None]
    /\ log = [i \in Server |-> <<>>]
    /\ commitIndex = [i \in Server |-> -1]
    /\ nextIndex = [i \in Server |-> [p \in Server |-> 0]]
    /\ matchIndex = [i \in Server |-> [p \in Server |-> 0]]
    /\ votesReceived = [i \in Server |-> <<>>]
    /\ voteCalls = {}
    /\ appendCalls = {}
    /\ nextCommand = 1
    /\ stopped = {}
    /\ panicked = FALSE

-----------------------------------------------------------------------------
(* becomeFollower. Its new election timer is not modelled here.            *)
BecomeFollower(i, term) ==
    /\ state' = [state EXCEPT ![i] = "Follower"]
    /\ currentTerm' = [currentTerm EXCEPT ![i] = term]
    /\ votedFor' = [votedFor EXCEPT ![i] = None]

(* startLeader. Its heartbeat goroutine is LeaderSendHeartbeats.           *)
StartLeader(i) ==
    /\ state' = [state EXCEPT ![i] = "Leader"]
    /\ nextIndex' = [nextIndex EXCEPT ![i] = [p \in Server |-> Len(log[i])]]
    /\ matchIndex' = [matchIndex EXCEPT ![i] = [p \in Server |-> -1]]
    /\ UNCHANGED <<currentTerm, votedFor>>

(* newCommitReadyChan <- struct{}{}: a panic once Stop has closed it.      *)
NotifyCommit(i) ==
    IF i \in stopped THEN panicked' = TRUE ELSE UNCHANGED panicked

OrphansOf(calls, i) == {c \in calls : c.caller = i /\ c.stage = "orphan"}

UnderWay(calls) == Cardinality({c \in calls : c.stage # "orphan"})

(* What becomes of the calls of server i when Call has returned for all of *)
(* them: the goroutines end, and of the requests still on their way some   *)
(* may yet reach their peer.                                               *)
Abandoned(calls, i) ==
    LET mine   == {c \in calls : c.caller = i /\ c.stage # "orphan"}
        others == calls \ mine
        late   == {[c EXCEPT !.stage = "orphan"] :
                       c \in {d \in mine : d.stage = "request"}}
    IN {others \cup kept : kept \in {s \in SUBSET late :
            Cardinality(OrphansOf(others \cup s, i)) <= MaxOrphans}}

(* runElectionTimer's expiry and startElection. votedFor, term and state   *)
(* change at once; each RequestVote goroutine reads the log later. targets *)
(* are the peers whose goroutine gets somewhere: Call fails at once for a  *)
(* peer whose client is closed, and the bound leaves peers out too. With   *)
(* PromptReplies the closures of earlier elections are garbage by now.     *)
ElectionTimeout(i) ==
    LET new(targets) ==
            {[caller |-> i, peer |-> p, election |-> Len(votesReceived[i]) + 1,
              term |-> currentTerm[i] + 1, stage |-> "spawned",
              args |-> NoVoteArgs, reply |-> ZeroVoteReply] : p \in targets}
    IN /\ ~panicked
       /\ state[i] \in {"Follower", "Candidate"}
       /\ Len(votesReceived[i]) < ElectionBudget[i]
       /\ state' = [state EXCEPT ![i] = "Candidate"]
       /\ currentTerm' = [currentTerm EXCEPT ![i] = @ + 1]
       /\ votedFor' = [votedFor EXCEPT ![i] = i]
       /\ votesReceived' = [votesReceived EXCEPT ![i] =
               Append(IF PromptReplies THEN [e \in 1..Len(@) |-> {}] ELSE @, {i})]
       /\ \E targets \in SUBSET Peers(i),
              rest \in IF PromptReplies THEN Abandoned(voteCalls, i)
                                        ELSE {voteCalls} :
             /\ UnderWay(rest) + Cardinality(targets) <= MaxVoteCalls
             /\ voteCalls' = rest \cup new(targets)
       /\ appendCalls' \in IF PromptReplies THEN Abandoned(appendCalls, i)
                                             ELSE {appendCalls}
       /\ UNCHANGED <<logVars, leaderVars, nextCommand, stopped, panicked>>

(* A RequestVote goroutine locks mu, reads the log and sends its request.  *)
SendRequestVote(c) ==
    /\ ~panicked
    /\ c.stage = "spawned"
    /\ voteCalls' = (voteCalls \ {c}) \cup
            {[c EXCEPT !.stage = "request",
                       !.args = [lastLogIndex |-> LastLogIndex(log[c.caller]),
                                 lastLogTerm |-> LastLogTerm(log[c.caller])]]}
    /\ UNCHANGED <<serverVars, logVars, leaderVars, votesReceived, appendCalls,
                   nextCommand, stopped, panicked>>

(* The peer has run the request: a waiting caller gets the reply.          *)
AnswerVote(c, reply) ==
    voteCalls' = (voteCalls \ {c}) \cup
        IF c.stage = "orphan" THEN {}
        ELSE {[c EXCEPT !.stage = "reply", !.args = NoVoteArgs, !.reply = reply]}

(* Mutant of Newer: any other term is followed.                            *)
Other(term, i) == term # currentTerm[i]

(* The test of both handlers for a term the server has not reached yet.    *)
Newer(term, i) == term > currentTerm[i]

(* Mutant of Grants: forgets that a vote was given already.                *)
GrantsAgain(c, term, voted) ==
    /\ c.term = term
    /\ UpToDate(c.args.lastLogTerm, c.args.lastLogIndex, log[c.peer])

(* Whether the peer, now in this term and pledged to voted, grants its vote. *)
Grants(c, term, voted) ==
    /\ c.term = term
    /\ voted \in {None, c.caller}
    /\ UpToDate(c.args.lastLogTerm, c.args.lastLogIndex, log[c.peer])

(* RequestVote at the peer.                                                *)
RequestVote(c) ==
    LET i     == c.peer
        newer == Newer(c.term, i)
        term  == IF newer THEN c.term ELSE currentTerm[i]
        voted == IF newer THEN None ELSE votedFor[i]
        granted == Grants(c, term, voted)
    IN /\ ~panicked
       /\ c.stage \in {"request", "orphan"}
       /\ state[i] # "Dead"
       /\ state' = [state EXCEPT ![i] = IF newer THEN "Follower" ELSE @]
       /\ currentTerm' = [currentTerm EXCEPT ![i] = term]
       /\ votedFor' = [votedFor EXCEPT ![i] = IF granted THEN c.caller ELSE voted]
       /\ AnswerVote(c, [term |-> term, voteGranted |-> granted])
       /\ UNCHANGED <<logVars, leaderVars, votesReceived, appendCalls,
                      nextCommand, stopped, panicked>>

(* RequestVote at a stopped peer: no error, and a reply of zero values.    *)
RequestVoteAtDead(c) ==
    /\ ~panicked
    /\ c.stage \in {"request", "orphan"}
    /\ state[c.peer] = "Dead"
    /\ AnswerVote(c, ZeroVoteReply)
    /\ UNCHANGED <<serverVars, logVars, leaderVars, votesReceived, appendCalls,
                   nextCommand, stopped, panicked>>

(* The caller handles the answer to a RequestVote. The code compares the   *)
(* reply's term with the term saved when the election started (c.term),    *)
(* never with currentTerm.                                                 *)
HandleVoteReply(c) ==
    LET i == c.caller
        counted == votesReceived[i][c.election] \cup {c.peer}
    IN /\ ~panicked
       /\ c.stage = "reply"
       /\ voteCalls' = voteCalls \ {c}
       /\ \/ /\ \/ state[i] # "Candidate"
                \/ c.reply.term < c.term
                \/ c.reply.term = c.term /\ ~c.reply.voteGranted
             /\ UNCHANGED <<serverVars, leaderVars, votesReceived>>
          \/ /\ state[i] = "Candidate"
             /\ c.reply.term > c.term
             /\ BecomeFollower(i, c.reply.term)
             /\ UNCHANGED <<leaderVars, votesReceived>>
          \/ /\ state[i] = "Candidate"
             /\ c.reply.term = c.term /\ c.reply.voteGranted
             /\ votesReceived' = [votesReceived EXCEPT ![i][c.election] = counted]
             /\ IF 2 * Cardinality(counted) > Cardinality(Peers(i)) + 1
                THEN StartLeader(i)
                ELSE UNCHANGED <<serverVars, leaderVars>>
       /\ UNCHANGED <<logVars, appendCalls, nextCommand, stopped, panicked>>

-----------------------------------------------------------------------------
(* Submit at a leader; any other server answers false and changes nothing. *)
Submit(i) ==
    /\ ~panicked
    /\ state[i] = "Leader"
    /\ nextCommand <= MaxCommands
    /\ log' = [log EXCEPT ![i] =
                  Append(@, [command |-> nextCommand, term |-> currentTerm[i]])]
    /\ nextCommand' = nextCommand + 1
    /\ UNCHANGED <<serverVars, commitIndex, leaderVars, votesReceived, voteCalls,
                   appendCalls, stopped, panicked>>

FreeSlots(i, p) ==
    {s \in 1..Slots : \A c \in appendCalls :
        ~(c.caller = i /\ c.peer = p /\ c.slot = s /\ c.stage # "orphan")}

(* One round of leaderSendHeartbeats: a goroutine per peer, with the term  *)
(* of now. targets are the peers whose goroutine gets somewhere: Call      *)
(* fails at once for a peer whose client is closed, and the bounds on      *)
(* calls under way leave peers out too.                                    *)
LeaderSendHeartbeats(i) ==
    /\ ~panicked
    /\ state[i] = "Leader"
    /\ \E targets \in SUBSET Peers(i) : \E slot \in [targets -> 1..Slots] :
        /\ targets # {}
        /\ \A p \in targets : /\ slot[p] \in FreeSlots(i, p)
                              /\ \A s \in FreeSlots(i, p) : slot[p] <= s
        /\ UnderWay(appendCalls) + Cardinality(targets) <= MaxAppendCalls
        /\ appendCalls' = appendCalls \cup
              {[caller |-> i, peer |-> p, slot |-> slot[p],
                term |-> currentTerm[i], stage |-> "spawned",
                ni |-> 0, sent |-> 0,
                args |-> NoAppendArgs, reply |-> ZeroAppendReply] : p \in targets}
    /\ UNCHANGED <<serverVars, logVars, leaderVars, votesReceived, voteCalls,
                   nextCommand, stopped, panicked>>

(* A heartbeat goroutine locks mu and makes its arguments from nextIndex,  *)
(* the log and commitIndex as they are now, leader or not. log[ni-1] and   *)
(* log[ni:] panic when ni is out of range.                                 *)
SendAppendEntries(c) ==
    LET i  == c.caller
        ni == nextIndex[i][c.peer]
    IN /\ ~panicked
       /\ c.stage = "spawned"
       /\ \/ /\ ni \in 0..Len(log[i])
             /\ appendCalls' = (appendCalls \ {c}) \cup
                  {[c EXCEPT !.stage = "request",
                             !.ni = ni,
                             !.sent = Len(log[i]) - ni,
                             !.args =
                       [prevLogIndex |-> ni - 1,
                        prevLogTerm |-> IF ni = 0 THEN -1
                                        ELSE EntryTerm(log[i], ni - 1),
                        entries |-> SubSeq(log[i], ni + 1, Len(log[i])),
                        leaderCommit |-> commitIndex[i]]]}
             /\ UNCHANGED panicked
          \/ /\ ni \notin 0..Len(log[i])
             /\ panicked' = TRUE
             /\ UNCHANGED appendCalls
       /\ UNCHANGED <<serverVars, logVars, leaderVars, votesReceived, voteCalls,
                      nextCommand, stopped>>

(* The peer has run the request: a waiting caller gets the reply.          *)
Answered(calls, c, reply) ==
    (calls \ {c}) \cup
        IF c.stage = "orphan" THEN {}
        ELSE {[c EXCEPT !.stage = "reply", !.args = NoAppendArgs, !.reply = reply]}

(* args.Entries aliases the caller's log and is encoded after mu is        *)
(* released. When i overwrites its log in place, a request of i that is    *)
(* encoded up to its q-th entry goes on with the new ones. In place for    *)
(* certain: the new log is no longer than the old, so append needs no      *)
(* larger array.                                                           *)
Torn(c, q, newLog) ==
    [c EXCEPT !.args.entries = [k \in 1..Len(c.args.entries) |->
        IF k <= q \/ c.ni + k > Len(newLog) THEN c.args.entries[k]
                                            ELSE newLog[c.ni + k]]]

AfterOverwrite(i, newLog) ==
    LET tearable == {c \in appendCalls : /\ c.caller = i /\ c.stage = "request"
                                         /\ TornReads
                                         /\ Len(newLog) <= Len(log[i])}
    IN {appendCalls} \cup
       UNION {{(appendCalls \ {c}) \cup {Torn(c, q, newLog)} : q \in 0..c.sent} :
                  c \in tearable}

(* The part of AppendEntries that runs when the terms are equal and the    *)
(* entry before the new ones matches: splice, then follow leaderCommit.    *)
AcceptEntries(c) ==
    LET i      == c.peer
        newLog == Spliced(log[i], c.args.prevLogIndex, c.args.entries)
        last   == Len(newLog) - 1
    IN /\ log' = [log EXCEPT ![i] = newLog]
       /\ IF c.args.leaderCommit > commitIndex[i]
          THEN /\ commitIndex' = [commitIndex EXCEPT ![i] =
                      IF c.args.leaderCommit < last THEN c.args.leaderCommit
                                                    ELSE last]
               /\ NotifyCommit(i)
          ELSE UNCHANGED <<commitIndex, panicked>>
       /\ \E calls \in AfterOverwrite(i, newLog) :
             appendCalls' = Answered(calls, c, [term |-> c.term, success |-> TRUE])

(* AppendEntries at the peer. A candidate, or a leader, of the same term   *)
(* becomes a follower too, which clears its vote.                          *)
AppendEntries(c) ==
    LET i == c.peer
    IN /\ ~panicked
       /\ c.stage \in {"request", "orphan"}
       /\ state[i] # "Dead"
       /\ IF \/ Newer(c.term, i)
             \/ c.term = currentTerm[i] /\ state[i] # "Follower"
          THEN BecomeFollower(i, c.term)
          ELSE UNCHANGED serverVars
       /\ IF /\ c.term >= currentTerm[i]
             /\ HasPrev(log[i], c.args.prevLogIndex, c.args.prevLogTerm)
          THEN AcceptEntries(c)
          ELSE /\ appendCalls' = Answered(appendCalls, c,
                                   [term |-> currentTerm'[i], success |-> FALSE])
               /\ UNCHANGED <<logVars, panicked>>
       /\ UNCHANGED <<leaderVars, votesReceived, voteCalls, nextCommand, stopped>>

AppendEntriesAtDead(c) ==
    /\ ~panicked
    /\ c.stage \in {"request", "orphan"}
    /\ state[c.peer] = "Dead"
    /\ appendCalls' = Answered(appendCalls, c, ZeroAppendReply)
    /\ UNCHANGED <<serverVars, logVars, leaderVars, votesReceived, voteCalls,
                   nextCommand, stopped, panicked>>

(* The commit scan of a leader whose matchIndex has become match: the last *)
(* index it stops at is the new commitIndex.                               *)
AdvanceCommit(i, match) ==
    LET found ==
            Committable(log[i], commitIndex[i], currentTerm[i], match, Peers(i))
    IN \/ /\ found = {}
          /\ UNCHANGED <<commitIndex, panicked>>
       \/ /\ \E k \in found : /\ \A m \in found : m <= k
                              /\ commitIndex' = [commitIndex EXCEPT ![i] = k]
          /\ NotifyCommit(i)

(* Mutants of MatchedUpTo: all of the log as it is by now; one too low.     *)
MatchedNow(c) == LastLogIndex(log[c.caller])
MatchedBefore(c) == c.ni + c.sent - 2

(* What a success tells: the peer holds what the request carried.          *)
MatchedUpTo(c) == c.ni + c.sent - 1

(* Mutant of NextAfter: counted from nextIndex as it is by now.             *)
NextAdded(c) == nextIndex[c.caller][c.peer] + c.sent

(* Where the peer's next entries start, after a success.                    *)
NextAfter(c) == c.ni + c.sent

(* The caller handles the answer to an AppendEntries. The reply's term is  *)
(* compared with the term the heartbeat was sent in (c.term); a dead       *)
(* server, too, becomes a follower when the reply shows a newer term.      *)
HandleAppendReply(c) ==
    LET i == c.caller
        match == [matchIndex[i] EXCEPT ![c.peer] = MatchedUpTo(c)]
        applies == /\ c.reply.term <= currentTerm[i]
                   /\ state[i] = "Leader" /\ c.term = c.reply.term
    IN /\ ~panicked
       /\ c.stage = "reply"
       /\ appendCalls' = appendCalls \ {c}
       /\ \/ /\ c.reply.term > currentTerm[i]
             /\ BecomeFollower(i, c.reply.term)
             /\ UNCHANGED <<leaderVars, commitIndex, panicked>>
          \/ /\ applies /\ c.reply.success
             /\ nextIndex' = [nextIndex EXCEPT ![i][c.peer] = NextAfter(c)]
             /\ matchIndex' = [matchIndex EXCEPT ![i] = match]
             /\ AdvanceCommit(i, match)
             /\ UNCHANGED serverVars
          \/ /\ applies /\ ~c.reply.success
             /\ nextIndex' = [nextIndex EXCEPT ![i][c.peer] = c.ni - 1]
             /\ UNCHANGED <<serverVars, matchIndex, commitIndex, panicked>>
          \/ /\ c.reply.term <= currentTerm[i] /\ ~applies
             /\ UNCHANGED <<serverVars, leaderVars, commitIndex, panicked>>
       /\ UNCHANGED <<log, votesReceived, voteCalls, nextCommand, stopped>>

(* Call returns an error, because the client to the peer was closed: the   *)
(* goroutine ends without touching the CM. A request already on its way    *)
(* may still be run. (A RequestVote that fails is one never answered.)     *)
AppendEntriesFails(c) ==
    /\ ~panicked
    /\ c.stage \in {"request", "reply"}
    /\ \/ appendCalls' = appendCalls \ {c}
       \/ /\ c.stage = "request"
          /\ Cardinality(OrphansOf(appendCalls, c.caller)) < MaxOrphans
          /\ appendCalls' =
                (appendCalls \ {c}) \cup {[c EXCEPT !.stage = "orphan"]}
    /\ UNCHANGED <<serverVars, logVars, leaderVars, votesReceived, voteCalls,
                   nextCommand, stopped, panicked>>

(* Stop, which the owner of the server calls once.                         *)
Stop(i) ==
    /\ ~panicked
    /\ i \in Stoppable \ stopped
    /\ state' = [state EXCEPT ![i] = "Dead"]
    /\ stopped' = stopped \cup {i}
    /\ UNCHANGED <<currentTerm, votedFor, logVars, leaderVars, votesReceived,
                   voteCalls, appendCalls, nextCommand, panicked>>

Next ==
    \/ \E i \in Server : ElectionTimeout(i)
    \/ \E i \in Server : Submit(i)
    \/ \E i \in Server : LeaderSendHeartbeats(i)
    \/ \E i \in Server : Stop(i)
    \/ \E c \in voteCalls : SendRequestVote(c)
    \/ \E c \in voteCalls : RequestVote(c)
    \/ \E c \in voteCalls : RequestVoteAtDead(c)
    \/ \E c \in voteCalls : HandleVoteReply(c)
    \/ \E c \in appendCalls : SendAppendEntries(c)
    \/ \E c \in appendCalls : AppendEntries(c)
    \/ \E c \in appendCalls : AppendEntriesAtDead(c)
    \/ \E c \in appendCalls : HandleAppendReply(c)
    \/ \E c \in appendCalls : AppendEntriesFails(c)

Spec == Init /\ [][Next]_vars

-----------------------------------------------------------------------------
(* Safety. Index k is the code's; k <= commitIndex[i] means i holds entry k *)
(* to be committed, so commitChanSender may have handed it to the client.   *)
Holds(i, k) == k < Len(log[i])
SameEntry(i, j, k) == Holds(i, k) /\ Holds(j, k) /\ log[i][k + 1] = log[j][k + 1]

(* README: "ensure exactly one leader is elected", never two in one term.   *)
ElectionSafety ==
    \A i, j \in Server :
        state[i] = "Leader" /\ state[j] = "Leader" /\ i # j
            => currentTerm[i] # currentTerm[j]

(* Two logs with an entry of the same term at the same index are the same  *)
(* up to there, commands included. The code compares terms only.           *)
LogMatching ==
    \A i, j \in Server : \A k \in 0..(Len(log[i]) - 1) :
        Holds(j, k) /\ EntryTerm(log[i], k) = EntryTerm(log[j], k)
            => \A m \in 0..k : SameEntry(i, j, m)

(* Why ElectionSafety holds: the inductive part of the argument. What a     *)
(* candidate or leader counts on, or may still come to count, are servers   *)
(* that have voted for it in this term or have left the term behind.        *)
Active(i) == state[i] \in {"Candidate", "Leader"}

CurrentVotes(i) == votesReceived[i][Len(votesReceived[i])]

GrantedTo(i) ==
    {c.peer : c \in {d \in voteCalls :
        /\ d.caller = i /\ d.term = currentTerm[i]
        /\ d.stage = "reply" /\ d.reply.voteGranted}}

Pledged(v, i) ==
    \/ currentTerm[v] > currentTerm[i]
    \/ currentTerm[v] = currentTerm[i] /\ votedFor[v] = i

Supporters(i) == CurrentVotes(i) \cup GrantedTo(i)

SupportersPledged(i) ==
    Active(i) => /\ votedFor[i] = i
                 /\ votesReceived[i] # <<>>
                 /\ \A v \in Supporters(i) : Pledged(v, i)

(* A server that has moved on to a newer term has forgotten its vote: that  *)
(* it did not support two servers of a term has to be said on its own.      *)
NoCommonSupporter(i, j) ==
    i # j /\ Active(i) /\ Active(j) /\ currentTerm[i] = currentTerm[j]
        => Supporters(i) \cap Supporters(j) = {}

(* This is where PromptReplies matters: the replies that a candidate waits *)
(* for are those of its present election.                                  *)
NoStaleVoteCalls(i) ==
    state[i] = "Candidate" =>
        \A c \in voteCalls : c.caller = i /\ c.stage # "orphan" =>
            c.term = currentTerm[i] /\ c.election = Len(votesReceived[i])

WonByMajority(i) ==
    state[i] = "Leader" => 2 * Cardinality(CurrentVotes(i)) > Cardinality(Server)

(* A leader was counted in by a majority whose members are still pledged.  *)
ElectionInv ==
    /\ \A i \in Server :
          SupportersPledged(i) /\ NoStaleVoteCalls(i) /\ WonByMajority(i)
    /\ \A i, j \in Server : NoCommonSupporter(i, j)

(* A leader has every entry that a server of its own or an older term       *)
(* takes to be committed.                                                   *)
LeaderCompleteness ==
    \A i, j \in Server : state[i] = "Leader" /\ currentTerm[j] <= currentTerm[i]
        => \A k \in 0..commitIndex[j] : SameEntry(i, j, k)

(* README: "All servers apply the same committed entries in the same order" *)
StateMachineSafety ==
    \A i, j \in Server : \A k \in 0..commitIndex[i] :
        k <= commitIndex[j] => SameEntry(i, j, k)

(* README: entries are committed once replicated on a majority, and         *)
(* committed entries are never lost: at all times a majority has each.      *)
CommittedDurable ==
    \A i \in Server : \A k \in 0..commitIndex[i] :
        2 * Cardinality({j \in Server : SameEntry(i, j, k)}) > Cardinality(Server)

(* What a leader believes about a peer of its term is true: they agree up   *)
(* to matchIndex, and the peer will be asked about an index it may have.    *)
MatchIndexHonest ==
    \A i \in Server : \A p \in Peers(i) :
        state[i] = "Leader" /\ currentTerm[p] = currentTerm[i]
            => \A k \in 0..matchIndex[i][p] : SameEntry(i, p, k)

(* commitIndex never goes back and what is below it is never rewritten, so  *)
(* commitChanSender may send the entries after unlocking.                   *)
CommittedPrefixStable ==
    [][\A i \in Server :
        /\ commitIndex'[i] >= commitIndex[i]
        /\ \A k \in 0..commitIndex[i] :
              k < Len(log'[i]) /\ log'[i][k + 1] = log[i][k + 1]]_vars

(* A leader's nextIndex stays within its log, so that log[ni-1] and log[ni:] *)
(* are in range while it leads, also when answers arrive out of order.      *)
NextIndexInRange ==
    \A i \in Server : state[i] = "Leader" =>
        \A p \in Peers(i) : nextIndex[i][p] \in 0..Len(log[i])

(* The term of a server never decreases.                                    *)
TermMonotone == [][\A i \in Server : currentTerm'[i] >= currentTerm[i]]_vars

(* No slice index is out of range and no closed channel is sent on: an      *)
(* outdated leader steps down and lives on.                                 *)
NoPanic == ~panicked
=============================================================================
