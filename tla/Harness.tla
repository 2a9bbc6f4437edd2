------------------------------ MODULE Harness -------------------------------
(***************************************************************************)
(* Part 1's servers in its test harness (part1_election/testharness.go,    *)
(* server.go): the harness disconnects, reconnects and shuts down servers  *)
(* one lock of Server.mu at a time while the servers run, and closing a    *)
(* client fails the calls that wait on it.                                 *)
(*                                                                         *)
(* The harness is one goroutine. An operation of it is a sequence of       *)
(* steps, each of which closes, or opens, a set of clients of one server.  *)
(***************************************************************************)
EXTENDS Election, Sequences

CONSTANTS
    MaxOps,    \* bound: DisconnectPeer and ReconnectPeer calls of a test (to
               \* reconnect a connected server changes nothing, so this
               \* includes the tests with fewer)
    Movable    \* bound: the servers they are called for

NumServers == Cardinality(Server)

(* NewHarness numbers the servers. One server has no one to connect to.     *)
ASSUME HarnessAssumption ==
    /\ MaxOps \in Nat /\ Movable \subseteq Server
    /\ NumServers > 1 /\ Server = 0..(NumServers - 1)

VARIABLES
    connected,  \* the harness's flags, as the set of servers that have it
    op,         \* what the harness is doing, for which server, and the
                \* clients of each step left
    toStop,     \* Shutdown's second loop: the servers left, in order
    ops         \* DisconnectPeer and ReconnectPeer calls so far

harnessVars == <<connected, op, toStop, ops>>
allVars == <<vars, harnessVars>>

Idle == [do |-> "idle", id |-> Nobody, todo |-> <<>>]

(* NewHarness, up to close(ready).                                          *)
HarnessInit ==
    /\ Init
    /\ connected = Server
    /\ op = Idle
    /\ toStop = <<>>
    /\ ops = 0

-----------------------------------------------------------------------------
(* The loops of the harness over all servers, and over all but id.          *)
AllInOrder == [k \in 1..NumServers |-> k - 1]
OthersInOrder(id) == [k \in 1..(NumServers - 1) |-> IF k <= id THEN k - 1 ELSE k]

(* DisconnectAll of i.                                                      *)
AllOf(i) == {<<i, p>> : p \in Peers(i)}

(* DisconnectPeer: DisconnectAll of id, then one server after the other.    *)
DisconnectSteps(id) ==
    [k \in 1..NumServers |-> IF k = 1 THEN AllOf(id)
                                      ELSE {<<OthersInOrder(id)[k - 1], id>>}]

(* Mutants of ReconnectSteps: id is not left out; id gets its clients, the  *)
(* others do not.                                                           *)
ReconnectAll(id) == [k \in DOMAIN AllInOrder |-> {<<id, AllInOrder[k]>>}]
ReconnectOneWay(id) ==
    [k \in DOMAIN OthersInOrder(id) |-> {<<id, OthersInOrder(id)[k]>>}]

(* ReconnectPeer: with each other server, first to it and then back.        *)
(* Servers that are disconnected themselves are not left out.               *)
ReconnectSteps(id) ==
    [k \in 1..(2 * (NumServers - 1)) |->
        LET p == OthersInOrder(id)[(k + 1) \div 2]
        IN IF k % 2 = 1 THEN {<<id, p>>} ELSE {<<p, id>>}]

(* Mutant of ShutdownSteps: the clients are left to the servers' Shutdown.  *)
ShutdownAtOnce == <<{}>>

(* Shutdown's first loop: DisconnectAll of every server.                    *)
ShutdownSteps == [k \in DOMAIN AllInOrder |-> AllOf(AllInOrder[k])]

DisconnectPeer(id) ==
    /\ op = Idle /\ ops < MaxOps
    /\ op' = [do |-> "disconnect", id |-> id, todo |-> DisconnectSteps(id)]
    /\ ops' = ops + 1
    /\ UNCHANGED <<vars, connected, toStop>>

ReconnectPeer(id) ==
    /\ op = Idle /\ ops < MaxOps
    /\ op' = [do |-> "reconnect", id |-> id, todo |-> ReconnectSteps(id)]
    /\ ops' = ops + 1
    /\ UNCHANGED <<vars, connected, toStop>>

Shutdown ==
    /\ op = Idle /\ ops = MaxOps
    /\ op' = [do |-> "shutdown", id |-> Nobody, todo |-> ShutdownSteps]
    /\ UNCHANGED <<vars, connected, toStop, ops>>

(* On with DisconnectPeer, whose flag comes last ...                        *)
DisconnectGoesOn ==
    LET todo == Tail(op.todo)
    IN /\ op' = IF todo = <<>> THEN Idle ELSE [op EXCEPT !.todo = todo]
       /\ connected' = IF todo = <<>> THEN connected \ {op.id} ELSE connected
       /\ UNCHANGED <<toStop, ops>>

(* ... with ReconnectPeer ...                                               *)
ReconnectGoesOn ==
    LET todo == Tail(op.todo)
    IN /\ op' = IF todo = <<>> THEN Idle ELSE [op EXCEPT !.todo = todo]
       /\ connected' = IF todo = <<>> THEN connected \cup {op.id} ELSE connected
       /\ UNCHANGED <<toStop, ops>>

(* ... and with Shutdown, which clears the flags one by one and goes on to  *)
(* its second loop.                                                         *)
ShutdownGoesOn ==
    LET todo == Tail(op.todo)
    IN /\ connected' = connected \ {AllInOrder[NumServers - Len(todo)]}
       /\ op' = [op EXCEPT !.todo = todo, !.do = IF todo = <<>> THEN "stop" ELSE @]
       /\ toStop' = IF todo = <<>> THEN AllInOrder ELSE toStop
       /\ UNCHANGED ops

(* Clients are closed. The calls that wait on them fail, except that a *)
(* goroutine may have its answer already; requests on their way may still   *)
(* arrive.                                                                  *)
CloseNext ==
    /\ \/ /\ op.do = "disconnect"
          /\ DisconnectGoesOn
       \/ /\ op.do = "shutdown"
          /\ ShutdownGoesOn
    /\ LET closed  == clients \cap Head(op.todo)
           waiting == {c \in calls : <<c.caller, c.peer>> \in closed
                                        /\ c.stage \in {"request", "reply"}}
       IN /\ clients' = clients \ closed
          /\ \E answered \in SUBSET {c \in waiting : c.stage = "reply"} :
                calls' \in GivenUp(waiting \ answered)
    /\ UNCHANGED <<serverVars, timerVars, elections, votesReceived>>

(* ConnectToPeer.                                                           *)
OpenNext ==
    /\ op.do = "reconnect"
    /\ ReconnectGoesOn
    /\ clients' = clients \cup Head(op.todo)
    /\ UNCHANGED <<serverVars, timerVars, elections, votesReceived, calls>>

(* Server.Shutdown: Stop the CM ...                                         *)
StopNext ==
    /\ op.do = "stop" /\ toStop # <<>>
    /\ Stop(Head(toStop))
    /\ op' = [op EXCEPT !.do = "wait"]
    /\ UNCHANGED <<connected, toStop, ops>>

(* The connections to a server end when the clients at the other end are    *)
(* closed and their last requests have been run.                            *)
ConnectionsEnded(p) ==
    /\ \A l \in clients : l[2] # p
    /\ \A c \in calls : c.peer = p => c.stage \in {"spawned", "reply"}

(* ... and wait for its connections.                                        *)
ServerDown ==
    /\ op.do = "wait"
    /\ ConnectionsEnded(Head(toStop))
    /\ toStop' = Tail(toStop)
    /\ op' = [op EXCEPT !.do = IF Len(toStop) = 1 THEN "down" ELSE "stop"]
    /\ UNCHANGED <<vars, connected, ops>>

HarnessGoesOn == CloseNext \/ OpenNext \/ StopNext \/ ServerDown

HarnessNext ==
    \/ \E i \in Server : TimerStart(i) /\ UNCHANGED harnessVars
    \/ \E i \in Server : \E term \in BagToSet(timers[i]) :
          TimerBailsOut(i, term) /\ UNCHANGED harnessVars
    \/ \E i \in Server : ElectionTimeout(i) /\ UNCHANGED harnessVars
    \/ \E i \in Server : LeaderSendHeartbeats(i) /\ UNCHANGED harnessVars
    \/ \E c \in calls : GetClient(c) /\ UNCHANGED harnessVars
    \/ \E c \in calls : RequestVote(c) /\ UNCHANGED harnessVars
    \/ \E c \in calls : AppendEntries(c) /\ UNCHANGED harnessVars
    \/ \E c \in calls : AnsweredByDead(c) /\ UNCHANGED harnessVars
    \/ \E c \in calls : RPCProxyDrops(c) /\ UNCHANGED harnessVars
    \/ \E c \in calls : HandleVoteReply(c) /\ UNCHANGED harnessVars
    \/ \E c \in calls : HandleAppendReply(c) /\ UNCHANGED harnessVars
    \/ \E id \in Movable : DisconnectPeer(id)
    \/ \E id \in Movable : ReconnectPeer(id)
    \/ Shutdown
    \/ HarnessGoesOn

(* i's goroutines that call p, the requests that p runs for i, and i's      *)
(* goroutines with an answer.                                               *)
CallRuns(i, p) ==
    \E c \in calls : c.caller = i /\ c.peer = p /\ GetClient(c)
RequestRuns(i, p) ==
    \E c \in calls : /\ c.caller = i /\ c.peer = p
                     /\ RequestVote(c) \/ AppendEntries(c) \/ AnsweredByDead(c)
ReplyRuns(i, p) ==
    \E c \in calls : c.caller = i /\ c.peer = p /\ HandleAppendReply(c)

(* The harness runs on, a leader beats, goroutines run, and of the requests *)
(* between two servers that RPCProxy draws lots for some get through.       *)
HarnessFairness ==
    /\ WF_allVars(HarnessGoesOn)
    /\ \A i \in Server :
          /\ WF_allVars(LeaderSendHeartbeats(i) /\ UNCHANGED harnessVars)
          /\ \A p \in Peers(i) :
                /\ WF_allVars(CallRuns(i, p) /\ UNCHANGED harnessVars)
                /\ SF_allVars(RequestRuns(i, p) /\ UNCHANGED harnessVars)
                /\ WF_allVars(ReplyRuns(i, p) /\ UNCHANGED harnessVars)

HarnessSpec == HarnessInit /\ [][HarnessNext]_allVars /\ HarnessFairness

-----------------------------------------------------------------------------
HarnessTypeOK ==
    /\ TypeOK
    /\ connected \subseteq Server
    /\ op \in [do : {"idle", "disconnect", "reconnect", "shutdown", "stop", "wait", "down"},
               id : Server \cup {Nobody}, todo : Seq(SUBSET Links)]
    /\ toStop \in Seq(Server)
    /\ ops \in 0..MaxOps

(* Between operations two servers that are flagged connected have open      *)
(* clients to each other, whatever was disconnected and reconnected before, *)
(* in whatever order: what the tests assert of connected servers relies on  *)
(* it.                                                                      *)
FlagsHonest ==
    op = Idle =>
        \A i, j \in connected : i # j => <<i, j>> \in clients

(* README: after a reconnect "any outdated leader automatically steps       *)
(* down": none keeps leading for ever with an open client to a running      *)
(* server of a newer term, also when RPCs get lost.                         *)
Outdated(i, p) ==
    /\ state[i] = "Leader" /\ state[p] # "Dead"
    /\ currentTerm[p] > currentTerm[i]
    /\ <<i, p>> \in clients

OutdatedStepsDown == \A i \in Server : \A p \in Peers(i) : []<>~Outdated(i, p)

(* Shutdown "waits for them to stop running": it comes to an end, with      *)
(* requests under way and late ones included.                               *)
ShutdownReturns == op.do = "shutdown" ~> op.do = "down"
=============================================================================
