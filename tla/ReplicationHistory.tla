------------------------- MODULE ReplicationHistory -------------------------
(***************************************************************************)
(* What a state of Replication tells of its past: the words in which the   *)
(* proofs about logs speak. A history is three functions of the terms:     *)
(*   winner[t]  the server that won the election of term t, or None;       *)
(*   won[t]     the servers whose votes had been counted when it won;      *)
(*   lead[t]    the log of that server while it led, the longest so far.   *)
(* Nothing here adds to the model: the proofs show that every reachable    *)
(* state has a history that fits it. Positions count from 1, as in         *)
(* sequences: position k is the code's index k-1.                          *)
(***************************************************************************)
EXTENDS Replication

(* Two logs have the same entries up to position m.                        *)
Agree(l1, l2, m) ==
    m <= Len(l1) /\ m <= Len(l2) /\ \A k \in 1..m : l1[k] = l2[k]

(* Every entry of a log, and all before it, come from the leader of its    *)
(* term.                                                                   *)
Traced(l, lead) == \A k \in 1..Len(l) : Agree(l, lead[l[k].term], k)

(* A history that contradicts itself nowhere: only a term that was won has *)
(* a log, and the votes were a majority.                                   *)
IsHistory(lead, winner, won) ==
    /\ lead \in [Nat -> Seq(Entry)]
    /\ winner \in [Nat -> Server \cup {None}]
    /\ won \in [Nat -> SUBSET Server]
    /\ \A t \in Nat : winner[t] = None => lead[t] = <<>> /\ won[t] = {}
    /\ \A t \in Nat : winner[t] # None =>
          /\ t > 0
          /\ 2 * Cardinality(won[t]) > Cardinality(Server)
    /\ \A t \in Nat : Traced(lead[t], lead)

(* A vote that helped to win a term is not given to anybody else in it.    *)
VotesSpent(winner, won) ==
    /\ \A t \in Nat : winner[t] # None => currentTerm[winner[t]] >= t
    /\ \A t \in Nat : \A v \in won[t] :
          /\ currentTerm[v] >= t
          /\ currentTerm[v] = t => votedFor[v] = winner[t]
    /\ \A i \in Server : state[i] = "Candidate" =>
          /\ currentTerm[i] > 0
          /\ winner[currentTerm[i]] # i
          /\ Supporters(i) \cap won[currentTerm[i]] = {}

LeadersKnown(lead, winner) ==
    \A i \in Server : state[i] = "Leader" =>
        winner[currentTerm[i]] = i /\ lead[currentTerm[i]] = log[i]

LogsTraced(lead) == \A i \in Server : Traced(log[i], lead)

-----------------------------------------------------------------------------
Leads(i, t) == state[i] = "Leader" /\ currentTerm[i] = t

(* A request carries the end of this log, from position ni + 1 on.         *)
Carries(c, l) ==
    /\ c.args.prevLogIndex = c.ni - 1
    /\ c.sent = Len(c.args.entries)
    /\ c.ni + c.sent <= Len(l)
    /\ c.ni > 0 => c.args.prevLogTerm = l[c.ni].term
    /\ \A k \in 1..c.sent : c.args.entries[k] = l[c.ni + k]

(* A heartbeat is sent by the winner of its term, but its contents are     *)
(* those of some leader's log: its sender may have become a follower       *)
(* before it locked mu.                                                    *)
RequestKnown(c, lead) ==
    c.stage \in {"request", "orphan"} =>
        /\ \E u \in Nat : Carries(c, lead[u])
        /\ Leads(c.caller, c.term) => Carries(c, lead[c.term])

(* A reply tells the truth, about the peer and about what it was asked.    *)
ReplyKnown(c, lead) ==
    c.stage = "reply" =>
        /\ c.reply.success => /\ c.reply.term = c.term
                              /\ currentTerm[c.peer] >= c.term
        /\ ~c.reply.success /\ c.reply.term = c.term => c.ni > 0
        /\ Leads(c.caller, c.term) =>
              /\ c.ni + c.sent <= Len(lead[c.term])
              /\ c.reply.success /\ currentTerm[c.peer] = c.term
                    => Agree(log[c.peer], lead[c.term], c.ni + c.sent)

CallKnown(c, lead, winner) ==
    /\ winner[c.term] = c.caller /\ c.peer # c.caller
    /\ c.stage # "orphan" /\ Active(c.caller) => Leads(c.caller, c.term)
    /\ RequestKnown(c, lead)
    /\ ReplyKnown(c, lead)

(* What a leader remembers of a peer is true.                              *)
PeerKnown(i, p) ==
    state[i] = "Leader" =>
        /\ nextIndex[i][p] \in 0..Len(log[i])
        /\ matchIndex[i][p] < Len(log[i])
        /\ matchIndex[i][p] >= 0 => currentTerm[p] >= currentTerm[i]
        /\ currentTerm[p] = currentTerm[i]
              => Agree(log[p], log[i], matchIndex[i][p] + 1)

(* A history that fits the state.                                          *)
Fits(lead, winner, won) ==
    /\ IsHistory(lead, winner, won)
    /\ VotesSpent(winner, won)
    /\ LeadersKnown(lead, winner)
    /\ LogsTraced(lead)
    /\ \A c \in appendCalls : CallKnown(c, lead, winner)
    /\ \A i \in Server : \A p \in Peers(i) : PeerKnown(i, p)

(* The inductive invariant behind LogMatching, MatchIndexHonest and         *)
(* NextIndexInRange.                                                        *)
LogInv == \E lead, winner, won : Fits(lead, winner, won)
=============================================================================
