---------------------------- MODULE CommitHistory ---------------------------
(***************************************************************************)
(* The words for the proofs about what is committed, on top of the         *)
(* histories of ReplicationHistory. An entry is named by its term t and    *)
(* its position m: where a log contains it, LogsTraced makes the log the   *)
(* same as lead[t] up to there.                                            *)
(***************************************************************************)
EXTENDS ReplicationHistory

(* A heartbeat goroutine locks mu when its server leads the goroutine's    *)
(* term no longer: what it sends then is a follower's log under an old     *)
(* term, and nothing below would hold.                                     *)
LateSend == \E c \in appendCalls : SendAppendEntries(c) /\ ~Leads(c.caller, c.term)

Contains(l, t, m) == m <= Len(l) /\ l[m].term = t

(* The terms along a log never decrease, and end at t or before.           *)
Ordered(l, t) ==
    \A k \in 1..Len(l) : l[k].term <= t /\ \A j \in 1..k : l[j].term <= l[k].term

LeadersOrdered(lead) == \A t \in Nat : Ordered(lead[t], t)

TermsReached == \A i \in Server : \A k \in 1..Len(log[i]) :
                    log[i][k].term <= currentTerm[i]

(* Without late sends, a request is what its leader's log was.             *)
RequestOfLeader(c, lead) ==
    c.stage \in {"request", "orphan"} => Carries(c, lead[c.term])

(* A candidate asks with the last entry of the log it still has.           *)
VoteRequestKnown(c) ==
    c.stage = "request" /\ state[c.caller] = "Candidate" =>
        /\ c.args.lastLogIndex = LastLogIndex(log[c.caller])
        /\ c.args.lastLogTerm = LastLogTerm(log[c.caller])

Majority(Q) == Q \subseteq Server /\ 2 * Cardinality(Q) > Cardinality(Server)

(* Entry m of term t is on every server of Q, and every later leader so    *)
(* far has it, and every candidate that may win with a vote of Q.          *)
Secured(t, m, Q, lead, winner) ==
    /\ Contains(lead[t], t, m)
    /\ \A v \in Q : currentTerm[v] >= t /\ Contains(log[v], t, m)
    /\ \A u \in Nat : u > t /\ winner[u] # None => Contains(lead[u], t, m)
    /\ \A w \in Server : \A v \in Q :
          state[w] = "Candidate" /\ currentTerm[w] > t /\ v \in Supporters(w)
              => Contains(log[w], t, m)

(* A later term has been won without any vote of Q.                        *)
Bypassed(t, Q, winner, won) ==
    \E u \in Nat : u > t /\ winner[u] # None /\ won[u] \cap Q = {}

(* Whom leader i counts as having its entries up to position m, or may     *)
(* still come to count.                                                    *)
Holders(i, m) ==
    {i} \cup {p \in Peers(i) : matchIndex[i][p] + 1 >= m}
        \cup {c.peer : c \in {d \in appendCalls :
                /\ d.caller = i /\ d.term = currentTerm[i] /\ d.stage = "reply"
                /\ d.reply.success /\ d.ni + d.sent >= m}}

(* An entry of the leader's own term is safe with those who hold it, or    *)
(* they will never be a majority.                                          *)
EntrySecured(i, m, lead, winner, won) ==
    state[i] = "Leader" /\ log[i][m].term = currentTerm[i] =>
        \/ Secured(currentTerm[i], m, Holders(i, m), lead, winner)
        \/ Bypassed(currentTerm[i], Holders(i, m), winner, won)

(* Position m of a log, reached in a term, is secured by a majority.       *)
CommittedIn(l, m, term, lead, winner) ==
    \E t \in Nat, Q \in SUBSET Server :
        /\ t <= term /\ Contains(l, t, m)
        /\ Majority(Q) /\ Secured(t, m, Q, lead, winner)

CommitKnown(i, lead, winner) ==
    commitIndex[i] >= 0 =>
        CommittedIn(log[i], commitIndex[i] + 1, currentTerm[i], lead, winner)

LeaderCommitKnown(c, lead, winner) ==
    c.stage \in {"request", "orphan"} /\ c.args.leaderCommit >= 0 =>
        /\ c.args.leaderCommit + 1 <= c.ni + c.sent
        /\ CommittedIn(lead[c.term], c.args.leaderCommit + 1, c.term, lead, winner)

(* The part of a history that is about commits.                            *)
CommitsFit(lead, winner, won) ==
    /\ LeadersOrdered(lead)
    /\ TermsReached
    /\ \A c \in appendCalls : RequestOfLeader(c, lead)
    /\ \A c \in voteCalls : VoteRequestKnown(c)
    /\ \A i \in Server : \A m \in 1..Len(log[i]) : EntrySecured(i, m, lead, winner, won)
    /\ \A i \in Server : CommitKnown(i, lead, winner)
    /\ \A c \in appendCalls : LeaderCommitKnown(c, lead, winner)

(* The inductive invariant behind StateMachineSafety, LeaderCompleteness,  *)
(* CommittedDurable and CommittedPrefixStable.                             *)
CommitInv == \E lead, winner, won :
    Fits(lead, winner, won) /\ CommitsFit(lead, winner, won)
=============================================================================
