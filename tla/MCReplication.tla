--------------------------- MODULE MCReplication ----------------------------
(* Replication on small instances.                                          *)
EXTENDS ReplicationRefinement, TLC
CONSTANTS a, b, c, d, e

Budget(x, y, z) ==
    [s \in Server |-> IF s = a THEN x ELSE IF s = b THEN y
                      ELSE IF s = c THEN z ELSE 0]
Budget110 == Budget(1, 1, 0)
Budget111 == Budget(1, 1, 1)
Budget120 == Budget(1, 2, 0)
Budget201 == Budget(2, 0, 1)
Budget210 == Budget(2, 1, 0)
Budget220 == Budget(2, 2, 0)

(* Servers with the same budget may be swapped.                             *)
SwapAB == Permutations({a, b})

(* One call at a time: a call is not begun while another is under way. The  *)
(* order of the calls and where each of them stops are still free.          *)
OneCallAtATime == Cardinality(voteCalls \cup appendCalls) <= 1

(* Only c is asked for votes, so that c is in both majorities.              *)
VotesOfC == \A v \in voteCalls : v.peer = c

(* Only c gets two heartbeats at a time, of one leader or of both.           *)
PairsToC == Cardinality(appendCalls) > 1 => \A x \in appendCalls : x.peer = c
VotesAndPairsToC == VotesOfC /\ PairsToC

(* Search hints for two runs that look for a long counterexample: they only *)
(* keep TLC to a part of the behaviours of Spec.                            *)
(* A heartbeat of a, the leader of term 1, is late to lock mu: by then a    *)
(* follows c, the leader of term 3, and has an entry committed by it. e     *)
(* hears from nobody but this heartbeat and b, the leader of term 2.        *)
LateHeartbeatOfA ==
    /\ \A v \in voteCalls : v.peer \in CASE v.caller = a -> {b, c}
                                         [] v.caller = b -> {c, d}
                                         [] v.caller = c -> {a, d}
    /\ \A x \in appendCalls :
          CASE x.caller = a -> x.peer = e /\ (x.stage = "spawned" \/ commitIndex[a] >= 0)
            [] x.caller = b -> x.peer = e /\ commitIndex[e] >= 0
            [] x.caller = c -> x.peer \in {a, d} /\ log[c] # <<>>
    /\ log[a] # <<>> => currentTerm[a] > 1
    /\ log[b] # <<>> => commitIndex[e] >= 0
(* The requests of a are late to arrive, and d and e elect both leaders.    *)
SlowRequestsOfA ==
    /\ \A x \in appendCalls :
          /\ x.caller = a => x.peer = c
          /\ x.caller = b => x.peer = a
    /\ \A v \in voteCalls : v.peer \in {d, e}
=============================================================================
