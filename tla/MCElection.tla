---------------------------- MODULE MCElection ------------------------------
(* Election with three servers, each of which starts one election.          *)
EXTENDS Election

OneEach == [s \in Server |-> 1]

(* Search hint for a run that looks for a counterexample: it only keeps TLC *)
(* to a part of the behaviours of Spec. Server 0 leads before the others    *)
(* start their elections, which ask each other late and 0 in time.          *)
RivalsOfALeader ==
    /\ \A i \in {1, 2} : elections[i] > 0 =>
          elections[0] = 1 /\ (state[0] = "Leader" \/ currentTerm[0] > 1)
    /\ \A c \in calls : c.caller # 0 /\ c.peer # 0 => c.stage = "spawned"
=============================================================================
