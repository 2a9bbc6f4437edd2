---------------------------- MODULE MCMembership ----------------------------
(* Membership on a small instance: server 0 of three stands twice. The fourth *)
(* stands as soon as it has joined, for the first time: in the first term of  *)
(* server 0, which may have counted, or may still count, against three.       *)
EXTENDS Membership

ZeroAndTheNewOne ==
    [i \in Server |-> CASE i = 0       -> {1, 2}
                        [] i = Initial -> {1}
                        [] OTHER       -> {}]
=============================================================================
