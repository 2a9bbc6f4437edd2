----------------------------- MODULE MCHarness ------------------------------
(* Harness with two servers: each can be isolated from the other.           *)
EXTENDS Harness

OneEach == [s \in Server |-> 1]
=============================================================================
