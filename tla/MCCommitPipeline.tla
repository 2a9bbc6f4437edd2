-------------------------- MODULE MCCommitPipeline --------------------------
(* CommitPipeline with a client that calls Submit once.                     *)
EXTENDS CommitPipeline
CONSTANT s1
=============================================================================
