----------------------- MODULE ReplicationRefinement ------------------------
(***************************************************************************)
(* Replication implements CommittedLog: the servers' logs up to their      *)
(* commit indices are prefixes of one log. The reader of a server is its   *)
(* commitChanSender, which may send what is up to commitIndex.             *)
(***************************************************************************)
EXTENDS Replication

CommittedPrefix(i) == SubSeq(log[i], 1, commitIndex[i] + 1)

(* A server that knows of as many commits as any other.                     *)
Foremost == CHOOSE i \in Server : \A j \in Server : commitIndex[j] <= commitIndex[i]

OneLog == INSTANCE CommittedLog WITH
    Reader    <- Server,
    committed <- CommittedPrefix(Foremost),
    known     <- [i \in Server |-> CommittedPrefix(i)]

(* README: "All servers apply the same committed entries in the same order",*)
(* and a committed entry stays: through elections, cut logs and late        *)
(* messages the servers behave as readers of one log that only grows.       *)
ImplementsCommittedLog == OneLog!Spec
=============================================================================
