----------------------------- MODULE MCLogLoops -----------------------------
(* LogLoops over logs of up to three entries of three terms, and clusters   *)
(* of one to four servers.                                                  *)
EXTENDS LogLoops
CONSTANTS p, q, r
=============================================================================
