---------------------------- MODULE CommittedLog ----------------------------
(***************************************************************************)
(* What the cluster promises about committed entries, whatever its leaders,*)
(* terms and messages do: there is one log, it only grows at its end, and  *)
(* every reader knows a prefix of it, which only grows too. Readers may    *)
(* lag behind for ever: nothing here says when they learn of an entry.     *)
(***************************************************************************)
EXTENDS Naturals, Sequences

CONSTANT Reader

VARIABLES
    committed,  \* the entries committed so far
    known       \* known[r]: those that r has learned of

Init ==
    /\ committed = <<>>
    /\ known = [r \in Reader |-> <<>>]

(* Nothing committed is lost or changed.                                    *)
OnlyGrows ==
    /\ Len(committed') >= Len(committed)
    /\ SubSeq(committed', 1, Len(committed)) = committed

Commit ==
    /\ OnlyGrows
    /\ UNCHANGED known

(* A reader learns of more entries, perhaps of those just being committed.  *)
Learn(r) ==
    /\ OnlyGrows
    /\ \E n \in (Len(known[r]) + 1)..Len(committed') :
          known' = [known EXCEPT ![r] = SubSeq(committed', 1, n)]

Next == Commit \/ \E r \in Reader : Learn(r)

Spec == Init /\ [][Next]_<<committed, known>>
=============================================================================
