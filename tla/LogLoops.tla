------------------------------ MODULE LogLoops ------------------------------
(***************************************************************************)
(* The two loops over the log in part2_commandsAndLogReplication/raft.go,  *)
(* one action per iteration: AppendEntries' search for the insertion point *)
(* with what follows it, and the commit scan of a leader. The loops start  *)
(* from any input; at their end they must have computed what LogOps says,  *)
(* which Replication uses in their place.                                  *)
(***************************************************************************)
EXTENDS LogOps

CONSTANTS AllPeers,  \* the peers of the largest cluster
          Terms,
          MaxLen     \* bound: the length of a log, and of args.Entries

ASSUME LoopsAssumption ==
    IsFiniteSet(AllPeers) /\ Terms \subseteq Nat /\ MaxLen \in Nat

VARIABLES
    pc,
    log, commitIndex,      \* the CM's
    input,                 \* what the loop starts from and never changes
    logInsertIndex, newEntriesIndex,            \* AppendEntries' locals
    i, uncounted, matchCount                    \* the commit scan's locals

vars == <<pc, log, commitIndex, input, logInsertIndex, newEntriesIndex,
          i, uncounted, matchCount>>

(* Commands tell the entries of the log from the new ones.                 *)
Entries(command) ==
    UNION {[1..n -> [command : {command}, term : Terms]] : n \in 0..MaxLen}

(* AppendEntries past its consistency check.                               *)
StartInsert ==
    /\ pc = "insert"
    /\ \E prev \in -1..(Len(log) - 1), new \in Entries("new") :
          input = [prevLogIndex |-> prev, entries |-> new, log |-> log]
    /\ commitIndex = -1
    /\ logInsertIndex = input.prevLogIndex + 1 /\ newEntriesIndex = 0
    /\ i = 0 /\ uncounted = {} /\ matchCount = 0

(* A leader that has just set matchIndex.                                  *)
StartScan ==
    /\ pc = "scan"
    /\ commitIndex \in -1..(Len(log) - 1)
    /\ \E peerIds \in SUBSET AllPeers, term \in Terms :
          \E match \in [peerIds -> -1..(Len(log) - 1)] :
             input = [peerIds |-> peerIds, matchIndex |-> match,
                      currentTerm |-> term, commitIndex |-> commitIndex]
    /\ logInsertIndex = 0 /\ newEntriesIndex = 0
    /\ i = commitIndex + 1 /\ uncounted = {} /\ matchCount = 0

Init ==
    /\ log \in Entries("old")
    /\ StartInsert \/ StartScan

-----------------------------------------------------------------------------
(* Neither of the loop's breaks is taken.                                   *)
StillEqual ==
    /\ logInsertIndex < Len(log)
    /\ newEntriesIndex < Len(input.entries)
    /\ log[logInsertIndex + 1].term = input.entries[newEntriesIndex + 1].term

InsertNext ==
    /\ pc = "insert"
    /\ StillEqual
    /\ logInsertIndex' = logInsertIndex + 1
    /\ newEntriesIndex' = newEntriesIndex + 1
    /\ UNCHANGED <<pc, log, commitIndex, input, i, uncounted, matchCount>>

(* Mutant of NothingNew: what is left of a longer log is cut off as well.   *)
LogAtItsEnd ==
    newEntriesIndex = Len(input.entries) /\ logInsertIndex = Len(log)

(* Every new entry is there already.                                       *)
NothingNew == newEntriesIndex >= Len(input.entries)

InsertEnd ==
    /\ pc = "insert"
    /\ ~StillEqual
    /\ log' = IF NothingNew THEN log
              ELSE SubSeq(log, 1, logInsertIndex) \o
                   SubSeq(input.entries, newEntriesIndex + 1, Len(input.entries))
    /\ pc' = "inserted"
    /\ UNCHANGED <<commitIndex, input, logInsertIndex, newEntriesIndex,
                   i, uncounted, matchCount>>

-----------------------------------------------------------------------------
(* Mutant of Majority: half of an even cluster is enough.                   *)
AtLeastHalf == matchCount * 2 >= Cardinality(input.peerIds) + 1

Majority == matchCount * 2 > Cardinality(input.peerIds) + 1

(* The head of the scan: an entry of this term is counted, others skipped. *)
ScanEntry ==
    /\ pc = "scan"
    /\ i < Len(log)
    /\ IF EntryTerm(log, i) = input.currentTerm
       THEN /\ pc' = "count"
            /\ matchCount' = 1
            /\ uncounted' = input.peerIds
            /\ i' = i
       ELSE i' = i + 1 /\ UNCHANGED <<pc, uncounted, matchCount>>
    /\ UNCHANGED <<log, commitIndex, input, logInsertIndex, newEntriesIndex>>

CountPeer ==
    /\ pc = "count"
    /\ \E p \in uncounted :
          /\ uncounted' = uncounted \ {p}
          /\ matchCount' = IF input.matchIndex[p] >= i THEN matchCount + 1
                                                       ELSE matchCount
    /\ UNCHANGED <<pc, log, commitIndex, input, logInsertIndex,
                   newEntriesIndex, i>>

CountEnd ==
    /\ pc = "count"
    /\ uncounted = {}
    /\ commitIndex' = IF Majority THEN i ELSE commitIndex
    /\ i' = i + 1
    /\ pc' = "scan"
    /\ UNCHANGED <<log, input, logInsertIndex, newEntriesIndex, uncounted,
                   matchCount>>

ScanEnd ==
    /\ pc = "scan"
    /\ i >= Len(log)
    /\ pc' = "scanned"
    /\ UNCHANGED <<log, commitIndex, input, logInsertIndex, newEntriesIndex,
                   i, uncounted, matchCount>>

Next == InsertNext \/ InsertEnd \/ ScanEntry \/ CountPeer \/ CountEnd \/ ScanEnd

Spec == Init /\ [][Next]_vars

-----------------------------------------------------------------------------
(* The insertion loop and the splice after it leave the log that Spliced    *)
(* describes.                                                               *)
InsertsAsSpliced ==
    pc = "inserted" =>
        log = Spliced(input.log, input.prevLogIndex, input.entries)

(* The commit scan, which assigns commitIndex as it goes along, leaves it   *)
(* at the last index of Committable, and alone when there is none.          *)
ScanFindsLastCommittable ==
    pc = "scanned" =>
        LET found == Committable(log, input.commitIndex, input.currentTerm,
                                 input.matchIndex, input.peerIds)
        IN IF found = {} THEN commitIndex = input.commitIndex
           ELSE commitIndex \in found /\ \A k \in found : k <= commitIndex
=============================================================================
