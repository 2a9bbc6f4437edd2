------------------------------- MODULE LogOps -------------------------------
(***************************************************************************)
(* The pure log computations of Part 2's ConsensusModule (part2_commands-  *)
(* AndLogReplication/raft.go), as operators on sequences of entries        *)
(* [command |-> c, term |-> t].                                            *)
(*                                                                         *)
(* Indices are the code's, which count from 0: entry k of the Go slice is  *)
(* log[k+1] here, and -1 means "before the first entry".                   *)
(*                                                                         *)
(* Nothing here is recursive: the loops of the code are given by what they *)
(* compute. LogLoops.tla writes the loops down as the code runs them and   *)
(* compares the two over every small input.                                *)
(***************************************************************************)
EXTENDS Integers, Sequences, FiniteSets

EntryTerm(log, k) == log[k + 1].term

(* lastLogIndexAndTerm: both are -1 for an empty log. *)
LastLogIndex(log) == Len(log) - 1
LastLogTerm(log)  == IF log = <<>> THEN -1 ELSE EntryTerm(log, LastLogIndex(log))

(* Mutant of UpToDate: compares lengths only.                              *)
UpToDateByLength(lastTerm, lastIndex, log) == lastIndex >= LastLogIndex(log)

(* RequestVote's test that a candidate whose last entry has this term and *)
(* index is at least as up to date as a voter holding log.                *)
UpToDate(lastTerm, lastIndex, log) ==
    \/ lastTerm > LastLogTerm(log)
    \/ lastTerm = LastLogTerm(log) /\ lastIndex >= LastLogIndex(log)

(* Mutant of HasPrev: an entry at prevIndex is enough.                      *)
HasPrevIndex(log, prevIndex, prevTerm) == prevIndex < Len(log)

(* AppendEntries' consistency check; prevIndex = -1 is vacuously consistent. *)
HasPrev(log, prevIndex, prevTerm) ==
    \/ prevIndex = -1
    \/ prevIndex < Len(log) /\ EntryTerm(log, prevIndex) = prevTerm

(* The insertion loop of AppendEntries gets past the first n new entries: *)
(* the log has entries there, and their terms are those of the new ones.  *)
Agrees(log, prevIndex, entries, n) ==
    /\ prevIndex + 1 + n <= Len(log)
    /\ \A m \in 1..n : log[prevIndex + 1 + m].term = entries[m].term

(* Mutant of Spliced: always cut after prevIndex, as if requests never     *)
(* arrived late.                                                           *)
SplicedAtPrev(log, prevIndex, entries) ==
    SubSeq(log, 1, prevIndex + 1) \o entries

(* Mutant of Spliced: whatever is there stays, only what is missing is     *)
(* added.                                                                  *)
SplicedAtEnd(log, prevIndex, entries) ==
    log \o SubSeq(entries, Len(log) - prevIndex, Len(entries))

(* The log after AppendEntries. If every new entry agrees nothing changes  *)
(* (a longer log keeps its suffix); otherwise the log is cut at the first  *)
(* disagreement and the remaining new entries take its place.              *)
Spliced(log, prevIndex, entries) ==
    IF Agrees(log, prevIndex, entries, Len(entries)) THEN log
    ELSE [k \in 1..(prevIndex + 1 + Len(entries)) |->
            IF \/ k <= prevIndex + 1
               \/ Agrees(log, prevIndex, entries, k - prevIndex - 1)
            THEN log[k]
            ELSE entries[k - prevIndex - 1]]

(* Mutant of Committable: entries of older terms count as well.            *)
CommittableAnyTerm(log, commitIndex, term, match, peers) ==
    {k \in (commitIndex + 1)..(Len(log) - 1) :
        2 * (1 + Cardinality({p \in peers : match[p] >= k}))
             > Cardinality(peers) + 1}

(* The indices above commitIndex that the leader's commit scan stops at:   *)
(* entries of its own term stored by a majority, counting itself. match    *)
(* maps each peer to the highest index it is known to hold.                *)
Committable(log, commitIndex, term, match, peers) ==
    {k \in (commitIndex + 1)..(Len(log) - 1) :
        /\ EntryTerm(log, k) = term
        /\ 2 * (1 + Cardinality({p \in peers : match[p] >= k}))
             > Cardinality(peers) + 1}
=============================================================================
