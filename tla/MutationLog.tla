---------------------------- MODULE MutationLog ----------------------------
(***************************************************************************)
(* The replay log of one loaded board (server/board/mutation_log.mjs).     *)
(* A log remembers the newest sequence number, the newest one known to be  *)
(* on disk, and the accepted mutations that are still replayable.  An      *)
(* entry keeps its sequence number and acceptance time; the mutation it    *)
(* carries is opaque to the log, so the sequence number stands for it.     *)
(***************************************************************************)
EXTENDS Integers, Sequences

Entries == [seq : Nat, at : Int]
Logs == [latest : Nat, persisted : Nat, entries : Seq(Entries)]

NewLog(baseline) ==
    [latest |-> baseline, persisted |-> baseline, entries |-> << >>]

MinReplayableSeq(log) ==
    IF log.entries = << >> THEN log.latest ELSE log.entries[1].seq - 1

AppendMutation(log, acceptedAt) ==
    [latest    |-> log.latest + 1,
     persisted |-> log.persisted,
     entries   |-> Append(log.entries,
                          [seq |-> log.latest + 1, at |-> acceptedAt])]

\* Mutant of ReadFrom: an off-by-one in the offset.
ReadFromSkipsOne(log, fromSeq) ==
    IF log.entries = << >> \/ fromSeq >= log.latest
    THEN << >>
    ELSE LET offset == fromSeq - log.entries[1].seq + 2
         IN  SubSeq(log.entries, IF offset > 0 THEN offset + 1 ELSE 1,
                    Len(log.entries))

\* The entries a client at fromSeq still misses.  The offset is computed from
\* the first sequence number: it relies on the entries being contiguous.
ReadFrom(log, fromSeq) ==
    IF log.entries = << >> \/ fromSeq >= log.latest
    THEN << >>
    ELSE LET offset == fromSeq - log.entries[1].seq + 1
         IN  SubSeq(log.entries, IF offset > 0 THEN offset + 1 ELSE 1,
                    Len(log.entries))

MarkPersisted(log, seq) ==
    LET reached == IF seq < log.latest THEN seq ELSE log.latest
    IN  [latest    |-> log.latest,
         persisted |-> IF reached > log.persisted THEN reached
                                                  ELSE log.persisted,
         entries   |-> log.entries]

\* Mutant of Protected: the retention period is forgotten.
ProtectedAtAnyAge(log, entry, cutoff, pinned) ==
    (\E p \in pinned : entry.seq > p) \/ entry.seq > log.persisted

\* An entry that trimming may not drop.  The code passes the least pinned
\* baseline; an entry is newer than that one iff it is newer than some pin.
Protected(log, entry, cutoff, pinned) ==
    \/ \E p \in pinned : entry.seq > p
    \/ entry.seq > log.persisted
    \/ entry.at >= cutoff

\* The first index that stays: everything before it is unprotected.
IsKeepFrom(log, cutoff, pinned, k) ==
    /\ k \in 1 .. Len(log.entries) + 1
    /\ \A i \in 1 .. k - 1 : ~Protected(log, log.entries[i], cutoff, pinned)
    /\ k <= Len(log.entries) => Protected(log, log.entries[k], cutoff, pinned)

KeepFrom(log, cutoff, pinned) ==
    CHOOSE k \in 1 .. Len(log.entries) + 1 : IsKeepFrom(log, cutoff, pinned, k)

TrimPersistedOlderThan(log, cutoff, pinned) ==
    [latest    |-> log.latest,
     persisted |-> log.persisted,
     entries   |-> SubSeq(log.entries, KeepFrom(log, cutoff, pinned),
                          Len(log.entries))]

(***************************************************************************)
(* What every operation above relies on and keeps: the entries are the     *)
(* unbroken run of mutations that ends at the newest one.                  *)
(***************************************************************************)
ContiguousSuffix(log) ==
    \A i \in 1 .. Len(log.entries) :
        log.entries[i].seq = log.latest - Len(log.entries) + i
=============================================================================
