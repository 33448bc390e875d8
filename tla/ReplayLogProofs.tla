-------------------------- MODULE ReplayLogProofs --------------------------
(***************************************************************************)
(* Proofs about ReplayLog, for every bound, retention and pin lifetime.    *)
(*                                                                         *)
(* The inductive invariant IInv says, besides the types: the log is        *)
(* contiguous; the stored SVG is always a prefix of the log between its    *)
(* floor and its newest mutation, at the place the save in progress gives; *)
(* and every page that was served is covered by a pin, of its own baseline *)
(* or of an older one, that lives as long as the page may still connect.   *)
(***************************************************************************)
EXTENDS ReplayLog, TLAPS, SequenceTheorems, WellFoundedInduction

-----------------------------------------------------------------------------
(* What the operations of the log do to any contiguous log *)

\* A log whose entries are the unbroken run that ends at the newest mutation.
GoodLog(l) ==
    l \in Logs /\ ContiguousSuffix(l) /\ Len(l.entries) <= l.latest

\* In a contiguous log the replay floor is the newest number minus the length.
LEMMA FloorIsLength ==
    ASSUME NEW l, GoodLog(l)
    PROVE  /\ MinReplayableSeq(l) = l.latest - Len(l.entries)
           /\ MinReplayableSeq(l) \in Nat
           /\ MinReplayableSeq(l) <= l.latest
<1>1. l.entries \in Seq(Entries) /\ l.latest \in Nat
  BY DEF GoodLog, Logs
<1>2. Len(l.entries) \in Nat /\ (l.entries = << >> <=> Len(l.entries) = 0)
  BY <1>1
<1>3. CASE l.entries = << >>
  BY <1>1, <1>2, <1>3 DEF MinReplayableSeq
<1>4. CASE l.entries # << >>
  <2>1. 1 \in 1 .. Len(l.entries)
    BY <1>2, <1>4
  <2>2. l.entries[1].seq = l.latest - Len(l.entries) + 1
    BY <2>1 DEF GoodLog, ContiguousSuffix
  <2>3. QED
    BY <1>1, <1>2, <1>4, <2>2 DEF MinReplayableSeq, GoodLog
<1>5. QED
  BY <1>3, <1>4

\* A log that starts after the stored number is empty and replays from there.
LEMMA NewLogIsGood ==
    ASSUME NEW seq \in Nat
    PROVE  GoodLog(NewLog(seq)) /\ MinReplayableSeq(NewLog(seq)) = seq
<1>1. NewLog(seq).entries = << >> /\ NewLog(seq).latest = seq
  BY DEF NewLog
<1>2. NewLog(seq) \in Logs
  BY DEF NewLog, Logs
<1>3. QED
  BY <1>1, <1>2 DEF GoodLog, ContiguousSuffix, MinReplayableSeq

\* A mutation gets the next number and leaves the entries before it.
LEMMA AppendKeepsGood ==
    ASSUME NEW l, GoodLog(l), NEW at \in Int
    PROVE  LET new == AppendMutation(l, at)
           IN  /\ GoodLog(new)
               /\ new.latest = l.latest + 1
               /\ new.persisted = l.persisted
               /\ Len(new.entries) = Len(l.entries) + 1
               /\ \A i \in 1 .. Len(l.entries) :
                     new.entries[i] = l.entries[i]
<1> DEFINE new == AppendMutation(l, at)
<1> DEFINE entry == [seq |-> l.latest + 1, at |-> at]
<1>1. /\ l.latest \in Nat /\ l.persisted \in Nat
      /\ l.entries \in Seq(Entries)
  BY DEF GoodLog, Logs
<1>2. entry \in Entries
  BY <1>1 DEF Entries
<1>3. new = [latest |-> l.latest + 1, persisted |-> l.persisted,
             entries |-> Append(l.entries, entry)]
  BY <1>1 DEF AppendMutation
<1>4. /\ Append(l.entries, entry) \in Seq(Entries)
      /\ Len(Append(l.entries, entry)) = Len(l.entries) + 1
      /\ \A i \in 1 .. Len(l.entries) :
            Append(l.entries, entry)[i] = l.entries[i]
      /\ Append(l.entries, entry)[Len(l.entries) + 1] = entry
  BY <1>1, <1>2, AppendProperties
<1>5. new \in Logs
  BY <1>1, <1>3, <1>4 DEF Logs
<1>6. ContiguousSuffix(new)
  <2> SUFFICES ASSUME NEW i \in 1 .. Len(new.entries)
               PROVE  new.entries[i].seq = new.latest - Len(new.entries) + i
    BY DEF ContiguousSuffix
  <2>1. Len(l.entries) \in Nat
    BY <1>1
  <2>2. CASE i = Len(l.entries) + 1
    BY <1>1, <1>3, <1>4, <2>1, <2>2
  <2>3. CASE i \in 1 .. Len(l.entries)
    <3>1. l.entries[i].seq = l.latest - Len(l.entries) + i
      BY <2>3 DEF GoodLog, ContiguousSuffix
    <3>2. QED
      BY <1>1, <1>3, <1>4, <2>1, <2>3, <3>1
  <2>4. QED
    BY <1>3, <1>4, <2>1, <2>2, <2>3
<1>7. Len(new.entries) <= new.latest
  BY <1>1, <1>3, <1>4 DEF GoodLog
<1>8. QED
  BY <1>3, <1>4, <1>5, <1>6, <1>7 DEF GoodLog

\* Recording what was stored changes no entry.
LEMMA MarkKeepsGood ==
    ASSUME NEW l, GoodLog(l), NEW seq \in Nat
    PROVE  LET new == MarkPersisted(l, seq)
           IN  /\ GoodLog(new)
               /\ new.latest = l.latest
               /\ new.entries = l.entries
               /\ l.persisted <= seq /\ seq <= l.latest
                    => new.persisted = seq
<1> DEFINE new == MarkPersisted(l, seq)
<1>1. /\ l.latest \in Nat /\ l.persisted \in Nat
      /\ l.entries \in Seq(Entries)
  BY DEF GoodLog, Logs
<1>2. /\ new.latest = l.latest
      /\ new.entries = l.entries
      /\ new.persisted \in Nat
      /\ l.persisted <= seq /\ seq <= l.latest => new.persisted = seq
  BY <1>1 DEF MarkPersisted
<1>3. new \in Logs
  BY <1>1, <1>2 DEF Logs, MarkPersisted
<1>4. ContiguousSuffix(new) /\ Len(new.entries) <= new.latest
  BY <1>2 DEF GoodLog, ContiguousSuffix
<1>5. QED
  BY <1>2, <1>3, <1>4 DEF GoodLog

\* Trimming stops at the first protected entry.
LEMMA KeepFromExists ==
    ASSUME NEW l, GoodLog(l), NEW cutoff, NEW pinned
    PROVE  IsKeepFrom(l, cutoff, pinned, KeepFrom(l, cutoff, pinned))
<1> DEFINE n == Len(l.entries)
<1> DEFINE Stop == {k \in 1 .. n + 1 :
                       k <= n => Protected(l, l.entries[k], cutoff, pinned)}
<1>1. n \in Nat
  BY DEF GoodLog, Logs
<1>2. Stop \subseteq Nat /\ n + 1 \in Stop
  BY <1>1
<1>3. PICK k \in Stop : \A j \in Stop : ~ (<<j, k>> \in OpToRel(<, Nat))
  BY <1>2, WFMin, NatLessThanWellFounded
<1>4. \A j \in Stop : ~(j < k)
  BY <1>2, <1>3 DEF OpToRel
<1>5. \A i \in 1 .. k - 1 : ~Protected(l, l.entries[i], cutoff, pinned)
  BY <1>1, <1>4
<1>6. IsKeepFrom(l, cutoff, pinned, k)
  BY <1>1, <1>5 DEF IsKeepFrom
<1>7. QED
  BY <1>6 DEF KeepFrom, IsKeepFrom

\* Trimming keeps a log contiguous, only raises its floor, and every mutation
\* at or below the new floor that was replayable is stored, older than every
\* pinned baseline or equal to it, and in front of an expired one.
LEMMA TrimKeepsGood ==
    ASSUME NEW l, GoodLog(l), NEW cutoff \in Int, NEW pinned \in SUBSET Nat
    PROVE  LET new == TrimPersistedOlderThan(l, cutoff, pinned)
           IN  /\ GoodLog(new)
               /\ new.latest = l.latest
               /\ new.persisted = l.persisted
               /\ Len(new.entries) <= Len(l.entries)
               /\ \A i \in 1 .. Len(l.entries) :
                     l.entries[i].seq <= l.latest - Len(new.entries) =>
                        ~Protected(l, l.entries[i], cutoff, pinned)
<1> DEFINE new == TrimPersistedOlderThan(l, cutoff, pinned)
<1> DEFINE k == KeepFrom(l, cutoff, pinned)
<1> DEFINE n == Len(l.entries)
<1>1. /\ l.latest \in Nat /\ l.persisted \in Nat
      /\ l.entries \in Seq(Entries)
      /\ n \in Nat
      /\ n <= l.latest
  BY DEF GoodLog, Logs
<1>2. IsKeepFrom(l, cutoff, pinned, k)
  BY KeepFromExists
<1>3. k \in 1 .. n + 1
  BY <1>2 DEF IsKeepFrom
<1>4. /\ new.latest = l.latest
      /\ new.persisted = l.persisted
      /\ new.entries = SubSeq(l.entries, k, n)
  BY DEF TrimPersistedOlderThan
<1> HIDE DEF k, new
<1>5. \A i \in k .. n : l.entries[i] \in Entries
  BY <1>1, <1>3, ElementOfSeq
<1>6. /\ new.entries \in Seq(Entries)
      /\ Len(new.entries) = n - k + 1
      /\ \A i \in 1 .. n - k + 1 : new.entries[i] = l.entries[k + i - 1]
  <2>1. k \in Int /\ n \in Int
    BY <1>1, <1>3
  <2>2. /\ SubSeq(l.entries, k, n) \in Seq(Entries)
        /\ Len(SubSeq(l.entries, k, n)) = IF k <= n THEN n - k + 1 ELSE 0
        /\ \A i \in 1 .. n - k + 1 :
              SubSeq(l.entries, k, n)[i] = l.entries[k + i - 1]
    BY <2>1, <1>5, SubSeqProperties
  <2>3. QED
    BY <1>1, <1>3, <1>4, <2>2
<1>7. new \in Logs
  BY <1>1, <1>4, <1>6 DEF Logs, new, TrimPersistedOlderThan
<1>8. ContiguousSuffix(new)
  <2> SUFFICES ASSUME NEW i \in 1 .. Len(new.entries)
               PROVE  new.entries[i].seq = new.latest - Len(new.entries) + i
    BY DEF ContiguousSuffix
  <2>1. k + i - 1 \in 1 .. n /\ i \in 1 .. n - k + 1
    BY <1>1, <1>3, <1>6
  <2>2. l.entries[k + i - 1].seq = l.latest - n + (k + i - 1)
    BY <2>1 DEF GoodLog, ContiguousSuffix
  <2>3. new.entries[i] = l.entries[k + i - 1]
    BY <1>6, <2>1
  <2>4. Len(new.entries) = n - k + 1 /\ new.latest = l.latest /\ i \in Int
    BY <1>4, <1>6
  <2> HIDE DEF n
  <2>5. l.latest - n + (k + i - 1) = l.latest - (n - k + 1) + i
    BY <1>1, <1>3, <2>4
  <2>6. QED
    BY <2>2, <2>3, <2>4, <2>5
<1>9. ASSUME NEW i \in 1 .. n, l.entries[i].seq <= l.latest - (n - k + 1)
      PROVE  ~Protected(l, l.entries[i], cutoff, pinned)
  <2>1. l.entries[i].seq = l.latest - n + i
    BY DEF GoodLog, ContiguousSuffix
  <2>2. i \in 1 .. k - 1
    BY <1>1, <1>3, <1>9, <2>1
  <2>3. QED
    BY <1>2, <2>2 DEF IsKeepFrom
<1>10. GoodLog(new) /\ Len(new.entries) <= n
  BY <1>1, <1>3, <1>4, <1>6, <1>7, <1>8 DEF GoodLog
<1>11. QED
  BY <1>4, <1>6, <1>9, <1>10 DEF new

\* From any baseline at or above the floor of a contiguous log, readFrom
\* returns exactly the later mutations, in order.
LEMMA ReadFromIsExact ==
    ASSUME NEW l, GoodLog(l),
           NEW b \in MinReplayableSeq(l) .. l.latest
    PROVE  /\ Len(ReadFrom(l, b)) = l.latest - b
           /\ \A i \in 1 .. Len(ReadFrom(l, b)) :
                 ReadFrom(l, b)[i].seq = b + i
<1> DEFINE n == Len(l.entries)
<1>1. /\ l.latest \in Nat
      /\ l.entries \in Seq(Entries)
      /\ n \in Nat
      /\ n <= l.latest
  BY DEF GoodLog, Logs
<1>2. /\ MinReplayableSeq(l) = l.latest - n
      /\ b \in Int
      /\ l.latest - n <= b
      /\ b <= l.latest
  BY <1>1, FloorIsLength
<1>3. CASE l.entries = << >> \/ b >= l.latest
  <2>1. b = l.latest
    BY <1>1, <1>2, <1>3
  <2>2. ReadFrom(l, b) = << >>
    BY <1>3 DEF ReadFrom
  <2>3. QED
    BY <1>1, <2>1, <2>2
<1>4. CASE ~(l.entries = << >> \/ b >= l.latest)
  <2> DEFINE m == b - (l.latest - n) + 1
  <2>1. l.entries[1].seq = l.latest - n + 1
    BY <1>1, <1>4 DEF GoodLog, ContiguousSuffix
  <2>2. m \in 1 .. n
    BY <1>1, <1>2, <1>4
  <2>3. ReadFrom(l, b) = SubSeq(l.entries, m, n)
    <3> DEFINE offset == b - l.entries[1].seq + 1
    <3>1. (IF offset > 0 THEN offset + 1 ELSE 1) = m
      BY <1>1, <1>2, <2>1, <2>2
    <3>2. ReadFrom(l, b)
            = SubSeq(l.entries, IF offset > 0 THEN offset + 1 ELSE 1, n)
      BY <1>4, Zenon DEF ReadFrom
    <3>3. QED
      BY <3>1, <3>2
  <2>4. \A i \in m .. n : l.entries[i] \in Entries
    BY <1>1, <2>2, ElementOfSeq
  <2> HIDE DEF m
  <2>5. /\ Len(SubSeq(l.entries, m, n)) = IF m <= n THEN n - m + 1 ELSE 0
        /\ \A i \in 1 .. n - m + 1 :
              SubSeq(l.entries, m, n)[i] = l.entries[m + i - 1]
    <3>1. m \in Int /\ n \in Int
      BY <1>1, <2>2
    <3>2. QED
      BY <2>4, <3>1, SubSeqProperties
  <2>6. ASSUME NEW i \in 1 .. n - m + 1
        PROVE  l.entries[m + i - 1].seq = b + i
    <3>1. m + i - 1 \in 1 .. n
      BY <1>1, <2>2
    <3>2. l.entries[m + i - 1].seq = l.latest - n + (m + i - 1)
      BY <3>1 DEF GoodLog, ContiguousSuffix
    <3>3. QED
      BY <1>1, <1>2, <3>2 DEF m
  <2>7. Len(ReadFrom(l, b)) = n - m + 1 /\ n - m + 1 = l.latest - b
    BY <1>1, <1>2, <2>2, <2>3, <2>5 DEF m
  <2>8. QED
    BY <2>3, <2>5, <2>6, <2>7
<1>5. QED
  BY <1>3, <1>4

-----------------------------------------------------------------------------
(* The invariant *)

\* The floor is determined by the length, and never negative.
LogInv == ContiguousSuffix(log) /\ Len(log.entries) <= log.latest

\* The stored SVG is the persisted prefix of the log, or the target of a save
\* that has replaced the file and not yet been recorded.
DiskInv ==
    /\ loaded =>
        /\ MinReplayableSeq(log) <= log.persisted
        /\ log.persisted <= fileSeq
        /\ fileSeq <= log.latest
        /\ save = Idle => fileSeq = log.persisted
    /\ ~loaded => log = NewLog(fileSeq) /\ save = Idle

SaveInv ==
    save # Idle =>
        /\ save.startedAt <= now
        /\ log.persisted <= save.target
        /\ save.target <= log.latest
        /\ save.phase = "writing" => fileSeq = log.persisted
        /\ save.phase = "renamed" => fileSeq = save.target

RequestInv ==
    http # Idle =>
        /\ http.seq <= fileSeq
        /\ http.phase = "pinned" /\ http.until > now =>
             pins[http.seq] >= http.until

\* A page is protected by a pin of its baseline or of an older one that lasts
\* as long as its own.
ServedInv ==
    \A v \in served :
        ~v.cached /\ v.until > now =>
            /\ v.seq <= fileSeq
            /\ \E p \in Seqs : p <= v.seq /\ pins[p] >= v.until
            /\ Replayable(v)

IInv == LogTypeOK /\ LogInv /\ DiskInv /\ SaveInv /\ RequestInv /\ ServedInv

-----------------------------------------------------------------------------

\* IInv in the terms of these lemmas.
LEMMA IInvGood ==
    ASSUME IInv
    PROVE  /\ GoodLog(log)
           /\ log.latest \in Nat /\ log.persisted \in Nat
           /\ MinReplayableSeq(log) \in Nat
           /\ MinReplayableSeq(log) <= log.latest
           /\ MinReplayableSeq(log) = log.latest - Len(log.entries)
<1>1. GoodLog(log)
  BY DEF IInv, LogTypeOK, LogInv, GoodLog
<1>2. QED
  BY <1>1, FloorIsLength DEF GoodLog, Logs

\* The invariant holds when a board starts.
LEMMA InitIInv == LogInit => IInv
<1> SUFFICES ASSUME LogInit PROVE IInv
  OBVIOUS
<1> USE ReplayLogAssumption
<1>1. GoodLog(log) /\ MinReplayableSeq(log) = 0
  BY NewLogIsGood DEF LogInit
<1>2. log.latest = 0 /\ log.persisted = 0
  BY DEF LogInit, NewLog
<1>3. LogTypeOK
  BY <1>1, <1>2 DEF LogInit, LogTypeOK, Seqs, GoodLog
<1>4. LogInv /\ DiskInv /\ SaveInv /\ RequestInv /\ ServedInv
  BY <1>1, <1>2 DEF LogInit, GoodLog, LogInv, DiskInv, SaveInv, RequestInv,
                     ServedInv
<1>5. QED
  BY <1>3, <1>4 DEF IInv

-----------------------------------------------------------------------------
(* Each action keeps IInv. *)

LEMMA LoadIInv ==
    ASSUME IInv, Load
    PROVE  IInv'
<1>1. fileSeq \in Nat /\ fileSeq \in Seqs /\ fileSeq' = fileSeq
  BY ReplayLogAssumption DEF IInv, LogTypeOK, Seqs, Load
<1>2. /\ log' = NewLog(fileSeq)
      /\ GoodLog(log')
      /\ MinReplayableSeq(log') = fileSeq
      /\ log'.latest = fileSeq
      /\ log'.persisted = fileSeq
  BY <1>1, NewLogIsGood DEF Load, NewLog
<1>3. LogTypeOK'
  BY <1>1, <1>2 DEF IInv, LogTypeOK, Load, GoodLog
<1>4. LogInv'
  BY <1>2 DEF LogInv, GoodLog
<1>5. DiskInv'
  BY <1>1, <1>2 DEF IInv, DiskInv, Load
<1>6. save = Idle /\ save' = Idle
  BY DEF IInv, DiskInv, Load
<1>7. SaveInv' /\ RequestInv'
  BY <1>6 DEF IInv, SaveInv, RequestInv, Load
<1>8. ServedInv'
  <2> SUFFICES ASSUME NEW v \in served', ~v.cached, v.until > now'
               PROVE  /\ v.seq <= fileSeq'
                      /\ \E p \in Seqs : p <= v.seq /\ pins'[p] >= v.until
                      /\ Replayable(v)'
    BY DEF ServedInv
  <2>1. /\ v.seq <= fileSeq
        /\ \E p \in Seqs : p <= v.seq /\ pins[p] >= v.until
        /\ v.seq = fileSeq
    BY DEF IInv, ServedInv, Load, Replayable
  <2>2. Replayable(v)'
    BY <1>1, <1>2, <2>1 DEF Replayable
  <2>3. QED
    BY <2>1, <2>2 DEF Load
<1>9. QED
  BY <1>3, <1>4, <1>5, <1>7, <1>8 DEF IInv

LEMMA AcceptIInv ==
    ASSUME IInv, NEW t \in {now - 1, now}, Accept(t)
    PROVE  IInv'
<1>1. /\ t \in Int
      /\ GoodLog(log) /\ log.latest \in Nat /\ log.persisted \in Nat
      /\ MinReplayableSeq(log) = log.latest - Len(log.entries)
  BY IInvGood DEF IInv, LogTypeOK
<1>2. /\ GoodLog(log')
      /\ log'.latest = log.latest + 1
      /\ log'.persisted = log.persisted
      /\ Len(log'.entries) = Len(log.entries) + 1
  BY <1>1, AppendKeepsGood DEF Accept
<1>3. MinReplayableSeq(log') = MinReplayableSeq(log)
  <2>1. Len(log.entries) \in Nat
    BY <1>1 DEF GoodLog, Logs
  <2>2. MinReplayableSeq(log') = log'.latest - Len(log'.entries)
    BY <1>2, FloorIsLength
  <2>3. QED
    BY <1>1, <1>2, <2>1, <2>2
<1>4. LogTypeOK'
  <2>1. log'.latest \in Seqs
    BY <1>1, <1>2, ReplayLogAssumption DEF Accept, Seqs
  <2>2. log' \in Logs
    BY <1>2 DEF GoodLog
  <2>3. QED
    BY <2>1, <2>2 DEF IInv, LogTypeOK, Accept
<1>5. fileSeq \in Nat /\ MinReplayableSeq(log) \in Nat
  BY IInvGood DEF IInv, LogTypeOK, Seqs
<1>6. LogInv' /\ DiskInv'
  BY <1>1, <1>2, <1>3, <1>5 DEF IInv, LogInv, DiskInv, Accept, GoodLog
<1>7. SaveInv'
  BY <1>1, <1>2 DEF IInv, SaveInv, Accept, LogTypeOK, Saving, Seqs
<1>8. RequestInv'
  BY DEF IInv, RequestInv, Accept
<1>9. ServedInv'
  <2> SUFFICES ASSUME NEW v \in served, ~v.cached, v.until > now
               PROVE  /\ v.seq <= fileSeq
                      /\ \E p \in Seqs : p <= v.seq /\ pins[p] >= v.until
                      /\ Replayable(v)'
    BY DEF ServedInv, Accept
  <2>1. /\ v.seq <= fileSeq
        /\ \E p \in Seqs : p <= v.seq /\ pins[p] >= v.until
        /\ Replayable(v)
    BY DEF IInv, ServedInv
  <2>2. v.seq \in Nat
    BY DEF IInv, LogTypeOK, Baselines, Seqs
  <2>3. QED
    BY <1>1, <1>2, <1>3, <2>1, <2>2 DEF Replayable, Accept
<1>10. QED
  BY <1>4, <1>6, <1>7, <1>8, <1>9 DEF IInv

LEMMA StartSaveIInv ==
    ASSUME IInv, StartSave
    PROVE  IInv'
<1>1. log.latest \in Nat /\ log.persisted \in Nat /\ fileSeq \in Nat
  BY IInvGood DEF IInv, LogTypeOK, Seqs
<1>2. /\ save' \in Saving
      /\ save'.phase = "writing"
      /\ save'.target = log.latest
      /\ save'.startedAt = now
  BY DEF StartSave, Saving, IInv, LogTypeOK
<1>3. save' # Idle
  BY <1>2 DEF Saving, Idle
<1>4. LogTypeOK'
  BY <1>2 DEF IInv, LogTypeOK, StartSave
<1>5. fileSeq = log.persisted
  BY DEF IInv, DiskInv, StartSave
<1>6. LogInv' /\ DiskInv'
  BY <1>3 DEF IInv, LogInv, DiskInv, StartSave
<1>7. SaveInv'
  <2>1. fileSeq <= log.latest /\ now \in Nat
    BY DEF IInv, DiskInv, StartSave, LogTypeOK
  <2>2. QED
    BY <1>1, <1>2, <1>5, <2>1 DEF SaveInv, StartSave
<1>8. RequestInv' /\ ServedInv'
  BY DEF IInv, RequestInv, ServedInv, Replayable, StartSave
<1>9. QED
  BY <1>4, <1>6, <1>7, <1>8 DEF IInv

LEMMA RenameSavedFileIInv ==
    ASSUME IInv, RenameSavedFile
    PROVE  IInv'
<1>1. /\ save \in Saving /\ save.phase = "writing"
      /\ loaded
  BY DEF IInv, LogTypeOK, DiskInv, RenameSavedFile
<1>2. /\ save'.phase = "renamed"
      /\ save'.target = save.target
      /\ save'.startedAt = save.startedAt
      /\ save' \in Saving
      /\ save' # Idle
  BY <1>1 DEF RenameSavedFile, Saving, Idle
<1>3. /\ log.latest \in Nat /\ log.persisted \in Nat /\ fileSeq \in Nat
      /\ save.target \in Nat /\ MinReplayableSeq(log) \in Nat
  BY <1>1, IInvGood DEF IInv, LogTypeOK, Seqs, Saving
<1>4. /\ fileSeq' = save.target
      /\ fileSeq <= fileSeq'
      /\ fileSeq = log.persisted
      /\ fileSeq' <= log.latest
  BY <1>1, <1>3 DEF IInv, SaveInv, RenameSavedFile
<1>5. LogTypeOK'
  BY <1>1, <1>2, <1>4 DEF IInv, LogTypeOK, RenameSavedFile, Saving
<1>6. LogInv' /\ DiskInv'
  BY <1>1, <1>2, <1>3, <1>4 DEF IInv, LogInv, DiskInv, RenameSavedFile
<1>7. SaveInv'
  BY <1>1, <1>2, <1>3, <1>4 DEF IInv, SaveInv, RenameSavedFile
<1>8. RequestInv'
  <2> SUFFICES ASSUME http # Idle PROVE http.seq <= fileSeq'
    BY DEF IInv, RequestInv, RenameSavedFile
  <2>1. http.seq \in Nat /\ http.seq <= fileSeq
    BY DEF IInv, LogTypeOK, RequestInv, Requests, Seqs
  <2>2. QED
    BY <1>3, <1>4, <2>1
<1>9. ServedInv'
  <2> SUFFICES ASSUME NEW v \in served, ~v.cached, v.until > now
               PROVE  /\ v.seq <= fileSeq'
                      /\ \E p \in Seqs : p <= v.seq /\ pins[p] >= v.until
                      /\ Replayable(v)'
    BY DEF ServedInv, RenameSavedFile
  <2>1. /\ v.seq \in Nat
        /\ v.seq <= fileSeq
        /\ \E p \in Seqs : p <= v.seq /\ pins[p] >= v.until
        /\ Replayable(v)
    BY DEF IInv, ServedInv, LogTypeOK, Baselines, Seqs
  <2>2. QED
    BY <1>1, <1>3, <1>4, <2>1 DEF Replayable, RenameSavedFile
<1>10. QED
  BY <1>5, <1>6, <1>7, <1>8, <1>9 DEF IInv

\* The log FinishSave leaves, before the rest of the state is looked at.
LEMMA FinishSaveLog ==
    ASSUME IInv, FinishSave
    PROVE  /\ GoodLog(log')
           /\ log'.latest = log.latest
           /\ log'.persisted = save.target
           /\ MinReplayableSeq(log') \in Nat
           /\ MinReplayableSeq(log) <= MinReplayableSeq(log')
           /\ MinReplayableSeq(log') <= save.target
           /\ \A i \in 1 .. Len(log.entries) :
                 log.entries[i].seq <= MinReplayableSeq(log') =>
                    /\ log.entries[i].seq <= save.target
                    /\ log.entries[i].at < save.startedAt - Retention
                    /\ \A p \in Live(save.startedAt) : log.entries[i].seq <= p
           /\ \A p \in Live(save.startedAt), b \in Nat :
                 p <= b /\ MinReplayableSeq(log) <= b
                    => MinReplayableSeq(log') <= b
<1> DEFINE marked == MarkPersisted(log, save.target)
<1> DEFINE cutoff == save.startedAt - Retention
<1> DEFINE pinned == Live(save.startedAt)
<1>1. /\ save \in Saving
      /\ save.target \in Nat /\ save.startedAt \in Nat
      /\ log.persisted <= save.target /\ save.target <= log.latest
      /\ fileSeq = save.target
      /\ MinReplayableSeq(log) <= fileSeq
  <2>1. save \in Saving
    BY DEF IInv, LogTypeOK, FinishSave
  <2>2. save.target \in Nat /\ save.startedAt \in Nat
    BY <2>1 DEF Saving, Seqs
  <2>3. /\ log.persisted <= save.target /\ save.target <= log.latest
        /\ fileSeq = save.target
    BY DEF IInv, SaveInv, FinishSave
  <2>4. MinReplayableSeq(log) <= log.persisted
    BY DEF IInv, DiskInv, FinishSave
  <2>5. log.persisted \in Nat /\ MinReplayableSeq(log) \in Nat
    BY IInvGood
  <2>6. QED
    BY <2>1, <2>2, <2>3, <2>4, <2>5
<1>2. /\ GoodLog(log)
      /\ log.latest \in Nat /\ log.persisted \in Nat
      /\ MinReplayableSeq(log) \in Nat
      /\ MinReplayableSeq(log) = log.latest - Len(log.entries)
      /\ Len(log.entries) \in Nat
  BY IInvGood DEF GoodLog, Logs
<1>3. /\ GoodLog(marked)
      /\ marked.latest = log.latest
      /\ marked.entries = log.entries
      /\ marked.persisted = save.target
  BY <1>1, <1>2, MarkKeepsGood
<1>4. cutoff \in Int /\ pinned \in SUBSET Nat
  BY <1>1, ReplayLogAssumption DEF Live, Seqs
<1>5. log' = TrimPersistedOlderThan(marked, cutoff, pinned)
  BY DEF FinishSave
<1> HIDE DEF marked, cutoff, pinned
<1>6. /\ GoodLog(log')
      /\ log'.latest = log.latest
      /\ log'.persisted = save.target
      /\ Len(log'.entries) <= Len(log.entries)
      /\ \A i \in 1 .. Len(log.entries) :
            log.entries[i].seq <= log.latest - Len(log'.entries) =>
               ~Protected(marked, log.entries[i], cutoff, pinned)
  BY <1>3, <1>4, <1>5, TrimKeepsGood
<1>7. /\ MinReplayableSeq(log') = log.latest - Len(log'.entries)
      /\ MinReplayableSeq(log') \in Nat
      /\ Len(log'.entries) \in Nat
  BY <1>6, FloorIsLength DEF GoodLog, Logs
<1>8. \A i \in 1 .. Len(log.entries) :
         /\ log.entries[i].seq = MinReplayableSeq(log) + i
         /\ log.entries[i].seq \in Nat
         /\ log.entries[i].at \in Int
  <2> SUFFICES ASSUME NEW i \in 1 .. Len(log.entries)
               PROVE  /\ log.entries[i].seq = MinReplayableSeq(log) + i
                      /\ log.entries[i].seq \in Nat
                      /\ log.entries[i].at \in Int
    OBVIOUS
  <2>1. log.entries[i] \in Entries
    BY <1>2, ElementOfSeq DEF GoodLog, Logs
  <2>2. log.entries[i].seq = log.latest - Len(log.entries) + i
    BY <1>2 DEF GoodLog, ContiguousSuffix
  <2>3. QED
    BY <1>2, <2>1, <2>2 DEF Entries
<1>9. \A i \in 1 .. Len(log.entries) :
         log.entries[i].seq <= MinReplayableSeq(log') =>
            /\ log.entries[i].seq <= save.target
            /\ log.entries[i].at < cutoff
            /\ \A p \in pinned : log.entries[i].seq <= p
  <2> SUFFICES ASSUME NEW i \in 1 .. Len(log.entries),
                      log.entries[i].seq <= MinReplayableSeq(log')
               PROVE  /\ log.entries[i].seq <= save.target
                      /\ log.entries[i].at < cutoff
                      /\ \A p \in pinned : log.entries[i].seq <= p
    OBVIOUS
  <2>1. ~Protected(marked, log.entries[i], cutoff, pinned)
    BY <1>6, <1>7
  <2>2. /\ \A p \in pinned : ~(log.entries[i].seq > p)
        /\ ~(log.entries[i].seq > save.target)
        /\ ~(log.entries[i].at >= cutoff)
    BY <1>3, <2>1 DEF Protected
  <2>3. QED
    BY <1>1, <1>4, <1>8, <2>2
\* The last dropped entry has the number of the new floor.
<1>10. MinReplayableSeq(log') = MinReplayableSeq(log)
         \/ \E i \in 1 .. Len(log.entries) :
               log.entries[i].seq = MinReplayableSeq(log')
  <2>1. MinReplayableSeq(log') >= MinReplayableSeq(log)
    BY <1>2, <1>6, <1>7
  <2>2. CASE MinReplayableSeq(log') > MinReplayableSeq(log)
    <3> DEFINE j == MinReplayableSeq(log') - MinReplayableSeq(log)
    <3>1. j \in 1 .. Len(log.entries)
      BY <1>2, <1>7, <2>2
    <3>2. log.entries[j].seq = MinReplayableSeq(log) + j
      BY <1>8, <3>1
    <3>3. log.entries[j].seq = MinReplayableSeq(log')
      BY <1>2, <1>7, <3>2
    <3>4. QED
      BY <3>1, <3>3
  <2>3. QED
    BY <1>2, <1>7, <2>1, <2>2
<1>11. MinReplayableSeq(log') <= save.target
  BY <1>1, <1>2, <1>7, <1>9, <1>10
<1>12. \A p \in pinned, b \in Nat :
          p <= b /\ MinReplayableSeq(log) <= b => MinReplayableSeq(log') <= b
  <2> SUFFICES ASSUME NEW p \in pinned, NEW b \in Nat,
                      p <= b, MinReplayableSeq(log) <= b
               PROVE  MinReplayableSeq(log') <= b
    OBVIOUS
  <2>1. p \in Nat
    BY <1>4
  <2>2. QED
    BY <1>7, <1>9, <1>10, <2>1
<1>13. MinReplayableSeq(log) <= MinReplayableSeq(log')
  BY <1>2, <1>6, <1>7
<1>14. QED
  BY <1>6, <1>7, <1>9, <1>11, <1>12, <1>13 DEF cutoff, pinned

\* A pin that outlives the clock survives the pruning of any earlier time.
LEMMA PruneKeepsLive ==
    ASSUME NEW t \in Nat, pins \in [Seqs -> Nat]
    PROVE  /\ Prune(t) \in [Seqs -> Nat]
           /\ \A s \in Seqs : pins[s] > t => Prune(t)[s] = pins[s]
BY DEF Prune

LEMMA FinishSaveIInv ==
    ASSUME IInv, FinishSave
    PROVE  IInv'
<1>1. /\ save \in Saving
      /\ save.target \in Nat /\ save.startedAt \in Nat /\ now \in Nat
      /\ save.startedAt <= now
      /\ save.target <= log.latest
      /\ fileSeq = save.target
      /\ loaded
      /\ pins \in [Seqs -> Nat]
  BY DEF IInv, LogTypeOK, Saving, Seqs, SaveInv, DiskInv, FinishSave
<1>2. /\ GoodLog(log')
      /\ log'.latest = log.latest
      /\ log'.persisted = save.target
      /\ MinReplayableSeq(log') <= save.target
      /\ \A p \in Live(save.startedAt), b \in Nat :
            p <= b /\ MinReplayableSeq(log) <= b => MinReplayableSeq(log') <= b
  BY FinishSaveLog
<1>3. /\ pins' \in [Seqs -> Nat]
      /\ \A s \in Seqs : pins[s] > save.startedAt => pins'[s] = pins[s]
  BY <1>1, PruneKeepsLive DEF FinishSave
<1>4. LogTypeOK'
  BY <1>2, <1>3 DEF IInv, LogTypeOK, FinishSave, GoodLog
<1>5. LogInv'
  BY <1>2 DEF LogInv, GoodLog
<1>6. DiskInv'
  BY <1>1, <1>2 DEF DiskInv, FinishSave
<1>7. SaveInv'
  BY DEF SaveInv, FinishSave
<1>8. RequestInv'
  <2> SUFFICES ASSUME http # Idle
               PROVE  /\ http.seq <= fileSeq
                      /\ http.phase = "pinned" /\ http.until > now =>
                           pins'[http.seq] >= http.until
    BY DEF RequestInv, FinishSave
  <2>1. http.seq \in Seqs /\ (http.phase = "pinned" => http.until \in Nat)
    BY DEF IInv, LogTypeOK, Requests, Seqs
  <2>2. QED
    BY <1>1, <1>3, <2>1 DEF IInv, RequestInv
<1>9. ServedInv'
  <2> SUFFICES ASSUME NEW v \in served, ~v.cached, v.until > now
               PROVE  /\ v.seq <= fileSeq
                      /\ \E p \in Seqs : p <= v.seq /\ pins'[p] >= v.until
                      /\ Replayable(v)'
    BY DEF ServedInv, FinishSave
  <2>1. v.seq \in Nat /\ v.until \in Nat
    BY DEF IInv, LogTypeOK, Baselines, Seqs
  <2>2. v.seq <= fileSeq /\ Replayable(v)
    BY DEF IInv, ServedInv
  <2>3. PICK p \in Seqs : p <= v.seq /\ pins[p] >= v.until
    BY DEF IInv, ServedInv
  <2>4. pins[p] \in Nat /\ pins[p] > save.startedAt
    BY <1>1, <2>1, <2>3
  <2>5. p \in Live(save.startedAt) /\ pins'[p] = pins[p]
    BY <1>3, <2>4 DEF Live
  <2>6. MinReplayableSeq(log') <= v.seq
    BY <1>1, <1>2, <2>1, <2>2, <2>3, <2>5 DEF Replayable
  <2>7. QED
    BY <1>1, <1>2, <2>2, <2>3, <2>5, <2>6 DEF Replayable, FinishSave
<1>10. QED
  BY <1>4, <1>5, <1>6, <1>7, <1>8, <1>9 DEF IInv

LEMMA FailSaveIInv ==
    ASSUME IInv, FailSave
    PROVE  IInv'
<1>1. LogTypeOK'
  BY DEF IInv, LogTypeOK, FailSave
<1>2. LogInv' /\ DiskInv'
  BY DEF IInv, LogInv, DiskInv, SaveInv, FailSave
<1>3. SaveInv' /\ RequestInv' /\ ServedInv'
  BY DEF IInv, SaveInv, RequestInv, ServedInv, Replayable, FailSave
<1>4. QED
  BY <1>1, <1>2, <1>3 DEF IInv

\* Every page that may still connect has the stored baseline: a page with an
\* older one has a live pin, and that pin would have postponed the unload.
LEMMA UnloadIInv ==
    ASSUME IInv, Unload
    PROVE  IInv'
<1>1. /\ fileSeq \in Seqs /\ fileSeq \in Nat /\ now \in Nat
      /\ log.persisted = fileSeq
      /\ pins \in [Seqs -> Nat]
  BY DEF IInv, LogTypeOK, Seqs, DiskInv, Unload
<1>2. \A s \in Seqs : pins[s] > now => s >= fileSeq
  BY <1>1 DEF Unload, Live
<1>3. /\ pins' \in [Seqs -> Nat]
      /\ \A s \in Seqs : pins[s] > now => pins'[s] = pins[s]
  <2>1. /\ Prune(now) \in [Seqs -> Nat]
        /\ \A s \in Seqs : pins[s] > now => Prune(now)[s] = pins[s]
    BY <1>1, PruneKeepsLive
  <2>2. pins' = [s \in Seqs |-> IF s < fileSeq THEN 0 ELSE Prune(now)[s]]
    BY <1>1 DEF Unload
  <2>3. \A s \in Seqs : s >= fileSeq => ~(s < fileSeq)
    BY <1>1 DEF Seqs
  <2>4. QED
    BY <1>2, <2>1, <2>2, <2>3
<1>4. GoodLog(log') /\ log'.latest = fileSeq /\ log' = NewLog(fileSeq)
  BY <1>1, NewLogIsGood DEF Unload, NewLog
<1>5. LogTypeOK'
  BY <1>1, <1>3, <1>4 DEF IInv, LogTypeOK, Unload, GoodLog
<1>6. LogInv'
  BY <1>4 DEF LogInv, GoodLog
<1>7. DiskInv' /\ SaveInv'
  BY <1>4 DEF DiskInv, SaveInv, Unload
<1>8. RequestInv'
  <2> SUFFICES ASSUME http # Idle
               PROVE  /\ http.seq <= fileSeq
                      /\ http.phase = "pinned" /\ http.until > now =>
                           pins'[http.seq] >= http.until
    BY DEF RequestInv, Unload
  <2>1. http.seq \in Seqs /\ (http.phase = "pinned" => http.until \in Nat)
    BY DEF IInv, LogTypeOK, Requests, Seqs
  <2>2. /\ http.seq <= fileSeq
        /\ http.phase = "pinned" /\ http.until > now =>
             pins[http.seq] >= http.until
    BY DEF IInv, RequestInv
  <2>3. ASSUME http.phase = "pinned", http.until > now
        PROVE  pins'[http.seq] >= http.until
    <3>1. pins[http.seq] >= http.until /\ pins[http.seq] \in Nat
      BY <1>1, <2>1, <2>2, <2>3
    <3>2. pins[http.seq] > now
      BY <1>1, <2>1, <2>3, <3>1
    <3>3. QED
      BY <1>3, <2>1, <3>1, <3>2
  <2>4. QED
    BY <2>2, <2>3
<1>9. ServedInv'
  <2> SUFFICES ASSUME NEW v \in served, ~v.cached, v.until > now
               PROVE  /\ v.seq <= fileSeq
                      /\ \E p \in Seqs : p <= v.seq /\ pins'[p] >= v.until
                      /\ v.seq = fileSeq
    BY DEF ServedInv, Unload, Replayable
  <2>1. v.seq \in Nat /\ v.until \in Nat /\ v.seq <= fileSeq
    BY DEF IInv, LogTypeOK, Baselines, Seqs, ServedInv
  <2>2. PICK p \in Seqs : p <= v.seq /\ pins[p] >= v.until
    BY DEF IInv, ServedInv
  <2>3. pins[p] \in Nat /\ pins[p] > now /\ p \in Nat
    BY <1>1, <2>1, <2>2 DEF Seqs
  <2>4. p >= fileSeq /\ pins'[p] = pins[p]
    BY <1>2, <1>3, <2>3
  <2>5. QED
    BY <1>1, <2>1, <2>2, <2>3, <2>4
<1>10. QED
  BY <1>5, <1>6, <1>7, <1>8, <1>9 DEF IInv

\* Pinning keeps every pin, extends none backwards, and lasts PinTtl.
LEMMA PinExtends ==
    ASSUME LogTypeOK, NEW seq \in Seqs, Pin(seq)
    PROVE  /\ pins' \in [Seqs -> Nat]
           /\ \A s \in Seqs : pins'[s] >= pins[s]
           /\ pins'[seq] >= now + PinTtl
           /\ now + PinTtl \in Nat
BY ReplayLogAssumption DEF LogTypeOK, Pin

LEMMA ReadStoredSeqIInv ==
    ASSUME IInv, ReadStoredSeq
    PROVE  IInv'
<1>1. fileSeq \in Seqs /\ fileSeq \in Nat
  BY DEF IInv, LogTypeOK, Seqs
<1>2. http' \in Requests /\ http'.seq = fileSeq /\ http'.phase = "read"
  BY <1>1 DEF ReadStoredSeq, Requests
<1>3. LogTypeOK'
  BY <1>2 DEF IInv, LogTypeOK, ReadStoredSeq
<1>4. RequestInv'
  BY <1>1, <1>2 DEF RequestInv, ReadStoredSeq
<1>5. LogInv' /\ DiskInv' /\ SaveInv' /\ ServedInv'
  BY DEF IInv, LogInv, DiskInv, SaveInv, ServedInv, Replayable, ReadStoredSeq
<1>6. QED
  BY <1>3, <1>4, <1>5 DEF IInv

\* Extending the pins and serving v keeps ServedInv when v is covered itself.
LEMMA ServeIInv ==
    ASSUME IInv, UNCHANGED <<now, fileSeq, loaded, log>>,
           pins' \in [Seqs -> Nat], \A s \in Seqs : pins'[s] >= pins[s],
           NEW v \in Baselines,
           served' = served \cup {v} \/ served' = served,
           \/ served' = served
           \/ v.cached
           \/ /\ v.seq <= fileSeq
              /\ \E p \in Seqs : p <= v.seq /\ pins'[p] >= v.until
              /\ Replayable(v)
           \/ ~(v.until > now)
    PROVE  ServedInv'
<1> SUFFICES ASSUME NEW w \in served', ~w.cached, w.until > now
             PROVE  /\ w.seq <= fileSeq
                    /\ \E p \in Seqs : p <= w.seq /\ pins'[p] >= w.until
                    /\ Replayable(w)'
  BY DEF ServedInv
<1>1. CASE w \in served
  <2>1. /\ w.seq <= fileSeq /\ Replayable(w)
        /\ w.until \in Nat
    BY <1>1 DEF IInv, ServedInv, LogTypeOK, Baselines
  <2>2. PICK p \in Seqs : p <= w.seq /\ pins[p] >= w.until
    BY <1>1 DEF IInv, ServedInv
  <2>3. pins[p] \in Nat /\ pins'[p] \in Nat /\ pins'[p] >= pins[p]
    BY DEF IInv, LogTypeOK
  <2>4. pins'[p] >= w.until
    BY <2>1, <2>2, <2>3
  <2>5. QED
    BY <2>1, <2>2, <2>4 DEF Replayable
<1>2. CASE w \notin served
  <2>1. w = v
    BY <1>2
  <2>2. QED
    BY <1>2, <2>1 DEF Replayable
<1>3. QED
  BY <1>1, <1>2

LEMMA PinServedBaselineIInv ==
    ASSUME IInv, PinServedBaseline
    PROVE  IInv'
<1>1. http.seq \in Seqs /\ http.seq <= fileSeq
  BY DEF IInv, LogTypeOK, RequestInv, Requests, PinServedBaseline
<1>2. /\ pins' \in [Seqs -> Nat]
      /\ \A s \in Seqs : pins'[s] >= pins[s]
      /\ pins'[http.seq] >= now + PinTtl
      /\ now + PinTtl \in Nat
  BY <1>1, PinExtends DEF IInv, PinServedBaseline
<1>3. /\ http' \in Requests
      /\ http'.seq = http.seq /\ http'.until = now + PinTtl
  BY <1>1, <1>2 DEF PinServedBaseline, Requests
<1>4. LogTypeOK'
  BY <1>2, <1>3 DEF IInv, LogTypeOK, PinServedBaseline
<1>5. RequestInv'
  BY <1>1, <1>2, <1>3 DEF RequestInv, PinServedBaseline
<1>6. LogInv' /\ DiskInv' /\ SaveInv'
  BY DEF IInv, LogInv, DiskInv, SaveInv, PinServedBaseline
<1>7. ServedInv'
  <2>1. PICK v \in Baselines : v = [seq |-> http.seq, until |-> 0, cached |-> TRUE]
    BY <1>1 DEF Baselines
  <2>2. QED
    BY <1>2, <2>1, ServeIInv DEF PinServedBaseline
<1>8. QED
  BY <1>4, <1>5, <1>6, <1>7 DEF IInv

LEMMA StreamBaselineIInv ==
    ASSUME IInv, StreamBaseline
    PROVE  IInv'
<1> DEFINE v == [seq |-> fileSeq, until |-> http.until, cached |-> FALSE]
<1>1. http.seq \in Seqs /\ http.until \in Nat /\ fileSeq \in Seqs /\ fileSeq \in Nat
      /\ pins \in [Seqs -> Nat] /\ now \in Nat
  BY DEF IInv, LogTypeOK, Requests, StreamBaseline, Idle, Seqs
<1>2. v \in Baselines /\ served' = served \cup {v}
  BY <1>1 DEF Baselines, StreamBaseline, Serve
<1>3. LogTypeOK'
  BY <1>2 DEF IInv, LogTypeOK, StreamBaseline
<1>4. LogInv' /\ DiskInv' /\ SaveInv' /\ RequestInv'
  BY DEF IInv, LogInv, DiskInv, SaveInv, RequestInv, StreamBaseline
<1>5. ASSUME v.until > now
      PROVE  /\ v.seq <= fileSeq
             /\ \E p \in Seqs : p <= v.seq /\ pins'[p] >= v.until
  <2>1. http.seq <= fileSeq /\ pins[http.seq] >= http.until
    BY <1>5 DEF IInv, RequestInv, StreamBaseline
  <2>2. v.seq = fileSeq /\ v.until = http.until /\ pins' = pins
    BY DEF StreamBaseline
  <2>3. v.seq <= fileSeq
    BY <1>1, <2>2
  <2> HIDE DEF v
  <2>4. QED
    BY <1>1, <2>1, <2>2, <2>3
<1>6. Replayable(v)
  <2>1. loaded => MinReplayableSeq(log) <= fileSeq /\ fileSeq <= log.latest
    BY <1>1, IInvGood DEF IInv, DiskInv
  <2>2. QED
    BY <2>1 DEF Replayable
<1>7. ServedInv'
  <2>1. pins' = pins /\ \A s \in Seqs : pins'[s] >= pins[s]
    BY <1>1 DEF StreamBaseline
  <2> HIDE DEF v
  <2>2. QED
    BY <1>1, <1>2, <1>5, <1>6, <2>1, ServeIInv DEF StreamBaseline
<1>8. QED
  BY <1>3, <1>4, <1>7 DEF IInv

LEMMA StoredNotModifiedIInv ==
    ASSUME IInv, StoredNotModified
    PROVE  IInv'
<1> DEFINE v == [seq |-> http.seq, until |-> now + PinTtl, cached |-> TRUE]
<1>1. http.seq \in Seqs
  BY DEF IInv, LogTypeOK, Requests, StoredNotModified
<1>2. /\ pins' \in [Seqs -> Nat]
      /\ \A s \in Seqs : pins'[s] >= pins[s]
      /\ now + PinTtl \in Nat
  BY <1>1, PinExtends DEF IInv, StoredNotModified
<1>3. v \in Baselines /\ served' = served \cup {v}
  BY <1>1, <1>2 DEF Baselines, StoredNotModified, Serve
<1>4. LogTypeOK'
  BY <1>2, <1>3 DEF IInv, LogTypeOK, StoredNotModified
<1>5. LogInv' /\ DiskInv' /\ SaveInv' /\ RequestInv'
  BY DEF IInv, LogInv, DiskInv, SaveInv, RequestInv, StoredNotModified
<1>6. ServedInv'
  <2>1. v.cached
    OBVIOUS
  <2> HIDE DEF v
  <2>2. QED
    BY <1>2, <1>3, <2>1, ServeIInv DEF StoredNotModified
<1>7. QED
  BY <1>4, <1>5, <1>6 DEF IInv

LEMMA LoadedNotModifiedIInv ==
    ASSUME IInv, LoadedNotModified
    PROVE  IInv'
<1> DEFINE v == [seq |-> log.persisted, until |-> now + PinTtl, cached |-> FALSE]
<1>1. /\ fileSeq \in Seqs /\ log.persisted \in Nat /\ log.latest \in Nat
      /\ MinReplayableSeq(log) <= log.persisted
      /\ log.persisted <= fileSeq /\ fileSeq <= log.latest
  BY IInvGood DEF IInv, LogTypeOK, DiskInv, LoadedNotModified
<1>2. log.persisted \in Seqs
  BY <1>1, ReplayLogAssumption DEF Seqs
<1>3. /\ pins' \in [Seqs -> Nat]
      /\ \A s \in Seqs : pins'[s] >= pins[s]
      /\ pins'[log.persisted] >= now + PinTtl
      /\ now + PinTtl \in Nat
  BY <1>2, PinExtends DEF IInv, LoadedNotModified
<1>4. v \in Baselines /\ served' = served \cup {v}
  BY <1>2, <1>3 DEF Baselines, LoadedNotModified, Serve
<1>5. LogTypeOK'
  BY <1>3, <1>4 DEF IInv, LogTypeOK, LoadedNotModified
<1>6. LogInv' /\ DiskInv' /\ SaveInv'
  BY DEF IInv, LogInv, DiskInv, SaveInv, LoadedNotModified
<1>7. RequestInv'
  BY DEF RequestInv, LoadedNotModified
<1>8. ServedInv'
  <2>1. v.seq = log.persisted /\ v.until = now + PinTtl
    OBVIOUS
  <2> HIDE DEF v
  <2>2. v.seq <= fileSeq /\ v.seq <= log.latest
    BY <1>1, <2>1, fileSeq \in Nat DEF Seqs
  <2>3. Replayable(v)
    BY <1>1, <2>1, <2>2 DEF Replayable, LoadedNotModified
  <2>4. \E p \in Seqs : p <= v.seq /\ pins'[p] >= v.until
    BY <1>1, <1>2, <1>3, <2>1
  <2>5. QED
    BY <1>3, <1>4, <2>2, <2>3, <2>4, ServeIInv DEF LoadedNotModified
<1>9. QED
  BY <1>5, <1>6, <1>7, <1>8 DEF IInv

LEMMA TickIInv ==
    ASSUME IInv, Tick
    PROVE  IInv'
<1>1. now \in Nat /\ now' = now + 1
  BY DEF IInv, LogTypeOK, Tick
<1>2. LogTypeOK'
  BY <1>1 DEF IInv, LogTypeOK, Tick
<1>3. LogInv' /\ DiskInv'
  BY DEF IInv, LogInv, DiskInv, Tick
<1>4. SaveInv'
  BY <1>1 DEF IInv, SaveInv, Tick, LogTypeOK, Saving
<1>5. RequestInv'
  <2> SUFFICES ASSUME http # Idle
               PROVE  /\ http.seq <= fileSeq
                      /\ http.phase = "pinned" /\ http.until > now' =>
                           pins[http.seq] >= http.until
    BY DEF RequestInv, Tick
  <2>1. http.phase = "pinned" => http.until \in Nat
    BY DEF IInv, LogTypeOK, Requests
  <2>2. QED
    BY <1>1, <2>1 DEF IInv, RequestInv
<1>6. ServedInv'
  <2> SUFFICES ASSUME NEW v \in served, ~v.cached, v.until > now'
               PROVE  /\ v.seq <= fileSeq
                      /\ \E p \in Seqs : p <= v.seq /\ pins[p] >= v.until
                      /\ Replayable(v)'
    BY DEF ServedInv, Tick
  <2>1. v.until \in Nat
    BY DEF IInv, LogTypeOK, Baselines
  <2>2. v.until > now
    BY <1>1, <2>1
  <2>3. QED
    BY <2>2 DEF IInv, ServedInv, Replayable, Tick
<1>7. QED
  BY <1>2, <1>3, <1>4, <1>5, <1>6 DEF IInv

LEMMA CrashIInv ==
    ASSUME IInv, Crash
    PROVE  IInv'
<1>1. fileSeq \in Nat /\ fileSeq \in Seqs
  BY DEF IInv, LogTypeOK, Seqs
<1>2. GoodLog(log') /\ log'.latest = fileSeq /\ log' = NewLog(fileSeq)
  BY <1>1, NewLogIsGood DEF Crash, NewLog
<1>3. LogTypeOK'
  BY <1>1, <1>2 DEF IInv, LogTypeOK, Crash, GoodLog
<1>4. LogInv'
  BY <1>2 DEF LogInv, GoodLog
<1>5. DiskInv' /\ SaveInv' /\ RequestInv' /\ ServedInv'
  BY <1>2 DEF DiskInv, SaveInv, RequestInv, ServedInv, Crash
<1>6. QED
  BY <1>3, <1>4, <1>5 DEF IInv

LEMMA StepIInv == IInv /\ [LogNext]_logVars => IInv'
<1> SUFFICES ASSUME IInv, [LogNext]_logVars
             PROVE  IInv'
  OBVIOUS
<1>1. CASE UNCHANGED logVars
  BY <1>1 DEF logVars, IInv, LogTypeOK, LogInv, DiskInv, SaveInv, RequestInv,
              ServedInv, Replayable
<1>2. CASE LogNext
  BY <1>2, LoadIInv, AcceptIInv, StartSaveIInv, RenameSavedFileIInv,
     FinishSaveIInv, FailSaveIInv, UnloadIInv, ReadStoredSeqIInv,
     PinServedBaselineIInv, StreamBaselineIInv, StoredNotModifiedIInv,
     LoadedNotModifiedIInv, TickIInv, CrashIInv DEF LogNext
<1>3. QED
  BY <1>1, <1>2

LEMMA IInvAlways == LogSpec => []IInv
BY InitIInv, StepIInv, PTL DEF LogSpec

-----------------------------------------------------------------------------
(* What follows from the inductive invariant *)

\* Every state has the types the code keeps (log, pins, requests).
THEOREM TypeCorrect == LogSpec => []LogTypeOK
<1>1. IInv => LogTypeOK
  BY DEF IInv
<1>2. QED
  BY <1>1, IInvAlways, PTL

\* readFrom returns exactly the mutations a client at any replayable baseline
\* misses (prepareConnectionReplay), for every history of saves and trims.
THEOREM ReplayExact == LogSpec => []ReplayIsExact
<1>1. IInv => ReplayIsExact
  BY IInvGood, ReadFromIsExact DEF ReplayIsExact
<1>2. QED
  BY <1>1, IInvAlways, PTL

\* A page that reads the stored SVG now can be caught up from it.
THEOREM StoredReplayable == LogSpec => []StoredBaselineReplayable
<1>1. ASSUME IInv PROVE StoredBaselineReplayable
  <2>1. /\ fileSeq \in Nat /\ log.persisted \in Nat
        /\ MinReplayableSeq(log) \in Nat
    BY <1>1, IInvGood DEF IInv, LogTypeOK, Seqs
  <2>2. QED
    BY <1>1, <2>1 DEF IInv, DiskInv, StoredBaselineReplayable
<1>2. QED
  BY <1>1, IInvAlways, PTL

\* A page that was sent the stored SVG can be caught up until its pin expires.
THEOREM StreamedReplayable == LogSpec => []StreamedBaselineReplayable
<1>1. IInv => StreamedBaselineReplayable
  BY DEF IInv, ServedInv, StreamedBaselineReplayable
<1>2. QED
  BY <1>1, IInvAlways, PTL

LEMMA SeqMonotonicStep ==
    ASSUME IInv, LogNext
    PROVE  fileSeq' >= fileSeq /\ (loaded => fileSeq' <= log.latest)
<1>1. /\ fileSeq \in Nat /\ log.latest \in Nat
      /\ loaded => fileSeq <= log.latest
  BY IInvGood DEF IInv, LogTypeOK, Seqs, DiskInv
<1>2. CASE RenameSavedFile
  <2>1. save \in Saving
    BY <1>2 DEF IInv, LogTypeOK, RenameSavedFile
  <2>2. /\ save.target \in Nat /\ log.persisted <= save.target
        /\ save.target <= log.latest
        /\ fileSeq = log.persisted
    BY <1>2, <2>1 DEF IInv, SaveInv, RenameSavedFile, Saving, Seqs
  <2>3. QED
    BY <1>1, <1>2, <2>2 DEF RenameSavedFile
<1>3. CASE fileSeq' = fileSeq
  BY <1>1, <1>3
<1>4. QED
  BY <1>2, <1>3 DEF LogNext, Load, Accept, StartSave, FinishSave, FailSave, Unload,
     ReadStoredSeq, PinServedBaseline, StreamBaseline, StoredNotModified,
     LoadedNotModified, Tick, Crash

\* Stored sequence numbers never go back, and never ahead of what was accepted.
THEOREM StoredSeqMonotone == LogSpec => StoredSeqMonotonic
<1>1. IInv /\ [LogNext]_logVars =>
        [fileSeq' >= fileSeq /\ (loaded => fileSeq' <= log.latest)]_logVars
  BY SeqMonotonicStep
<1>2. QED
  BY <1>1, IInvAlways, PTL DEF LogSpec, StoredSeqMonotonic

\* What a step may drop from the log, as in TrimOnlyExpired.
DroppedOnlyExpired ==
    loaded /\ loaded' =>
        /\ MinReplayableSeq(log') >= MinReplayableSeq(log)
        /\ \A i \in 1 .. Len(log.entries) :
              LET e == log.entries[i]
              IN  e.seq <= MinReplayableSeq(log') =>
                    /\ e.seq <= fileSeq
                    /\ e.at < now - Retention
                    /\ \A p \in Live(now) : e.seq <= p

LEMMA TrimStep ==
    ASSUME IInv, LogNext
    PROVE  DroppedOnlyExpired
<1>1. /\ GoodLog(log) /\ log.latest \in Nat
      /\ MinReplayableSeq(log) \in Nat
      /\ MinReplayableSeq(log) = log.latest - Len(log.entries)
      /\ Len(log.entries) \in Nat
  BY IInvGood DEF GoodLog, Logs
<1>2. \A i \in 1 .. Len(log.entries) :
         log.entries[i].seq = MinReplayableSeq(log) + i
  <2> SUFFICES ASSUME NEW i \in 1 .. Len(log.entries)
               PROVE  log.entries[i].seq = MinReplayableSeq(log) + i
    OBVIOUS
  <2>1. log.entries[i].seq = log.latest - Len(log.entries) + i
    BY <1>1 DEF GoodLog, ContiguousSuffix
  <2>2. QED
    BY <1>1, <2>1
\* A step that leaves the floor where it is drops nothing.
<1>3. CASE MinReplayableSeq(log') = MinReplayableSeq(log)
  BY <1>1, <1>2, <1>3 DEF DroppedOnlyExpired
<1>4. CASE FinishSave
  <2>1. /\ save \in Saving /\ fileSeq = save.target
        /\ save.startedAt \in Nat /\ now \in Nat /\ save.startedAt <= now
        /\ save.target \in Nat
        /\ pins \in [Seqs -> Nat]
    BY <1>4 DEF IInv, LogTypeOK, SaveInv, FinishSave, Saving, Seqs
  <2>2. /\ MinReplayableSeq(log') \in Nat
        /\ MinReplayableSeq(log) <= MinReplayableSeq(log')
        /\ \A i \in 1 .. Len(log.entries) :
              log.entries[i].seq <= MinReplayableSeq(log') =>
                 /\ log.entries[i].seq <= save.target
                 /\ log.entries[i].at < save.startedAt - Retention
                 /\ \A p \in Live(save.startedAt) : log.entries[i].seq <= p
    BY <1>4, FinishSaveLog
  <2>3. Live(now) \subseteq Live(save.startedAt)
    <3>1. ASSUME NEW s \in Seqs, pins[s] > now PROVE pins[s] > save.startedAt
      <4>1. pins[s] \in Nat
        BY <2>1
      <4>2. QED
        BY <2>1, <3>1, <4>1
    <3>2. QED
      BY <3>1 DEF Live
  <2>4. ASSUME NEW i \in 1 .. Len(log.entries),
               log.entries[i].at < save.startedAt - Retention
        PROVE  log.entries[i].at < now - Retention
    <3>1. log.entries[i] \in Entries
      BY <1>1, ElementOfSeq DEF GoodLog, Logs
    <3>2. log.entries[i].at \in Int
      BY <3>1 DEF Entries
    <3>3. QED
      BY <2>1, <2>4, <3>2, ReplayLogAssumption
  <2>5. QED
    BY <1>1, <2>1, <2>2, <2>3, <2>4 DEF DroppedOnlyExpired
<1>5. ASSUME NEW t \in {now - 1, now}, Accept(t)
      PROVE  MinReplayableSeq(log') = MinReplayableSeq(log)
  <2>1. t \in Int
    BY DEF IInv, LogTypeOK
  <2>2. /\ GoodLog(log')
        /\ log'.latest = log.latest + 1
        /\ Len(log'.entries) = Len(log.entries) + 1
    BY <1>1, <1>5, <2>1, AppendKeepsGood DEF Accept
  <2>3. MinReplayableSeq(log') = log'.latest - Len(log'.entries)
    BY <2>2, FloorIsLength
  <2>4. QED
    BY <1>1, <2>2, <2>3
<1>6. CASE Load \/ Unload \/ Crash
  BY <1>6 DEF DroppedOnlyExpired, Load, Unload, Crash
<1>7. ASSUME log' = log
      PROVE  MinReplayableSeq(log') = MinReplayableSeq(log)
  BY <1>7
<1>8. QED
  BY <1>3, <1>4, <1>5, <1>6, <1>7
  DEF LogNext, StartSave, RenameSavedFile, FailSave, ReadStoredSeq,
      PinServedBaseline, StreamBaseline, StoredNotModified, LoadedNotModified,
      Tick

\* Saves drop only mutations that are stored, expired and covered by no pin.
THEOREM TrimsOnlyExpired == LogSpec => TrimOnlyExpired
<1>1. IInv /\ [LogNext]_logVars => [DroppedOnlyExpired]_logVars
  BY TrimStep
<1>2. QED
  BY <1>1, IInvAlways, PTL DEF LogSpec, TrimOnlyExpired, DroppedOnlyExpired
=============================================================================
