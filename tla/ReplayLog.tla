----------------------------- MODULE ReplayLog -----------------------------
(***************************************************************************)
(* One board's replay history over time: accepted writes append to the log *)
(* of the loaded board, saves fold a prefix of it into the stored SVG and  *)
(* trim it, HTTP requests hand the stored SVG to pages and pin its sequence*)
(* number so that the page's socket can still be caught up afterwards.     *)
(*                                                                         *)
(* An action is one turn of the event loop.  The stored SVG is represented *)
(* by its sequence number, `fileSeq'.  Clock values are ticks.             *)
(***************************************************************************)
EXTENDS MutationLog

CONSTANTS
    MaxSeq,      \* bound on accepted mutations
    MaxTime,     \* bound on the clock
    Retention,   \* SEQ_REPLAY_RETENTION_MS
    PinTtl       \* MAX_SAVE_DELAY, the lifetime of a replay pin

ASSUME ReplayLogAssumption ==
    /\ MaxSeq \in Nat
    /\ MaxTime \in Nat
    /\ Retention \in Nat
    /\ PinTtl \in Nat

VARIABLES
    now,     \* Date.now()
    fileSeq, \* sequence number of the stored SVG
    loaded,  \* whether the board is in the registry
    log,     \* board.mutationLog
    save,    \* the save in progress
    pins,    \* replayPinsByBoard: baseline -> expiry, 0 when not pinned
    http,    \* the board or SVG request being served
    served   \* baselines handed to pages, with the end of their pin and
             \* whether the page was told to keep the copy it has cached

logVars == <<now, fileSeq, loaded, log, save, pins, http, served>>

Seqs == 0 .. MaxSeq
Idle == [phase |-> "idle"]
Saving == [phase : {"writing", "renamed"}, target : Seqs, startedAt : Nat]
Requests == [phase : {"read"}, seq : Seqs]
            \cup [phase : {"pinned"}, seq : Seqs, until : Nat]
Baselines == [seq : Seqs, until : Nat, cached : BOOLEAN]

LogTypeOK ==
    /\ now \in Nat
    /\ fileSeq \in Seqs
    /\ loaded \in BOOLEAN
    /\ log \in Logs
    /\ log.latest \in Seqs
    /\ save \in {Idle} \cup Saving
    /\ pins \in [Seqs -> Nat]
    /\ http \in {Idle} \cup Requests
    /\ served \subseteq Baselines

LogInit ==
    /\ now = 0
    /\ fileSeq = 0
    /\ loaded = FALSE
    /\ log = NewLog(0)
    /\ save = Idle
    /\ pins = [s \in Seqs |-> 0]
    /\ http = Idle
    /\ served = {}

-----------------------------------------------------------------------------
(* Replay pins (server/board/registry.mjs) *)

Prune(t) == [s \in Seqs |-> IF pins[s] <= t THEN 0 ELSE pins[s]]
Live(t) == {s \in Seqs : pins[s] > t}

\* A later pin of the same baseline extends it, never shortens it.
Pin(seq) ==
    pins' = [pins EXCEPT ![seq] = IF now + PinTtl > @ THEN now + PinTtl ELSE @]

-----------------------------------------------------------------------------
(* The loaded board *)

\* Mutant of Load: the sequence number in the file is not read back.
LoadFromZero ==
    /\ ~loaded
    /\ loaded' = TRUE
    /\ log' = NewLog(0)
    /\ UNCHANGED <<now, fileSeq, save, pins, http, served>>

Load ==
    /\ ~loaded
    /\ loaded' = TRUE
    /\ log' = NewLog(fileSeq)
    /\ UNCHANGED <<now, fileSeq, save, pins, http, served>>

\* The acceptance time was read when the message arrived, before the handler
\* waited for the board: it may be older than the entry before it.
Accept(acceptedAt) ==
    /\ loaded
    /\ log.latest < MaxSeq
    /\ log' = AppendMutation(log, acceptedAt)
    /\ UNCHANGED <<now, fileSeq, loaded, save, pins, http, served>>

StartSave ==
    /\ loaded
    /\ save = Idle
    /\ log.latest # log.persisted
    /\ save' = [phase |-> "writing", target |-> log.latest, startedAt |-> now]
    /\ UNCHANGED <<now, fileSeq, loaded, log, pins, http, served>>

RenameSavedFile ==
    /\ save # Idle
    /\ save.phase = "writing"
    /\ fileSeq' = save.target
    /\ save' = [save EXCEPT !.phase = "renamed"]
    /\ UNCHANGED <<now, loaded, log, pins, http, served>>

\* Trimming measures age and pin expiry at the time the save started.
FinishSave ==
    /\ save # Idle
    /\ save.phase = "renamed"
    /\ log' = TrimPersistedOlderThan(MarkPersisted(log, save.target),
                                     save.startedAt - Retention,
                                     Live(save.startedAt))
    /\ pins' = Prune(save.startedAt)
    /\ save' = Idle
    /\ UNCHANGED <<now, fileSeq, loaded, http, served>>

FailSave ==
    /\ save # Idle
    /\ save.phase = "writing"
    /\ save' = Idle
    /\ UNCHANGED <<now, fileSeq, loaded, log, pins, http, served>>

\* Mutant of Unload: pinned baselines are ignored.
UnloadIgnoringPins ==
    /\ loaded
    /\ save = Idle
    /\ log.latest = log.persisted
    /\ pins' = [s \in Seqs |-> IF s < log.persisted THEN 0 ELSE Prune(now)[s]]
    /\ loaded' = FALSE
    /\ log' = NewLog(fileSeq)
    /\ UNCHANGED <<now, fileSeq, save, http, served>>

\* The last user left, the save before unloading succeeded, and no live pin is
\* older than the stored baseline (the unload is retried later otherwise).
Unload ==
    /\ loaded
    /\ save = Idle
    /\ log.latest = log.persisted
    /\ \A p \in Live(now) : p >= log.persisted
    /\ pins' = [s \in Seqs |-> IF s < log.persisted THEN 0 ELSE Prune(now)[s]]
    /\ loaded' = FALSE
    /\ log' = NewLog(fileSeq)
    /\ UNCHANGED <<now, fileSeq, save, http, served>>

-----------------------------------------------------------------------------
(* Serving the stored SVG (server/routes) *)

Serve(seq, until, cached) ==
    served' = served \cup {[seq |-> seq, until |-> until, cached |-> cached]}

ReadStoredSeq ==
    /\ http = Idle
    /\ http' = [phase |-> "read", seq |-> fileSeq]
    /\ UNCHANGED <<now, fileSeq, loaded, log, save, pins, served>>

PinServedBaseline ==
    /\ http # Idle
    /\ http.phase = "read"
    /\ Pin(http.seq)
    /\ http' = [phase |-> "pinned", seq |-> http.seq, until |-> now + PinTtl]
    /\ UNCHANGED <<now, fileSeq, loaded, log, save, served>>

\* The file is opened after the pin: the page gets what is stored by then.
StreamBaseline ==
    /\ http # Idle
    /\ http.phase = "pinned"
    /\ Serve(fileSeq, http.until, FALSE)
    /\ http' = Idle
    /\ UNCHANGED <<now, fileSeq, loaded, log, save, pins>>

\* The stored sequence number matches the page the browser has cached.
StoredNotModified ==
    /\ http # Idle
    /\ http.phase = "read"
    /\ Pin(http.seq)
    /\ Serve(http.seq, now + PinTtl, TRUE)
    /\ http' = Idle
    /\ UNCHANGED <<now, fileSeq, loaded, log, save>>

\* The loaded board answers without touching the file.
LoadedNotModified ==
    /\ loaded
    /\ http = Idle
    /\ Pin(log.persisted)
    /\ Serve(log.persisted, now + PinTtl, FALSE)
    /\ UNCHANGED <<now, fileSeq, loaded, log, save, http>>

-----------------------------------------------------------------------------

Tick ==
    /\ now < MaxTime
    /\ now' = now + 1
    /\ served' = {v \in served : v.until > now + 1}
    /\ UNCHANGED <<fileSeq, loaded, log, save, pins, http>>

\* The process dies and restarts: pins, history and requests are gone.
Crash ==
    /\ loaded' = FALSE
    /\ log' = NewLog(fileSeq)
    /\ save' = Idle
    /\ pins' = [s \in Seqs |-> 0]
    /\ http' = Idle
    /\ served' = {}
    /\ UNCHANGED <<now, fileSeq>>

LogNext ==
    \/ Load
    \/ \E t \in {now - 1, now} : Accept(t)
    \/ StartSave
    \/ RenameSavedFile
    \/ FinishSave
    \/ FailSave
    \/ Unload
    \/ ReadStoredSeq
    \/ PinServedBaseline
    \/ StreamBaseline
    \/ StoredNotModified
    \/ LoadedNotModified
    \/ Tick
    \/ Crash

LogSpec == LogInit /\ [][LogNext]_logVars

-----------------------------------------------------------------------------
(* Properties *)

\* A loaded board can bring a client from any baseline between its replay
\* floor and its newest mutation up to date, and readFrom then returns exactly
\* the missing mutations, in order (prepareConnectionReplay sends that list).
ReplayIsExact ==
    loaded =>
        \A b \in MinReplayableSeq(log) .. log.latest :
            LET batch == ReadFrom(log, b)
            IN  /\ Len(batch) = log.latest - b
                /\ \A i \in 1 .. Len(batch) : batch[i].seq = b + i

\* Whoever reads the stored SVG now can be caught up from it, also while a
\* save has replaced the file and has not yet been recorded in the log.
StoredBaselineReplayable ==
    loaded => MinReplayableSeq(log) <= fileSeq /\ fileSeq <= log.latest

Replayable(v) ==
    IF loaded THEN MinReplayableSeq(log) <= v.seq /\ v.seq <= log.latest
              ELSE v.seq = fileSeq

\* Until its pin expires, a page that received the stored SVG, or whose copy
\* the loaded board confirmed, can be replayed from that baseline, whatever
\* saves, unloads and reloads happen meanwhile (pinServedBoardBaseline).
StreamedBaselineReplayable ==
    \A v \in served : ~v.cached /\ v.until > now => Replayable(v)

\* "Baselines served over HTTP are temporarily pinned so saves cannot
\* prematurely remove the history connecting a page to its socket"
\* (ARCHITECTURE.md), which includes pages told that their copy is current.
\* It does not hold for them (README, finding 1) and is kept for the repair.
ServedBaselineReplayable ==
    \A v \in served : v.until > now => Replayable(v)

\* A step other than an unload or a crash drops a replayable mutation only if
\* it is stored, no live pin is older than it, and it has outlived the
\* retention period (trimPersistedOlderThan).
TrimOnlyExpired ==
    [][loaded /\ loaded' =>
        /\ MinReplayableSeq(log') >= MinReplayableSeq(log)
        /\ \A i \in 1 .. Len(log.entries) :
              LET e == log.entries[i]
              IN  e.seq <= MinReplayableSeq(log') =>
                    /\ e.seq <= fileSeq
                    /\ e.at < now - Retention
                    /\ \A p \in Live(now) : e.seq <= p]_logVars

\* Sequence numbers on disk only move forward, also across crashes, and never
\* past what was accepted.
StoredSeqMonotonic == [][fileSeq' >= fileSeq /\ (loaded => fileSeq' <= log.latest)]_logVars
=============================================================================
