--------------------------- MODULE SaveScheduler ---------------------------
(***************************************************************************)
(* When a loaded board is saved (server/board/data_persistence.mjs): a     *)
(* write arms a timer that waits for the board to be idle, but never       *)
(* longer than a maximum delay; a save disarms it, writes accepted during  *)
(* a save arm it again when the save ends, and so does a failed save.      *)
(* Saves run one at a time; a request made meanwhile waits in the queue.   *)
(*                                                                         *)
(* Writes are numbered by the board's sequence number.  An action is one   *)
(* turn of the event loop.                                                 *)
(***************************************************************************)
EXTENDS Naturals

CONSTANTS
    SaveInterval,  \* SAVE_INTERVAL
    MaxDelay,      \* MAX_SAVE_DELAY
    MaxWrites,     \* bound on accepted writes
    MaxQueued,     \* bound on the save requests that wait
    MaxTime        \* bound on the clock

\* configuration.mjs refuses a maximum delay shorter than the interval.
ASSUME SaveSchedulerAssumption ==
    /\ {SaveInterval, MaxDelay, MaxWrites, MaxQueued, MaxTime} \subseteq Nat
    /\ SaveInterval <= MaxDelay

VARIABLES
    now,          \* Date.now()
    seq,          \* getSeq()
    persisted,    \* getPersistedSeq()
    disk,         \* the sequence number of the stored file
    acceptedAt,   \* when each write was accepted
    dirtyFrom,    \* dirtyFromMs
    lastWrite,    \* lastWriteAtMs
    dirtyDuring,  \* dirtyDuringSaveFromMs
    timer,        \* when saveTimeoutId fires
    task,         \* the save in progress
    queued,       \* save requests behind it
    leftovers,    \* items that the last save had nothing to write of, and left dirty
    replaced,     \* the registry has no entry of this instance any more
    disposed

schedulerVars == <<now, seq, persisted, disk, acceptedAt, dirtyFrom, lastWrite,
                   dirtyDuring, timer, task, queued, leftovers, replaced, disposed>>
schedule == <<dirtyFrom, lastWrite, dirtyDuring, timer>>

Unset == [set |-> FALSE]
At(t) == [set |-> TRUE, time |-> t]
Times == {Unset} \cup [set : {TRUE}, time : Nat]

Idle == [phase |-> "idle"]
Saving == [phase : {"writing", "renamed", "recorded"}, target : Nat]

SchedulerTypeOK ==
    /\ {now, seq, persisted, disk} \subseteq Nat
    /\ acceptedAt \in [1 .. seq -> Nat]
    /\ {dirtyFrom, lastWrite, dirtyDuring, timer} \subseteq Times
    /\ task \in {Idle} \cup Saving
    /\ queued \in 0 .. MaxQueued
    /\ {leftovers, replaced, disposed} \subseteq BOOLEAN

SchedulerInit ==
    /\ now = 0 /\ seq = 0 /\ persisted = 0 /\ disk = 0
    /\ acceptedAt = [s \in 1 .. 0 |-> 0]
    /\ dirtyFrom = Unset /\ lastWrite = Unset /\ dirtyDuring = Unset
    /\ timer = Unset
    /\ task = Idle /\ queued = 0
    /\ leftovers = FALSE /\ replaced = FALSE /\ disposed = FALSE

Earlier(s, t) == IF s < t THEN s ELSE t
Later(s, t) == IF s > t THEN s ELSE t

\* computeScheduledSaveDelayMs, as the moment the timer is set to.
Due(from, last) ==
    Later(now, Earlier(last + SaveInterval, from + MaxDelay))

\* scheduleDirtySave when no save is in progress.
Armed(from, last, gone) ==
    IF gone \/ ~from.set \/ ~last.set THEN Unset
    ELSE At(Due(from.time, last.time))

-----------------------------------------------------------------------------

\* delaySave, called by every accepted write.  A write asks the registry for the
\* board.
Write ==
    /\ ~disposed /\ ~replaced
    /\ seq < MaxWrites /\ now + MaxDelay <= MaxTime
    /\ seq' = seq + 1
    /\ acceptedAt' = [s \in 1 .. seq + 1 |-> IF s <= seq THEN acceptedAt[s]
                                                         ELSE now]
    /\ dirtyFrom' = IF dirtyFrom.set THEN dirtyFrom ELSE At(now)
    /\ lastWrite' = At(now)
    /\ IF task = Idle
       THEN /\ timer' = Armed(dirtyFrom', lastWrite', disposed)
            /\ UNCHANGED dirtyDuring
       ELSE /\ dirtyDuring' = IF dirtyDuring.set THEN dirtyDuring ELSE At(now)
            /\ UNCHANGED timer
    /\ UNCHANGED <<now, persisted, disk, task, queued, leftovers, replaced, disposed>>

\* hasDirtyItems, and the sequence numbers.  An item is dirty from a write that is
\* not recorded, or because the last save had nothing to write of it.
NothingIsDirty == seq = persisted /\ ~leftovers
NothingToSave == disposed \/ NothingIsDirty

\* A task of the save queue starts.  It ends at once, but disarms the timer,
\* when it has nothing to do.
Begin ==
    /\ timer' = Unset
    /\ dirtyDuring' = Unset
    /\ task' = IF NothingToSave THEN Idle
               ELSE [phase |-> "writing", target |-> seq]

\* board.save(), from the timer or from an unload.
RequestSave ==
    /\ ~disposed
    /\ IF task = Idle
       THEN Begin /\ UNCHANGED queued
       ELSE queued < MaxQueued /\ queued' = queued + 1
            /\ UNCHANGED <<task, timer, dirtyDuring>>
    /\ UNCHANGED <<now, seq, persisted, disk, acceptedAt, dirtyFrom, lastWrite,
                   leftovers, replaced, disposed>>

TimerFires ==
    /\ timer.set
    /\ timer.time <= now
    /\ IF task = Idle THEN RequestSave
       ELSE /\ timer' = Unset
            /\ UNCHANGED <<now, seq, persisted, disk, acceptedAt, dirtyFrom,
                           lastWrite, dirtyDuring, task, queued, leftovers,
                           replaced, disposed>>

RenameSavedFile ==
    /\ task # Idle /\ task.phase = "writing"
    /\ disk' = task.target
    /\ task' = [task EXCEPT !.phase = "renamed"]
    /\ UNCHANGED <<now, seq, persisted, acceptedAt, schedule, queued, leftovers,
                   replaced, disposed>>

\* Mutant of RecordSave: the scheduling window is closed although there are
\* writes that came during the save.
RecordAndCloseWindow ==
    /\ task # Idle /\ task.phase = "renamed"
    /\ persisted' = task.target
    /\ dirtyFrom' = Unset /\ lastWrite' = Unset
    /\ task' = [task EXCEPT !.phase = "recorded"]
    /\ leftovers' \in BOOLEAN
    /\ UNCHANGED <<now, seq, disk, acceptedAt, dirtyDuring, timer, queued,
                   replaced, disposed>>

\* The save is recorded and the scheduling window restarts at the first write
\* it did not cover; the queue still waits for the file's size.
RecordSave ==
    /\ task # Idle /\ task.phase = "renamed"
    /\ persisted' = task.target
    /\ dirtyFrom' = dirtyDuring
    /\ lastWrite' = IF dirtyDuring.set THEN lastWrite ELSE Unset
    /\ task' = [task EXCEPT !.phase = "recorded"]
    /\ leftovers' \in BOOLEAN
    /\ UNCHANGED <<now, seq, disk, acceptedAt, dirtyDuring, timer, queued,
                   replaced, disposed>>

\* Mutant of EndSave: the timer is not armed again.
EndSaveUnarmed(gone, again) ==
    /\ dirtyDuring' = Unset
    /\ task' = IF queued > 0 /\ ~gone /\ ~NothingIsDirty
               THEN [phase |-> "writing", target |-> seq] ELSE Idle
    /\ queued' = IF task' = Idle THEN 0 ELSE queued - 1
    /\ timer' = Unset
    /\ disposed' = gone
    /\ UNCHANGED <<now, seq, persisted, disk, acceptedAt, dirtyFrom, lastWrite,
                   leftovers, replaced>>

\* The end of a save: the timer is armed again if writes are missing from the
\* file, unless the next task of the queue starts and disarms it.  Tasks with
\* nothing to do leave the queue in the same turn.
EndSave(gone, again) ==
    /\ dirtyDuring' = Unset
    /\ IF queued > 0 /\ ~gone /\ ~NothingIsDirty
       THEN /\ task' = [phase |-> "writing", target |-> seq]
            /\ queued' = queued - 1
            /\ timer' = Unset
       ELSE /\ task' = Idle
            /\ queued' = 0
            /\ timer' = IF again /\ ~NothingIsDirty
                        THEN Armed(dirtyFrom, lastWrite, gone) ELSE Unset
    /\ disposed' = gone
    /\ UNCHANGED <<now, seq, persisted, disk, acceptedAt, dirtyFrom, lastWrite,
                   leftovers, replaced>>

SaveDone ==
    /\ task # Idle /\ task.phase = "recorded"
    /\ EndSave(disposed, TRUE)

SaveFailed ==
    /\ task # Idle /\ task.phase = "writing"
    /\ EndSave(disposed, TRUE)

\* The stored file is another writer's: the board is dropped, unless it is not the
\* registered one; then nobody tells it, and it is not saved again by itself.
StaleSave ==
    /\ task # Idle /\ task.phase = "writing"
    /\ EndSave(disposed \/ ~replaced, FALSE)

\* The unload of another instance deletes the registry's entry by name
\* (BoardLifecycle).
LoseEntry ==
    /\ ~replaced
    /\ replaced' = TRUE
    /\ UNCHANGED <<now, seq, persisted, disk, acceptedAt, schedule, task, queued,
                   leftovers, disposed>>

Dispose ==
    /\ ~disposed
    /\ disposed' = TRUE
    /\ timer' = Unset
    /\ UNCHANGED <<now, seq, persisted, disk, acceptedAt, dirtyFrom, lastWrite,
                   dirtyDuring, task, queued, leftovers, replaced>>

Tick ==
    /\ now < MaxTime
    /\ now' = now + 1
    /\ UNCHANGED <<seq, persisted, disk, acceptedAt, schedule, task, queued,
                   leftovers, replaced, disposed>>

SchedulerNext ==
    \/ Write \/ RequestSave \/ TimerFires
    \/ RenameSavedFile \/ RecordSave \/ SaveDone \/ SaveFailed \/ StaleSave
    \/ LoseEntry \/ Dispose \/ Tick

(***************************************************************************)
(* The clock runs and a due timer fires; a save ends.  A file system that  *)
(* lets saves fail for ever is excluded: the rename is attempted again and *)
(* again, so it succeeds some time.                                        *)
(***************************************************************************)
Fairness ==
    /\ WF_schedulerVars(Tick)
    /\ WF_schedulerVars(TimerFires)
    /\ SF_schedulerVars(RenameSavedFile)
    /\ WF_schedulerVars(RecordSave)
    /\ WF_schedulerVars(SaveDone)

SchedulerSpec == SchedulerInit /\ [][SchedulerNext]_schedulerVars /\ Fairness

-----------------------------------------------------------------------------
(* Properties *)

Open == ~disposed /\ ~replaced
Unsaved == Open /\ seq # persisted

\* While a save runs no timer is armed, and between saves a registered board with
\* unsaved writes has its timer armed: no order of writes, failures and queued saves
\* leaves a write that nobody will save.
UnsavedIsScheduled == IF task = Idle THEN Unsaved => timer.set ELSE ~timer.set

\* The timer is set to no later than the maximum delay after the oldest write
\* that is missing from the file (or to now, when that moment has passed), ...
NoLaterThanMaxDelay ==
    Unsaved /\ task = Idle /\ timer.set =>
        timer.time <= Later(now, acceptedAt[persisted + 1] + MaxDelay)

\* ... and before that only once the board has been idle for the interval.
NotBeforeIdle ==
    timer.set /\ seq > persisted =>
        timer.time >= Earlier(acceptedAt[seq] + SaveInterval,
                              acceptedAt[persisted + 1] + MaxDelay)

\* The sequence number a save records is the one it wrote, and no newer write
\* is taken for stored.
RecordedIsStored == persisted <= disk /\ disk <= seq

\* The scheduler implements what saving promises: what is stored only grows, is
\* never ahead of what was accepted, and as long as the board stays registered every
\* accepted write is stored some time.
Promise == INSTANCE WriteBehind WITH accepted <- seq, stored <- disk,
                                     open <- Open
ImplementsWriteBehind == Promise!Spec
=============================================================================
