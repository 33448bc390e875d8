---------------------------- MODULE SavingProofs ----------------------------
(***************************************************************************)
(* Proofs about when a board is saved (SaveScheduler) and about what the   *)
(* server then knows of the stored content (CanonicalItems), for all       *)
(* values of their constants.                                              *)
(*                                                                         *)
(* The scheduler relates the timer to the times at which the writes that   *)
(* are missing from the file were accepted, but the code keeps only the    *)
(* window dirtyFrom .. lastWrite and, during a save, dirtyDuring.  Its     *)
(* inductive invariant, SchedulerIInv, says which writes these stand for.  *)
(*                                                                         *)
(* The index of the items is kept by turns that each see one mutation or   *)
(* batch, and is joined with what a save wrote long after its snapshot was *)
(* taken.  IInv says how the index, the file and the snapshot belong       *)
(* together, SizeInv which stored content each live item continues, and    *)
(* DrawInv what the file shows of it; with them the steps of the index are *)
(* those of DrawnBoard.                                                    *)
(***************************************************************************)
EXTENDS CanonicalItems, SaveScheduler, TLAPS, SequenceTheorems, FiniteSetTheorems,
        FunctionTheorems, NaturalsInduction, WellFoundedInduction

-----------------------------------------------------------------------------
(* When a board is saved *)

\* The window opens with the first write that is not recorded and ends with
\* the newest one; it is closed when every write is recorded.
WindowInv ==
    IF seq > persisted
    THEN dirtyFrom = At(acceptedAt[persisted + 1]) /\ lastWrite = At(acceptedAt[seq])
    ELSE dirtyFrom = Unset /\ lastWrite = Unset

\* During a save, dirtyDuring is the first write that the save does not cover.
DuringInv ==
    task # Idle =>
        dirtyDuring = IF seq > task.target THEN At(acceptedAt[task.target + 1])
                                           ELSE Unset

\* The file holds what is recorded, or what the save in progress has written.
ProgressInv ==
    /\ persisted <= disk /\ disk <= seq
    /\ task = Idle => disk = persisted
    /\ task # Idle =>
         /\ persisted <= task.target /\ task.target <= seq
         /\ task.phase = "writing" => disk = persisted
         /\ task.phase = "renamed" => disk = task.target
         /\ task.phase = "recorded" => persisted = task.target /\ disk = task.target

ClockInv == \A s \in 1 .. seq : acceptedAt[s] <= now

SchedulerIInv ==
    /\ SchedulerTypeOK /\ ClockInv
    /\ ProgressInv /\ DuringInv /\ WindowInv
    /\ UnsavedIsScheduled /\ NoLaterThanMaxDelay /\ NotBeforeIdle

-----------------------------------------------------------------------------

LEMMA ConstantsAreNat ==
    /\ SaveInterval \in Nat /\ MaxDelay \in Nat
    /\ MaxWrites \in Nat /\ MaxQueued \in Nat /\ MaxTime \in Nat
    /\ SaveInterval <= MaxDelay
BY SaveSchedulerAssumption DEF SaveSchedulerAssumption

\* What a moment is.
LEMMA Moments ==
    /\ Unset \in Times /\ ~Unset.set
    /\ \A t \in Nat : At(t) \in Times /\ At(t).set /\ At(t).time = t
BY DEF Unset, At, Times

\* A timer is due between the two deadlines that computeScheduledSaveDelayMs
\* compares.
LEMMA DueBounds ==
    ASSUME now \in Nat, NEW from \in Nat, NEW last \in Nat
    PROVE  /\ Due(from, last) \in Nat
           /\ Due(from, last) <= Later(now, from + MaxDelay)
           /\ Due(from, last) >= Earlier(last + SaveInterval, from + MaxDelay)
BY ConstantsAreNat DEF Due, Earlier, Later

\* The timer properties hold of a timer that was just armed from the window.
LEMMA ArmedIsTimely ==
    ASSUME now \in Nat, NEW from \in Nat, NEW last \in Nat,
           NEW t, t = Armed(At(from), At(last), FALSE)
    PROVE  /\ t \in Times /\ t.set
           /\ t.time <= Later(now, from + MaxDelay)
           /\ t.time >= Earlier(last + SaveInterval, from + MaxDelay)
<1>1. t = At(Due(from, last))
  BY Moments DEF Armed
<1>2. t.time = Due(from, last) /\ t \in Times /\ t.set
  BY <1>1, DueBounds, Moments
<1>3. QED
  BY <1>2, DueBounds

\* The window in a state with unsaved writes, as moments.
LEMMA OpenWindow ==
    ASSUME SchedulerIInv, seq # persisted
    PROVE  /\ persisted + 1 \in 1 .. seq /\ seq \in 1 .. seq
           /\ acceptedAt[persisted + 1] \in Nat /\ acceptedAt[seq] \in Nat
           /\ dirtyFrom = At(acceptedAt[persisted + 1])
           /\ lastWrite = At(acceptedAt[seq])
           /\ seq > persisted
<1>1. seq \in Nat /\ persisted \in Nat /\ disk \in Nat
      /\ acceptedAt \in [1 .. seq -> Nat]
  BY DEF SchedulerIInv, SchedulerTypeOK
<1>2. seq > persisted
  BY <1>1 DEF SchedulerIInv, ProgressInv
<1>3. persisted + 1 \in 1 .. seq /\ seq \in 1 .. seq
  BY <1>1, <1>2
<1>4. QED
  BY <1>1, <1>2, <1>3 DEF SchedulerIInv, WindowInv

\* A board without unsaved writes has a closed window.
LEMMA ClosedWindow ==
    ASSUME SchedulerIInv, seq = persisted
    PROVE  dirtyFrom = Unset /\ lastWrite = Unset
<1>1. seq \in Nat /\ persisted \in Nat
  BY DEF SchedulerIInv, SchedulerTypeOK
<1>2. QED
  BY <1>1 DEF SchedulerIInv, WindowInv

\* A save in progress, as a record.
LEMMA SaveFields ==
    ASSUME SchedulerIInv, task # Idle
    PROVE  /\ task \in Saving /\ task.target \in Nat
           /\ task.phase \in {"writing", "renamed", "recorded"}
BY DEF SchedulerIInv, SchedulerTypeOK, Saving

-----------------------------------------------------------------------------

LEMMA InitSchedulerIInv == SchedulerInit => SchedulerIInv
<1> SUFFICES ASSUME SchedulerInit PROVE SchedulerIInv
  OBVIOUS
<1> USE DEF SchedulerInit
<1>1. SchedulerTypeOK
  <2>1. acceptedAt \in [1 .. seq -> Nat]
    OBVIOUS
  <2>2. queued \in 0 .. MaxQueued
    BY ConstantsAreNat
  <2>3. {now, seq, persisted, disk} \subseteq Nat
    OBVIOUS
  <2>4. {dirtyFrom, lastWrite, dirtyDuring, timer} \subseteq Times
    BY Moments
  <2>5. task \in {Idle} \cup Saving
    OBVIOUS
  <2>6. {leftovers, replaced, disposed} \subseteq BOOLEAN
    OBVIOUS
  <2>7. QED
    BY <2>1, <2>2, <2>3, <2>4, <2>5, <2>6 DEF SchedulerTypeOK
<1>2. ClockInv /\ ProgressInv /\ DuringInv /\ WindowInv
  BY DEF ClockInv, ProgressInv, DuringInv, WindowInv
<1>3. UnsavedIsScheduled /\ NoLaterThanMaxDelay /\ NotBeforeIdle
  BY Moments DEF UnsavedIsScheduled, NoLaterThanMaxDelay, NotBeforeIdle, Unsaved
<1>4. QED
  BY <1>1, <1>2, <1>3 DEF SchedulerIInv

\* A write keeps the window it finds open and ends it with itself.
LEMMA WriteStep == ASSUME SchedulerIInv, Write PROVE SchedulerIInv'
<1> USE DEF Write
<1>1. /\ seq \in Nat /\ persisted \in Nat /\ disk \in Nat /\ now \in Nat
      /\ acceptedAt \in [1 .. seq -> Nat]
      /\ queued \in 0 .. MaxQueued /\ task \in {Idle} \cup Saving
      /\ persisted <= disk /\ disk <= seq
  BY DEF SchedulerIInv, SchedulerTypeOK, ProgressInv
<1>2. /\ acceptedAt' \in [1 .. seq' -> Nat]
      /\ \A s \in 1 .. seq : acceptedAt'[s] = acceptedAt[s]
      /\ acceptedAt'[seq'] = now
  BY <1>1
<1>3. /\ dirtyFrom' = At(acceptedAt'[persisted + 1])
      /\ acceptedAt'[persisted + 1] \in Nat
      /\ lastWrite' = At(acceptedAt'[seq'])
  <2>1. CASE seq = persisted
    BY <1>1, <1>2, <2>1, ClosedWindow, Moments
  <2>2. CASE seq # persisted
    BY <1>1, <1>2, <2>2, OpenWindow, Moments
  <2>3. QED
    BY <2>1, <2>2
<1>4. WindowInv'
  BY <1>1, <1>3 DEF WindowInv
<1>5. ClockInv'
  BY <1>1, <1>2 DEF SchedulerIInv, ClockInv
<1>6. ProgressInv'
  <2>1. CASE task = Idle
    BY <1>1, <2>1 DEF SchedulerIInv, ProgressInv
  <2>2. CASE task # Idle
    BY <1>1, <2>2, SaveFields DEF SchedulerIInv, ProgressInv
  <2>3. QED
    BY <2>1, <2>2
<1>7. CASE task = Idle
  <2>1. timer' = Armed(At(acceptedAt'[persisted + 1]), At(acceptedAt'[seq']), FALSE)
    <3>1. disposed' = FALSE /\ disposed = FALSE
      BY DEF SchedulerIInv, SchedulerTypeOK
    <3>2. QED
      BY <1>3, <1>7, <3>1
  <2>2. /\ timer' \in Times /\ timer'.set
        /\ timer'.time <= Later(now, acceptedAt'[persisted + 1] + MaxDelay)
        /\ timer'.time >= Earlier(acceptedAt'[seq'] + SaveInterval,
                                  acceptedAt'[persisted + 1] + MaxDelay)
    BY <1>1, <1>2, <1>3, <2>1, ArmedIsTimely
  <2>3. SchedulerTypeOK'
    BY <1>1, <1>2, <1>3, <2>2, Moments DEF SchedulerIInv, SchedulerTypeOK
  <2>4. DuringInv' /\ UnsavedIsScheduled'
    BY <1>7, <2>2 DEF DuringInv, UnsavedIsScheduled
  <2>5. NoLaterThanMaxDelay' /\ NotBeforeIdle'
    BY <2>2 DEF NoLaterThanMaxDelay, NotBeforeIdle, Later, Earlier
  <2>6. QED
    BY <1>4, <1>5, <1>6, <2>3, <2>4, <2>5 DEF SchedulerIInv
<1>8. CASE task # Idle
  <2>1. ~timer.set /\ timer' = timer
    BY <1>8 DEF SchedulerIInv, UnsavedIsScheduled
  <2>2. /\ task.target \in Nat /\ task.target <= seq
        /\ dirtyDuring = IF seq > task.target
                         THEN At(acceptedAt[task.target + 1]) ELSE Unset
    BY <1>8, SaveFields DEF SchedulerIInv, ProgressInv, DuringInv
  <2>3. /\ dirtyDuring' = At(acceptedAt'[task.target + 1])
        /\ dirtyDuring' \in Times
    <3>1. CASE seq > task.target
      <4>1. /\ task.target + 1 \in 1 .. seq
            /\ acceptedAt[task.target + 1] \in Nat
        BY <1>1, <2>2, <3>1
      <4>2. dirtyDuring.set
        BY <2>2, <3>1, <4>1, Moments
      <4>3. QED
        BY <1>2, <1>8, <2>2, <3>1, <4>1, <4>2, Moments
    <3>2. CASE seq = task.target
      <4>1. dirtyDuring = Unset /\ seq' = task.target + 1
        BY <1>1, <2>2, <3>2
      <4>2. ~dirtyDuring.set
        BY <4>1, Moments
      <4>3. QED
        BY <1>1, <1>2, <1>8, <4>1, <4>2, Moments
    <3>3. QED
      BY <1>1, <2>2, <3>1, <3>2
  <2>4. DuringInv'
    BY <1>1, <2>2, <2>3 DEF DuringInv
  <2>5. SchedulerTypeOK'
    BY <1>1, <1>2, <1>3, <2>1, <2>3, Moments DEF SchedulerIInv, SchedulerTypeOK
  <2>6. UnsavedIsScheduled' /\ NoLaterThanMaxDelay' /\ NotBeforeIdle'
    BY <1>8, <2>1 DEF UnsavedIsScheduled, NoLaterThanMaxDelay, NotBeforeIdle
  <2>7. QED
    BY <1>4, <1>5, <1>6, <2>4, <2>5, <2>6 DEF SchedulerIInv
<1>9. QED
  BY <1>7, <1>8
-----------------------------------------------------------------------------

\* The values the steps below start from.
LEMMA Values ==
    ASSUME SchedulerIInv
    PROVE  /\ seq \in Nat /\ persisted \in Nat /\ disk \in Nat /\ now \in Nat
           /\ acceptedAt \in [1 .. seq -> Nat]
           /\ dirtyFrom \in Times /\ lastWrite \in Times
           /\ dirtyDuring \in Times /\ timer \in Times
           /\ queued \in 0 .. MaxQueued
           /\ task \in {Idle} \cup Saving
           /\ leftovers \in BOOLEAN /\ replaced \in BOOLEAN /\ disposed \in BOOLEAN
           /\ persisted <= disk /\ disk <= seq
BY DEF SchedulerIInv, SchedulerTypeOK, ProgressInv

\* No timer is set after a step that ends with a save in progress.
LEMMA NoTimer ==
    ASSUME ~timer'.set, task' # Idle \/ ~Unsaved'
    PROVE  UnsavedIsScheduled' /\ NoLaterThanMaxDelay' /\ NotBeforeIdle'
<1>1. UnsavedIsScheduled'
  <2>1. CASE task' # Idle
    BY <2>1 DEF UnsavedIsScheduled
  <2>2. CASE ~Unsaved'
    BY <2>2 DEF UnsavedIsScheduled
  <2>3. QED
    BY <2>1, <2>2
<1>2. NoLaterThanMaxDelay' /\ NotBeforeIdle'
  BY DEF NoLaterThanMaxDelay, NotBeforeIdle
<1>3. QED
  BY <1>1, <1>2

\* A save that starts covers every write, so it leaves dirtyDuring unset.
LEMMA SaveStarts ==
    ASSUME SchedulerIInv, disk = persisted,
           task' = [phase |-> "writing", target |-> seq],
           timer' = Unset, dirtyDuring' = Unset,
           queued' \in 0 .. MaxQueued, disposed' \in BOOLEAN,
           UNCHANGED <<now, seq, persisted, disk, acceptedAt, dirtyFrom,
                       lastWrite, leftovers, replaced>>
    PROVE  SchedulerIInv'
<1>1. /\ task' # Idle /\ task' \in Saving
      /\ task'.phase = "writing" /\ task'.target = seq
  BY Values DEF Idle, Saving
<1>2. SchedulerTypeOK'
  BY <1>1, Values, Moments DEF SchedulerTypeOK
<1>3. ProgressInv'
  BY <1>1, Values DEF ProgressInv
<1>4. DuringInv'
  BY <1>1, Values DEF DuringInv
<1>5. ClockInv' /\ WindowInv'
  BY DEF SchedulerIInv, ClockInv, WindowInv
<1>6. QED
  BY <1>1, <1>2, <1>3, <1>4, <1>5, NoTimer, Moments DEF SchedulerIInv

\* The board is between saves: the timer is armed from the window, unless the board
\* has no unsaved writes or is not registered.
LEMMA SaveOver ==
    ASSUME SchedulerIInv, disk = persisted,
           task' = Idle, dirtyDuring' = Unset,
           \/ seq # persisted /\ timer' = Armed(dirtyFrom, lastWrite, FALSE)
           \/ ~Unsaved' /\ timer' = Unset,
           queued' \in 0 .. MaxQueued, disposed' \in BOOLEAN,
           UNCHANGED <<now, seq, persisted, disk, acceptedAt, dirtyFrom,
                       lastWrite, leftovers, replaced>>
    PROVE  SchedulerIInv'
<1>1. ClockInv' /\ WindowInv'
  BY DEF SchedulerIInv, ClockInv, WindowInv
<1>2. ProgressInv' /\ DuringInv'
  BY Values DEF ProgressInv, DuringInv
<1>3. ASSUME timer' \in Times PROVE SchedulerTypeOK'
  BY <1>3, Values, Moments DEF SchedulerTypeOK
<1>4. CASE seq # persisted /\ timer' = Armed(dirtyFrom, lastWrite, FALSE)
  <2>1. /\ timer' \in Times /\ timer'.set
        /\ timer'.time <= Later(now, acceptedAt[persisted + 1] + MaxDelay)
        /\ timer'.time >= Earlier(acceptedAt[seq] + SaveInterval,
                                  acceptedAt[persisted + 1] + MaxDelay)
    BY <1>4, OpenWindow, Values, ArmedIsTimely
  <2>2. UnsavedIsScheduled'
    BY <2>1 DEF UnsavedIsScheduled
  <2>3. NoLaterThanMaxDelay' /\ NotBeforeIdle'
    BY <2>1 DEF NoLaterThanMaxDelay, NotBeforeIdle, Later, Earlier
  <2>4. QED
    BY <1>1, <1>2, <1>3, <2>1, <2>2, <2>3 DEF SchedulerIInv
<1>5. CASE ~Unsaved' /\ timer' = Unset
  BY <1>1, <1>2, <1>3, <1>5, Moments, NoTimer DEF SchedulerIInv
<1>6. QED
  BY <1>4, <1>5

LEMMA RequestSaveStep == ASSUME SchedulerIInv, RequestSave PROVE SchedulerIInv'
<1>1. CASE task = Idle
  <2>1. /\ Begin /\ disk = persisted
        /\ UNCHANGED <<now, seq, persisted, disk, acceptedAt, dirtyFrom,
                       lastWrite, queued, leftovers, replaced, disposed>>
    BY <1>1 DEF RequestSave, SchedulerIInv, ProgressInv
  <2>2. CASE NothingToSave
    <3>1. task' = Idle /\ timer' = Unset /\ dirtyDuring' = Unset
      BY <2>1, <2>2 DEF Begin
    <3>2. ~Unsaved'
      BY <2>1, <2>2 DEF NothingToSave, NothingIsDirty, Unsaved, Open
    <3>3. QED
      BY <2>1, <3>1, <3>2, SaveOver, Values
  <2>3. CASE ~NothingToSave
    <3>1. task' = [phase |-> "writing", target |-> seq]
          /\ timer' = Unset /\ dirtyDuring' = Unset
      BY <2>1, <2>3 DEF Begin
    <3>2. QED
      BY <2>1, <3>1, SaveStarts, Values
  <2>4. QED
    BY <2>2, <2>3
<1>2. CASE task # Idle
  <2>1. /\ queued' \in 0 .. MaxQueued
        /\ UNCHANGED <<now, seq, persisted, disk, acceptedAt, dirtyFrom,
                       lastWrite, dirtyDuring, timer, task, leftovers, replaced, disposed>>
    BY <1>2, Values, ConstantsAreNat DEF RequestSave
  <2>2. SchedulerTypeOK'
    BY <2>1 DEF SchedulerIInv, SchedulerTypeOK
  <2>3. QED
    BY <2>1, <2>2
    DEF SchedulerIInv, ClockInv, ProgressInv, DuringInv, WindowInv, UnsavedIsScheduled,
        NoLaterThanMaxDelay, NotBeforeIdle, Unsaved, Open
<1>3. QED
  BY <1>1, <1>2

\* A timer never fires during a save, so the second case is impossible.
LEMMA TimerFiresStep == ASSUME SchedulerIInv, TimerFires PROVE SchedulerIInv'
<1>1. task = Idle
  BY DEF SchedulerIInv, UnsavedIsScheduled, TimerFires
<1>2. QED
  BY <1>1, RequestSaveStep DEF TimerFires

\* A save may leave the timer unarmed only if the board is not registered.
LEMMA EndSaveStep ==
    ASSUME SchedulerIInv, task # Idle, task.phase \in {"writing", "recorded"},
           NEW gone \in BOOLEAN, NEW again \in BOOLEAN, EndSave(gone, again),
           again \/ gone \/ replaced
    PROVE  SchedulerIInv'
<1>1. disk = persisted
  BY SaveFields, Values DEF SchedulerIInv, ProgressInv
<1>2. /\ dirtyDuring' = Unset /\ disposed' = gone /\ disposed' \in BOOLEAN
      /\ UNCHANGED <<now, seq, persisted, disk, acceptedAt, dirtyFrom,
                     lastWrite, leftovers, replaced>>
  BY DEF EndSave
<1>3. CASE queued > 0 /\ ~gone /\ ~NothingIsDirty
  <2>1. /\ task' = [phase |-> "writing", target |-> seq] /\ timer' = Unset
        /\ queued' \in 0 .. MaxQueued
    BY <1>3, Values, ConstantsAreNat DEF EndSave
  <2>2. QED
    BY <1>1, <1>2, <2>1, SaveStarts
<1>4. CASE ~(queued > 0 /\ ~gone /\ ~NothingIsDirty)
  <2>1. /\ task' = Idle /\ queued' \in 0 .. MaxQueued
        /\ timer' = IF again /\ ~NothingIsDirty
                    THEN Armed(dirtyFrom, lastWrite, gone) ELSE Unset
    BY <1>4, ConstantsAreNat DEF EndSave
  <2>2. \/ seq # persisted /\ timer' = Armed(dirtyFrom, lastWrite, FALSE)
        \/ ~Unsaved' /\ timer' = Unset
    <3>1. CASE gone
      BY <1>2, <2>1, <3>1 DEF Armed, Unsaved, Open
    <3>2. CASE ~gone /\ again /\ seq # persisted
      BY <2>1, <3>2 DEF Armed, NothingIsDirty
    <3>3. CASE ~gone /\ ~again
      BY <1>2, <2>1, <3>3 DEF Unsaved, Open
    <3>4. CASE ~gone /\ seq = persisted
      <4>1. timer' = Unset
        BY <2>1, <3>4, ClosedWindow, Moments DEF Armed
      <4>2. QED
        BY <1>2, <3>4, <4>1 DEF Unsaved
    <3>5. QED
      BY <3>1, <3>2, <3>3, <3>4
  <2>3. QED
    BY <1>1, <1>2, <2>1, <2>2, SaveOver
<1>5. QED
  BY <1>3, <1>4

\* Between the replacement of the file and the record, and between the record
\* and the end of the save, the save stays in progress.
LEMMA RenameStep == ASSUME SchedulerIInv, RenameSavedFile PROVE SchedulerIInv'
<1> USE DEF RenameSavedFile
<1>1. /\ task # Idle /\ task \in Saving /\ task.target \in Nat
  BY SaveFields
<1>2. /\ task' # Idle /\ task' \in Saving
      /\ task'.phase = "renamed" /\ task'.target = task.target
  BY <1>1 DEF Saving, Idle
<1>3. SchedulerTypeOK'
  BY <1>1, <1>2 DEF SchedulerIInv, SchedulerTypeOK, schedule
<1>4. ProgressInv'
  BY <1>1, <1>2, Values DEF SchedulerIInv, ProgressInv
<1>5. ClockInv' /\ WindowInv' /\ DuringInv'
  BY <1>1, <1>2 DEF SchedulerIInv, ClockInv, WindowInv, DuringInv, schedule
<1>6. ~timer'.set
  BY <1>1 DEF SchedulerIInv, UnsavedIsScheduled, schedule
<1>7. QED
  BY <1>2, <1>3, <1>4, <1>5, <1>6, NoTimer DEF SchedulerIInv

\* The window restarts at the first write the save did not cover, or closes.
LEMMA RecordStep == ASSUME SchedulerIInv, RecordSave PROVE SchedulerIInv'
<1> USE DEF RecordSave
<1>1. /\ task # Idle /\ task \in Saving /\ task.target \in Nat
      /\ persisted <= task.target /\ task.target <= seq /\ disk = task.target
      /\ dirtyDuring = IF seq > task.target THEN At(acceptedAt[task.target + 1])
                                            ELSE Unset
  BY SaveFields DEF SchedulerIInv, ProgressInv, DuringInv
<1>2. /\ task' # Idle /\ task' \in Saving
      /\ task'.phase = "recorded" /\ task'.target = task.target
  BY <1>1 DEF Saving, Idle
<1>3. SchedulerTypeOK'
  <2>1. lastWrite' \in Times
    BY Values, Moments
  <2>2. QED
    BY <1>1, <1>2, <2>1, Values DEF SchedulerTypeOK
<1>4. ProgressInv' /\ ClockInv'
  BY <1>1, <1>2, Values DEF SchedulerIInv, ProgressInv, ClockInv
<1>5. DuringInv'
  BY <1>1, <1>2 DEF DuringInv
<1>6. WindowInv'
  <2>1. CASE seq > task.target
    <3>1. seq # persisted /\ acceptedAt[task.target + 1] \in Nat
      BY <1>1, <2>1, Values
    <3>2. dirtyDuring.set /\ lastWrite = At(acceptedAt[seq])
      BY <1>1, <2>1, <3>1, Moments, OpenWindow
    <3>3. QED
      BY <1>1, <2>1, <3>2 DEF WindowInv
  <2>2. CASE ~(seq > task.target)
    BY <1>1, <2>2, Moments DEF WindowInv
  <2>3. QED
    BY <2>1, <2>2
<1>7. ~timer'.set
  BY <1>1 DEF SchedulerIInv, UnsavedIsScheduled
<1>8. QED
  BY <1>2, <1>3, <1>4, <1>5, <1>6, <1>7, NoTimer DEF SchedulerIInv

LEMMA SaveDoneStep == ASSUME SchedulerIInv, SaveDone PROVE SchedulerIInv'
BY EndSaveStep, Values DEF SaveDone

LEMMA SaveFailedStep == ASSUME SchedulerIInv, SaveFailed PROVE SchedulerIInv'
BY EndSaveStep, Values DEF SaveFailed

LEMMA StaleSaveStep == ASSUME SchedulerIInv, StaleSave PROVE SchedulerIInv'
<1> DEFINE gone == disposed \/ ~replaced
<1>1. EndSave(gone, FALSE)
  BY DEF StaleSave
<1>2. task # Idle /\ task.phase \in {"writing", "recorded"}
  BY DEF StaleSave
<1>3. gone \in BOOLEAN /\ FALSE \in BOOLEAN /\ (FALSE \/ gone \/ replaced)
  OBVIOUS
<1> HIDE DEF gone
<1>4. QED
  BY <1>1, <1>2, <1>3, EndSaveStep

\* Who has no registry entry is promised nothing.
LEMMA LoseEntryStep == ASSUME SchedulerIInv, LoseEntry PROVE SchedulerIInv'
<1> USE DEF LoseEntry, schedule
<1>1. SchedulerTypeOK'
  BY DEF SchedulerIInv, SchedulerTypeOK
<1>2. ClockInv' /\ ProgressInv' /\ DuringInv' /\ WindowInv' /\ NotBeforeIdle'
  BY DEF SchedulerIInv, ClockInv, ProgressInv, DuringInv, WindowInv, NotBeforeIdle
<1>3. ~Unsaved' /\ timer' = timer /\ task' = task
  BY DEF Unsaved, Open
<1>4. UnsavedIsScheduled' /\ NoLaterThanMaxDelay'
  BY <1>3 DEF SchedulerIInv, UnsavedIsScheduled, NoLaterThanMaxDelay
<1>5. QED
  BY <1>1, <1>2, <1>4 DEF SchedulerIInv

LEMMA DisposeStep == ASSUME SchedulerIInv, Dispose PROVE SchedulerIInv'
<1> USE DEF Dispose
<1>1. SchedulerTypeOK'
  BY Values, Moments DEF SchedulerTypeOK
<1>2. ClockInv' /\ ProgressInv' /\ DuringInv' /\ WindowInv'
  BY DEF SchedulerIInv, ClockInv, ProgressInv, DuringInv, WindowInv
<1>3. ~timer'.set /\ ~Unsaved'
  BY Moments DEF Unsaved, Open
<1>4. QED
  BY <1>1, <1>2, <1>3, NoTimer DEF SchedulerIInv

LEMMA TickStep == ASSUME SchedulerIInv, Tick PROVE SchedulerIInv'
<1> USE DEF Tick, schedule
<1>1. SchedulerTypeOK' /\ ClockInv'
  <2>1. SchedulerTypeOK'
    BY DEF SchedulerIInv, SchedulerTypeOK
  <2>2. ClockInv'
    BY Values DEF SchedulerIInv, ClockInv
  <2>3. QED
    BY <2>1, <2>2
<1>2. ProgressInv' /\ DuringInv' /\ WindowInv' /\ UnsavedIsScheduled' /\ NotBeforeIdle'
  BY DEF SchedulerIInv, ProgressInv, DuringInv, WindowInv, UnsavedIsScheduled, NotBeforeIdle,
         Unsaved, Open
<1>3. NoLaterThanMaxDelay'
  <2>1. SUFFICES ASSUME Unsaved', task' = Idle, timer'.set
                 PROVE  timer'.time <= Later(now', acceptedAt[persisted + 1] + MaxDelay)
    BY DEF NoLaterThanMaxDelay
  <2>2. /\ seq # persisted
        /\ timer.time <= Later(now, acceptedAt[persisted + 1] + MaxDelay)
    BY <2>1 DEF SchedulerIInv, NoLaterThanMaxDelay, Unsaved, Open
  <2>3. acceptedAt[persisted + 1] \in Nat /\ timer.time \in Nat
    BY <2>1, <2>2, OpenWindow, Values, Moments DEF Times, Unset
  <2>4. timer' = timer /\ now' = now + 1 /\ now \in Nat /\ MaxDelay \in Nat
    BY Values, ConstantsAreNat
  <2> HIDE DEF Tick, schedule
  <2>5. QED
    BY ONLY <2>2, <2>3, <2>4 DEF Later
<1>4. QED
  BY <1>1, <1>2, <1>3 DEF SchedulerIInv

LEMMA StepSchedulerIInv == SchedulerIInv /\ [SchedulerNext]_schedulerVars => SchedulerIInv'
<1> SUFFICES ASSUME SchedulerIInv, [SchedulerNext]_schedulerVars PROVE SchedulerIInv'
  OBVIOUS
<1>1. CASE UNCHANGED schedulerVars
  <2>1. SchedulerTypeOK'
    BY <1>1 DEF SchedulerIInv, SchedulerTypeOK, schedulerVars
  <2>2. QED
    BY <1>1, <2>1
    DEF SchedulerIInv, ClockInv, ProgressInv, DuringInv, WindowInv, UnsavedIsScheduled,
        NoLaterThanMaxDelay, NotBeforeIdle, Unsaved, Open, schedulerVars
<1>2. QED
  BY <1>1, WriteStep, RequestSaveStep, TimerFiresStep, RenameStep, RecordStep,
     SaveDoneStep, SaveFailedStep, StaleSaveStep, LoseEntryStep, DisposeStep, TickStep
  DEF SchedulerNext

LEMMA SchedulerIInvAlways == SchedulerSpec => []SchedulerIInv
BY InitSchedulerIInv, StepSchedulerIInv, PTL DEF SchedulerSpec
-----------------------------------------------------------------------------

\* Type correctness of the save scheduler.
THEOREM SchedulerTypeCorrect == SchedulerSpec => []SchedulerTypeOK
BY SchedulerIInvAlways, PTL DEF SchedulerIInv

\* Unsaved writes always have a timer or a save that takes care of them, and
\* never a timer during a save.
THEOREM AlwaysScheduled == SchedulerSpec => []UnsavedIsScheduled
BY SchedulerIInvAlways, PTL DEF SchedulerIInv

\* The maximum delay bounds the timer, however many writes move the idle
\* deadline.
THEOREM NeverTooLate == SchedulerSpec => []NoLaterThanMaxDelay
BY SchedulerIInvAlways, PTL DEF SchedulerIInv

\* The timer never interrupts a burst of writes before one of its deadlines.
THEOREM NeverTooEarly == SchedulerSpec => []NotBeforeIdle
BY SchedulerIInvAlways, PTL DEF SchedulerIInv

\* What is recorded as saved is in the file.
THEOREM NeverRecordsUnstored == SchedulerSpec => []RecordedIsStored
<1>1. SchedulerIInv => RecordedIsStored
  BY DEF SchedulerIInv, ProgressInv, RecordedIsStored
<1>2. QED
  BY <1>1, SchedulerIInvAlways, PTL

-----------------------------------------------------------------------------
(* The safety part of ImplementsWriteBehind *)

\* Every step of the scheduler is a step of WriteBehind or leaves it as it is:
\* only a rename stores, and what it stores is accepted, and more than before unless
\* there was only to write what is recorded.
LEMMA StepRefines ==
    ASSUME SchedulerIInv, [SchedulerNext]_schedulerVars
    PROVE  [Promise!Next]_Promise!vars
<1> USE DEF Promise!Next, Promise!vars, Open
<1>1. CASE Write
  BY <1>1, Values DEF Write, Promise!Write
<1>2. CASE RenameSavedFile
  <2>1. /\ task.target \in Nat /\ disk <= task.target /\ task.target <= seq
        /\ disk' = task.target
        /\ UNCHANGED <<seq, replaced, disposed>>
    BY <1>2, SaveFields, Values DEF RenameSavedFile, SchedulerIInv, ProgressInv
  <2>2. CASE disk < task.target
    BY <2>1, <2>2, Values DEF Promise!Store
  <2>3. CASE disk = task.target
    BY <2>1, <2>3
  <2>4. QED
    BY <2>1, <2>2, <2>3, Values
<1>3. ASSUME UNCHANGED <<seq, disk>>, Open' => Open
      PROVE  [Promise!Next]_Promise!vars
  <2>1. CASE Open' = Open
    BY <1>3, <2>1
  <2>2. CASE Open /\ ~Open'
    BY <1>3, <2>2 DEF Promise!Close
  <2>3. QED
    BY <1>3, <2>1, <2>2
<1>4. CASE LoseEntry \/ Dispose
  BY <1>3, <1>4 DEF LoseEntry, Dispose
<1>5. CASE SaveDone \/ SaveFailed \/ StaleSave
  BY <1>3, <1>5 DEF SaveDone, SaveFailed, StaleSave, EndSave
<1>6. ASSUME UNCHANGED <<seq, disk, replaced, disposed>>
      PROVE  [Promise!Next]_Promise!vars
  BY <1>6
<1>7. QED
  BY <1>1, <1>2, <1>4, <1>5, <1>6
  DEF SchedulerNext, RequestSave, TimerFires, RecordSave, Tick, schedulerVars

\* ImplementsWriteBehind without its fairness: what is stored only grows and is
\* never ahead of what was accepted, at every step of the scheduler.
THEOREM KeepsPromise == SchedulerSpec => Promise!Init /\ [][Promise!Next]_Promise!vars
<1>1. SchedulerInit => Promise!Init
  BY DEF SchedulerInit, Promise!Init, Open
<1>2. SchedulerIInv /\ [SchedulerNext]_schedulerVars => [Promise!Next]_Promise!vars
  BY StepRefines
<1>3. QED
  BY <1>1, <1>2, SchedulerIInvAlways, PTL DEF SchedulerSpec
\* The elements of a finite set of numbers have different ranks, and all of them.
LEMMA Ranks ==
    ASSUME NEW n \in Nat, NEW K \in SUBSET (1 .. n)
    PROVE  /\ IsFiniteSet(K) /\ Cardinality(K) \in Nat
           /\ \A i \in K : Rank(K, i) \in 0 .. Cardinality(K) - 1
           /\ \A i, j \in K : Rank(K, i) = Rank(K, j) => i = j
           /\ \A i, j \in K : i < j => Rank(K, i) < Rank(K, j)
           /\ \A k \in 1 .. Cardinality(K) : \E i \in K : Rank(K, i) = k - 1
<1>1. IsFiniteSet(K)
  <2>1. 1 \in Int /\ n \in Int
    OBVIOUS
  <2>2. IsFiniteSet(1 .. n)
    BY <2>1, FS_Interval
  <2> QED
    BY <2>2, FS_Subset
<1>2. PICK c \in Nat : c = Cardinality(K)
  BY <1>1, FS_CardinalityType
<1>3. \A i \in K : Rank(K, i) \in 0 .. c - 1
  <2>1. SUFFICES ASSUME NEW i \in K
                 PROVE  Rank(K, i) \in 0 .. c - 1
    OBVIOUS
  <2> DEFINE T == {j \in K : j < i}
  <2>2. T \in SUBSET K /\ T # K
    OBVIOUS
  <2>3. IsFiniteSet(T) /\ Cardinality(T) <= c /\ Cardinality(T) # c
    BY <1>1, <1>2, <2>2, FS_Subset
  <2>4. Cardinality(T) \in Nat
    BY <2>3, FS_CardinalityType
  <2> QED
    BY <1>2, <2>3, <2>4 DEF Rank
<1>4. \A i, j \in K : i < j => Rank(K, i) < Rank(K, j)
  <2>1. SUFFICES ASSUME NEW i \in K, NEW j \in K, i < j
                 PROVE  Rank(K, i) < Rank(K, j)
    OBVIOUS
  <2> DEFINE T == {l \in K : l < i}
             U == {l \in K : l < j}
  <2>2. T \in SUBSET U /\ T # U /\ U \in SUBSET K
    <3>1. \A l \in K : l < i => l < j
      BY <2>1
    <3>2. i \in U /\ i \notin T
      BY <2>1
    <3> QED
      BY <3>1, <3>2
  <2>3. IsFiniteSet(U)
    BY <1>1, <2>2, FS_Subset
  <2>4. IsFiniteSet(T) /\ Cardinality(T) <= Cardinality(U) /\ Cardinality(T) # Cardinality(U)
    BY <2>2, <2>3, FS_Subset
  <2>5. Cardinality(T) \in Nat /\ Cardinality(U) \in Nat
    BY <2>3, <2>4, FS_CardinalityType
  <2> QED
    BY <2>4, <2>5 DEF Rank
<1>5. \A i, j \in K : Rank(K, i) = Rank(K, j) => i = j
  <2>1. \A i, j \in K : i < j \/ j < i \/ i = j
    OBVIOUS
  <2>2. \A i \in K : Rank(K, i) \in Int
    BY <1>2, <1>3
  <2> QED
    BY <1>4, <2>1, <2>2
<1>6. \A k \in 1 .. c : \E i \in K : Rank(K, i) = k - 1
  <2> DEFINE rank == [i \in K |-> Rank(K, i)]
             D == 0 .. c - 1
  <2>1. rank \in Injection(K, D)
    <3>1. rank \in [K -> D]
      BY <1>3
    <3>2. \A a, b \in K : rank[a] = rank[b] => a = b
      BY <1>5
    <3> HIDE DEF rank, D
    <3> QED
      BY <3>1, <3>2, Fun_IsInj
  <2>2. IsFiniteSet(D) /\ Cardinality(D) = c
    <3>1. c = 0 \/ c - 1 \in Nat
      BY <1>2
    <3>2. 0 \in Int /\ c - 1 \in Int
      BY <1>2
    <3>3. IsFiniteSet(0 .. c - 1)
          /\ Cardinality(0 .. c - 1) = IF 0 > c - 1 THEN 0 ELSE c - 1 - 0 + 1
      BY <3>2, FS_Interval
    <3> QED
      BY <1>2, <3>1, <3>3
  <2>3. rank \in Surjection(K, D)
    <3> HIDE DEF rank, D
    <3> QED
      BY <1>2, <2>1, <2>2, FS_Injection
  <2>4. \A d \in D : \E i \in K : rank[i] = d
    <3> HIDE DEF rank, D
    <3> QED
      BY <2>3, Fun_SurjectionProperties
  <2>5. \A k \in 1 .. c : k - 1 \in D
    BY <1>2
  <2> QED
    BY <2>4, <2>5
<1> QED
  BY <1>1, <1>2, <1>3, <1>4, <1>5, <1>6

\* What Part returns: the elements at the positions K, each once and in their order.
LEMMA PartFacts ==
    ASSUME NEW S, NEW list \in Seq(S), NEW K, K \subseteq DOMAIN list
    PROVE  /\ Part(list, K) \in Seq(S)
           /\ \E order \in [DOMAIN Part(list, K) -> K] :
                 /\ \A j, k \in DOMAIN Part(list, K) : order[j] = order[k] => j = k
                 /\ \A j, k \in DOMAIN Part(list, K) : j < k => order[j] < order[k]
                 /\ \A i \in K : \E k \in DOMAIN Part(list, K) : order[k] = i
                 /\ \A k \in DOMAIN Part(list, K) : Part(list, K)[k] = list[order[k]]
<1>1. PICK n \in Nat : n = Len(list) /\ DOMAIN list = 1 .. n
  BY LenProperties
<1>2. K \in SUBSET (1 .. n)
  BY <1>1
<1>3. PICK c \in Nat : c = Cardinality(K)
  BY <1>1, <1>2, Ranks
<1> DEFINE at(k) == CHOOSE i \in K : Rank(K, i) = k - 1
           order == [k \in 1 .. c |-> at(k)]
           part == [k \in 1 .. c |-> list[at(k)]]
<1>4. \A k \in 1 .. c : at(k) \in K /\ Rank(K, at(k)) = k - 1
  <2>1. \A k \in 1 .. c : \E i \in K : Rank(K, i) = k - 1
    BY <1>1, <1>2, <1>3, Ranks
  <2> QED
    BY <2>1
<1>5. Part(list, K) = part
  BY <1>3 DEF Part
<1>6. order \in [1 .. c -> K] /\ \A k \in 1 .. c : part[k] = list[order[k]]
  BY <1>4
<1>7. part \in Seq(S)
  <2>1. \A i \in K : list[i] \in S
    BY <1>1, <1>2, ElementOfSeq
  <2>2. part \in [1 .. c -> S]
    BY <1>4, <2>1
  <2> HIDE DEF part
  <2> QED
    BY <2>2, SeqDef
<1>8. \A j, k \in 1 .. c : order[j] = order[k] => j = k
  <2>1. \A k \in 1 .. c : Rank(K, order[k]) = k - 1
    BY <1>4
  <2>2. \A j, k \in 1 .. c : j - 1 = k - 1 => j = k
    BY <1>3
  <2> HIDE DEF order
  <2> QED
    BY <2>1, <2>2
<1>9. \A i \in K : \E k \in 1 .. c : order[k] = i
  <2>1. SUFFICES ASSUME NEW i \in K
                 PROVE  \E k \in 1 .. c : order[k] = i
    OBVIOUS
  <2>2. PICK r \in 0 .. c - 1 : r = Rank(K, i)
    BY <1>1, <1>2, <1>3, Ranks
  <2>3. r + 1 \in 1 .. c /\ r + 1 - 1 = r
    BY <1>3
  <2>4. at(r + 1) \in K /\ Rank(K, at(r + 1)) = Rank(K, i)
    BY <1>4, <2>2, <2>3
  <2>5. at(r + 1) = i
    BY <1>1, <1>2, <2>4, Ranks
  <2> QED
    BY <2>3, <2>5
<1>12. \A j, k \in 1 .. c : j < k => order[j] < order[k]
  <2>1. \A k \in 1 .. c : order[k] \in K /\ Rank(K, order[k]) = k - 1
    BY <1>4
  <2> HIDE DEF order
  <2>2. SUFFICES ASSUME NEW j \in 1 .. c, NEW k \in 1 .. c, j < k, ~(order[j] < order[k])
                 PROVE  FALSE
    OBVIOUS
  <2>3. order[k] \in 1 .. n /\ order[j] \in 1 .. n
    BY <1>2, <2>1
  <2>4. order[k] < order[j] \/ order[k] = order[j]
    BY <2>2, <2>3
  <2>5. order[k] < order[j] => Rank(K, order[k]) < Rank(K, order[j])
    BY <1>1, <1>2, <2>1, Ranks
  <2> QED
    BY <1>8, <2>1, <2>2, <2>4, <2>5
<1>10. DOMAIN part = 1 .. c
  OBVIOUS
<1>11. \E o \in [DOMAIN part -> K] :
          /\ \A j, k \in DOMAIN part : o[j] = o[k] => j = k
          /\ \A j, k \in DOMAIN part : j < k => o[j] < o[k]
          /\ \A i \in K : \E k \in DOMAIN part : o[k] = i
          /\ \A k \in DOMAIN part : part[k] = list[o[k]]
  <2> HIDE DEF part, order
  <2>1. order \in [DOMAIN part -> K]
    BY <1>6, <1>10
  <2>2. \A j, k \in DOMAIN part : order[j] = order[k] => j = k
    BY <1>8, <1>10
  <2>3. \A i \in K : \E k \in DOMAIN part : order[k] = i
    BY <1>9, <1>10
  <2>4. \A k \in DOMAIN part : part[k] = list[order[k]]
    BY <1>6, <1>10
  <2>5. \A j, k \in DOMAIN part : j < k => order[j] < order[k]
    BY <1>10, <1>12
  <2> WITNESS order \in [DOMAIN part -> K]
  <2> QED
    BY <2>2, <2>3, <2>4, <2>5
<1> HIDE DEF part, order
<1> QED
  BY <1>5, <1>7, <1>11

\* What holds at 0 and is passed on holds up to n.
LEMMA UpTo ==
    ASSUME NEW n \in Nat, NEW S, 0 \in S,
           \A k \in 0 .. n - 1 : k \in S => k + 1 \in S
    PROVE  \A k \in 0 .. n : k \in S
<1> SUFFICES ASSUME NEW x \in 0 .. n, x \notin S PROVE FALSE
  OBVIOUS
<1> DEFINE Out == {k \in 0 .. n : k \notin S}
<1> DEFINE R == OpToRel(<, Nat)
<1>1. Out \subseteq Nat /\ x \in Out
  OBVIOUS
<1>2. IsWellFoundedOn(R, Nat)
  BY NatLessThanWellFounded
<1>3. PICK k \in Out : \A j \in Out : ~(<<j, k>> \in R)
  <2> HIDE DEF Out, R
  <2> QED
    BY <1>1, <1>2, WFMin, Zenon
<1>4. \A j \in Out : ~(j < k)
  BY <1>1, <1>3 DEF OpToRel
<1>5. k \in 0 .. n /\ k \notin S
  OBVIOUS
<1>6. k # 0
  BY <1>5
<1>7. k - 1 \in 0 .. n - 1 /\ k - 1 \in 0 .. n /\ k - 1 < k /\ k - 1 + 1 = k
  BY <1>5, <1>6
<1>8. k - 1 \in S
  BY <1>4, <1>7
<1> QED
  BY <1>5, <1>7, <1>8

\* A function that is defined step by step exists.
Steps(f, n, S, a, step) ==
    /\ f \in [0 .. n -> S] /\ f[0] = a
    /\ \A k \in 1 .. n : f[k] = step[<<k, f[k - 1]>>]

\* Steps that stay in a set make such a function.
LEMMA Stepwise ==
    ASSUME NEW n \in Nat, NEW S, NEW a \in S, NEW step \in [(1 .. n) \X S -> S]
    PROVE  \E f : Steps(f, n, S, a, step)
<1> DEFINE Ok(f, l) == f[0] = a /\ \A k \in 1 .. l : f[k] = step[<<k, f[k - 1]>>]
           G == {l \in 0 .. n : \E f \in [0 .. l -> S] : Ok(f, l)}
<1>1. 0 \in G
  <2> DEFINE f == [i \in 0 .. 0 |-> a]
  <2>1. f \in [0 .. 0 -> S]
    OBVIOUS
  <2>2. f[0] = a /\ 0 \in 0 .. n
    OBVIOUS
  <2>3. \A k \in 1 .. 0 : FALSE
    OBVIOUS
  <2> HIDE DEF f
  <2>4. Ok(f, 0)
    BY <2>2, <2>3
  <2> QED
    BY <2>1, <2>2, <2>4
<1>2. \A l \in 0 .. n - 1 : l \in G => l + 1 \in G
  <2> SUFFICES ASSUME NEW l \in 0 .. n - 1, l \in G
               PROVE  l + 1 \in G
    OBVIOUS
  <2>1. PICK f \in [0 .. l -> S] : Ok(f, l)
    OBVIOUS
  <2> DEFINE g == [i \in 0 .. l + 1 |-> IF i = l + 1 THEN step[<<l + 1, f[l]>>] ELSE f[i]]
  <2>2. l \in 0 .. l /\ l + 1 \in 1 .. n /\ l + 1 \in 0 .. n /\ f[l] \in S
    OBVIOUS
  <2>3. <<l + 1, f[l]>> \in (1 .. n) \X S
    BY <2>2
  <2>4. step[<<l + 1, f[l]>>] \in S
    BY <2>3
  <2>5. \A i \in 0 .. l : i \in 0 .. l + 1 /\ i # l + 1 /\ g[i] = f[i]
    OBVIOUS
  <2>6. g \in [0 .. l + 1 -> S]
    BY <2>4
  <2>7. g[l + 1] = step[<<l + 1, g[l]>>] /\ l + 1 - 1 = l
    <3>1. l + 1 \in 0 .. l + 1 /\ l + 1 - 1 = l
      OBVIOUS
    <3>2. g[l + 1] = step[<<l + 1, f[l]>>]
      BY <3>1
    <3>3. g[l] = f[l]
      BY <2>2, <2>5
    <3> QED
      BY ONLY <3>1, <3>2, <3>3
  <2>8. g[0] = a
    <3>1. f[0] = a
      BY ONLY <2>1 DEF Ok
    <3>2. 0 \in 0 .. l /\ g[0] = f[0]
      BY <2>5
    <3> QED
      BY ONLY <3>1, <3>2
  <2>9. ASSUME NEW k \in 1 .. l + 1
        PROVE  g[k] = step[<<k, g[k - 1]>>]
    <3>1. CASE k = l + 1
      BY <2>7, <3>1
    <3>2. CASE k # l + 1
      <4>1. k \in 1 .. l /\ k \in 0 .. l /\ k - 1 \in 0 .. l
        BY <3>2
      <4>2. f[k] = step[<<k, f[k - 1]>>]
        BY <2>1, <4>1
      <4> QED
        BY <2>5, <4>1, <4>2
    <3> QED
      BY <3>1, <3>2
  <2> HIDE DEF g
  <2>10. Ok(g, l + 1)
    BY <2>8, <2>9
  <2> QED
    BY <2>2, <2>6, <2>10
<1>3. n \in 0 .. n
  OBVIOUS
<1> HIDE DEF G
<1>4. n \in G
  BY <1>1, <1>2, <1>3, UpTo
<1> QED
  BY <1>4 DEF G, Steps
\* Some number among numbers is the least.
LEMMA LeastOf ==
    ASSUME NEW S, S \subseteq Nat, S # {}
    PROVE  \E k \in S : \A j \in S : k <= j
<1> DEFINE R == OpToRel(<, Nat)
<1>1. IsWellFoundedOn(R, Nat)
  BY NatLessThanWellFounded
<1>2. PICK k \in S : \A j \in S : ~(<<j, k>> \in R)
  <2> HIDE DEF R
  <2> QED
    BY <1>1, WFMin, Zenon
<1>3. \A j \in S : ~(j < k)
  BY <1>2 DEF OpToRel
<1>4. \A j \in S : j \in Nat /\ k \in Nat
  OBVIOUS
<1> QED
  BY <1>3, <1>4

\* The elements at some positions of a list are finitely many, ...
LEMMA Elements ==
    ASSUME NEW S, NEW list \in Seq(S), NEW K, K \subseteq DOMAIN list
    PROVE  /\ IsFiniteSet(K) /\ IsFiniteSet({list[i] : i \in K})
           /\ Cardinality(K) \in Nat
           /\ [i \in K |-> list[i]] \in Surjection(K, {list[i] : i \in K})
<1>1. PICK n \in Nat : n = Len(list) /\ DOMAIN list = 1 .. n
  BY LenProperties
<1>2. IsFiniteSet(K) /\ Cardinality(K) \in Nat
  BY <1>1, Ranks
<1> DEFINE T == {list[i] : i \in K}
           f == [i \in K |-> list[i]]
<1>3. f \in Surjection(K, T)
  <2>1. f \in [K -> T]
    OBVIOUS
  <2>2. \A t \in T : \E i \in K : f[i] = t
    OBVIOUS
  <2> HIDE DEF f, T
  <2> QED
    BY <2>1, <2>2, Fun_IsSurj
<1>4. IsFiniteSet(T)
  <2> HIDE DEF f, T
  <2> QED
    BY <1>2, <1>3, FS_Surjection
<1> QED
  BY <1>2, <1>3, <1>4

\* ... and as many as the positions if they differ from each other.
LEMMA Counted ==
    ASSUME NEW S, NEW list \in Seq(S), NEW K, K \subseteq DOMAIN list,
           \A i, j \in K : list[i] = list[j] => i = j
    PROVE  /\ IsFiniteSet({list[i] : i \in K})
           /\ Cardinality({list[i] : i \in K}) = Cardinality(K)
           /\ Cardinality(K) \in Nat
<1> DEFINE T == {list[i] : i \in K}
           f == [i \in K |-> list[i]]
<1>1. IsFiniteSet(K) /\ IsFiniteSet(T) /\ Cardinality(K) \in Nat /\ f \in Surjection(K, T)
  BY Elements
<1>2. f \in Injection(K, T)
  <2>1. f \in [K -> T]
    OBVIOUS
  <2>2. \A i, j \in K : f[i] = f[j] => i = j
    OBVIOUS
  <2> HIDE DEF f, T
  <2> QED
    BY <2>1, <2>2, Fun_IsInj
<1>3. Cardinality(T) = Cardinality(K)
  <2> HIDE DEF f, T
  <2> QED
    BY <1>1, <1>2, FS_Surjection
<1> QED
  BY <1>1, <1>3

\* A part of a list has the elements at its positions, each as often as the list.
LEMMA PartElements ==
    ASSUME NEW S, NEW list \in Seq(S), NEW K, K \subseteq DOMAIN list
    PROVE  /\ Part(list, K) \in Seq(S)
           /\ ToSet(Part(list, K)) = {list[i] : i \in K}
           /\ \A k \in DOMAIN Part(list, K) : \E i \in K : Part(list, K)[k] = list[i]
           /\ IsInjective(list) => IsInjective(Part(list, K))
<1> DEFINE t == Part(list, K)
<1>1. PICK order \in [DOMAIN t -> K] :
         /\ \A j, k \in DOMAIN t : order[j] = order[k] => j = k
         /\ \A i \in K : \E k \in DOMAIN t : order[k] = i
         /\ \A k \in DOMAIN t : t[k] = list[order[k]]
  BY PartFacts
<1>2. t \in Seq(S)
  BY PartFacts
<1> HIDE DEF t
<1>3. ToSet(t) = {list[i] : i \in K}
  BY <1>1 DEF ToSet
<1>4. IsInjective(list) => IsInjective(t)
  BY <1>1 DEF IsInjective
<1> QED
  BY <1>1, <1>2, <1>3, <1>4 DEF t

-----------------------------------------------------------------------------
(* The invariant *)

Maps == UNION {[D -> Item] : D \in SUBSET Ids}

Bodies == Seq(Points \cup Nat)
Entries == [id : Ids, kind : Kinds, look : Looks, body : Bodies]

\* What a file holds of an item.
EntryOk(e) ==
    /\ e \in Entries
    /\ e.kind = "text" => \E n \in 0 .. MaxText : e.body = <<n>>
    /\ e.kind = "children" => e.body \in Seq(Points)

\* The paint order lists each item of the map once.
Listed(order, items) ==
    /\ items \in Maps /\ order \in Seq(Ids)
    /\ ToSet(order) = DOMAIN items
    /\ IsInjective(order)

\* What the trim index has passed stays erased.
Passed(order, items, trim) ==
    /\ trim \in 0 .. Len(order)
    /\ \A i \in 1 .. trim : ~Live(items, order[i])

IndexInv ==
    /\ Listed(paintOrder, itemsById)
    /\ Passed(paintOrder, itemsById, trimPaintOrderIndex)
    /\ liveItemCount = Cardinality(LiveIds(itemsById))
    /\ liveItemCount <= MaxItemCount

FileOk(f) ==
    /\ f \in Seq(Entries)
    /\ \A i \in DOMAIN f : EntryOk(f[i])
    /\ \A i, j \in DOMAIN f : f[i].id = f[j].id => i = j
    /\ Cardinality(IdsOf(f)) <= MaxItemCount

FileInv == FileOk(file) /\ persistedItemIds = IdsOf(file)

\* An item that was not changed since the last save is in the file.
Stored(items) ==
    /\ persistedItemIds \subseteq DOMAIN items
    /\ \A id \in DOMAIN items :
          ~items[id].dirty => id \in persistedItemIds /\ ~items[id].deleted

\* An item that was not replaced since a save began is that of the snapshot.
HeldInv ==
    /\ DOMAIN save.items \subseteq DOMAIN itemsById
    /\ \A id \in DOMAIN itemsById :
          IF itemsById[id].held
          THEN id \in DOMAIN save.items /\ itemsById[id] = save.items[id]
          ELSE itemsById[id].dirty

SaveInv ==
    save # NoSave =>
        /\ DOMAIN save = {"running", "items", "order", "unsaved"}
        /\ save.unsaved \in BOOLEAN
        /\ Listed(save.order, save.items) /\ Stored(save.items)
        /\ Cardinality(LiveIds(save.items)) <= MaxItemCount
        /\ HeldInv

IInv ==
    /\ IndexInv /\ FileInv /\ Stored(itemsById) /\ SaveInv
    /\ unsaved \in BOOLEAN /\ edits \in 0 .. MaxEdits

-----------------------------------------------------------------------------
(* Items *)

\* The bounds
LEMMA Bounds ==
    /\ MaxText \in Nat /\ MaxChildren \in Nat /\ MaxEdits \in Nat /\ MaxItemCount \in Nat
    /\ MaxItemCount >= 1 /\ NoText \in Nat /\ NoText = MaxText + 1
    /\ NoId \notin Ids
    /\ ReuseIds \in BOOLEAN /\ CopyDuringSave \in BOOLEAN
    /\ NothingToWrite \notin Bodies /\ Unwritable \notin Bodies /\ Unwritable # NothingToWrite
    /\ Batches \subseteq Seq(Messages)
<1>1. BatchMessages \subseteq Messages
  BY DEF BatchMessages
<1>2. Batches \subseteq Seq(Messages)
  <2>1. \A ms \in Seq(BatchMessages) : ms \in Seq(Messages)
    BY <1>1, SeqDef
  <2> QED
    BY <2>1, BoundsAssumption DEF BoundsAssumption
<1> QED
  BY <1>2, BoundsAssumption DEF BoundsAssumption, NoText, Bodies

\* The items of a map
LEMMA MapFacts ==
    ASSUME NEW items \in Maps
    PROVE  /\ DOMAIN items \subseteq Ids
           /\ items \in [DOMAIN items -> Item]
           /\ \A id \in DOMAIN items : items[id] \in Item
<1>1. PICK D \in SUBSET Ids : items \in [D -> Item]
  BY DEF Maps
<1> QED
  BY <1>1

\* What is a map of items
LEMMA IsMap ==
    ASSUME NEW D \in SUBSET Ids, NEW items \in [D -> Item]
    PROVE  items \in Maps
BY DEF Maps

\* The fields of an item
LEMMA ItemFacts ==
    ASSUME NEW item \in Item
    PROVE  /\ item.kind \in Kinds /\ item.look \in Looks
           /\ item.deleted \in BOOLEAN /\ item.dirty \in BOOLEAN /\ item.held \in BOOLEAN
           /\ item.modifiedText \in 0 .. NoText /\ item.txt \in 0 .. NoText
           /\ item.textLength \in 0 .. MaxText
           /\ item.persistedChildCount \in Nat /\ item.appendedChildren \in Seq(Points)
           /\ item.copySource \in Ids \cup {NoId}
BY DEF Item

\* A new item
LEMMA NewItems ==
    ASSUME NEW kind \in Kinds
    PROVE  /\ NewItem(kind) \in Item
           /\ ~NewItem(kind).deleted /\ NewItem(kind).dirty /\ ~NewItem(kind).held
           /\ NewItem(kind).kind = kind /\ NewItem(kind).copySource = NoId
<1>1. 0 \in 0 .. NoText /\ NoText \in 0 .. NoText /\ 0 \in 0 .. MaxText
  BY Bounds
<1>2. << >> \in Seq(Points)
  OBVIOUS
<1>3. (IF kind = "inline" THEN "seed" ELSE "drawn") \in Looks
  BY DEF Looks
<1>4. (IF kind = "text" THEN 0 ELSE NoText) \in 0 .. NoText
  BY <1>1
<1> QED
  BY <1>1, <1>2, <1>3, <1>4 DEF NewItem, Item

\* An erased item
LEMMA Tombstones ==
    ASSUME NEW item \in Item
    PROVE  /\ Tombstone(item) \in Item
           /\ Tombstone(item).deleted /\ Tombstone(item).dirty /\ ~Tombstone(item).held
           /\ Tombstone(item).kind = item.kind /\ Tombstone(item).copySource = item.copySource
BY DEF Tombstone, Item

\* A copied item
LEMMA Copies ==
    ASSUME NEW item \in Item, NEW id \in Ids, NEW storedIds, storedIds \subseteq Ids
    PROVE  LET copy == copyCanonicalItem(item, id, storedIds)
           IN  /\ copy \in Item
               /\ copy.dirty /\ ~copy.held /\ copy.deleted = item.deleted
               /\ copy.kind = item.kind
<1> DEFINE source == IF item.kind = "children" \/ (item.kind = "text" /\ item.modifiedText = NoText)
                     THEN SourceOf(item, id, storedIds) ELSE NoId
<1>1. source \in Ids \cup {NoId}
  BY ItemFacts DEF SourceOf
<1>2. copyCanonicalItem(item, id, storedIds)
        = [item EXCEPT !.dirty = TRUE, !.held = FALSE, !.copySource = source]
  BY DEF copyCanonicalItem
<1> HIDE DEF source
<1> QED
  BY <1>1, <1>2 DEF Item

\* The kinds of messages
LEMMA MessageFacts ==
    ASSUME NEW m \in Messages
    PROVE  /\ m.type \in {"create", "update", "write", "append", "copy", "delete", "clear"}
           /\ m.type # "clear" => m.id \in Ids /\ Target(m) \in Ids
           /\ m.type = "create" => m.kind \in Kinds
           /\ m.type = "update" => m.look \in {"drawn", "moved", "huge"}
           /\ m.type = "write" => m.text \in 1 .. MaxText
           /\ m.type = "append" => m.point \in Points
           /\ m.type # "copy" => Target(m) = m.id
           /\ m.type = "copy" => Target(m) = m.newid /\ m.newid \in Ids
BY DEF Messages, Target

\* What a mutation makes of an item that it changes (prepareMutation).
LEMMA Prepared ==
    ASSUME NEW items \in Maps, NEW m \in Messages, m.type # "clear",
           persistedItemIds \subseteq Ids,
           ~Refuses(items, m), m.type = "delete" => Live(items, Target(m))
    PROVE  LET new == prepareMutation(items, m)
           IN  /\ new \in Item /\ new.dirty /\ ~new.held
               /\ new.deleted <=> m.type = "delete"
               /\ m.type # "create" => Live(items, m.id) /\ new.kind = items[m.id].kind
               /\ m.type \notin {"create", "copy"} => new.copySource = items[m.id].copySource
<1> DEFINE new == prepareMutation(items, m)
           old == items[m.id]
<1>1. m.type \in {"create", "update", "write", "append", "copy", "delete"} /\ m.id \in Ids
  BY MessageFacts
<1>2. m.type # "create" => Live(items, m.id)
  BY <1>1, MessageFacts DEF Refuses
<1>3. m.type # "create" => old \in Item /\ ~old.deleted
  BY <1>2, MapFacts DEF Live
<1>4. CASE m.type = "create"
  <2>1. new = NewItem(m.kind)
    BY <1>4 DEF prepareMutation
  <2> QED
    BY <1>4, <2>1, NewItems, MessageFacts
<1>5. CASE m.type = "update"
  <2>1. new = [Changed(old) EXCEPT !.look = m.look]
    BY <1>5 DEF prepareMutation
  <2>2. m.look \in Looks
    BY <1>5, MessageFacts DEF Refuses, Looks
  <2> QED
    BY <1>2, <1>3, <1>5, <2>1, <2>2 DEF Changed, Item
<1>6. CASE m.type = "write"
  <2>1. new = [Changed(old) EXCEPT !.modifiedText = m.text, !.txt = m.text, !.textLength = m.text]
    BY <1>6 DEF prepareMutation
  <2>2. m.text \in 0 .. NoText /\ m.text \in 0 .. MaxText
    BY <1>6, Bounds, MessageFacts
  <2> QED
    BY <1>2, <1>3, <1>6, <2>1, <2>2, ZenonT(60) DEF Changed, Item
<1>7. CASE m.type = "append"
  <2>1. new = [Changed(old) EXCEPT !.appendedChildren = Append(@, m.point)]
    BY <1>7 DEF prepareMutation
  <2>2. Append(old.appendedChildren, m.point) \in Seq(Points)
    BY <1>3, <1>7, ItemFacts, MessageFacts
  <2>3. new = [Changed(old) EXCEPT !.appendedChildren = Append(old.appendedChildren, m.point)]
    BY <1>3, <2>1 DEF Changed, Item
  <2> QED
    BY <1>2, <1>3, <1>7, <2>2, <2>3, ZenonT(60) DEF Changed, Item
<1>8. CASE m.type = "copy"
  <2>1. new = copyCanonicalItem(old, m.id, persistedItemIds)
    BY <1>8 DEF prepareMutation
  <2> QED
    BY <1>1, <1>2, <1>3, <1>8, <2>1, Copies
<1>9. CASE m.type = "delete"
  <2>1. new = Tombstone(old)
    BY <1>9 DEF prepareMutation
  <2> QED
    BY <1>2, <1>3, <1>9, <2>1, Tombstones
<1> QED
  BY <1>1, <1>4, <1>5, <1>6, <1>7, <1>8, <1>9

-----------------------------------------------------------------------------
(* Batches *)

Overlays == [ok : BOOLEAN, clear : BOOLEAN, items : Maps, fresh : Seq(Ids)]

\* What a batch may do to an item of the index: change it, but not bring it back.
Successor(new, old) ==
    /\ new.kind = old.kind /\ new.copySource = old.copySource
    /\ ~new.deleted => ~old.deleted

OverlayOk(o) ==
    /\ o \in Overlays
    /\ ToSet(o.fresh) = DOMAIN o.items \ DOMAIN itemsById
    /\ IsInjective(o.fresh)
    /\ \A id \in DOMAIN o.items : o.items[id].dirty /\ ~o.items[id].held
    /\ o.clear => DOMAIN o.items \cap DOMAIN itemsById = {}
    /\ \A id \in DOMAIN o.items \cap DOMAIN itemsById : Successor(o.items[id], itemsById[id])

\* A message names a new id for what it creates.
NamesFresh(m) == m.type \in {"create", "copy"} => Target(m) \notin DOMAIN itemsById

\* One map over another
LEMMA OverFacts ==
    ASSUME NEW new \in Maps, NEW old \in Maps
    PROVE  /\ Over(new, old) \in Maps
           /\ DOMAIN Over(new, old) = DOMAIN new \cup DOMAIN old
           /\ \A id \in DOMAIN new : Over(new, old)[id] = new[id]
           /\ \A id \in DOMAIN old \ DOMAIN new : Over(new, old)[id] = old[id]
<1> DEFINE both == Over(new, old)
           D == DOMAIN new \cup DOMAIN old
<1>1. both = [id \in D |-> IF id \in DOMAIN new THEN new[id] ELSE old[id]]
  BY DEF Over
<1>2. D \in SUBSET Ids
  BY MapFacts
<1>3. \A id \in D : (IF id \in DOMAIN new THEN new[id] ELSE old[id]) \in Item
  BY MapFacts
<1>4. both \in [D -> Item]
  BY <1>1, <1>3
<1> HIDE DEF both
<1>5. both \in Maps
  BY <1>2, <1>4, IsMap
<1> QED
  BY <1>1, <1>5 DEF both

\* A map of one item
LEMMA OneItem ==
    ASSUME NEW id \in Ids, NEW item \in Item
    PROVE  [other \in {id} |-> item] \in Maps
BY IsMap

\* A list and a new last element that it does not have
LEMMA AppendFresh ==
    ASSUME NEW S, NEW s \in Seq(S), NEW e \in S, e \notin ToSet(s), IsInjective(s)
    PROVE  /\ Append(s, e) \in Seq(S)
           /\ ToSet(Append(s, e)) = ToSet(s) \cup {e}
           /\ IsInjective(Append(s, e))
<1>1. PICK n \in Nat : n = Len(s) /\ DOMAIN s = 1 .. n
  BY LenProperties
<1> DEFINE t == Append(s, e)
<1>2. t \in Seq(S) /\ Len(t) = n + 1 /\ t[n + 1] = e /\ \A k \in 1 .. n : t[k] = s[k]
  BY <1>1, AppendProperties
<1>3. DOMAIN t = 1 .. n + 1
  BY <1>2, LenProperties
<1>4. \A k \in 1 .. n + 1 : k \in 1 .. n \/ k = n + 1
  OBVIOUS
<1>5. 1 .. n \subseteq 1 .. n + 1 /\ n + 1 \in 1 .. n + 1
  OBVIOUS
<1> HIDE DEF t
<1>6. ToSet(t) = ToSet(s) \cup {e}
  BY <1>1, <1>2, <1>3, <1>4, <1>5 DEF ToSet
<1>7. \A k \in 1 .. n : s[k] # e
  BY <1>1 DEF ToSet
<1>8. \A i, j \in 1 .. n : s[i] = s[j] => i = j
  BY <1>1 DEF IsInjective
<1>9. \A i, j \in 1 .. n + 1 : t[i] = t[j] => i = j
  BY <1>2, <1>4, <1>7, <1>8
<1>10. IsInjective(t)
  BY <1>3, <1>9 DEF IsInjective
<1> QED
  BY <1>2, <1>6, <1>10 DEF t

\* What a mutation reads through the overlay
LEMMA SeenFacts ==
    ASSUME itemsById \in Maps, NEW o, OverlayOk(o)
    PROVE  /\ Seen(o) \in Maps
           /\ \A id \in DOMAIN o.items : id \in DOMAIN Seen(o) /\ Seen(o)[id] = o.items[id]
           /\ \A id \in DOMAIN Seen(o) :
                 id \notin DOMAIN o.items =>
                    ~o.clear /\ id \in DOMAIN itemsById /\ Seen(o)[id] = itemsById[id]
<1>1. o.items \in Maps
  BY DEF OverlayOk, Overlays
<1>2. CASE o.clear
  BY <1>1, <1>2 DEF Seen
<1>3. CASE ~o.clear
  <2>1. Seen(o) = Over(o.items, itemsById)
    BY <1>3 DEF Seen
  <2>2. /\ Over(o.items, itemsById) \in Maps
        /\ DOMAIN Over(o.items, itemsById) = DOMAIN o.items \cup DOMAIN itemsById
        /\ \A id \in DOMAIN o.items : Over(o.items, itemsById)[id] = o.items[id]
        /\ \A id \in DOMAIN itemsById \ DOMAIN o.items :
              Over(o.items, itemsById)[id] = itemsById[id]
    BY ONLY <1>1, itemsById \in Maps, OverFacts
  <2> QED
    BY ONLY <1>3, <2>1, <2>2
<1> QED
  BY <1>2, <1>3

\* What was prepared so far with one more item
Adding(o, id, item) ==
    [o EXCEPT !.items = Over([other \in {id} |-> item], o.items),
              !.fresh = IF id \in DOMAIN o.items \cup DOMAIN itemsById THEN o.fresh
                        ELSE Append(o.fresh, id)]

\* An item that may follow the one the index knows may be added.
LEMMA OverlayAdds ==
    ASSUME itemsById \in Maps, NEW o, OverlayOk(o), NEW id \in Ids, NEW item \in Item,
           item.dirty, ~item.held,
           id \in DOMAIN itemsById => ~o.clear /\ Successor(item, itemsById[id]),
           NEW p, p = Adding(o, id, item)
    PROVE  /\ OverlayOk(p)
           /\ DOMAIN p.items = DOMAIN o.items \cup {id}
           /\ p.items[id] = item
           /\ \A other \in DOMAIN o.items : other # id => p.items[other] = o.items[other]
           /\ p.clear = o.clear /\ p.ok = o.ok
<1> DEFINE one == [other \in {id} |-> item]
           items == Over(one, o.items)
           fresh == IF id \in DOMAIN o.items \cup DOMAIN itemsById THEN o.fresh
                    ELSE Append(o.fresh, id)
<1>1. o \in Overlays /\ o.items \in Maps /\ o.fresh \in Seq(Ids)
  BY DEF OverlayOk, Overlays
<1>2. one \in Maps /\ DOMAIN one = {id} /\ one[id] = item
  BY OneItem
<1> HIDE DEF one
<1>3. /\ items \in Maps
      /\ DOMAIN items = DOMAIN o.items \cup {id}
      /\ items[id] = item
      /\ \A other \in DOMAIN o.items : other # id => items[other] = o.items[other]
  <2>1. /\ items \in Maps
        /\ DOMAIN items = DOMAIN one \cup DOMAIN o.items
        /\ \A x \in DOMAIN one : items[x] = one[x]
        /\ \A x \in DOMAIN o.items \ DOMAIN one : items[x] = o.items[x]
    BY <1>1, <1>2, OverFacts
  <2> HIDE DEF items
  <2> QED
    BY <1>2, <2>1
<1>4. /\ fresh \in Seq(Ids)
      /\ ToSet(fresh) = (DOMAIN o.items \cup {id}) \ DOMAIN itemsById
      /\ IsInjective(fresh)
  <2>1. ToSet(o.fresh) = DOMAIN o.items \ DOMAIN itemsById /\ IsInjective(o.fresh)
    BY DEF OverlayOk
  <2>2. CASE id \in DOMAIN o.items \cup DOMAIN itemsById
    BY <1>1, <2>1, <2>2
  <2>3. CASE id \notin DOMAIN o.items \cup DOMAIN itemsById
    <3>1. id \notin ToSet(o.fresh)
      BY <2>1, <2>3
    <3>2. fresh = Append(o.fresh, id)
      BY <2>3
    <3> HIDE DEF fresh
    <3> QED
      BY <1>1, <2>1, <2>3, <3>1, <3>2, AppendFresh
  <2> QED
    BY <2>2, <2>3
<1> HIDE DEF items, fresh
<1>5. /\ p.items = items /\ p.fresh = fresh /\ p.clear = o.clear /\ p.ok = o.ok
      /\ p \in Overlays
  BY <1>1, <1>3, <1>4 DEF Overlays, items, fresh, one, Adding
<1>6. \A x \in DOMAIN p.items : p.items[x].dirty /\ ~p.items[x].held
  BY <1>3, <1>5 DEF OverlayOk
<1>7. p.clear => DOMAIN p.items \cap DOMAIN itemsById = {}
  BY <1>3, <1>5 DEF OverlayOk
<1>8. \A x \in DOMAIN p.items \cap DOMAIN itemsById : Successor(p.items[x], itemsById[x])
  <2>1. \A x \in DOMAIN o.items \cap DOMAIN itemsById : Successor(o.items[x], itemsById[x])
    BY DEF OverlayOk
  <2> QED
    BY <1>3, <1>5, <2>1
<1>9. OverlayOk(p)
  BY <1>3, <1>4, <1>5, <1>6, <1>7, <1>8 DEF OverlayOk
<1> QED
  BY <1>3, <1>5, <1>9

\* The empty overlays
LEMMA EmptyOverlays ==
    /\ OverlayOk(NoOverlay)
    /\ OverlayOk([NoOverlay EXCEPT !.clear = TRUE])
<1> DEFINE o == [NoOverlay EXCEPT !.clear = TRUE]
<1>1. DOMAIN << >> = {} /\ << >> \in [{} -> Item]
  OBVIOUS
<1>2. << >> \in Maps
  BY <1>1, IsMap
<1>3. << >> \in Seq(Ids) /\ ToSet(<< >>) = {} /\ IsInjective(<< >>)
  BY <1>1 DEF ToSet, IsInjective
<1>4. /\ NoOverlay \in Overlays /\ NoOverlay.items = << >> /\ NoOverlay.fresh = << >>
      /\ ~NoOverlay.clear
  BY <1>2, <1>3 DEF NoOverlay, Overlays
<1>5. o \in Overlays /\ o.items = << >> /\ o.fresh = << >>
  BY <1>4 DEF Overlays
<1> HIDE DEF o
<1>6. OverlayOk(NoOverlay)
  BY <1>1, <1>3, <1>4 DEF OverlayOk
<1>7. OverlayOk(o)
  BY <1>1, <1>3, <1>5 DEF OverlayOk
<1> QED
  BY <1>6, <1>7 DEF o

\* The item a mutation prepares may follow the one the index knows.
LEMMA PreparedFollows ==
    ASSUME itemsById \in Maps, persistedItemIds \subseteq Ids,
           NEW o, OverlayOk(o), NEW m \in Messages, NamesFresh(m), m.type # "clear",
           ~Refuses(Seen(o), m), m.type = "delete" => Live(Seen(o), Target(m))
    PROVE  LET new == prepareMutation(Seen(o), m)
           IN  /\ new \in Item /\ new.dirty /\ ~new.held
               /\ Target(m) \in Ids
               /\ Target(m) \in DOMAIN itemsById =>
                     ~o.clear /\ Successor(new, itemsById[Target(m)])
<1> DEFINE items == Seen(o)
           new == prepareMutation(items, m)
           id == Target(m)
<1>1. items \in Maps
  BY SeenFacts
<1>2. /\ new \in Item /\ new.dirty /\ ~new.held
      /\ new.deleted <=> m.type = "delete"
      /\ m.type # "create" => Live(items, m.id) /\ new.kind = items[m.id].kind
      /\ m.type \notin {"create", "copy"} => new.copySource = items[m.id].copySource
  BY <1>1, Prepared
<1>3. id \in Ids
  BY MessageFacts
<1>4. ASSUME id \in DOMAIN itemsById
      PROVE  ~o.clear /\ Successor(new, itemsById[id])
  <2>1. m.type \notin {"create", "copy"} /\ id = m.id
    BY <1>4, MessageFacts DEF NamesFresh
  <2>2. /\ Live(items, id) /\ new.kind = items[id].kind /\ new.copySource = items[id].copySource
    BY <1>2, <2>1
  <2>3. id \in DOMAIN items /\ ~items[id].deleted
    BY <2>2 DEF Live
  <2>4. CASE id \in DOMAIN o.items
    <3>1. items[id] = o.items[id]
      BY <2>4, SeenFacts
    <3>2. ~o.clear /\ Successor(o.items[id], itemsById[id])
      BY <1>4, <2>4 DEF OverlayOk
    <3> QED
      BY <2>2, <2>3, <3>1, <3>2 DEF Successor
  <2>5. CASE id \notin DOMAIN o.items
    <3>1. ~o.clear /\ items[id] = itemsById[id]
      BY <2>3, <2>5, SeenFacts
    <3> QED
      BY <2>2, <2>3, <3>1 DEF Successor
  <2> QED
    BY <2>4, <2>5
<1> QED
  BY <1>2, <1>3, <1>4

\* What the next message of a batch prepares
LEMMA PrepareKeeps ==
    ASSUME itemsById \in Maps, persistedItemIds \subseteq Ids,
           NEW o, OverlayOk(o), NEW m \in Messages, NamesFresh(m)
    PROVE  OverlayOk(Prepare(o, m))
<1> DEFINE items == Seen(o)
           id == Target(m)
<1>1. CASE ~o.ok \/ Refuses(items, m)
  <2>1. Prepare(o, m) = [o EXCEPT !.ok = FALSE]
    BY <1>1 DEF Prepare
  <2>2. o \in Overlays
    BY DEF OverlayOk
  <2> QED
    BY <2>1, <2>2 DEF OverlayOk, Overlays
<1>2. CASE ~(~o.ok \/ Refuses(items, m)) /\ m.type = "clear"
  <2>1. Prepare(o, m) = [NoOverlay EXCEPT !.clear = TRUE]
    BY <1>2 DEF Prepare
  <2> QED
    BY <2>1, EmptyOverlays
<1>3. CASE /\ ~(~o.ok \/ Refuses(items, m)) /\ m.type # "clear"
           /\ m.type = "delete" /\ ~Live(items, id)
  BY <1>3 DEF Prepare
<1>4. CASE /\ ~(~o.ok \/ Refuses(items, m)) /\ m.type # "clear"
           /\ ~(m.type = "delete" /\ ~Live(items, id))
  <2> DEFINE new == prepareMutation(items, m)
  <2>1. Prepare(o, m) = [o EXCEPT !.items = Over([other \in {id} |-> new], @),
                                  !.fresh = IF id \in DOMAIN o.items \cup DOMAIN itemsById THEN @
                                            ELSE Append(@, id)]
    BY <1>4 DEF Prepare
  <2>2. /\ new \in Item /\ new.dirty /\ ~new.held /\ id \in Ids
        /\ id \in DOMAIN itemsById => ~o.clear /\ Successor(new, itemsById[id])
    BY <1>4, PreparedFollows
  <2>3. o \in Overlays
    BY DEF OverlayOk
  <2> HIDE DEF new, id
  <2>4. Prepare(o, m) = Adding(o, id, new)
    BY <2>1, <2>3 DEF Overlays, Adding
  <2>5. OverlayOk(Adding(o, id, new))
    BY <2>2, OverlayAdds
  <2> QED
    BY <2>4, <2>5
<1> QED
  BY <1>1, <1>2, <1>3, <1>4

\* What a batch prepares, message by message
Prepares(g, ms) ==
    /\ g[0] = NoOverlay
    /\ \A k \in DOMAIN ms : g[k] = Prepare(g[k - 1], ms[k])

\* What a batch prepares as a whole, from what its messages do to a set of overlays
LEMMA OverlaySteps ==
    ASSUME NEW ms \in Seq(Messages), NEW S, NoOverlay \in S,
           \A k \in DOMAIN ms : \A o \in S : Prepare(o, ms[k]) \in S
    PROVE  \E g : /\ Prepares(g, ms) /\ OverlayOf(ms) = g[Len(ms)]
                  /\ \A k \in 0 .. Len(ms) : g[k] \in S
<1>1. PICK n \in Nat : n = Len(ms) /\ DOMAIN ms = 1 .. n
  BY LenProperties
<1> DEFINE step == [p \in (1 .. n) \X S |-> Prepare(p[2], ms[p[1]])]
<1>2. step \in [(1 .. n) \X S -> S]
  BY <1>1
<1>3. PICK g : Steps(g, n, S, NoOverlay, step)
  <2> HIDE DEF step
  <2> QED
    BY <1>1, <1>2, Stepwise
<1> DEFINE upTo[k \in 0 .. Len(ms)] == IF k = 0 THEN NoOverlay ELSE Prepare(upTo[k - 1], ms[k])
           Body(f) == [k \in 0 .. n |-> IF k = 0 THEN NoOverlay ELSE Prepare(f[k - 1], ms[k])]
<1>4. g = Body(g)
  <2>1. g \in [0 .. n -> S] /\ g[0] = NoOverlay
        /\ \A k \in 1 .. n : g[k] = step[<<k, g[k - 1]>>]
    BY <1>3 DEF Steps
  <2>2. \A k \in 1 .. n : k - 1 \in 0 .. n
    BY <1>1
  <2>3. \A k \in 1 .. n : g[k] = Prepare(g[k - 1], ms[k])
    <3> SUFFICES ASSUME NEW k \in 1 .. n
                 PROVE  g[k] = Prepare(g[k - 1], ms[k])
      OBVIOUS
    <3>1. <<k, g[k - 1]>> \in (1 .. n) \X S
      BY <2>1, <2>2
    <3>2. step[<<k, g[k - 1]>>] = Prepare(g[k - 1], ms[k])
      BY <3>1
    <3> QED
      BY <2>1, <3>2
  <2> HIDE DEF step
  <2>4. \A k \in 0 .. n : k = 0 \/ k \in 1 .. n
    BY <1>1
  <2>5. \A k \in 0 .. n : g[k] = IF k = 0 THEN NoOverlay ELSE Prepare(g[k - 1], ms[k])
    BY <2>1, <2>3, <2>4
  <2> QED
    BY <2>1, <2>5
<1> HIDE DEF step
<1>5. upTo = CHOOSE f : f = Body(f)
  BY <1>1
<1>6. upTo = Body(upTo)
  <2> HIDE DEF upTo, Body
  <2> QED
    BY <1>4, <1>5
<1>7. n \in 0 .. n /\ 0 \in 0 .. n /\ \A k \in 0 .. n - 1 : k + 1 \in 0 .. n /\ k + 1 # 0 /\ k + 1 - 1 = k /\ k + 1 \in 1 .. n
  BY <1>1
<1>8. upTo[0] = NoOverlay
  BY <1>6, <1>7
<1>9. \A k \in 0 .. n - 1 : upTo[k + 1] = Prepare(upTo[k], ms[k + 1])
  <2> SUFFICES ASSUME NEW k \in 0 .. n - 1
               PROVE  upTo[k + 1] = Prepare(upTo[k], ms[k + 1])
    OBVIOUS
  <2>1. k + 1 \in 0 .. n /\ k + 1 # 0 /\ k + 1 - 1 = k
    BY <1>7
  <2> HIDE DEF upTo
  <2> QED
    BY <1>6, <2>1
<1> DEFINE G == {k \in 0 .. n : upTo[k] \in S}
<1> HIDE DEF upTo
<1>10. 0 \in G
  BY <1>7, <1>8
<1>11. \A k \in 0 .. n - 1 : k \in G => k + 1 \in G
  BY <1>1, <1>7, <1>9
<1>12. \A k \in 0 .. n : k \in G
  <2> HIDE DEF G
  <2> QED
    BY <1>10, <1>11, <1>1, UpTo
<1>13. OverlayOf(ms) = upTo[n]
  BY <1>1 DEF OverlayOf, upTo
<1>14. \A k \in 1 .. n : upTo[k] = Prepare(upTo[k - 1], ms[k])
  <2> SUFFICES ASSUME NEW k \in 1 .. n
               PROVE  upTo[k] = Prepare(upTo[k - 1], ms[k])
    OBVIOUS
  <2>1. k - 1 \in 0 .. n - 1 /\ k - 1 + 1 = k
    BY <1>1
  <2>2. upTo[k - 1 + 1] = Prepare(upTo[k - 1], ms[k - 1 + 1])
    BY ONLY <1>9, <2>1
  <2> QED
    BY ONLY <2>1, <2>2
<1>15. Prepares(upTo, ms)
  BY <1>1, <1>8, <1>14 DEF Prepares
<1> QED
  BY <1>1, <1>12, <1>13, <1>15

\* ... as what it ends with
LEMMA OverlayIn ==
    ASSUME NEW ms \in Seq(Messages), NEW S, NoOverlay \in S,
           \A k \in DOMAIN ms : \A o \in S : Prepare(o, ms[k]) \in S
    PROVE  OverlayOf(ms) \in S
<1>1. Len(ms) \in Nat /\ Len(ms) \in 0 .. Len(ms)
  BY LenProperties
<1> QED
  BY <1>1, OverlaySteps

\* What a batch of messages that name fresh ids prepares
LEMMA OverlayOfFacts ==
    ASSUME itemsById \in Maps, persistedItemIds \subseteq Ids,
           NEW ms \in Seq(Messages), \A k \in DOMAIN ms : NamesFresh(ms[k])
    PROVE  OverlayOk(OverlayOf(ms))
<1> DEFINE S == {o \in Overlays : OverlayOk(o)}
<1>1. NoOverlay \in S
  BY EmptyOverlays DEF OverlayOk
<1>2. \A k \in DOMAIN ms : \A o \in S : Prepare(o, ms[k]) \in S
  <2> SUFFICES ASSUME NEW k \in DOMAIN ms, NEW o \in S
               PROVE  Prepare(o, ms[k]) \in S
    OBVIOUS
  <2>1. ms[k] \in Messages
    BY ElementOfSeq, LenProperties
  <2>2. OverlayOk(Prepare(o, ms[k]))
    BY <2>1, PrepareKeeps
  <2> QED
    BY <2>2 DEF OverlayOk
<1>3. OverlayOf(ms) \in S
  <2> HIDE DEF S
  <2> QED
    BY <1>1, <1>2, OverlayIn
<1> QED
  BY <1>3

-----------------------------------------------------------------------------
(* The index after a batch *)

\* One list after another that shares no element with it
LEMMA ConcatFresh ==
    ASSUME NEW S, NEW s \in Seq(S), NEW t \in Seq(S),
           IsInjective(s), IsInjective(t), ToSet(s) \cap ToSet(t) = {}
    PROVE  /\ s \o t \in Seq(S) /\ ToSet(s \o t) = ToSet(s) \cup ToSet(t)
           /\ IsInjective(s \o t)
           /\ Len(s) \in Nat /\ Len(s) <= Len(s \o t)
           /\ \A i \in 1 .. Len(s) : (s \o t)[i] = s[i]
<1>1. PICK n \in Nat : n = Len(s) /\ DOMAIN s = 1 .. n
  BY LenProperties
<1>2. PICK l \in Nat : l = Len(t) /\ DOMAIN t = 1 .. l
  BY LenProperties
<1> DEFINE u == s \o t
<1>3. u \in Seq(S) /\ Len(u) = n + l
      /\ \A k \in 1 .. n + l : u[k] = IF k <= n THEN s[k] ELSE t[k - n]
  BY <1>1, <1>2, ConcatProperties
<1>4. DOMAIN u = 1 .. n + l
  BY <1>3, LenProperties
<1> HIDE DEF u
<1>5. \A k \in 1 .. n + l : (k <= n /\ k \in 1 .. n) \/ (~(k <= n) /\ k - n \in 1 .. l)
  OBVIOUS
<1>6. \A k \in 1 .. n : k \in 1 .. n + l /\ k <= n
  OBVIOUS
<1>7. \A k \in 1 .. l : n + k \in 1 .. n + l /\ ~(n + k <= n) /\ n + k - n = k
  OBVIOUS
<1>8. \A k \in 1 .. n : u[k] = s[k]
  BY <1>3, <1>6
<1>9. \A k \in 1 .. l : u[n + k] = t[k]
  <2> SUFFICES ASSUME NEW k \in 1 .. l PROVE u[n + k] = t[k]
    OBVIOUS
  <2>1. n + k \in 1 .. n + l /\ ~(n + k <= n) /\ n + k - n = k
    BY <1>7
  <2>2. u[n + k] = t[n + k - n]
    BY <1>3, <2>1
  <2> QED
    BY ONLY <2>1, <2>2
<1>10. ToSet(u) = ToSet(s) \cup ToSet(t)
  <2>1. ASSUME NEW k \in 1 .. n + l PROVE u[k] \in ToSet(s) \cup ToSet(t)
    <3>1. CASE k <= n /\ k \in 1 .. n
      BY <1>1, <1>8, <3>1 DEF ToSet
    <3>2. CASE ~(k <= n) /\ k - n \in 1 .. l
      <4>1. u[k] = t[k - n]
        BY <1>3, <3>2
      <4> QED
        BY <1>2, <3>2, <4>1 DEF ToSet
    <3> QED
      BY <1>5, <3>1, <3>2
  <2>2. \A k \in 1 .. n : s[k] \in ToSet(u)
    BY <1>4, <1>6, <1>8 DEF ToSet
  <2>3. \A k \in 1 .. l : t[k] \in ToSet(u)
    BY <1>4, <1>7, <1>9 DEF ToSet
  <2>4. ToSet(u) \subseteq ToSet(s) \cup ToSet(t)
    BY <1>4, <2>1 DEF ToSet
  <2>5. ToSet(s) \subseteq ToSet(u) /\ ToSet(t) \subseteq ToSet(u)
    BY <1>1, <1>2, <2>2, <2>3 DEF ToSet
  <2> QED
    BY ONLY <2>4, <2>5
<1>11. IsInjective(u)
  <2> SUFFICES ASSUME NEW i \in 1 .. n + l, NEW j \in 1 .. n + l, u[i] = u[j]
               PROVE  i = j
    BY <1>4 DEF IsInjective
  <2>1. \A a, b \in 1 .. n : s[a] = s[b] => a = b
    BY <1>1 DEF IsInjective
  <2>2. \A a, b \in 1 .. l : t[a] = t[b] => a = b
    BY <1>2 DEF IsInjective
  <2>3. \A a \in 1 .. n, b \in 1 .. l : s[a] # t[b]
    BY <1>1, <1>2 DEF ToSet
  <2>4. CASE i <= n /\ j <= n
    BY <1>5, <1>8, <2>1, <2>4
  <2>5. CASE ~(i <= n) /\ ~(j <= n)
    <3>1. i - n \in 1 .. l /\ j - n \in 1 .. l /\ u[i] = t[i - n] /\ u[j] = t[j - n]
      BY <1>3, <1>5, <2>5
    <3>2. i - n = j - n
      BY <2>2, <3>1
    <3> QED
      BY <1>1, <3>2
  <2>6. CASE i <= n /\ ~(j <= n)
    BY <1>3, <1>5, <1>8, <2>3, <2>6
  <2>7. CASE ~(i <= n) /\ j <= n
    BY <1>3, <1>5, <1>8, <2>3, <2>7
  <2> QED
    BY <2>4, <2>5, <2>6, <2>7
<1> QED
  BY <1>1, <1>3, <1>8, <1>10, <1>11 DEF u

\* A listed map is finite.
LEMMA ListedFinite ==
    ASSUME NEW order, NEW items, Listed(order, items)
    PROVE  /\ IsFiniteSet(DOMAIN items) /\ IsFiniteSet(LiveIds(items))
           /\ Cardinality(LiveIds(items)) \in Nat
           /\ LiveIds(items) \subseteq DOMAIN items
<1>1. order \in Seq(Ids) /\ ToSet(order) = DOMAIN items
  BY DEF Listed
<1>2. {order[i] : i \in DOMAIN order} = DOMAIN items
  BY <1>1 DEF ToSet
<1>3. IsFiniteSet({order[i] : i \in DOMAIN order})
  BY <1>1, Elements
<1>4. LiveIds(items) \in SUBSET DOMAIN items
  BY DEF LiveIds
<1>5. IsFiniteSet(LiveIds(items))
  BY <1>2, <1>3, <1>4, FS_Subset
<1> QED
  BY <1>2, <1>3, <1>4, <1>5, FS_CardinalityType

\* Who dies and who is born changes the count.
LEMMA Census ==
    ASSUME NEW L, IsFiniteSet(L), NEW born, IsFiniteSet(born), NEW died,
           died \subseteq L, born \cap L = {}
    PROVE  Cardinality((L \ died) \cup born) = Cardinality(L) + Cardinality(born) - Cardinality(died)
<1>1. IsFiniteSet(L \ died) /\ Cardinality(L \ died) = Cardinality(L) - Cardinality(L \cap died)
  BY FS_Difference
<1>2. L \cap died = died /\ (L \ died) \cap born = {}
  OBVIOUS
<1>3. Cardinality((L \ died) \cup born)
        = Cardinality(L \ died) + Cardinality(born) - Cardinality((L \ died) \cap born)
  BY <1>1, FS_Union
<1>4. Cardinality({}) = 0
  BY FS_EmptySet
<1>5. IsFiniteSet(died)
  BY FS_Subset
<1>6. Cardinality(L) \in Nat /\ Cardinality(born) \in Nat /\ Cardinality(died) \in Nat
  BY <1>5, FS_CardinalityType
<1> QED
  BY <1>1, <1>2, <1>3, <1>4, <1>6

\* The index once a batch is applied: listed, counted, and nothing that the trim
\* index has passed is alive again.
LEMMA AppliedFacts ==
    ASSUME IndexInv, NEW o, OverlayOk(o)
    PROVE  LET st == Applied(o)
           IN  /\ Listed(st.order, st.items) /\ Passed(st.order, st.items, st.trim)
               /\ st.count = Cardinality(LiveIds(st.items))
               /\ DOMAIN st.items = DOMAIN itemsById \cup DOMAIN o.items
               /\ \A id \in DOMAIN o.items : st.items[id] = o.items[id]
               /\ \A id \in DOMAIN itemsById \ DOMAIN o.items :
                     st.items[id] = IF o.clear THEN Tombstone(itemsById[id]) ELSE itemsById[id]
<1> DEFINE base == IF o.clear THEN Cleared(itemsById) ELSE itemsById
           born == {id \in LiveIds(o.items) : ~Live(base, id)}
           died == {id \in DOMAIN o.items \ LiveIds(o.items) : Live(base, id)}
           items == Over(o.items, base)
           order == paintOrder \o o.fresh
           count == (IF o.clear THEN 0 ELSE liveItemCount) + Cardinality(born) - Cardinality(died)
           trim == IF o.clear THEN Len(paintOrder) ELSE trimPaintOrderIndex
<1>1. /\ Listed(paintOrder, itemsById) /\ itemsById \in Maps
      /\ paintOrder \in Seq(Ids) /\ ToSet(paintOrder) = DOMAIN itemsById
      /\ IsInjective(paintOrder)
      /\ trimPaintOrderIndex \in 0 .. Len(paintOrder)
      /\ \A i \in 1 .. trimPaintOrderIndex : ~Live(itemsById, paintOrder[i])
      /\ liveItemCount = Cardinality(LiveIds(itemsById))
  BY DEF IndexInv, Listed, Passed
<1>2. /\ o \in Overlays /\ o.items \in Maps /\ o.fresh \in Seq(Ids)
      /\ ToSet(o.fresh) = DOMAIN o.items \ DOMAIN itemsById /\ IsInjective(o.fresh)
      /\ o.clear => DOMAIN o.items \cap DOMAIN itemsById = {}
      /\ \A id \in DOMAIN o.items \cap DOMAIN itemsById : Successor(o.items[id], itemsById[id])
      /\ o.clear \in BOOLEAN
  BY DEF OverlayOk, Overlays
<1>3. base \in Maps /\ DOMAIN base = DOMAIN itemsById
      /\ \A id \in DOMAIN itemsById :
            base[id] = IF o.clear THEN Tombstone(itemsById[id]) ELSE itemsById[id]
  <2>1. CASE o.clear
    <3>1. DOMAIN itemsById \in SUBSET Ids /\ \A id \in DOMAIN itemsById : Tombstone(itemsById[id]) \in Item
      BY <1>1, MapFacts, Tombstones
    <3>2. Cleared(itemsById) \in [DOMAIN itemsById -> Item]
      BY <3>1 DEF Cleared
    <3>3. Cleared(itemsById) \in Maps
      BY <3>1, <3>2, IsMap
    <3> QED
      BY <2>1, <3>3 DEF Cleared
  <2>2. CASE ~o.clear
    BY <1>1, <2>2
  <2> QED
    BY <2>1, <2>2
<1>4. \A id \in DOMAIN itemsById : Live(base, id) <=> ~o.clear /\ Live(itemsById, id)
  BY <1>1, <1>3, Tombstones, MapFacts DEF Live
<1>5. LiveIds(base) = IF o.clear THEN {} ELSE LiveIds(itemsById)
  BY <1>3, <1>4 DEF LiveIds, Live
<1> HIDE DEF base
<1>6. /\ items \in Maps /\ DOMAIN items = DOMAIN itemsById \cup DOMAIN o.items
      /\ \A id \in DOMAIN o.items : items[id] = o.items[id]
      /\ \A id \in DOMAIN itemsById \ DOMAIN o.items : items[id] = base[id]
  <2>1. /\ Over(o.items, base) \in Maps
        /\ DOMAIN Over(o.items, base) = DOMAIN o.items \cup DOMAIN base
        /\ \A id \in DOMAIN o.items : Over(o.items, base)[id] = o.items[id]
        /\ \A id \in DOMAIN base \ DOMAIN o.items : Over(o.items, base)[id] = base[id]
    BY <1>2, <1>3, OverFacts
  <2> QED
    BY <1>3, <2>1
<1> HIDE DEF items
<1>7. /\ order \in Seq(Ids) /\ ToSet(order) = DOMAIN items /\ IsInjective(order)
      /\ Len(paintOrder) \in Nat /\ Len(paintOrder) <= Len(order)
      /\ \A i \in 1 .. Len(paintOrder) : order[i] = paintOrder[i]
  <2>1. ToSet(paintOrder) \cap ToSet(o.fresh) = {}
    BY <1>1, <1>2
  <2>2. ToSet(paintOrder) \cup ToSet(o.fresh) = DOMAIN items
    BY <1>1, <1>2, <1>6
  <2>3. paintOrder \in Seq(Ids) /\ o.fresh \in Seq(Ids)
        /\ IsInjective(paintOrder) /\ IsInjective(o.fresh)
    BY <1>1, <1>2
  <2>4. /\ paintOrder \o o.fresh \in Seq(Ids)
        /\ ToSet(paintOrder \o o.fresh) = ToSet(paintOrder) \cup ToSet(o.fresh)
        /\ IsInjective(paintOrder \o o.fresh)
        /\ Len(paintOrder) \in Nat /\ Len(paintOrder) <= Len(paintOrder \o o.fresh)
        /\ \A i \in 1 .. Len(paintOrder) : (paintOrder \o o.fresh)[i] = paintOrder[i]
    BY <2>1, <2>3, ConcatFresh
  <2> QED
    BY <2>2, <2>4
<1> HIDE DEF order
<1>8. Listed(order, items)
  BY <1>6, <1>7 DEF Listed
<1>9. Len(order) \in Nat
  BY <1>7, LenProperties
<1>10. trim \in 0 .. Len(order) /\ \A i \in 1 .. trim : i \in 1 .. Len(paintOrder)
  BY <1>1, <1>7, <1>9
<1>11. \A i \in 1 .. trim : ~Live(items, order[i])
  <2> SUFFICES ASSUME NEW i \in 1 .. trim, Live(items, order[i])
               PROVE  FALSE
    OBVIOUS
  <2>1. i \in 1 .. Len(paintOrder) /\ order[i] = paintOrder[i]
    BY <1>7, <1>10
  <2>2. paintOrder[i] \in DOMAIN itemsById
    BY <1>1, <2>1, LenProperties DEF ToSet
  <2>3. ~Live(base, paintOrder[i])
    BY <1>1, <1>4, <2>2
  <2>4. CASE paintOrder[i] \in DOMAIN o.items
    <3>1. ~o.items[paintOrder[i]].deleted
      BY <1>6, <2>1, <2>4 DEF Live
    <3>2. ~o.clear /\ ~itemsById[paintOrder[i]].deleted
      BY <1>2, <2>2, <2>4, <3>1 DEF Successor
    <3> QED
      BY <1>4, <2>2, <2>3, <3>2 DEF Live
  <2>5. CASE paintOrder[i] \notin DOMAIN o.items
    <3>1. items[paintOrder[i]] = base[paintOrder[i]]
      BY <1>6, <2>2, <2>5
    <3> QED
      BY <1>3, <2>1, <2>2, <2>3, <3>1 DEF Live
  <2> QED
    BY <2>4, <2>5
<1>12. Passed(order, items, trim)
  BY <1>10, <1>11 DEF Passed
<1>13. LiveIds(items) = (LiveIds(base) \ died) \cup born
  <2>1. \A id : id \in LiveIds(items) <=> id \in DOMAIN items /\ ~items[id].deleted
    BY DEF LiveIds
  <2>2. \A id : id \in LiveIds(base) <=> id \in DOMAIN itemsById /\ ~base[id].deleted
    BY <1>3 DEF LiveIds
  <2>3. \A id : id \in LiveIds(o.items) <=> id \in DOMAIN o.items /\ ~o.items[id].deleted
    BY DEF LiveIds
  <2>4. \A id : Live(base, id) <=> id \in LiveIds(base)
    BY <1>3, <2>2 DEF Live
  <2> QED
    BY <1>6, <2>1, <2>2, <2>3, <2>4
<1>14. died \subseteq LiveIds(base) /\ born \cap LiveIds(base) = {} /\ born \subseteq DOMAIN items
  BY <1>6 DEF LiveIds, Live
<1>15. IsFiniteSet(LiveIds(itemsById)) /\ IsFiniteSet(DOMAIN items)
  BY <1>1, <1>8, ListedFinite
<1>16. IsFiniteSet(LiveIds(base)) /\ IsFiniteSet(born)
  BY <1>5, <1>14, <1>15, FS_EmptySet, FS_Subset
<1>17. Cardinality(LiveIds(base)) = IF o.clear THEN 0 ELSE liveItemCount
  BY <1>1, <1>5, FS_EmptySet
<1>18. Cardinality(LiveIds(items)) = count
  BY <1>13, <1>14, <1>16, <1>17, Census
<1>19. Applied(o) = [items |-> items, order |-> order, count |-> count, trim |-> trim]
  BY DEF Applied, items, base, order
<1> HIDE DEF count, trim
<1> QED
  BY <1>3, <1>6, <1>8, <1>12, <1>18, <1>19

-----------------------------------------------------------------------------
(* Making room *)

Trimmed(st) ==
    [id \in DOMAIN st.items |-> IF id \in OverflowIds(st) THEN Tombstone(st.items[id])
                                ELSE st.items[id]]

\* The scan ends within the paint order: where enough was found or at its end.
LEMMA TrimEnds ==
    ASSUME NEW st, Listed(st.order, st.items), Passed(st.order, st.items, st.trim)
    PROVE  /\ TrimEnd(st) \in st.trim .. Len(st.order)
           /\ \/ st.count - Cardinality(Overflow(st)) <= MaxItemCount
              \/ TrimEnd(st) = Len(st.order)
           /\ Len(st.order) \in Nat /\ st.trim \in Nat
<1> DEFINE n == Len(st.order)
           S == {j \in st.trim .. n :
                    \/ st.count - Cardinality(LiveBetween(st, j)) <= MaxItemCount
                    \/ j = n}
<1>1. n \in Nat /\ st.trim \in 0 .. n
  BY LenProperties DEF Listed, Passed
<1>2. n \in S /\ S \subseteq Nat
  BY <1>1
<1>3. PICK k \in S : \A j \in S : k <= j
  <2> HIDE DEF S
  <2> QED
    BY <1>2, LeastOf
<1>4. TrimEnd(st) = Min(S)
  BY DEF TrimEnd
<1>5. Min(S) \in S
  <2> HIDE DEF S
  <2> QED
    BY <1>3 DEF Min
<1>6. TrimEnd(st) \in S
  BY <1>4, <1>5
<1>7. Overflow(st) = LiveBetween(st, TrimEnd(st))
  BY DEF Overflow
<1>8. \/ st.count - Cardinality(LiveBetween(st, TrimEnd(st))) <= MaxItemCount
      \/ TrimEnd(st) = n
  BY <1>6
<1> QED
  BY <1>1, <1>6, <1>7, <1>8

\* The oldest items make room: the count stays exact and is within the limit, and
\* what the trim index has passed is erased (commitMutation).
LEMMA TrimFacts ==
    ASSUME NEW st, Listed(st.order, st.items), Passed(st.order, st.items, st.trim),
           st.count = Cardinality(LiveIds(st.items))
    PROVE  /\ Listed(st.order, Trimmed(st)) /\ Passed(st.order, Trimmed(st), TrimEnd(st))
           /\ st.count - Cardinality(Overflow(st)) = Cardinality(LiveIds(Trimmed(st)))
           /\ st.count - Cardinality(Overflow(st)) <= MaxItemCount
<1> DEFINE n == Len(st.order)
           order == st.order
           items == st.items
           end == TrimEnd(st)
           over == Overflow(st)
           ids == OverflowIds(st)
           new == Trimmed(st)
<1>1. /\ items \in Maps /\ order \in Seq(Ids) /\ ToSet(order) = DOMAIN items /\ IsInjective(order)
      /\ st.trim \in 0 .. n
      /\ \A i \in 1 .. st.trim : ~Live(items, order[i])
  BY DEF Listed, Passed
<1>2. n \in Nat /\ DOMAIN order = 1 .. n
  BY <1>1, LenProperties
<1>3. /\ end \in st.trim .. n
      /\ st.count - Cardinality(over) <= MaxItemCount \/ end = n
  BY TrimEnds
<1>4. over = {i \in st.trim + 1 .. end : Live(items, order[i])}
  BY DEF Overflow, LiveBetween
<1>5. over \subseteq DOMAIN order
  BY <1>1, <1>2, <1>3, <1>4
<1>6. ids = {order[i] : i \in over}
  BY DEF OverflowIds
<1>7. ids \subseteq LiveIds(items)
  BY <1>4, <1>6 DEF Live, LiveIds
<1>8. /\ IsFiniteSet(ids) /\ Cardinality(ids) = Cardinality(over)
      /\ Cardinality(over) \in Nat
  <2>1. \A i, j \in over : order[i] = order[j] => i = j
    BY <1>1, <1>5 DEF IsInjective
  <2>2. order \in Seq(Ids)
    BY <1>1
  <2> HIDE DEF over, ids, order
  <2>3. /\ IsFiniteSet({order[i] : i \in over})
        /\ Cardinality({order[i] : i \in over}) = Cardinality(over)
        /\ Cardinality(over) \in Nat
    <3>1. /\ order \in Seq(Ids) /\ over \subseteq DOMAIN order
          /\ \A i, j \in over : order[i] = order[j] => i = j
      BY <1>5, <2>1, <2>2
    <3> QED
      BY ONLY <3>1, Counted
  <2> QED
    BY <1>6, <2>3
<1>9. /\ new \in Maps /\ DOMAIN new = DOMAIN items
      /\ \A id \in DOMAIN items : new[id] = IF id \in ids THEN Tombstone(items[id]) ELSE items[id]
  <2>1. new = [id \in DOMAIN items |-> IF id \in ids THEN Tombstone(items[id]) ELSE items[id]]
    BY DEF Trimmed
  <2>2. \A id \in DOMAIN items : items[id] \in Item /\ Tombstone(items[id]) \in Item
    BY <1>1, MapFacts, Tombstones
  <2>3. DOMAIN items \in SUBSET Ids
    BY <1>1, MapFacts
  <2>4. new \in [DOMAIN items -> Item]
    BY <2>1, <2>2
  <2> HIDE DEF new, ids
  <2>5. new \in Maps
    BY <2>3, <2>4, IsMap
  <2> QED
    BY <2>1, <2>5
<1>10. Listed(order, new)
  BY <1>1, <1>9 DEF Listed
<1>11. LiveIds(new) = LiveIds(items) \ ids
  <2>1. \A id \in DOMAIN items : Tombstone(items[id]).deleted
    BY <1>1, MapFacts, Tombstones
  <2> HIDE DEF new, ids
  <2> QED
    BY <1>9, <2>1 DEF LiveIds
<1>12. IsFiniteSet(LiveIds(items))
  BY ListedFinite
<1>13. Cardinality(LiveIds(new)) = st.count - Cardinality(over)
  <2>1. LiveIds(items) \cap ids = ids
    BY <1>7
  <2>2. Cardinality(LiveIds(items) \ ids)
          = Cardinality(LiveIds(items)) - Cardinality(LiveIds(items) \cap ids)
    BY <1>12, FS_Difference
  <2> HIDE DEF over, ids, new
  <2> QED
    BY <1>8, <1>11, <2>1, <2>2
<1>14. \A i \in 1 .. end : ~Live(new, order[i])
  <2> SUFFICES ASSUME NEW i \in 1 .. end, Live(new, order[i])
               PROVE  FALSE
    OBVIOUS
  <2>1. i \in DOMAIN order /\ order[i] \in DOMAIN items
    BY <1>1, <1>2, <1>3 DEF ToSet
  <2>2. order[i] \in LiveIds(new)
    BY DEF Live, LiveIds
  <2>3. Live(items, order[i]) /\ order[i] \notin ids
    BY <1>11, <2>2 DEF LiveIds, Live
  <2>4. i \notin 1 .. st.trim
    BY <1>1, <2>3
  <2>5. i \in st.trim + 1 .. end
    BY <1>1, <1>3, <2>4
  <2> QED
    BY <1>4, <1>6, <2>3, <2>5
<1>15. Passed(order, new, end)
  <2>1. end \in 0 .. n
    BY <1>1, <1>2, <1>3
  <2> QED
    BY <1>14, <2>1 DEF Passed
<1>16. end = n => LiveIds(new) = {}
  <2> SUFFICES ASSUME end = n, NEW id \in LiveIds(new)
               PROVE  FALSE
    OBVIOUS
  <2>1. id \in DOMAIN items /\ Live(new, id)
    BY <1>9 DEF Live, LiveIds
  <2>2. PICK i \in 1 .. n : order[i] = id
    BY <1>1, <1>2, <2>1 DEF ToSet
  <2> QED
    BY <1>14, <2>1, <2>2
<1>17. st.count - Cardinality(over) <= MaxItemCount
  <2>1. CASE end = n
    <3>1. Cardinality(LiveIds(new)) = 0
      BY <1>16, <2>1, FS_EmptySet
    <3> QED
      BY <1>13, <3>1, Bounds
  <2> QED
    BY <1>3, <2>1
<1> QED
  BY <1>10, <1>13, <1>15, <1>17

-----------------------------------------------------------------------------
(* Turns that handle a message *)

\* An edit: the items of the index stay, or are replaced by dirty ones.
Edits ==
    /\ DOMAIN itemsById \subseteq DOMAIN itemsById'
    /\ \A id \in DOMAIN itemsById' :
          \/ id \in DOMAIN itemsById /\ itemsById'[id] = itemsById[id]
          \/ itemsById'[id].dirty /\ ~itemsById'[id].held
    /\ UNCHANGED <<persistedItemIds, file, save>>

\* An edit leaves the file and the snapshot of a running save in place.
LEMMA EditsKeep ==
    ASSUME IInv, Edits, itemsById' \in Maps
    PROVE  FileInv' /\ Stored(itemsById)' /\ SaveInv'
<1> USE DEF Edits
<1>1. FileInv'
  BY DEF IInv, FileInv
<1>2. Stored(itemsById)'
  BY DEF IInv, Stored
<1>3. SaveInv'
  <2> SUFFICES ASSUME save # NoSave
               PROVE  SaveInv'
    BY DEF SaveInv
  <2>1. /\ DOMAIN save = {"running", "items", "order", "unsaved"}
        /\ save.unsaved \in BOOLEAN
        /\ Listed(save.order, save.items) /\ Stored(save.items)
        /\ Cardinality(LiveIds(save.items)) <= MaxItemCount
        /\ HeldInv
    BY DEF IInv, SaveInv
  <2>2. Stored(save.items)'
    BY <2>1 DEF Stored
  <2>3. HeldInv'
    BY <2>1 DEF HeldInv
  <2> QED
    BY <2>1, <2>2, <2>3 DEF SaveInv
<1> QED
  BY <1>1, <1>2, <1>3

\* What is known of the messages of a turn
LEMMA Received ==
    ASSUME IInv, ~ReuseIds, NEW ms \in Seq(Messages), Receive(ms)
    PROVE  /\ itemsById \in Maps /\ persistedItemIds \subseteq Ids
           /\ \A k \in DOMAIN ms : ms[k] \in Messages /\ NamesFresh(ms[k])
           /\ edits' \in 0 .. MaxEdits
<1>1. itemsById \in Maps
  BY DEF IInv, IndexInv, Listed
<1>2. persistedItemIds \subseteq Ids
  BY <1>1, MapFacts DEF IInv, Stored
<1>3. \A k \in DOMAIN ms : ms[k] \in Messages
  BY ElementOfSeq, LenProperties
<1>4. \A k \in DOMAIN ms : NamesFresh(ms[k])
  BY DEF Receive, Sendable, NamesFresh, Target
<1>5. edits' \in 0 .. MaxEdits
  BY Bounds DEF Receive, IInv
<1> QED
  BY <1>1, <1>2, <1>3, <1>4, <1>5

\* Accepted mutations, with the removals that make room, keep the index consistent.
LEMMA AcceptStep ==
    ASSUME IInv, ~ReuseIds, NEW ms \in Seq(Messages), Accept(ms)
    PROVE  IInv'
<1> DEFINE o == OverlayOf(ms)
           st == Applied(o)
<1>1. /\ Receive(ms) /\ Commit(st, ms) /\ unsaved' = TRUE
  BY DEF Accept
<1>2. /\ itemsById \in Maps /\ persistedItemIds \subseteq Ids
      /\ \A k \in DOMAIN ms : ms[k] \in Messages /\ NamesFresh(ms[k])
      /\ edits' \in 0 .. MaxEdits
  BY <1>1, Received
<1>3. OverlayOk(o)
  BY <1>2, OverlayOfFacts
<1> HIDE DEF o
<1>4. /\ Listed(st.order, st.items) /\ Passed(st.order, st.items, st.trim)
      /\ st.count = Cardinality(LiveIds(st.items))
      /\ DOMAIN st.items = DOMAIN itemsById \cup DOMAIN o.items
      /\ \A id \in DOMAIN o.items : st.items[id] = o.items[id]
      /\ \A id \in DOMAIN itemsById \ DOMAIN o.items :
            st.items[id] = IF o.clear THEN Tombstone(itemsById[id]) ELSE itemsById[id]
  BY <1>3, AppliedFacts DEF IInv
<1> HIDE DEF st
<1>5. /\ itemsById' = Trimmed(st) /\ paintOrder' = st.order
      /\ liveItemCount' = st.count - Cardinality(Overflow(st))
      /\ trimPaintOrderIndex' = TrimEnd(st)
  BY <1>1 DEF Commit, Trimmed
<1>6. /\ Listed(paintOrder', itemsById') /\ Passed(paintOrder', itemsById', trimPaintOrderIndex')
      /\ liveItemCount' = Cardinality(LiveIds(itemsById'))
      /\ liveItemCount' <= MaxItemCount
  BY <1>4, <1>5, TrimFacts
<1>7. IndexInv'
  BY <1>6 DEF IndexInv
<1>8. DOMAIN itemsById' = DOMAIN st.items
      /\ \A id \in DOMAIN st.items :
            itemsById'[id] = IF id \in OverflowIds(st) THEN Tombstone(st.items[id]) ELSE st.items[id]
  BY <1>5 DEF Trimmed
<1>9. Edits
  <2>1. \A id \in DOMAIN st.items : st.items[id] \in Item
    BY <1>4, MapFacts DEF Listed
  <2>2. ASSUME NEW id \in DOMAIN itemsById'
        PROVE  \/ id \in DOMAIN itemsById /\ itemsById'[id] = itemsById[id]
               \/ itemsById'[id].dirty /\ ~itemsById'[id].held
    <3>1. CASE id \in OverflowIds(st)
      BY <1>8, <2>1, <2>2, <3>1, Tombstones
    <3>2. CASE id \notin OverflowIds(st) /\ id \in DOMAIN o.items
      BY <1>3, <1>4, <1>8, <2>2, <3>2 DEF OverlayOk
    <3>3. CASE id \notin OverflowIds(st) /\ id \notin DOMAIN o.items
      <4>1. id \in DOMAIN itemsById /\ itemsById[id] \in Item
        BY <1>2, <1>4, <1>8, <2>2, <3>3, MapFacts
      <4> QED
        BY <1>4, <1>8, <2>2, <3>3, <4>1, Tombstones
    <3> QED
      BY <3>1, <3>2, <3>3
  <2> QED
    BY <1>1, <1>4, <1>8, <2>2 DEF Edits, Receive
<1>10. itemsById' \in Maps
  BY <1>6 DEF Listed
<1> QED
  BY <1>1, <1>2, <1>7, <1>9, <1>10, EditsKeep DEF IInv

\* A refused message or batch leaves the index as it was.
LEMMA RefuseStep ==
    ASSUME IInv, ~ReuseIds, NEW ms \in Seq(Messages), Refuse(ms)
    PROVE  IInv'
<1>1. Receive(ms) /\ UNCHANGED <<index, unsaved>>
  BY DEF Refuse
<1>2. edits' \in 0 .. MaxEdits
  BY <1>1, Received
<1>3. Edits /\ itemsById' \in Maps
  BY <1>1 DEF Edits, Receive, index, IInv, IndexInv, Listed
<1>4. IndexInv'
  BY <1>1 DEF index, IInv, IndexInv
<1> QED
  BY <1>1, <1>2, <1>3, <1>4, EditsKeep DEF IInv

\* So does the removal of a shape that never got an extent.
LEMMA DropSeedStep ==
    ASSUME IInv, ~ReuseIds, NEW m \in Messages, DropSeed(m)
    PROVE  IInv'
<1>1. /\ Receive(<<m>>) /\ Live(itemsById, m.id) /\ unsaved' = TRUE
      /\ itemsById' = [itemsById EXCEPT ![m.id] = Tombstone(@)]
      /\ liveItemCount' = liveItemCount - 1
      /\ UNCHANGED <<paintOrder, trimPaintOrderIndex>>
  BY DEF DropSeed, DropsSeed
<1>2. edits' \in 0 .. MaxEdits
  <2>1. <<m>> \in Seq(Messages)
    OBVIOUS
  <2> QED
    BY <1>1, <2>1, Received
<1>3. /\ Listed(paintOrder, itemsById) /\ Passed(paintOrder, itemsById, trimPaintOrderIndex)
      /\ liveItemCount = Cardinality(LiveIds(itemsById)) /\ liveItemCount <= MaxItemCount
      /\ itemsById \in Maps
  BY DEF IInv, IndexInv, Listed
<1>4. /\ itemsById' \in Maps /\ DOMAIN itemsById' = DOMAIN itemsById
      /\ m.id \in DOMAIN itemsById
      /\ itemsById'[m.id] = Tombstone(itemsById[m.id])
      /\ \A id \in DOMAIN itemsById : id # m.id => itemsById'[id] = itemsById[id]
      /\ Tombstone(itemsById[m.id]).deleted /\ Tombstone(itemsById[m.id]).dirty
      /\ ~Tombstone(itemsById[m.id]).held
  <2>1. m.id \in DOMAIN itemsById /\ itemsById[m.id] \in Item
        /\ DOMAIN itemsById \in SUBSET Ids /\ itemsById \in [DOMAIN itemsById -> Item]
    BY <1>1, <1>3, MapFacts DEF Live
  <2>2. /\ Tombstone(itemsById[m.id]) \in Item /\ Tombstone(itemsById[m.id]).deleted
        /\ Tombstone(itemsById[m.id]).dirty /\ ~Tombstone(itemsById[m.id]).held
    BY <2>1, Tombstones
  <2>3. itemsById' \in [DOMAIN itemsById -> Item]
    BY <1>1, <2>1, <2>2
  <2>4. itemsById' \in Maps
    BY <2>1, <2>3, IsMap
  <2> QED
    BY <1>1, <2>1, <2>2, <2>4
<1>5. Edits
  BY <1>1, <1>4 DEF Edits, Receive
<1>6. LiveIds(itemsById') = LiveIds(itemsById) \ {m.id} /\ m.id \in LiveIds(itemsById)
  BY <1>1, <1>4 DEF LiveIds, Live
<1>7. Cardinality(LiveIds(itemsById')) = Cardinality(LiveIds(itemsById)) - 1
  <2>1. IsFiniteSet(LiveIds(itemsById))
    BY <1>3, ListedFinite
  <2> QED
    BY <1>6, <2>1, FS_RemoveElement
<1>8. Passed(paintOrder', itemsById', trimPaintOrderIndex')
  BY <1>1, <1>3, <1>4 DEF Passed, Live
<1>9. Cardinality(LiveIds(itemsById)) \in Nat
  BY <1>3, ListedFinite
<1>10. IndexInv'
  <2>1. Listed(paintOrder', itemsById')
    BY <1>1, <1>3, <1>4 DEF Listed
  <2>2. liveItemCount' <= MaxItemCount
    BY <1>1, <1>3, <1>9, Bounds
  <2> QED
    BY <1>1, <1>3, <1>7, <1>8, <2>1, <2>2 DEF IndexInv
<1> QED
  BY <1>1, <1>2, <1>4, <1>5, <1>10, EditsKeep DEF IInv

-----------------------------------------------------------------------------
(* What a save writes *)

\* A list whose elements are in another set
LEMMA Retyped ==
    ASSUME NEW S, NEW T, NEW s \in Seq(S), \A i \in DOMAIN s : s[i] \in T
    PROVE  s \in Seq(T)
<1>1. PICK n \in Nat : s \in [1 .. n -> S]
  BY SeqDef
<1>2. s \in [1 .. n -> T]
  BY <1>1
<1> QED
  BY <1>2, SeqDef

\* One list after another
LEMMA Joined ==
    ASSUME NEW S, NEW s \in Seq(S), NEW t \in Seq(S)
    PROVE  /\ s \o t \in Seq(S)
           /\ \E n \in Nat :
                 /\ DOMAIN s = 1 .. n
                 /\ \A k \in DOMAIN (s \o t) :
                       \/ k \in DOMAIN s /\ (s \o t)[k] = s[k]
                       \/ k \notin DOMAIN s /\ k - n \in DOMAIN t /\ (s \o t)[k] = t[k - n]
                 /\ \A k \in DOMAIN (s \o t) : k \in Nat
           /\ \A k \in DOMAIN s : \E i \in DOMAIN (s \o t) : (s \o t)[i] = s[k]
           /\ \A k \in DOMAIN t : \E i \in DOMAIN (s \o t) : (s \o t)[i] = t[k]
<1>1. PICK n \in Nat : n = Len(s) /\ DOMAIN s = 1 .. n
  BY LenProperties
<1>2. PICK l \in Nat : l = Len(t) /\ DOMAIN t = 1 .. l
  BY LenProperties
<1> DEFINE u == s \o t
<1>3. u \in Seq(S) /\ Len(u) = n + l
      /\ \A k \in 1 .. n + l : u[k] = IF k <= n THEN s[k] ELSE t[k - n]
  BY <1>1, <1>2, ConcatProperties
<1>4. DOMAIN u = 1 .. n + l
  BY <1>3, LenProperties
<1>5. \A k \in 1 .. n + l :
         /\ k \in Nat
         /\ \/ k <= n /\ k \in 1 .. n
            \/ ~(k <= n) /\ k \notin 1 .. n /\ k - n \in 1 .. l
  OBVIOUS
<1> HIDE DEF u
<1>6. \A k \in DOMAIN u :
         \/ k \in DOMAIN s /\ u[k] = s[k]
         \/ k \notin DOMAIN s /\ k - n \in DOMAIN t /\ u[k] = t[k - n]
  BY <1>1, <1>2, <1>3, <1>4, <1>5
<1>7. \A k \in DOMAIN u : k \in Nat
  BY <1>4, <1>5
<1>8. \A k \in 1 .. n : k \in 1 .. n + l /\ k <= n
  OBVIOUS
<1>9. \A k \in 1 .. n : u[k] = s[k]
  BY <1>3, <1>8
<1>10. \A k \in 1 .. l : n + k \in 1 .. n + l /\ ~(n + k <= n) /\ n + k - n = k
  OBVIOUS
<1>11. \A k \in 1 .. l : u[n + k] = t[k]
  <2> SUFFICES ASSUME NEW k \in 1 .. l PROVE u[n + k] = t[k]
    OBVIOUS
  <2>1. n + k \in 1 .. n + l /\ ~(n + k <= n) /\ n + k - n = k
    BY <1>10
  <2> QED
    BY <1>3, <2>1
<1>12. \A k \in DOMAIN s : \E i \in DOMAIN u : u[i] = s[k]
  BY <1>1, <1>4, <1>8, <1>9
<1>13. \A k \in DOMAIN t : \E i \in DOMAIN u : u[i] = t[k]
  BY <1>2, <1>4, <1>10, <1>11
<1> QED
  BY <1>1, <1>3, <1>6, <1>7, <1>12, <1>13 DEF u

\* The stored content an item continues is what some entry of its kind holds.
LEMMA SourceFacts ==
    ASSUME NEW items, NEW id, NEW storedIds, NEW f, NEW b \in Source(items, id, storedIds, f)
    PROVE  LET of == IF id \in storedIds THEN id ELSE items[id].copySource
           IN  /\ of \in DOMAIN items /\ items[of].kind = items[id].kind
               /\ \E i \in DOMAIN f : f[i].id = of /\ f[i].kind = items[id].kind /\ b = f[i].body
BY DEF Source

\* What a rewrite gives an item: a body of its kind, or no tag, or the error of a
\* stroke whose stored points are missing (bodyForStorage).
LEMMA BodyFacts ==
    ASSUME NEW items \in Maps, NEW id \in DOMAIN items, NEW storedIds,
           NEW f, \A i \in DOMAIN f : EntryOk(f[i]),
           NEW body, body = bodyForStorage(items, id, storedIds, f)
    PROVE  \/ EntryOk(serializeCanonicalItemForStorage(items, id, storedIds, f))
           \/ body = NothingToWrite
           \/ /\ body = Unwritable
              /\ items[id].kind = "children"
              /\ id \in storedIds \/ items[id].copySource # NoId
              /\ Source(items, id, storedIds, f) = {}
<1> DEFINE item == items[id]
           source == Source(items, id, storedIds, f)
           entry == serializeCanonicalItemForStorage(items, id, storedIds, f)
<1>1. item \in Item /\ id \in Ids
  BY MapFacts
<1>2. item.kind \in {"inline", "text", "children"} /\ item.look \in Looks /\ item.kind \in Kinds
  BY <1>1, ItemFacts DEF Kinds
<1>3. entry = [id |-> id, kind |-> item.kind, look |-> item.look, body |-> body]
  BY DEF serializeCanonicalItemForStorage
<1>4. ASSUME body \in Bodies,
             item.kind = "text" => \E n \in 0 .. MaxText : body = <<n>>,
             item.kind = "children" => body \in Seq(Points)
      PROVE  EntryOk(entry)
  BY <1>1, <1>2, <1>3, <1>4 DEF EntryOk, Entries
<1>5. \A p \in Seq(Points) : p \in Bodies
  BY DEF Bodies
<1>6. \A n \in 0 .. MaxText : <<n>> \in Bodies
  BY DEF Bodies
<1>7. \A b \in source : /\ item.kind = "text" => \E n \in 0 .. MaxText : b = <<n>>
                        /\ item.kind = "children" => b \in Seq(Points)
  <2> SUFFICES ASSUME NEW b \in source
               PROVE  /\ item.kind = "text" => \E n \in 0 .. MaxText : b = <<n>>
                      /\ item.kind = "children" => b \in Seq(Points)
    OBVIOUS
  <2>1. PICK i \in DOMAIN f : f[i].kind = item.kind /\ b = f[i].body
    BY SourceFacts
  <2> QED
    BY <2>1 DEF EntryOk
<1> HIDE DEF entry, source
<1>8. CASE item.kind = "inline"
  <2>1. body = << >>
    BY <1>8 DEF bodyForStorage
  <2>2. << >> \in Bodies
    BY DEF Bodies
  <2> QED
    BY <1>4, <1>8, <2>1, <2>2 DEF entry
<1>9. CASE item.kind = "text"
  <2>1. body = IF KnownText(item) # NoText THEN <<KnownText(item)>>
               ELSE IF source # {} THEN CHOOSE b \in source : TRUE ELSE <<0>>
    BY <1>9 DEF bodyForStorage, source
  <2>2. \E n \in 0 .. MaxText : body = <<n>>
    <3>1. CASE KnownText(item) # NoText
      <4>1. KnownText(item) \in 0 .. NoText
        BY <1>1, ItemFacts DEF KnownText
      <4>2. KnownText(item) \in 0 .. MaxText
        BY <3>1, <4>1, Bounds
      <4> QED
        BY <2>1, <3>1, <4>2
    <3>2. CASE KnownText(item) = NoText /\ source # {}
      <4>1. body \in source
        BY <2>1, <3>2
      <4> QED
        BY <1>7, <1>9, <4>1
    <3>3. CASE KnownText(item) = NoText /\ source = {}
      <4>1. body = <<0>> /\ 0 \in 0 .. MaxText
        BY <2>1, <3>3, Bounds
      <4> QED
        BY <4>1
    <3> QED
      BY <3>1, <3>2, <3>3
  <2> QED
    BY <1>4, <1>6, <1>9, <2>2 DEF entry
<1>10. CASE item.kind = "children" /\ (id \in storedIds \/ item.copySource # NoId)
  <2>1. body = IF source = {} THEN Unwritable
               ELSE (CHOOSE b \in source : TRUE) \o item.appendedChildren
    BY <1>10 DEF bodyForStorage, source
  <2>2. CASE source = {}
    BY <1>10, <2>1, <2>2 DEF source
  <2>3. CASE source # {}
    <3>1. PICK b \in source : body = b \o item.appendedChildren
      BY <2>1, <2>3
    <3>2. b \in Seq(Points) /\ item.appendedChildren \in Seq(Points)
      BY <1>1, <1>7, <1>10, ItemFacts
    <3>3. body \in Seq(Points)
      BY <3>1, <3>2, Joined
    <3> QED
      BY <1>4, <1>5, <1>10, <3>3 DEF entry
  <2> QED
    BY <2>2, <2>3
<1>11. CASE item.kind = "children" /\ ~(id \in storedIds \/ item.copySource # NoId)
  <2>1. body = IF item.persistedChildCount = 0 /\ item.appendedChildren # << >>
               THEN item.appendedChildren ELSE NothingToWrite
    BY <1>11 DEF bodyForStorage
  <2>2. CASE item.persistedChildCount = 0 /\ item.appendedChildren # << >>
    <3>1. body \in Seq(Points)
      BY <1>1, <2>1, <2>2, ItemFacts
    <3> QED
      BY <1>4, <1>5, <1>11, <3>1 DEF entry
  <2> QED
    BY <2>1, <2>2
<1> QED
  BY <1>2, <1>8, <1>9, <1>10, <1>11

\* The entries of the new file: each stands for another live item; of a dirty one it
\* is what is serialized, of a clean one what the old file holds.
EntriesOf(content, items, storedIds, f) ==
    /\ \A i, j \in DOMAIN content : content[i].id = content[j].id => i = j
    /\ \A i \in DOMAIN content :
          LET id == content[i].id
          IN  /\ id \in LiveIds(items) /\ content[i].body # NothingToWrite
              /\ IF items[id].dirty
                 THEN content[i] = serializeCanonicalItemForStorage(items, id, storedIds, f)
                 ELSE \E k \in DOMAIN f : content[i] = f[k]
    /\ \A id \in LiveIds(items) :
          \/ id \in IdsOf(content)
          \/ items[id].dirty /\ bodyForStorage(items, id, storedIds, f) = NothingToWrite

\* What rewriteStoredSvgFromCanonical writes.
LEMMA WrittenFacts ==
    ASSUME NEW items, NEW order, Listed(order, items), NEW storedIds, NEW f, FileOk(f),
           storedIds = IdsOf(f),
           \A id \in DOMAIN items : ~items[id].dirty => id \in storedIds /\ ~items[id].deleted
    PROVE  /\ \E S : Written(items, order, storedIds, f) \in Seq(S)
           /\ EntriesOf(Written(items, order, storedIds, f), items, storedIds, f)
<1> DEFINE Ser(id) == serializeCanonicalItemForStorage(items, id, storedIds, f)
           I == {i \in DOMAIN f : Live(items, f[i].id) /\ f[i].id \in storedIds}
           J == {i \in DOMAIN order : Live(items, order[i]) /\ order[i] \notin storedIds}
           old == Old(items, storedIds, f)
           new == New(items, order, storedIds)
           u == [i \in DOMAIN old |-> IF items[old[i].id].dirty THEN Ser(old[i].id) ELSE old[i]]
           v == [i \in DOMAIN new |-> Ser(new[i])]
           entries == u \o v
           K == {i \in DOMAIN entries : entries[i].body # NothingToWrite}
           content == Written(items, order, storedIds, f)
<1>1. /\ items \in Maps /\ order \in Seq(Ids) /\ ToSet(order) = DOMAIN items /\ IsInjective(order)
      /\ f \in Seq(Entries) /\ \A i \in DOMAIN f : EntryOk(f[i])
      /\ \A i, j \in DOMAIN f : f[i].id = f[j].id => i = j
  BY DEF Listed, FileOk
<1>2. \A id : Ser(id).id = id /\ Ser(id).body = bodyForStorage(items, id, storedIds, f)
  BY DEF serializeCanonicalItemForStorage
<1>3. /\ old \in Seq(Entries)
      /\ \A k \in DOMAIN old : Live(items, old[k].id) /\ old[k].id \in storedIds
                               /\ \E i \in DOMAIN f : old[k] = f[i]
      /\ \A j, k \in DOMAIN old : old[j].id = old[k].id => j = k
      /\ \A i \in I : \E k \in DOMAIN old : old[k] = f[i]
  <2>1. old = Part(f, I) /\ I \subseteq DOMAIN f
    BY DEF Old
  <2> HIDE DEF I
  <2>2. PICK g \in [DOMAIN Part(f, I) -> I] :
           /\ \A j, k \in DOMAIN Part(f, I) : g[j] = g[k] => j = k
           /\ \A i \in I : \E k \in DOMAIN Part(f, I) : g[k] = i
           /\ \A k \in DOMAIN Part(f, I) : Part(f, I)[k] = f[g[k]]
    <3>1. f \in Seq(Entries)
      BY <1>1
    <3>2. \E g \in [DOMAIN Part(f, I) -> I] :
             /\ \A j, k \in DOMAIN Part(f, I) : g[j] = g[k] => j = k
             /\ \A i \in I : \E k \in DOMAIN Part(f, I) : g[k] = i
             /\ \A k \in DOMAIN Part(f, I) : Part(f, I)[k] = f[g[k]]
      BY <2>1, <3>1, PartFacts
    <3> QED
      BY <3>2
  <2>3. old \in Seq(Entries)
    BY <1>1, <2>1, PartFacts
  <2> HIDE DEF old
  <2>4. \A k \in DOMAIN old : g[k] \in I /\ old[k] = f[g[k]]
    BY <2>1, <2>2
  <2>5. \A i \in I : i \in DOMAIN f /\ Live(items, f[i].id) /\ f[i].id \in storedIds
    BY DEF I
  <2> QED
    BY <1>1, <2>1, <2>2, <2>3, <2>4, <2>5
<1>4. /\ new \in Seq(Ids)
      /\ \A k \in DOMAIN new : Live(items, new[k]) /\ new[k] \notin storedIds
      /\ \A j, k \in DOMAIN new : new[j] = new[k] => j = k
      /\ \A i \in J : \E k \in DOMAIN new : new[k] = order[i]
  <2>1. new = Part(order, J) /\ J \subseteq DOMAIN order
    BY DEF New
  <2> HIDE DEF J
  <2>2. PICK g \in [DOMAIN Part(order, J) -> J] :
           /\ \A j, k \in DOMAIN Part(order, J) : g[j] = g[k] => j = k
           /\ \A i \in J : \E k \in DOMAIN Part(order, J) : g[k] = i
           /\ \A k \in DOMAIN Part(order, J) : Part(order, J)[k] = order[g[k]]
    <3>1. order \in Seq(Ids)
      BY <1>1
    <3>2. \E g \in [DOMAIN Part(order, J) -> J] :
             /\ \A j, k \in DOMAIN Part(order, J) : g[j] = g[k] => j = k
             /\ \A i \in J : \E k \in DOMAIN Part(order, J) : g[k] = i
             /\ \A k \in DOMAIN Part(order, J) : Part(order, J)[k] = order[g[k]]
      BY <2>1, <3>1, PartFacts
    <3> QED
      BY <3>2
  <2>3. new \in Seq(Ids)
    BY <1>1, <2>1, PartFacts
  <2> HIDE DEF new
  <2>4. \A k \in DOMAIN new : g[k] \in J /\ new[k] = order[g[k]]
    BY <2>1, <2>2
  <2>5. \A i \in J : i \in DOMAIN order /\ Live(items, order[i]) /\ order[i] \notin storedIds
    BY DEF J
  <2>6. \A i, j \in DOMAIN order : order[i] = order[j] => i = j
    BY <1>1 DEF IsInjective
  <2> QED
    BY <2>1, <2>2, <2>3, <2>4, <2>5, <2>6
<1> HIDE DEF old, new
<1> DEFINE S == {u[i] : i \in DOMAIN u} \cup {v[i] : i \in DOMAIN v}
<1>5. u \in Seq(S) /\ v \in Seq(S) /\ DOMAIN u = DOMAIN old /\ DOMAIN v = DOMAIN new
  <2>1. PICK n \in Nat : DOMAIN old = 1 .. n
    BY <1>3, LenProperties
  <2>2. PICK l \in Nat : DOMAIN new = 1 .. l
    BY <1>4, LenProperties
  <2>3. DOMAIN u = 1 .. n /\ DOMAIN v = 1 .. l
    BY <2>1, <2>2
  <2>4. u = [i \in 1 .. n |-> u[i]] /\ v = [i \in 1 .. l |-> v[i]]
    BY <2>1, <2>2
  <2> HIDE DEF u, v
  <2>5. u \in [1 .. n -> S] /\ v \in [1 .. l -> S]
    BY <2>3, <2>4
  <2> HIDE DEF S
  <2> QED
    BY <2>1, <2>2, <2>3, <2>5, SeqDef
<1>6. \A k \in DOMAIN old :
         /\ u[k].id = old[k].id
         /\ u[k] = IF items[old[k].id].dirty THEN Ser(old[k].id) ELSE old[k]
  <2> HIDE DEF Ser
  <2> QED
    BY <1>2
<1>7. \A k \in DOMAIN new : v[k].id = new[k] /\ v[k] = Ser(new[k])
  <2> HIDE DEF Ser
  <2> QED
    BY <1>2
<1> HIDE DEF u, v
<1>8. /\ entries \in Seq(S)
      /\ \E n \in Nat :
            /\ DOMAIN u = 1 .. n
            /\ \A k \in DOMAIN entries :
                  \/ k \in DOMAIN u /\ entries[k] = u[k]
                  \/ k \notin DOMAIN u /\ k - n \in DOMAIN v /\ entries[k] = v[k - n]
            /\ \A k \in DOMAIN entries : k \in Nat
      /\ \A k \in DOMAIN u : \E i \in DOMAIN entries : entries[i] = u[k]
      /\ \A k \in DOMAIN v : \E i \in DOMAIN entries : entries[i] = v[k]
  <2> HIDE DEF S
  <2> QED
    BY <1>5, Joined
<1>9. PICK n \in Nat :
         /\ DOMAIN u = 1 .. n
         /\ \A k \in DOMAIN entries :
               \/ k \in DOMAIN u /\ entries[k] = u[k]
               \/ k \notin DOMAIN u /\ k - n \in DOMAIN v /\ entries[k] = v[k - n]
         /\ \A k \in DOMAIN entries : k \in Nat
  BY <1>8
<1> HIDE DEF entries, S, Ser
<1>10. \A i, j \in DOMAIN entries : entries[i].id = entries[j].id => i = j
  <2> SUFFICES ASSUME NEW i \in DOMAIN entries, NEW j \in DOMAIN entries,
                      entries[i].id = entries[j].id
               PROVE  i = j
    OBVIOUS
  <2>1. CASE i \in DOMAIN u /\ j \in DOMAIN u
    BY <1>3, <1>5, <1>6, <1>9, <2>1
  <2>2. CASE i \notin DOMAIN u /\ j \notin DOMAIN u
    <3>1. /\ i - n \in DOMAIN v /\ entries[i] = v[i - n]
          /\ j - n \in DOMAIN v /\ entries[j] = v[j - n]
          /\ i \in Nat /\ j \in Nat
      BY <1>9, <2>2
    <3>2. i - n = j - n
      BY <1>4, <1>5, <1>7, <3>1
    <3> QED
      BY <1>9, <3>1, <3>2
  <2>3. CASE i \in DOMAIN u /\ j \notin DOMAIN u
    <3>1. entries[i] = u[i] /\ j - n \in DOMAIN v /\ entries[j] = v[j - n]
      BY <1>9, <2>3
    <3> QED
      BY <1>3, <1>4, <1>5, <1>6, <1>7, <2>3, <3>1
  <2>4. CASE i \notin DOMAIN u /\ j \in DOMAIN u
    <3>1. entries[j] = u[j] /\ i - n \in DOMAIN v /\ entries[i] = v[i - n]
      BY <1>9, <2>4
    <3> QED
      BY <1>3, <1>4, <1>5, <1>6, <1>7, <2>4, <3>1
  <2> QED
    BY <2>1, <2>2, <2>3, <2>4
<1>11. \A i \in DOMAIN entries :
          /\ entries[i].id \in LiveIds(items)
          /\ IF items[entries[i].id].dirty THEN entries[i] = Ser(entries[i].id)
             ELSE \E k \in DOMAIN f : entries[i] = f[k]
  <2> SUFFICES ASSUME NEW i \in DOMAIN entries
               PROVE  /\ entries[i].id \in LiveIds(items)
                      /\ IF items[entries[i].id].dirty THEN entries[i] = Ser(entries[i].id)
                         ELSE \E k \in DOMAIN f : entries[i] = f[k]
    OBVIOUS
  <2>1. CASE i \in DOMAIN u
    <3>1. entries[i] = u[i] /\ i \in DOMAIN old
      BY <1>5, <1>9, <2>1
    <3>2. Live(items, old[i].id) /\ \E k \in DOMAIN f : old[i] = f[k]
      BY <1>3, <3>1
    <3> QED
      BY <1>6, <3>1, <3>2 DEF Live, LiveIds
  <2>2. CASE i \notin DOMAIN u
    <3>1. entries[i] = v[i - n] /\ i - n \in DOMAIN new
      BY <1>5, <1>9, <2>2
    <3>2. Live(items, new[i - n]) /\ new[i - n] \notin storedIds
      BY <1>4, <3>1
    <3>3. entries[i].id = new[i - n] /\ entries[i] = Ser(new[i - n])
      BY <1>7, <3>1
    <3>4. items[new[i - n]].dirty
      BY <3>2 DEF Live
    <3> QED
      BY <3>2, <3>3, <3>4 DEF Live, LiveIds
  <2> QED
    BY <2>1, <2>2
<1>12. \A id \in LiveIds(items) : \E i \in DOMAIN entries : entries[i].id = id
  <2> SUFFICES ASSUME NEW id \in LiveIds(items)
               PROVE  \E i \in DOMAIN entries : entries[i].id = id
    OBVIOUS
  <2>1. Live(items, id) /\ id \in DOMAIN items
    BY DEF Live, LiveIds
  <2>2. CASE id \in storedIds
    <3>1. PICK i \in DOMAIN f : f[i].id = id
      BY <2>2 DEF IdsOf
    <3>2. i \in I
      BY <2>1, <2>2, <3>1
    <3>3. PICK k \in DOMAIN old : old[k] = f[i]
      BY <1>3, <3>2
    <3>4. PICK j \in DOMAIN entries : entries[j] = u[k]
      BY <1>5, <1>8, <3>3
    <3> QED
      BY <1>6, <3>1, <3>3, <3>4
  <2>3. CASE id \notin storedIds
    <3>1. PICK i \in DOMAIN order : order[i] = id
      BY <1>1, <2>1 DEF ToSet
    <3>2. i \in J
      BY <2>1, <2>3, <3>1
    <3>3. PICK k \in DOMAIN new : new[k] = id
      BY <1>4, <3>1, <3>2
    <3>4. PICK j \in DOMAIN entries : entries[j] = v[k]
      BY <1>5, <1>8, <3>3
    <3> QED
      BY <1>7, <3>3, <3>4
  <2> QED
    BY <2>2, <2>3
<1>13. content = Part(entries, K) /\ K \subseteq DOMAIN entries
  BY DEF Written, entries, u, v, Ser, old, new
<1>14. /\ content \in Seq(S)
       /\ \E g \in [DOMAIN content -> K] :
             /\ \A j, k \in DOMAIN content : g[j] = g[k] => j = k
             /\ \A i \in K : \E k \in DOMAIN content : g[k] = i
             /\ \A k \in DOMAIN content : content[k] = entries[g[k]]
  <2> HIDE DEF K, content
  <2>1. /\ Part(entries, K) \in Seq(S)
        /\ \E g \in [DOMAIN Part(entries, K) -> K] :
             /\ \A j, k \in DOMAIN Part(entries, K) : g[j] = g[k] => j = k
             /\ \A i \in K : \E k \in DOMAIN Part(entries, K) : g[k] = i
             /\ \A k \in DOMAIN Part(entries, K) : Part(entries, K)[k] = entries[g[k]]
    BY <1>8, <1>13, PartFacts
  <2> QED
    BY <1>13, <2>1
<1>15. PICK g \in [DOMAIN content -> K] :
          /\ \A j, k \in DOMAIN content : g[j] = g[k] => j = k
          /\ \A i \in K : \E k \in DOMAIN content : g[k] = i
          /\ \A k \in DOMAIN content : content[k] = entries[g[k]]
  BY <1>14
<1> HIDE DEF content
<1>16. \A i \in DOMAIN content :
          g[i] \in DOMAIN entries /\ content[i] = entries[g[i]] /\ content[i].body # NothingToWrite
  BY <1>15
<1>17. \A i, j \in DOMAIN content : content[i].id = content[j].id => i = j
  BY <1>10, <1>15, <1>16
<1>18. \A i \in DOMAIN content :
          /\ content[i].id \in LiveIds(items) /\ content[i].body # NothingToWrite
          /\ IF items[content[i].id].dirty
             THEN content[i] = serializeCanonicalItemForStorage(items, content[i].id, storedIds, f)
             ELSE \E k \in DOMAIN f : content[i] = f[k]
  BY <1>11, <1>16 DEF Ser
<1>19. \A id \in LiveIds(items) :
          \/ id \in IdsOf(content)
          \/ items[id].dirty /\ bodyForStorage(items, id, storedIds, f) = NothingToWrite
  <2> SUFFICES ASSUME NEW id \in LiveIds(items), id \notin IdsOf(content)
               PROVE  items[id].dirty /\ bodyForStorage(items, id, storedIds, f) = NothingToWrite
    OBVIOUS
  <2>1. PICK i \in DOMAIN entries : entries[i].id = id
    BY <1>12
  <2>2. i \notin K
    <3> SUFFICES ASSUME i \in K PROVE FALSE
      OBVIOUS
    <3>1. PICK k \in DOMAIN content : content[k] = entries[i]
      BY <1>15
    <3> QED
      BY <2>1, <3>1 DEF IdsOf
  <2>3. entries[i].body = NothingToWrite
    BY <2>2
  <2>4. items[id].dirty
    <3> SUFFICES ASSUME ~items[id].dirty PROVE FALSE
      OBVIOUS
    <3>1. PICK k \in DOMAIN f : entries[i] = f[k]
      BY <1>11, <2>1
    <3>2. f[k].body \in Bodies
      BY <1>1 DEF EntryOk, Entries
    <3> QED
      BY <2>3, <3>1, <3>2, Bounds
  <2>5. entries[i] = Ser(id)
    BY <1>11, <2>1, <2>4
  <2> QED
    BY <1>2, <2>3, <2>4, <2>5
<1>20. EntriesOf(content, items, storedIds, f)
  BY <1>17, <1>18, <1>19 DEF EntriesOf
<1> QED
  BY <1>14, <1>20 DEF content


-----------------------------------------------------------------------------
(* A save begins, ends or fails *)

\* The items, with the mark that the running save holds them set or cleared
Marked(items, mark) == [id \in DOMAIN items |-> [items[id] EXCEPT !.held = mark]]

\* The mark changes nothing else.
LEMMA MarkedFacts ==
    ASSUME NEW items \in Maps, NEW mark \in BOOLEAN
    PROVE  /\ Marked(items, mark) \in Maps
           /\ DOMAIN Marked(items, mark) = DOMAIN items
           /\ \A id \in DOMAIN items :
                 LET new == Marked(items, mark)[id]
                 IN  /\ new.held = mark /\ new.deleted = items[id].deleted
                     /\ new.dirty = items[id].dirty /\ new.kind = items[id].kind
           /\ LiveIds(Marked(items, mark)) = LiveIds(items)
<1> DEFINE new == Marked(items, mark)
<1>1. DOMAIN items \in SUBSET Ids /\ \A id \in DOMAIN items : items[id] \in Item
  BY MapFacts
<1>2. DOMAIN new = DOMAIN items
      /\ \A id \in DOMAIN items : new[id] = [items[id] EXCEPT !.held = mark]
  BY DEF Marked
<1>3. ASSUME NEW item \in Item
      PROVE  LET marked == [item EXCEPT !.held = mark]
             IN  /\ marked \in Item /\ marked.held = mark /\ marked.deleted = item.deleted
                 /\ marked.dirty = item.dirty /\ marked.kind = item.kind
  BY DEF Item
<1>4. new = [id \in DOMAIN items |-> new[id]]
  BY DEF Marked
<1> HIDE DEF new
<1>5. \A id \in DOMAIN items :
         /\ new[id] \in Item /\ new[id].held = mark /\ new[id].deleted = items[id].deleted
         /\ new[id].dirty = items[id].dirty /\ new[id].kind = items[id].kind
  <2> SUFFICES ASSUME NEW id \in DOMAIN items
               PROVE  /\ new[id] \in Item /\ new[id].held = mark
                      /\ new[id].deleted = items[id].deleted
                      /\ new[id].dirty = items[id].dirty /\ new[id].kind = items[id].kind
    OBVIOUS
  <2>1. items[id] \in Item /\ new[id] = [items[id] EXCEPT !.held = mark]
    BY <1>1, <1>2
  <2> DEFINE item == items[id]
  <2>2. LET marked == [item EXCEPT !.held = mark]
        IN  /\ marked \in Item /\ marked.held = mark /\ marked.deleted = item.deleted
            /\ marked.dirty = item.dirty /\ marked.kind = item.kind
    BY <1>3, <2>1
  <2> QED
    BY <2>1, <2>2
<1>6. new \in [DOMAIN items -> Item]
  BY <1>4, <1>5
<1>7. new \in Maps
  BY <1>1, <1>6, IsMap
<1>8. LiveIds(new) = LiveIds(items)
  BY <1>2, <1>5 DEF LiveIds
<1> QED
  BY <1>2, <1>5, <1>7, <1>8 DEF new

\* The index stays consistent when its items are replaced by as live ones.
LEMMA IndexKept ==
    ASSUME IndexInv, itemsById' \in Maps, DOMAIN itemsById' = DOMAIN itemsById,
           \A id \in DOMAIN itemsById : itemsById'[id].deleted = itemsById[id].deleted,
           UNCHANGED <<paintOrder, liveItemCount, trimPaintOrderIndex>>
    PROVE  IndexInv'
<1>1. LiveIds(itemsById') = LiveIds(itemsById)
  BY DEF LiveIds
<1>2. Listed(paintOrder', itemsById')
  BY DEF IndexInv, Listed
<1>3. Passed(paintOrder', itemsById', trimPaintOrderIndex')
  BY DEF IndexInv, Passed, Live
<1> QED
  BY <1>1, <1>2, <1>3 DEF IndexInv

\* A save takes the index as it is: clean() finds nothing to drop, as every turn leaves
\* at most MAX_ITEM_COUNT items.
LEMMA StartSaveStep ==
    ASSUME IInv, StartSave
    PROVE  IInv'
<1> DEFINE st == [items |-> itemsById, order |-> paintOrder,
                  count |-> liveItemCount, trim |-> trimPaintOrderIndex]
           held == Marked(itemsById, TRUE)
<1>1. Cleaned = st
  BY DEF Cleaned, IInv, IndexInv
<1>2. /\ save = NoSave
      /\ itemsById' = held
      /\ UNCHANGED <<paintOrder, liveItemCount, trimPaintOrderIndex>>
      /\ save' = [running |-> TRUE, items |-> held, order |-> paintOrder, unsaved |-> unsaved]
      /\ unsaved' = FALSE
      /\ UNCHANGED <<persistedItemIds, file, edits>>
  BY <1>1 DEF StartSave, Marked
<1>3. itemsById \in Maps
  BY DEF IInv, IndexInv, Listed
<1>4. /\ held \in Maps /\ DOMAIN held = DOMAIN itemsById
      /\ \A id \in DOMAIN itemsById :
            /\ held[id].held /\ held[id].deleted = itemsById[id].deleted
            /\ held[id].dirty = itemsById[id].dirty
      /\ LiveIds(held) = LiveIds(itemsById)
  BY <1>3, MarkedFacts
<1> HIDE DEF held, st
<1>5. IndexInv'
  BY <1>2, <1>4, IndexKept DEF IInv
<1>6. FileInv'
  BY <1>2 DEF IInv, FileInv
<1>7. Stored(itemsById)'
  BY <1>2, <1>4 DEF IInv, Stored
<1>8. /\ DOMAIN save' = {"running", "items", "order", "unsaved"}
      /\ save'.items = held /\ save'.order = paintOrder /\ save'.unsaved = unsaved
  BY <1>2
<1>9. SaveInv'
  <2>1. Listed(save.order, save.items)'
    BY <1>2, <1>5, <1>8 DEF IndexInv
  <2>2. Stored(save.items)'
    BY <1>2, <1>7, <1>8 DEF Stored
  <2>3. (Cardinality(LiveIds(save.items)) <= MaxItemCount)'
    BY <1>4, <1>8 DEF IInv, IndexInv
  <2>4. HeldInv'
    BY <1>2, <1>4, <1>8 DEF HeldInv
  <2>5. save'.unsaved \in BOOLEAN
    BY <1>8 DEF IInv
  <2> QED
    BY <1>8, <2>1, <2>2, <2>3, <2>4, <2>5 DEF SaveInv
<1> QED
  BY <1>2, <1>5, <1>6, <1>7, <1>9 DEF IInv

\* A save that fails lets go of the items.
LEMMA FailSaveStep ==
    ASSUME IInv, FailSave
    PROVE  IInv'
<1> DEFINE items == Marked(itemsById, FALSE)
<1>1. /\ save # NoSave /\ save' = NoSave
      /\ itemsById' = items
      /\ UNCHANGED <<paintOrder, liveItemCount, trimPaintOrderIndex>>
      /\ unsaved' = (unsaved \/ save.unsaved)
      /\ UNCHANGED <<persistedItemIds, file, edits>>
  BY DEF FailSave, Marked
<1>2. itemsById \in Maps
  BY DEF IInv, IndexInv, Listed
<1>3. /\ items \in Maps /\ DOMAIN items = DOMAIN itemsById
      /\ \A id \in DOMAIN itemsById :
            /\ items[id].deleted = itemsById[id].deleted
            /\ items[id].dirty = itemsById[id].dirty
  BY <1>2, MarkedFacts
<1> HIDE DEF items
<1>4. IndexInv'
  BY <1>1, <1>3, IndexKept DEF IInv
<1>5. FileInv'
  BY <1>1 DEF IInv, FileInv
<1>6. Stored(itemsById)'
  BY <1>1, <1>3 DEF IInv, Stored
<1>7. SaveInv'
  BY <1>1 DEF SaveInv, NoSave
<1>8. unsaved' \in BOOLEAN
  BY <1>1 DEF IInv, SaveInv
<1> QED
  BY <1>1, <1>4, <1>5, <1>6, <1>7, <1>8 DEF IInv

\* The part of a list of points that starts at a position
LEMMA Rest ==
    ASSUME NEW s \in Seq(Points), NEW n \in Nat
    PROVE  SubSeq(s, n + 1, Len(s)) \in Seq(Points)
<1>1. Len(s) \in Nat
  BY LenProperties
<1>2. CASE n >= Len(s)
  <2>1. SubSeq(s, n + 1, Len(s)) = << >>
    BY <1>1, <1>2, SubSeqProperties
  <2> QED
    BY <2>1
<1>3. CASE n < Len(s)
  BY <1>1, <1>3, SubSeqProperties
<1> QED
  BY <1>1, <1>2, <1>3

\* What a finished save makes of an item
LEMMA FinalizeFacts ==
    ASSUME NEW items \in Maps, itemsById = items, NEW id \in DOMAIN items, NEW written,
           id \in DOMAIN save.items => save.items[id] \in Item
    PROVE  LET new == [finalize(id, written) EXCEPT !.held = FALSE]
           IN  /\ new \in Item /\ finalize(id, written) \in Item
               /\ new.deleted = items[id].deleted /\ new.kind = items[id].kind
               /\ ~new.dirty => ~items[id].dirty \/ (items[id].held /\ id \in written)
<1> DEFINE item == items[id]
           saved == save.items[id]
           Ok(new) == /\ new \in Item
                      /\ new.deleted = item.deleted /\ new.kind = item.kind
                      /\ ~new.dirty => ~item.dirty \/ (item.held /\ id \in written)
<1>1. item \in Item
  BY MapFacts
<1>2. Ok(item)
  BY <1>1
<1>3. \A one \in Item : effectiveChildCount(one) \in Nat
  BY ItemFacts, LenProperties DEF effectiveChildCount
<1>4. ASSUME saved \in Item PROVE Ok(Rebased(item, saved))
  <2> DEFINE count == IF item.kind = "children" /\ saved.kind = "children"
                      THEN effectiveChildCount(saved) ELSE item.persistedChildCount
             points == IF item.kind = "children" /\ saved.kind = "children"
                       THEN SubSeq(item.appendedChildren, Len(saved.appendedChildren) + 1,
                                   Len(item.appendedChildren))
                       ELSE item.appendedChildren
  <2>1. count \in Nat
    BY <1>1, <1>3, <1>4, ItemFacts
  <2>2. points \in Seq(Points)
    <3>1. Len(saved.appendedChildren) \in Nat /\ item.appendedChildren \in Seq(Points)
      BY <1>1, <1>4, ItemFacts, LenProperties
    <3> QED
      BY <3>1, Rest
  <2>3. Rebased(item, saved) = [item EXCEPT !.copySource = NoId, !.persistedChildCount = count,
                                            !.appendedChildren = points]
    BY <1>1 DEF Rebased, Item
  <2> HIDE DEF count, points
  <2> QED
    BY <1>1, <2>1, <2>2, <2>3 DEF Item
<1>5. ASSUME item.held, id \in written PROVE Ok(Settled(item))
  <2> DEFINE count == IF item.kind = "children" THEN effectiveChildCount(item)
                      ELSE item.persistedChildCount
  <2>1. count \in Nat
    BY <1>1, <1>3, ItemFacts
  <2>2. NoText \in 0 .. NoText /\ << >> \in Seq(Points)
    BY Bounds
  <2>3. Settled(item) = [item EXCEPT !.dirty = FALSE, !.copySource = NoId,
                                     !.modifiedText = NoText, !.persistedChildCount = count,
                                     !.appendedChildren = << >>]
    BY <1>1 DEF Settled, Item
  <2> HIDE DEF count
  <2> QED
    BY <1>1, <1>5, <2>1, <2>2, <2>3, ZenonT(60) DEF Item
<1>6. Ok(finalize(id, written))
  <2>1. \/ finalize(id, written) = item
        \/ id \in DOMAIN save.items /\ finalize(id, written) = Rebased(item, saved)
        \/ item.held /\ id \in written /\ finalize(id, written) = Settled(item)
    BY DEF finalize
  <2> HIDE DEF Ok
  <2> QED
    BY <1>2, <1>4, <1>5, <2>1
<1>7. ASSUME NEW new, Ok(new) PROVE Ok([new EXCEPT !.held = FALSE])
  BY <1>7 DEF Item
<1> QED
  BY <1>6, <1>7

\* What a save stores is a file again: the items of the snapshot, within the limit.
LEMMA ContentFacts ==
    ASSUME IInv, save # NoSave, ~SaveRefused,
           NEW content, content = Written(save.items, save.order, persistedItemIds, file)
    PROVE  /\ FileOk(content)
           /\ EntriesOf(content, save.items, persistedItemIds, file)
<1> DEFINE items == save.items
           storedIds == persistedItemIds
<1>1. /\ Listed(save.order, items) /\ Stored(items) /\ items \in Maps
      /\ Cardinality(LiveIds(items)) <= MaxItemCount
      /\ FileOk(file) /\ storedIds = IdsOf(file)
  BY DEF IInv, SaveInv, FileInv, Listed
<1>2. (\E S : content \in Seq(S)) /\ EntriesOf(content, items, storedIds, file)
  BY <1>1, WrittenFacts DEF Stored
<1>3. ASSUME NEW i \in DOMAIN content
      PROVE  EntryOk(content[i])
  <2> DEFINE id == content[i].id
             body == bodyForStorage(items, id, storedIds, file)
  <2>1. /\ id \in LiveIds(items) /\ content[i].body # NothingToWrite
        /\ IF items[id].dirty
           THEN content[i] = serializeCanonicalItemForStorage(items, id, storedIds, file)
           ELSE \E k \in DOMAIN file : content[i] = file[k]
    BY <1>2, <1>3 DEF EntriesOf
  <2>2. CASE ~items[id].dirty
    BY <1>1, <2>1, <2>2 DEF FileOk
  <2>3. CASE items[id].dirty
    <3>1. content[i] = serializeCanonicalItemForStorage(items, id, storedIds, file)
          /\ content[i].body = body
      BY <2>1, <2>3 DEF serializeCanonicalItemForStorage
    <3>2. id \in DOMAIN items /\ \A k \in DOMAIN file : EntryOk(file[k])
      BY <1>1, <2>1 DEF LiveIds, FileOk
    <3> HIDE DEF id, body
    <3>3. \/ EntryOk(serializeCanonicalItemForStorage(items, id, storedIds, file))
          \/ body = NothingToWrite
          \/ /\ body = Unwritable
             /\ items[id].kind = "children"
             /\ id \in storedIds \/ items[id].copySource # NoId
             /\ Source(items, id, storedIds, file) = {}
      BY <1>1, <3>2, BodyFacts DEF body
    <3>4. ASSUME body = Unwritable, items[id].kind = "children",
                 id \in storedIds \/ items[id].copySource # NoId
          PROVE  FALSE
      BY <2>1, <2>3, <3>4 DEF SaveRefused, NeedsSource, body
    <3> QED
      BY <2>1, <3>1, <3>3, <3>4
  <2> QED
    BY <2>2, <2>3
<1>4. content \in Seq(Entries)
  BY <1>2, <1>3, Retyped DEF EntryOk
<1>5. \A i, j \in DOMAIN content : content[i].id = content[j].id => i = j
  BY <1>2 DEF EntriesOf
<1>6. Cardinality(IdsOf(content)) <= MaxItemCount
  <2>1. IdsOf(content) \subseteq LiveIds(items)
    BY <1>2 DEF EntriesOf, IdsOf
  <2>2. IsFiniteSet(LiveIds(items)) /\ Cardinality(LiveIds(items)) \in Nat
    BY <1>1, ListedFinite
  <2>3. Cardinality(IdsOf(content)) \in Nat /\ Cardinality(IdsOf(content)) <= Cardinality(LiveIds(items))
    BY <2>1, <2>2, FS_Subset, FS_CardinalityType
  <2> QED
    BY <1>1, <2>2, <2>3, Bounds
<1> QED
  BY <1>2, <1>3, <1>4, <1>5, <1>6 DEF FileOk

\* A finished save: the items it stored count as clean, those that were erased before it
\* began leave the index, and those replaced meanwhile stay dirty.
LEMMA FinishSaveStep ==
    ASSUME IInv, FinishSave
    PROVE  IInv'
<1> DEFINE content == Written(save.items, save.order, persistedItemIds, file)
           written == IdsOf(content)
           removed == {id \in DOMAIN itemsById : itemsById[id].held /\ itemsById[id].deleted}
           kept == DOMAIN itemsById \ removed
           Final(id) == [finalize(id, written) EXCEPT !.held = FALSE]
           new == [id \in kept |-> Final(id)]
           K == {i \in DOMAIN paintOrder : paintOrder[i] \in kept}
<1>1. /\ save # NoSave /\ ~SaveRefused /\ save' = NoSave
      /\ file' = content /\ persistedItemIds' = written
      /\ itemsById' = new
      /\ IF removed = {}
         THEN UNCHANGED <<paintOrder, liveItemCount, trimPaintOrderIndex>>
         ELSE /\ paintOrder' = Part(paintOrder, K)
              /\ liveItemCount' = Cardinality({id \in kept : ~itemsById[id].deleted})
              /\ trimPaintOrderIndex' = 0
      /\ UNCHANGED <<unsaved, edits>>
  BY DEF FinishSave
<1>2. FileOk(content) /\ EntriesOf(content, save.items, persistedItemIds, file)
  BY <1>1, ContentFacts
<1>3. /\ itemsById \in Maps /\ save.items \in Maps /\ HeldInv
      /\ Listed(paintOrder, itemsById) /\ IndexInv
  BY <1>1 DEF IInv, IndexInv, SaveInv, Listed
<1>4. /\ DOMAIN itemsById \subseteq Ids
      /\ \A id \in DOMAIN save.items : save.items[id] \in Item
  BY <1>3, MapFacts
<1>5. FileInv'
  BY <1>1, <1>2 DEF FileInv
<1> HIDE DEF content
<1>6. kept \subseteq DOMAIN itemsById
      /\ \A id \in kept : ~(itemsById[id].held /\ itemsById[id].deleted)
  OBVIOUS
<1>7. DOMAIN itemsById' = kept /\ \A id \in kept : itemsById'[id] = Final(id)
  BY <1>1
<1>8. \A id \in kept :
         /\ Final(id) \in Item
         /\ Final(id).deleted = itemsById[id].deleted /\ Final(id).kind = itemsById[id].kind
         /\ ~Final(id).dirty => ~itemsById[id].dirty \/ (itemsById[id].held /\ id \in written)
  <2> SUFFICES ASSUME NEW id \in kept
               PROVE  /\ Final(id) \in Item
                      /\ Final(id).deleted = itemsById[id].deleted
                      /\ Final(id).kind = itemsById[id].kind
                      /\ ~Final(id).dirty =>
                            ~itemsById[id].dirty \/ (itemsById[id].held /\ id \in written)
    OBVIOUS
  <2> HIDE DEF written, kept
  <2>1. id \in DOMAIN itemsById
    BY <1>6
  <2> QED
    BY <1>3, <1>4, <2>1, FinalizeFacts
<1>9. /\ itemsById' = [id \in kept |-> itemsById'[id]]
  BY <1>1
<1> HIDE DEF new, Final
<1>10. itemsById' \in Maps
  <2>1. itemsById' \in [kept -> Item]
    BY <1>7, <1>8, <1>9
  <2> HIDE DEF kept
  <2>2. kept \in SUBSET Ids
    BY <1>4, <1>6
  <2> QED
    BY <2>1, <2>2, IsMap
<1>11. \A id \in kept : itemsById'[id].deleted = itemsById[id].deleted
  BY <1>7, <1>8
<1>12. LiveIds(itemsById') = LiveIds(itemsById)
       /\ LiveIds(itemsById) = {id \in kept : ~itemsById[id].deleted}
  BY <1>7, <1>11 DEF LiveIds
<1>13. IndexInv'
  <2>1. CASE removed = {}
    <3>1. kept = DOMAIN itemsById
      BY <2>1
    <3> HIDE DEF kept
    <3> QED
      BY <1>1, <1>3, <1>7, <1>10, <1>11, <2>1, <3>1, IndexKept
  <2>2. CASE removed # {}
    <3>1. /\ paintOrder' = Part(paintOrder, K) /\ trimPaintOrderIndex' = 0
          /\ liveItemCount' = Cardinality(LiveIds(itemsById'))
      BY <1>1, <1>12, <2>2
    <3> HIDE DEF removed
    <3>2. /\ paintOrder \in Seq(Ids) /\ IsInjective(paintOrder)
          /\ ToSet(paintOrder) = DOMAIN itemsById /\ K \subseteq DOMAIN paintOrder
      BY <1>3 DEF Listed
    <3>3. {paintOrder[i] : i \in K} = kept
      <4>1. \A id \in kept : \E i \in DOMAIN paintOrder : paintOrder[i] = id
        BY <1>6, <3>2 DEF ToSet
      <4> HIDE DEF kept
      <4> QED
        BY <4>1
    <3> HIDE DEF K, kept
    <3>4. /\ Part(paintOrder, K) \in Seq(Ids)
          /\ ToSet(Part(paintOrder, K)) = {paintOrder[i] : i \in K}
          /\ IsInjective(Part(paintOrder, K))
      BY <3>2, PartElements
    <3>5. Listed(paintOrder', itemsById')
      BY <1>7, <1>10, <3>1, <3>3, <3>4 DEF Listed
    <3>6. Passed(paintOrder', itemsById', trimPaintOrderIndex')
      <4>1. Len(paintOrder') \in Nat
        BY <3>1, <3>4, LenProperties
      <4> QED
        BY <3>1, <4>1 DEF Passed
    <3>7. liveItemCount' <= MaxItemCount
      BY <1>3, <1>12, <3>1 DEF IndexInv
    <3> QED
      BY <3>1, <3>5, <3>6, <3>7 DEF IndexInv
  <2> QED
    BY <2>1, <2>2
<1>14. Stored(itemsById)'
  <2>1. ASSUME NEW id \in written
        PROVE  id \in kept
    <3>1. id \in DOMAIN save.items /\ ~save.items[id].deleted
      BY <1>2, <2>1 DEF EntriesOf, IdsOf, LiveIds
    <3>2. id \in DOMAIN itemsById
          /\ (itemsById[id].held => itemsById[id] = save.items[id])
      BY <1>3, <3>1 DEF HeldInv
    <3> QED
      BY <3>1, <3>2
  <2>2. ASSUME NEW id \in kept, ~itemsById'[id].dirty
        PROVE  id \in written /\ ~itemsById'[id].deleted
    <3>1. ~itemsById[id].dirty \/ (itemsById[id].held /\ id \in written)
      BY <1>7, <1>8, <2>2
    <3>2. itemsById[id].held /\ ~itemsById[id].deleted
          /\ id \in DOMAIN save.items /\ itemsById[id] = save.items[id]
      BY <1>3, <1>6, <2>2, <3>1 DEF HeldInv
    <3>3. id \in LiveIds(save.items)
      BY <3>2 DEF LiveIds
    <3>4. id \in written
      BY <1>2, <3>1, <3>2, <3>3 DEF EntriesOf
    <3> QED
      BY <1>11, <2>2, <3>2, <3>4
  <2> HIDE DEF kept, written
  <2>3. persistedItemIds' = written
    BY <1>1
  <2> QED
    BY <1>7, <2>1, <2>2, <2>3 DEF Stored
<1>15. SaveInv'
  BY <1>1 DEF SaveInv, NoSave
<1> QED
  BY <1>1, <1>5, <1>13, <1>14, <1>15 DEF IInv

\* The item a loaded entry becomes
LEMMA LoadedFacts ==
    ASSUME NEW entry, EntryOk(entry)
    PROVE  LET item == canonicalItemFromStoredSvgEntry(entry)
           IN  /\ item \in Item
               /\ ~item.deleted /\ ~item.dirty /\ ~item.held
               /\ item.kind = entry.kind /\ item.copySource = NoId
<1> DEFINE length == IF entry.kind = "text" THEN entry.body[1] ELSE 0
           count == IF entry.kind = "children" THEN DistinctPoints(entry.body) ELSE 0
<1>1. entry.kind \in Kinds /\ entry.look \in Looks
  BY DEF EntryOk, Entries
<1>2. length \in 0 .. MaxText
  BY Bounds DEF EntryOk
<1>3. count \in Nat
  <2>1. CASE entry.kind = "children"
    <3>1. entry.body \in Seq(Points)
      BY <2>1 DEF EntryOk
    <3> DEFINE body == entry.body
               D == {i \in DOMAIN body : i = 1 \/ body[i] # body[IF i = 1 THEN 1 ELSE i - 1]}
    <3>2. D \subseteq DOMAIN body
      OBVIOUS
    <3> HIDE DEF D, body
    <3>3. Cardinality(D) \in Nat
      BY <3>1, <3>2, Elements DEF body
    <3> QED
      BY <2>1, <3>3 DEF D, body, DistinctPoints
  <2> QED
    BY <2>1
<1>4. canonicalItemFromStoredSvgEntry(entry)
        = [NewItem(entry.kind) EXCEPT !.look = entry.look, !.dirty = FALSE,
                                      !.modifiedText = NoText, !.textLength = length,
                                      !.persistedChildCount = count]
  BY DEF canonicalItemFromStoredSvgEntry
<1>5. NoText \in 0 .. NoText
  BY Bounds
<1>6. /\ NewItem(entry.kind) \in Item
      /\ ~NewItem(entry.kind).deleted /\ ~NewItem(entry.kind).held
      /\ NewItem(entry.kind).kind = entry.kind /\ NewItem(entry.kind).copySource = NoId
  BY <1>1, NewItems
<1> DEFINE fresh == NewItem(entry.kind)
<1> HIDE DEF length, count, fresh
<1>7. fresh \in Item /\ ~fresh.deleted /\ ~fresh.held
      /\ fresh.kind = entry.kind /\ fresh.copySource = NoId
  BY <1>6 DEF fresh
<1> QED
  BY <1>1, <1>2, <1>3, <1>4, <1>5, <1>7 DEF Item, fresh

\* The file is loaded as the index it came from would be.
LEMMA LoadStep ==
    ASSUME IInv, Load
    PROVE  IInv'
<1> DEFINE ids == IdsOf(file)
           order == [i \in DOMAIN file |-> file[i].id]
           items == [id \in ids |-> canonicalItemFromStoredSvgEntry(EntryOf(id, file))]
<1>1. /\ paintOrder' = order /\ persistedItemIds' = ids /\ itemsById' = items
      /\ liveItemCount' = Len(file) /\ trimPaintOrderIndex' = 0
      /\ unsaved' = FALSE /\ save' = NoSave /\ UNCHANGED <<file, edits>>
  BY DEF Load
<1>2. FileOk(file) /\ file \in Seq(Entries)
  BY DEF IInv, FileInv, FileOk
<1>3. PICK n \in Nat : n = Len(file) /\ DOMAIN file = 1 .. n
  BY <1>2, LenProperties
<1>4. \A i \in 1 .. n : EntryOk(file[i]) /\ file[i].id \in Ids
  BY <1>2, <1>3 DEF FileOk, EntryOk, Entries
<1>5. ids \in SUBSET Ids
  BY <1>3, <1>4 DEF IdsOf
<1>6. \A id \in ids : EntryOk(EntryOf(id, file))
  <2> SUFFICES ASSUME NEW id \in ids PROVE EntryOk(EntryOf(id, file))
    OBVIOUS
  <2>1. \E i \in DOMAIN file : file[i].id = id
    BY DEF IdsOf
  <2>2. PICK i \in DOMAIN file : EntryOf(id, file) = file[i]
    BY <2>1 DEF EntryOf
  <2> QED
    BY <1>3, <1>4, <2>2
<1>7. \A id \in ids : /\ items[id] \in Item /\ ~items[id].deleted /\ ~items[id].dirty
  <2> HIDE DEF ids
  <2> QED
    BY <1>6, LoadedFacts
<1>8. items = [id \in ids |-> items[id]] /\ DOMAIN items = ids
  OBVIOUS
<1> HIDE DEF items
<1>9. items \in Maps
  <2> HIDE DEF ids
  <2>1. items \in [ids -> Item]
    BY <1>7, <1>8
  <2> QED
    BY <1>5, <2>1, IsMap
<1>10. order \in Seq(Ids) /\ DOMAIN order = 1 .. n /\ Len(order) \in Nat
  <2>1. order \in [1 .. n -> Ids]
    BY <1>3, <1>4
  <2> HIDE DEF order
  <2> QED
    BY <2>1, SeqDef, LenProperties
<1>11. \A i \in 1 .. n : order[i] = file[i].id
  BY <1>3
<1>12. Listed(order, items)
  <2>1. ToSet(order) = ids
    BY <1>3, <1>10, <1>11 DEF ToSet, IdsOf
  <2>2. IsInjective(order)
    BY <1>2, <1>3, <1>10, <1>11 DEF IsInjective, FileOk
  <2> QED
    BY <1>8, <1>9, <1>10, <2>1, <2>2 DEF Listed
<1>13. LiveIds(items) = ids
  BY <1>7, <1>8 DEF LiveIds
<1>14. Cardinality(ids) = n
  <2> DEFINE T == {order[i] : i \in 1 .. n}
  <2>1. \A i, j \in 1 .. n : order[i] = order[j] => i = j
    BY <1>2, <1>3, <1>11 DEF FileOk
  <2>2. ids = T
    BY <1>3, <1>11 DEF IdsOf
  <2>3. Cardinality(T) = Cardinality(1 .. n)
    <3> DEFINE K == 1 .. n
    <3>1. order \in Seq(Ids) /\ K \subseteq DOMAIN order
          /\ \A i, j \in K : order[i] = order[j] => i = j
      BY <1>10, <2>1
    <3> HIDE DEF order, K
    <3>2. /\ IsFiniteSet({order[i] : i \in K})
          /\ Cardinality({order[i] : i \in K}) = Cardinality(K)
          /\ Cardinality(K) \in Nat
      BY <3>1, Counted
    <3> QED
      BY <3>2 DEF K
  <2>4. Cardinality(1 .. n) = n
    BY FS_Interval
  <2> QED
    BY <2>2, <2>3, <2>4
<1>15. IndexInv'
  <2>1. liveItemCount' <= MaxItemCount
    BY <1>1, <1>2, <1>3, <1>14 DEF FileOk
  <2>2. Passed(order, items, 0)
    BY <1>10 DEF Passed
  <2> QED
    BY <1>1, <1>3, <1>12, <1>13, <1>14, <2>1, <2>2 DEF IndexInv
<1>16. FileInv'
  BY <1>1, <1>2 DEF FileInv
<1>17. Stored(itemsById)'
  <2> HIDE DEF ids
  <2> QED
    BY <1>1, <1>7, <1>8 DEF Stored
<1>18. SaveInv'
  BY <1>1 DEF SaveInv, NoSave
<1> QED
  BY <1>1, <1>15, <1>16, <1>17, <1>18 DEF IInv

-----------------------------------------------------------------------------
(* The theorem *)

\* Every turn keeps the invariant.
LEMMA IInvStep ==
    ASSUME ~ReuseIds, IInv, Next
    PROVE  IInv'
<1>1. ASSUME NEW m \in Messages, Accept(<<m>>) \/ Refuse(<<m>>) \/ DropSeed(m)
      PROVE  IInv'
  <2>1. <<m>> \in Seq(Messages)
    OBVIOUS
  <2> QED
    BY <1>1, <2>1, AcceptStep, RefuseStep, DropSeedStep
<1>2. ASSUME NEW ms \in Batches, Accept(ms) \/ Refuse(ms)
      PROVE  IInv'
  <2>1. ms \in Seq(Messages)
    BY Bounds
  <2> QED
    BY <1>2, <2>1, AcceptStep, RefuseStep
<1>3. CASE StartSave
  BY <1>3, StartSaveStep
<1>4. CASE FinishSave
  BY <1>4, FinishSaveStep
<1>5. CASE FailSave
  BY <1>5, FailSaveStep
<1>6. CASE Load
  BY <1>6, LoadStep
<1> QED
  BY <1>1, <1>2, <1>3, <1>4, <1>5, <1>6 DEF Next

\* The empty board satisfies the invariant.
LEMMA IInvInit == Init => IInv
<1> SUFFICES ASSUME Init PROVE IInv
  OBVIOUS
<1>1. /\ itemsById = << >> /\ paintOrder = << >> /\ file = << >>
      /\ liveItemCount = 0 /\ trimPaintOrderIndex = 0 /\ persistedItemIds = {}
      /\ unsaved = FALSE /\ save = NoSave /\ edits = 0
  BY DEF Init
<1>2. DOMAIN itemsById = {} /\ DOMAIN paintOrder = {} /\ DOMAIN file = {} /\ Len(paintOrder) = 0
  BY <1>1
<1>3. itemsById \in Maps
  <2>1. itemsById = [id \in {} |-> itemsById[id]]
    BY <1>1
  <2>2. itemsById \in [{} -> Item]
    BY <2>1
  <2> QED
    BY <2>2, IsMap
<1>4. LiveIds(itemsById) = {} /\ IdsOf(file) = {}
  BY <1>2 DEF LiveIds, IdsOf
<1>5. /\ Cardinality(LiveIds(itemsById)) = 0 /\ Cardinality(IdsOf(file)) = 0
      /\ 0 <= MaxItemCount
  <2>1. Cardinality({}) = 0
    BY FS_EmptySet
  <2>2. 0 <= MaxItemCount
    BY Bounds
  <2> QED
    BY <1>4, <2>1, <2>2
<1>6. Listed(paintOrder, itemsById)
  <2>1. paintOrder \in Seq(Ids)
    BY <1>1
  <2> QED
    BY <1>2, <1>3, <2>1 DEF Listed, ToSet, IsInjective
<1>7. Passed(paintOrder, itemsById, trimPaintOrderIndex)
  BY <1>1, <1>2 DEF Passed
<1>8. IndexInv
  BY <1>1, <1>5, <1>6, <1>7 DEF IndexInv
<1>9. FileInv
  <2>1. file \in Seq(Entries)
    BY <1>1
  <2> QED
    BY <1>1, <1>2, <1>4, <1>5, <2>1 DEF FileInv, FileOk
<1>10. Stored(itemsById)
  BY <1>1, <1>2 DEF Stored
<1>11. SaveInv
  BY <1>1 DEF SaveInv
<1>12. edits \in 0 .. MaxEdits
  BY <1>1, Bounds
<1> QED
  BY <1>1, <1>8, <1>9, <1>10, <1>11, <1>12 DEF IInv

\* What the runs check follows from the invariant.
LEMMA IInvImplies == IInv => IndexIsConsistent
<1> SUFFICES ASSUME IInv PROVE IndexIsConsistent
  OBVIOUS
<1>1. /\ itemsById \in Maps /\ paintOrder \in Seq(Ids)
      /\ ToSet(paintOrder) = DOMAIN itemsById /\ IsInjective(paintOrder)
      /\ trimPaintOrderIndex \in 0 .. Len(paintOrder)
      /\ liveItemCount = Cardinality(LiveIds(itemsById)) /\ liveItemCount <= MaxItemCount
  BY DEF IInv, IndexInv, Listed, Passed
<1>2. liveItemCount \in Nat
  BY <1>1, ListedFinite DEF Listed
<1>3. DOMAIN itemsById \subseteq Ids /\ \A id \in DOMAIN itemsById : itemsById[id] \in Item
  BY <1>1, MapFacts
<1>4. persistedItemIds \subseteq Ids /\ IdsOf(file) = persistedItemIds
  BY <1>3 DEF IInv, FileInv, Stored
<1>5. save = NoSave \/ DOMAIN save = {"running", "items", "order", "unsaved"}
  BY DEF IInv, SaveInv
<1>6. unsaved \in BOOLEAN /\ edits \in 0 .. MaxEdits
  BY DEF IInv
<1> QED
  BY <1>1, <1>2, <1>3, <1>4, <1>5, <1>6 DEF IndexIsConsistent, TypeOK

\* Without changes, nothing that the invariant reads changes.
LEMMA IInvStutter == IInv /\ UNCHANGED vars => IInv'
<1> SUFFICES ASSUME IInv, UNCHANGED vars PROVE IInv'
  OBVIOUS
<1>1. UNCHANGED <<itemsById, paintOrder, liveItemCount, trimPaintOrderIndex, persistedItemIds,
                  unsaved, file, save, edits>>
  BY DEF vars, index
<1>2. IndexInv'
  BY <1>1 DEF IInv, IndexInv
<1>3. FileInv' /\ Stored(itemsById)'
  BY <1>1 DEF IInv, FileInv, Stored
<1>4. SaveInv'
  BY <1>1 DEF IInv, SaveInv, HeldInv, Stored
<1> QED
  BY <1>1, <1>2, <1>3, <1>4 DEF IInv

\* With ids used once, the index agrees with itself, for any ids, texts and batches: the
\* paint order lists each known item once, and the count adjusted by upserts, clears and
\* trims and rebuilt by saves is exact and within MAX_ITEM_COUNT
\* (canonical_index.mjs, message_processing.mjs, data_persistence.mjs).
THEOREM IndexStaysConsistent == ~ReuseIds => (Spec => []IndexIsConsistent)
<1> SUFFICES ASSUME ~ReuseIds PROVE Spec => []IndexIsConsistent
  OBVIOUS
<1>1. IInv /\ [Next]_vars => IInv'
  BY IInvStep, IInvStutter
<1> QED
  BY <1>1, IInvInit, IInvImplies, PTL DEF Spec

-----------------------------------------------------------------------------
(* What the index knows of the stored content *)

\* The file holds the content of an item of this kind.
Kept(id, kind, f) == \E i \in DOMAIN f : f[i].id = id /\ f[i].kind = kind

\* The item whose stored content an item continues
Of(item, id, storedIds) == IF id \in storedIds THEN id ELSE item.copySource

\* The length of a text is that of what was written, or of the stored text.
TextSized(item, of, f) ==
    /\ item.modifiedText \in {NoText, item.textLength}
    /\ item.txt \in {NoText, item.textLength}
    /\ KnownText(item) = NoText =>
          of # NoId /\ \A i \in DOMAIN f : f[i].id = of => f[i].body = <<item.textLength>>

\* The points of a stroke that count as stored are those of the stored stroke.
StrokeSized(item, of, f) ==
    /\ ~item.dirty => item.appendedChildren = << >>
    /\ IF of = NoId THEN item.persistedChildCount = 0
       ELSE \A i \in DOMAIN f : f[i].id = of =>
               item.persistedChildCount \in DistinctPoints(f[i].body) .. Len(f[i].body)

\* A live item has its size from the file, where what it continues is kept.
ItemOk(item, id, storedIds, f) ==
    /\ item.copySource # NoId => id \notin storedIds /\ item.kind # "inline"
    /\ Of(item, id, storedIds) # NoId => Kept(Of(item, id, storedIds), item.kind, f)
    /\ item.kind = "text" => TextSized(item, Of(item, id, storedIds), f)
    /\ item.kind = "children" => StrokeSized(item, Of(item, id, storedIds), f)

Tied(items, storedIds, f) ==
    /\ \A id \in storedIds : Kept(id, items[id].kind, f)
    /\ \A id \in DOMAIN items : ~items[id].deleted => ItemOk(items[id], id, storedIds, f)

\* A stroke that got further points
Continues(new, old) == DOMAIN old \subseteq DOMAIN new /\ \A k \in DOMAIN old : new[k] = old[k]

\* What may become of an item while no save ends.
Grown(new, old) ==
    /\ Successor(new, old)
    /\ ~new.deleted => Continues(new.appendedChildren, old.appendedChildren)
    /\ ~new.deleted /\ KnownText(new) = NoText =>
          KnownText(old) = NoText /\ new.textLength = old.textLength

\* What may have become of the items of the snapshot, and what came to them.
Since ==
    \A id \in DOMAIN itemsById :
        IF id \in DOMAIN save.items THEN Grown(itemsById[id], save.items[id])
        ELSE itemsById[id].copySource = NoId

SizeInv ==
    /\ Tied(itemsById, persistedItemIds, file)
    /\ save # NoSave => Tied(save.items, persistedItemIds, file) /\ Since

\* What a mutation may put into the index
Fits(item, id) ==
    /\ ~item.deleted => ItemOk(item, id, persistedItemIds, file)
    /\ id \in DOMAIN itemsById => Grown(item, itemsById[id])
    /\ id \notin DOMAIN itemsById /\ save # NoSave => item.copySource = NoId

OverlayFits(o) == \A id \in DOMAIN o.items : Fits(o.items[id], id)

\* A copy is not made of what a running save may drop from the file.
CopiesInTime(m) == m.type = "copy" => save = NoSave

\* A point is added at the end.
LEMMA AppendContinues ==
    ASSUME NEW S, NEW s \in Seq(S), NEW e \in S
    PROVE  Continues(Append(s, e), s)
<1>1. PICK n \in Nat : n = Len(s) /\ DOMAIN s = 1 .. n
  BY LenProperties
<1>2. /\ Append(s, e) \in Seq(S) /\ Len(Append(s, e)) = n + 1
      /\ \A k \in 1 .. n : Append(s, e)[k] = s[k]
  BY <1>1, AppendProperties
<1>3. DOMAIN Append(s, e) = 1 .. n + 1
  BY <1>2, LenProperties
<1>4. 1 .. n \subseteq 1 .. n + 1
  OBVIOUS
<1> QED
  BY ONLY <1>1, <1>2, <1>3, <1>4 DEF Continues

\* One change after another
LEMMA GrownTwice ==
    ASSUME NEW newest, NEW new, NEW old, Grown(newest, new), Grown(new, old)
    PROVE  Grown(newest, old)
BY DEF Grown, Successor, Continues

\* An erased item
LEMMA TombstoneGrown ==
    ASSUME NEW item \in Item
    PROVE  /\ Tombstone(item).deleted /\ Grown(Tombstone(item), item)
           /\ Tombstone(item).copySource = item.copySource
BY DEF Tombstone, Item, Grown, Successor

\* A new item continues nothing.
LEMMA NewFits ==
    ASSUME NEW kind \in Kinds, NEW id, NEW storedIds, id \notin storedIds, NEW f
    PROVE  ItemOk(NewItem(kind), id, storedIds, f) /\ NewItem(kind).copySource = NoId
<1>1. 0 # NoText
  BY Bounds
<1> QED
  BY <1>1 DEF ItemOk, NewItem, Of, TextSized, StrokeSized, KnownText

\* An update, a new text or a further point leaves the item with its size.
LEMMA ChangeFits ==
    ASSUME NEW items \in Maps, NEW m \in Messages, m.type \in {"update", "write", "append"},
           ~Refuses(items, m), NEW storedIds, NEW f,
           ItemOk(items[m.id], m.id, storedIds, f)
    PROVE  /\ ItemOk(prepareMutation(items, m), m.id, storedIds, f)
           /\ Grown(prepareMutation(items, m), items[m.id])
<1> DEFINE old == items[m.id]
           new == prepareMutation(items, m)
           of == Of(old, m.id, storedIds)
<1>1. m.id \in DOMAIN items /\ ~old.deleted /\ old \in Item
  BY MapFacts DEF Refuses, Live
<1>2. /\ new.kind = old.kind /\ new.copySource = old.copySource /\ ~new.deleted /\ new.dirty
      /\ new.persistedChildCount = old.persistedChildCount
      /\ Continues(new.appendedChildren, old.appendedChildren)
      /\ \/ /\ new.modifiedText = old.modifiedText /\ new.txt = old.txt
            /\ new.textLength = old.textLength
         \/ /\ new.modifiedText = new.textLength /\ new.txt = new.textLength
            /\ new.textLength # NoText
  <2>1. CASE m.type = "update"
    <3>1. new = [Changed(old) EXCEPT !.look = m.look]
      BY <2>1 DEF prepareMutation
    <3> QED
      BY <1>1, <3>1 DEF Changed, Item, Continues
  <2>2. CASE m.type = "write"
    <3>1. new = [Changed(old) EXCEPT !.modifiedText = m.text, !.txt = m.text, !.textLength = m.text]
      BY <2>2 DEF prepareMutation
    <3>2. m.text # NoText
      BY <2>2, Bounds, MessageFacts
    <3> QED
      BY <1>1, <3>1, <3>2 DEF Changed, Item, Continues
  <2>3. CASE m.type = "append"
    <3>1. new = [Changed(old) EXCEPT !.appendedChildren = Append(@, m.point)]
      BY <2>3 DEF prepareMutation
    <3>2. new.appendedChildren = Append(old.appendedChildren, m.point)
      BY <1>1, <3>1 DEF Changed, Item
    <3>3. old.appendedChildren \in Seq(Points) /\ m.point \in Points
      BY <1>1, <2>3, ItemFacts, MessageFacts
    <3>4. Continues(new.appendedChildren, old.appendedChildren)
      BY <3>2, <3>3, AppendContinues
    <3> QED
      BY <1>1, <3>1, <3>4 DEF Changed, Item
  <2> QED
    BY <2>1, <2>2, <2>3
<1> HIDE DEF new
<1>3. Of(new, m.id, storedIds) = of
  BY <1>2 DEF Of
<1>4. new.kind = "text" => TextSized(new, of, f)
  BY <1>2 DEF ItemOk, TextSized, KnownText
<1>5. new.kind = "children" => StrokeSized(new, of, f)
  BY <1>2 DEF ItemOk, StrokeSized
<1>6. ItemOk(new, m.id, storedIds, f)
  <2> HIDE DEF of
  <2> QED
    BY <1>2, <1>3, <1>4, <1>5 DEF ItemOk, of
<1>7. Grown(new, old)
  BY <1>1, <1>2 DEF Grown, Successor, KnownText
<1> QED
  BY <1>6, <1>7 DEF new

\* A copy continues what its original continues, or the stored original.
LEMMA CopyFits ==
    ASSUME NEW old \in Item, NEW id \in Ids, NEW newid, NEW storedIds, NEW f,
           newid \notin storedIds, ItemOk(old, id, storedIds, f)
    PROVE  ItemOk(copyCanonicalItem(old, id, storedIds), newid, storedIds, f)
<1> DEFINE source == IF old.kind = "children" \/ (old.kind = "text" /\ old.modifiedText = NoText)
                     THEN SourceOf(old, id, storedIds) ELSE NoId
           new == copyCanonicalItem(old, id, storedIds)
<1>1. new = [old EXCEPT !.dirty = TRUE, !.held = FALSE, !.copySource = source]
  BY DEF copyCanonicalItem
<1>2. SourceOf(old, id, storedIds) = Of(old, id, storedIds)
  BY DEF SourceOf, Of, ItemOk
<1>3. /\ new.kind = old.kind /\ new.dirty /\ new.copySource = source
      /\ new.modifiedText = old.modifiedText /\ new.txt = old.txt
      /\ new.textLength = old.textLength
      /\ new.persistedChildCount = old.persistedChildCount
  <2> HIDE DEF source
  <2> QED
    BY <1>1 DEF Item
<1> HIDE DEF new
<1>4. Of(new, newid, storedIds) = source
  BY <1>3 DEF Of
<1>5. source # NoId => source = Of(old, id, storedIds) /\ old.kind # "inline"
  BY <1>2
<1>6. new.kind = "text" => TextSized(new, source, f)
  BY <1>2, <1>3 DEF ItemOk, TextSized, KnownText
<1>7. new.kind = "children" => StrokeSized(new, source, f)
  BY <1>2, <1>3 DEF ItemOk, StrokeSized
<1> HIDE DEF source
<1>8. ItemOk(new, newid, storedIds, f)
  BY <1>3, <1>4, <1>5, <1>6, <1>7 DEF ItemOk
<1> QED
  BY <1>8 DEF new

\* What the next mutation of a batch puts into the index fits there.
LEMMA PreparedFits ==
    ASSUME itemsById \in Maps, persistedItemIds \subseteq DOMAIN itemsById,
           Tied(itemsById, persistedItemIds, file),
           NEW o, OverlayOk(o), OverlayFits(o),
           NEW m \in Messages, NamesFresh(m), CopiesInTime(m), m.type # "clear",
           ~Refuses(Seen(o), m), m.type = "delete" => Live(Seen(o), Target(m))
    PROVE  Fits(prepareMutation(Seen(o), m), Target(m))
<1> DEFINE items == Seen(o)
           old == items[m.id]
           id == Target(m)
           new == prepareMutation(items, m)
<1>1. /\ items \in Maps
      /\ \A one \in DOMAIN o.items : one \in DOMAIN items /\ items[one] = o.items[one]
      /\ \A one \in DOMAIN items :
            one \notin DOMAIN o.items =>
               ~o.clear /\ one \in DOMAIN itemsById /\ items[one] = itemsById[one]
  BY SeenFacts
<1>2. m.type \in {"create", "update", "write", "append", "copy", "delete"} /\ m.id \in Ids
  BY MessageFacts
<1> HIDE DEF items
<1>3. m.type # "create" => m.id \in DOMAIN items /\ ~old.deleted /\ old \in Item
  <2>1. m.type # "create" => Live(items, m.id)
    BY <1>2, MessageFacts DEF Refuses, items
  <2> QED
    BY <1>1, <2>1, MapFacts DEF Live
<1>4. m.type # "create" => Fits(old, m.id)
  <2>1. CASE m.id \in DOMAIN o.items
    BY <1>1, <2>1 DEF OverlayFits
  <2>2. CASE m.type # "create" /\ m.id \notin DOMAIN o.items
    <3>1. m.id \in DOMAIN itemsById /\ old = itemsById[m.id]
      BY <1>1, <1>3, <2>2
    <3>2. ~old.deleted => ItemOk(old, m.id, persistedItemIds, file)
      BY <3>1 DEF Tied
    <3> QED
      BY <3>1, <3>2 DEF Fits, Grown, Successor, Continues
  <2> QED
    BY <2>1, <2>2
<1>5. CASE m.type = "create"
  <2>1. new = NewItem(m.kind) /\ m.kind \in Kinds
    BY <1>5, MessageFacts DEF prepareMutation
  <2>2. id \notin DOMAIN itemsById /\ id \notin persistedItemIds
    BY <1>5 DEF NamesFresh
  <2> HIDE DEF id, new
  <2>3. ItemOk(new, id, persistedItemIds, file) /\ new.copySource = NoId
    BY <2>1, <2>2, NewFits
  <2> QED
    BY <2>2, <2>3 DEF Fits, id, new, items
<1>6. CASE m.type \in {"update", "write", "append"}
  <2>1. id = m.id
    BY <1>6, MessageFacts
  <2>2. ItemOk(old, m.id, persistedItemIds, file)
    BY <1>3, <1>4, <1>6 DEF Fits
  <2>3. ItemOk(new, m.id, persistedItemIds, file) /\ Grown(new, old)
    BY <1>1, <1>6, <2>2, ChangeFits DEF items
  <2> HIDE DEF id, new, old
  <2>4. m.id \in DOMAIN itemsById => Grown(new, itemsById[m.id])
    BY <1>4, <1>6, <2>3, GrownTwice DEF Fits
  <2>5. m.id \notin DOMAIN itemsById /\ save # NoSave => new.copySource = NoId
    BY <1>4, <1>6, <2>3 DEF Fits, Grown, Successor
  <2> QED
    BY <2>1, <2>3, <2>4, <2>5 DEF Fits, id, new, items
<1>7. CASE m.type = "copy"
  <2>1. new = copyCanonicalItem(old, m.id, persistedItemIds)
    BY <1>7 DEF prepareMutation
  <2>2. id \notin DOMAIN itemsById /\ id \notin persistedItemIds /\ save = NoSave
    BY <1>7 DEF NamesFresh, CopiesInTime
  <2>3. ItemOk(old, m.id, persistedItemIds, file)
    BY <1>3, <1>4, <1>7 DEF Fits
  <2> HIDE DEF id, new, old
  <2>4. ItemOk(new, id, persistedItemIds, file)
    BY <1>2, <1>3, <1>7, <2>1, <2>2, <2>3, CopyFits
  <2> QED
    BY <2>2, <2>4 DEF Fits, id, new, items
<1>8. CASE m.type = "delete"
  <2>1. new = Tombstone(old) /\ id = m.id
    BY <1>8, MessageFacts DEF prepareMutation
  <2> HIDE DEF id, new, old
  <2>2. new.deleted /\ Grown(new, old) /\ new.copySource = old.copySource
    BY <1>3, <1>8, <2>1, TombstoneGrown
  <2>3. m.id \in DOMAIN itemsById => Grown(new, itemsById[m.id])
    BY <1>4, <1>8, <2>2, GrownTwice DEF Fits
  <2> QED
    BY <1>4, <1>8, <2>1, <2>2, <2>3 DEF Fits, id, new, items
<1> QED
  BY <1>2, <1>5, <1>6, <1>7, <1>8

\* What a batch prepares fits.
LEMMA PrepareFits ==
    ASSUME itemsById \in Maps, persistedItemIds \subseteq DOMAIN itemsById,
           Tied(itemsById, persistedItemIds, file),
           NEW o, OverlayOk(o), OverlayFits(o),
           NEW m \in Messages, NamesFresh(m), CopiesInTime(m)
    PROVE  OverlayFits(Prepare(o, m))
<1> DEFINE items == Seen(o)
           id == Target(m)
<1>1. o \in Overlays
  BY DEF OverlayOk
<1>2. CASE ~o.ok \/ Refuses(items, m)
  <2>1. Prepare(o, m) = [o EXCEPT !.ok = FALSE]
    BY <1>2 DEF Prepare
  <2>2. Prepare(o, m).items = o.items
    BY <1>1, <2>1 DEF Overlays
  <2> QED
    BY <2>2 DEF OverlayFits
<1>3. CASE ~(~o.ok \/ Refuses(items, m)) /\ m.type = "clear"
  <2>1. Prepare(o, m) = [NoOverlay EXCEPT !.clear = TRUE]
    BY <1>3 DEF Prepare
  <2>2. DOMAIN Prepare(o, m).items = {}
    BY <2>1 DEF NoOverlay
  <2> QED
    BY <2>2 DEF OverlayFits
<1>4. CASE /\ ~(~o.ok \/ Refuses(items, m)) /\ m.type # "clear"
           /\ m.type = "delete" /\ ~Live(items, id)
  BY <1>4 DEF Prepare
<1>5. CASE /\ ~(~o.ok \/ Refuses(items, m)) /\ m.type # "clear"
           /\ ~(m.type = "delete" /\ ~Live(items, id))
  <2> DEFINE new == prepareMutation(items, m)
             p == Adding(o, id, new)
  <2>1. Prepare(o, m) = [o EXCEPT !.items = Over([other \in {id} |-> new], @),
                                  !.fresh = IF id \in DOMAIN o.items \cup DOMAIN itemsById THEN @
                                            ELSE Append(@, id)]
    BY <1>5 DEF Prepare
  <2>2. persistedItemIds \subseteq Ids
    BY MapFacts
  <2>3. /\ new \in Item /\ new.dirty /\ ~new.held /\ id \in Ids
        /\ id \in DOMAIN itemsById => ~o.clear /\ Successor(new, itemsById[id])
    BY <1>5, <2>2, PreparedFollows
  <2>4. Fits(new, id)
    BY <1>5, PreparedFits
  <2> HIDE DEF new, id
  <2>5. Prepare(o, m) = Adding(o, id, new)
    BY <1>1, <2>1 DEF Overlays, Adding
  <2>6. /\ OverlayOk(p)
        /\ DOMAIN p.items = DOMAIN o.items \cup {id}
        /\ p.items[id] = new
        /\ \A other \in DOMAIN o.items : other # id => p.items[other] = o.items[other]
        /\ p.clear = o.clear /\ p.ok = o.ok
    BY <2>3, OverlayAdds
  <2> HIDE DEF p
  <2>7. OverlayFits(p)
    BY <2>4, <2>6 DEF OverlayFits
  <2> QED
    BY <2>5, <2>7 DEF p
<1> QED
  BY <1>2, <1>3, <1>4, <1>5

\* ... message by message.
LEMMA OverlayOfFits ==
    ASSUME itemsById \in Maps, persistedItemIds \subseteq DOMAIN itemsById,
           Tied(itemsById, persistedItemIds, file),
           NEW ms \in Seq(Messages),
           \A k \in DOMAIN ms : NamesFresh(ms[k]) /\ CopiesInTime(ms[k])
    PROVE  OverlayOk(OverlayOf(ms)) /\ OverlayFits(OverlayOf(ms))
<1> DEFINE S == {o \in Overlays : OverlayOk(o) /\ OverlayFits(o)}
<1>1. NoOverlay \in S
  <2>1. OverlayOk(NoOverlay)
    BY EmptyOverlays
  <2>2. OverlayFits(NoOverlay)
    BY DEF NoOverlay, OverlayFits
  <2> QED
    BY <2>1, <2>2 DEF OverlayOk
<1>2. \A k \in DOMAIN ms : \A o \in S : Prepare(o, ms[k]) \in S
  <2> SUFFICES ASSUME NEW k \in DOMAIN ms, NEW o \in S
               PROVE  Prepare(o, ms[k]) \in S
    OBVIOUS
  <2>1. ms[k] \in Messages
    BY ElementOfSeq, LenProperties
  <2>2. persistedItemIds \subseteq Ids
    BY MapFacts
  <2>3. OverlayOk(Prepare(o, ms[k]))
    BY <2>1, <2>2, PrepareKeeps
  <2>4. OverlayFits(Prepare(o, ms[k]))
    BY <2>1, PrepareFits
  <2> QED
    BY <2>3, <2>4 DEF OverlayOk
<1>3. OverlayOf(ms) \in S
  <2> HIDE DEF S
  <2> QED
    BY <1>1, <1>2, OverlayIn
<1> QED
  BY <1>3

-----------------------------------------------------------------------------
(* Turns that handle a message, and what the items continue *)

\* A mutation whose results fit keeps what the index knows of the stored content.
LEMMA FittingEdits ==
    ASSUME IInv, SizeInv, UNCHANGED <<persistedItemIds, file, save>>,
           DOMAIN itemsById \subseteq DOMAIN itemsById',
           \A id \in DOMAIN itemsById' : Fits(itemsById'[id], id)
    PROVE  SizeInv'
<1>1. persistedItemIds \subseteq DOMAIN itemsById
  BY DEF IInv, Stored
<1>2. Tied(itemsById', persistedItemIds, file)
  <2>1. \A id \in persistedItemIds : Kept(id, itemsById'[id].kind, file)
    BY <1>1 DEF SizeInv, Tied, Fits, Grown, Successor
  <2>2. \A id \in DOMAIN itemsById' :
           ~itemsById'[id].deleted => ItemOk(itemsById'[id], id, persistedItemIds, file)
    BY DEF Fits
  <2> QED
    BY <2>1, <2>2 DEF Tied
<1>3. ASSUME save # NoSave
      PROVE  Tied(save.items, persistedItemIds, file) /\ Since'
  <2>1. Tied(save.items, persistedItemIds, file) /\ Since
    BY <1>3 DEF SizeInv
  <2>2. DOMAIN save.items \subseteq DOMAIN itemsById
    BY <1>3 DEF IInv, SaveInv, HeldInv
  <2>3. ASSUME NEW id \in DOMAIN itemsById', id \in DOMAIN save.items
        PROVE  Grown(itemsById'[id], save.items[id])
    <3>1. Grown(itemsById'[id], itemsById[id]) /\ Grown(itemsById[id], save.items[id])
      BY <2>1, <2>2, <2>3 DEF Fits, Since
    <3> QED
      BY <3>1, GrownTwice
  <2>4. ASSUME NEW id \in DOMAIN itemsById', id \notin DOMAIN save.items
        PROVE  itemsById'[id].copySource = NoId
    BY <1>3, <2>1, <2>4 DEF Fits, Since, Grown, Successor
  <2> QED
    BY <2>1, <2>3, <2>4 DEF Since
<1>4. Tied(itemsById, persistedItemIds, file)'
  BY <1>2 DEF Tied, ItemOk, Kept, Of, TextSized, StrokeSized
<1>5. save # NoSave => Tied(save.items, persistedItemIds, file)'
  BY <1>3 DEF Tied, ItemOk, Kept, Of, TextSized, StrokeSized
<1> QED
  BY <1>3, <1>4, <1>5 DEF SizeInv

\* An item that stays, or is erased, fits.
LEMMA StayingFits ==
    ASSUME SizeInv, NEW id \in DOMAIN itemsById, itemsById[id] \in Item
    PROVE  /\ Fits(itemsById[id], id)
           /\ Fits(Tombstone(itemsById[id]), id)
<1>1. Fits(itemsById[id], id)
  <2>1. Grown(itemsById[id], itemsById[id])
    BY DEF Grown, Successor, Continues
  <2> QED
    BY <2>1 DEF SizeInv, Tied, Fits
<1>2. Fits(Tombstone(itemsById[id]), id)
  BY TombstoneGrown DEF Fits
<1> QED
  BY <1>1, <1>2

\* What a batch names and copies
LEMMA ReceivedCopies ==
    ASSUME ~ReuseIds, ~CopyDuringSave, NEW ms \in Seq(Messages), Receive(ms)
    PROVE  \A k \in DOMAIN ms : NamesFresh(ms[k]) /\ CopiesInTime(ms[k])
BY DEF Receive, Sendable, NamesFresh, Target, CopiesInTime

\* Accepted mutations and the removals that make room keep what the index knows of the
\* stored content.
LEMMA AcceptFits ==
    ASSUME IInv, SizeInv, ~ReuseIds, ~CopyDuringSave, NEW ms \in Seq(Messages), Accept(ms)
    PROVE  SizeInv'
<1> DEFINE o == OverlayOf(ms)
           st == Applied(o)
<1>1. /\ Receive(ms) /\ Commit(st, ms)
      /\ UNCHANGED <<persistedItemIds, file, save>>
  BY DEF Accept, Receive
<1>2. /\ itemsById \in Maps /\ persistedItemIds \subseteq DOMAIN itemsById
      /\ IndexInv /\ Tied(itemsById, persistedItemIds, file)
  BY DEF IInv, IndexInv, Listed, Stored, SizeInv
<1>3. OverlayOk(o) /\ OverlayFits(o)
  BY <1>1, <1>2, ReceivedCopies, OverlayOfFits
<1> HIDE DEF o
<1>4. /\ st.items \in Maps
      /\ DOMAIN st.items = DOMAIN itemsById \cup DOMAIN o.items
      /\ \A id \in DOMAIN o.items : st.items[id] = o.items[id]
      /\ \A id \in DOMAIN itemsById \ DOMAIN o.items :
            st.items[id] = IF o.clear THEN Tombstone(itemsById[id]) ELSE itemsById[id]
  BY <1>2, <1>3, AppliedFacts DEF Listed
<1> HIDE DEF st
<1>5. DOMAIN itemsById' = DOMAIN st.items
      /\ \A id \in DOMAIN st.items :
            itemsById'[id] = IF id \in OverflowIds(st) THEN Tombstone(st.items[id]) ELSE st.items[id]
  BY <1>1 DEF Commit
<1>6. ASSUME NEW id \in DOMAIN st.items
      PROVE  Fits(st.items[id], id)
  <2>1. CASE id \in DOMAIN o.items
    BY <1>3, <1>4, <2>1 DEF OverlayFits
  <2>2. CASE id \notin DOMAIN o.items
    <3>1. id \in DOMAIN itemsById /\ itemsById[id] \in Item
      BY <1>2, <1>4, <1>6, <2>2, MapFacts
    <3> QED
      BY <1>4, <2>2, <3>1, StayingFits
  <2> QED
    BY <2>1, <2>2
<1>7. ASSUME NEW id \in DOMAIN st.items
      PROVE  Fits(Tombstone(st.items[id]), id)
  <2> DEFINE item == st.items[id]
  <2>1. item \in Item /\ Fits(item, id)
    BY <1>4, <1>6, <1>7, MapFacts
  <2> HIDE DEF item
  <2>2. /\ Tombstone(item).deleted /\ Grown(Tombstone(item), item)
        /\ Tombstone(item).copySource = item.copySource
    BY <2>1, TombstoneGrown
  <2>3. Fits(Tombstone(item), id)
    BY <2>1, <2>2, GrownTwice DEF Fits
  <2> QED
    BY <2>3 DEF item
<1>8. \A id \in DOMAIN itemsById' : Fits(itemsById'[id], id)
  BY <1>5, <1>6, <1>7
<1> QED
  BY <1>1, <1>4, <1>5, <1>8, FittingEdits

\* The removal of a shape that never got an extent does.
LEMMA DropSeedFits ==
    ASSUME IInv, SizeInv, NEW m \in Messages, DropSeed(m)
    PROVE  SizeInv'
<1>1. /\ Live(itemsById, m.id)
      /\ itemsById' = [itemsById EXCEPT ![m.id] = Tombstone(@)]
      /\ UNCHANGED <<persistedItemIds, file, save>>
  BY DEF DropSeed, DropsSeed, Receive
<1>2. itemsById \in Maps
  BY DEF IInv, IndexInv, Listed
<1>3. \A id \in DOMAIN itemsById :
         Fits(itemsById[id], id) /\ Fits(Tombstone(itemsById[id]), id)
  BY <1>2, MapFacts, StayingFits
<1>4. DOMAIN itemsById' = DOMAIN itemsById
      /\ \A id \in DOMAIN itemsById :
            itemsById'[id] = IF id = m.id THEN Tombstone(itemsById[id]) ELSE itemsById[id]
  <2>1. \E D : itemsById \in [D -> Item]
    BY <1>2, MapFacts
  <2> QED
    BY <1>1, <2>1
<1>5. \A id \in DOMAIN itemsById' : Fits(itemsById'[id], id)
  BY <1>3, <1>4
<1> QED
  BY <1>1, <1>4, <1>5, FittingEdits

\* Turns that leave the items, the file and the running save alone
LEMMA RefuseFits ==
    ASSUME SizeInv, UNCHANGED <<itemsById, persistedItemIds, file, save>>
    PROVE  SizeInv'
BY DEF SizeInv, Tied, ItemOk, Kept, Of, TextSized, StrokeSized, Since

-----------------------------------------------------------------------------
(* What a rewrite gives an item *)

\* One list of points after another
LEMMA PointsJoined ==
    ASSUME NEW s \in Seq(Points), NEW t \in Seq(Points)
    PROVE  /\ s \o t \in Seq(Points)
           /\ Len(s) \in Nat /\ Len(t) \in Nat /\ Len(s \o t) = Len(s) + Len(t)
           /\ DistinctPoints(s) \in Nat /\ DistinctPoints(s) <= Len(s)
           /\ DistinctPoints(s \o t) \in Nat
           /\ DistinctPoints(s \o t) <= DistinctPoints(s) + Len(t)
<1> DEFINE Differs(u, i) == i = 1 \/ u[i] # u[IF i = 1 THEN 1 ELSE i - 1]
           u == s \o t
           n == Len(s)
           l == Len(t)
           A == {i \in 1 .. n : Differs(s, i)}
           B == {i \in 1 .. n + l : Differs(u, i)}
           C == n + 1 .. n + l
<1>1. n \in Nat /\ DOMAIN s = 1 .. n /\ l \in Nat /\ DOMAIN t = 1 .. l
  BY LenProperties
<1>2. u \in Seq(Points) /\ Len(u) = n + l
      /\ \A k \in 1 .. n + l : u[k] = IF k <= n THEN s[k] ELSE t[k - n]
  BY <1>1, ConcatProperties
<1>3. DOMAIN u = 1 .. n + l
  BY <1>2, LenProperties
<1>4. DistinctPoints(s) = Cardinality(A)
  BY <1>1 DEF DistinctPoints
<1>5. DistinctPoints(u) = Cardinality(B)
  BY <1>3 DEF DistinctPoints
<1>6. \A i \in 1 .. n : Differs(u, i) <=> Differs(s, i)
  <2> SUFFICES ASSUME NEW i \in 1 .. n PROVE Differs(u, i) <=> Differs(s, i)
    OBVIOUS
  <2>1. i \in 1 .. n + l /\ i <= n
    BY <1>1
  <2>2. u[i] = s[i]
    BY <1>2, <2>1
  <2>3. CASE i = 1
    BY <2>3
  <2>4. CASE i # 1
    <3>1. i - 1 \in 1 .. n + l /\ i - 1 <= n
      BY <1>1, <2>4
    <3>2. u[i - 1] = s[i - 1]
      BY <1>2, <3>1
    <3> QED
      BY <2>2, <2>4, <3>2
  <2> QED
    BY <2>3, <2>4
<1>7. B \subseteq A \cup C
  <2> SUFFICES ASSUME NEW i \in B PROVE i \in A \cup C
    OBVIOUS
  <2>1. i \in 1 .. n \/ i \in C
    BY <1>1
  <2> QED
    BY <1>6, <2>1
<1>8. /\ IsFiniteSet(1 .. n) /\ Cardinality(1 .. n) = n
      /\ IsFiniteSet(C) /\ Cardinality(C) = l
      /\ IsFiniteSet(1 .. n + l)
  <2>1. n \in Int /\ l \in Int /\ n + 1 \in Int /\ n + l \in Int /\ 1 \in Int
    BY <1>1
  <2> HIDE DEF n, l
  <2>2. IsFiniteSet(1 .. n) /\ Cardinality(1 .. n) = IF 1 > n THEN 0 ELSE n - 1 + 1
    BY <2>1, FS_Interval
  <2>3. IsFiniteSet(1 .. n + l)
    BY <2>1, FS_Interval
  <2>4. IsFiniteSet(C) /\ Cardinality(C) = IF n + 1 > n + l THEN 0 ELSE (n + l) - (n + 1) + 1
    BY <2>1, FS_Interval
  <2> QED
    BY <1>1, <2>2, <2>3, <2>4
<1>9. A \subseteq 1 .. n /\ B \subseteq 1 .. n + l
  OBVIOUS
<1> HIDE DEF A, B, C, u, n, l
<1>10. /\ IsFiniteSet(A) /\ Cardinality(A) \in Nat /\ Cardinality(A) <= n
       /\ IsFiniteSet(B) /\ Cardinality(B) \in Nat
  BY <1>8, <1>9, FS_Subset, FS_CardinalityType
<1>11. Cardinality(B) <= Cardinality(A) + l
  <2>1. /\ IsFiniteSet(A \cup C)
        /\ Cardinality(A \cup C) = Cardinality(A) + Cardinality(C) - Cardinality(A \cap C)
    BY <1>8, <1>10, FS_Union
  <2>2. Cardinality(A \cap C) \in Nat /\ Cardinality(A \cup C) \in Nat
    BY <1>10, <2>1, FS_Intersection, FS_CardinalityType
  <2>3. Cardinality(B) <= Cardinality(A \cup C)
    BY <1>7, <2>1, FS_Subset
  <2> QED
    BY <1>1, <1>8, <1>10, <2>1, <2>2, <2>3
<1> QED
  BY <1>1, <1>2, <1>4, <1>5, <1>10, <1>11 DEF u, n, l

\* The bounds on the points of a stroke hold of it with more points.
LEMMA Lengthened ==
    ASSUME NEW s \in Seq(Points), NEW t \in Seq(Points), NEW count \in Nat,
           count \in DistinctPoints(s) .. Len(s)
    PROVE  count + Len(t) \in DistinctPoints(s \o t) .. Len(s \o t)
BY PointsJoined

\* Where a live item finds its content, and that all it finds is that content
LEMMA SourceKept ==
    ASSUME NEW items, NEW id, NEW storedIds, NEW f, FileOk(f), storedIds = IdsOf(f),
           storedIds \subseteq DOMAIN items, Tied(items, storedIds, f),
           ItemOk(items[id], id, storedIds, f),
           NEW of, of = Of(items[id], id, storedIds)
    PROVE  /\ of # NoId => Source(items, id, storedIds, f) # {}
           /\ \A b \in Source(items, id, storedIds, f) :
                 \E i \in DOMAIN f : f[i].id = of /\ f[i].kind = items[id].kind /\ b = f[i].body
<1>1. ASSUME of # NoId
      PROVE  Source(items, id, storedIds, f) # {}
  <2>1. PICK i \in DOMAIN f : f[i].id = of /\ f[i].kind = items[id].kind
    BY <1>1 DEF ItemOk, Kept
  <2>2. of \in storedIds /\ of \in DOMAIN items
    BY <2>1 DEF IdsOf
  <2>3. PICK j \in DOMAIN f : f[j].id = of /\ f[j].kind = items[of].kind
    BY <2>2 DEF Tied, Kept
  <2>4. i = j
    BY <2>1, <2>3 DEF FileOk
  <2>5. f[i].body \in Source(items, id, storedIds, f)
    BY <2>1, <2>2, <2>3, <2>4 DEF Source, Of
  <2> QED
    BY <2>5
<1>2. \A b \in Source(items, id, storedIds, f) :
         \E i \in DOMAIN f : f[i].id = of /\ f[i].kind = items[id].kind /\ b = f[i].body
  BY DEF Source, Of
<1> QED
  BY <1>1, <1>2

\* What a rewrite gives a live item has the size that the index knows.
LEMMA BodySized ==
    ASSUME NEW items \in Maps, NEW id \in LiveIds(items), NEW storedIds, NEW f, FileOk(f),
           storedIds = IdsOf(f), storedIds \subseteq DOMAIN items, Tied(items, storedIds, f),
           NEW body, body = bodyForStorage(items, id, storedIds, f)
    PROVE  /\ body # Unwritable
           /\ items[id].kind = "text" => body = <<items[id].textLength>>
           /\ items[id].kind = "children" /\ body # NothingToWrite =>
                 effectiveChildCount(items[id]) \in DistinctPoints(body) .. Len(body)
           /\ body = NothingToWrite =>
                 /\ items[id].kind = "children"
                 /\ id \notin storedIds /\ items[id].copySource = NoId
<1> DEFINE item == items[id]
           of == Of(item, id, storedIds)
           source == Source(items, id, storedIds, f)
<1>1. id \in DOMAIN items /\ ~item.deleted /\ item \in Item
  BY MapFacts DEF LiveIds
<1>2. ItemOk(item, id, storedIds, f)
  BY <1>1 DEF Tied
<1>3. /\ of # NoId => source # {}
      /\ \A b \in source :
            \E i \in DOMAIN f : f[i].id = of /\ f[i].kind = item.kind /\ b = f[i].body
  BY <1>2, SourceKept
<1>4. \A i \in DOMAIN f : EntryOk(f[i])
  BY DEF FileOk
<1>5. item.kind \in {"inline", "text", "children"} /\ item.appendedChildren \in Seq(Points)
      /\ item.persistedChildCount \in Nat /\ item.textLength \in 0 .. MaxText
  BY <1>1, ItemFacts DEF Kinds
<1>6. \A n \in 0 .. MaxText : <<n>> \in Bodies
  BY DEF Bodies
<1>7. \A p \in Seq(Points) : p \in Bodies
  BY DEF Bodies
<1>8. \A b \in Bodies : b # Unwritable /\ b # NothingToWrite
  BY Bounds
<1> HIDE DEF source
<1>9. CASE item.kind = "inline"
  <2>1. body = << >>
    BY <1>9 DEF bodyForStorage
  <2>2. << >> \in Seq(Points)
    OBVIOUS
  <2>3. body \in Bodies
    BY <1>7, <2>1, <2>2
  <2> QED
    BY <1>8, <1>9, <2>3
<1>10. CASE item.kind = "text"
  <2>1. body = IF KnownText(item) # NoText THEN <<KnownText(item)>>
               ELSE IF source # {} THEN CHOOSE b \in source : TRUE ELSE <<0>>
    BY <1>10 DEF bodyForStorage, source
  <2>2. TextSized(item, of, f)
    BY <1>2, <1>10 DEF ItemOk
  <2> HIDE DEF of
  <2>3. body = <<item.textLength>>
    <3>1. CASE KnownText(item) # NoText
      BY <2>1, <2>2, <3>1 DEF TextSized, KnownText
    <3>2. CASE KnownText(item) = NoText
      <4>1. of # NoId /\ \A i \in DOMAIN f : f[i].id = of => f[i].body = <<item.textLength>>
        BY <2>2, <3>2 DEF TextSized
      <4>2. body \in source
        BY <1>3, <2>1, <3>2, <4>1
      <4> QED
        BY <1>3, <4>1, <4>2
    <3> QED
      BY <3>1, <3>2
  <2> QED
    BY <1>5, <1>6, <1>8, <1>10, <2>3
<1>11. CASE item.kind = "children" /\ of # NoId
  <2>1. id \in storedIds \/ item.copySource # NoId
    BY <1>11 DEF Of
  <2>2. body = IF source = {} THEN Unwritable
               ELSE (CHOOSE b \in source : TRUE) \o item.appendedChildren
    BY <1>11, <2>1 DEF bodyForStorage, source
  <2>3. StrokeSized(item, of, f)
    BY <1>2, <1>11 DEF ItemOk
  <2> HIDE DEF of
  <2>4. PICK b \in source : body = b \o item.appendedChildren
    BY <1>3, <1>11, <2>2
  <2>5. PICK i \in DOMAIN f : f[i].id = of /\ f[i].kind = item.kind /\ b = f[i].body
    BY <1>3, <2>4
  <2>6. b \in Seq(Points)
    BY <1>4, <1>11, <2>5 DEF EntryOk
  <2>7. item.persistedChildCount \in DistinctPoints(b) .. Len(b)
    BY <1>11, <2>3, <2>5 DEF StrokeSized
  <2>8. body \in Seq(Points)
        /\ item.persistedChildCount + Len(item.appendedChildren) \in DistinctPoints(body) .. Len(body)
    BY <1>5, <2>4, <2>6, <2>7, Lengthened, PointsJoined
  <2>9. effectiveChildCount(item) \in DistinctPoints(body) .. Len(body)
    BY <2>8 DEF effectiveChildCount
  <2> QED
    BY <1>7, <1>8, <1>11, <2>8, <2>9
<1>12. CASE item.kind = "children" /\ of = NoId
  <2>1. id \notin storedIds /\ item.copySource = NoId
    <3>1. id \in Ids
      BY <1>1, MapFacts
    <3> QED
      BY <1>12, <3>1, Bounds DEF Of
  <2>2. body = IF item.persistedChildCount = 0 /\ item.appendedChildren # << >>
               THEN item.appendedChildren ELSE NothingToWrite
    BY <1>12, <2>1 DEF bodyForStorage
  <2>3. item.persistedChildCount = 0
    BY <1>2, <1>12 DEF ItemOk, StrokeSized
  <2>4. CASE item.appendedChildren # << >>
    <3>1. body = item.appendedChildren /\ body \in Seq(Points)
      BY <1>5, <2>2, <2>3, <2>4
    <3>2. DistinctPoints(body) \in Nat /\ Len(body) \in Nat /\ DistinctPoints(body) <= Len(body)
      BY <3>1, PointsJoined
    <3>3. effectiveChildCount(item) = Len(body)
      BY <2>3, <3>1, <3>2 DEF effectiveChildCount
    <3> QED
      BY <1>7, <1>8, <1>12, <3>1, <3>2, <3>3
  <2>5. CASE item.appendedChildren = << >>
    <3>1. body = NothingToWrite /\ body # Unwritable
      BY <2>2, <2>5, Bounds
    <3> QED
      BY <1>12, <2>1, <3>1
  <2> QED
    BY <2>4, <2>5
<1> QED
  BY <1>5, <1>9, <1>10, <1>11, <1>12

\* What a save stores of an item has the size that the index knows of the snapshot.
LEMMA EntrySized ==
    ASSUME NEW items \in Maps, NEW storedIds, NEW f, FileOk(f),
           storedIds = IdsOf(f), Stored(items), storedIds = persistedItemIds,
           Tied(items, storedIds, f),
           NEW content, FileOk(content), EntriesOf(content, items, storedIds, f),
           NEW i \in DOMAIN content, NEW item, item = items[content[i].id]
    PROVE  /\ content[i].id \in LiveIds(items)
           /\ content[i].kind = item.kind
           /\ item.kind = "text" /\ (item.dirty \/ KnownText(item) = NoText) =>
                 content[i].body = <<item.textLength>>
           /\ item.kind = "children" =>
                 effectiveChildCount(item) \in DistinctPoints(content[i].body) .. Len(content[i].body)
<1> DEFINE id == content[i].id
           body == content[i].body
<1>1. /\ id \in LiveIds(items) /\ body # NothingToWrite
      /\ IF item.dirty THEN content[i] = serializeCanonicalItemForStorage(items, id, storedIds, f)
         ELSE \E k \in DOMAIN f : content[i] = f[k]
  BY DEF EntriesOf
<1>2. id \in DOMAIN items /\ ~item.deleted /\ item \in Item
  BY <1>1, MapFacts DEF LiveIds
<1>3. CASE item.dirty
  <2>1. content[i].kind = item.kind /\ body = bodyForStorage(items, id, storedIds, f)
    BY <1>1, <1>3 DEF serializeCanonicalItemForStorage
  <2>2. storedIds \subseteq DOMAIN items
    BY DEF Stored
  <2>3. id \in LiveIds(items) /\ item = items[id]
    BY <1>1
  <2> HIDE DEF id, body
  <2>4. /\ body # Unwritable
        /\ items[id].kind = "text" => body = <<items[id].textLength>>
        /\ items[id].kind = "children" /\ body # NothingToWrite =>
              effectiveChildCount(items[id]) \in DistinctPoints(body) .. Len(body)
        /\ body = NothingToWrite =>
              /\ items[id].kind = "children"
              /\ id \notin storedIds /\ items[id].copySource = NoId
    <3>1. /\ items \in Maps /\ FileOk(f) /\ storedIds = IdsOf(f)
          /\ Tied(items, storedIds, f) /\ storedIds \subseteq DOMAIN items
          /\ id \in LiveIds(items) /\ body = bodyForStorage(items, id, storedIds, f)
      BY <2>1, <2>2, <2>3
    <3> QED
      BY ONLY <3>1, BodySized
  <2> QED
    BY <1>1, <2>1, <2>3, <2>4 DEF id, body
<1>4. CASE ~item.dirty
  <2>1. PICK k \in DOMAIN f : content[i] = f[k]
    BY <1>1, <1>4
  <2>2. id \in storedIds
    BY <2>1 DEF IdsOf
  <2>3. Kept(id, item.kind, f) /\ ItemOk(item, id, storedIds, f)
    BY <1>2, <2>2 DEF Tied
  <2>4. PICK j \in DOMAIN f : f[j].id = id /\ f[j].kind = item.kind
    BY <2>3 DEF Kept
  <2>5. j = k
    BY <2>1, <2>4 DEF FileOk
  <2>6. id # NoId
    BY <1>2, MapFacts, Bounds
  <2>7. Of(item, id, storedIds) = id
    BY <2>2 DEF Of
  <2>8. item.kind = "text" => TextSized(item, id, f)
    BY <2>3, <2>7 DEF ItemOk
  <2>9. item.kind = "children" => StrokeSized(item, id, f)
    BY <2>3, <2>7 DEF ItemOk
  <2>10. item.kind = "text" /\ KnownText(item) = NoText => body = <<item.textLength>>
    BY <2>1, <2>8 DEF TextSized
  <2>11. ASSUME item.kind = "children"
         PROVE  effectiveChildCount(item) \in DistinctPoints(body) .. Len(body)
    <3>1. item.appendedChildren = << >>
      BY <1>4, <2>9, <2>11 DEF StrokeSized
    <3>2. item.persistedChildCount \in DistinctPoints(body) .. Len(body)
      BY <2>1, <2>6, <2>9, <2>11 DEF StrokeSized
    <3>3. item.persistedChildCount \in Nat /\ Len(<< >>) = 0
      BY <1>2, ItemFacts
    <3>4. effectiveChildCount(item) = item.persistedChildCount
      BY <3>1, <3>3 DEF effectiveChildCount
    <3> QED
      BY <3>2, <3>4
  <2> QED
    BY <1>1, <1>4, <2>1, <2>4, <2>5, <2>10, <2>11
<1> QED
  BY <1>3, <1>4

-----------------------------------------------------------------------------
(* A save begins, ends or fails, and what the items continue *)

\* The mark of the running save changes nothing that the sizes depend on.
LEMMA MarkFits ==
    ASSUME NEW items \in Maps, NEW mark \in BOOLEAN, NEW storedIds, NEW f,
           storedIds \subseteq DOMAIN items, Tied(items, storedIds, f)
    PROVE  Tied(Marked(items, mark), storedIds, f)
<1> DEFINE new == Marked(items, mark)
<1>1. DOMAIN new = DOMAIN items
      /\ \A id \in DOMAIN items : new[id] = [items[id] EXCEPT !.held = mark]
  BY DEF Marked
<1> HIDE DEF new
<1>2. ASSUME NEW id \in DOMAIN items
      PROVE  /\ new[id].kind = items[id].kind
             /\ new[id].deleted = items[id].deleted
             /\ ItemOk(items[id], id, storedIds, f) => ItemOk(new[id], id, storedIds, f)
  <2> DEFINE old == items[id]
  <2>1. old \in Item /\ new[id] = [old EXCEPT !.held = mark]
    BY <1>1, <1>2, MapFacts
  <2> HIDE DEF old
  <2>2. /\ new[id].kind = old.kind /\ new[id].deleted = old.deleted
        /\ new[id].copySource = old.copySource /\ new[id].dirty = old.dirty
        /\ new[id].modifiedText = old.modifiedText /\ new[id].txt = old.txt
        /\ new[id].textLength = old.textLength
        /\ new[id].persistedChildCount = old.persistedChildCount
        /\ new[id].appendedChildren = old.appendedChildren
    BY <2>1 DEF Item
  <2>3. ItemOk(old, id, storedIds, f) => ItemOk(new[id], id, storedIds, f)
    BY <2>2 DEF ItemOk, Of, TextSized, StrokeSized, KnownText
  <2> QED
    BY <2>2, <2>3 DEF old
<1>3. Tied(new, storedIds, f)
  BY <1>1, <1>2 DEF Tied
<1> QED
  BY <1>3 DEF new

\* A save takes what the index knows of the stored content with its snapshot.
LEMMA StartSaveFits ==
    ASSUME IInv, SizeInv, StartSave
    PROVE  SizeInv'
<1> DEFINE st == [items |-> itemsById, order |-> paintOrder,
                  count |-> liveItemCount, trim |-> trimPaintOrderIndex]
           held == Marked(itemsById, TRUE)
<1>1. Cleaned = st
  BY DEF Cleaned, IInv, IndexInv
<1>2. /\ itemsById' = held /\ UNCHANGED <<persistedItemIds, file>>
      /\ save' = [running |-> TRUE, items |-> held, order |-> paintOrder, unsaved |-> unsaved]
  BY <1>1 DEF StartSave, Marked
<1>3. itemsById \in Maps /\ persistedItemIds \subseteq DOMAIN itemsById
      /\ Tied(itemsById, persistedItemIds, file)
  BY DEF IInv, IndexInv, Listed, Stored, SizeInv
<1>4. Tied(held, persistedItemIds, file)
  BY <1>3, MarkFits
<1> HIDE DEF held, st
<1>5. save'.items = held
  BY <1>2
<1>6. Since'
  BY <1>2, <1>5 DEF Since, Grown, Successor, Continues
<1>7. Tied(held, persistedItemIds', file')
  BY <1>2, <1>4
<1> QED
  BY <1>2, <1>5, <1>6, <1>7 DEF SizeInv

\* A save that fails changes none of it.
LEMMA FailSaveFits ==
    ASSUME IInv, SizeInv, FailSave
    PROVE  SizeInv'
<1>1. /\ itemsById' = Marked(itemsById, FALSE) /\ UNCHANGED <<persistedItemIds, file>>
      /\ save' = NoSave
  BY DEF FailSave, Marked
<1>2. itemsById \in Maps /\ persistedItemIds \subseteq DOMAIN itemsById
      /\ Tied(itemsById, persistedItemIds, file)
  BY DEF IInv, IndexInv, Listed, Stored, SizeInv
<1>3. Tied(Marked(itemsById, FALSE), persistedItemIds, file)
  BY <1>2, MarkFits
<1>4. Tied(itemsById', persistedItemIds', file')
  BY <1>1, <1>3
<1> QED
  BY <1>1, <1>4 DEF SizeInv

\* What a finished save makes of an item it stored: stored content of its own, of the
\* size the file now holds.
LEMMA StoredFits ==
    ASSUME NEW item \in Item, NEW saved \in Item, NEW id \in Ids, NEW f, FileOk(f),
           NEW i \in DOMAIN f, f[i].id = id, f[i].kind = saved.kind,
           saved.kind = "text" /\ (saved.dirty \/ KnownText(saved) = NoText) =>
              f[i].body = <<saved.textLength>>,
           saved.kind = "children" =>
              effectiveChildCount(saved) \in DistinctPoints(f[i].body) .. Len(f[i].body),
           Grown(item, saved), ~item.deleted,
           item.kind = "text" => item.modifiedText \in {NoText, item.textLength}
                                 /\ item.txt \in {NoText, item.textLength}
    PROVE  /\ item.dirty => ItemOk(Rebased(item, saved), id, IdsOf(f), f)
           /\ item = saved /\ item.dirty => ItemOk(Settled(item), id, IdsOf(f), f)
           /\ /\ item = saved /\ item.copySource = NoId /\ ~item.dirty
              /\ item.kind = "children" => item.appendedChildren = << >>
              => ItemOk(item, id, IdsOf(f), f)
<1>1. \A j \in DOMAIN f : f[j].id = id => j = i
  BY DEF FileOk
<1>2. id \in IdsOf(f) /\ id # NoId
  BY Bounds DEF IdsOf
<1>3. Kept(id, saved.kind, f)
  BY DEF Kept
<1>4. item.kind = saved.kind
  BY DEF Grown, Successor
<1>5. \A one \in Item : one.kind = "children" \/ one.kind # "children"
  OBVIOUS
<1>6. ASSUME NEW new, new.copySource = NoId, new.kind = item.kind,
             item.kind = "text" => TextSized(new, id, f),
             item.kind = "children" => StrokeSized(new, id, f)
      PROVE  ItemOk(new, id, IdsOf(f), f)
  BY <1>2, <1>3, <1>4, <1>6 DEF ItemOk, Of
<1>7. ASSUME item.dirty PROVE ItemOk(Rebased(item, saved), id, IdsOf(f), f)
  <2> DEFINE new == Rebased(item, saved)
  <2>1. /\ new.copySource = NoId /\ new.kind = item.kind /\ new.dirty
        /\ new.modifiedText = item.modifiedText /\ new.txt = item.txt
        /\ new.textLength = item.textLength
        /\ item.kind = "children" => new.persistedChildCount = effectiveChildCount(saved)
    BY <1>4, <1>7 DEF Rebased, Item
  <2> HIDE DEF new
  <2>2. item.kind = "text" => TextSized(new, id, f)
    BY <1>1, <1>2, <1>4, <2>1 DEF TextSized, KnownText, Grown
  <2>3. item.kind = "children" => StrokeSized(new, id, f)
    BY <1>1, <1>2, <1>4, <2>1 DEF StrokeSized
  <2> QED
    BY <1>6, <2>1, <2>2, <2>3 DEF new
<1>8. ASSUME item = saved, item.dirty PROVE ItemOk(Settled(item), id, IdsOf(f), f)
  <2> DEFINE new == Settled(item)
  <2>1. /\ new.copySource = NoId /\ new.kind = item.kind
        /\ new.modifiedText = NoText /\ new.txt = item.txt
        /\ new.textLength = item.textLength /\ new.appendedChildren = << >>
        /\ item.kind = "children" => new.persistedChildCount = effectiveChildCount(item)
    BY DEF Settled, Item
  <2> HIDE DEF new
  <2>2. item.kind = "text" => TextSized(new, id, f)
    BY <1>1, <1>2, <1>8, <2>1 DEF TextSized
  <2>3. item.kind = "children" => StrokeSized(new, id, f)
    BY <1>1, <1>2, <1>8, <2>1 DEF StrokeSized
  <2> QED
    BY <1>6, <2>1, <2>2, <2>3 DEF new
<1>9. ASSUME item = saved, item.copySource = NoId, ~item.dirty,
             item.kind = "children" => item.appendedChildren = << >>
      PROVE  ItemOk(item, id, IdsOf(f), f)
  <2>1. item.kind = "text" => TextSized(item, id, f)
    BY <1>1, <1>2, <1>9 DEF TextSized
  <2>2. ASSUME item.kind = "children" PROVE StrokeSized(item, id, f)
    <3>1. item.persistedChildCount \in Nat /\ Len(<< >>) = 0
      BY ItemFacts
    <3>2. effectiveChildCount(item) = item.persistedChildCount
      BY <1>9, <2>2, <3>1 DEF effectiveChildCount
    <3> QED
      BY <1>1, <1>2, <1>4, <1>9, <2>2, <3>2 DEF StrokeSized
  <2> QED
    BY <1>6, <1>9, <2>1, <2>2
<1> QED
  BY <1>7, <1>8, <1>9

\* A finished save: what it stored is what the items continue from then on, and those
\* it did not store continue nothing.
LEMMA FinishSaveFits ==
    ASSUME IInv, SizeInv, FinishSave
    PROVE  SizeInv'
<1> DEFINE content == Written(save.items, save.order, persistedItemIds, file)
           written == IdsOf(content)
           removed == {id \in DOMAIN itemsById : itemsById[id].held /\ itemsById[id].deleted}
           kept == DOMAIN itemsById \ removed
           Final(id) == [finalize(id, written) EXCEPT !.held = FALSE]
           snapshot == save.items
<1>1. /\ save # NoSave /\ ~SaveRefused /\ save' = NoSave
      /\ file' = content /\ persistedItemIds' = written
      /\ itemsById' = [id \in kept |-> Final(id)]
  BY DEF FinishSave
<1>2. FileOk(content) /\ EntriesOf(content, snapshot, persistedItemIds, file)
  BY <1>1, ContentFacts
<1>3. /\ itemsById \in Maps /\ snapshot \in Maps /\ HeldInv /\ Stored(snapshot)
      /\ FileOk(file) /\ persistedItemIds = IdsOf(file)
      /\ Tied(itemsById, persistedItemIds, file) /\ Tied(snapshot, persistedItemIds, file) /\ Since
  BY <1>1 DEF IInv, IndexInv, SaveInv, Listed, FileInv, SizeInv
<1>4. /\ DOMAIN itemsById \subseteq Ids /\ DOMAIN snapshot \subseteq DOMAIN itemsById
      /\ \A id \in DOMAIN snapshot : snapshot[id] \in Item
      /\ \A id \in DOMAIN itemsById : itemsById[id] \in Item
  BY <1>3, MapFacts DEF HeldInv
<1>5. kept \subseteq DOMAIN itemsById
      /\ \A id \in kept : ~(itemsById[id].held /\ itemsById[id].deleted)
  OBVIOUS
<1>6. DOMAIN itemsById' = kept /\ \A id \in kept : itemsById'[id] = Final(id)
  BY <1>1
<1>7. \A id \in written : id \in LiveIds(snapshot)
  BY <1>2 DEF EntriesOf, IdsOf
<1>8. \A id \in written : id \in DOMAIN snapshot /\ id \in kept
  <2> SUFFICES ASSUME NEW id \in written
               PROVE  id \in DOMAIN snapshot /\ id \in kept
    OBVIOUS
  <2>1. id \in DOMAIN snapshot /\ ~snapshot[id].deleted
    BY <1>7 DEF LiveIds
  <2>2. id \in DOMAIN itemsById /\ (itemsById[id].held => itemsById[id] = snapshot[id])
    BY <1>3, <1>4, <2>1 DEF HeldInv
  <2> QED
    BY <2>1, <2>2
<1> HIDE DEF content, kept
<1>9. ASSUME NEW id \in kept
      PROVE  /\ Final(id).kind = itemsById[id].kind
             /\ Final(id).deleted = itemsById[id].deleted
  <2> HIDE DEF written
  <2>1. id \in DOMAIN itemsById /\ (id \in DOMAIN save.items => save.items[id] \in Item)
    BY <1>4, <1>5
  <2>2. LET new == [finalize(id, written) EXCEPT !.held = FALSE]
        IN  /\ new \in Item /\ finalize(id, written) \in Item
            /\ new.deleted = itemsById[id].deleted /\ new.kind = itemsById[id].kind
            /\ ~new.dirty => ~itemsById[id].dirty \/ (itemsById[id].held /\ id \in written)
    BY <1>3, <2>1, FinalizeFacts
  <2> QED
    BY <2>2
<1>10. ASSUME NEW id \in written
       PROVE  Kept(id, itemsById'[id].kind, content)
  <2>1. PICK i \in DOMAIN content : content[i].id = id
    BY DEF IdsOf
  <2>2. content[i].kind = snapshot[id].kind
    <3> HIDE DEF snapshot
    <3> QED
      BY <1>2, <1>3, <2>1, EntrySized
  <2>3. itemsById[id].kind = snapshot[id].kind
    BY <1>3, <1>4, <1>8 DEF Since, Grown, Successor
  <2>4. itemsById'[id].kind = itemsById[id].kind
    BY <1>6, <1>8, <1>9
  <2> QED
    BY <2>1, <2>2, <2>3, <2>4 DEF Kept
<1>11. ASSUME NEW id \in kept, ~itemsById[id].deleted
       PROVE  ItemOk(finalize(id, written), id, written, content)
  <2> DEFINE item == itemsById[id]
             saved == snapshot[id]
  <2>1. item \in Item /\ id \in DOMAIN itemsById /\ id \in Ids
    BY <1>4, <1>5
  <2>2. ItemOk(item, id, persistedItemIds, file)
    BY <1>3, <1>11, <2>1 DEF Tied
  <2>3. ASSUME id \notin written, item.copySource = NoId,
               item.kind # "inline" => id \notin persistedItemIds
        PROVE  ItemOk(item, id, written, content)
    BY <2>2, <2>3 DEF ItemOk, Of, TextSized, StrokeSized
  <2>4. CASE id \notin DOMAIN snapshot
    <3>1. finalize(id, written) = item
      BY <2>4 DEF finalize
    <3>2. item.copySource = NoId
      BY <1>3, <2>1, <2>4 DEF Since
    <3>3. id \notin written /\ id \notin persistedItemIds
      BY <1>3, <1>8, <2>4 DEF Stored
    <3> QED
      BY <2>3, <3>1, <3>2, <3>3
  <2>5. CASE id \in DOMAIN snapshot
    <3>1. Grown(item, saved) /\ saved \in Item /\ ~saved.deleted
      BY <1>3, <1>4, <1>11, <2>1, <2>5 DEF Since, Grown, Successor
    <3>2. /\ item.held => item = saved
          /\ ~item.held => item.dirty
      BY <1>3, <2>1 DEF HeldInv
    <3>3. id \in LiveIds(snapshot)
      BY <2>5, <3>1 DEF LiveIds
    <3>4. CASE id \notin written
      <4>1. finalize(id, written) = item
        BY <3>4 DEF finalize
      <4>2. bodyForStorage(snapshot, id, persistedItemIds, file) = NothingToWrite
        BY <1>2, <3>3, <3>4 DEF EntriesOf
      <4>3. persistedItemIds \subseteq DOMAIN snapshot
        BY <1>3 DEF Stored
      <4> DEFINE body == bodyForStorage(snapshot, id, persistedItemIds, file)
      <4> HIDE DEF snapshot
      <4>4. /\ body # Unwritable
            /\ snapshot[id].kind = "text" => body = <<snapshot[id].textLength>>
            /\ snapshot[id].kind = "children" /\ body # NothingToWrite =>
                  effectiveChildCount(snapshot[id]) \in DistinctPoints(body) .. Len(body)
            /\ body = NothingToWrite =>
                  /\ snapshot[id].kind = "children"
                  /\ id \notin persistedItemIds /\ snapshot[id].copySource = NoId
        BY <1>3, <3>3, <4>3, BodySized
      <4>5. id \notin persistedItemIds /\ saved.copySource = NoId
        BY <4>2, <4>4
      <4>6. item.copySource = NoId
        BY <3>1, <4>5 DEF Grown, Successor
      <4> QED
        BY <2>3, <3>4, <4>1, <4>5, <4>6
    <3>5. CASE id \in written
      <4>1. PICK i \in DOMAIN content : content[i].id = id
        BY <3>5 DEF IdsOf
      <4>2. /\ content[i].kind = saved.kind
            /\ saved.kind = "text" /\ (saved.dirty \/ KnownText(saved) = NoText) =>
                  content[i].body = <<saved.textLength>>
            /\ saved.kind = "children" =>
                  effectiveChildCount(saved) \in DistinctPoints(content[i].body) .. Len(content[i].body)
        <5> HIDE DEF snapshot
        <5>1. saved = snapshot[content[i].id]
          BY <4>1
        <5> HIDE DEF saved
        <5> QED
          BY <1>2, <1>3, <5>1, EntrySized
      <4>3. item.kind = "text" => item.modifiedText \in {NoText, item.textLength}
                                  /\ item.txt \in {NoText, item.textLength}
        BY <2>2 DEF ItemOk, TextSized
      <4> HIDE DEF item, saved
      <4>4. /\ item.dirty => ItemOk(Rebased(item, saved), id, written, content)
            /\ item = saved /\ item.dirty => ItemOk(Settled(item), id, written, content)
            /\ /\ item = saved /\ item.copySource = NoId /\ ~item.dirty
               /\ item.kind = "children" => item.appendedChildren = << >>
               => ItemOk(item, id, written, content)
        BY <1>2, <1>11, <2>1, <3>1, <4>1, <4>2, <4>3, StoredFits DEF item
      <4>5. ASSUME ~item.dirty
            PROVE  /\ item.copySource = NoId
                   /\ item.kind = "children" => item.appendedChildren = << >>
        <5>1. item = saved /\ id \in persistedItemIds
          BY <1>3, <2>5, <3>2, <4>5 DEF Stored, saved
        <5> QED
          BY <2>2, <4>5, <5>1 DEF ItemOk, StrokeSized, item
      <4>6. CASE ~item.held
        <5>1. finalize(id, written) = Rebased(item, saved)
          BY <2>5, <3>1, <3>5, <4>6 DEF finalize, item, saved
        <5> QED
          BY <3>2, <4>4, <4>6, <5>1 DEF item, saved
      <4>7. CASE item.held /\ item.dirty
        <5>1. finalize(id, written) = Settled(item)
          BY <2>5, <3>5, <4>7 DEF finalize, item
        <5> QED
          BY <3>2, <4>4, <4>7, <5>1 DEF item, saved
      <4>8. CASE item.held /\ ~item.dirty
        <5>1. finalize(id, written) = item
          BY <2>5, <4>5, <4>8 DEF finalize, item
        <5> QED
          BY <3>2, <4>4, <4>5, <4>8, <5>1 DEF item, saved
      <4> QED
        BY <4>6, <4>7, <4>8
    <3> QED
      BY <3>4, <3>5
  <2> QED
    BY <2>4, <2>5
<1>12. ASSUME NEW id \in kept, ~itemsById[id].deleted
       PROVE  ItemOk(itemsById'[id], id, written, content)
  <2> DEFINE one == finalize(id, written)
  <2>1. itemsById'[id] = [one EXCEPT !.held = FALSE]
    BY <1>6
  <2>2. one \in Item
    <3>1. id \in DOMAIN itemsById /\ (id \in DOMAIN save.items => save.items[id] \in Item)
      BY <1>4, <1>5
    <3> QED
      BY <1>3, <3>1, FinalizeFacts
  <2>3. ItemOk(one, id, written, content)
    BY <1>11, <1>12
  <2> HIDE DEF one
  <2> QED
    BY <2>1, <2>2, <2>3 DEF Item, ItemOk, Of, TextSized, StrokeSized, KnownText
<1>13. Tied(itemsById', written, content)
  BY <1>6, <1>9, <1>10, <1>12 DEF Tied
<1>14. Tied(itemsById', persistedItemIds', file')
  BY <1>1, <1>13
<1> QED
  BY <1>1, <1>14 DEF SizeInv

\* A loaded board continues what its file holds.
LEMMA LoadFits ==
    ASSUME IInv, Load
    PROVE  SizeInv'
<1> DEFINE ids == IdsOf(file)
           items == [id \in ids |-> canonicalItemFromStoredSvgEntry(EntryOf(id, file))]
<1>1. /\ persistedItemIds' = ids /\ itemsById' = items /\ save' = NoSave /\ file' = file
  BY DEF Load
<1>2. FileOk(file)
  BY DEF IInv, FileInv
<1>3. ASSUME NEW id \in ids
      PROVE  Kept(id, items[id].kind, file) /\ ItemOk(items[id], id, ids, file)
  <2>1. \E i \in DOMAIN file : file[i].id = id
    BY DEF IdsOf
  <2>2. PICK i \in DOMAIN file : EntryOf(id, file) = file[i] /\ file[i].id = id
    BY <2>1 DEF EntryOf
  <2> DEFINE entry == file[i]
             item == canonicalItemFromStoredSvgEntry(entry)
             fresh == NewItem(entry.kind)
  <2>3. EntryOk(entry) /\ \A j \in DOMAIN file : file[j].id = id => j = i
    BY <1>2, <2>2 DEF FileOk
  <2>4. entry.kind \in Kinds
    BY <2>3 DEF EntryOk, Entries
  <2>5. id \in Ids /\ id # NoId
    BY <2>2, <2>3, Bounds DEF EntryOk, Entries
  <2>6. items[id] = item
    BY <2>2
  <2>7. fresh \in Item /\ fresh.kind = entry.kind /\ fresh.copySource = NoId
    BY <2>4, NewItems
  <2>8. fresh.txt = NoText /\ fresh.appendedChildren = << >>
    BY DEF NewItem
  <2>9. /\ item.kind = entry.kind /\ item.copySource = NoId
        /\ item.modifiedText = NoText /\ item.txt = NoText
        /\ item.textLength = (IF entry.kind = "text" THEN entry.body[1] ELSE 0)
        /\ item.appendedChildren = << >>
        /\ item.persistedChildCount
             = (IF entry.kind = "children" THEN DistinctPoints(entry.body) ELSE 0)
    <3>1. item = [fresh EXCEPT !.look = entry.look, !.dirty = FALSE, !.modifiedText = NoText,
                               !.textLength = IF entry.kind = "text" THEN entry.body[1] ELSE 0,
                               !.persistedChildCount = IF entry.kind = "children"
                                                       THEN DistinctPoints(entry.body) ELSE 0]
      BY DEF canonicalItemFromStoredSvgEntry
    <3> HIDE DEF fresh, item, entry
    <3> QED
      BY <2>7, <2>8, <3>1 DEF Item
  <2> HIDE DEF item, entry
  <2>10. item.kind = "text" => TextSized(item, id, file)
    <3>1. entry.kind = "text" => entry.body = <<entry.body[1]>>
      BY <2>3 DEF EntryOk
    <3> QED
      BY <2>2, <2>3, <2>5, <2>9, <3>1 DEF TextSized, entry
  <2>11. ASSUME item.kind = "children"
         PROVE  StrokeSized(item, id, file)
    <3>1. entry.body \in Seq(Points)
      BY <2>3, <2>9, <2>11 DEF EntryOk
    <3>2. DistinctPoints(entry.body) \in DistinctPoints(entry.body) .. Len(entry.body)
      BY <3>1, PointsJoined
    <3> QED
      BY <2>2, <2>3, <2>5, <2>9, <2>11, <3>2 DEF StrokeSized, entry
  <2>12. Kept(id, item.kind, file)
    BY <2>2, <2>9 DEF Kept, entry
  <2>13. Of(item, id, ids) = id
    BY DEF Of
  <2> HIDE DEF ids, items
  <2>14. ItemOk(item, id, ids, file)
    BY <2>9, <2>10, <2>11, <2>12, <2>13 DEF ItemOk
  <2> QED
    BY <2>6, <2>12, <2>14
<1>4. DOMAIN items = ids
  OBVIOUS
<1> HIDE DEF items, ids
<1>5. Tied(items, ids, file)
  BY <1>3, <1>4 DEF Tied
<1>6. Tied(itemsById', persistedItemIds', file')
  BY <1>1, <1>5
<1> QED
  BY <1>1, <1>6 DEF SizeInv

\* Every turn keeps what the index knows of the stored content.
LEMMA SizeInvStep ==
    ASSUME ~ReuseIds, ~CopyDuringSave, IInv, SizeInv, [Next]_vars
    PROVE  SizeInv'
<1>1. ASSUME NEW m \in Messages, Accept(<<m>>) \/ Refuse(<<m>>) \/ DropSeed(m)
      PROVE  SizeInv'
  <2>1. <<m>> \in Seq(Messages)
    OBVIOUS
  <2>2. CASE Refuse(<<m>>)
    BY <2>2, RefuseFits DEF Refuse, Receive, index
  <2> QED
    BY <1>1, <2>1, <2>2, AcceptFits, DropSeedFits
<1>2. ASSUME NEW ms \in Batches, Accept(ms) \/ Refuse(ms)
      PROVE  SizeInv'
  <2>1. ms \in Seq(Messages)
    BY Bounds
  <2>2. CASE Refuse(ms)
    BY <2>2, RefuseFits DEF Refuse, Receive, index
  <2> QED
    BY <1>2, <2>1, <2>2, AcceptFits
<1>3. CASE StartSave
  BY <1>3, StartSaveFits
<1>4. CASE FinishSave
  BY <1>4, FinishSaveFits
<1>5. CASE FailSave
  BY <1>5, FailSaveFits
<1>6. CASE Load
  BY <1>6, LoadFits
<1>7. CASE UNCHANGED vars
  BY <1>7, RefuseFits DEF vars, index
<1> QED
  BY <1>1, <1>2, <1>3, <1>4, <1>5, <1>6, <1>7 DEF Next

\* The empty board continues nothing.
LEMMA SizeInvInit == Init => SizeInv
<1> SUFFICES ASSUME Init PROVE SizeInv
  OBVIOUS
<1>1. itemsById = << >> /\ persistedItemIds = {} /\ save = NoSave
  BY DEF Init
<1>2. DOMAIN itemsById = {}
  BY <1>1
<1> QED
  BY <1>1, <1>2 DEF SizeInv, Tied

\* The invariant is one of the behaviours in which ids are used once and nothing is
\* copied while a save is running.
LEMMA SizesKnown == ~ReuseIds /\ ~CopyDuringSave => (Spec => [](IInv /\ SizeInv))
<1> SUFFICES ASSUME ~ReuseIds, ~CopyDuringSave PROVE Spec => [](IInv /\ SizeInv)
  OBVIOUS
<1>1. (IInv /\ SizeInv) /\ [Next]_vars => (IInv /\ SizeInv)'
  BY IInvStep, IInvStutter, SizeInvStep
<1>2. Init => IInv /\ SizeInv
  BY IInvInit, SizeInvInit
<1> QED
  BY <1>1, <1>2, PTL DEF Spec

\* What the server knows of the stored content without decoding it is right: the text a
\* save would write has the length the index holds, and the stroke has as many points
\* (canonical_items.mjs, stored_svg_item_codec.mjs).
THEOREM SizesStayKnown == ~ReuseIds /\ ~CopyDuringSave => (Spec => []SizesAgree)
<1> SUFFICES ASSUME ~ReuseIds, ~CopyDuringSave PROVE Spec => []SizesAgree
  OBVIOUS
<1>1. IInv /\ SizeInv => SizesAgree
  <2> SUFFICES ASSUME IInv, SizeInv, NEW id \in LiveIds(itemsById),
                      NEW body, body = bodyForStorage(itemsById, id, persistedItemIds, file)
               PROVE  /\ itemsById[id].kind = "text" => body = <<itemsById[id].textLength>>
                      /\ itemsById[id].kind = "children" /\ body \notin {Unwritable, NothingToWrite} =>
                            effectiveChildCount(itemsById[id]) \in DistinctPoints(body) .. Len(body)
    BY DEF SizesAgree
  <2>1. /\ itemsById \in Maps /\ FileOk(file) /\ persistedItemIds = IdsOf(file)
        /\ persistedItemIds \subseteq DOMAIN itemsById
        /\ Tied(itemsById, persistedItemIds, file)
    BY DEF IInv, IndexInv, Listed, FileInv, Stored, SizeInv
  <2>2. /\ body # Unwritable
        /\ itemsById[id].kind = "text" => body = <<itemsById[id].textLength>>
        /\ itemsById[id].kind = "children" /\ body # NothingToWrite =>
              effectiveChildCount(itemsById[id]) \in DistinctPoints(body) .. Len(body)
        /\ body = NothingToWrite =>
              /\ itemsById[id].kind = "children"
              /\ id \notin persistedItemIds /\ itemsById[id].copySource = NoId
    BY <2>1, BodySized
  <2> QED
    BY <2>2
<1> QED
  BY <1>1, SizesKnown, PTL

\* Every snapshot can be saved: what a live item continues is in the file the save reads
\* (bodyForStorage, writeCanonicalBoardState).
THEOREM BoardsStayStorable == ~ReuseIds /\ ~CopyDuringSave => (Spec => []AlwaysStorable)
<1> SUFFICES ASSUME ~ReuseIds, ~CopyDuringSave PROVE Spec => []AlwaysStorable
  OBVIOUS
<1>1. IInv /\ SizeInv => AlwaysStorable
  <2> SUFFICES ASSUME IInv, SizeInv, save # NoSave, SaveRefused
               PROVE  FALSE
    BY DEF AlwaysStorable
  <2> DEFINE items == save.items
  <2>1. /\ items \in Maps /\ FileOk(file) /\ persistedItemIds = IdsOf(file)
        /\ persistedItemIds \subseteq DOMAIN items
        /\ Tied(items, persistedItemIds, file)
    BY DEF IInv, SaveInv, Listed, FileInv, Stored, SizeInv
  <2>2. CASE persistedItemIds = {}
    <3>1. PICK id \in LiveIds(items) : items[id].copySource # NoId
      BY <2>2 DEF SaveRefused, NeedsSource
    <3>2. ItemOk(items[id], id, persistedItemIds, file)
      BY <2>1 DEF Tied, LiveIds
    <3>3. \E i \in DOMAIN file : TRUE
      BY <2>2, <3>1, <3>2 DEF ItemOk, Of, Kept
    <3> QED
      BY <2>1, <2>2, <3>3 DEF IdsOf
  <2>3. CASE persistedItemIds # {}
    <3>1. PICK id \in LiveIds(items) :
             bodyForStorage(items, id, persistedItemIds, file) = Unwritable
      BY <2>3 DEF SaveRefused
    <3> DEFINE body == bodyForStorage(items, id, persistedItemIds, file)
    <3> HIDE DEF items
    <3>2. /\ body # Unwritable
          /\ items[id].kind = "text" => body = <<items[id].textLength>>
          /\ items[id].kind = "children" /\ body # NothingToWrite =>
                effectiveChildCount(items[id]) \in DistinctPoints(body) .. Len(body)
          /\ body = NothingToWrite =>
                /\ items[id].kind = "children"
                /\ id \notin persistedItemIds /\ items[id].copySource = NoId
      BY <2>1, BodySized
    <3> QED
      BY <3>1, <3>2
  <2> QED
    BY <2>2, <2>3
<1> QED
  BY <1>1, SizesKnown, PTL

-----------------------------------------------------------------------------
(* What the index and the file stand for *)

\* How an item is painted: its stored content and what was written since.
Painted(item, id, storedIds, f) ==
    [kind |-> item.kind, look |-> item.look,
     body |-> IF item.kind = "inline" THEN << >>
              ELSE IF item.kind = "text" THEN <<item.textLength>>
              ELSE (IF Of(item, id, storedIds) = NoId THEN << >>
                    ELSE EntryOf(Of(item, id, storedIds), f).body) \o item.appendedChildren]

Painting(items, storedIds, f) == [id \in LiveIds(items) |-> Painted(items[id], id, storedIds, f)]

\* The drawing of CanonicalItems for any index and file
DrawingOf(items, storedIds, f) ==
    [id \in LiveIds(items) |->
       LET body == bodyForStorage(items, id, storedIds, f)
       IN [kind |-> items[id].kind, look |-> items[id].look,
           body |-> IF body = NothingToWrite THEN items[id].appendedChildren ELSE body]]

\* What a file holds is what it paints.
FileDrawn(f) ==
    \A i \in DOMAIN f :
       /\ f[i].kind = "inline" => f[i].body = << >>
       /\ f[i].kind = "children" => f[i].body # << >>

\* An item that was not changed since the last save looks as it does in the file.
Agrees(items, f) ==
    \A id \in DOMAIN items :
       ~items[id].dirty =>
          \A i \in DOMAIN f :
             f[i].id = id =>
                /\ f[i].look = items[id].look
                /\ items[id].kind = "text" => f[i].body = <<items[id].textLength>>

DrawInv ==
    /\ FileDrawn(file) /\ Agrees(itemsById, file)
    /\ save # NoSave => Agrees(save.items, file)

\* The entry of an item is the only one with its id.
LEMMA EntryIs ==
    ASSUME NEW f, FileOk(f), NEW i \in DOMAIN f
    PROVE  EntryOf(f[i].id, f) = f[i]
<1>1. \A j \in DOMAIN f : f[j].id = f[i].id => j = i
  BY DEF FileOk
<1> DEFINE j == CHOOSE j \in DOMAIN f : f[j].id = f[i].id
<1>2. j \in DOMAIN f /\ f[j].id = f[i].id
  OBVIOUS
<1> HIDE DEF j
<1>3. j = i
  BY <1>1, <1>2
<1>4. EntryOf(f[i].id, f) = f[j]
  BY DEF EntryOf, j
<1> QED
  BY <1>3, <1>4

\* Nothing before a list
LEMMA NothingBefore ==
    ASSUME NEW S, NEW s \in Seq(S)
    PROVE  << >> \o s = s /\ s \o << >> = s
BY ConcatEmptySeq

\* The content that a live item continues
LEMMA ContinuesStored ==
    ASSUME NEW item, NEW id, NEW storedIds, NEW f, FileOk(f),
           ItemOk(item, id, storedIds, f),
           NEW of, of = Of(item, id, storedIds), of # NoId
    PROVE  \E i \in DOMAIN f : /\ f[i].id = of /\ f[i].kind = item.kind
                               /\ EntryOf(of, f) = f[i]
<1>1. PICK i \in DOMAIN f : f[i].id = of /\ f[i].kind = item.kind
  BY DEF ItemOk, Kept
<1>2. EntryOf(f[i].id, f) = f[i]
  BY EntryIs
<1> QED
  BY <1>1, <1>2

\* What a rewrite gives a live item, and that an item without a tag has no points
LEMMA BodyPainted ==
    ASSUME NEW items \in Maps, NEW id \in LiveIds(items), NEW storedIds, NEW f, FileOk(f),
           storedIds = IdsOf(f), storedIds \subseteq DOMAIN items, Tied(items, storedIds, f),
           NEW body, body = bodyForStorage(items, id, storedIds, f),
           NEW painted, painted = Painted(items[id], id, storedIds, f).body
    PROVE  /\ body # NothingToWrite => painted = body
           /\ body = NothingToWrite =>
                 /\ painted = << >> /\ items[id].appendedChildren = << >>
                 /\ items[id].kind = "children"
<1> DEFINE item == items[id]
           of == Of(item, id, storedIds)
           source == Source(items, id, storedIds, f)
<1>1. id \in DOMAIN items /\ ~item.deleted /\ item \in Item /\ id \in Ids
  BY MapFacts DEF LiveIds
<1>2. ItemOk(item, id, storedIds, f)
  BY <1>1 DEF Tied
<1>3. item.kind \in {"inline", "text", "children"} /\ item.appendedChildren \in Seq(Points)
  BY <1>1, ItemFacts DEF Kinds
<1>4. /\ item.kind = "text" => body = <<item.textLength>>
      /\ body = NothingToWrite =>
            item.kind = "children" /\ id \notin storedIds /\ item.copySource = NoId
  BY BodySized
<1>5. painted = IF item.kind = "inline" THEN << >>
                ELSE IF item.kind = "text" THEN <<item.textLength>>
                ELSE (IF of = NoId THEN << >> ELSE EntryOf(of, f).body) \o item.appendedChildren
  BY DEF Painted
<1>6. CASE item.kind = "inline"
  <2>1. body = << >>
    BY <1>6 DEF bodyForStorage
  <2> QED
    BY <1>4, <1>5, <1>6, <2>1
<1>7. CASE item.kind = "text"
  BY <1>4, <1>5, <1>7
<1>8. CASE item.kind = "children" /\ of # NoId
  <2>1. id \in storedIds \/ item.copySource # NoId
    BY <1>8 DEF Of
  <2>2. body = IF source = {} THEN Unwritable
               ELSE (CHOOSE b \in source : TRUE) \o item.appendedChildren
    BY <1>8, <2>1 DEF bodyForStorage
  <2>3. source # {} /\ \A b \in source :
           \E i \in DOMAIN f : f[i].id = of /\ f[i].kind = item.kind /\ b = f[i].body
    BY <1>2, <1>8, SourceKept
  <2> HIDE DEF source, of
  <2>4. PICK b \in source : body = b \o item.appendedChildren
    BY <2>2, <2>3
  <2>5. PICK i \in DOMAIN f : f[i].id = of /\ b = f[i].body
    BY <2>3, <2>4
  <2>6. EntryOf(of, f) = f[i]
    BY <2>5, EntryIs
  <2>7. painted = b \o item.appendedChildren
    BY <1>5, <1>8, <2>5, <2>6
  <2>8. body # NothingToWrite
    BY <1>4, <2>1
  <2> QED
    BY <2>4, <2>7, <2>8
<1>9. CASE item.kind = "children" /\ of = NoId
  <2>1. id \notin storedIds /\ item.copySource = NoId
    BY <1>1, <1>9, Bounds DEF Of
  <2>2. body = IF item.persistedChildCount = 0 /\ item.appendedChildren # << >>
               THEN item.appendedChildren ELSE NothingToWrite
    BY <1>9, <2>1 DEF bodyForStorage
  <2>3. item.persistedChildCount = 0
    BY <1>2, <1>9 DEF ItemOk, StrokeSized
  <2>4. painted = item.appendedChildren
    BY <1>3, <1>5, <1>9, NothingBefore
  <2>5. item.appendedChildren # NothingToWrite
    BY <1>3, Bounds DEF Bodies
  <2> QED
    BY <1>9, <2>2, <2>3, <2>4, <2>5
<1> QED
  BY <1>3, <1>6, <1>7, <1>8, <1>9

\* The drawing is the painting.
LEMMA DrawingIs ==
    ASSUME NEW items \in Maps, NEW storedIds, NEW f, FileOk(f),
           storedIds = IdsOf(f), storedIds \subseteq DOMAIN items, Tied(items, storedIds, f)
    PROVE  DrawingOf(items, storedIds, f) = Painting(items, storedIds, f)
<1> DEFINE Body(id) == bodyForStorage(items, id, storedIds, f)
           Drawn(id) == [kind |-> items[id].kind, look |-> items[id].look,
                         body |-> IF Body(id) = NothingToWrite THEN items[id].appendedChildren
                                  ELSE Body(id)]
<1>1. ASSUME NEW id \in LiveIds(items)
      PROVE  Drawn(id) = Painted(items[id], id, storedIds, f)
  <2> DEFINE painted == Painted(items[id], id, storedIds, f)
  <2>1. painted = [kind |-> items[id].kind, look |-> items[id].look, body |-> painted.body]
    BY DEF Painted
  <2>2. /\ Body(id) # NothingToWrite => painted.body = Body(id)
        /\ Body(id) = NothingToWrite =>
              /\ painted.body = << >> /\ items[id].appendedChildren = << >>
              /\ items[id].kind = "children"
    BY BodyPainted
  <2> HIDE DEF painted, Body
  <2>3. (IF Body(id) = NothingToWrite THEN items[id].appendedChildren ELSE Body(id)) = painted.body
    BY <2>2
  <2> QED
    BY <2>1, <2>3 DEF painted
<1>2. DrawingOf(items, storedIds, f) = [id \in LiveIds(items) |-> Drawn(id)]
  BY DEF DrawingOf
<1> HIDE DEF Drawn
<1> QED
  BY <1>1, <1>2 DEF Painting

-----------------------------------------------------------------------------
(* Mutations, one after another *)

\* What a list of mutations makes of a drawing, by way of g
Applies(g, doc, ms) ==
    /\ g = [k \in 0 .. Len(ms) |-> g[k]]
    /\ g[0] = doc
    /\ \A k \in 1 .. Len(ms) : g[k] = Board!Apply(g[k - 1], ms[k])

Leads(doc, ms, end) == \E g : Applies(g, doc, ms) /\ g[Len(ms)] = end

\* That is what every collaborator sees.
LEMMA LeadsTo ==
    ASSUME NEW doc, NEW ms, Len(ms) \in Nat, NEW end, Leads(doc, ms, end)
    PROVE  Board!ApplyAll(doc, ms) = end
<1>1. PICK n \in Nat : n = Len(ms)
  OBVIOUS
<1>2. PICK g : Applies(g, doc, ms) /\ g[n] = end
  BY <1>1 DEF Leads
<1> DEFINE upTo[k \in 0 .. Len(ms)] == IF k = 0 THEN doc ELSE Board!Apply(upTo[k - 1], ms[k])
           Body(f) == [k \in 0 .. n |-> IF k = 0 THEN doc ELSE Board!Apply(f[k - 1], ms[k])]
<1>3. g = [k \in 0 .. n |-> g[k]] /\ g[0] = doc
      /\ \A k \in 1 .. n : g[k] = Board!Apply(g[k - 1], ms[k])
  BY <1>1, <1>2 DEF Applies
<1>4. g = Body(g)
  <2>1. \A k \in 0 .. n : k = 0 \/ k \in 1 .. n
    BY <1>1
  <2>2. \A k \in 0 .. n : g[k] = IF k = 0 THEN doc ELSE Board!Apply(g[k - 1], ms[k])
    BY <1>3, <2>1
  <2>3. [k \in 0 .. n |-> g[k]] = Body(g)
    BY <2>2
  <2> QED
    BY <1>3, <2>3
<1>5. upTo = CHOOSE f : f = Body(f)
  BY <1>1
<1>6. upTo = Body(upTo)
  <2> HIDE DEF upTo, Body
  <2> QED
    BY <1>4, <1>5
<1>7. Board!ApplyAll(doc, ms) = upTo[n]
  BY <1>1 DEF Board!ApplyAll, upTo
<1> HIDE DEF upTo
<1>8. 0 \in 0 .. n /\ n \in 0 .. n
  BY <1>1
<1> DEFINE G == {k \in 0 .. n : upTo[k] = g[k]}
<1>9. 0 \in G
  BY <1>3, <1>6, <1>8
<1>10. \A k \in 0 .. n - 1 : k \in G => k + 1 \in G
  <2> SUFFICES ASSUME NEW k \in 0 .. n - 1, k \in G
               PROVE  k + 1 \in G
    OBVIOUS
  <2>1. k + 1 \in 0 .. n /\ k + 1 \in 1 .. n /\ k + 1 # 0 /\ k + 1 - 1 = k
    BY <1>1
  <2>2. upTo[k + 1] = Board!Apply(upTo[k], ms[k + 1])
    BY <1>6, <2>1
  <2>3. g[k + 1] = Board!Apply(g[k], ms[k + 1])
    <3>1. g[k + 1] = Board!Apply(g[k + 1 - 1], ms[k + 1])
      BY <1>3, <2>1
    <3> QED
      BY ONLY <2>1, <3>1
  <2> QED
    BY <2>1, <2>2, <2>3
<1> HIDE DEF G
<1>11. \A k \in 0 .. n : k \in G
  BY <1>9, <1>10, UpTo
<1> QED
  BY <1>2, <1>7, <1>8, <1>11 DEF G

\* No mutation leads nowhere else.
LEMMA LeadsNowhere ==
    ASSUME NEW doc
    PROVE  Leads(doc, << >>, doc)
<1> DEFINE g == [k \in 0 .. 0 |-> doc]
<1>1. Len(<< >>) = 0 /\ g[0] = doc
  OBVIOUS
<1>2. g = [k \in 0 .. 0 |-> g[k]] /\ \A k \in 1 .. 0 : FALSE
  OBVIOUS
<1> HIDE DEF g
<1>3. Applies(g, doc, << >>)
  BY <1>1, <1>2 DEF Applies
<1> QED
  BY <1>1, <1>3 DEF Leads

\* A list of mutations after another
LEMMA LeadsOn ==
    ASSUME NEW S, NEW ms \in Seq(S), NEW T, NEW more \in Seq(T), S \subseteq T,
           NEW doc, NEW mid, NEW end, Leads(doc, ms, mid), Leads(mid, more, end)
    PROVE  Leads(doc, ms \o more, end)
<1>1. ms \in Seq(T)
  <2>1. \A i \in DOMAIN ms : ms[i] \in T
    BY ElementOfSeq, LenProperties
  <2> QED
    BY <2>1, Retyped
<1>2. PICK n \in Nat : n = Len(ms)
  BY LenProperties
<1>3. PICK l \in Nat : l = Len(more)
  BY LenProperties
<1> DEFINE all == ms \o more
<1>4. Len(all) = n + l /\ \A k \in 1 .. n + l : all[k] = IF k <= n THEN ms[k] ELSE more[k - n]
  BY <1>1, <1>2, <1>3, ConcatProperties
<1> HIDE DEF all
<1>5. PICK g : Applies(g, doc, ms) /\ g[n] = mid
  BY <1>2 DEF Leads
<1>6. PICK h : Applies(h, mid, more) /\ h[l] = end
  BY <1>3 DEF Leads
<1> DEFINE f == [k \in 0 .. n + l |-> IF k <= n THEN g[k] ELSE h[k - n]]
<1>7. g[0] = doc /\ \A k \in 1 .. n : g[k] = Board!Apply(g[k - 1], ms[k])
  BY <1>2, <1>5 DEF Applies
<1>8. h[0] = mid /\ \A k \in 1 .. l : h[k] = Board!Apply(h[k - 1], more[k])
  BY <1>3, <1>6 DEF Applies
<1>9. \A k \in 0 .. n + l : f[k] = IF k <= n THEN g[k] ELSE h[k - n]
  OBVIOUS
<1>10. f[0] = doc
  BY <1>7, <1>9
<1>11. f[n + l] = end
  <2>1. CASE l = 0
    BY <1>5, <1>6, <1>8, <1>9, <2>1
  <2>2. CASE l # 0
    <3>1. n + l \in 0 .. n + l /\ ~(n + l <= n) /\ n + l - n = l
      BY <2>2
    <3> QED
      BY <1>6, <1>9, <3>1
  <2> QED
    BY <2>1, <2>2
<1>12. f = [k \in 0 .. n + l |-> f[k]]
  OBVIOUS
<1> HIDE DEF f
<1>13. ASSUME NEW k \in 1 .. n + l
       PROVE  f[k] = Board!Apply(f[k - 1], all[k])
  <2>1. k \in 0 .. n + l /\ k - 1 \in 0 .. n + l
    OBVIOUS
  <2>2. CASE k <= n
    <3>1. k \in 1 .. n /\ k - 1 <= n
      BY <2>2
    <3>2. f[k] = g[k] /\ f[k - 1] = g[k - 1] /\ all[k] = ms[k]
      BY <1>4, <1>9, <2>1, <2>2, <3>1
    <3> QED
      BY <1>7, <3>1, <3>2
  <2>3. CASE k = n + 1
    <3>1. 1 \in 1 .. l /\ ~(k <= n) /\ k - n = 1 /\ k - 1 = n /\ n <= n /\ 1 - 1 = 0
      BY <2>3
    <3>2. f[k] = h[1] /\ all[k] = more[1]
      BY <1>4, <1>9, <2>1, <3>1
    <3>3. f[k - 1] = mid
      BY <1>5, <1>9, <2>1, <3>1
    <3>4. h[1] = Board!Apply(h[0], more[1])
      <4>1. h[1] = Board!Apply(h[1 - 1], more[1])
        BY <1>8, <3>1
      <4> QED
        BY ONLY <3>1, <4>1
    <3> QED
      BY <1>8, <3>2, <3>3, <3>4
  <2>4. CASE k > n + 1
    <3>1. k - n \in 1 .. l /\ ~(k <= n) /\ ~(k - 1 <= n) /\ k - 1 - n = k - n - 1
      BY <2>4
    <3>2. f[k] = h[k - n] /\ f[k - 1] = h[k - 1 - n] /\ all[k] = more[k - n]
      BY <1>4, <1>9, <2>1, <3>1
    <3>3. h[k - n] = Board!Apply(h[k - n - 1], more[k - n])
      BY <1>8, <3>1
    <3> QED
      BY ONLY <3>1, <3>2, <3>3
  <2> QED
    BY <2>2, <2>3, <2>4
<1>14. Applies(f, doc, all)
  BY <1>4, <1>10, <1>12, <1>13 DEF Applies
<1> QED
  BY <1>4, <1>11, <1>14 DEF Leads, all

\* What is left after the items of a list were erased
Left(doc, gone) == [id \in DOMAIN doc \ ToSet(gone) |-> doc[id]]

\* That is what their removals lead to.
LEMMA Erasures ==
    ASSUME NEW D, NEW doc, doc = [id \in D |-> doc[id]],
           NEW S, NEW gone \in Seq(S),
           NEW ms, ms = [i \in DOMAIN gone |-> eraserDeleteMutation(gone[i])]
    PROVE  Leads(doc, ms, Left(doc, gone)) /\ ms \in Seq([type : {"delete"}, id : S])
<1>1. PICK n \in Nat : n = Len(gone) /\ DOMAIN gone = 1 .. n
  BY LenProperties
<1>2. ms \in Seq([type : {"delete"}, id : S]) /\ Len(ms) = n
  <2>1. \A i \in 1 .. n : gone[i] \in S
    BY <1>1, ElementOfSeq
  <2>2. ms \in [1 .. n -> [type : {"delete"}, id : S]]
    BY <1>1, <2>1 DEF eraserDeleteMutation
  <2> QED
    BY <2>2, <1>1, SeqDef, LenProperties
<1> DEFINE First(k) == {gone[i] : i \in 1 .. k}
           Remains(k) == [id \in D \ First(k) |-> doc[id]]
           g == [k \in 0 .. n |-> Remains(k)]
<1>3. DOMAIN doc = D
  <2> DEFINE d == [id \in D |-> doc[id]]
  <2>1. DOMAIN d = D
    OBVIOUS
  <2> HIDE DEF d
  <2> QED
    BY <2>1 DEF d
<1>4. g[0] = doc
  <2>1. First(0) = {}
    OBVIOUS
  <2>2. Remains(0) = doc
    BY <2>1
  <2> HIDE DEF Remains
  <2> QED
    BY <2>2
<1>5. g[n] = Left(doc, gone)
  <2>1. First(n) = ToSet(gone)
    BY <1>1 DEF ToSet
  <2>2. Remains(n) = Left(doc, gone)
    BY <1>3, <2>1 DEF Left
  <2> HIDE DEF Remains
  <2> QED
    BY <2>2
<1>6. ASSUME NEW k \in 1 .. n
      PROVE  Remains(k) = Board!Apply(Remains(k - 1), ms[k])
  <2>1. ms[k].type = "delete" /\ ms[k].id = gone[k]
    BY <1>1 DEF eraserDeleteMutation
  <2>2. Board!Apply(Remains(k - 1), ms[k]) = Board!Without(Remains(k - 1), gone[k])
    BY <2>1 DEF Board!Apply
  <2>3. First(k) = First(k - 1) \cup {gone[k]}
    <3>1. 1 .. k = (1 .. k - 1) \cup {k}
      OBVIOUS
    <3> QED
      BY <3>1
  <2>4. Board!Without(Remains(k - 1), gone[k])
          = [id \in (D \ First(k - 1)) \ {gone[k]} |-> doc[id]]
    BY DEF Board!Without
  <2>5. (D \ First(k - 1)) \ {gone[k]} = D \ First(k)
    BY <2>3
  <2> HIDE DEF First
  <2> QED
    BY <2>2, <2>4, <2>5
<1>7. \A k \in 0 .. n : g[k] = Remains(k)
  OBVIOUS
<1>8. g = [k \in 0 .. n |-> g[k]]
  OBVIOUS
<1>9. \A k \in 1 .. n : k \in 0 .. n /\ k - 1 \in 0 .. n
  OBVIOUS
<1> HIDE DEF g, Remains
<1>10. \A k \in 1 .. n : g[k] = Board!Apply(g[k - 1], ms[k])
  BY <1>6, <1>7, <1>9
<1>11. Applies(g, doc, ms)
  BY <1>2, <1>4, <1>8, <1>10 DEF Applies
<1> QED
  BY <1>2, <1>5, <1>11 DEF Leads

-----------------------------------------------------------------------------
(* One mutation, as the index and as a collaborator make it *)

IsDrawing(doc) == doc = [id \in DOMAIN doc |-> doc[id]]

\* A painting is a drawing of the live items.
LEMMA PaintingFacts ==
    ASSUME NEW items, NEW storedIds, NEW f,
           NEW doc, doc = Painting(items, storedIds, f)
    PROVE  /\ DOMAIN doc = LiveIds(items)
           /\ IsDrawing(doc)
           /\ \A id \in LiveIds(items) : doc[id] = Painted(items[id], id, storedIds, f)
<1> DEFINE d == Painting(items, storedIds, f)
<1>1. d = [id \in LiveIds(items) |-> Painted(items[id], id, storedIds, f)]
  BY DEF Painting
<1>2. DOMAIN d = LiveIds(items)
      /\ \A id \in LiveIds(items) : d[id] = Painted(items[id], id, storedIds, f)
  BY <1>1
<1>3. d = [id \in LiveIds(items) |-> d[id]]
  BY <1>1
<1>4. IsDrawing(d)
  BY <1>2, <1>3 DEF IsDrawing
<1> QED
  BY <1>2, <1>4

\* Maps that differ in one place
SameBut(new, items, id) ==
    /\ DOMAIN new = DOMAIN items \cup {id}
    /\ \A other \in DOMAIN items : other # id => new[other] = items[other]

\* A map with another item in one place
LEMMA PaintOne ==
    ASSUME NEW items, NEW new, NEW id, SameBut(new, items, id), NEW storedIds, NEW f,
           NEW doc, doc = Painting(items, storedIds, f)
    PROVE  /\ new[id].deleted => Painting(new, storedIds, f) = Board!Without(doc, id)
           /\ ~new[id].deleted =>
                 Painting(new, storedIds, f) = Board!With(doc, id, Painted(new[id], id, storedIds, f))
<1>1. /\ DOMAIN doc = LiveIds(items)
      /\ \A other \in LiveIds(items) : doc[other] = Painted(items[other], other, storedIds, f)
  BY PaintingFacts
<1> USE DEF SameBut
<1>2. CASE new[id].deleted
  <2>1. LiveIds(new) = LiveIds(items) \ {id}
    BY <1>2 DEF LiveIds
  <2>2. \A other \in LiveIds(items) \ {id} :
           doc[other] = Painted(new[other], other, storedIds, f)
    BY <1>1 DEF LiveIds
  <2>3. Board!Without(doc, id) = [other \in LiveIds(items) \ {id} |-> doc[other]]
    BY <1>1 DEF Board!Without
  <2>4. Painting(new, storedIds, f)
          = [other \in LiveIds(items) \ {id} |-> Painted(new[other], other, storedIds, f)]
    BY <2>1 DEF Painting
  <2> QED
    BY <1>2, <2>2, <2>3, <2>4
<1>3. CASE ~new[id].deleted
  <2> DEFINE entry == Painted(new[id], id, storedIds, f)
  <2>1. LiveIds(new) = LiveIds(items) \cup {id}
    BY <1>3 DEF LiveIds
  <2>2. \A other \in LiveIds(items) \cup {id} :
           (IF other = id THEN entry ELSE doc[other]) = Painted(new[other], other, storedIds, f)
    BY <1>1 DEF LiveIds
  <2>3. Board!With(doc, id, entry)
          = [other \in LiveIds(items) \cup {id} |-> IF other = id THEN entry ELSE doc[other]]
    BY <1>1 DEF Board!With
  <2>4. Painting(new, storedIds, f)
          = [other \in LiveIds(items) \cup {id} |-> Painted(new[other], other, storedIds, f)]
    BY <2>1 DEF Painting
  <2> HIDE DEF entry
  <2>5. Painting(new, storedIds, f) = Board!With(doc, id, entry)
    BY <2>2, <2>3, <2>4
  <2> QED
    BY <1>3, <2>5 DEF entry
<1> QED
  BY <1>2, <1>3

\* An entry with another look or another body
WithLook(entry, look) == [entry EXCEPT !.look = look]
WithBody(entry, body) == [entry EXCEPT !.body = body]

\* What a collaborator changes of one entry
LEMMA AppliedToOne ==
    ASSUME NEW doc, IsDrawing(doc), NEW m, m.id \in DOMAIN doc,
           NEW entry, entry = doc[m.id]
    PROVE  /\ m.type = "update" =>
                 Board!Apply(doc, m) = Board!With(doc, m.id, WithLook(entry, m.look))
           /\ m.type = "write" =>
                 Board!Apply(doc, m) = Board!With(doc, m.id, WithBody(entry, <<m.text>>))
           /\ m.type = "append" =>
                 Board!Apply(doc, m)
                   = Board!With(doc, m.id, WithBody(entry, Append(entry.body, m.point)))
<1> DEFINE D == DOMAIN doc
           id == m.id
<1>1. D \cup {id} = D /\ doc = [x \in D |-> doc[x]]
  BY DEF IsDrawing
<1>2. ASSUME NEW new
      PROVE  Board!With(doc, id, new) = [doc EXCEPT ![id] = new]
  <2>1. Board!With(doc, id, new) = [x \in D |-> IF x = id THEN new ELSE doc[x]]
    BY <1>1 DEF Board!With
  <2>2. [doc EXCEPT ![id] = new] = [x \in D |-> IF x = id THEN new ELSE doc[x]]
    BY <1>1
  <2> QED
    BY <2>1, <2>2
<1>3. ASSUME m.type = "update"
      PROVE  Board!Apply(doc, m) = Board!With(doc, m.id, WithLook(entry, m.look))
  <2>1. Board!Apply(doc, m) = [doc EXCEPT ![m.id].look = m.look]
    BY <1>3 DEF Board!Apply
  <2>2. Board!Apply(doc, m) = [doc EXCEPT ![m.id] = WithLook(entry, m.look)]
    BY <2>1 DEF WithLook
  <2> QED
    BY <1>2, <2>2
<1>4. ASSUME m.type = "write"
      PROVE  Board!Apply(doc, m) = Board!With(doc, m.id, WithBody(entry, <<m.text>>))
  <2>1. Board!Apply(doc, m) = [doc EXCEPT ![m.id].body = <<m.text>>]
    BY <1>4 DEF Board!Apply
  <2>2. Board!Apply(doc, m) = [doc EXCEPT ![m.id] = WithBody(entry, <<m.text>>)]
    BY <2>1 DEF WithBody
  <2> QED
    BY <1>2, <2>2
<1>5. ASSUME m.type = "append"
      PROVE  Board!Apply(doc, m)
               = Board!With(doc, m.id, WithBody(entry, Append(entry.body, m.point)))
  <2>1. Board!Apply(doc, m) = [doc EXCEPT ![m.id].body = Append(@, m.point)]
    BY <1>5 DEF Board!Apply
  <2>2. Board!Apply(doc, m) = [doc EXCEPT ![m.id] = WithBody(entry, Append(entry.body, m.point))]
    BY <2>1 DEF WithBody
  <2> QED
    BY <1>2, <2>2
<1> QED
  BY <1>3, <1>4, <1>5

\* A new item
LEMMA NewPainted ==
    ASSUME NEW kind \in Kinds, NEW id, NEW storedIds, id \notin storedIds, NEW f
    PROVE  Painted(NewItem(kind), id, storedIds, f) = Board!NewEntry(kind)
<1> DEFINE item == NewItem(kind)
<1>1. /\ item.kind = kind /\ item.copySource = NoId /\ item.textLength = 0
      /\ item.appendedChildren = << >>
      /\ item.look = IF kind = "inline" THEN "seed" ELSE "drawn"
  BY DEF NewItem
<1>2. Of(item, id, storedIds) = NoId
  BY <1>1 DEF Of
<1>3. kind \in {"inline", "text", "children"}
  BY DEF Kinds
<1>4. << >> \o << >> = << >>
  OBVIOUS
<1> HIDE DEF item
<1>5. Painted(item, id, storedIds, f)
        = [kind |-> kind, look |-> IF kind = "inline" THEN "seed" ELSE "drawn",
           body |-> IF kind = "text" THEN <<0>> ELSE << >>]
  BY <1>1, <1>2, <1>3, <1>4 DEF Painted
<1> QED
  BY <1>5 DEF Board!NewEntry, item

\* A copy is painted as its original.
LEMMA CopyPainted ==
    ASSUME NEW old \in Item, NEW id \in Ids, NEW newid, NEW storedIds, NEW f,
           newid \notin storedIds, ItemOk(old, id, storedIds, f)
    PROVE  Painted(copyCanonicalItem(old, id, storedIds), newid, storedIds, f)
             = Painted(old, id, storedIds, f)
<1> DEFINE source == IF old.kind = "children" \/ (old.kind = "text" /\ old.modifiedText = NoText)
                     THEN SourceOf(old, id, storedIds) ELSE NoId
           new == copyCanonicalItem(old, id, storedIds)
<1>1. new = [old EXCEPT !.dirty = TRUE, !.held = FALSE, !.copySource = source]
  BY DEF copyCanonicalItem
<1>2. SourceOf(old, id, storedIds) = Of(old, id, storedIds)
  BY DEF SourceOf, Of, ItemOk
<1>3. old.kind = "children" => source = Of(old, id, storedIds)
  BY <1>2
<1>4. /\ new.kind = old.kind /\ new.look = old.look /\ new.textLength = old.textLength
      /\ new.appendedChildren = old.appendedChildren /\ new.copySource = source
  <2> HIDE DEF source, new
  <2> QED
    BY <1>1 DEF Item
<1>5. Of(new, newid, storedIds) = source
  BY <1>4 DEF Of
<1>6. old.kind \in {"inline", "text", "children"}
  BY ItemFacts DEF Kinds
<1> HIDE DEF source, new
<1> QED
  BY <1>3, <1>4, <1>5, <1>6 DEF Painted, new

\* The fields of such an entry
LEMMA EntryWith ==
    ASSUME NEW kind, NEW look, NEW body, NEW value,
           NEW entry, entry = [kind |-> kind, look |-> look, body |-> body]
    PROVE  /\ WithLook(entry, value) = [kind |-> kind, look |-> value, body |-> body]
           /\ WithBody(entry, value) = [kind |-> kind, look |-> look, body |-> value]
BY DEF WithLook, WithBody

\* An update, a text or a point
LEMMA ChangePainted ==
    ASSUME NEW items \in Maps, NEW m \in Messages, m.type \in {"update", "write", "append"},
           ~Refuses(items, m), m.type = "write" => items[m.id].kind = "text",
           NEW storedIds, NEW f, FileOk(f), ItemOk(items[m.id], m.id, storedIds, f),
           NEW old, old = Painted(items[m.id], m.id, storedIds, f),
           NEW new, new = Painted(prepareMutation(items, m), m.id, storedIds, f)
    PROVE  /\ m.type = "update" => new = WithLook(old, m.look)
           /\ m.type = "write" => new = WithBody(old, <<m.text>>)
           /\ m.type = "append" => new = WithBody(old, Append(old.body, m.point))
<1> DEFINE item == items[m.id]
           next == prepareMutation(items, m)
           base == IF Of(item, m.id, storedIds) = NoId THEN << >>
                   ELSE EntryOf(Of(item, m.id, storedIds), f).body
<1>1. m.id \in DOMAIN items /\ ~item.deleted /\ item \in Item
  BY MapFacts DEF Refuses, Live
<1>2. old = [kind |-> item.kind, look |-> item.look,
             body |-> IF item.kind = "inline" THEN << >>
                      ELSE IF item.kind = "text" THEN <<item.textLength>>
                      ELSE base \o item.appendedChildren]
  BY DEF Painted
<1>3. next.copySource = item.copySource =>
        new = [kind |-> next.kind, look |-> next.look,
               body |-> IF next.kind = "inline" THEN << >>
                        ELSE IF next.kind = "text" THEN <<next.textLength>>
                        ELSE base \o next.appendedChildren]
  BY DEF Painted, Of
<1>4. CASE m.type = "update"
  <2>1. next = [Changed(item) EXCEPT !.look = m.look]
    BY <1>4 DEF prepareMutation
  <2>2. /\ next.kind = item.kind /\ next.copySource = item.copySource /\ next.look = m.look
        /\ next.textLength = item.textLength /\ next.appendedChildren = item.appendedChildren
    BY <1>1, <2>1 DEF Changed, Item
  <2> DEFINE body == IF item.kind = "inline" THEN << >>
                     ELSE IF item.kind = "text" THEN <<item.textLength>>
                     ELSE base \o item.appendedChildren
  <2> HIDE DEF next, base, item
  <2>3. old = [kind |-> item.kind, look |-> item.look, body |-> body]
    BY <1>2
  <2>4. new = [kind |-> item.kind, look |-> m.look, body |-> body]
    BY <1>3, <2>2
  <2> HIDE DEF body
  <2>5. WithLook(old, m.look) = [kind |-> item.kind, look |-> m.look, body |-> body]
    BY ONLY <2>3, EntryWith
  <2> QED
    BY ONLY <1>4, <2>4, <2>5
<1>5. CASE m.type = "write"
  <2>1. next = [Changed(item) EXCEPT !.modifiedText = m.text, !.txt = m.text, !.textLength = m.text]
    BY <1>5 DEF prepareMutation
  <2>2. /\ next.kind = item.kind /\ next.copySource = item.copySource /\ next.look = item.look
        /\ next.textLength = m.text /\ next.appendedChildren = item.appendedChildren
        /\ item.kind = "text"
    BY <1>1, <1>5, <2>1 DEF Changed, Item
  <2> HIDE DEF next, base, item
  <2>3. old = [kind |-> item.kind, look |-> item.look, body |-> <<item.textLength>>]
    BY <1>2, <2>2
  <2>4. new = [kind |-> item.kind, look |-> item.look, body |-> <<m.text>>]
    BY <1>3, <2>2
  <2>5. WithBody(old, <<m.text>>) = [kind |-> item.kind, look |-> item.look, body |-> <<m.text>>]
    BY ONLY <2>3, EntryWith
  <2> QED
    BY ONLY <1>5, <2>4, <2>5
<1>6. CASE m.type = "append"
  <2>1. next = [Changed(item) EXCEPT !.appendedChildren = Append(@, m.point)]
    BY <1>6 DEF prepareMutation
  <2>2. /\ next.kind = item.kind /\ next.copySource = item.copySource /\ next.look = item.look
        /\ next.textLength = item.textLength
        /\ next.appendedChildren = Append(item.appendedChildren, m.point)
    BY <1>1, <2>1 DEF Changed, Item
  <2>3. item.kind = "children"
    BY <1>6 DEF Refuses
  <2>4. item.appendedChildren \in Seq(Points) /\ m.point \in Points
    BY <1>1, <1>6, ItemFacts, MessageFacts
  <2>5. base \in Seq(Points)
    <3>1. CASE Of(item, m.id, storedIds) = NoId
      BY <3>1
    <3>2. CASE Of(item, m.id, storedIds) # NoId
      <4> DEFINE of == Of(item, m.id, storedIds)
      <4>1. PICK i \in DOMAIN f : f[i].kind = item.kind /\ EntryOf(of, f) = f[i]
        BY <3>2, ContinuesStored
      <4>2. EntryOk(f[i])
        BY DEF FileOk
      <4> QED
        BY <2>3, <3>2, <4>1, <4>2 DEF EntryOk
    <3> QED
      BY <3>1, <3>2
  <2> HIDE DEF next, base, item
  <2>6. base \o Append(item.appendedChildren, m.point) = Append(base \o item.appendedChildren, m.point)
    BY <2>4, <2>5
  <2> DEFINE body == base \o item.appendedChildren
             more == Append(old.body, m.point)
  <2>7. old = [kind |-> item.kind, look |-> item.look, body |-> body]
    BY <1>2, <2>3
  <2>8. new = [kind |-> item.kind, look |-> item.look,
               body |-> base \o Append(item.appendedChildren, m.point)]
    BY <1>3, <2>2, <2>3
  <2>9. more = base \o Append(item.appendedChildren, m.point)
    BY ONLY <2>6, <2>7
  <2> HIDE DEF body, more
  <2>10. WithBody(old, more) = [kind |-> item.kind, look |-> item.look, body |-> more]
    BY ONLY <2>7, EntryWith
  <2>11. new = WithBody(old, more)
    BY ONLY <2>8, <2>9, <2>10
  <2> QED
    BY ONLY <1>6, <2>11 DEF more
<1> QED
  BY <1>4, <1>5, <1>6

\* What the next mutation reads through an overlay with one more item
LEMMA SeenAdding ==
    ASSUME itemsById \in Maps, NEW o, OverlayOk(o), NEW p, OverlayOk(p),
           NEW id \in Ids,
           DOMAIN p.items = DOMAIN o.items \cup {id},
           \A other \in DOMAIN o.items : other # id => p.items[other] = o.items[other],
           p.clear = o.clear
    PROVE  /\ DOMAIN Seen(p) = DOMAIN Seen(o) \cup {id}
           /\ Seen(p)[id] = p.items[id]
           /\ \A other \in DOMAIN Seen(o) : other # id => Seen(p)[other] = Seen(o)[other]
<1>1. o.items \in Maps /\ p.items \in Maps
  BY DEF OverlayOk, Overlays
<1>2. CASE o.clear
  BY <1>2 DEF Seen
<1>3. CASE ~o.clear
  <2>1. Seen(o) = Over(o.items, itemsById) /\ Seen(p) = Over(p.items, itemsById)
    BY <1>3 DEF Seen
  <2>2. /\ DOMAIN Over(o.items, itemsById) = DOMAIN o.items \cup DOMAIN itemsById
        /\ \A x \in DOMAIN o.items : Over(o.items, itemsById)[x] = o.items[x]
        /\ \A x \in DOMAIN itemsById \ DOMAIN o.items : Over(o.items, itemsById)[x] = itemsById[x]
    BY ONLY <1>1, itemsById \in Maps, OverFacts
  <2>3. /\ DOMAIN Over(p.items, itemsById) = DOMAIN p.items \cup DOMAIN itemsById
        /\ \A x \in DOMAIN p.items : Over(p.items, itemsById)[x] = p.items[x]
        /\ \A x \in DOMAIN itemsById \ DOMAIN p.items : Over(p.items, itemsById)[x] = itemsById[x]
    BY ONLY <1>1, itemsById \in Maps, OverFacts
  <2> QED
    BY <2>1, <2>2, <2>3
<1> QED
  BY <1>2, <1>3

\* What a live item of the overlay or of the index continues is kept.
LEMMA SeenFits ==
    ASSUME itemsById \in Maps, Tied(itemsById, persistedItemIds, file),
           NEW o, OverlayOk(o), OverlayFits(o), NEW id, Live(Seen(o), id)
    PROVE  /\ Seen(o)[id] \in Item /\ id \in Ids
           /\ ItemOk(Seen(o)[id], id, persistedItemIds, file)
<1>1. /\ Seen(o) \in Maps
      /\ \A x \in DOMAIN o.items : x \in DOMAIN Seen(o) /\ Seen(o)[x] = o.items[x]
      /\ \A x \in DOMAIN Seen(o) :
            x \notin DOMAIN o.items =>
               ~o.clear /\ x \in DOMAIN itemsById /\ Seen(o)[x] = itemsById[x]
  BY SeenFacts
<1>2. id \in DOMAIN Seen(o) /\ ~Seen(o)[id].deleted
  BY DEF Live
<1>3. Seen(o)[id] \in Item /\ id \in Ids
  BY <1>1, <1>2, MapFacts
<1>4. CASE id \in DOMAIN o.items
  BY <1>1, <1>2, <1>3, <1>4 DEF OverlayFits, Fits
<1>5. CASE id \notin DOMAIN o.items
  BY <1>1, <1>2, <1>3, <1>5 DEF Tied
<1> QED
  BY <1>3, <1>4, <1>5

\* What a mutation prepares is painted as a collaborator paints it.
LEMMA PreparedPaints ==
    ASSUME NEW items \in Maps, NEW m \in Messages, m.type \notin {"clear", "delete"},
           ~Refuses(items, m), m.type = "write" => items[m.id].kind = "text",
           FileOk(file),
           \A id : Live(items, id) => ItemOk(items[id], id, persistedItemIds, file),
           m.type \in {"create", "copy"} => Target(m) \notin persistedItemIds,
           NEW doc, doc = Painting(items, persistedItemIds, file)
    PROVE  Board!With(doc, Target(m),
                      Painted(prepareMutation(items, m), Target(m), persistedItemIds, file))
             = Board!Apply(doc, m)
<1> DEFINE old == items[m.id]
           id == Target(m)
           entry == Painted(prepareMutation(items, m), id, persistedItemIds, file)
<1>1. /\ DOMAIN doc = LiveIds(items) /\ IsDrawing(doc)
      /\ \A x \in LiveIds(items) : doc[x] = Painted(items[x], x, persistedItemIds, file)
  BY PaintingFacts
<1>2. m.type \in {"create", "update", "write", "append", "copy"} /\ m.id \in Ids
  BY MessageFacts
<1>3. m.type # "create" => /\ Live(items, m.id) /\ m.id \in LiveIds(items)
                           /\ old \in Item /\ ItemOk(old, m.id, persistedItemIds, file)
                           /\ doc[m.id] = Painted(old, m.id, persistedItemIds, file)
  <2> SUFFICES ASSUME m.type # "create"
               PROVE  /\ Live(items, m.id) /\ m.id \in LiveIds(items)
                      /\ old \in Item /\ ItemOk(old, m.id, persistedItemIds, file)
                      /\ doc[m.id] = Painted(old, m.id, persistedItemIds, file)
    OBVIOUS
  <2>1. Live(items, m.id)
    BY <1>2 DEF Refuses
  <2>2. m.id \in LiveIds(items) /\ m.id \in DOMAIN items
    BY <2>1 DEF Live, LiveIds
  <2> QED
    BY <1>1, <2>1, <2>2, MapFacts
<1>4. CASE m.type = "create"
  <2>1. m.kind \in Kinds /\ id = m.id /\ id \notin persistedItemIds
    BY <1>4, MessageFacts
  <2>2. prepareMutation(items, m) = NewItem(m.kind)
    BY <1>4 DEF prepareMutation
  <2> HIDE DEF id
  <2>3. entry = Board!NewEntry(m.kind)
    BY <2>1, <2>2, NewPainted
  <2>4. Board!Apply(doc, m) = Board!With(doc, m.id, Board!NewEntry(m.kind))
    BY <1>4 DEF Board!Apply
  <2> HIDE DEF entry
  <2>5. Board!With(doc, id, entry) = Board!Apply(doc, m)
    BY <2>1, <2>3, <2>4
  <2> QED
    BY <2>5 DEF id, entry
<1>5. CASE m.type = "copy"
  <2>1. id = m.newid /\ id \notin persistedItemIds
    BY <1>5, MessageFacts
  <2>2. prepareMutation(items, m) = copyCanonicalItem(old, m.id, persistedItemIds)
    BY <1>5 DEF prepareMutation
  <2> HIDE DEF id, old
  <2>3. entry = Painted(old, m.id, persistedItemIds, file)
    BY <1>2, <1>3, <1>5, <2>1, <2>2, CopyPainted
  <2>4. Board!Apply(doc, m) = Board!With(doc, m.newid, doc[m.id])
    BY <1>5 DEF Board!Apply
  <2> HIDE DEF entry
  <2>5. Board!With(doc, id, entry) = Board!Apply(doc, m)
    BY <1>3, <1>5, <2>1, <2>3, <2>4
  <2> QED
    BY <2>5 DEF id, entry
<1>6. CASE m.type \in {"update", "write", "append"}
  <2>1. id = m.id
    BY <1>6, MessageFacts
  <2> HIDE DEF id
  <2> DEFINE before == doc[m.id]
  <2>2. before = Painted(items[m.id], m.id, persistedItemIds, file)
    BY <1>3, <1>6
  <2>3. ItemOk(items[m.id], m.id, persistedItemIds, file)
    BY <1>3, <1>6
  <2>4. entry = Painted(prepareMutation(items, m), m.id, persistedItemIds, file)
    BY <2>1
  <2>5. IsDrawing(doc) /\ m.id \in DOMAIN doc /\ before = doc[m.id]
    BY <1>1, <1>3, <1>6
  <2> HIDE DEF before, entry
  <2>6. /\ m.type = "update" => entry = WithLook(before, m.look)
        /\ m.type = "write" => entry = WithBody(before, <<m.text>>)
        /\ m.type = "append" => entry = WithBody(before, Append(before.body, m.point))
    BY <1>6, <2>2, <2>3, <2>4, ChangePainted
  <2>7. /\ m.type = "update" =>
              Board!Apply(doc, m) = Board!With(doc, m.id, WithLook(before, m.look))
        /\ m.type = "write" =>
              Board!Apply(doc, m) = Board!With(doc, m.id, WithBody(before, <<m.text>>))
        /\ m.type = "append" =>
              Board!Apply(doc, m)
                = Board!With(doc, m.id, WithBody(before, Append(before.body, m.point)))
    BY <2>5, AppliedToOne
  <2>8. Board!With(doc, id, entry) = Board!Apply(doc, m)
    BY <1>6, <2>1, <2>6, <2>7
  <2> QED
    BY <2>8 DEF id, entry
<1> QED
  BY <1>2, <1>4, <1>5, <1>6

\* A text is only written into a text.
WritesTexts(items, m) == m.type = "write" /\ Live(items, m.id) => items[m.id].kind = "text"

\* What the next message of a batch changes is what a collaborator changes.
LEMMA PreparePaints ==
    ASSUME itemsById \in Maps, persistedItemIds \subseteq DOMAIN itemsById,
           FileOk(file), Tied(itemsById, persistedItemIds, file),
           NEW o, OverlayOk(o), OverlayFits(o),
           NEW m \in Messages, NamesFresh(m), WritesTexts(Seen(o), m),
           Prepare(o, m).ok,
           NEW doc, doc = Painting(Seen(o), persistedItemIds, file)
    PROVE  o.ok /\ Painting(Seen(Prepare(o, m)), persistedItemIds, file) = Board!Apply(doc, m)
<1> DEFINE items == Seen(o)
           id == Target(m)
<1>1. o \in Overlays /\ items \in Maps
  BY SeenFacts DEF OverlayOk
<1>2. o.ok /\ ~Refuses(items, m)
  <2> SUFFICES ASSUME ~o.ok \/ Refuses(items, m)
               PROVE  FALSE
    OBVIOUS
  <2>1. Prepare(o, m) = [o EXCEPT !.ok = FALSE]
    BY DEF Prepare
  <2> QED
    BY <1>1, <2>1 DEF Overlays
<1>3. /\ DOMAIN doc = LiveIds(items) /\ IsDrawing(doc)
      /\ \A x \in LiveIds(items) : doc[x] = Painted(items[x], x, persistedItemIds, file)
  BY PaintingFacts
<1>4. CASE m.type = "clear"
  <2>1. Prepare(o, m) = [NoOverlay EXCEPT !.clear = TRUE]
    BY <1>2, <1>4 DEF Prepare
  <2>2. Prepare(o, m).clear /\ Prepare(o, m).items = << >>
    BY <2>1 DEF NoOverlay
  <2>3. Seen(Prepare(o, m)) = << >>
    BY <2>2 DEF Seen
  <2>4. LiveIds(<< >>) = {}
    BY DEF LiveIds
  <2>5. Painting(<< >>, persistedItemIds, file) = << >>
    BY <2>4 DEF Painting
  <2>6. Board!Apply(doc, m) = << >>
    BY <1>4 DEF Board!Apply
  <2> QED
    BY <1>2, <2>3, <2>5, <2>6
<1>5. CASE m.type = "delete" /\ ~Live(items, id)
  <2>1. Prepare(o, m) = o
    BY <1>2, <1>5 DEF Prepare
  <2>2. id = m.id /\ id \notin DOMAIN doc
    BY <1>3, <1>5, MessageFacts DEF LiveIds, Live
  <2>3. Board!Apply(doc, m) = Board!Without(doc, m.id)
    BY <1>5 DEF Board!Apply
  <2>4. Board!Without(doc, m.id) = [x \in DOMAIN doc |-> doc[x]]
    <3>1. DOMAIN doc \ {m.id} = DOMAIN doc
      BY <2>2
    <3> QED
      BY <3>1 DEF Board!Without
  <2>5. Board!Without(doc, m.id) = doc
    BY <1>3, <2>4 DEF IsDrawing
  <2> QED
    BY <1>2, <2>1, <2>3, <2>5
<1>6. CASE m.type # "clear" /\ ~(m.type = "delete" /\ ~Live(items, id))
  <2> DEFINE new == prepareMutation(items, m)
             p == Adding(o, id, new)
             next == Seen(p)
  <2>1. Prepare(o, m) = [o EXCEPT !.items = Over([other \in {id} |-> new], @),
                                  !.fresh = IF id \in DOMAIN o.items \cup DOMAIN itemsById THEN @
                                            ELSE Append(@, id)]
    BY <1>2, <1>6 DEF Prepare
  <2>2. persistedItemIds \subseteq Ids
    BY MapFacts
  <2>3. /\ new \in Item /\ new.dirty /\ ~new.held /\ id \in Ids
        /\ id \in DOMAIN itemsById => ~o.clear /\ Successor(new, itemsById[id])
    BY <1>2, <1>6, <2>2, PreparedFollows
  <2>4. new.deleted <=> m.type = "delete"
    BY <1>1, <1>2, <1>6, <2>2, Prepared
  <2> HIDE DEF new, id
  <2>5. Prepare(o, m) = p
    BY <1>1, <2>1 DEF Overlays, Adding
  <2>6. /\ OverlayOk(p)
        /\ DOMAIN p.items = DOMAIN o.items \cup {id}
        /\ p.items[id] = new
        /\ \A other \in DOMAIN o.items : other # id => p.items[other] = o.items[other]
        /\ p.clear = o.clear /\ p.ok = o.ok
    BY <2>3, OverlayAdds
  <2> HIDE DEF p
  <2>7. /\ DOMAIN next = DOMAIN items \cup {id}
        /\ next[id] = p.items[id]
        /\ \A other \in DOMAIN items : other # id => next[other] = items[other]
    BY <2>3, <2>6, SeenAdding
  <2> HIDE DEF next, items
  <2>8. /\ next[id].deleted => Painting(next, persistedItemIds, file) = Board!Without(doc, id)
        /\ ~next[id].deleted =>
              Painting(next, persistedItemIds, file)
                = Board!With(doc, id, Painted(next[id], id, persistedItemIds, file))
    <3>1. doc = Painting(items, persistedItemIds, file)
      BY DEF items
    <3>2. SameBut(next, items, id)
      BY <2>7 DEF SameBut
    <3> QED
      BY ONLY <3>1, <3>2, PaintOne
  <2>9. next[id] = new
    BY <2>6, <2>7
  <2>10. Painting(next, persistedItemIds, file) = Board!Apply(doc, m)
    <3>1. CASE m.type = "delete"
      <4>1. Board!Apply(doc, m) = Board!Without(doc, id)
        BY <3>1, MessageFacts DEF Board!Apply, id
      <4> QED
        BY <2>4, <2>8, <2>9, <3>1, <4>1
    <3>2. CASE m.type # "delete"
      <4>1. \A x : Live(items, x) => ItemOk(items[x], x, persistedItemIds, file)
        BY SeenFits DEF items
      <4>2. m.type \in {"create", "copy"} => Target(m) \notin persistedItemIds
        BY DEF NamesFresh
      <4>3. m.type = "write" => items[m.id].kind = "text"
        BY <1>2 DEF WritesTexts, Refuses, items
      <4>4. m.type \notin {"clear", "delete"} /\ ~Refuses(items, m)
        BY <1>2, <1>6, <3>2 DEF items
      <4>5. doc = Painting(items, persistedItemIds, file) /\ items \in Maps
        BY <1>1 DEF items
      <4>6. Board!With(doc, Target(m),
                       Painted(prepareMutation(items, m), Target(m), persistedItemIds, file))
              = Board!Apply(doc, m)
        BY ONLY <4>1, <4>2, <4>3, <4>4, <4>5, m \in Messages, FileOk(file), PreparedPaints
      <4>7. Board!With(doc, id, Painted(new, id, persistedItemIds, file)) = Board!Apply(doc, m)
        BY <4>6 DEF new, id, items
      <4> QED
        BY <2>4, <2>8, <2>9, <3>2, <4>7
    <3> QED
      BY <3>1, <3>2
  <2> QED
    BY <1>2, <2>5, <2>10 DEF next
<1> QED
  BY <1>4, <1>5, <1>6

\* A batch in which only the first message may write a text
WritesFirst(ms) ==
    \A k \in DOMAIN ms : ms[k].type = "write" => k = 1 /\ WritesTexts(itemsById, ms[k])

\* A batch that is accepted was so at each message.
LEMMA OkBefore ==
    ASSUME NEW ms \in Seq(Messages), NEW g, Prepares(g, ms), g[Len(ms)].ok,
           \A k \in 0 .. Len(ms) : g[k] \in Overlays
    PROVE  \A k \in 0 .. Len(ms) : g[k].ok
<1>1. PICK n \in Nat : n = Len(ms) /\ DOMAIN ms = 1 .. n
  BY LenProperties
<1> SUFFICES ASSUME NEW j \in 0 .. n, ~g[j].ok
             PROVE  FALSE
  BY <1>1
<1> DEFINE G == {k \in 0 .. n : k < j \/ ~g[k].ok}
<1>2. 0 \in G
  BY <1>1
<1>3. \A k \in 0 .. n - 1 : k \in G => k + 1 \in G
  <2> SUFFICES ASSUME NEW k \in 0 .. n - 1, k \in G
               PROVE  k + 1 \in G
    OBVIOUS
  <2>1. k + 1 \in 0 .. n /\ k \in 0 .. n /\ k + 1 \in 1 .. n /\ k + 1 - 1 = k
    BY <1>1
  <2>2. CASE k + 1 < j
    BY <2>1, <2>2
  <2>3. CASE k + 1 = j
    BY <2>1, <2>3
  <2>4. CASE k + 1 # j /\ ~(k + 1 < j)
    <3>1. ~(k < j)
      BY <1>1, <2>4
    <3>2. ~g[k].ok /\ g[k] \in Overlays
      BY <1>1, <2>1, <3>1
    <3>3. g[k + 1] = Prepare(g[k], ms[k + 1])
      <4>1. g[k + 1] = Prepare(g[k + 1 - 1], ms[k + 1])
        BY <1>1, <2>1 DEF Prepares
      <4> QED
        BY ONLY <2>1, <4>1
    <3>4. g[k + 1] = [g[k] EXCEPT !.ok = FALSE]
      BY <3>2, <3>3 DEF Prepare
    <3>5. ~g[k + 1].ok
      BY <3>2, <3>4 DEF Overlays
    <3> QED
      BY <2>1, <3>5
  <2> QED
    BY <2>2, <2>3, <2>4
<1>4. n \in 0 .. n /\ ~(n < j)
  BY <1>1
<1> HIDE DEF G
<1>5. \A k \in 0 .. n : k \in G
  BY <1>2, <1>3, UpTo
<1> QED
  BY <1>1, <1>4, <1>5 DEF G

\* Nothing is prepared yet: a mutation reads the index.
LEMMA SeenNothing ==
    ASSUME itemsById \in Maps
    PROVE  Seen(NoOverlay) = itemsById
<1>1. Seen(NoOverlay) = [id \in DOMAIN itemsById |-> itemsById[id]]
  BY DEF Seen, NoOverlay, Over
<1>2. itemsById \in [DOMAIN itemsById -> Item]
  BY MapFacts
<1> QED
  BY <1>1, <1>2

\* What an accepted batch makes of the drawing is what collaborators make of it.
LEMMA BatchPaints ==
    ASSUME itemsById \in Maps, persistedItemIds \subseteq DOMAIN itemsById,
           FileOk(file), Tied(itemsById, persistedItemIds, file),
           NEW ms \in Seq(Messages),
           \A k \in DOMAIN ms : NamesFresh(ms[k]) /\ CopiesInTime(ms[k]),
           WritesFirst(ms), OverlayOf(ms).ok,
           NEW doc, doc = Painting(itemsById, persistedItemIds, file)
    PROVE  Leads(doc, ms, Painting(Seen(OverlayOf(ms)), persistedItemIds, file))
<1> DEFINE S == {o \in Overlays : OverlayOk(o) /\ OverlayFits(o)}
<1>1. PICK n \in Nat : n = Len(ms) /\ DOMAIN ms = 1 .. n
  BY LenProperties
<1>2. NoOverlay \in S
  <2>1. OverlayOk(NoOverlay)
    BY EmptyOverlays
  <2>2. OverlayFits(NoOverlay)
    BY DEF NoOverlay, OverlayFits
  <2> QED
    BY <2>1, <2>2 DEF OverlayOk
<1>3. \A k \in 1 .. n : ms[k] \in Messages
  BY <1>1, ElementOfSeq
<1>4. \A k \in DOMAIN ms : \A o \in S : Prepare(o, ms[k]) \in S
  <2> SUFFICES ASSUME NEW k \in DOMAIN ms, NEW o \in S
               PROVE  Prepare(o, ms[k]) \in S
    OBVIOUS
  <2>1. ms[k] \in Messages
    BY <1>1, <1>3
  <2>2. persistedItemIds \subseteq Ids
    BY MapFacts
  <2>3. OverlayOk(Prepare(o, ms[k]))
    BY <2>1, <2>2, PrepareKeeps
  <2>4. OverlayFits(Prepare(o, ms[k]))
    BY <2>1, PrepareFits
  <2> QED
    BY <2>3, <2>4 DEF OverlayOk
<1>5. PICK g : /\ Prepares(g, ms) /\ OverlayOf(ms) = g[n]
               /\ \A k \in 0 .. n : g[k] \in S
  <2> HIDE DEF S
  <2>1. \E g : /\ Prepares(g, ms) /\ OverlayOf(ms) = g[Len(ms)]
               /\ \A k \in 0 .. Len(ms) : g[k] \in S
    BY <1>2, <1>4, OverlaySteps
  <2> QED
    BY <1>1, <2>1
<1>6. \A k \in 0 .. n : g[k] \in Overlays /\ OverlayOk(g[k]) /\ OverlayFits(g[k])
  BY <1>5
<1>7. \A k \in 0 .. n : g[k].ok
  <2>1. Prepares(g, ms) /\ g[Len(ms)].ok
    BY <1>1, <1>5
  <2>2. \A k \in 0 .. Len(ms) : g[k] \in Overlays
    BY <1>1, <1>6
  <2> QED
    BY ONLY <1>1, <2>1, <2>2, ms \in Seq(Messages), OkBefore
<1> HIDE DEF S
<1> DEFINE Doc(k) == Painting(Seen(g[k]), persistedItemIds, file)
           h == [k \in 0 .. n |-> Doc(k)]
<1>8. g[0] = NoOverlay /\ \A k \in 1 .. n : g[k] = Prepare(g[k - 1], ms[k])
  BY <1>1, <1>5 DEF Prepares
<1>9. Doc(0) = doc /\ Seen(g[0]) = itemsById
  BY <1>8, SeenNothing
<1>10. ASSUME NEW k \in 1 .. n
       PROVE  Doc(k) = Board!Apply(Doc(k - 1), ms[k])
  <2>1. k - 1 \in 0 .. n /\ k \in 0 .. n /\ k \in DOMAIN ms
    BY <1>1
  <2> DEFINE o == g[k - 1]
             m == ms[k]
             before == Painting(Seen(o), persistedItemIds, file)
  <2>2. OverlayOk(o) /\ OverlayFits(o) /\ m \in Messages /\ NamesFresh(m)
    BY <1>3, <1>6, <2>1
  <2>3. g[k] = Prepare(o, m) /\ Prepare(o, m).ok
    BY <1>7, <1>8, <2>1
  <2>4. WritesTexts(Seen(o), m)
    <3>1. CASE m.type = "write"
      <4>1. k = 1 /\ WritesTexts(itemsById, m)
        BY <2>1, <3>1 DEF WritesFirst
      <4>2. Seen(o) = itemsById
        BY <1>9, <4>1
      <4> QED
        BY <4>1, <4>2
    <3>2. CASE m.type # "write"
      BY <3>2 DEF WritesTexts
    <3> QED
      BY <3>1, <3>2
  <2> HIDE DEF o, m
  <2>5. Painting(Seen(Prepare(o, m)), persistedItemIds, file) = Board!Apply(before, m)
    BY <2>2, <2>3, <2>4, PreparePaints
  <2> QED
    BY <2>3, <2>5 DEF o, m
<1>11. \A k \in 0 .. n : h[k] = Doc(k)
  OBVIOUS
<1>12. h = [k \in 0 .. n |-> h[k]]
  OBVIOUS
<1>13. Doc(n) = Painting(Seen(OverlayOf(ms)), persistedItemIds, file)
  BY <1>5
<1>14. 0 \in 0 .. n /\ n \in 0 .. n /\ \A k \in 1 .. n : k \in 0 .. n /\ k - 1 \in 0 .. n
  BY <1>1
<1> HIDE DEF h, Doc
<1>15. \A k \in 1 .. n : h[k] = Board!Apply(h[k - 1], ms[k])
  BY <1>10, <1>11, <1>14
<1>16. h[0] = doc /\ h[n] = Painting(Seen(OverlayOf(ms)), persistedItemIds, file)
  BY <1>9, <1>11, <1>13, <1>14
<1>17. Applies(h, doc, ms)
  BY ONLY <1>1, <1>12, <1>15, <1>16 DEF Applies
<1> QED
  BY ONLY <1>1, <1>16, <1>17 DEF Leads

\* Applying the overlay shows what the batch saw.
LEMMA AppliedPaints ==
    ASSUME IndexInv, NEW o, OverlayOk(o)
    PROVE  Painting(Applied(o).items, persistedItemIds, file) = Painting(Seen(o), persistedItemIds, file)
<1> DEFINE items == Applied(o).items
           seen == Seen(o)
<1>1. itemsById \in Maps
  BY DEF IndexInv, Listed
<1>2. /\ DOMAIN items = DOMAIN itemsById \cup DOMAIN o.items
      /\ \A id \in DOMAIN o.items : items[id] = o.items[id]
      /\ \A id \in DOMAIN itemsById \ DOMAIN o.items :
            items[id] = IF o.clear THEN Tombstone(itemsById[id]) ELSE itemsById[id]
  BY AppliedFacts
<1>3. \A id \in DOMAIN itemsById : Tombstone(itemsById[id]).deleted
  BY <1>1, MapFacts, Tombstones
<1>4. /\ DOMAIN seen = IF o.clear THEN DOMAIN o.items ELSE DOMAIN o.items \cup DOMAIN itemsById
      /\ \A id \in DOMAIN o.items : seen[id] = o.items[id]
      /\ ~o.clear => \A id \in DOMAIN itemsById \ DOMAIN o.items : seen[id] = itemsById[id]
  <2>1. o.items \in Maps
    BY DEF OverlayOk, Overlays
  <2>2. CASE o.clear
    BY <2>2 DEF Seen
  <2>3. CASE ~o.clear
    <3>1. /\ DOMAIN Over(o.items, itemsById) = DOMAIN o.items \cup DOMAIN itemsById
          /\ \A id \in DOMAIN o.items : Over(o.items, itemsById)[id] = o.items[id]
          /\ \A id \in DOMAIN itemsById \ DOMAIN o.items :
                Over(o.items, itemsById)[id] = itemsById[id]
      BY ONLY <1>1, <2>1, OverFacts
    <3> QED
      BY <2>3, <3>1 DEF Seen
  <2> QED
    BY <2>2, <2>3
<1> HIDE DEF items, seen
<1>5. LiveIds(items) = LiveIds(seen) /\ \A id \in LiveIds(seen) : items[id] = seen[id]
  <2>1. \A id : id \in LiveIds(items) <=> id \in DOMAIN items /\ ~items[id].deleted
    BY DEF LiveIds
  <2>2. \A id : id \in LiveIds(seen) <=> id \in DOMAIN seen /\ ~seen[id].deleted
    BY DEF LiveIds
  <2>3. CASE o.clear
    <3>1. /\ DOMAIN seen = DOMAIN o.items
          /\ \A id \in DOMAIN o.items : seen[id] = o.items[id] /\ items[id] = o.items[id]
      BY <1>2, <1>4, <2>3
    <3>2. \A id \in DOMAIN itemsById \ DOMAIN o.items : items[id].deleted
      BY <1>2, <1>3, <2>3
    <3>3. DOMAIN items = DOMAIN itemsById \cup DOMAIN o.items
      BY <1>2
    <3> QED
      BY ONLY <2>1, <2>2, <3>1, <3>2, <3>3
  <2>4. CASE ~o.clear
    <3>1. DOMAIN seen = DOMAIN items
      BY <1>2, <1>4, <2>4
    <3>2. \A id \in DOMAIN items : items[id] = seen[id]
      BY <1>2, <1>4, <2>4
    <3> QED
      BY ONLY <2>1, <2>2, <3>1, <3>2
  <2> QED
    BY <2>3, <2>4
<1>6. Painting(items, persistedItemIds, file) = Painting(seen, persistedItemIds, file)
  BY <1>5 DEF Painting
<1> QED
  BY <1>6 DEF items, seen

\* The oldest items, erased one by one, leave what is trimmed.
LEMMA TrimPaints ==
    ASSUME NEW st, Listed(st.order, st.items), Passed(st.order, st.items, st.trim),
           NEW doc, doc = Painting(st.items, persistedItemIds, file),
           NEW gone, gone = Part(st.order, Overflow(st)),
           NEW ms, ms = [i \in DOMAIN gone |-> eraserDeleteMutation(gone[i])]
    PROVE  /\ Leads(doc, ms, Painting(Trimmed(st), persistedItemIds, file))
           /\ ms \in Seq([type : {"delete"}, id : Ids])
<1> DEFINE items == st.items
           ids == OverflowIds(st)
<1>1. st.order \in Seq(Ids) /\ items \in Maps /\ st.trim \in 0 .. Len(st.order)
  BY DEF Listed, Passed
<1>2. TrimEnd(st) \in st.trim .. Len(st.order) /\ Len(st.order) \in Nat
      /\ DOMAIN st.order = 1 .. Len(st.order)
  BY <1>1, TrimEnds, LenProperties
<1>3. Overflow(st) \subseteq DOMAIN st.order
  BY <1>1, <1>2 DEF Overflow, LiveBetween
<1>4. gone \in Seq(Ids) /\ ToSet(gone) = ids
  BY <1>1, <1>3, PartElements DEF OverflowIds
<1>5. /\ DOMAIN doc = LiveIds(items) /\ IsDrawing(doc)
      /\ \A id \in LiveIds(items) : doc[id] = Painted(items[id], id, persistedItemIds, file)
  BY PaintingFacts
<1>6. Leads(doc, ms, Left(doc, gone)) /\ ms \in Seq([type : {"delete"}, id : Ids])
  <2>1. doc = [id \in DOMAIN doc |-> doc[id]]
    BY <1>5 DEF IsDrawing
  <2> DEFINE D == DOMAIN doc
  <2>2. doc = [id \in D |-> doc[id]]
    BY <2>1
  <2> HIDE DEF D
  <2> QED
    BY <1>4, <2>2, Erasures
<1>7. Left(doc, gone) = Painting(Trimmed(st), persistedItemIds, file)
  <2>1. Trimmed(st) = [id \in DOMAIN items |-> IF id \in ids THEN Tombstone(items[id]) ELSE items[id]]
    BY DEF Trimmed
  <2>2. \A id \in DOMAIN items : Tombstone(items[id]).deleted
    BY <1>1, MapFacts, Tombstones
  <2> HIDE DEF ids, items
  <2>3. LiveIds(Trimmed(st)) = LiveIds(items) \ ids
        /\ \A id \in LiveIds(items) \ ids : Trimmed(st)[id] = items[id]
    BY <2>1, <2>2 DEF LiveIds
  <2>4. Left(doc, gone) = [id \in LiveIds(items) \ ids |-> doc[id]]
    BY <1>4, <1>5 DEF Left
  <2> QED
    BY <1>5, <2>3, <2>4 DEF Painting
<1> QED
  BY <1>6, <1>7

\* One mutation leads to what it makes.
LEMMA LeadsOne ==
    ASSUME NEW doc, NEW m
    PROVE  Leads(doc, <<m>>, Board!Apply(doc, m))
<1> DEFINE next == Board!Apply(doc, m)
           g == [k \in 0 .. 1 |-> IF k = 0 THEN doc ELSE next]
           ms == <<m>>
<1>1. Len(ms) = 1 /\ ms[1] = m
  OBVIOUS
<1>2. g[0] = doc /\ g[1] = next /\ g = [k \in 0 .. 1 |-> g[k]]
  OBVIOUS
<1>3. \A k \in 1 .. 1 : k = 1 /\ k - 1 = 0
  OBVIOUS
<1> HIDE DEF g, ms
<1>4. \A k \in 1 .. 1 : g[k] = Board!Apply(g[k - 1], ms[k])
  BY <1>1, <1>2, <1>3
<1>5. Applies(g, doc, ms)
  BY <1>1, <1>2, <1>4 DEF Applies
<1>6. Leads(doc, ms, next)
  BY <1>1, <1>2, <1>5 DEF Leads
<1> QED
  BY <1>6 DEF ms

\* What is shown and what is being saved
LEMMA DrawingsAre ==
    ASSUME IInv, SizeInv
    PROVE  /\ Drawing(itemsById) = Painting(itemsById, persistedItemIds, file)
           /\ save # NoSave => Drawing(save.items) = Painting(save.items, persistedItemIds, file)
<1>1. FileOk(file) /\ persistedItemIds = IdsOf(file)
  BY DEF IInv, FileInv
<1>2. /\ itemsById \in Maps /\ persistedItemIds \subseteq DOMAIN itemsById
      /\ Tied(itemsById, persistedItemIds, file)
  BY DEF IInv, IndexInv, Listed, Stored, SizeInv
<1>3. \A items : Drawing(items) = DrawingOf(items, persistedItemIds, file)
  BY DEF Drawing, DrawingOf
<1>4. Drawing(itemsById) = Painting(itemsById, persistedItemIds, file)
  BY <1>1, <1>2, <1>3, DrawingIs
<1>5. ASSUME save # NoSave
      PROVE  Drawing(save.items) = Painting(save.items, persistedItemIds, file)
  <2>1. /\ save.items \in Maps /\ persistedItemIds \subseteq DOMAIN save.items
        /\ Tied(save.items, persistedItemIds, file)
    BY <1>5 DEF IInv, SaveInv, Listed, Stored, SizeInv
  <2> QED
    BY <1>1, <1>3, <2>1, DrawingIs
<1> QED
  BY <1>4, <1>5

\* ... after a turn
LEMMA DrawingsThen ==
    ASSUME IInv', SizeInv'
    PROVE  /\ Drawing(itemsById)' = Painting(itemsById', persistedItemIds', file')
           /\ save' # NoSave =>
                 Drawing(save.items)' = Painting(save'.items, persistedItemIds', file')
<1>1. FileOk(file') /\ persistedItemIds' = IdsOf(file')
  BY DEF IInv, FileInv
<1>2. /\ itemsById' \in Maps /\ persistedItemIds' \subseteq DOMAIN itemsById'
      /\ Tied(itemsById', persistedItemIds', file')
  BY DEF IInv, IndexInv, Listed, Stored, SizeInv
<1>3. /\ Drawing(itemsById)' = DrawingOf(itemsById', persistedItemIds', file')
      /\ Drawing(save.items)' = DrawingOf(save'.items, persistedItemIds', file')
  BY DEF Drawing, DrawingOf
<1>4. Drawing(itemsById)' = Painting(itemsById', persistedItemIds', file')
  BY <1>1, <1>2, <1>3, DrawingIs
<1>5. ASSUME save' # NoSave
      PROVE  Drawing(save.items)' = Painting(save'.items, persistedItemIds', file')
  <2>1. /\ save'.items \in Maps /\ persistedItemIds' \subseteq DOMAIN save'.items
        /\ Tied(save'.items, persistedItemIds', file')
    BY <1>5 DEF IInv, SaveInv, Listed, Stored, SizeInv
  <2> QED
    BY <1>1, <1>3, <2>1, DrawingIs
<1> QED
  BY <1>4, <1>5

\* What is recorded of an accepted batch, removals included, is what happened to the drawing.
LEMMA AcceptPaints ==
    ASSUME IInv, SizeInv, ~ReuseIds, ~CopyDuringSave,
           NEW ms \in Seq(Messages), WritesFirst(ms), Accept(ms),
           NEW doc, doc = Painting(itemsById, persistedItemIds, file)
    PROVE  Board!ApplyAll(doc, recorded') = Painting(itemsById', persistedItemIds, file)
<1> DEFINE o == OverlayOf(ms)
           st == Applied(o)
           mid == Painting(Seen(o), persistedItemIds, file)
           gone == Part(st.order, Overflow(st))
           deletes == [i \in DOMAIN gone |-> eraserDeleteMutation(gone[i])]
           end == Painting(Trimmed(st), persistedItemIds, file)
<1>1. Receive(ms) /\ Commit(st, ms) /\ o.ok
  BY DEF Accept
<1>2. /\ itemsById \in Maps /\ persistedItemIds \subseteq DOMAIN itemsById
      /\ IndexInv /\ FileOk(file) /\ Tied(itemsById, persistedItemIds, file)
  BY DEF IInv, IndexInv, Listed, Stored, FileInv, SizeInv
<1>3. \A k \in DOMAIN ms : NamesFresh(ms[k]) /\ CopiesInTime(ms[k])
  BY <1>1, ReceivedCopies
<1>4. OverlayOk(o)
  BY <1>2, <1>3, OverlayOfFits
<1>5. Leads(doc, ms, mid)
  BY <1>1, <1>2, <1>3, BatchPaints
<1>6. recorded' = ms \o deletes /\ itemsById' = Trimmed(st)
  BY <1>1 DEF Commit, Trimmed
<1> HIDE DEF o
<1>7. Listed(st.order, st.items) /\ Passed(st.order, st.items, st.trim)
  BY <1>2, <1>4, AppliedFacts
<1>8. mid = Painting(st.items, persistedItemIds, file)
  BY <1>2, <1>4, AppliedPaints
<1> HIDE DEF st, mid, gone, deletes, end
<1>9. Leads(mid, deletes, end) /\ deletes \in Seq([type : {"delete"}, id : Ids])
  <2>1. gone = Part(st.order, Overflow(st))
        /\ deletes = [i \in DOMAIN gone |-> eraserDeleteMutation(gone[i])]
    BY DEF gone, deletes
  <2>2. end = Painting(Trimmed(st), persistedItemIds, file)
    BY DEF end
  <2> QED
    BY <1>7, <1>8, <2>1, <2>2, TrimPaints
<1>10. deletes \in Seq(Messages)
  <2>1. \A i \in DOMAIN deletes : deletes[i] \in Messages
    <3>1. \A i \in DOMAIN deletes : deletes[i] \in [type : {"delete"}, id : Ids]
      BY <1>9, ElementOfSeq, LenProperties
    <3> QED
      BY <3>1 DEF Messages
  <2> QED
    BY <1>9, <2>1, Retyped
<1>11. Leads(doc, ms \o deletes, end)
  BY <1>5, <1>9, <1>10, LeadsOn
<1>12. Len(ms \o deletes) \in Nat
  BY <1>10, ConcatProperties, LenProperties
<1>13. Board!ApplyAll(doc, ms \o deletes) = end
  BY <1>11, <1>12, LeadsTo
<1> QED
  BY <1>6, <1>13 DEF end

\* So is the removal of a shape that never got an extent.
LEMMA DropSeedPaints ==
    ASSUME itemsById \in Maps, NEW m \in Messages, DropSeed(m),
           NEW doc, doc = Painting(itemsById, persistedItemIds, file)
    PROVE  Board!ApplyAll(doc, recorded') = Painting(itemsById', persistedItemIds, file)
<1>1. /\ Live(itemsById, m.id) /\ recorded' = <<eraserDeleteMutation(m.id)>>
      /\ itemsById' = [itemsById EXCEPT ![m.id] = Tombstone(@)]
  BY DEF DropSeed, DropsSeed
<1>2. m.id \in DOMAIN itemsById /\ itemsById[m.id] \in Item
  BY <1>1, MapFacts DEF Live
<1>3. /\ SameBut(itemsById', itemsById, m.id)
      /\ itemsById'[m.id].deleted
  <2>1. itemsById \in [DOMAIN itemsById -> Item]
    BY MapFacts
  <2>2. itemsById'[m.id] = Tombstone(itemsById[m.id])
    BY <1>1, <1>2, <2>1
  <2> QED
    BY <1>1, <1>2, <2>1, <2>2, Tombstones DEF SameBut
<1>4. Painting(itemsById', persistedItemIds, file) = Board!Without(doc, m.id)
  BY <1>3, PaintOne
<1> DEFINE one == eraserDeleteMutation(m.id)
<1>5. Board!Apply(doc, one) = Board!Without(doc, m.id)
  BY DEF Board!Apply, eraserDeleteMutation
<1> HIDE DEF one
<1>6. Leads(doc, <<one>>, Board!Apply(doc, one)) /\ Len(<<one>>) \in Nat
  BY LeadsOne
<1>7. Board!ApplyAll(doc, <<one>>) = Board!Apply(doc, one)
  BY <1>6, LeadsTo
<1> QED
  BY <1>1, <1>4, <1>5, <1>7 DEF one

\* Turns that handle a message edit the board.
LEMMA EditsBoard ==
    ASSUME IInv, SizeInv, IInv', SizeInv', UNCHANGED <<persistedItemIds, file, save>>,
           Board!ApplyAll(Painting(itemsById, persistedItemIds, file), recorded')
             = Painting(itemsById', persistedItemIds, file)
    PROVE  Board!Edit
<1>1. Drawing(itemsById) = Painting(itemsById, persistedItemIds, file)
  BY DrawingsAre
<1>2. Drawing(itemsById)' = Painting(itemsById', persistedItemIds, file)
  BY DrawingsThen
<1>3. StoredDrawing' = StoredDrawing
  BY DEF StoredDrawing, IdsOf, EntryOf
<1>4. Drawing(save.items)' = Drawing(save.items)
  BY DEF Drawing
<1>5. (IF save = NoSave THEN {} ELSE {Drawing(save.items)})'
        = (IF save = NoSave THEN {} ELSE {Drawing(save.items)})
  BY <1>4
<1> QED
  BY <1>1, <1>2, <1>3, <1>5 DEF Board!Edit

-----------------------------------------------------------------------------
(* Turns that handle a message *)

\* A browser writes texts into texts, and none in a batch.
LEMMA ReceivedWrites ==
    ASSUME NEW m \in Messages, Receive(<<m>>)
    PROVE  WritesFirst(<<m>>)
<1> DEFINE ms == <<m>>
<1>1. DOMAIN ms = {1} /\ ms[1] = m
  OBVIOUS
<1>2. Sendable(ms)
  BY DEF Receive
<1> HIDE DEF ms
<1>3. m.type = "write" /\ Live(itemsById, m.id) => itemsById[m.id].kind = "text"
  BY <1>1, <1>2 DEF Sendable
<1>4. WritesFirst(ms)
  BY <1>1, <1>3 DEF WritesFirst, WritesTexts
<1> QED
  BY <1>4 DEF ms

LEMMA BatchWrites ==
    ASSUME NEW ms \in Batches
    PROVE  WritesFirst(ms)
<1>1. ms \in Seq(BatchMessages)
  BY BoundsAssumption DEF BoundsAssumption
<1>2. \A k \in DOMAIN ms : ms[k] \in BatchMessages
  BY <1>1, ElementOfSeq, LenProperties
<1>3. \A k \in DOMAIN ms : ms[k].type # "write"
  BY <1>2 DEF BatchMessages
<1> QED
  BY <1>3 DEF WritesFirst

\* What a turn leaves unchanged still looks as it does in the file.
LEMMA EditsAgree ==
    ASSUME DrawInv, UNCHANGED <<file, save>>,
           \A id \in DOMAIN itemsById' :
              ~itemsById'[id].dirty => id \in DOMAIN itemsById /\ itemsById'[id] = itemsById[id]
    PROVE  DrawInv'
<1>1. Agrees(itemsById', file)
  BY DEF DrawInv, Agrees
<1>2. FileDrawn(file) /\ (save # NoSave => Agrees(save.items, file))
  BY DEF DrawInv
<1> QED
  BY <1>1, <1>2 DEF DrawInv

\* What is recorded of accepted messages is what happened to the drawing.
LEMMA AcceptDraws ==
    ASSUME IInv, SizeInv, DrawInv, IInv', SizeInv', ~ReuseIds, ~CopyDuringSave,
           NEW ms \in Seq(Messages), WritesFirst(ms), Accept(ms)
    PROVE  Board!Edit /\ DrawInv'
<1> DEFINE o == OverlayOf(ms)
           st == Applied(o)
<1>1. /\ Receive(ms) /\ Commit(st, ms)
      /\ UNCHANGED <<persistedItemIds, file, save>>
  BY DEF Accept, Receive
<1>2. /\ itemsById \in Maps /\ persistedItemIds \subseteq DOMAIN itemsById
      /\ IndexInv /\ Tied(itemsById, persistedItemIds, file)
  BY DEF IInv, IndexInv, Listed, Stored, SizeInv
<1>3. Board!Edit
  <2> DEFINE doc == Painting(itemsById, persistedItemIds, file)
  <2>1. Board!ApplyAll(doc, recorded') = Painting(itemsById', persistedItemIds, file)
    BY AcceptPaints
  <2> QED
    BY <1>1, <2>1, EditsBoard
<1>4. OverlayOk(o)
  BY <1>1, <1>2, ReceivedCopies, OverlayOfFits
<1> HIDE DEF o
<1>5. /\ st.items \in Maps
      /\ DOMAIN st.items = DOMAIN itemsById \cup DOMAIN o.items
      /\ \A id \in DOMAIN o.items : st.items[id] = o.items[id]
      /\ \A id \in DOMAIN itemsById \ DOMAIN o.items :
            st.items[id] = IF o.clear THEN Tombstone(itemsById[id]) ELSE itemsById[id]
  BY <1>2, <1>4, AppliedFacts DEF Listed
<1> HIDE DEF st
<1>6. DOMAIN itemsById' = DOMAIN st.items
      /\ \A id \in DOMAIN st.items :
            itemsById'[id] = IF id \in OverflowIds(st) THEN Tombstone(st.items[id]) ELSE st.items[id]
  BY <1>1 DEF Commit
<1>7. \A id \in DOMAIN o.items : o.items[id].dirty
  BY <1>4 DEF OverlayOk
<1>8. ASSUME NEW id \in DOMAIN itemsById', ~itemsById'[id].dirty
      PROVE  id \in DOMAIN itemsById /\ itemsById'[id] = itemsById[id]
  <2>1. id \in DOMAIN st.items /\ st.items[id] \in Item
    BY <1>5, <1>6, MapFacts
  <2>2. itemsById'[id] = st.items[id]
    BY <1>6, <1>8, <2>1, Tombstones
  <2>3. id \notin DOMAIN o.items /\ id \in DOMAIN itemsById
    BY <1>5, <1>7, <1>8, <2>1, <2>2
  <2>4. itemsById[id] \in Item
    BY <1>2, <2>3, MapFacts
  <2> QED
    BY <1>5, <1>8, <2>2, <2>3, <2>4, Tombstones
<1>9. DrawInv'
  BY <1>1, <1>8, EditsAgree
<1> QED
  BY <1>3, <1>9

LEMMA DropSeedDraws ==
    ASSUME IInv, SizeInv, DrawInv, IInv', SizeInv', NEW m \in Messages, DropSeed(m)
    PROVE  Board!Edit /\ DrawInv'
<1>1. /\ Live(itemsById, m.id)
      /\ itemsById' = [itemsById EXCEPT ![m.id] = Tombstone(@)]
      /\ UNCHANGED <<persistedItemIds, file, save>>
  BY DEF DropSeed, DropsSeed, Receive
<1>2. itemsById \in Maps
  BY DEF IInv, IndexInv, Listed
<1>3. m.id \in DOMAIN itemsById /\ itemsById \in [DOMAIN itemsById -> Item]
      /\ itemsById[m.id] \in Item
  BY <1>1, <1>2, MapFacts DEF Live
<1>4. Board!Edit
  <2> DEFINE doc == Painting(itemsById, persistedItemIds, file)
  <2>1. Board!ApplyAll(doc, recorded') = Painting(itemsById', persistedItemIds, file)
    BY <1>2, DropSeedPaints
  <2> QED
    BY <1>1, <2>1, EditsBoard
<1>5. Tombstone(itemsById[m.id]).dirty
  BY <1>3, Tombstones
<1>6. \A id \in DOMAIN itemsById' :
         ~itemsById'[id].dirty => id \in DOMAIN itemsById /\ itemsById'[id] = itemsById[id]
  BY <1>1, <1>3, <1>5
<1> QED
  BY <1>1, <1>4, <1>6, EditsAgree

LEMMA RefuseDraws ==
    ASSUME IInv, SizeInv, DrawInv, IInv', SizeInv', NEW ms, Refuse(ms)
    PROVE  Board!Edit /\ DrawInv'
<1>1. recorded' = << >> /\ UNCHANGED <<itemsById, persistedItemIds, file, save>>
  BY DEF Refuse, Receive, index
<1> DEFINE doc == Painting(itemsById, persistedItemIds, file)
<1>2. Board!ApplyAll(doc, << >>) = doc
  <2>1. Leads(doc, << >>, doc) /\ Len(<< >>) \in Nat
    BY LeadsNowhere
  <2> HIDE DEF doc
  <2> QED
    BY <2>1, LeadsTo
<1>3. Board!ApplyAll(doc, recorded') = Painting(itemsById', persistedItemIds, file)
  BY <1>1, <1>2
<1>4. Board!Edit
  BY <1>1, <1>3, EditsBoard
<1>5. \A id \in DOMAIN itemsById' :
         ~itemsById'[id].dirty => id \in DOMAIN itemsById /\ itemsById'[id] = itemsById[id]
  BY <1>1
<1> QED
  BY <1>1, <1>4, <1>5, EditsAgree

-----------------------------------------------------------------------------
(* The start and the end of a save, and a restart *)

\* An item is painted the same while a save holds it.
LEMMA MarkPaints ==
    ASSUME NEW items \in Maps, NEW mark \in BOOLEAN, NEW storedIds, NEW f
    PROVE  /\ Painting(Marked(items, mark), storedIds, f) = Painting(items, storedIds, f)
           /\ Agrees(items, f) => Agrees(Marked(items, mark), f)
<1> DEFINE new == Marked(items, mark)
<1>1. DOMAIN new = DOMAIN items /\ LiveIds(new) = LiveIds(items)
  BY MarkedFacts
<1>2. \A id \in DOMAIN items : new[id] = [items[id] EXCEPT !.held = mark] /\ items[id] \in Item
  BY MapFacts DEF Marked
<1> HIDE DEF new
<1>3. ASSUME NEW id \in DOMAIN items
      PROVE  /\ new[id].kind = items[id].kind /\ new[id].look = items[id].look
             /\ new[id].dirty = items[id].dirty
             /\ new[id].textLength = items[id].textLength
             /\ new[id].appendedChildren = items[id].appendedChildren
             /\ new[id].copySource = items[id].copySource
  BY <1>2 DEF Item
<1>4. ASSUME NEW id \in LiveIds(items)
      PROVE  Painted(new[id], id, storedIds, f) = Painted(items[id], id, storedIds, f)
  <2>1. id \in DOMAIN items
    BY DEF LiveIds
  <2> QED
    BY <1>3, <2>1 DEF Painted, Of
<1>5. Painting(new, storedIds, f) = Painting(items, storedIds, f)
  BY <1>1, <1>4 DEF Painting
<1>6. Agrees(items, f) => Agrees(new, f)
  BY <1>1, <1>3 DEF Agrees
<1> QED
  BY <1>5, <1>6 DEF new

\* What a turn that neither stores nor loads anything leaves in the file
LEMMA StoredStays ==
    ASSUME UNCHANGED file
    PROVE  StoredDrawing' = StoredDrawing
BY DEF StoredDrawing, IdsOf, EntryOf

\* A save takes what is shown.
LEMMA StartSaveDraws ==
    ASSUME IInv, SizeInv, DrawInv, IInv', SizeInv', StartSave
    PROVE  Board!StartSave /\ DrawInv'
<1> DEFINE st == [items |-> itemsById, order |-> paintOrder,
                  count |-> liveItemCount, trim |-> trimPaintOrderIndex]
           held == Marked(itemsById, TRUE)
<1>1. Cleaned = st
  BY DEF Cleaned, IInv, IndexInv
<1>2. /\ save = NoSave /\ itemsById' = held /\ UNCHANGED <<persistedItemIds, file>>
      /\ save' = [running |-> TRUE, items |-> held, order |-> paintOrder, unsaved |-> unsaved]
      /\ recorded' = << >>
  BY <1>1 DEF StartSave, Marked
<1> HIDE DEF held, st
<1>3. save'.items = held /\ save' # NoSave
  BY <1>2 DEF NoSave
<1>4. itemsById \in Maps
  BY DEF IInv, IndexInv, Listed
<1>5. /\ Painting(held, persistedItemIds, file) = Painting(itemsById, persistedItemIds, file)
      /\ Agrees(itemsById, file) => Agrees(held, file)
  BY <1>4, MarkPaints DEF held
<1>6. Drawing(itemsById) = Painting(itemsById, persistedItemIds, file)
  BY DrawingsAre
<1>7. /\ Drawing(itemsById)' = Painting(held, persistedItemIds, file)
      /\ Drawing(save.items)' = Painting(held, persistedItemIds, file)
  BY <1>2, <1>3, DrawingsThen
<1>8. StoredDrawing' = StoredDrawing
  BY <1>2, StoredStays
<1>9. Board!StartSave
  BY <1>2, <1>3, <1>5, <1>6, <1>7, <1>8 DEF Board!StartSave
<1>10. FileDrawn(file') /\ Agrees(itemsById', file') /\ Agrees(save'.items, file')
  BY <1>2, <1>3, <1>5 DEF DrawInv
<1> QED
  BY <1>9, <1>10 DEF DrawInv

\* A save that fails changes nothing that is shown or stored.
LEMMA FailSaveDraws ==
    ASSUME IInv, SizeInv, DrawInv, IInv', SizeInv', FailSave
    PROVE  Board!FailSave /\ DrawInv'
<1> DEFINE items == Marked(itemsById, FALSE)
<1>1. /\ itemsById' = items /\ UNCHANGED <<persistedItemIds, file>>
      /\ save' = NoSave /\ recorded' = << >>
  BY DEF FailSave, Marked
<1> HIDE DEF items
<1>2. itemsById \in Maps
  BY DEF IInv, IndexInv, Listed
<1>3. /\ Painting(items, persistedItemIds, file) = Painting(itemsById, persistedItemIds, file)
      /\ Agrees(itemsById, file) => Agrees(items, file)
  BY <1>2, MarkPaints DEF items
<1>4. Drawing(itemsById) = Painting(itemsById, persistedItemIds, file)
  BY DrawingsAre
<1>5. Drawing(itemsById)' = Painting(items, persistedItemIds, file)
  BY <1>1, DrawingsThen
<1>6. StoredDrawing' = StoredDrawing
  BY <1>1, StoredStays
<1>7. Board!FailSave
  BY <1>1, <1>3, <1>4, <1>5, <1>6 DEF Board!FailSave
<1>8. FileDrawn(file') /\ Agrees(itemsById', file')
  BY <1>1, <1>3 DEF DrawInv
<1> QED
  BY <1>1, <1>7, <1>8 DEF DrawInv

\* What is loaded from an entry is painted as the entry.
LEMMA LoadedPaints ==
    ASSUME NEW f, FileOk(f), FileDrawn(f), NEW i \in DOMAIN f,
           NEW item, item = canonicalItemFromStoredSvgEntry(f[i])
    PROVE  /\ ~item.deleted
           /\ Painted(item, f[i].id, IdsOf(f), f)
                = [kind |-> f[i].kind, look |-> f[i].look, body |-> f[i].body]
           /\ f[i].look = item.look
           /\ item.kind = "text" => f[i].body = <<item.textLength>>
<1> DEFINE entry == f[i]
           fresh == NewItem(entry.kind)
<1>1. EntryOk(entry)
  BY DEF FileOk
<1>2. entry.kind \in Kinds /\ entry.body \in Bodies
  BY <1>1 DEF EntryOk, Entries
<1>3. fresh \in Item /\ fresh.kind = entry.kind
  BY <1>2, NewItems
<1>4. fresh.appendedChildren = << >>
  BY DEF NewItem
<1>5. ~item.deleted /\ item.kind = entry.kind
  BY <1>1, LoadedFacts
<1>6. /\ item.look = entry.look /\ item.appendedChildren = << >>
      /\ item.textLength = (IF entry.kind = "text" THEN entry.body[1] ELSE 0)
  <2>1. item = [fresh EXCEPT !.look = entry.look, !.dirty = FALSE, !.modifiedText = NoText,
                             !.textLength = IF entry.kind = "text" THEN entry.body[1] ELSE 0,
                             !.persistedChildCount = IF entry.kind = "children"
                                                     THEN DistinctPoints(entry.body) ELSE 0]
    BY DEF canonicalItemFromStoredSvgEntry
  <2> HIDE DEF fresh, entry
  <2> QED
    BY <1>3, <1>4, <2>1 DEF Item
<1>7. entry.kind = "text" => entry.body = <<entry.body[1]>>
  BY <1>1 DEF EntryOk
<1>8. entry.kind = "inline" => entry.body = << >>
  BY DEF FileDrawn
<1>9. EntryOf(entry.id, f) = entry
  BY EntryIs
<1>10. Of(item, entry.id, IdsOf(f)) = entry.id
  BY DEF Of, IdsOf
<1>11. entry.id # NoId
  BY <1>1, Bounds DEF EntryOk, Entries
<1>12. entry.body \o << >> = entry.body
  BY <1>2, NothingBefore DEF Bodies
<1> DEFINE body == IF item.kind = "inline" THEN << >>
                   ELSE IF item.kind = "text" THEN <<item.textLength>>
                   ELSE (IF Of(item, entry.id, IdsOf(f)) = NoId THEN << >>
                         ELSE EntryOf(Of(item, entry.id, IdsOf(f)), f).body)
                        \o item.appendedChildren
<1>13. Painted(item, entry.id, IdsOf(f), f) = [kind |-> item.kind, look |-> item.look, body |-> body]
  BY DEF Painted
<1>14. body = entry.body
  <2> HIDE DEF entry
  <2> QED
    BY <1>2, <1>5, <1>6, <1>7, <1>8, <1>9, <1>10, <1>11, <1>12 DEF Kinds
<1> HIDE DEF body
<1>15. Painted(item, entry.id, IdsOf(f), f)
         = [kind |-> entry.kind, look |-> entry.look, body |-> entry.body]
  BY <1>5, <1>6, <1>13, <1>14
<1> QED
  BY <1>5, <1>6, <1>7, <1>15

\* After a restart the board shows what was stored.
LEMMA LoadDraws ==
    ASSUME IInv, SizeInv, DrawInv, IInv', SizeInv', Load
    PROVE  Board!Restart /\ DrawInv'
<1> DEFINE ids == IdsOf(file)
           items == [id \in ids |-> canonicalItemFromStoredSvgEntry(EntryOf(id, file))]
           Shows(id) == LET entry == EntryOf(id, file)
                        IN  [kind |-> entry.kind, look |-> entry.look, body |-> entry.body]
<1>1. /\ persistedItemIds' = ids /\ itemsById' = items /\ save' = NoSave /\ UNCHANGED file
      /\ recorded' = << >>
  BY DEF Load
<1>2. FileOk(file) /\ FileDrawn(file)
  BY DEF IInv, FileInv, DrawInv
<1>3. DOMAIN items = ids
  OBVIOUS
<1>4. ASSUME NEW id \in ids
      PROVE  /\ ~items[id].deleted
             /\ Painted(items[id], id, ids, file) = Shows(id)
             /\ \A i \in DOMAIN file : file[i].id = id =>
                   /\ file[i].look = items[id].look
                   /\ items[id].kind = "text" => file[i].body = <<items[id].textLength>>
  <2>1. PICK i \in DOMAIN file : file[i].id = id
    BY DEF IdsOf
  <2>2. EntryOf(id, file) = file[i]
    BY <1>2, <2>1, EntryIs
  <2>3. \A j \in DOMAIN file : file[j].id = id => j = i
    BY <1>2, <2>1 DEF FileOk
  <2> DEFINE item == canonicalItemFromStoredSvgEntry(file[i])
  <2>4. items[id] = item
    BY <2>2
  <2> HIDE DEF item, items
  <2>5. /\ ~item.deleted
        /\ Painted(item, file[i].id, IdsOf(file), file)
             = [kind |-> file[i].kind, look |-> file[i].look, body |-> file[i].body]
        /\ file[i].look = item.look
        /\ item.kind = "text" => file[i].body = <<item.textLength>>
    BY <1>2, LoadedPaints DEF item
  <2> QED
    BY <2>1, <2>2, <2>3, <2>4, <2>5
<1> HIDE DEF items, Shows
<1>5. Drawing(itemsById)' = Painting(items, ids, file)
  BY <1>1, DrawingsThen
<1>6. LiveIds(items) = ids
  BY <1>3, <1>4 DEF LiveIds
<1>7. StoredDrawing = [id \in ids |-> Shows(id)]
  BY DEF StoredDrawing, Shows
<1>8. Painting(items, ids, file) = [id \in ids |-> Shows(id)]
  BY <1>4, <1>6 DEF Painting
<1>9. StoredDrawing' = StoredDrawing
  BY <1>1, StoredStays
<1>10. Board!Restart
  BY <1>1, <1>5, <1>7, <1>8, <1>9 DEF Board!Restart
<1>11. Agrees(items, file)
  BY <1>3, <1>4 DEF Agrees
<1>12. DrawInv'
  BY <1>1, <1>2, <1>11 DEF DrawInv
<1> QED
  BY <1>10, <1>12

-----------------------------------------------------------------------------
(* The end of a save *)

\* What came to a stroke since, after what it was
LEMMA RestJoined ==
    ASSUME NEW s \in Seq(Points), NEW t \in Seq(Points), Continues(t, s)
    PROVE  /\ SubSeq(t, Len(s) + 1, Len(t)) \in Seq(Points)
           /\ s \o SubSeq(t, Len(s) + 1, Len(t)) = t
<1>1. PICK n \in Nat : n = Len(s) /\ DOMAIN s = 1 .. n
  BY LenProperties
<1>2. PICK l \in Nat : l = Len(t) /\ DOMAIN t = 1 .. l
  BY LenProperties
<1>3. n <= l /\ \A k \in 1 .. n : t[k] = s[k]
  <2>1. 1 .. n \subseteq 1 .. l /\ \A k \in 1 .. n : t[k] = s[k]
    BY <1>1, <1>2 DEF Continues
  <2>2. n = 0 \/ n \in 1 .. n
    BY <1>1
  <2>3. n = 0 \/ n \in 1 .. l
    BY <2>1, <2>2
  <2> QED
    BY <1>2, <2>1, <2>3
<1> DEFINE rest == SubSeq(t, n + 1, l)
<1>4. /\ rest \in Seq(Points) /\ Len(rest) = l - n
      /\ \A i \in 1 .. l - n : rest[i] = t[n + i]
  <2>1. \A i \in n + 1 .. l : t[i] \in Points
    <3>1. \A i \in 1 .. l : t[i] \in Points
      BY <1>2, ElementOfSeq
    <3>2. \A i \in n + 1 .. l : i \in 1 .. l
      OBVIOUS
    <3> QED
      BY <3>1, <3>2
  <2>2. n + 1 \in Int /\ l \in Int
    OBVIOUS
  <2>3. /\ rest \in Seq(Points)
        /\ Len(rest) = IF n + 1 <= l THEN l - (n + 1) + 1 ELSE 0
        /\ \A i \in 1 .. l - (n + 1) + 1 : rest[i] = t[n + 1 + i - 1]
    BY ONLY <2>1, <2>2, SubSeqProperties
  <2>4. l - (n + 1) + 1 = l - n /\ (~(n + 1 <= l) => l - n = 0)
    BY <1>3
  <2>5. \A i \in 1 .. l - n : n + 1 + i - 1 = n + i
    OBVIOUS
  <2> HIDE DEF rest
  <2>6. Len(rest) = l - n
    BY <2>3, <2>4
  <2>7. \A i \in 1 .. l - n : rest[i] = t[n + i]
    <3>1. \A i \in 1 .. l - n : rest[i] = t[n + 1 + i - 1]
      BY <2>3, <2>4
    <3> QED
      BY ONLY <2>5, <3>1
  <2> QED
    BY <2>3, <2>6, <2>7
<1> HIDE DEF rest
<1> DEFINE all == s \o rest
<1>5. /\ all \in Seq(Points) /\ Len(all) = n + (l - n)
      /\ \A i \in 1 .. n + (l - n) : all[i] = IF i <= n THEN s[i] ELSE rest[i - n]
  <2>1. /\ all \in Seq(Points) /\ Len(all) = Len(s) + Len(rest)
        /\ \A i \in 1 .. Len(s) + Len(rest) : all[i] = IF i <= Len(s) THEN s[i]
                                                       ELSE rest[i - Len(s)]
    BY <1>4, ConcatProperties
  <2> HIDE DEF all
  <2> QED
    BY <1>1, <1>4, <2>1
<1> HIDE DEF all
<1>6. n + (l - n) = l
  BY <1>3
<1>7. ASSUME NEW i \in 1 .. l
      PROVE  all[i] = t[i]
  <2>1. CASE i <= n
    <3>1. i \in 1 .. n
      BY <2>1
    <3> QED
      BY <1>3, <1>5, <1>6, <2>1, <3>1
  <2>2. CASE ~(i <= n)
    <3>1. i - n \in 1 .. l - n /\ n + (i - n) = i
      BY <2>2
    <3>2. all[i] = rest[i - n]
      BY <1>5, <1>6, <2>2
    <3>3. rest[i - n] = t[n + (i - n)]
      BY <1>4, <3>1
    <3> QED
      BY ONLY <3>1, <3>2, <3>3
  <2> QED
    BY <2>1, <2>2
<1>8. all = t
  BY <1>2, <1>5, <1>6, <1>7, SeqEqual
<1> QED
  BY <1>1, <1>2, <1>4, <1>8 DEF all, rest

\* What is stored of a stroke was stored as one with points.
LEMMA StoredStroke ==
    ASSUME NEW item, NEW id, NEW storedIds, NEW f, FileOk(f), FileDrawn(f),
           ItemOk(item, id, storedIds, f), item.kind = "children",
           NEW of, of = Of(item, id, storedIds), of # NoId
    PROVE  EntryOf(of, f).body \in Seq(Points) /\ EntryOf(of, f).body # << >>
<1>1. PICK i \in DOMAIN f : f[i].kind = item.kind /\ EntryOf(of, f) = f[i]
  BY ContinuesStored
<1> QED
  BY <1>1 DEF FileOk, EntryOk, FileDrawn

\* A stroke that has a tag has points.
LEMMA StrokesDrawn ==
    ASSUME NEW items \in Maps, NEW id \in LiveIds(items), NEW storedIds, NEW f, FileOk(f),
           storedIds = IdsOf(f), storedIds \subseteq DOMAIN items, Tied(items, storedIds, f),
           FileDrawn(f), items[id].kind = "children",
           NEW body, body = bodyForStorage(items, id, storedIds, f), body # NothingToWrite,
           NEW painted, painted = Painted(items[id], id, storedIds, f).body
    PROVE  painted # << >>
<1> DEFINE item == items[id]
           of == Of(item, id, storedIds)
<1>1. id \in DOMAIN items /\ ~item.deleted /\ item \in Item /\ id \in Ids
  BY MapFacts DEF LiveIds
<1>2. ItemOk(item, id, storedIds, f)
  BY <1>1 DEF Tied
<1>3. item.appendedChildren \in Seq(Points)
  BY <1>1, ItemFacts
<1>4. painted = (IF of = NoId THEN << >> ELSE EntryOf(of, f).body) \o item.appendedChildren
  BY DEF Painted
<1>5. CASE of # NoId
  <2> DEFINE source == EntryOf(of, f).body
  <2> HIDE DEF of
  <2>1. source \in Seq(Points) /\ source # << >>
    BY <1>2, <1>5, StoredStroke DEF of
  <2> HIDE DEF source
  <2>2. painted = source \o item.appendedChildren
    BY <1>4, <1>5 DEF source
  <2> QED
    BY <1>3, <2>1, <2>2, ConcatSimplifications
<1>6. CASE of = NoId
  <2>1. id \notin storedIds /\ item.copySource = NoId
    BY <1>1, <1>6, Bounds DEF Of
  <2>2. body = IF item.persistedChildCount = 0 /\ item.appendedChildren # << >>
               THEN item.appendedChildren ELSE NothingToWrite
    BY <2>1 DEF bodyForStorage
  <2>3. painted = item.appendedChildren
    BY <1>3, <1>4, <1>6, NothingBefore
  <2> QED
    BY <2>2, <2>3
<1> QED
  BY <1>5, <1>6

\* A snapshot and the file it was read from
Saveable(items, storedIds, f) ==
    /\ items \in Maps /\ storedIds = persistedItemIds
    /\ FileOk(f) /\ storedIds = IdsOf(f) /\ Stored(items) /\ Tied(items, storedIds, f)
    /\ FileDrawn(f) /\ Agrees(items, f)

Entry(e) == [kind |-> e.kind, look |-> e.look, body |-> e.body]

\* What a save writes of an item is how it is painted.
LEMMA ContentPaints ==
    ASSUME NEW items, NEW storedIds, NEW f, Saveable(items, storedIds, f),
           NEW content, EntriesOf(content, items, storedIds, f),
           NEW i \in DOMAIN content, NEW id, id = content[i].id
    PROVE  /\ id \in LiveIds(items)
           /\ Painted(items[id], id, storedIds, f) = Entry(content[i])
           /\ bodyForStorage(items, id, storedIds, f) # NothingToWrite
<1> DEFINE item == items[id]
           body == bodyForStorage(items, id, storedIds, f)
           painted == Painted(item, id, storedIds, f)
<1>1. /\ items \in Maps /\ storedIds = persistedItemIds
      /\ FileOk(f) /\ storedIds = IdsOf(f) /\ Stored(items) /\ Tied(items, storedIds, f)
      /\ FileDrawn(f) /\ Agrees(items, f) /\ storedIds \subseteq DOMAIN items
  BY DEF Saveable, Stored
<1>2. /\ id \in LiveIds(items) /\ content[i].body # NothingToWrite
      /\ IF item.dirty
         THEN content[i] = serializeCanonicalItemForStorage(items, id, storedIds, f)
         ELSE \E k \in DOMAIN f : content[i] = f[k]
  BY DEF EntriesOf
<1>3. id \in DOMAIN items /\ ~item.deleted /\ item \in Item /\ id \in Ids
  BY <1>1, <1>2, MapFacts DEF LiveIds
<1>4. ItemOk(item, id, storedIds, f)
  BY <1>1, <1>3 DEF Tied
<1>5. painted = [kind |-> item.kind, look |-> item.look, body |-> painted.body]
  BY DEF Painted
<1>6. /\ body # NothingToWrite => painted.body = body
      /\ body = NothingToWrite =>
            /\ painted.body = << >> /\ item.appendedChildren = << >>
            /\ item.kind = "children"
  BY <1>1, <1>2, BodyPainted
<1>7. CASE item.dirty
  <2>1. /\ content[i].kind = item.kind /\ content[i].look = item.look
        /\ content[i].body = body
    BY <1>2, <1>7 DEF serializeCanonicalItemForStorage
  <2> HIDE DEF painted, body, item
  <2>2. painted.body = content[i].body /\ body # NothingToWrite
    BY <1>2, <1>6, <2>1
  <2>3. painted = Entry(content[i])
    BY <1>5, <2>1, <2>2 DEF Entry
  <2> QED
    BY <1>2, <2>2, <2>3 DEF painted, item, body
<1>8. CASE ~item.dirty
  <2>1. PICK k \in DOMAIN f : content[i] = f[k]
    BY <1>2, <1>8
  <2>2. f[k].id = id
    BY <2>1
  <2>3. id \in storedIds
    BY <1>1, <1>3, <1>8 DEF Stored
  <2>4. Of(item, id, storedIds) = id /\ id # NoId
    BY <1>3, <2>3, Bounds DEF Of
  <2>5. EntryOf(id, f) = f[k]
    BY <1>1, <2>2, EntryIs
  <2>6. f[k].kind = item.kind
    <3>1. PICK j \in DOMAIN f : f[j].id = id /\ f[j].kind = item.kind
      BY <1>1, <2>3 DEF Tied, Kept
    <3> QED
      BY <1>1, <2>2, <3>1 DEF FileOk
  <2>7. f[k].look = item.look /\ (item.kind = "text" => f[k].body = <<item.textLength>>)
    BY <1>1, <1>3, <1>8, <2>2 DEF Agrees
  <2>8. item.kind = "children" => item.appendedChildren = << >>
    BY <1>4, <1>8 DEF ItemOk, StrokeSized
  <2>9. item.kind = "inline" => f[k].body = << >>
    BY <1>1, <2>6 DEF FileDrawn
  <2>10. f[k].body \o << >> = f[k].body
    BY <1>1, NothingBefore DEF FileOk, EntryOk, Entries, Bodies
  <2>11. painted.body = IF item.kind = "inline" THEN << >>
                        ELSE IF item.kind = "text" THEN <<item.textLength>>
                        ELSE (IF Of(item, id, storedIds) = NoId THEN << >>
                              ELSE EntryOf(Of(item, id, storedIds), f).body) \o item.appendedChildren
    BY DEF Painted
  <2>12. item.kind \in {"inline", "text", "children"}
    BY <1>3, ItemFacts DEF Kinds
  <2> HIDE DEF painted, item
  <2>13. painted.body = f[k].body
    BY <2>4, <2>5, <2>7, <2>8, <2>9, <2>10, <2>11, <2>12
  <2>14. painted = Entry(content[i])
    BY <1>5, <2>1, <2>6, <2>7, <2>13 DEF Entry
  <2>15. body # NothingToWrite
    <3> HIDE DEF body
    <3>1. body = NothingToWrite => id \notin storedIds
      BY <1>1, <1>2, BodySized DEF body, item
    <3> QED
      BY <2>3, <3>1
  <2> QED
    BY <1>2, <2>14, <2>15 DEF painted, item
<1> QED
  BY <1>7, <1>8

\* So the file is drawn, ...
LEMMA ContentDrawn ==
    ASSUME NEW items, NEW storedIds, NEW f, Saveable(items, storedIds, f),
           NEW content, EntriesOf(content, items, storedIds, f)
    PROVE  FileDrawn(content)
<1>1. /\ items \in Maps /\ storedIds \subseteq DOMAIN items /\ FileOk(f) /\ storedIds = IdsOf(f)
      /\ Tied(items, storedIds, f) /\ FileDrawn(f)
  BY DEF Saveable, Stored
<1> SUFFICES ASSUME NEW i \in DOMAIN content
             PROVE  /\ content[i].kind = "inline" => content[i].body = << >>
                    /\ content[i].kind = "children" => content[i].body # << >>
  BY DEF FileDrawn
<1> DEFINE id == content[i].id
           item == items[id]
           painted == Painted(item, id, storedIds, f)
<1>2. /\ id \in LiveIds(items) /\ painted = Entry(content[i])
      /\ bodyForStorage(items, id, storedIds, f) # NothingToWrite
  BY ContentPaints
<1>3. /\ painted.kind = item.kind
      /\ item.kind = "inline" => painted.body = << >>
  BY DEF Painted
<1>4. item.kind = "children" => painted.body # << >>
  <2> HIDE DEF id
  <2> QED
    BY <1>1, <1>2, StrokesDrawn
<1> HIDE DEF painted
<1>5. painted.kind = content[i].kind /\ painted.body = content[i].body
  BY <1>2 DEF Entry
<1> QED
  BY <1>3, <1>4, <1>5

\* ... and is the drawing, without the strokes that have no point.
LEMMA ContentIsDrawing ==
    ASSUME NEW items, NEW storedIds, NEW f, Saveable(items, storedIds, f),
           NEW content, FileOk(content), EntriesOf(content, items, storedIds, f),
           NEW doc, doc = Painting(items, storedIds, f)
    PROVE  [id \in IdsOf(content) |-> Entry(EntryOf(id, content))] = Board!Storable(doc)
<1>1. /\ items \in Maps /\ storedIds \subseteq DOMAIN items /\ FileOk(f) /\ storedIds = IdsOf(f)
      /\ Tied(items, storedIds, f) /\ FileDrawn(f)
  BY DEF Saveable, Stored
<1>2. /\ DOMAIN doc = LiveIds(items)
      /\ \A id \in LiveIds(items) : doc[id] = Painted(items[id], id, storedIds, f)
  BY PaintingFacts
<1> DEFINE K == {id \in DOMAIN doc : doc[id].kind = "children" => doc[id].body # << >>}
<1>3. ASSUME NEW id \in IdsOf(content)
      PROVE  id \in K /\ Entry(EntryOf(id, content)) = doc[id]
  <2>1. PICK i \in DOMAIN content : content[i].id = id
    BY DEF IdsOf
  <2>2. EntryOf(id, content) = content[i]
    BY <2>1, EntryIs
  <2>3. /\ id \in LiveIds(items)
        /\ Painted(items[id], id, storedIds, f) = Entry(content[i])
        /\ bodyForStorage(items, id, storedIds, f) # NothingToWrite
    BY <2>1, ContentPaints
  <2>4. FileDrawn(content)
    BY ContentDrawn
  <2>5. Entry(content[i]).kind = content[i].kind /\ Entry(content[i]).body = content[i].body
    BY DEF Entry
  <2> QED
    BY <1>2, <2>2, <2>3, <2>4, <2>5 DEF FileDrawn
<1>4. ASSUME NEW id \in K
      PROVE  id \in IdsOf(content)
  <2>1. id \in LiveIds(items) /\ doc[id] = Painted(items[id], id, storedIds, f)
    BY <1>2
  <2>2. SUFFICES ASSUME bodyForStorage(items, id, storedIds, f) = NothingToWrite
                 PROVE  FALSE
    BY <2>1 DEF EntriesOf
  <2> DEFINE painted == Painted(items[id], id, storedIds, f)
  <2>3. painted.body = << >> /\ items[id].kind = "children"
    BY <1>1, <2>1, <2>2, BodyPainted
  <2>4. painted.kind = items[id].kind
    BY DEF Painted
  <2> HIDE DEF painted
  <2> QED
    BY <2>1, <2>3, <2>4 DEF painted
<1>5. Board!Storable(doc) = [id \in K |-> doc[id]]
  BY DEF Board!Storable
<1>6. K = IdsOf(content)
  BY <1>3, <1>4
<1> HIDE DEF K
<1> QED
  BY <1>3, <1>5, <1>6

\* Three strokes after each other
LEMMA Joins ==
    ASSUME NEW s \in Seq(Points), NEW t \in Seq(Points), NEW u \in Seq(Points)
    PROVE  (s \o t) \o u = s \o (t \o u)
BY ConcatAssociative

\* An item that a save replaced, settled or left alone is painted as it was before.
LEMMA FinalPaints ==
    ASSUME NEW item \in Item, NEW saved \in Item, NEW id \in Ids,
           NEW storedIds, NEW f, FileOk(f), FileDrawn(f),
           ItemOk(saved, id, storedIds, f), Grown(item, saved), ~item.deleted,
           NEW content, FileOk(content), NEW i \in DOMAIN content, content[i].id = id,
           Painted(saved, id, storedIds, f) = Entry(content[i])
    PROVE  /\ Painted(Rebased(item, saved), id, IdsOf(content), content)
                = Painted(item, id, storedIds, f)
           /\ item = saved =>
                 Painted(Settled(item), id, IdsOf(content), content) = Painted(item, id, storedIds, f)
           /\ item = saved /\ (item.kind = "children" => item.appendedChildren = << >>) =>
                 Painted(item, id, IdsOf(content), content) = Painted(item, id, storedIds, f)
<1> DEFINE written == IdsOf(content)
           of == Of(saved, id, storedIds)
           source == IF of = NoId THEN << >> ELSE EntryOf(of, f).body
           entry == content[i]
           rest == SubSeq(item.appendedChildren, Len(saved.appendedChildren) + 1,
                          Len(item.appendedChildren))
           BodyOf(one, stored) == IF one.kind = "inline" THEN << >>
                                  ELSE IF one.kind = "text" THEN <<one.textLength>>
                                  ELSE stored \o one.appendedChildren
<1>1. /\ item.kind = saved.kind /\ item.copySource = saved.copySource
      /\ Continues(item.appendedChildren, saved.appendedChildren)
  BY DEF Grown, Successor
<1>2. item.kind \in {"inline", "text", "children"}
      /\ item.appendedChildren \in Seq(Points) /\ saved.appendedChildren \in Seq(Points)
  BY ItemFacts DEF Kinds
<1>3. Of(item, id, storedIds) = of
  BY <1>1 DEF Of
<1>4. EntryOf(id, content) = entry /\ id \in written /\ id # NoId
  BY EntryIs, Bounds DEF IdsOf
<1>5. \A one : Of(one, id, written) = id
  BY <1>4 DEF Of
<1>6. \A one : Painted(one, id, storedIds, f)
                 = [kind |-> one.kind, look |-> one.look,
                    body |-> IF one.kind = "inline" THEN << >>
                             ELSE IF one.kind = "text" THEN <<one.textLength>>
                             ELSE (IF Of(one, id, storedIds) = NoId THEN << >>
                                   ELSE EntryOf(Of(one, id, storedIds), f).body)
                                  \o one.appendedChildren]
  BY DEF Painted
<1>7. /\ Painted(item, id, storedIds, f)
           = [kind |-> item.kind, look |-> item.look, body |-> BodyOf(item, source)]
      /\ Painted(saved, id, storedIds, f)
           = [kind |-> saved.kind, look |-> saved.look, body |-> BodyOf(saved, source)]
  BY <1>3, <1>6
<1>8. \A one : Painted(one, id, written, content)
                 = [kind |-> one.kind, look |-> one.look, body |-> BodyOf(one, entry.body)]
  <2>1. \A one : Painted(one, id, written, content)
                   = [kind |-> one.kind, look |-> one.look,
                      body |-> IF one.kind = "inline" THEN << >>
                               ELSE IF one.kind = "text" THEN <<one.textLength>>
                               ELSE (IF Of(one, id, written) = NoId THEN << >>
                                     ELSE EntryOf(Of(one, id, written), content).body)
                                    \o one.appendedChildren]
    BY DEF Painted
  <2> HIDE DEF written, entry
  <2> QED
    BY <1>4, <1>5, <2>1
<1>9. item.kind = "children" => source \in Seq(Points)
  <2>1. CASE of = NoId
    BY <2>1
  <2>2. CASE of # NoId /\ item.kind = "children"
    <3> HIDE DEF of
    <3>1. EntryOf(of, f).body \in Seq(Points)
      BY <1>1, <2>2, StoredStroke DEF of
    <3> QED
      BY <2>2, <3>1
  <2> QED
    BY <2>1, <2>2
<1> HIDE DEF source, of, entry, written
<1>10. BodyOf(saved, source) = entry.body
  <2>1. Entry(entry).body = entry.body
    BY DEF Entry
  <2> QED
    BY <1>7, <2>1 DEF entry
<1>11. /\ rest \in Seq(Points)
       /\ saved.appendedChildren \o rest = item.appendedChildren
  BY <1>1, <1>2, RestJoined
<1> HIDE DEF rest
<1>12. ASSUME item.kind = "children"
       PROVE  /\ entry.body \o rest = source \o item.appendedChildren
              /\ item = saved => entry.body \o << >> = source \o item.appendedChildren
  <2>1. entry.body = source \o saved.appendedChildren
    <3>1. saved.kind = "children" /\ saved.kind # "inline" /\ saved.kind # "text"
      BY <1>1, <1>12
    <3>2. BodyOf(saved, source) = source \o saved.appendedChildren
      BY ONLY <3>1
    <3> HIDE DEF BodyOf
    <3> QED
      BY ONLY <1>10, <3>2
  <2>2. (source \o saved.appendedChildren) \o rest = source \o (saved.appendedChildren \o rest)
    BY <1>2, <1>9, <1>11, <1>12, Joins
  <2>3. source \o saved.appendedChildren \in Seq(Points)
    BY <1>2, <1>9, <1>12, ConcatProperties
  <2>4. (source \o saved.appendedChildren) \o << >> = source \o saved.appendedChildren
    BY <2>3, NothingBefore
  <2> QED
    BY <1>11, <2>1, <2>2, <2>4
<1>13. Painted(Rebased(item, saved), id, written, content) = Painted(item, id, storedIds, f)
  <2> DEFINE new == Rebased(item, saved)
             count == IF item.kind = "children" /\ saved.kind = "children"
                      THEN effectiveChildCount(saved) ELSE item.persistedChildCount
             points == IF item.kind = "children" /\ saved.kind = "children"
                       THEN rest ELSE item.appendedChildren
  <2>1. new = [item EXCEPT !.copySource = NoId, !.persistedChildCount = count,
                           !.appendedChildren = points]
    BY DEF Rebased, Item, rest
  <2> HIDE DEF new, count
  <2>2. /\ new.kind = item.kind /\ new.look = item.look /\ new.textLength = item.textLength
        /\ new.appendedChildren = points
    BY <2>1 DEF Item
  <2>3. BodyOf(new, entry.body) = BodyOf(item, source)
    BY <1>1, <1>2, <1>12, <2>2
  <2>4. Painted(new, id, written, content)
          = [kind |-> new.kind, look |-> new.look, body |-> BodyOf(new, entry.body)]
    BY <1>8
  <2> HIDE DEF BodyOf
  <2>5. Painted(new, id, written, content) = Painted(item, id, storedIds, f)
    BY <1>7, <2>2, <2>3, <2>4
  <2> QED
    BY <2>5 DEF new
<1>14. ASSUME item = saved
       PROVE  Painted(Settled(item), id, written, content) = Painted(item, id, storedIds, f)
  <2> DEFINE new == Settled(item)
             count == IF item.kind = "children" THEN effectiveChildCount(item)
                      ELSE item.persistedChildCount
  <2>1. new = [item EXCEPT !.dirty = FALSE, !.copySource = NoId,
                           !.modifiedText = NoText, !.persistedChildCount = count,
                           !.appendedChildren = << >>]
    BY DEF Settled, Item
  <2> HIDE DEF new, count
  <2>2. /\ new.kind = item.kind /\ new.look = item.look /\ new.textLength = item.textLength
        /\ new.appendedChildren = << >>
    BY <2>1 DEF Item
  <2>3. BodyOf(new, entry.body) = BodyOf(item, source)
    BY <1>2, <1>12, <1>14, <2>2
  <2>4. Painted(new, id, written, content)
          = [kind |-> new.kind, look |-> new.look, body |-> BodyOf(new, entry.body)]
    BY <1>8
  <2> HIDE DEF BodyOf
  <2>5. Painted(new, id, written, content) = Painted(item, id, storedIds, f)
    BY <1>7, <2>2, <2>3, <2>4
  <2> QED
    BY <2>5 DEF new
<1>15. ASSUME item = saved, item.kind = "children" => item.appendedChildren = << >>
       PROVE  Painted(item, id, written, content) = Painted(item, id, storedIds, f)
  <2>1. BodyOf(item, entry.body) = BodyOf(item, source)
    BY <1>2, <1>12, <1>15
  <2>2. Painted(item, id, written, content)
          = [kind |-> item.kind, look |-> item.look, body |-> BodyOf(item, entry.body)]
    BY <1>8
  <2> HIDE DEF BodyOf
  <2> QED
    BY <1>7, <2>1, <2>2
<1> QED
  BY <1>13, <1>14, <1>15 DEF written

\* A finished save stores the drawing of the moment it began, and what is shown stays
\* what it was.
LEMMA FinishSaveDraws ==
    ASSUME IInv, SizeInv, DrawInv, IInv', SizeInv', FinishSave
    PROVE  Board!FinishSave /\ DrawInv'
<1> DEFINE content == Written(save.items, save.order, persistedItemIds, file)
           written == IdsOf(content)
           removed == {id \in DOMAIN itemsById : itemsById[id].held /\ itemsById[id].deleted}
           kept == DOMAIN itemsById \ removed
           Final(id) == [finalize(id, written) EXCEPT !.held = FALSE]
           snapshot == save.items
<1>1. /\ save # NoSave /\ ~SaveRefused /\ save' = NoSave
      /\ file' = content /\ persistedItemIds' = written
      /\ itemsById' = [id \in kept |-> Final(id)]
      /\ recorded' = << >>
  BY DEF FinishSave
<1>2. FileOk(content) /\ EntriesOf(content, snapshot, persistedItemIds, file)
  BY <1>1, ContentFacts
<1>3. /\ itemsById \in Maps /\ snapshot \in Maps /\ HeldInv /\ Stored(snapshot)
      /\ FileOk(file) /\ persistedItemIds = IdsOf(file)
      /\ Tied(itemsById, persistedItemIds, file) /\ Tied(snapshot, persistedItemIds, file) /\ Since
      /\ FileDrawn(file) /\ Agrees(snapshot, file)
  BY <1>1 DEF IInv, IndexInv, SaveInv, Listed, FileInv, SizeInv, DrawInv
<1>4. /\ DOMAIN itemsById \subseteq Ids /\ DOMAIN snapshot \subseteq DOMAIN itemsById
      /\ \A id \in DOMAIN snapshot : snapshot[id] \in Item
      /\ \A id \in DOMAIN itemsById : itemsById[id] \in Item
  BY <1>3, MapFacts DEF HeldInv
<1>5. /\ kept \subseteq DOMAIN itemsById
      /\ \A id \in DOMAIN itemsById : ~itemsById[id].deleted => id \in kept
      /\ \A id \in kept : ~(itemsById[id].held /\ itemsById[id].deleted)
  OBVIOUS
<1>6. DOMAIN itemsById' = kept /\ \A id \in kept : itemsById'[id] = Final(id)
  BY <1>1
<1>7. Saveable(snapshot, persistedItemIds, file)
  BY <1>3 DEF Saveable
<1> HIDE DEF content, kept, snapshot
<1>8. Drawing(save.items) = Painting(snapshot, persistedItemIds, file)
  BY <1>1, DrawingsAre DEF snapshot
<1>9. FileDrawn(content)
  BY <1>2, <1>7, ContentDrawn
<1>10. StoredDrawing' = Board!Storable(Drawing(save.items))
  <2> DEFINE doc == Painting(snapshot, persistedItemIds, file)
  <2>1. [id \in IdsOf(content) |-> Entry(EntryOf(id, content))] = Board!Storable(doc)
    BY <1>2, <1>7, ContentIsDrawing
  <2>2. StoredDrawing' = [id \in IdsOf(file') |-> Entry(EntryOf(id, file'))]
    BY DEF StoredDrawing, IdsOf, EntryOf, Entry
  <2> HIDE DEF doc
  <2>3. StoredDrawing' = Board!Storable(doc)
    BY <1>1, <2>1, <2>2
  <2> QED
    BY <1>8, <2>3 DEF doc
<1>11. ASSUME NEW id \in kept, ~itemsById[id].deleted
       PROVE  Painted(finalize(id, written), id, written, content)
                = Painted(itemsById[id], id, persistedItemIds, file)
  <2> DEFINE item == itemsById[id]
             saved == snapshot[id]
  <2>1. item \in Item /\ id \in DOMAIN itemsById /\ id \in Ids
    BY <1>4, <1>5
  <2>2. ASSUME id \notin written, item.copySource = NoId, id \notin persistedItemIds
        PROVE  Painted(item, id, written, content) = Painted(item, id, persistedItemIds, file)
    BY <2>2 DEF Painted, Of
  <2>3. CASE id \notin DOMAIN snapshot
    <3>1. finalize(id, written) = item
      BY <2>3 DEF finalize, snapshot
    <3>2. item.copySource = NoId
      BY <1>3, <2>1, <2>3 DEF Since, snapshot
    <3>3. id \notin written /\ id \notin persistedItemIds
      BY <1>2, <1>3, <2>3 DEF Stored, EntriesOf, IdsOf, LiveIds
    <3> QED
      BY <2>2, <3>1, <3>2, <3>3
  <2>4. CASE id \in DOMAIN snapshot
    <3>1. Grown(item, saved) /\ saved \in Item /\ ~saved.deleted
      BY <1>3, <1>4, <1>11, <2>1, <2>4 DEF Since, Grown, Successor, snapshot
    <3>2. /\ item.held => item = saved
          /\ ~item.held => item.dirty
      BY <1>3, <2>1 DEF HeldInv, snapshot
    <3>3. id \in LiveIds(snapshot)
      BY <2>4, <3>1 DEF LiveIds
    <3>4. ItemOk(saved, id, persistedItemIds, file)
      BY <1>3, <2>4, <3>1 DEF Tied
    <3>5. CASE id \notin written
      <4>1. finalize(id, written) = item
        BY <3>5 DEF finalize
      <4>2. bodyForStorage(snapshot, id, persistedItemIds, file) = NothingToWrite
        BY <1>2, <3>3, <3>5 DEF EntriesOf
      <4>3. persistedItemIds \subseteq DOMAIN snapshot
        BY <1>3 DEF Stored
      <4> DEFINE body == bodyForStorage(snapshot, id, persistedItemIds, file)
      <4>4. body = NothingToWrite =>
               /\ snapshot[id].kind = "children"
               /\ id \notin persistedItemIds /\ snapshot[id].copySource = NoId
        BY <1>3, <3>3, <4>3, BodySized
      <4>5. id \notin persistedItemIds /\ saved.copySource = NoId
        BY <4>2, <4>4
      <4>6. item.copySource = NoId
        BY <3>1, <4>5 DEF Grown, Successor
      <4> QED
        BY <2>2, <3>5, <4>1, <4>5, <4>6
    <3>6. CASE id \in written
      <4>1. PICK i \in DOMAIN content : content[i].id = id
        BY <3>6 DEF IdsOf
      <4>2. Painted(saved, id, persistedItemIds, file) = Entry(content[i])
        BY <1>2, <1>7, <4>1, ContentPaints
      <4> HIDE DEF item, saved
      <4>3. ~item.deleted
        BY <1>11 DEF item
      <4>4. /\ Painted(Rebased(item, saved), id, IdsOf(content), content)
                 = Painted(item, id, persistedItemIds, file)
            /\ item = saved =>
                  Painted(Settled(item), id, IdsOf(content), content)
                    = Painted(item, id, persistedItemIds, file)
            /\ item = saved /\ (item.kind = "children" => item.appendedChildren = << >>) =>
                  Painted(item, id, IdsOf(content), content)
                    = Painted(item, id, persistedItemIds, file)
        BY <1>2, <1>3, <2>1, <3>1, <3>4, <4>1, <4>2, <4>3, FinalPaints
      <4>5. ASSUME ~item.dirty
            PROVE  /\ item.copySource = NoId
                   /\ item.kind = "children" => item.appendedChildren = << >>
        <5>1. item = saved /\ id \in persistedItemIds
          BY <1>3, <2>4, <3>2, <4>5 DEF Stored, saved
        <5> QED
          BY <3>4, <4>5, <5>1 DEF ItemOk, StrokeSized
      <4>6. CASE ~item.held
        <5>1. finalize(id, written) = Rebased(item, saved)
          BY <2>4, <3>1, <3>6, <4>6 DEF finalize, item, saved, snapshot
        <5> QED
          BY <4>4, <5>1 DEF item
      <4>7. CASE item.held /\ item.dirty
        <5>1. finalize(id, written) = Settled(item)
          BY <2>4, <3>6, <4>7 DEF finalize, item, snapshot
        <5> QED
          BY <3>2, <4>4, <4>7, <5>1 DEF item, saved
      <4>8. CASE item.held /\ ~item.dirty
        <5>1. finalize(id, written) = item
          BY <2>4, <4>5, <4>8 DEF finalize, item, snapshot
        <5> QED
          BY <3>2, <4>4, <4>5, <4>8, <5>1 DEF item, saved
      <4> QED
        BY <4>6, <4>7, <4>8
    <3> QED
      BY <3>5, <3>6
  <2> QED
    BY <2>3, <2>4
<1>12. ASSUME NEW id \in kept
       PROVE  LET new == itemsById'[id]
              IN  /\ new.deleted = itemsById[id].deleted
                  /\ ~new.dirty => ~itemsById[id].dirty \/ (itemsById[id].held /\ id \in written)
                  /\ Painted(new, id, written, content)
                       = Painted(finalize(id, written), id, written, content)
  <2> DEFINE one == finalize(id, written)
             new == itemsById'[id]
  <2> HIDE DEF written
  <2>1. id \in DOMAIN itemsById /\ (id \in DOMAIN save.items => save.items[id] \in Item)
    BY <1>4, <1>5 DEF snapshot
  <2>2. LET final == [finalize(id, written) EXCEPT !.held = FALSE]
        IN  /\ final \in Item /\ finalize(id, written) \in Item
            /\ final.deleted = itemsById[id].deleted /\ final.kind = itemsById[id].kind
            /\ ~final.dirty => ~itemsById[id].dirty \/ (itemsById[id].held /\ id \in written)
    BY <1>3, <2>1, FinalizeFacts
  <2>3. new = [one EXCEPT !.held = FALSE] /\ one \in Item
    BY <1>6, <2>2
  <2>4. /\ new.deleted = itemsById[id].deleted
        /\ ~new.dirty => ~itemsById[id].dirty \/ (itemsById[id].held /\ id \in written)
    BY <2>2, <2>3
  <2> HIDE DEF one, new
  <2>5. /\ new.kind = one.kind /\ new.look = one.look /\ new.textLength = one.textLength
        /\ new.appendedChildren = one.appendedChildren /\ new.copySource = one.copySource
    BY <2>3 DEF Item
  <2>6. Painted(new, id, written, content) = Painted(one, id, written, content)
    BY <2>5 DEF Painted, Of
  <2> QED
    BY <2>4, <2>6 DEF one, new
<1>13. Drawing(itemsById)' = Drawing(itemsById)
  <2>1. Drawing(itemsById) = Painting(itemsById, persistedItemIds, file)
    BY DrawingsAre
  <2>2. Drawing(itemsById)' = Painting(itemsById', written, content)
    BY <1>1, DrawingsThen
  <2>3. LiveIds(itemsById') = LiveIds(itemsById)
    BY <1>5, <1>6, <1>12 DEF LiveIds
  <2>4. \A id \in LiveIds(itemsById) :
           Painted(itemsById'[id], id, written, content)
             = Painted(itemsById[id], id, persistedItemIds, file)
    <3>1. \A id \in LiveIds(itemsById) : id \in kept /\ ~itemsById[id].deleted
      BY <1>5 DEF LiveIds
    <3> HIDE DEF written
    <3> QED
      BY <1>11, <1>12, <3>1
  <2>5. Painting(itemsById', written, content) = Painting(itemsById, persistedItemIds, file)
    BY <2>3, <2>4 DEF Painting
  <2> QED
    BY <2>1, <2>2, <2>5
<1>14. Board!FinishSave
  <2>1. (IF save = NoSave THEN {} ELSE {Drawing(save.items)}) = {Drawing(save.items)}
    BY <1>1
  <2>2. (IF save = NoSave THEN {} ELSE {Drawing(save.items)})' = {}
    BY <1>1
  <2> QED
    BY <1>1, <1>10, <1>13, <2>1, <2>2 DEF Board!FinishSave
<1>15. ASSUME NEW id \in kept, ~itemsById'[id].dirty, NEW i \in DOMAIN content, content[i].id = id
       PROVE  /\ content[i].look = itemsById'[id].look
              /\ itemsById'[id].kind = "text" => content[i].body = <<itemsById'[id].textLength>>
  <2> DEFINE item == itemsById[id]
             new == itemsById'[id]
             saved == snapshot[id]
  <2>1. id \in DOMAIN itemsById /\ (~item.dirty \/ item.held)
    BY <1>5, <1>12, <1>15
  <2>2. item.held /\ id \in DOMAIN snapshot /\ item = saved
    BY <1>3, <2>1 DEF HeldInv, snapshot
  <2>3. ~item.deleted
    BY <1>5, <2>2
  <2>4. Painted(new, id, written, content) = Painted(item, id, persistedItemIds, file)
    BY <1>11, <1>12, <2>3
  <2>5. Painted(saved, id, persistedItemIds, file) = Entry(content[i])
    BY <1>2, <1>7, <1>15, ContentPaints
  <2> DEFINE painted == Painted(new, id, written, content)
  <2>6. /\ painted.look = new.look /\ painted.kind = new.kind
        /\ new.kind = "text" => painted.body = <<new.textLength>>
    BY DEF Painted
  <2>7. painted = Entry(content[i])
    BY <2>2, <2>4, <2>5
  <2> HIDE DEF painted, new
  <2>8. content[i].look = new.look /\ (new.kind = "text" => content[i].body = <<new.textLength>>)
    BY <2>6, <2>7 DEF Entry
  <2> QED
    BY <2>8 DEF new
<1>16. Agrees(itemsById', content)
  BY <1>6, <1>15 DEF Agrees
<1>17. DrawInv'
  BY <1>1, <1>9, <1>16 DEF DrawInv
<1> QED
  BY <1>14, <1>17

-----------------------------------------------------------------------------
(* The index and the file implement the board *)

\* Every turn is one of the board.
LEMMA NextDraws ==
    ASSUME ~ReuseIds, ~CopyDuringSave, IInv, SizeInv, DrawInv, Next
    PROVE  Board!Next /\ DrawInv'
<1>1. IInv' /\ SizeInv'
  BY IInvStep, SizeInvStep
<1>2. ASSUME NEW m \in Messages, Accept(<<m>>) \/ Refuse(<<m>>) \/ DropSeed(m)
      PROVE  Board!Edit /\ DrawInv'
  <2> DEFINE ms == <<m>>
  <2>1. ms \in Seq(Messages)
    OBVIOUS
  <2>2. CASE Accept(<<m>>)
    <3>1. WritesFirst(ms) /\ Accept(ms)
      BY <2>2, ReceivedWrites DEF Accept
    <3> HIDE DEF ms
    <3> QED
      BY <1>1, <2>1, <3>1, AcceptDraws
  <2>3. CASE Refuse(<<m>>)
    BY <1>1, <2>3, RefuseDraws
  <2>4. CASE DropSeed(m)
    BY <1>1, <2>4, DropSeedDraws
  <2> QED
    BY <1>2, <2>2, <2>3, <2>4
<1>3. ASSUME NEW ms \in Batches, Accept(ms) \/ Refuse(ms)
      PROVE  Board!Edit /\ DrawInv'
  <2>1. ms \in Seq(Messages) /\ WritesFirst(ms)
    BY Bounds, BatchWrites
  <2> QED
    BY <1>1, <1>3, <2>1, AcceptDraws, RefuseDraws
<1>4. CASE StartSave
  BY <1>1, <1>4, StartSaveDraws DEF Board!Next
<1>5. CASE FinishSave
  BY <1>1, <1>5, FinishSaveDraws DEF Board!Next
<1>6. CASE FailSave
  BY <1>1, <1>6, FailSaveDraws DEF Board!Next
<1>7. CASE Load
  BY <1>1, <1>7, LoadDraws DEF Board!Next
<1> QED
  BY <1>2, <1>3, <1>4, <1>5, <1>6, <1>7 DEF Next, Board!Next

\* A step that changes no variable changes nothing of it.
LEMMA DrawStutter ==
    ASSUME DrawInv, UNCHANGED vars
    PROVE  UNCHANGED Board!vars /\ DrawInv'
<1>1. UNCHANGED <<itemsById, persistedItemIds, file, save, recorded>>
  BY DEF vars, index
<1>2. Drawing(itemsById)' = Drawing(itemsById) /\ Drawing(save.items)' = Drawing(save.items)
  BY <1>1 DEF Drawing
<1>3. StoredDrawing' = StoredDrawing
  BY <1>1, StoredStays
<1>4. (IF save = NoSave THEN {} ELSE {Drawing(save.items)})'
        = (IF save = NoSave THEN {} ELSE {Drawing(save.items)})
  BY <1>1, <1>2
<1>5. UNCHANGED Board!vars
  BY <1>1, <1>2, <1>3, <1>4 DEF Board!vars
<1>6. DrawInv'
  BY <1>1, EditsAgree
<1> QED
  BY <1>5, <1>6

\* The empty board shows and stores nothing.
LEMMA DrawInit ==
    ASSUME Init
    PROVE  Board!Init /\ DrawInv
<1>1. itemsById = << >> /\ file = << >> /\ save = NoSave /\ recorded = << >>
  BY DEF Init
<1>2. DOMAIN itemsById = {} /\ DOMAIN file = {}
  BY <1>1
<1>3. LiveIds(itemsById) = {} /\ IdsOf(file) = {}
  BY <1>2 DEF LiveIds, IdsOf
<1>4. Drawing(itemsById) = << >>
  BY <1>3 DEF Drawing
<1>5. StoredDrawing = << >>
  BY <1>3 DEF StoredDrawing
<1>6. Board!Init
  BY <1>1, <1>4, <1>5 DEF Board!Init
<1>7. DrawInv
  BY <1>1, <1>2 DEF DrawInv, FileDrawn, Agrees
<1> QED
  BY <1>6, <1>7

\* The index and the file are together a board (DrawnBoard): what they stand for changes by
\* exactly the mutations recorded for the collaborators, removals that make room included;
\* a save stores the drawing of the moment it began, and folding it into the index changes
\* nothing that is shown (canonical_items.mjs, svg_board_store.mjs).
THEOREM IndexDrawsTheBoard ==
    ~ReuseIds /\ ~CopyDuringSave => (Spec => ImplementsDrawnBoard)
<1> SUFFICES ASSUME ~ReuseIds, ~CopyDuringSave PROVE Spec => ImplementsDrawnBoard
  OBVIOUS
<1> DEFINE Inv == IInv /\ SizeInv /\ DrawInv
<1>1. Init => Inv /\ Board!Init
  BY IInvInit, SizeInvInit, DrawInit
<1>2. Inv /\ [Next]_vars => [Board!Next]_Board!vars /\ Inv'
  <2> SUFFICES ASSUME IInv, SizeInv, DrawInv, [Next]_vars
               PROVE  [Board!Next]_Board!vars /\ Inv'
    OBVIOUS
  <2>1. CASE Next
    BY <2>1, NextDraws, IInvStep, SizeInvStep
  <2>2. CASE UNCHANGED vars
    BY <2>2, DrawStutter, IInvStutter, SizeInvStep
  <2> QED
    BY <2>1, <2>2
<1> QED
  BY <1>1, <1>2, PTL DEF Spec, ImplementsDrawnBoard, Board!Spec
=============================================================================
