SPECIFICATION MCSpec
CONSTANTS
  a = a
  b = b
  c = c
  Ids = {a, b, c}
  Points = {1, 2}
  MaxText = 1
  MaxChildren = 3
  MaxItemCount = 2
  Batches <- MCBatches
  MaxEdits = 4
  ReuseIds = FALSE
  CopyDuringSave = FALSE
  NoId = NoId
  Unwritable = Unwritable
  NothingToWrite = NothingToWrite
  SaveInterval = 1
  MaxDelay = 2
  MaxWrites = 3
  MaxQueued = 2
  MaxTime = 6
  r1 = r1
  r2 = r2
  Readers = {r1, r2}
  Loader = Loader
  MaxMutations = 2
  MaxCrashes = 2
  MaxSpoilings = 1
  NoFile = NoFile
  NoBoard = NoBoard
  NotSaving = NotSaving
  Failed = Failed
CONSTRAINT FewMishaps
INVARIANTS IndexIsConsistent SizesAgree AlwaysStorable UnsavedIsScheduled AnswersAreCurrent BoardContinuesFile
PROPERTIES ImplementsDrawnBoard ImplementsWriteBehind StoredOnlyExtended SaveSucceeds
CHECK_DEADLOCK FALSE
