SPECIFICATION FilesSpec
CONSTANTS
  Readers = {r1}
  Loader = Loader
  MaxMutations = 1
  MaxCrashes = 0
  MaxSpoilings = 0
  NoFile = NoFile
  NoBoard = NoBoard
  NotSaving = NotSaving
  Failed = Failed
PROPERTY LoadedIsStored
CHECK_DEADLOCK FALSE
