CONSTANTS
  a = a
  b = b
  c = c
  Ids = {a, b, c}
  Points = {1, 2}
  MaxText = 1
  MaxChildren = 3
  MaxItemCount = 2
  Batches <- MCBatches
  MaxEdits = 4
  ReuseIds = FALSE
  CopyDuringSave = TRUE
  NoId = NoId
  Unwritable = Unwritable
  NothingToWrite = NothingToWrite
SPECIFICATION Spec
INVARIANT AlwaysStorable
CHECK_DEADLOCK FALSE
