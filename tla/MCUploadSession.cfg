SPECIFICATION Spec
CONSTANTS
  c1 = c1
  c2 = c2
  c3 = c3
  Chunks = {c1, c2, c3}
  RawSize <- ChunkSizes
  Eligible = {c2}
  Contents <- ShortFiles
  Known <- TwoKnown
  ProbeBatch = 2
  Concurrency = 2
  MaxXorbBytes = 4
  MaxXorbChunks = 2
INVARIANTS PlanSpellsFile XorbsWithinLimits KnownChunksNotSent RefusedOnlyIfCollected
PROPERTIES UploadEnds
CHECK_DEADLOCK FALSE
