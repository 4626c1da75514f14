SPECIFICATION Spec
CONSTANTS
  x1 = x1
  x2 = x2
  c1 = c1
  c2 = c2
  c3 = c3
  Xorbs = {x1, x2}
  Chunks = {c1, c2, c3}
  WholeFile = WholeFile
  RawSize <- ChunkSizes
  Frames <- TwoXorbs
  Contents <- SomeFiles
  Header = 1
  Servings = {"random", "secret", "presign"}
  UrlTtl = 0
  MaxTerms = 3
  MaxClock = 1
INVARIANTS DownloadCorrect GrantsOnlyNeeded FailsForCause
CHECK_DEADLOCK FALSE
