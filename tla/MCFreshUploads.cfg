SPECIFICATION SpecFirstVersion
CONSTANTS
  f1 = f1
  s1 = s1
  s2 = s2
  x1 = x1
  x2 = x2
  NoShard = NoShard
  Xorbs = {x1, x2}
  Shards = {s1, s2}
  Files = {f1}
  Owners = {o1}
  Admins = {}
  Terms <- TermsEach
  CasInfo <- CasInfoNone
  Posters = {t1}
  Registrars = {t1}
  Deleters = {}
  Passes = {p1}
  Grace = 3
  MinGrace = 2
  Overrides = {1, 2}
  MarkTicks = 1
  HeadsFail = FALSE
  MaxClock = 2
INVARIANTS FreshFilesIntact
PROPERTIES GraceProtects
