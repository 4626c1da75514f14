SPECIFICATION SpecLoop
CONSTANTS
  s1 = s1
  s2 = s2
  f1 = f1
  f2 = f2
  x1 = x1
  x2 = x2
  NoShard = NoShard
  Xorbs = {x1, x2}
  Shards = {s1, s2}
  Files = {f1, f2}
  Owners = {o1}
  Admins = {}
  Terms <- TermsTwo
  CasInfo <- CasInfoNone
  Posters = {}
  Registrars = {t1}
  Deleters = {}
  Passes = {p1}
  Grace = 1
  MinGrace = 1
  Overrides = {}
  HeadsFail = TRUE
  MaxClock = 1
INVARIANTS TypeOK StableInv SweptGarbageGone
PROPERTIES GcSparesStableFiles 
