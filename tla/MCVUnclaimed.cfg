SPECIFICATION SpecRegistered
CONSTANTS
  s1 = s1
  s2 = s2
  f1 = f1
  f2 = f2
  x1 = x1
  x2 = x2
  NoShard = NoShard
  Xorbs = {x1}
  Shards = {s1}
  Files = {f1}
  Owners = {o1, o2}
  Admins = {}
  Terms <- TermsSpan
  CasInfo <- CasInfoNone
  Posters = {}
  Registrars = {}
  Deleters = {t1, t2}
  Passes = {}
  Grace = 1
  MinGrace = 1
  Overrides = {}
  HeadsFail = FALSE
  MaxClock = 0
INVARIANTS UnclaimedRowsGo
