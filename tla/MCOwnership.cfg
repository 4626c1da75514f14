SPECIFICATION Spec
CONSTANTS
  s1 = s1
  s2 = s2
  f1 = f1
  f2 = f2
  x1 = x1
  x2 = x2
  NoShard = NoShard
  Xorbs = {x1, x2}
  Shards = {s1, s2}
  Files = {f1}
  Owners = {o1, o2}
  Admins = {o2}
  Terms <- TermsTwo
  CasInfo <- CasInfoNone
  Posters = {t3}
  Registrars = {t3}
  Deleters = {t1, t2}
  Passes = {}
  Grace = 1
  MinGrace = 1
  Overrides = {}
  HeadsFail = TRUE
  MaxClock = 0
SYMMETRY Alike
INVARIANTS RemovalSparesHeldClaims LiveFilesIntact
