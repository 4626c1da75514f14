SPECIFICATION Spec
CONSTANTS
  Verifiers = {t1, t2}
  Keys = {k1, k2}
  Ttl = 3
  MinRefresh = 2
  Timeout = 1
  MaxClock = 5
SYMMETRY Alike
INVARIANTS CacheInv
PROPERTIES WithdrawnKeysRunOut OnlyNewKeysRefused
