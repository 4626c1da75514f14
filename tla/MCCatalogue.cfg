SPECIFICATION SpecUsed
CONSTANTS
    s1 = s1
    Xorbs = {1, 2}
    Shards = {s1}
    Files = {1, 2, 3}
    Owners <- MCOwners
    NoShard = NoShard
    Terms <- MCTerms
    CasInfo <- MCCasInfo
    HeadsFail = FALSE
    MaxClock = 0
    NoScope = NoScope
    NoToken = NoToken
    MaxLimit = 2
    DefaultLimit = 2
    NoLimit = NoLimit
    Limits = {0, 1, 3, NoLimit}
    Configs <- MCConfigs
    Tokens <- MCTokens
    Sizes <- MCSizes
    MaxChanges = 2
CHECK_DEADLOCK FALSE
INVARIANTS
    ListedOnce
    OwnFilesOnly
    FiguresBounded
