CONSTANTS
    NoBound = NoBound
    Missing = Missing
    Data <- MCData
    Large <- MCLarge
    Writers = {w1}
    Bounds <- MCBounds
SPECIFICATION Spec
INVARIANTS
    ReadsOneVersion
    ReadFailsForCause
    PointersResolve
