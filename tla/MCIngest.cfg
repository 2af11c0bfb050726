SPECIFICATION FairSpec
CONSTANTS
    Items <- ThreeItems
    Pulls <- OnePull
    Kinds <- AllKinds
    Attempts = {a1, a2}
    PerPage = 1
    MaxPages = 1
    HardCap = 4
    BoardPages = 3
    MaxStamp = 2
    MaxEdits = 1
    MaxMishaps = 1
INVARIANTS GaplessUnlessMoved NoDanglingRow VisibleWhenComplete
PROPERTIES EventuallyCaughtUp
