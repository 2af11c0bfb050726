SPECIFICATION MCSpec
CONSTANTS
    Streams <- MCStreams
    Read <- ReadSource
    None = None
    NoPanel = NoPanel
    Gone = Gone
    NoEditor = NoEditor
    MaxWriters = 1
    MaxFaults = 1
    Presets <- MCPresets
    Halves <- MCHalves
    Projects <- MCProjects
    Matches <- MCMatches
    MaxSaves = 2
    MaxEdits = 2
    MaxEvents = 1
INVARIANTS ShownIsCurrentOrComing SavedIsStored EditorAgrees
PROPERTIES EditsReachTheServer SaveIsAnswered
CHECK_DEADLOCK FALSE
