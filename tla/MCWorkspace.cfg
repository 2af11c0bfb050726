SPECIFICATION MCSpec
CONSTANTS
    Streams <- MCStreams
    Read <- ReadRows
    None = None
    NoData = NoData
    NoEditor = NoEditor
    Presets = {900}
    Halves = {}
    Tokens <- MCTokens
    Oauths <- MCOauths
    Files <- MCFiles
    FileOf <- MCFileOf
    Workspaces <- MCWorkspaces
    LIMIT = 2
    PAGE = 2
    MaxOffset = 4
    MaxVisits = 2
    MaxCalls = 2
    MaxFails = 2
    MaxKeys = 4
    MaxEvents = 2
    MaxWriters = 1
    MaxFaults = 1
 
PROPERTIES OpensTheNew DetailLoads
CHECK_DEADLOCK FALSE
