SPECIFICATION MCSpec
CONSTANTS
    Emails <- MCEmails
    Lowered <- MCLowered
    mockUser = "known"
    Passwords <- MCPasswords
    Names <- MCNames
    MockName <- MCMockName
    companySizes = {"small", "large"}
    useCases = {"ops", "eng"}
    regions = {"eu", "us"}
    Recommended = "eu"
    RESEND_SECONDS = 1
    MaxSteps = 8
    TitleHas <- MCTitleHas
    Picks <- MCPicks
INVARIANTS FunnelSound 
CHECK_DEADLOCK FALSE
