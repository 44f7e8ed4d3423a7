SPECIFICATION ProgressSpec
CONSTANTS
    Procs = {p1, p2}
    NParts = 3
    PartLen = 2
    NoFile = NoFile
    Nobody = Nobody
    MaxTokens = 4
    Draft = 3
    MaxRounds = 2
    Rooms = {1, 3, 6}
    Margin = 3
CHECK_DEADLOCK FALSE
INVARIANTS
    AssemblyIsImage
    SpaceSuffices
    SessionIsText
    DrawnInMode
    WithinBudget
    StreamIsFaithful
PROPERTIES
    VerifiedKept
    DownloadsEnd
    RunReturns
