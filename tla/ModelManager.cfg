SPECIFICATION FairSpec
CONSTANTS
    p1 = p1
    p2 = p2
    Procs = {p1, p2}
    Models = {a, b}
    Eligible = {a, b}
    None = None
    Named = Named
    Unnamed = {u1, u2}
    Links = {"hard", "symbolic"}
    Kinds = {"partial"}
    May <- Divided
INVARIANTS
    DefaultIsTheLink
    DeleteClearsKnownDefault
    DownloadLeavesDefault
PROPERTIES
    OnlySetOverrides
    UndisturbedByName
    OperationsEnd
