SPECIFICATION OwnershipSpec
CONSTANTS
    Owned = {"lock", "engine", "part"}
    Procs = {p1, p2}
    Inodes = {i1, i2, i3}
    NoInode = NoInode
    Nobody = Nobody
    Kinds = {"state", "run", "download"}
    Threads = {p1, p2}
    Cleaner = Cleaner
    Engines = {e1}
    Sessions = {s1, s2}
    NoOne = NoOne
    NoObject = NoObject
    Disciplines = {TRUE, FALSE}
    Size = 3
    Chunk = 2
    MaxRetries = 2
    MaxLength = 6
    NoFile = NoFile
CHECK_DEADLOCK FALSE
INVARIANTS
    OwnersHold
    PidNamesHolder
    LeaseCoversEngine
    FreedOnce
    EngineCallsLive
    DisciplinedCallsLive
    HashIsOfTheObject
    Resumable
PROPERTIES
    ImplementsMutex
    WaiterServed
    LeakedEngineFreed
    DownloadEnds
    ResumedToTheEnd
