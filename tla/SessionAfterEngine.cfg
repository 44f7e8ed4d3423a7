SPECIFICATION OwnershipSafe
CONSTANTS
    Owned = {"engine"}
    Procs = {p1}
    Inodes = {i1}
    NoInode = NoInode
    Nobody = Nobody
    Kinds = {"run"}
    Threads = {t1, t2}
    Cleaner = Cleaner
    Engines = {e1}
    Sessions = {s1}
    NoOne = NoOne
    NoObject = NoObject
    Disciplines = {FALSE}
    Size = 1
    Chunk = 1
    MaxRetries = 0
    MaxLength = 1
    NoFile = NoFile
CHECK_DEADLOCK FALSE
INVARIANT SessionCallsLive
