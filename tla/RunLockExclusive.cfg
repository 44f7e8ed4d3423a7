SPECIFICATION OwnershipSafe
CONSTANTS
    Owned = {"lock"}
    Procs = {p1, p2, p3}
    Inodes = {i1, i2, i3, i4}
    NoInode = NoInode
    Nobody = Nobody
    Kinds = {"run"}
    Threads = {t1}
    Cleaner = Cleaner
    Engines = {e1}
    Sessions = {s1}
    NoOne = NoOne
    NoObject = NoObject
    Disciplines = {FALSE}
    Size = 1
    Chunk = 1
    MaxRetries = 0
    MaxLength = 1
    NoFile = NoFile
CHECK_DEADLOCK FALSE
SYMMETRY Symmetry
INVARIANT AtMostOneHolder
