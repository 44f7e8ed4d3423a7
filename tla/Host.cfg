SPECIFICATION HostSpec
CONSTANTS
    Procs = {a, b}
    Versions = {x, y}
    None = None
    Torn = Torn
    Callers = {a, b}
    Images = {0, 1, 2}
    Entries = {0, 2}
    Budgets = {1, 3}
    PromptImages = 1
    Sessions = {a, b}
    Fns = {x, y}
    NoFn = NoFn
    MaxIds = 3
    Prompts <- SessionPrompts
    Identities = {"a", "b"}
    MaxBlock = 2
    MaxText = 6
    Writers = {a, b}
    Keys = {k1, k2, k3}
    NoValue = NoValue
    MaxKeys = 2
    MaxValueBytes = 2
    MaxTotalBytes = 3
    MaxWrite = 2
    MaxCalls = 3
SYMMETRY Symmetry
CHECK_DEADLOCK FALSE
INVARIANTS
    DoneIsLoadable
    MeetsReference
    ImagesAccountedFor
    HooksAccounted
    CheckpointOfTheText
    PadKept
PROPERTIES
    ReplacedAtomically
    UnaskedKeeps
