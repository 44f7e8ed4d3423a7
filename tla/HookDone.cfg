SPECIFICATION HookSpec
CONSTANTS
    Sessions = {s}
    Fns = {x}
    NoFn = NoFn
    MaxIds = 3
CHECK_DEADLOCK FALSE
INVARIANT DoneReached
