SPECIFICATION Spec
CONSTANTS
    Callers = {c1, c2}
    Editors = {c1, c2}
    Versioned = TRUE
    MaxTexts = 3
    MaxOpens = 1
    MaxPublishes = 1
CHECK_DEADLOCK FALSE
PROPERTY VersionsAscend
