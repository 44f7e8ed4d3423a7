SPECIFICATION SubprocessSpec
CONSTANTS
    Callers = {c1, c2}
    Editors = {c1, c2}
    Versioned = TRUE
    MaxTexts = 3
    MaxOpens = 1
    MaxPublishes = 1
    Caller = c1
    Agents = {a1, a2}
    MaxJobs = 1
CHECK_DEADLOCK FALSE
PROPERTIES
    MatchIsOfTheText
    SettledWasPublishedAlone
    BufferConvergesAlone
    JobsEnd
