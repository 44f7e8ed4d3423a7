SPECIFICATION StreamSpec
CONSTANTS
    Inputs <- MCInputs
    Margin = 3
CHECK_DEADLOCK FALSE
INVARIANT EventsAreTheMessage
