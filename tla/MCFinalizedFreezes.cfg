CONSTANTS
    K = 5
    AlphaPreference = 3
    Terminations <- MCTerminations
    Choices = {red, blue}
    Initial = red
    MaxPolls = 5
SPECIFICATION Spec
PROPERTIES
    FinalizedFreezesState
CHECK_DEADLOCK FALSE
