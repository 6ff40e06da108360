CONSTANTS
    K = 5
    AlphaPreference = 3
    Terminations <- MCTerminations
    Choices = {red, blue}
    Initial = red
    MaxPolls = 5
SPECIFICATION Spec
INVARIANTS
    ConfidenceOrdered
    ConfidenceIsRun
    FinalizedByRun
    PreferenceIsLast
    ExtendIsSeamless
    SnowballPrefersStrongest
PROPERTIES
    DecisionIsFinal
CHECK_DEADLOCK FALSE
