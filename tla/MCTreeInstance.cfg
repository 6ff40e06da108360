CONSTANTS
    K = 3
    AlphaPreference = 2
    AlphaConfidence = 3
    Beta = 2
    Terminations <- MCTerminations
    Choices = {1, 2, 3, 4}
    NumBits = 3
    Bits <- MCBits
    Slots = {1, 2, 3}
    Ballots <- MCBallots
    MaxAdded = 3
    MaxConfidence = 2
SPECIFICATION Spec
INVARIANTS
    WellFormed
    PreferencesAgree
    OnlyRootFinalizes
    RecursionAgrees
PROPERTIES
    EagerSpec
CHECK_DEADLOCK FALSE
