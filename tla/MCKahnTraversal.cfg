CONSTANTS
    K = 4
    AlphaPreference = 3
    AlphaConfidence = 3
    Beta = 1
    Terminations <- MCTerminations
    Choices = {0, 1, 2, 3, 4, 5, 6}
    Blocks = {0, 1, 2, 3, 4, 5, 6}
    NumBits = 3
    Bits <- MCBits
    Genesis = 0
    Parent <- MCParent
    Ancestors <- MCAncestors
    Height <- MCHeight
    Slots = {1, 2, 3, 4}
    Ballots <- MCBallots
    MaxIssued = 7
SPECIFICATION Spec
INVARIANTS
    DegreesCount
    StackIsPolledBranch
CHECK_DEADLOCK FALSE
