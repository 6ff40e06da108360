CONSTANTS
    K = 5
    AlphaPreference = 3
    AlphaConfidence = 5
    Beta = 1
    Terminations <- MCTerminations
    Choices = {0, 1, 2, 5}
    Blocks = {0, 1, 2, 5}
    NumBits = 3
    Bits <- MCBits
    Genesis = 0
    Parent <- MCParent
    Ancestors <- MCAncestors
    Height <- MCHeight
    Slots = {1, 2, 3, 4, 5}
    Ballots <- MCAllBallots
    Nil = Nil
SPECIFICATION Spec
INVARIANTS
    EarlyTerminationIsSound
CHECK_DEADLOCK FALSE
