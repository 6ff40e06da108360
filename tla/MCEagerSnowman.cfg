CONSTANTS
    K = 3
    AlphaPreference = 2
    AlphaConfidence = 3
    Beta = 3
    Terminations <- MCTerminations
    Choices = {0, 1, 2, 3}
    Blocks = {0, 1, 2, 3}
    NumBits = 3
    Bits <- MCBits
    Genesis = 0
    Parent <- MCParent
    Ancestors <- MCAncestors
    Height <- MCHeight
    Slots = {1, 2, 3}
    Ballots <- MCBallots
    Nil = Nil
SPECIFICATION Spec
INVARIANTS
    LoopAgrees
PROPERTIES
    EagerSpec
CHECK_DEADLOCK FALSE
