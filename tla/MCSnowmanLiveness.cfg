CONSTANTS
    K = 3
    AlphaPreference = 2
    AlphaConfidence = 3
    Beta = 2
    Terminations <- MCTerminations
    Choices = {0, 1, 2, 3, 4}
    Blocks = {0, 1, 2, 3, 4}
    NumBits = 3
    Bits <- MCBits
    Genesis = 0
    Parent <- MCParent
    Ancestors <- MCAncestors
    Height <- MCHeight
    Slots = {1, 2, 3}
    Ballots <- MCBallots
    Nil = Nil
SPECIFICATION LiveSpec
INVARIANTS
    ProcessingTree
    PreferredBranch
    NoPendingDecision
PROPERTIES
    ConsensusSpec
    PreferenceIsAccepted
    EveryBlockIsDecided
CHECK_DEADLOCK FALSE
