CONSTANTS
    K = 3
    AlphaPreference = 2
    AlphaConfidence = 3
    Beta = 2
    Terminations <- MCTerminations
    Choices = {0, 1}
    Blocks = {0, 1}
    NumBits = 3
    Bits <- MCBits
    Genesis = 0
    Parent <- MCParent
    Ancestors <- MCAncestors
    Height <- MCHeight
    Slots = {1, 2, 3}
    Ballots <- MCBallots
    Validators = {"a", "b"}
    Samples <- MCTwoValidators
    MaxPolls = 2
SPECIFICATION FairSpec
INVARIANTS
    HandedOverInOrder
    ValidatorsCountOnce
PROPERTIES
    VotesAreKept
    EveryPollEnds
CHECK_DEADLOCK FALSE
