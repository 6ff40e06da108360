SPECIFICATION Spec
CONSTANTS
    Blocks = {0, 1, 2, 3}
    Genesis = 0
    Parent <- MCParent
    Ancestors <- MCAncestors
    Height <- MCHeight
    Options <- MCOptions
    Validators = {v1}
    PollIDs = {1, 2}
    ConcurrentRepolls = 1
    OptimalProcessing = 1
    MaxBuilds = 1
INVARIANTS
    DependenciesResolve
    PendingBlocksWait
    NoVoteIsLost
    UnverifiedTree
    ProcessingIsPolled
    AcceptedIsChain
