SPECIFICATION Spec
CONSTANTS
    StartHeight = 5
    MaxHeight = 9
    ProofOfWork <- WorkOnTop
    nLimit = 3
    nStakeMinAge = 2
    GetTotalBlocksEstimate = 3
    MaxMute = 2
CHECK_DEADLOCK FALSE
INVARIANTS
    TypeOK
    NothingForgotten
PROPERTIES
    CatchesUp
