SPECIFICATION Spec
CONSTANTS
    StartHeight = 5
    MaxHeight = 5
    ProofOfWork <- OnlyFirst
    nLimit = 2
    nStakeMinAge = 3
    GetTotalBlocksEstimate = 3
    MaxMute = 0
CHECK_DEADLOCK FALSE
PROPERTIES
    NextBatchFollows
