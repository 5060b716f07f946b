SPECIFICATION Spec
CONSTANTS
    Block <- WideBlock
    Genesis <- MCGenesis
    NoBlock <- MCNoBlock
    Parent <- WideParent
    Anc <- WideAnc
    nHeight <- WideHeight
    nChainTrust <- WideTrust
    Valid <- WideValid
    Hardened <- OnlyGenesis
    CheckpointsMode = "STRICT"
    MaxCrashes = 0
    MaxMessages = 0
CHECK_DEADLOCK FALSE
INVARIANTS
    MemoryFollowsDisk
    BestIsMostTrusted
