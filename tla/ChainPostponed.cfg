SPECIFICATION Spec
CONSTANTS
    Block <- TreeBlock
    Genesis <- MCGenesis
    NoBlock <- MCNoBlock
    Parent <- TreeParent
    Anc <- TreeAnc
    nHeight <- TreeHeight
    nChainTrust <- TreeTrust
    Valid <- TipInvalid
    Hardened <- OnlyGenesis
    CheckpointsMode = "STRICT"
    MaxCrashes = 0
    MaxMessages = 1
CHECK_DEADLOCK FALSE
INVARIANTS
    MemoryFollowsDisk
