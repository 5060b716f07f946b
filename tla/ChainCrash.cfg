SPECIFICATION Spec
CONSTANTS
    Block <- TreeBlock
    Genesis <- MCGenesis
    NoBlock <- MCNoBlock
    Parent <- TreeParent
    Anc <- TreeAnc
    nHeight <- TreeHeight
    nChainTrust <- TreeTrust
    Valid <- TreeBlock
    Hardened <- TreeHardened
    CheckpointsMode = "STRICT"
    MaxCrashes = 2
    MaxMessages = 2
CHECK_DEADLOCK FALSE
INVARIANTS
    TypeOK
    MemoryFollowsDisk
    TxIndexIsBestChain
    HashNextIsBestChain
    MainChainFlagIsExact
    CheckpointOnBestChain
PROPERTIES
    TrustLostOnlyToCheckpoint
    ImplementsLedger
