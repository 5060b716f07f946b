SPECIFICATION Spec
CONSTANTS
    Block <- TreeBlock
    Genesis <- MCGenesis
    NoBlock <- MCNoBlock
    NoStake <- MCNoStake
    Parent <- TreeParent
    Stake <- TreeStake
    Outcome <- AnyOutcome
CHECK_DEADLOCK FALSE
INVARIANTS
    OrphansWaitForMissing
