SPECIFICATION Spec
CONSTANTS
    Tx <- MCTx
    Vin <- MCVin
    Vout <- MCVout
    CoinBase <- MCCoinBase
    CoinStake <- MCCoinStake
    BadScript <- None
    Block <- MCBlock
    Genesis <- MCGenesis
    Parent <- MCParent
    Vtx <- MCVtx
    nCoinbaseMaturity = 1
    NonStandard <- MCNonStandard
    LowFee <- MCLowFee
    Large <- MCLarge
    WalletTx <- MCWalletTx
    DialogTx <- MCDialogTx
    MAX_ORPHAN_TRANSACTIONS = 2
    NoTx <- MCNoTx
CHECK_DEADLOCK FALSE
INVARIANTS
    TypeOK
    IndexIsChain
    SwitchDependsOnBranchOnly
    NoDanglingInPoint
    NoDoubleSpendInPool
    NotInPoolAndChain
    AssembledBlockConnects
    OrphanMapsAgree
PROPERTIES
    SwitchLosesNothing
    OrphansFollowParents
