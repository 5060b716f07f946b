SPECIFICATION Spec
CONSTANTS
    Tx <- MCTx
    Vin <- MCVin
    Vout <- MCVout
    CoinBase <- MCCoinBase
    CoinStake <- MCCoinStake
    BadScript <- None
    Block <- MCBlock
    Genesis <- MCGenesis
    Parent <- MCParent
    Vtx <- MCVtx
    nCoinbaseMaturity = 1
    NonStandard <- MCNonStandard
    LowFee <- MCLowFee
    Large <- MCLarge
    WalletTx <- NoWallet
    DialogTx <- NoDialog
    MAX_ORPHAN_TRANSACTIONS = 2
    NoTx <- MCNoTx
CHECK_DEADLOCK FALSE
INVARIANT
    PoolConnects
