SPECIFICATION NodeSpec
CONSTANTS
    Block <- SmallBlocks
    Genesis = "g"
    Prev <- SmallPrev
    Height <- MCHeight
    Work <- SmallWork
    Path <- MCPath
    Outpoint <- MCOutpoints
    Spent <- MCSpent
    Created <- MCCreated
    Replay <- MCReplay
    Bip34 <- SmallBlocks
    BadPow = {}
    BadBody = {}
    BadContext = {}
    BadWeight = {}
    BadInputs = {"y3"}
    MaxOrphans = 2
    Tx <- SmallTx
    Inputs <- SmallInputs
    Outputs <- SmallOutputs
    Coinbase <- SmallCoinbases
    Fee <- SmallFee
    Size <- SmallSize
    LockTime <- SmallLocks
    RelLock <- SmallRels
    Fault <- SmallFaults
    Maturity = 3
    MaxAncestors = 2
    MaxSize = 2
    Threshold = 1
    MaxOrphanTxs = 2
    MaxBlockSize = 3
    Mine <- SmallMine
    Value <- SmallValue
    Txs <- SmallTxs
    Offered = {"P", "Q", "D", "M"}
    Spendable = {"P"}
    Margin = 1
    Env <- SmallEnv
INVARIANT FeesNotNegative
