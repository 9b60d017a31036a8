SPECIFICATION NodeSpec
CONSTANTS
    a = a
    r1 = r1
    r2 = r2
    DepositWatcher = depositWatcher
    ExitWatcher = exitWatcher
    NullAddress = NullAddress
    NullSignature = NullSignature
    Accounts = {a}
    Handlers <- MCHandlers
    BlockPositionOffset = 3
    TxPositionOffset = 3
    Uint64Limit = 1000
    MempoolSize = 2
    MaxBlockTxesNum = 2
    KeyNumeralBase = 10
    PrefetchSize = 100
    MaxBlkNum = 4
    DepositAmounts = {2}
    ClientTxes <- MCClientTxes
    ClientPositions <- MCClientPositions
    MaxRootBlocks = 3
    MaxExits = 1
    MaxManual = 0
    MerkleTreeLeaves = 2
    Faults = FALSE
INVARIANT
    SameBlocks
