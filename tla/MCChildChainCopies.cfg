\* An iterator holds four items at once: a deposit has three keys, so with a
\* second block four keys follow the one that is deleted.
SPECIFICATION Spec
CONSTANTS
    a = a
    b = b
    NullAddress = NullAddress
    NullSignature = NullSignature
    Accounts <- MCAccounts
    BlockPositionOffset = 3
    TxPositionOffset = 3
    Uint64Limit = 1000
    MempoolSize = 2
    MaxBlockTxesNum = 2
    KeyNumeralBase = 10
    PrefetchSize = 4
    MaxBlkNum = 4
    DepositAmounts = {2}
    ClientTxes <- Spends
    ClientPositions <- MCClientPositions
INVARIANT
    HeldOnce
