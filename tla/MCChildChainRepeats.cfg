SPECIFICATION Spec
CONSTANTS
    a = a
    b = b
    NullAddress = NullAddress
    NullSignature = NullSignature
    Accounts <- MCAccounts
    BlockPositionOffset = 3
    TxPositionOffset = 3
    Uint64Limit = 1000
    MempoolSize = 2
    MaxBlockTxesNum = 2
    KeyNumeralBase = 10
    PrefetchSize = 100
    MaxBlkNum = 4
    DepositAmounts = {2}
    ClientTxes <- MCClientTxesWithRepeats
    ClientPositions <- MCClientPositions
INVARIANT
    ValueConserved
