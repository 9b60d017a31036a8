SPECIFICATION TxnSpec
CONSTANTS
    a = a
    h1 = h1
    h2 = h2
    NullAddress = NullAddress
    NullSignature = NullSignature
    Accounts = {a}
    Handlers <- MCHandlers
    BlockPositionOffset = 3
    TxPositionOffset = 3
    Uint64Limit = 1000
    MempoolSize = 1
    MaxBlockTxesNum = 2
    KeyNumeralBase = 10
    PrefetchSize = 5
    MaxBlkNum = 3
    DepositAmounts = {2}
    ClientTxes <- MCClientTxes
    ClientPositions <- MCClientPositions
SYMMETRY Symmetry
INVARIANTS
    SpentExplained
    TokenIndexExact
    OvershootBounded
PROPERTIES
    ImplementsLedger
