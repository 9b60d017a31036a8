SPECIFICATION WalletSpec
CONSTANTS
    a = a
    b = b
    t1 = t1
    t2 = t2
    NullAddress = NullAddress
    NullSignature = NullSignature
    Accounts <- MCAccounts
    Terminals <- MCTerminals
    Depositors = {a}
    BlockPositionOffset = 3
    TxPositionOffset = 3
    Uint64Limit = 1000
    MempoolSize = 2
    MaxBlockTxesNum = 2
    KeyNumeralBase = 10
    PrefetchSize = 5
    MaxBlkNum = 3
    DepositAmounts = {2}
    Payments <- MCPayments
    MaxExits = 2
    ClientTxes = {}
    ClientPositions <- MCClientPositions
SYMMETRY Symmetry
INVARIANTS
    CommandsStayGood
    ExitsStayGood
    DoubleExitsChallengeable
    ListedOutputsSpendable
