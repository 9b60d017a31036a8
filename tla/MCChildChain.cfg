SPECIFICATION Spec
CONSTANTS
    a = a
    b = b
    NullAddress = NullAddress
    NullSignature = NullSignature
    Accounts <- MCAccounts
    BlockPositionOffset = 4
    TxPositionOffset = 3
    Uint64Limit = 1000
    MempoolSize = 2
    MaxBlockTxesNum = 2
    KeyNumeralBase = 10
    PrefetchSize = 4
    MaxBlkNum = 4
    DepositAmounts = {2}
    ClientTxes <- MCClientTxes
    ClientPositions <- MCClientPositions
INVARIANTS
    TypeOK
    SpentExplained
    NoDoubleSpend
    InputsInEarlierBlocks
    BlocksAsSigned
    TokenIndexExact
    UTXOListingExact
    PositionsRoundTrip
    InputsAuthorized
    ValueConserved
PROPERTIES
    RecordsOnlyGrow
    PendingKept
    ExitedNotSpentLater
