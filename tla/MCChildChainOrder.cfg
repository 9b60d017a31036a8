\* Four transactions in a block, and tx indexes printed in base 3: one index
\* has two digits, as the eleventh has in the code.
\* The bound on blocks stops the run.
CHECK_DEADLOCK FALSE
SPECIFICATION Spec
CONSTANTS
    a = a
    b = b
    NullAddress = NullAddress
    NullSignature = NullSignature
    Accounts <- MCAccounts
    BlockPositionOffset = 5
    TxPositionOffset = 3
    Uint64Limit = 1000
    MempoolSize = 4
    MaxBlockTxesNum = 4
    KeyNumeralBase = 3
    PrefetchSize = 100
    MaxBlkNum = 5
    DepositAmounts = {2}
    ClientTxes <- Spends
    ClientPositions = {}
INVARIANT
    ProofsProveTheirTx
