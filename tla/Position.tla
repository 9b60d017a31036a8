------------------------------ MODULE Position ------------------------------
(***************************************************************************)
(* core/types/position.go: a block, a transaction and one of its inputs or *)
(* outputs are named by one uint64, the "position".                        *)
(***************************************************************************)
EXTENDS Naturals

CONSTANTS
    BlockPositionOffset,  \* 100000 in the code
    TxPositionOffset,     \* 10000 in the code
    Uint64Limit           \* 2^64 in the code: one past the largest uint64

ASSUME PositionAssumption ==
    /\ BlockPositionOffset \in Nat \ {0}
    /\ TxPositionOffset \in Nat \ {0}
    /\ Uint64Limit \in Nat \ {0}
    /\ TxPositionOffset <= BlockPositionOffset

Uint64(n) == n % Uint64Limit

NewTxPosition(blkNum, txIndex) ==
    Uint64(blkNum * BlockPositionOffset + txIndex)

\* Mutant: the offset of blocks is used for elements too.
newTxElementPositionMutant(blkNum, txIndex, elemIndex) ==
    Uint64(NewTxPosition(blkNum, txIndex) * BlockPositionOffset + elemIndex)

newTxElementPosition(blkNum, txIndex, elemIndex) ==
    Uint64(NewTxPosition(blkNum, txIndex) * TxPositionOffset + elemIndex)

NewTxInPosition(blkNum, txIndex, inIndex) ==
    newTxElementPosition(blkNum, txIndex, inIndex)

NewTxOutPosition(blkNum, txIndex, outIndex) ==
    newTxElementPosition(blkNum, txIndex, outIndex)

ParseTxPosition(pos) ==
    <<pos \div BlockPositionOffset, pos % BlockPositionOffset>>

\* The element index is the remainder by txPos, not by TxPositionOffset: a
\* position below TxPositionOffset divides by zero, which panics.
ParsePanics(pos) == pos \div TxPositionOffset = 0

parseTxElementPosition(pos) ==
    LET txPos == pos \div TxPositionOffset
        blkTx == ParseTxPosition(txPos)
    IN  <<blkTx[1], blkTx[2], pos % txPos>>

ParseTxInPosition(pos) == parseTxElementPosition(pos)
ParseTxOutPosition(pos) == parseTxElementPosition(pos)
-----------------------------------------------------------------------------
(* Properties.                                                             *)

\* The elements a position can name: blocks are numbered from 1, and the
\* position has not wrapped around.
IsElement(blkNum, txIndex, elemIndex) ==
    /\ blkNum >= 1
    /\ txIndex < BlockPositionOffset
    /\ elemIndex < TxPositionOffset
    /\ (blkNum * BlockPositionOffset + txIndex) * TxPositionOffset + elemIndex
         < Uint64Limit

\* Parsing the position of an element gives the element back and does not
\* panic, although the parser takes the element index modulo the transaction's
\* position where the constructor multiplied by TxPositionOffset.
RoundTrips(blkNum, txIndex, elemIndex) ==
    IsElement(blkNum, txIndex, elemIndex) =>
        LET pos == NewTxOutPosition(blkNum, txIndex, elemIndex)
        IN  /\ ~ParsePanics(pos)
            /\ ParseTxOutPosition(pos) = <<blkNum, txIndex, elemIndex>>
=============================================================================
