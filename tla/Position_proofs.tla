--------------------------- MODULE Position_proofs ---------------------------
(***************************************************************************)
(* Positions name one element each: parsing what the constructors of       *)
(* core/types/position.go build gives the numbers they were built from.    *)
(***************************************************************************)
EXTENDS Position, TLAPS

\* Dividing k * d + r by d, for a remainder r below d, gives k and r.
LEMMA DivMod ==
    ASSUME NEW d \in Nat \ {0}, NEW k \in Nat, NEW r \in Nat, r < d
    PROVE  (k * d + r) \div d = k /\ (k * d + r) % d = r
  BY SMT

\* The position of an element that fits in a uint64 is the plain number.
LEMMA NoWrap ==
    ASSUME NEW blkNum \in Nat, NEW txIndex \in Nat, NEW elemIndex \in Nat,
           IsElement(blkNum, txIndex, elemIndex)
    PROVE  LET txPos == blkNum * BlockPositionOffset + txIndex
           IN  /\ NewTxPosition(blkNum, txIndex) = txPos
               /\ NewTxOutPosition(blkNum, txIndex, elemIndex)
                    = txPos * TxPositionOffset + elemIndex
<1> DEFINE txPos == blkNum * BlockPositionOffset + txIndex
           pos == txPos * TxPositionOffset + elemIndex
<1>1. txPos \in Nat /\ pos \in Nat /\ TxPositionOffset \in Nat \ {0}
  BY PositionAssumption
<1>2. pos < Uint64Limit
  BY DEF IsElement
<1>3. txPos <= txPos * TxPositionOffset
  <2> HIDE DEF txPos
  <2> QED  BY <1>1
<1>4. txPos < Uint64Limit
  <2>1. txPos * TxPositionOffset \in Nat
    BY <1>1
  <2> HIDE DEF txPos
  <2> QED  BY <1>1, <1>2, <1>3, <2>1, PositionAssumption
<1>5. \A n \in Nat : n < Uint64Limit => Uint64(n) = n
  BY PositionAssumption DEF Uint64
<1>6. NewTxPosition(blkNum, txIndex) = txPos
  BY <1>1, <1>4, <1>5 DEF NewTxPosition
<1>7. NewTxOutPosition(blkNum, txIndex, elemIndex) = pos
  BY <1>1, <1>2, <1>5, <1>6 DEF NewTxOutPosition, newTxElementPosition
<1> QED  BY <1>6, <1>7

\* The position of an element of the chain parses back to the element, for any
\* offsets of which the block's is not the smaller one.
THEOREM PositionRoundTrip ==
    ASSUME NEW blkNum \in Nat, NEW txIndex \in Nat, NEW elemIndex \in Nat
    PROVE  RoundTrips(blkNum, txIndex, elemIndex)
<1> SUFFICES ASSUME IsElement(blkNum, txIndex, elemIndex)
             PROVE  LET pos == NewTxOutPosition(blkNum, txIndex, elemIndex)
                    IN  /\ ~ParsePanics(pos)
                        /\ ParseTxOutPosition(pos)
                             = <<blkNum, txIndex, elemIndex>>
  BY DEF RoundTrips
<1> DEFINE txPos == blkNum * BlockPositionOffset + txIndex
           pos == txPos * TxPositionOffset + elemIndex
<1>1. NewTxOutPosition(blkNum, txIndex, elemIndex) = pos
  BY NoWrap
<1>2. /\ txPos \in Nat
      /\ BlockPositionOffset \in Nat \ {0}
      /\ TxPositionOffset \in Nat \ {0}
      /\ TxPositionOffset <= BlockPositionOffset
      /\ blkNum >= 1
      /\ txIndex < BlockPositionOffset
      /\ elemIndex < TxPositionOffset
  BY PositionAssumption DEF IsElement
<1>3. BlockPositionOffset <= txPos
  <2>1. BlockPositionOffset <= blkNum * BlockPositionOffset
    BY <1>2
  <2>2. blkNum * BlockPositionOffset \in Nat
    BY <1>2
  <2> QED  BY <1>2, <2>1, <2>2
<1>4. txPos \div BlockPositionOffset = blkNum /\ txPos % BlockPositionOffset = txIndex
  BY <1>2, DivMod
<1>5. pos \div TxPositionOffset = txPos
  <2> HIDE DEF txPos
  <2> QED  BY <1>2, DivMod
<1>6. pos % txPos = elemIndex
  \* The element index is below TxPositionOffset, hence below txPos.
  <2>1. txPos \in Nat \ {0} /\ elemIndex < txPos
    <3> HIDE DEF txPos
    <3> QED  BY <1>2, <1>3
  <2>2. (TxPositionOffset * txPos + elemIndex) % txPos = elemIndex
    <3> HIDE DEF txPos
    <3> QED  BY <1>2, <2>1, DivMod
  <2>3. TxPositionOffset * txPos = txPos * TxPositionOffset
    <3> HIDE DEF txPos
    <3> QED  BY <1>2
  <2> HIDE DEF txPos
  <2> QED  BY <2>2, <2>3
<1>7. txPos # 0
  <2> HIDE DEF txPos
  <2> QED  BY <1>2, <1>3
<1> HIDE DEF txPos, pos
<1> QED
  BY <1>1, <1>4, <1>5, <1>6, <1>7
  DEF ParsePanics, ParseTxOutPosition, parseTxElementPosition, ParseTxPosition

\* Two elements that fit have different positions, so the token index keeps one
\* entry for each output.
COROLLARY PositionsDistinct ==
    ASSUME NEW b1 \in Nat, NEW i1 \in Nat, NEW e1 \in Nat,
           NEW b2 \in Nat, NEW i2 \in Nat, NEW e2 \in Nat,
           IsElement(b1, i1, e1), IsElement(b2, i2, e2),
           NewTxOutPosition(b1, i1, e1) = NewTxOutPosition(b2, i2, e2)
    PROVE  <<b1, i1, e1>> = <<b2, i2, e2>>
  BY PositionRoundTrip DEF RoundTrips
=============================================================================
