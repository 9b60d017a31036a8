--------------------------- MODULE TokenIndex_proofs ---------------------------
(***************************************************************************)
(* What is looked up by key: the token index of the child chain, whose keys*)
(* are made of positions, is exact as long as positions fit in a uint64,   *)
(* and the blocks put together from the records' keys are the ones signed, *)
(* as long as the keys are in the order of the indexes.                    *)
(***************************************************************************)
EXTENDS Records_proofs

USE DEF TxElements, TxElementsNum

\* The largest position of block MaxBlkNum fits in a uint64.  With the code's
\* offsets it does for the first 18 thousand million blocks.
PositionsFit ==
    (MaxBlkNum + 1) * (BlockPositionOffset * TxPositionOffset) <= Uint64Limit

-----------------------------------------------------------------------------
(* Positions of the chain's outputs.                                       *)

Element(c) ==
    /\ c \in Nat \X Nat \X Nat
    /\ c[1] \in 1 .. MaxBlkNum
    /\ c[2] < BlockPositionOffset
    /\ c[3] \in TxElements

PositionOf(c) == NewTxOutPosition(c[1], c[2], c[3])

LEMMA ElementFits ==
    ASSUME PositionsFit, NEW c, Element(c)
    PROVE  IsElement(c[1], c[2], c[3])
<1> DEFINE txPos == c[1] * BlockPositionOffset + c[2]
           limit == (MaxBlkNum + 1) * BlockPositionOffset
<1>1. /\ BlockPositionOffset \in Nat \ {0}
      /\ TxPositionOffset \in Nat \ {0}
      /\ c[3] < TxPositionOffset
      /\ c[1] \in Nat /\ c[2] \in Nat /\ c[3] \in Nat
      /\ MaxBlkNum \in Nat
      /\ Uint64Limit \in Nat
  BY PositionAssumption, ChildChainAssumption DEF Element
<1>2. txPos + 1 <= limit
  <2>1. c[1] + 1 <= MaxBlkNum + 1
    BY <1>1 DEF Element
  <2>2. (c[1] + 1) * BlockPositionOffset <= (MaxBlkNum + 1) * BlockPositionOffset
    BY <1>1, <2>1
  <2>3. (c[1] + 1) * BlockPositionOffset = c[1] * BlockPositionOffset + BlockPositionOffset
    BY <1>1
  <2>4. c[2] + 1 <= BlockPositionOffset
    BY <1>1 DEF Element
  <2>5. c[1] * BlockPositionOffset \in Nat /\ (MaxBlkNum + 1) * BlockPositionOffset \in Nat
    BY <1>1
  <2> QED  BY <1>1, <2>2, <2>3, <2>4, <2>5
<1>3. limit * TxPositionOffset <= Uint64Limit
  BY <1>1 DEF PositionsFit
<1>4. txPos \in Nat /\ limit \in Nat
  BY <1>1
<1> HIDE DEF txPos, limit
<1>5. (txPos + 1) * TxPositionOffset <= limit * TxPositionOffset
  BY <1>1, <1>2, <1>4
<1>6. (txPos + 1) * TxPositionOffset = txPos * TxPositionOffset + TxPositionOffset
  BY <1>1, <1>4
<1>7. txPos * TxPositionOffset \in Nat /\ limit * TxPositionOffset \in Nat
  BY <1>1, <1>4
<1>8. txPos * TxPositionOffset + c[3] < Uint64Limit
  BY <1>1, <1>3, <1>5, <1>6, <1>7
<1> QED  BY <1>1, <1>8 DEF IsElement, Element, txPos

LEMMA ElementParses ==
    ASSUME PositionsFit, NEW c, Element(c)
    PROVE  /\ ParseTxOutPosition(PositionOf(c)) = c
           /\ PositionOf(c) # 0
<1>1. RoundTrips(c[1], c[2], c[3])
  BY PositionRoundTrip DEF Element
<1>2. ~ParsePanics(PositionOf(c)) /\ ParseTxOutPosition(PositionOf(c)) = <<c[1], c[2], c[3]>>
  BY <1>1, ElementFits DEF RoundTrips, PositionOf
<1>3. c = <<c[1], c[2], c[3]>>
  BY DEF Element
<1>4. ParsePanics(0)
  BY PositionAssumption DEF ParsePanics
<1> QED  BY <1>2, <1>3, <1>4

LEMMA PositionsDiffer ==
    ASSUME PositionsFit, NEW c, Element(c), NEW d, Element(d),
           PositionOf(c) = PositionOf(d)
    PROVE  c = d
  BY ElementParses

-----------------------------------------------------------------------------
(* The index.                                                              *)

Numbered(v) ==
    /\ v.cur >= 1
    /\ \A k \in DOMAIN v.tx : k[1] \in 1 .. MaxBlkNum /\ k[2] < BlockPositionOffset

OutputsOf(v) == {<<k[1], k[2], o>> : k \in DOMAIN v.tx, o \in TxElements}

OwnKey(v, out) == TokenKey(getTxOut(v, out).owner, out)

\* The entry of an output: 0, or the position of an input that names it.
Entry(v, out, pos) ==
    LET in == ParseTxInPosition(pos)
    IN  IF ConsumedIn(v.tx, out)
        THEN /\ pos # 0
             /\ TxKey(in) \in DOMAIN v.tx
             /\ IsExistInput(in[3])
             /\ v.tx[TxKey(in)].ins[in[3]].core = out
        ELSE pos = 0

Index(v) ==
    /\ DOMAIN v.token = {OwnKey(v, out) : out \in OutputsOf(v)}
    /\ \A out \in OutputsOf(v) : Entry(v, out, v.token[OwnKey(v, out)])

IndexInv(v) == Numbered(v) /\ Index(v)

\* The outputs of a store are the ones HasTxOut finds.
LEMMA OutputNamed ==
    ASSUME NEW v, StoreType(v), NEW out
    PROVE  out \in OutputsOf(v)
             <=> out \in Nat \X Nat \X Nat /\ HasTxOut(v, out)
<1>1. ASSUME out \in OutputsOf(v)
      PROVE  out \in Nat \X Nat \X Nat /\ HasTxOut(v, out)
  BY <1>1 DEF OutputsOf, HasTxOut, TxKey, IsExistOutput, StoreType
<1>2. ASSUME out \in Nat \X Nat \X Nat, HasTxOut(v, out)
      PROVE  out \in OutputsOf(v)
  <2>1. TxKey(out) \in DOMAIN v.tx /\ out[3] \in TxElements
    BY <1>2, OutputType DEF HasTxOut
  <2>2. out = <<TxKey(out)[1], TxKey(out)[2], out[3]>>
    BY <1>2 DEF TxKey
  <2> QED  BY <2>1, <2>2 DEF OutputsOf
<1> QED  BY <1>1, <1>2

LEMMA OutputElement ==
    ASSUME NEW v, StoreType(v), Numbered(v), NEW out \in OutputsOf(v)
    PROVE  Element(out)
  BY DEF OutputsOf, Numbered, Element, StoreType

\* The outputs of one store have different keys.
LEMMA OwnKeysDiffer ==
    ASSUME PositionsFit, NEW v, NEW w, NEW c, Element(c), NEW d, Element(d),
           OwnKey(v, c) = OwnKey(w, d)
    PROVE  c = d
  BY PositionsDiffer DEF OwnKey, TokenKey, PositionOf

-----------------------------------------------------------------------------
(* Rewriting a record leaves the index as it is.                           *)

\* A step that adds no block: the tokens, the number and the records' names and
\* inputs stay.
Rewrites(v, w) ==
    /\ w.token = v.token
    /\ w.cur = v.cur
    /\ w.header = v.header
    /\ DOMAIN w.tx = DOMAIN v.tx

LEMMA EffectRewrites ==
    ASSUME NEW v, Inv(v), NEW w,
           AcceptEffect(v, w) \/ ConfirmEffect(v, w) \/ ExitEffect(v, w)
    PROVE  Rewrites(v, w)
<1>1. CASE AcceptEffect(v, w)
  <2>1. PICK tx : w = Accepted(v, tx)
    BY <1>1 DEF AcceptEffect
  <2>2. DOMAIN SpendInputs(v, tx) = DOMAIN v.tx
    BY DEF SpendInputs
  <2> QED  BY <2>1, <2>2 DEF Accepted, Rewrites, Inv, StoreType
<1>2. ASSUME NEW k \in DOMAIN v.tx, NEW new, w = setTx(v, k, new)
      PROVE  Rewrites(v, w)
  BY <1>2 DEF setTx, Rewrites, Inv, StoreType
<1>3. CASE ConfirmEffect(v, w)
  <2>1. PICK pos, sig : /\ ConfirmTx(v, pos, sig).err = OK
                        /\ w = ConfirmTx(v, pos, sig).db
    BY <1>3 DEF ConfirmEffect
  <2> DEFINE in == ParseTxInPosition(pos)
             k == TxKey(in)
             new == SetConfirmationSignature(v.tx[k], in[3], sig)
  <2>2. k \in DOMAIN v.tx /\ w = setTx(v, k, new)
    BY <2>1 DEF ConfirmTx, Failed, Done, OK
  <2> HIDE DEF k, new
  <2> QED  BY <1>2, <2>2
<1>4. CASE ExitEffect(v, w)
  <2>1. PICK pos : ExitTxOut(v, pos).err = OK /\ w = ExitTxOut(v, pos).db
    BY <1>4 DEF ExitEffect
  <2> DEFINE out == ParseTxInPosition(pos)
             k == TxKey(out)
             new == ExitOutput(v.tx[k], out[3])
  <2>2. k \in DOMAIN v.tx /\ w = setTx(v, k, new)
    BY <2>1 DEF ExitTxOut, Failed, Done, OK
  <2> HIDE DEF k, new
  <2> QED  BY <1>2, <2>2
<1> QED  BY <1>1, <1>3, <1>4

\* Records of v are consumed from, and name, the same outputs in w.
LEMMA KeptConsumes ==
    ASSUME NEW v, NEW w, Keeps(v, w), NEW k \in DOMAIN v.tx
    PROVE  /\ Consumes(w.tx[k]) = Consumes(v.tx[k])
           /\ \A i \in TxElements : w.tx[k].ins[i].core = v.tx[k].ins[i].core
  BY ConsumesCores DEF Keeps, KeepsInputs

LEMMA RewritesPreservesIndex ==
    ASSUME NEW v, Inv(v), IndexInv(v), NEW w, Keeps(v, w), Rewrites(v, w)
    PROVE  IndexInv(w)
<1>1. OutputsOf(w) = OutputsOf(v)
  BY DEF OutputsOf, Rewrites
<1>2. \A out \in OutputsOf(v) : OwnKey(w, out) = OwnKey(v, out)
  BY OutputNamed, OwnerKept DEF OwnKey, Inv
<1>3. \A out : ConsumedIn(w.tx, out) <=> ConsumedIn(v.tx, out)
  BY KeptConsumes DEF ConsumedIn, Rewrites
<1>4. ASSUME NEW out \in OutputsOf(v)
      PROVE  Entry(w, out, w.token[OwnKey(w, out)])
  <2> DEFINE pos == v.token[OwnKey(v, out)]
             in == ParseTxInPosition(pos)
  <2>1. Entry(v, out, pos) /\ w.token[OwnKey(w, out)] = pos
    BY <1>2 DEF IndexInv, Index, Rewrites
  <2>2. pos \in Nat
    BY DEF Inv, StoreType, IndexInv, Index
  <2>3. CASE ConsumedIn(v.tx, out)
    <3>1. /\ pos # 0
          /\ TxKey(in) \in DOMAIN v.tx
          /\ IsExistInput(in[3])
          /\ v.tx[TxKey(in)].ins[in[3]].core = out
      BY <2>1, <2>3 DEF Entry
    <3>2. in[3] \in TxElements
      <4>1. ~ParsePanics(pos)
        \* A position that is too small to parse would lead to block 0.
        <5> SUFFICES ASSUME ParsePanics(pos)
                     PROVE  FALSE
          OBVIOUS
        <5>1. pos \div TxPositionOffset = 0
          BY DEF ParsePanics
        <5>2. TxKey(in)[1] = 0
          BY <5>1, PositionAssumption
          DEF TxKey, ParseTxInPosition, parseTxElementPosition, ParseTxPosition
        <5>3. TxKey(in)[1] \in 1 .. MaxBlkNum
          BY <3>1 DEF IndexInv, Numbered
        <5> QED  BY <5>2, <5>3
      <4> QED  BY <2>2, <3>1, <4>1, ParsedType DEF IsExistInput
    <3>3. w.tx[TxKey(in)].ins[in[3]].core = out
      BY <3>1, <3>2, KeptConsumes
    <3> HIDE DEF in, pos
    <3>4. TxKey(in) \in DOMAIN w.tx
      BY <3>1 DEF Rewrites
    <3>5. Entry(w, out, pos)
      BY <1>3, <2>3, <3>1, <3>3, <3>4 DEF Entry, in
    <3> QED  BY <2>1, <3>5
  <2>4. CASE ~ConsumedIn(v.tx, out)
    <3> HIDE DEF pos
    <3> QED  BY <1>3, <2>1, <2>4 DEF Entry
  <2> QED  BY <2>3, <2>4
<1>5. DOMAIN w.token = {OwnKey(w, out) : out \in OutputsOf(w)}
  BY <1>1, <1>2 DEF IndexInv, Index, Rewrites
<1>6. Numbered(w)
  BY DEF IndexInv, Numbered, Rewrites
<1> QED  BY <1>1, <1>4, <1>5, <1>6 DEF IndexInv, Index

-----------------------------------------------------------------------------
(* A block extends it.                                                     *)

LEMMA AppendsPreservesNumbered ==
    ASSUME NEW v, Inv(v), Numbered(v), NEW w, NEW txes, Appends(v, w, txes)
    PROVE  Numbered(w)
<1>1. ASSUME NEW i \in DOMAIN txes
      PROVE  v.cur \in 1 .. MaxBlkNum /\ i < BlockPositionOffset
  <2>1. PICK n \in 1 .. MaxBlockTxesNum : DOMAIN txes = 0 .. n - 1
    BY DEF Appends
  <2> QED  BY <2>1, PositionAssumption, ChildChainAssumption
           DEF Appends, Numbered, Inv, StoreType
<1>2. w.cur >= 1
  BY DEF Appends, Numbered, Inv, StoreType
<1> QED  BY <1>1, <1>2 DEF Appends, Numbered

\* The entry a block makes for an output it spends is the position of an input
\* of the block that names the output.
LEMMA SpentEntry ==
    ASSUME PositionsFit, NEW v, Inv(v), IndexInv(v),
           NEW txes, AddableTo(v, txes), v.cur <= MaxBlkNum,
           \A i \in DOMAIN txes : i < BlockPositionOffset,
           NEW out \in OutputsOf(v), out \in AllConsumed(txes)
    PROVE  LET t == SpentTokens(v, v.cur, txes)
           IN  /\ OwnKey(v, out) \in DOMAIN t
               /\ \E i \in DOMAIN txes, j \in TxElements :
                    /\ t[OwnKey(v, out)] # 0
                    /\ ParseTxInPosition(t[OwnKey(v, out)]) = <<v.cur, i, j>>
                    /\ txes[i].ins[j].core = out
<1> DEFINE key == OwnKey(v, out)
           t == SpentTokens(v, v.cur, txes)
           S == Spenders(v, txes, key)
           P == {NewTxInPosition(v.cur, s[1], s[2]) : s \in S}
<1>1. key \in DOMAIN t /\ t[key] = Max(P)
  BY DEF SpentTokens, OwnKey
<1>2. v.cur \in Nat /\ DOMAIN txes \subseteq Nat /\ v.cur >= 1
  BY DEF Inv, StoreType, AddableTo, IndexInv, Numbered
<1>3. \A s \in S : /\ s[1] \in DOMAIN txes
                   /\ s[2] \in TxElements
                   /\ NewTxInPosition(v.cur, s[1], s[2])
                        = PositionOf(<<v.cur, s[1], s[2]>>)
  BY DEF Spenders, NewTxInPosition, NewTxOutPosition, PositionOf
<1>4. S # {}
  <2>1. PICK i \in DOMAIN txes : out \in Consumes(txes[i])
    BY DEF AllConsumed
  <2>2. PICK j \in TxElements : txes[i].ins[j].core = out /\ ~IsNull(txes[i].ins[j])
    BY <2>1, ConsumesType DEF AddableTo
  <2>3. <<i, j>> \in S
    BY <2>2 DEF Spenders, OwnKey
  <2> QED  BY <2>3
<1> HIDE DEF t, S, key
<1>5. P \in SUBSET (0 .. Uint64Limit)
  <2> SUFFICES ASSUME NEW s \in S
               PROVE  NewTxInPosition(v.cur, s[1], s[2]) \in 0 .. Uint64Limit
    OBVIOUS
  <2>1. v.cur \in Nat /\ s[1] \in Nat /\ s[2] \in Nat
    <3>1. s[1] \in DOMAIN txes /\ s[2] \in TxElements
      BY <1>3
    <3> HIDE DEF P
    <3> QED  BY <1>2, <3>1
  <2>2. NewTxOutPosition(v.cur, s[1], s[2]) \in 0 .. Uint64Limit
    BY <2>1, PositionsBounded
  <2> QED  BY <2>2 DEF NewTxInPosition, NewTxOutPosition
<1>6. P # {}
  BY <1>4
<1>7. Max(P) \in P
  <2> HIDE DEF P
  <2> QED  BY <1>5, <1>6, MaxInSet, PositionAssumption
<1>8. PICK s \in S : Max(P) = PositionOf(<<v.cur, s[1], s[2]>>)
  BY <1>3, <1>7
<1>9. Element(<<v.cur, s[1], s[2]>>)
  BY <1>2, <1>3, ChildChainAssumption DEF Element
<1>10. /\ ParseTxInPosition(Max(P)) = <<v.cur, s[1], s[2]>>
       /\ Max(P) # 0
  <2> HIDE DEF P
  <2> QED  BY <1>8, <1>9, ElementParses DEF ParseTxInPosition, ParseTxOutPosition
<1>11. txes[s[1]].ins[s[2]].core = out
  <2> DEFINE in == txes[s[1]].ins[s[2]]
  <2>1. ~IsNull(in) /\ key = OwnKey(v, in.core)
    BY DEF S, Spenders, OwnKey
  <2>2. in.core \in Consumes(txes[s[1]]) /\ txes[s[1]] \in Tx
    BY <1>3, <2>1, NamedConsumed DEF AddableTo
  <2>3. in.core \in Nat \X Nat \X Nat /\ HasTxOut(v, in.core)
    BY <1>3, <2>2, ConsumesType DEF AddableTo
  <2>4. in.core \in OutputsOf(v)
    BY <2>3, OutputNamed DEF Inv
  <2> HIDE DEF in
  <2>5. Element(in.core) /\ Element(out)
    BY <2>4, OutputElement DEF Inv, IndexInv
  <2>6. in.core = out
    BY <2>1, <2>5, OwnKeysDiffer DEF key
  <2> QED  BY <2>6 DEF in
<1> HIDE DEF P
<1> QED  BY <1>1, <1>3, <1>10, <1>11 DEF key, t

NewKey(blkNum, txes, i, o) == TokenKey(txes[i].outs[o].owner, <<blkNum, i, o>>)

LEMMA NewTokensEntries ==
    ASSUME NEW blkNum, NEW txes, NEW key
    PROVE  /\ key \in DOMAIN NewTokens(blkNum, txes)
                <=> \E i \in DOMAIN txes, o \in TxElements :
                      key = NewKey(blkNum, txes, i, o)
           /\ key \in DOMAIN NewTokens(blkNum, txes)
                => NewTokens(blkNum, txes)[key] = 0
<1> DEFINE keys == {NewKey(blkNum, txes, i, o) : i \in DOMAIN txes, o \in TxElements}
<1>1. NewTokens(blkNum, txes) = [k \in keys |-> 0]
  BY DEF NewTokens, NewKey
<1>2. key \in keys
        <=> \E i \in DOMAIN txes, o \in TxElements : key = NewKey(blkNum, txes, i, o)
  OBVIOUS
<1> HIDE DEF keys
<1> QED  BY <1>1, <1>2

LEMMA AppendsPreservesIndex ==
    ASSUME PositionsFit, NEW v, Inv(v), IndexInv(v),
           NEW w, Inv(w), NEW txes, Appends(v, w, txes)
    PROVE  IndexInv(w)
<1> DEFINE spent == SpentTokens(v, v.cur, txes)
           unspent == NewTokens(v.cur, txes)
           added == {<<v.cur, i, o>> : i \in DOMAIN txes, o \in TxElements}
<1>0. \A out : out \in added
                 <=> \E i \in DOMAIN txes, o \in TxElements : out = <<v.cur, i, o>>
  OBVIOUS
<1> HIDE DEF added
<1>1. Numbered(w)
  BY AppendsPreservesNumbered DEF IndexInv
<1>2. /\ v.cur \in Nat
      /\ AddableTo(v, txes)
      /\ v.cur <= MaxBlkNum
      /\ DOMAIN txes \subseteq Nat
      /\ DOMAIN w.tx = DOMAIN v.tx \cup ({v.cur} \X (DOMAIN txes))
      /\ \A k \in DOMAIN v.tx : w.tx[k] = v.tx[k]
      /\ \A i \in DOMAIN txes : w.tx[<<v.cur, i>>] = txes[i]
      /\ w.token = Override(Override(v.token, spent), unspent)
  BY DEF Appends, AddableTo, Inv, StoreType
<1>3. \A i \in DOMAIN txes : i < BlockPositionOffset
  <2> SUFFICES ASSUME NEW i \in DOMAIN txes
               PROVE  i < BlockPositionOffset
    OBVIOUS
  <2>1. <<v.cur, i>> \in DOMAIN w.tx
    BY <1>2
  <2> QED  BY <1>1, <2>1 DEF Numbered
<1>4. OutputsOf(w) = OutputsOf(v) \cup added
  <2>1. OutputsOf(w) \subseteq OutputsOf(v) \cup added
    BY <1>0, <1>2 DEF OutputsOf
  <2>2. OutputsOf(v) \subseteq OutputsOf(w)
    BY <1>2 DEF OutputsOf
  <2>3. ASSUME NEW out \in added
        PROVE  out \in OutputsOf(w)
    <3>1. PICK i \in DOMAIN txes, o \in TxElements : out = <<v.cur, i, o>>
      BY <1>0
    <3>2. <<v.cur, i>> \in DOMAIN w.tx
      BY <1>2
    <3> QED  BY <3>1, <3>2 DEF OutputsOf
  <2> QED  BY <2>1, <2>2, <2>3
<1>5. \A out \in OutputsOf(w) : Element(out)
  BY <1>1, OutputElement DEF Inv
<1>6. ASSUME NEW out \in OutputsOf(v)
      PROVE  OwnKey(w, out) = OwnKey(v, out) /\ out \notin added
  <2>1. PICK k \in DOMAIN v.tx, o \in TxElements : out = <<k[1], k[2], o>>
    BY DEF OutputsOf
  <2>2. TxKey(out) = k /\ out[3] = o /\ out[1] = k[1]
    BY <2>1 DEF TxKey, Inv, StoreType
  <2>3. k[1] < v.cur /\ k[1] \in Nat
    BY DEF Inv, KeysBelowCurrent, StoreType
  <2>4. getTxOut(w, out) = getTxOut(v, out)
    BY <1>2, <2>2 DEF getTxOut
  <2>5. out \notin added
    BY <1>0, <2>2, <2>3
  <2> QED  BY <2>4, <2>5 DEF OwnKey
\* The new outputs' keys and the keys of the outputs the block spends.
<1>7. /\ DOMAIN unspent = {OwnKey(w, out) : out \in added}
      /\ \A key \in DOMAIN unspent : unspent[key] = 0
  <2>1. \A i \in DOMAIN txes, o \in TxElements :
          NewKey(v.cur, txes, i, o) = OwnKey(w, <<v.cur, i, o>>)
    BY <1>2 DEF NewKey, OwnKey, getTxOut, TxKey
  <2>2. ASSUME NEW key
        PROVE  /\ key \in DOMAIN unspent
                    <=> \E i \in DOMAIN txes, o \in TxElements :
                          key = NewKey(v.cur, txes, i, o)
               /\ key \in DOMAIN unspent => unspent[key] = 0
    BY NewTokensEntries
  <2> HIDE DEF unspent
  <2>3. ASSUME NEW key \in DOMAIN unspent
        PROVE  \E out \in added : key = OwnKey(w, out)
    <3>1. PICK i \in DOMAIN txes, o \in TxElements :
            key = NewKey(v.cur, txes, i, o)
      BY <2>2
    <3>2. <<v.cur, i, o>> \in added
      BY <1>0
    <3>3. key = OwnKey(w, <<v.cur, i, o>>)
      BY <2>1, <3>1
    <3> QED  BY <3>2, <3>3
  <2>4. ASSUME NEW out \in added
        PROVE  OwnKey(w, out) \in DOMAIN unspent
    <3>1. PICK i \in DOMAIN txes, o \in TxElements : out = <<v.cur, i, o>>
      BY <1>0
    <3>2. OwnKey(w, out) = NewKey(v.cur, txes, i, o)
      BY <2>1, <3>1
    <3> QED  BY <2>2, <3>2
  <2> QED  BY <2>2, <2>3, <2>4
<1>8. \A c \in AllConsumed(txes) : c \in OutputsOf(v)
  BY <1>2, ConsumesType, OutputNamed DEF AllConsumed, AddableTo, Inv
<1>9. DOMAIN spent = {OwnKey(v, c) : c \in AllConsumed(txes)}
  BY DEF SpentTokens, OwnKey
<1> HIDE DEF spent, unspent
<1>10. DOMAIN w.token = {OwnKey(w, out) : out \in OutputsOf(w)}
  <2>1. DOMAIN w.token = (DOMAIN v.token \cup DOMAIN spent) \cup DOMAIN unspent
    BY <1>2 DEF Override
  <2>2. DOMAIN v.token = {OwnKey(v, out) : out \in OutputsOf(v)}
    BY DEF IndexInv, Index
  <2>3. DOMAIN v.token \cup DOMAIN spent = {OwnKey(w, out) : out \in OutputsOf(v)}
    BY <1>6, <1>8, <1>9, <2>2
  <2> QED  BY <1>4, <1>7, <2>1, <2>3
\* Who consumes an output in the new chain.
<1>11. \A c : ConsumedIn(w.tx, c) <=> ConsumedIn(v.tx, c) \/ c \in AllConsumed(txes)
  <2> SUFFICES ASSUME NEW c
               PROVE  ConsumedIn(w.tx, c)
                        <=> ConsumedIn(v.tx, c) \/ c \in AllConsumed(txes)
    OBVIOUS
  <2>1. ConsumedIn(w.tx, c) => ConsumedIn(v.tx, c) \/ c \in AllConsumed(txes)
    BY <1>2 DEF ConsumedIn, AllConsumed
  <2>2. ConsumedIn(v.tx, c) => ConsumedIn(w.tx, c)
    BY <1>2 DEF ConsumedIn
  <2>3. ASSUME NEW i \in DOMAIN txes, c \in Consumes(txes[i])
        PROVE  ConsumedIn(w.tx, c)
    <3>1. <<v.cur, i>> \in DOMAIN w.tx /\ w.tx[<<v.cur, i>>] = txes[i]
      BY <1>2
    <3> QED  BY <2>3, <3>1 DEF ConsumedIn
  <2> QED  BY <2>1, <2>2, <2>3 DEF AllConsumed
<1>12. ASSUME NEW out \in added
       PROVE  Entry(w, out, w.token[OwnKey(w, out)])
  <2>1. w.token[OwnKey(w, out)] = 0
    BY <1>2, <1>7 DEF Override
  <2>2. out \notin OutputsOf(v)
    BY <1>6
  <2>3. ~ConsumedIn(v.tx, out)
    <3> SUFFICES ASSUME NEW k \in DOMAIN v.tx, out \in Consumes(v.tx[k])
                 PROVE  FALSE
      BY DEF ConsumedIn
    <3>1. HasTxOut(v, out) /\ out \in Nat \X Nat \X Nat
      BY ConsumesType DEF Inv, InputsNamed, StoreType
    <3> QED  BY <2>2, <3>1, OutputNamed DEF Inv
  <2>4. ~ConsumedIn(w.tx, out)
    BY <1>8, <1>11, <2>2, <2>3
  <2> QED  BY <2>1, <2>4 DEF Entry
<1>13. ASSUME NEW out \in OutputsOf(v)
       PROVE  Entry(w, out, w.token[OwnKey(w, out)])
  <2> DEFINE key == OwnKey(v, out)
  <2>1. OwnKey(w, out) = key /\ Element(out) /\ out \in OutputsOf(w)
    BY <1>4, <1>5, <1>6
  \* The key is not one of a new output.
  <2>2. key \notin DOMAIN unspent
    <3> SUFFICES ASSUME NEW d \in added, key = OwnKey(w, d)
                 PROVE  FALSE
      BY <1>7
    <3>1. Element(d)
      BY <1>4, <1>5
    <3> QED  BY <1>6, <2>1, <3>1, OwnKeysDiffer
  <2>3. key \in DOMAIN spent => out \in AllConsumed(txes)
    <3> SUFFICES ASSUME NEW c \in AllConsumed(txes), key = OwnKey(v, c)
                 PROVE  out \in AllConsumed(txes)
      BY <1>9
    <3>1. Element(c)
      BY <1>4, <1>5, <1>8
    <3> QED  BY <2>1, <3>1, OwnKeysDiffer
  <2>4. key \in DOMAIN v.token
    BY DEF IndexInv, Index
  <2>5. w.token[key] = IF key \in DOMAIN spent THEN spent[key] ELSE v.token[key]
    <3> HIDE DEF key
    <3> QED  BY <1>2, <2>2, <2>4 DEF Override
  <2>6. CASE out \in AllConsumed(txes)
    <3>1. /\ key \in DOMAIN spent
          /\ \E i \in DOMAIN txes, j \in TxElements :
               /\ spent[key] # 0
               /\ ParseTxInPosition(spent[key]) = <<v.cur, i, j>>
               /\ txes[i].ins[j].core = out
      BY <1>2, <1>3, <2>6, SpentEntry DEF spent
    <3> DEFINE pos == w.token[OwnKey(w, out)]
               in == ParseTxInPosition(pos)
    <3>2. pos = spent[key]
      BY <2>1, <2>5, <3>1
    <3> HIDE DEF pos, key
    <3>3. PICK i \in DOMAIN txes, j \in TxElements :
            /\ pos # 0
            /\ in = <<v.cur, i, j>>
            /\ txes[i].ins[j].core = out
      BY <3>1, <3>2
    <3>4. TxKey(in) = <<v.cur, i>> /\ in[3] = j
      BY <3>3 DEF TxKey
    <3>5. TxKey(in) \in DOMAIN w.tx /\ w.tx[TxKey(in)] = txes[i]
      BY <1>2, <3>4
    <3>6. IsExistInput(in[3])
      BY <3>4 DEF IsExistInput
    <3>7. ConsumedIn(w.tx, out)
      BY <1>11, <2>6
    <3> HIDE DEF in
    <3> QED  BY <3>3, <3>4, <3>5, <3>6, <3>7 DEF Entry, in, pos
  <2>7. CASE out \notin AllConsumed(txes)
    <3> DEFINE pos == v.token[key]
               in == ParseTxInPosition(pos)
    <3>1. w.token[OwnKey(w, out)] = pos
      BY <2>1, <2>3, <2>5, <2>7
    <3>2. Entry(v, out, pos)
      BY DEF IndexInv, Index
    <3>3. ConsumedIn(w.tx, out) <=> ConsumedIn(v.tx, out)
      BY <1>11, <2>7
    <3>4. \A k \in DOMAIN v.tx : k \in DOMAIN w.tx /\ w.tx[k] = v.tx[k]
      BY <1>2
    <3> HIDE DEF pos, key
    <3>5. Entry(w, out, pos)
      BY <3>2, <3>3, <3>4 DEF Entry
    <3> QED  BY <3>1, <3>5
  <2> QED  BY <2>6, <2>7
<1> QED  BY <1>1, <1>4, <1>10, <1>12, <1>13 DEF IndexInv, Index

LEMMA EffectPreservesIndex ==
    ASSUME PositionsFit, NEW v, Inv(v), IndexInv(v), NEW w, Effect(v, w)
    PROVE  IndexInv(w)
<1>1. Inv(w) /\ Keeps(v, w)
  BY EffectPreservesInv, EffectKeeps
<1>2. CASE DepositEffect(v, w)
  BY <1>1, <1>2, DepositAppends, AppendsPreservesIndex
<1>3. CASE SealEffect(v, w)
  BY <1>1, <1>3, SealAppends, AppendsPreservesIndex
<1>4. CASE AcceptEffect(v, w) \/ ConfirmEffect(v, w) \/ ExitEffect(v, w)
  BY <1>1, <1>4, EffectRewrites, RewritesPreservesIndex
<1> QED  BY <1>2, <1>3, <1>4 DEF Effect

LEMMA InitIndex == IndexInv(NewChildChain)
<1> DEFINE v == NewChildChain
<1>1. v.cur = 1 /\ DOMAIN v.tx = {} /\ DOMAIN v.token = {}
  BY DEF NewChildChain, FirstBlockNumber
<1> HIDE DEF v
<1>2. OutputsOf(v) = {}
  BY <1>1 DEF OutputsOf
<1> QED  BY <1>1, <1>2 DEF v, IndexInv, Index, Numbered

-----------------------------------------------------------------------------
(* What is served.                                                         *)

IsFcn(f) == f = [x \in DOMAIN f |-> f[x]]

LEMMA FcnEqual ==
    ASSUME NEW f, IsFcn(f), NEW g, IsFcn(g),
           DOMAIN f = DOMAIN g, \A x \in DOMAIN f : f[x] = g[x]
    PROVE  f = g
  BY DEF IsFcn

\* The leaves of a block, as the node reads it back from the records.
Served(v, b) == MerkleLeaves(GetBlock(v, b))

Indexes(v, b) == {k[2] : k \in BlockTxKeys(v, b)}

RankIn(indexes, i) == Cardinality({j \in indexes \ {i} : KeyPrecedes(j, i)})

Ranks(indexes) == {RankIn(indexes, i) : i \in indexes}

IndexAt(indexes, p) == CHOOSE i \in indexes : RankIn(indexes, i) = p

LEMMA ServedLeaf ==
    ASSUME NEW v, NEW b, NEW I, I = Indexes(v, b)
    PROVE  /\ IsFcn(Served(v, b))
           /\ DOMAIN Served(v, b) = Ranks(I)
           /\ \A p \in DOMAIN Served(v, b) :
                Served(v, b)[p] = MerkleLeaf(v.tx[<<b, IndexAt(I, p)>>])
<1> DEFINE ranks == Ranks(I)
           txes == [p \in ranks |-> v.tx[<<b, IndexAt(I, p)>>]]
<1>1. GetBlock(v, b) = txes
  BY DEF GetBlock, Ranks, RankIn, Indexes, IndexAt
<1>2. Served(v, b) = MerkleLeaves(txes)
  BY <1>1 DEF Served
<1>3. DOMAIN txes = ranks /\ \A p \in ranks : txes[p] = v.tx[<<b, IndexAt(I, p)>>]
  OBVIOUS
<1> HIDE DEF ranks, txes
<1>4. Served(v, b) = [p \in ranks |-> MerkleLeaf(txes[p])]
  BY <1>2, <1>3 DEF MerkleLeaves
<1>5. IsFcn(Served(v, b))
  BY <1>4 DEF IsFcn
<1>6. \A p \in ranks : Served(v, b)[p] = MerkleLeaf(v.tx[<<b, IndexAt(I, p)>>])
  BY <1>3, <1>4
<1> QED  BY <1>4, <1>5, <1>6 DEF ranks

\* The headers are those of the records: block b has been signed with the leaves
\* its records have.
SignedAs(v, b) ==
    \E n \in 1 .. MaxBlockTxesNum :
        /\ DOMAIN v.header[b] = 0 .. n - 1
        /\ IsFcn(v.header[b])
        /\ \A i \in 0 .. n - 1 :
            /\ <<b, i>> \in DOMAIN v.tx
            /\ v.header[b][i] = MerkleLeaf(v.tx[<<b, i>>])

Recorded(v) ==
    /\ v.cur \in Nat /\ v.cur >= 1
    /\ DOMAIN v.header = 1 .. v.cur - 1
    /\ \A b \in DOMAIN v.header : SignedAs(v, b)
    /\ \A k \in DOMAIN v.tx :
        k[1] \in DOMAIN v.header /\ k[2] \in DOMAIN v.header[k[1]]

LEMMA RewritesPreservesRecorded ==
    ASSUME NEW v, Recorded(v), NEW w, Keeps(v, w), Rewrites(v, w)
    PROVE  Recorded(w)
<1>1. /\ w.header = v.header /\ w.cur = v.cur
      /\ DOMAIN w.tx = DOMAIN v.tx
  BY DEF Rewrites
<1>2. \A k \in DOMAIN v.tx : MerkleLeaf(w.tx[k]) = MerkleLeaf(v.tx[k])
  BY KeepsLeaf
<1>3. ASSUME NEW b \in DOMAIN v.header
      PROVE  SignedAs(w, b)
  BY <1>1, <1>2 DEF Recorded, SignedAs
<1> QED  BY <1>1, <1>3 DEF Recorded

LEMMA AppendsPreservesRecorded ==
    ASSUME NEW v, Inv(v), Recorded(v), NEW w, NEW txes, Appends(v, w, txes)
    PROVE  Recorded(w)
<1> DEFINE leaves == MerkleLeaves(txes)
<1>1. /\ w.cur = v.cur + 1
      /\ DOMAIN w.tx = DOMAIN v.tx \cup ({v.cur} \X (DOMAIN txes))
      /\ \A k \in DOMAIN v.tx : w.tx[k] = v.tx[k]
      /\ \A i \in DOMAIN txes : w.tx[<<v.cur, i>>] = txes[i]
  BY DEF Appends
<1>2. /\ DOMAIN leaves = DOMAIN txes
      /\ IsFcn(leaves)
      /\ \A i \in DOMAIN txes : leaves[i] = MerkleLeaf(txes[i])
  BY DEF MerkleLeaves, IsFcn
<1> HIDE DEF leaves
<1>3. v.cur \in Nat /\ v.cur >= 1 /\ DOMAIN v.header = 1 .. v.cur - 1
  BY DEF Recorded
<1>4. v.cur \notin DOMAIN v.header
  BY <1>3
<1>5. /\ DOMAIN w.header = DOMAIN v.header \cup {v.cur}
      /\ w.header[v.cur] = leaves
      /\ \A b \in DOMAIN v.header : w.header[b] = v.header[b]
  BY <1>4 DEF Appends, Signs, Override, leaves
<1>6. SignedAs(w, v.cur)
  <2>1. PICK n \in 1 .. MaxBlockTxesNum : DOMAIN txes = 0 .. n - 1
    BY DEF Appends
  <2> QED  BY <1>1, <1>2, <1>5, <2>1 DEF SignedAs
<1>7. ASSUME NEW b \in DOMAIN v.header
      PROVE  SignedAs(w, b)
  <2>1. PICK n \in 1 .. MaxBlockTxesNum :
          /\ DOMAIN v.header[b] = 0 .. n - 1
          /\ IsFcn(v.header[b])
          /\ \A i \in 0 .. n - 1 :
              /\ <<b, i>> \in DOMAIN v.tx
              /\ v.header[b][i] = MerkleLeaf(v.tx[<<b, i>>])
    BY DEF Recorded, SignedAs
  <2>2. \A i \in 0 .. n - 1 : <<b, i>> \in DOMAIN w.tx /\ w.tx[<<b, i>>] = v.tx[<<b, i>>]
    BY <1>1, <2>1
  <2>3. w.header[b] = v.header[b]
    BY <1>5
  <2> QED  BY <2>1, <2>2, <2>3 DEF SignedAs
<1>8. ASSUME NEW k \in DOMAIN w.tx
      PROVE  k[1] \in DOMAIN w.header /\ k[2] \in DOMAIN w.header[k[1]]
  <2>1. CASE k \in DOMAIN v.tx
    BY <1>5, <2>1 DEF Recorded
  <2>2. CASE k \in {v.cur} \X (DOMAIN txes)
    BY <1>2, <1>5, <2>2
  <2> QED  BY <1>1, <2>1, <2>2
<1>9. DOMAIN w.header = 1 .. w.cur - 1
  BY <1>1, <1>3, <1>5
<1> QED  BY <1>1, <1>3, <1>5, <1>6, <1>7, <1>8, <1>9 DEF Recorded

LEMMA EffectPreservesRecorded ==
    ASSUME NEW v, Inv(v), Recorded(v), NEW w, Effect(v, w)
    PROVE  Recorded(w)
<1>1. Keeps(v, w)
  BY EffectKeeps
<1>2. Rewrites(v, w) \/ \E txes : Appends(v, w, txes)
  BY EffectRewrites, DepositAppends, SealAppends DEF Effect
<1> QED  BY <1>1, <1>2, RewritesPreservesRecorded, AppendsPreservesRecorded

LEMMA InitRecorded == Recorded(NewChildChain)
  BY DEF Recorded, NewChildChain, FirstBlockNumber

LEMMA RecordedHolds == Serial => [](Inv(db) /\ Recorded(db))
<1>1. Init => Inv(db) /\ Recorded(db)
  BY InitInv, InitRecorded DEF Init
<1>2. Inv(db) /\ Recorded(db) /\ [Effect(db, db')]_db => (Inv(db) /\ Recorded(db))'
  BY EffectPreservesInv, EffectPreservesRecorded
<1> QED  BY <1>1, <1>2, PTL DEF Serial

\* Where keys are in the order of the indexes, a transaction's rank is its index.
Ordered(n) == \A i, j \in 0 .. n - 1 : KeyPrecedes(i, j) <=> i < j

LEMMA OrderedRank ==
    ASSUME NEW n \in Nat, Ordered(n), NEW i \in 0 .. n - 1
    PROVE  RankIn(0 .. n - 1, i) = i
<1>1. {j \in (0 .. n - 1) \ {i} : KeyPrecedes(j, i)} = 0 .. i - 1
  BY DEF Ordered
<1>2. Cardinality(0 .. i - 1) = i
  BY FS_Interval
<1> QED  BY <1>1, <1>2 DEF RankIn

LEMMA OrderedServed ==
    ASSUME NEW v, StoreType(v), Recorded(v), NEW b \in DOMAIN v.header,
           NEW n \in Nat, DOMAIN v.header[b] = 0 .. n - 1, Ordered(n)
    PROVE  Served(v, b) = v.header[b]
<1> DEFINE I == 0 .. n - 1
           s == Served(v, b)
           h == v.header[b]
<1>1. /\ IsFcn(h)
      /\ \A i \in I : <<b, i>> \in DOMAIN v.tx /\ h[i] = MerkleLeaf(v.tx[<<b, i>>])
  BY DEF Recorded, SignedAs
<1>2. I = Indexes(v, b)
  <2>1. \A i \in I : <<b, i>> \in BlockTxKeys(v, b)
    BY <1>1 DEF BlockTxKeys
  <2>2. \A k \in BlockTxKeys(v, b) : k[2] \in I
    BY DEF BlockTxKeys, Recorded
  <2>3. \A i \in I : i = <<b, i>>[2]
    OBVIOUS
  <2> HIDE DEF I
  <2>4. I \subseteq Indexes(v, b)
    BY <2>1, <2>3 DEF Indexes
  <2>5. Indexes(v, b) \subseteq I
    BY <2>2 DEF Indexes
  <2> QED  BY <2>4, <2>5
<1>3. \A i \in I : RankIn(I, i) = i
  BY OrderedRank
<1> HIDE DEF I
<1>4. Ranks(I) = I
  BY <1>3 DEF Ranks
<1>5. \A p \in I : IndexAt(I, p) = p
  BY <1>3 DEF IndexAt
<1>6. /\ IsFcn(s)
      /\ DOMAIN s = Ranks(I)
      /\ \A p \in DOMAIN s : s[p] = MerkleLeaf(v.tx[<<b, IndexAt(I, p)>>])
  BY <1>2, ServedLeaf
<1>7. DOMAIN h = I
  BY DEF I
<1> HIDE DEF s, h
<1>8. DOMAIN s = DOMAIN h /\ IsFcn(s) /\ IsFcn(h)
  BY <1>1, <1>4, <1>6, <1>7
<1>9. \A p \in DOMAIN s : s[p] = h[p]
  BY <1>1, <1>4, <1>5, <1>6
<1>10. s = h
  BY <1>8, <1>9, FcnEqual
<1> QED  BY <1>10 DEF s, h

-----------------------------------------------------------------------------
(* The theorems.                                                           *)

LEMMA IndexGivesExactTokens ==
    ASSUME Inv(db), IndexInv(db)
    PROVE  TokenIndexExact
<1>1. Outputs = OutputsOf(db)
  BY DEF Outputs, OutputsOf
<1>2. \A out : TokenKey(Output(out).owner, out) = OwnKey(db, out)
  BY DEF Output, OwnKey
<1>3. \A out : (\E k \in DOMAIN db.tx : out \in Consumes(db.tx[k]))
                 <=> ConsumedIn(db.tx, out)
  BY DEF ConsumedIn
<1> QED  BY <1>1, <1>2, <1>3 DEF TokenIndexExact, IndexInv, Index, Entry

LEMMA IndexGivesExactListing ==
    ASSUME PositionsFit, Inv(db), IndexInv(db)
    PROVE  UTXOListingExact
<1> SUFFICES ASSUME NEW addr \in Address
             PROVE  GetUTXOPositions(db, addr) =
                      {NewTxOutPosition(out[1], out[2], out[3]) :
                          out \in {o \in Outputs : /\ Output(o).owner = addr
                                                   /\ ~Output(o).spent
                                                   /\ ~Output(o).exited}}
  BY DEF UTXOListingExact
<1> DEFINE free == {o \in Outputs : /\ Output(o).owner = addr
                                    /\ ~Output(o).spent
                                    /\ ~Output(o).exited}
           listed == {k \in DOMAIN db.token :
                        /\ k[1] = addr
                        /\ IsUnspent(getTxOut(db, ParseTxOutPosition(k[2])))}
<1>1. Outputs = OutputsOf(db)
  BY DEF Outputs, OutputsOf
<1>2. ASSUME NEW out \in Outputs
      PROVE  /\ OwnKey(db, out) \in DOMAIN db.token
             /\ OwnKey(db, out) = <<Output(out).owner, PositionOf(out)>>
             /\ ParseTxOutPosition(PositionOf(out)) = out
  <2>1. Element(out)
    BY <1>1, OutputElement DEF Inv, IndexInv
  <2> QED  BY <1>1, <2>1, ElementParses
           DEF IndexInv, Index, OwnKey, TokenKey, Output, PositionOf
<1>3. \A key \in DOMAIN db.token : \E out \in Outputs : key = OwnKey(db, out)
  BY <1>1 DEF IndexInv, Index
<1>4. ASSUME NEW out \in Outputs
      PROVE  OwnKey(db, out) \in listed <=> out \in free
  BY <1>2 DEF IsUnspent, Output
<1>5. GetUTXOPositions(db, addr) = {key[2] : key \in listed}
  BY DEF GetUTXOPositions
<1> HIDE DEF listed, free
<1>6. listed \subseteq DOMAIN db.token /\ free \subseteq Outputs
  BY DEF listed, free
<1>7. {key[2] : key \in listed} = {PositionOf(out) : out \in free}
  <2>1. ASSUME NEW key \in listed
        PROVE  \E out \in free : key[2] = PositionOf(out)
    BY <1>2, <1>3, <1>4, <1>6
  <2>2. ASSUME NEW out \in free
        PROVE  \E key \in listed : key[2] = PositionOf(out)
    BY <1>2, <1>4, <1>6
  <2> QED  BY <2>1, <2>2
<1> QED  BY <1>5, <1>7 DEF free, PositionOf

LEMMA RecordedGivesSigned ==
    ASSUME Inv(db), Recorded(db)
    PROVE  BlocksAsSigned
<1>1. ASSUME NEW b \in DOMAIN db.header
      PROVE  /\ DOMAIN db.header[b] \in {0 .. n - 1 : n \in 1 .. MaxBlockTxesNum}
             /\ {k[2] : k \in BlockTxKeys(db, b)} = DOMAIN db.header[b]
             /\ \A i \in DOMAIN db.header[b] :
                  db.header[b][i] = MerkleLeaf(db.tx[<<b, i>>])
             /\ KeysInOrder(b) => db.header[b] = MerkleLeaves(GetBlock(db, b))
             /\ \E k \in DOMAIN db.tx : k[1] = b
  <2>1. PICK n \in 1 .. MaxBlockTxesNum :
          /\ DOMAIN db.header[b] = 0 .. n - 1
          /\ \A i \in 0 .. n - 1 :
              /\ <<b, i>> \in DOMAIN db.tx
              /\ db.header[b][i] = MerkleLeaf(db.tx[<<b, i>>])
    BY DEF Recorded, SignedAs
  <2>2. n \in Nat /\ 0 \in 0 .. n - 1
    BY ChildChainAssumption
  <2>3. {k[2] : k \in BlockTxKeys(db, b)} = 0 .. n - 1
    <3>1. \A k \in BlockTxKeys(db, b) : k[2] \in 0 .. n - 1
      BY <2>1 DEF BlockTxKeys, Recorded
    <3>2. \A i \in 0 .. n - 1 : <<b, i>> \in BlockTxKeys(db, b) /\ <<b, i>>[2] = i
      BY <2>1 DEF BlockTxKeys
    <3> QED  BY <3>1, <3>2
  <2>4. KeysInOrder(b) => Served(db, b) = db.header[b]
    BY <2>1, <2>2, OrderedServed DEF KeysInOrder, Ordered, Inv
  <2>5. \E k \in DOMAIN db.tx : k[1] = b
    <3>1. <<b, 0>> \in DOMAIN db.tx /\ <<b, 0>>[1] = b
      BY <2>1, <2>2
    <3> QED  BY <3>1
  <2> QED  BY <2>1, <2>3, <2>4, <2>5 DEF Served
<1>2. {k[1] : k \in DOMAIN db.tx} = DOMAIN db.header
  BY <1>1 DEF Recorded
<1>3. DOMAIN db.header = FirstBlockNumber .. db.cur - 1
  BY DEF Recorded, FirstBlockNumber
<1> QED  BY <1>1, <1>2, <1>3 DEF BlocksAsSigned

LEMMA IndexHolds ==
    ASSUME PositionsFit
    PROVE  Serial => [](Inv(db) /\ IndexInv(db))
<1>1. Init => Inv(db) /\ IndexInv(db)
  BY InitInv, InitIndex DEF Init
<1>2. Inv(db) /\ IndexInv(db) /\ [Effect(db, db')]_db => (Inv(db) /\ IndexInv(db))'
  BY EffectPreservesInv, EffectPreservesIndex
<1> QED  BY <1>1, <1>2, PTL DEF Serial

\* addBlock, childchain.go:569-611, writes an entry for every output it stores
\* and overwrites those of the outputs it spends: as long as positions fit in a
\* uint64 the entry tells who spent the output.
THEOREM TokensExact == PositionsFit => (Spec => []TokenIndexExact)
<1> SUFFICES ASSUME PositionsFit
             PROVE  Spec => []TokenIndexExact
  OBVIOUS
<1>1. Inv(db) /\ IndexInv(db) => TokenIndexExact
  BY IndexGivesExactTokens
<1> QED  BY <1>1, IndexHolds, SpecIsSerial, PTL

\* GetUTXOPositions, childchain.go:352-384, decodes the positions of the index's
\* keys and lists what the address can still spend, no more and no less.
THEOREM ListingExact == PositionsFit => (Spec => []UTXOListingExact)
<1> SUFFICES ASSUME PositionsFit
             PROVE  Spec => []UTXOListingExact
  OBVIOUS
<1>1. Inv(db) /\ IndexInv(db) => UTXOListingExact
  BY IndexGivesExactListing
<1> QED  BY <1>1, IndexHolds, SpecIsSerial, PTL

\* addBlock, childchain.go:569-611, gives block n the records n_0, n_1, ..., and
\* what rewrites a record later, confirmation, exit or spending, leaves what the
\* operator signed: getBlock, childchain.go:488-523, gives back that block, but
\* for the order where an index has more digits than another.
THEOREM ServedAsSigned == Spec => []BlocksAsSigned
<1>1. Inv(db) /\ Recorded(db) => BlocksAsSigned
  BY RecordedGivesSigned
<1> QED  BY <1>1, RecordedHolds, SpecIsSerial, PTL
=============================================================================
