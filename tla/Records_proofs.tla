---------------------------- MODULE Records_proofs ----------------------------
(***************************************************************************)
(* What the child chain never takes back: a record that was stored stays,  *)
(* with its inputs, owners and amounts, its flags are only ever set, and a *)
(* confirmation gives way to the owner's only.  With that, who signed for  *)
(* an input stays its owner, what is marked spent was spent or posted so,  *)
(* and what nobody has spent is worth no more than what came in.           *)
(* All of it is proved of Effect, so that it holds of concurrent           *)
(* transactions too.                                                       *)
(***************************************************************************)
EXTENDS ChildChain_proofs

USE DEF TxElements, TxElementsNum

-----------------------------------------------------------------------------
(* What an effect leaves of the records there were, and where new ones come*)
(* from.                                                                   *)

KeepsInputs(v, w) ==
    \A k \in DOMAIN v.tx, i \in TxElements :
        LET old == v.tx[k].ins[i]
            new == w.tx[k].ins[i]
        IN  /\ new.core = old.core
            /\ new.sig = old.sig
            /\ \/ new.confSig = old.confSig
               \/ ~IsNull(old) /\ new.confSig = getTxOut(v, old.core).owner

KeepsOutputs(v, w) ==
    \A k \in DOMAIN v.tx, o \in TxElements :
        LET old == v.tx[k].outs[o]
            new == w.tx[k].outs[o]
        IN  /\ new.owner = old.owner
            /\ new.amount = old.amount
            /\ old.spent => new.spent
            /\ old.exited => new.exited
            /\ new.spent /\ ~old.spent =>
                ~old.exited /\ ConsumedIn(w.mempool, <<k[1], k[2], o>>)

Keeps(v, w) ==
    /\ DOMAIN v.tx \subseteq DOMAIN w.tx
    /\ KeepsInputs(v, w)
    /\ KeepsOutputs(v, w)

\* A new record comes from the mempool or is a deposit, a new transaction of the
\* mempool was valid.
Origins(v, w) ==
    /\ \A k \in DOMAIN w.tx \ DOMAIN v.tx :
        \/ NewDeposit(w.tx[k])
        \/ \E h \in DOMAIN v.mempool : w.tx[k] = v.mempool[h]
    /\ \A h \in DOMAIN w.mempool :
        \/ h \in DOMAIN v.mempool /\ w.mempool[h] = v.mempool[h]
        \/ w.mempool[h] \in Tx /\ ValidateTx(v, w.mempool[h]) = OK

\* What is pending stays so until a block has it.
KeepsPending(v, w) ==
    \A h \in DOMAIN v.mempool :
        \/ /\ h \in DOMAIN w.mempool
           /\ w.mempool[h] = v.mempool[h]
        \/ \E k \in DOMAIN w.tx \ DOMAIN v.tx : w.tx[k] = v.mempool[h]

-----------------------------------------------------------------------------
(* Blocks.                                                                 *)

Signs(v, w, txes) ==
    w.header = Override(v.header, [b \in {v.cur} |-> MerkleLeaves(txes)])

\* Adding a block of txes, whose transactions may leave the mempool.
Appends(v, w, txes) ==
    /\ v.cur <= MaxBlkNum
    /\ AddableTo(v, txes)
    /\ \E n \in 1 .. MaxBlockTxesNum : DOMAIN txes = 0 .. n - 1
    /\ From(v, txes)
    /\ w.cur = v.cur + 1
    /\ DOMAIN w.tx = DOMAIN v.tx \cup ({v.cur} \X (DOMAIN txes))
    /\ \A k \in DOMAIN v.tx : w.tx[k] = v.tx[k]
    /\ \A i \in DOMAIN txes : w.tx[<<v.cur, i>>] = txes[i]
    /\ w.token = Override(Override(v.token, SpentTokens(v, v.cur, txes)),
                          NewTokens(v.cur, txes))
    /\ Signs(v, w, txes)
    /\ DOMAIN w.mempool \subseteq DOMAIN v.mempool
    /\ \A h \in DOMAIN w.mempool : w.mempool[h] = v.mempool[h]
    /\ \A h \in DOMAIN v.mempool \ DOMAIN w.mempool : \E i \in DOMAIN txes : txes[i] = v.mempool[h]

\* Tokens are looked up in the records only.
LEMMA SpentTokensOfRecords ==
    ASSUME NEW v, NEW u, u.tx = v.tx, NEW blkNum, NEW txes
    PROVE  SpentTokens(u, blkNum, txes) = SpentTokens(v, blkNum, txes)
<1>1. \A c : getTxOut(u, c) = getTxOut(v, c)
  BY DEF getTxOut
<1>2. \A key : Spenders(u, txes, key) = Spenders(v, txes, key)
  BY <1>1 DEF Spenders
<1>3. {TokenKey(getTxOut(u, c).owner, c) : c \in AllConsumed(txes)}
        = {TokenKey(getTxOut(v, c).owner, c) : c \in AllConsumed(txes)}
  BY <1>1
<1> QED  BY <1>2, <1>3 DEF SpentTokens

LEMMA AddBlockAppends ==
    ASSUME NEW v, Inv(v),
           NEW u, LosesPending(v, u), StoreType(u),
           NEW txes, AddableTo(v, txes), From(v, txes), v.cur <= MaxBlkNum,
           \E n \in 1 .. MaxBlockTxesNum : DOMAIN txes = 0 .. n - 1,
           \A h \in DOMAIN v.mempool \ DOMAIN u.mempool :
             \E i \in DOMAIN txes : txes[i] = v.mempool[h]
    PROVE  Appends(v, incrementCurrentBlockNumber(addBlock(u, v.cur, txes)), txes)
<1> USE DEF LosesPending
<1> DEFINE w == incrementCurrentBlockNumber(addBlock(u, u.cur, txes))
<1>1. KeysBelowCurrent(u) /\ AddableTo(u, txes)
  BY DEF Inv, KeysBelowCurrent, AddableTo, HasTxOut
<1>2. /\ w.cur = u.cur + 1
      /\ w.mempool = u.mempool
      /\ DOMAIN w.tx = DOMAIN u.tx \cup ({u.cur} \X (DOMAIN txes))
      /\ \A k \in DOMAIN u.tx : w.tx[k] = u.tx[k]
      /\ \A i \in DOMAIN txes : w.tx[<<u.cur, i>>] = txes[i]
  <2> HIDE DEF w
  <2> QED  BY <1>1, AddBlockEffect DEF w
<1>3. w.token = Override(Override(u.token, SpentTokens(u, u.cur, txes)),
                         NewTokens(u.cur, txes))
  BY DEF StoreType, incrementCurrentBlockNumber, addBlock
<1>4. SpentTokens(u, u.cur, txes) = SpentTokens(v, v.cur, txes)
  BY SpentTokensOfRecords
<1>5. w = incrementCurrentBlockNumber(addBlock(u, v.cur, txes))
  OBVIOUS
<1>6. Signs(v, w, txes)
  BY DEF StoreType, incrementCurrentBlockNumber, addBlock, Signs
<1> HIDE DEF w
<1> QED  BY <1>2, <1>3, <1>4, <1>5, <1>6 DEF Appends

LEMMA DepositAppends ==
    ASSUME NEW v, Inv(v), NEW w, DepositEffect(v, w)
    PROVE  \E txes : Appends(v, w, txes)
<1>1. PICK owner \in Address, amount \in DepositAmounts :
        w = AddDepositBlock(v, owner, amount).db
  BY DEF DepositEffect
<1> DEFINE txes == [i \in {0} |-> DepositTx(owner, amount)]
<1>2. /\ DOMAIN txes = 0 .. 1 - 1
      /\ txes[0] \in Tx
      /\ NewDeposit(txes[0])
  BY DepositTxEffect, ChildChainAssumption DEF NewDeposit
<1>3. w = incrementCurrentBlockNumber(addBlock(v, v.cur, txes))
  BY <1>1 DEF AddDepositBlock, Done
<1> HIDE DEF txes
<1>4. AddableTo(v, txes) /\ From(v, txes)
  BY <1>2 DEF AddableTo, From, NewDeposit
<1>5. 1 \in 1 .. MaxBlockTxesNum
  BY ChildChainAssumption
<1>6. LosesPending(v, v) /\ StoreType(v) /\ v.cur <= MaxBlkNum
  BY DEF Inv, DepositEffect, LosesPending
<1> QED  BY <1>2, <1>3, <1>4, <1>5, <1>6, AddBlockAppends

LEMMA SealAppends ==
    ASSUME NEW v, Inv(v), NEW w, SealEffect(v, w)
    PROVE  \E txes : Appends(v, w, txes)
<1>0. PICK batch \in SUBSET DOMAIN v.mempool :
        /\ batch # {}
        /\ Cardinality(batch) <= MaxBlockTxesNum
        /\ \E gone \in SUBSET batch :
           \E order \in Bijection(0 .. Cardinality(batch) - 1, batch) :
             w = Sealed(v, batch, gone, order)
  BY DEF SealEffect
<1>g. PICK gone \in SUBSET batch :
        \E order \in Bijection(0 .. Cardinality(batch) - 1, batch) :
             w = Sealed(v, batch, gone, order)
  BY <1>0
<1>1. PICK order \in Bijection(0 .. Cardinality(batch) - 1, batch) :
        w = Sealed(v, batch, gone, order)
  BY <1>g
<1> DEFINE n == Cardinality(batch)
           txes == [i \in DOMAIN order |-> v.mempool[order[i]]]
           u == [v EXCEPT !.mempool = Without(@, gone)]
<1>2. n \in 1 .. MaxBlockTxesNum
  <2>1. IsFiniteSet(batch)
    BY FS_Subset DEF Inv, MempoolKeyed
  <2>2. n \in Nat /\ n # 0
    BY <1>0, <2>1, FS_CardinalityType, FS_EmptySet
  <2> HIDE DEF n
  <2> QED  BY <1>0, <2>2, ChildChainAssumption DEF n
<1>3. DOMAIN txes = 0 .. n - 1 /\ AddableTo(v, txes) /\ From(v, txes)
  BY BatchInOrder
<1>4. \A h \in gone : \E i \in DOMAIN txes : txes[i] = v.mempool[h]
  <2> SUFFICES ASSUME NEW h \in gone
               PROVE  \E i \in DOMAIN txes : txes[i] = v.mempool[h]
    OBVIOUS
  <2>1. PICK i \in DOMAIN order : order[i] = h
    BY DEF Bijection, Surjection
  <2> QED  BY <2>1
<1>5. w = incrementCurrentBlockNumber(addBlock(u, v.cur, txes))
  BY <1>1 DEF Sealed
<1>6. LosesPending(v, u) /\ StoreType(u) /\ DOMAIN u.mempool = DOMAIN v.mempool \ gone
  BY WithoutLoses
<1> HIDE DEF txes, u, n
<1>7. \A h \in DOMAIN v.mempool \ DOMAIN u.mempool : \E i \in DOMAIN txes : txes[i] = v.mempool[h]
  BY <1>4, <1>6
<1>8. v.cur <= MaxBlkNum
  BY DEF SealEffect
<1> QED  BY <1>2, <1>3, <1>5, <1>6, <1>7, <1>8, AddBlockAppends

LEMMA AppendsKeeps ==
    ASSUME NEW v, Inv(v), NEW w, NEW txes, Appends(v, w, txes)
    PROVE  Keeps(v, w) /\ Origins(v, w) /\ KeepsPending(v, w)
<1>1. Keeps(v, w)
  BY DEF Appends, Keeps, KeepsInputs, KeepsOutputs
<1>2. Origins(v, w)
  BY DEF Appends, From, Origins
<1>3. KeepsPending(v, w)
  <2> SUFFICES ASSUME NEW h \in DOMAIN v.mempool \ DOMAIN w.mempool
               PROVE  \E k \in DOMAIN w.tx \ DOMAIN v.tx : w.tx[k] = v.mempool[h]
    BY DEF KeepsPending, Appends
  <2>1. PICK i \in DOMAIN txes : txes[i] = v.mempool[h]
    BY DEF Appends
  <2>2. /\ <<v.cur, i>> \in DOMAIN w.tx
        /\ w.tx[<<v.cur, i>>] = txes[i]
    BY DEF Appends
  <2>3. <<v.cur, i>> \notin DOMAIN v.tx
    BY DEF Inv, StoreType, KeysBelowCurrent
  <2> QED  BY <2>1, <2>2, <2>3
<1> QED  BY <1>1, <1>2, <1>3

-----------------------------------------------------------------------------
(* Accepting, confirming, exiting.                                         *)

\* What ValidateTx finds of an input it lets pass.
LEMMA ValidInput ==
    ASSUME NEW v, NEW tx \in Tx, ValidateTx(v, tx) = OK,
           NEW i \in TxElements, ~IsNull(tx.ins[i])
    PROVE  LET out == getTxOut(v, tx.ins[i].core)
           IN  /\ HasTxOut(v, tx.ins[i].core)
               /\ ~out.spent /\ ~out.exited
               /\ tx.ins[i].sig = out.owner
               /\ tx.ins[i].sig # NullSignature
<1> DEFINE in == tx.ins[i]
<1>1. InputError(v, in) = OK
  BY ValidateTxOK
<1> HIDE DEF in
<1>2. /\ HasTxOut(v, in.core)
      /\ TxOutError(getTxOut(v, in.core)) = OK
      /\ SignatureError(in, getTxOut(v, in.core)) = OK
  BY <1>1 DEF InputError, OK, in
<1> QED  BY <1>2 DEF TxOutError, SignatureError, SignerAddress, OK, in

\* A transaction that is accepted is not in the mempool already.
LEMMA NotPending ==
    ASSUME NEW v, Inv(v), NEW tx \in Tx, ValidateTx(v, tx) = OK
    PROVE  /\ TxHash(tx) \notin DOMAIN v.mempool
           /\ LET m == Accepted(v, tx).mempool
              IN  /\ DOMAIN m = DOMAIN v.mempool \cup {TxHash(tx)}
                  /\ m[TxHash(tx)] = tx
                  /\ \A h \in DOMAIN v.mempool : m[h] = v.mempool[h]
<1> DEFINE H == TxHash(tx)
           m == Accepted(v, tx).mempool
<1>1. H \notin DOMAIN v.mempool
  <2> SUFFICES ASSUME H \in DOMAIN v.mempool
               PROVE  FALSE
    OBVIOUS
  <2>1. v.mempool[H] \in Tx /\ TxHash(v.mempool[H]) = H
    BY DEF Inv, StoreType, MempoolKeyed
  <2>2. Consumes(v.mempool[H]) = Consumes(tx)
    BY <2>1, TxHashEffect
  <2>3. PICK c \in Consumes(tx) : HasTxOut(v, c) /\ ~getTxOut(v, c).spent
    BY ValidateTxOK
  <2>4. /\ c = <<c[1], c[2], c[3]>> /\ c \in Nat \X Nat \X Nat
        /\ TxKey(c) \in DOMAIN v.tx /\ c[3] \in TxElements
    BY <2>3, ConsumesType, OutputType DEF Inv, HasTxOut
  <2>5. ConsumedIn(v.mempool, c)
    BY <2>2 DEF ConsumedIn
  <2> QED  BY <2>3, <2>4, <2>5 DEF Inv, ConsumedIsSpent, getTxOut, TxKey
<1>2. m = Override(v.mempool, [h \in {H} |-> tx])
  BY DEF Accepted, Inv, StoreType, addTxToMempool
<1> HIDE DEF H, m
<1>3. DOMAIN m = DOMAIN v.mempool \cup {H} /\ m[H] = tx /\ \A h \in DOMAIN v.mempool : m[h] = v.mempool[h]
  BY <1>1, <1>2 DEF Override
<1> QED  BY <1>1, <1>3 DEF H, m

LEMMA AcceptKeeps ==
    ASSUME NEW v, Inv(v), NEW w, AcceptEffect(v, w)
    PROVE  Keeps(v, w) /\ Origins(v, w) /\ KeepsPending(v, w)
<1>1. PICK tx \in Tx : ValidateTx(v, tx) = OK /\ w = Accepted(v, tx)
  BY DEF AcceptEffect
<1>2. tx \in Tx
  OBVIOUS
<1>3. w.tx = SpendInputs(v, tx)
  BY <1>1 DEF Accepted, Inv, StoreType
<1>m. /\ TxHash(tx) \in DOMAIN w.mempool
      /\ w.mempool[TxHash(tx)] = tx
      /\ \A h \in DOMAIN w.mempool : h = TxHash(tx) \/ h \in DOMAIN v.mempool
      /\ \A h \in DOMAIN v.mempool : h \in DOMAIN w.mempool /\ w.mempool[h] = v.mempool[h]
  BY <1>1, NotPending
<1>4. /\ DOMAIN w.tx = DOMAIN v.tx
      /\ \A k \in DOMAIN v.tx :
           /\ w.tx[k].ins = v.tx[k].ins
           /\ \A o \in TxElements :
                /\ w.tx[k].outs[o].spent
                     <=> \/ v.tx[k].outs[o].spent
                         \/ <<k[1], k[2], o>> \in Consumes(tx)
                /\ SameButSpent(v.tx[k].outs[o], w.tx[k].outs[o])
  BY <1>2, <1>3, SpendInputsEffect DEF Inv
<1>5. KeepsInputs(v, w)
  BY <1>4 DEF KeepsInputs
<1>6. KeepsOutputs(v, w)
  <2> SUFFICES ASSUME NEW k \in DOMAIN v.tx, NEW o \in TxElements,
                      w.tx[k].outs[o].spent, ~v.tx[k].outs[o].spent
               PROVE  /\ ~v.tx[k].outs[o].exited
                      /\ ConsumedIn(w.mempool, <<k[1], k[2], o>>)
    BY <1>4 DEF KeepsOutputs, SameButSpent
  <2>1. <<k[1], k[2], o>> \in Consumes(tx)
    BY <1>4
  <2>2. PICK i \in TxElements : /\ tx.ins[i].core = <<k[1], k[2], o>>
                                /\ ~IsNull(tx.ins[i])
    BY <1>2, <2>1, ConsumesType
  <2>3. ~getTxOut(v, <<k[1], k[2], o>>).exited
    BY <1>1, <1>2, <2>2, ValidInput
  <2>4. k = <<k[1], k[2]>>
    BY DEF Inv, StoreType
  <2>5. ConsumedIn(w.mempool, <<k[1], k[2], o>>)
    BY <1>m, <2>1 DEF ConsumedIn
  <2> QED  BY <2>3, <2>4, <2>5 DEF getTxOut, TxKey
<1>7. Origins(v, w) /\ KeepsPending(v, w)
  BY <1>1, <1>4, <1>m DEF Origins, KeepsPending
<1> QED  BY <1>4, <1>5, <1>6, <1>7 DEF Keeps

LEMMA SetTxEffect ==
    ASSUME NEW v, Inv(v), NEW k \in DOMAIN v.tx, NEW new
    PROVE  LET w == setTx(v, k, new)
           IN  /\ w.cur = v.cur
               /\ w.mempool = v.mempool
               /\ w.token = v.token
               /\ DOMAIN w.tx = DOMAIN v.tx
               /\ \A l \in DOMAIN v.tx :
                    w.tx[l] = IF l = k THEN new ELSE v.tx[l]
  BY DEF Inv, StoreType, setTx

LEMMA ConfirmKeeps ==
    ASSUME NEW v, Inv(v), NEW w, ConfirmEffect(v, w)
    PROVE  Keeps(v, w) /\ Origins(v, w) /\ KeepsPending(v, w)
<1>1. PICK pos \in ClientPositions, sig \in Signature :
        ConfirmTx(v, pos, sig).err = OK /\ w = ConfirmTx(v, pos, sig).db
  BY DEF ConfirmEffect
<1> DEFINE in == ParseTxInPosition(pos)
           k == TxKey(in)
           j == in[3]
           old == v.tx[k]
           new == SetConfirmationSignature(old, j, sig)
<1>2. /\ ~ParsePanics(pos)
      /\ k \in DOMAIN v.tx
      /\ IsExistInput(j)
      /\ ~IsNull(old.ins[j])
      /\ ~WrongConfirmation(v, old.ins[j], sig)
      /\ w = setTx(v, k, new)
  BY <1>1 DEF ConfirmTx, Failed, Done, OK
<1>3. j \in TxElements
  BY <1>2, ParsedType, ChildChainAssumption DEF IsExistInput
<1> HIDE DEF in, k, j
<1>4. old \in Tx
  BY <1>2 DEF Inv, StoreType
<1>5. sig = getTxOut(v, old.ins[j].core).owner
  BY <1>2 DEF WrongConfirmation
<1>6. /\ w.mempool = v.mempool
      /\ DOMAIN w.tx = DOMAIN v.tx
      /\ \A l \in DOMAIN v.tx : w.tx[l] = IF l = k THEN new ELSE v.tx[l]
  <2> HIDE DEF new
  <2> QED  BY <1>2, SetTxEffect
<1>7. \A l \in DOMAIN v.tx : l = k => v.tx[l] = old
  OBVIOUS
<1>8. ~IsNull(old.ins[j])
  BY <1>2
<1> HIDE DEF old
<1>9. /\ \A i \in TxElements :
           /\ new.ins[i].core = old.ins[i].core
           /\ new.ins[i].sig = old.ins[i].sig
           /\ new.ins[i].confSig = IF i = j THEN sig ELSE old.ins[i].confSig
      /\ new.outs = old.outs
  BY <1>3, <1>4, ConfirmationEffect
<1> HIDE DEF new
<1>10. KeepsInputs(v, w)
  <2> SUFFICES ASSUME NEW l \in DOMAIN v.tx, NEW i \in TxElements
               PROVE  LET o == v.tx[l].ins[i]
                          n == w.tx[l].ins[i]
                      IN  /\ n.core = o.core
                          /\ n.sig = o.sig
                          /\ \/ n.confSig = o.confSig
                             \/ ~IsNull(o) /\ n.confSig = getTxOut(v, o.core).owner
    BY DEF KeepsInputs
  <2>1. CASE l = k /\ i = j
    BY <1>5, <1>6, <1>7, <1>8, <1>9, <2>1
  <2>2. CASE l = k /\ i # j
    BY <1>6, <1>7, <1>9, <2>2
  <2>3. CASE l # k
    BY <1>6, <2>3
  <2> QED  BY <2>1, <2>2, <2>3
<1>11. KeepsOutputs(v, w)
  BY <1>6, <1>7, <1>9 DEF KeepsOutputs
<1>12. Origins(v, w) /\ KeepsPending(v, w)
  BY <1>6 DEF Origins, KeepsPending
<1> QED  BY <1>6, <1>10, <1>11, <1>12 DEF Keeps

LEMMA ExitKeeps ==
    ASSUME NEW v, Inv(v), NEW w, ExitEffect(v, w)
    PROVE  Keeps(v, w) /\ Origins(v, w) /\ KeepsPending(v, w)
<1>1. PICK pos \in ClientPositions :
        ExitTxOut(v, pos).err = OK /\ w = ExitTxOut(v, pos).db
  BY DEF ExitEffect
<1> DEFINE out == ParseTxInPosition(pos)
           k == TxKey(out)
           e == out[3]
           old == v.tx[k]
           new == ExitOutput(old, e)
<1>2. /\ ~ParsePanics(pos)
      /\ k \in DOMAIN v.tx
      /\ IsExistOutput(e)
      /\ w = setTx(v, k, new)
  BY <1>1 DEF ExitTxOut, Failed, Done, OK
<1>3. e \in TxElements
  BY <1>2, ParsedType, ChildChainAssumption DEF IsExistOutput
<1> HIDE DEF out, k, e
<1>4. old \in Tx
  BY <1>2 DEF Inv, StoreType
<1>5. /\ w.mempool = v.mempool
      /\ DOMAIN w.tx = DOMAIN v.tx
      /\ \A l \in DOMAIN v.tx : w.tx[l] = IF l = k THEN new ELSE v.tx[l]
  <2> HIDE DEF new
  <2> QED  BY <1>2, SetTxEffect
<1>6. \A l \in DOMAIN v.tx : l = k => v.tx[l] = old
  OBVIOUS
<1> HIDE DEF old
<1>7. /\ new.ins = old.ins
      /\ \A o \in TxElements :
           /\ new.outs[o].spent <=> old.outs[o].spent
           /\ new.outs[o].owner = old.outs[o].owner
           /\ new.outs[o].amount = old.outs[o].amount
           /\ new.outs[o].exited <=> old.outs[o].exited \/ o = e
  BY <1>3, <1>4, ExitOutputEffect
<1> HIDE DEF new
<1>8. KeepsInputs(v, w)
  BY <1>5, <1>6, <1>7 DEF KeepsInputs
<1>9. KeepsOutputs(v, w)
  BY <1>5, <1>6, <1>7 DEF KeepsOutputs
<1>10. Origins(v, w) /\ KeepsPending(v, w)
  BY <1>5 DEF Origins, KeepsPending
<1> QED  BY <1>5, <1>8, <1>9, <1>10 DEF Keeps

LEMMA EffectKeeps ==
    ASSUME NEW v, Inv(v), NEW w, Effect(v, w)
    PROVE  Keeps(v, w) /\ Origins(v, w) /\ KeepsPending(v, w)
<1>1. CASE DepositEffect(v, w)
  BY <1>1, DepositAppends, AppendsKeeps
<1>2. CASE SealEffect(v, w)
  BY <1>2, SealAppends, AppendsKeeps
<1> QED  BY <1>1, <1>2, AcceptKeeps, ConfirmKeeps, ExitKeeps DEF Effect

-----------------------------------------------------------------------------
(* Who signed.                                                             *)

AuthorizedTx(v, tx) ==
    \A i \in TxElements :
        LET txIn == tx.ins[i]
        IN  ~IsNull(txIn) =>
                /\ txIn.sig = getTxOut(v, txIn.core).owner
                /\ txIn.sig # NullSignature

Authorized(v) ==
    /\ \A k \in DOMAIN v.tx : AuthorizedTx(v, v.tx[k])
    /\ \A h \in DOMAIN v.mempool : AuthorizedTx(v, v.mempool[h])

\* The owner of an output the store has does not change.
LEMMA OwnerKept ==
    ASSUME NEW v, StoreType(v), NEW w, Keeps(v, w),
           NEW c \in Nat \X Nat \X Nat, HasTxOut(v, c)
    PROVE  getTxOut(w, c).owner = getTxOut(v, c).owner
<1>1. TxKey(c) \in DOMAIN v.tx /\ c[3] \in TxElements
  BY OutputType DEF HasTxOut
<1> QED  BY <1>1 DEF Keeps, KeepsOutputs, getTxOut

\* An input that is not null names one of the outputs its transaction consumes.
LEMMA NamedConsumed ==
    ASSUME NEW tx, NEW i \in TxElements, ~IsNull(tx.ins[i])
    PROVE  tx.ins[i].core \in Consumes(tx)
  BY DEF Consumes, IsNull

LEMMA AuthorizedTxKept ==
    ASSUME NEW v, Inv(v), NEW w, Keeps(v, w), NEW tx \in Tx, AuthorizedTx(v, tx),
           \A c \in Consumes(tx) : HasTxOut(v, c)
    PROVE  AuthorizedTx(w, tx)
<1> SUFFICES ASSUME NEW i \in TxElements, ~IsNull(tx.ins[i])
             PROVE  getTxOut(w, tx.ins[i].core).owner = getTxOut(v, tx.ins[i].core).owner
  BY DEF AuthorizedTx
<1>1. tx.ins[i].core \in Consumes(tx)
  BY NamedConsumed
<1> QED  BY <1>1, ConsumesType, OwnerKept DEF Inv

LEMMA EffectPreservesAuthorized ==
    ASSUME NEW v, Inv(v), Authorized(v), NEW w, Effect(v, w)
    PROVE  Authorized(w)
<1>1. Keeps(v, w) /\ Origins(v, w)
  BY EffectKeeps
\* Pending transactions stay authorized, in the mempool or in a block.
<1>2. \A h \in DOMAIN v.mempool : AuthorizedTx(w, v.mempool[h])
  BY <1>1, AuthorizedTxKept DEF Authorized, Inv, StoreType, InputsNamed
<1>3. ASSUME NEW k \in DOMAIN v.tx
      PROVE  AuthorizedTx(w, w.tx[k])
  <2> SUFFICES ASSUME NEW i \in TxElements, ~IsNull(w.tx[k].ins[i])
               PROVE  LET txIn == w.tx[k].ins[i]
                          owner == getTxOut(w, txIn.core).owner
                      IN  /\ txIn.sig = owner
                          /\ txIn.sig # NullSignature
    BY DEF AuthorizedTx
  <2> DEFINE old == v.tx[k].ins[i]
             new == w.tx[k].ins[i]
             owner == getTxOut(v, old.core).owner
  <2>1. /\ new.core = old.core
        /\ new.sig = old.sig
    BY <1>1 DEF Keeps, KeepsInputs
  <2>2. ~IsNull(old)
    BY <2>1 DEF IsNull
  <2>3. /\ old.sig = owner
        /\ old.sig # NullSignature
    BY <2>2 DEF Authorized, AuthorizedTx
  <2>4. getTxOut(w, old.core).owner = owner
    <3>1. v.tx[k] \in Tx /\ old.core \in Consumes(v.tx[k])
      BY <2>2, NamedConsumed DEF Inv, StoreType
    <3>2. HasTxOut(v, old.core) /\ old.core \in Nat \X Nat \X Nat
      BY <3>1, ConsumesType DEF Inv, InputsNamed
    <3> QED  BY <1>1, <3>2, OwnerKept DEF Inv
  <2> HIDE DEF old, owner
  <2> QED  BY <2>1, <2>3, <2>4
<1>4. ASSUME NEW k \in DOMAIN w.tx \ DOMAIN v.tx
      PROVE  AuthorizedTx(w, w.tx[k])
  <2>1. CASE NewDeposit(w.tx[k])
    BY <2>1, NamedConsumed DEF AuthorizedTx, NewDeposit
  <2> QED  BY <1>1, <1>2, <2>1 DEF Origins
<1>5. ASSUME NEW tx \in Tx, ValidateTx(v, tx) = OK
      PROVE  AuthorizedTx(w, tx)
  <2>1. AuthorizedTx(v, tx)
    BY <1>5, ValidInput DEF AuthorizedTx
  <2> QED  BY <1>1, <1>5, <2>1, ValidateTxOK, AuthorizedTxKept
<1>6. \A h \in DOMAIN w.mempool : AuthorizedTx(w, w.mempool[h])
  BY <1>1, <1>2, <1>5 DEF Origins
<1> QED  BY <1>3, <1>4, <1>6 DEF Authorized

-----------------------------------------------------------------------------
(* What it means for a store that changes by one effect at a time.         *)

LEMMA AuthorizedHolds == Serial => [](Inv(db) /\ Authorized(db))
<1>1. Init => Inv(db) /\ Authorized(db)
  BY InitInv DEF Init, Authorized, NewChildChain
<1>2. Inv(db) /\ Authorized(db) /\ [Effect(db, db')]_db => (Inv(db) /\ Authorized(db))'
  BY EffectPreservesInv, EffectPreservesAuthorized
<1> QED  BY <1>1, <1>2, PTL DEF Serial

LEMMA AuthorizedGivesSigners == Inv(db) /\ Authorized(db) => InputsAuthorized
  BY DEF Authorized, AuthorizedTx, InputsAuthorized, Holders, Held, Output

\* What an effect keeps, as RecordsOnlyGrow says it.
RecordsGrow(v, w) ==
    \A k \in DOMAIN v.tx :
        /\ k \in DOMAIN w.tx
        /\ MerkleLeaf(w.tx[k]) = MerkleLeaf(v.tx[k])
        /\ \A o \in TxElements :
            /\ v.tx[k].outs[o].spent => w.tx[k].outs[o].spent
            /\ v.tx[k].outs[o].exited => w.tx[k].outs[o].exited
        /\ \A i \in TxElements :
            \/ w.tx[k].ins[i].confSig = v.tx[k].ins[i].confSig
            \/ /\ ~IsNull(v.tx[k].ins[i])
               /\ w.tx[k].ins[i].confSig = getTxOut(v, v.tx[k].ins[i].core).owner

LEMMA KeepsLeaf ==
    ASSUME NEW v, NEW w, Keeps(v, w), NEW k \in DOMAIN v.tx
    PROVE  MerkleLeaf(w.tx[k]) = MerkleLeaf(v.tx[k])
<1>1. \A i \in TxElements :
        /\ w.tx[k].ins[i].core = v.tx[k].ins[i].core
        /\ w.tx[k].ins[i].sig = v.tx[k].ins[i].sig
  BY DEF Keeps, KeepsInputs
<1>2. \A o \in TxElements :
        /\ w.tx[k].outs[o].owner = v.tx[k].outs[o].owner
        /\ w.tx[k].outs[o].amount = v.tx[k].outs[o].amount
  BY DEF Keeps, KeepsOutputs
<1> QED  BY <1>1, <1>2, SameLeaf

LEMMA KeptRecordsGrow ==
    ASSUME NEW v, NEW w, Keeps(v, w)
    PROVE  RecordsGrow(v, w)
<1>1. \A k \in DOMAIN v.tx : MerkleLeaf(w.tx[k]) = MerkleLeaf(v.tx[k])
  BY KeepsLeaf
<1>2. \A k \in DOMAIN v.tx : k \in DOMAIN w.tx
  BY DEF Keeps
<1>3. \A k \in DOMAIN v.tx, i \in TxElements :
        \/ w.tx[k].ins[i].confSig = v.tx[k].ins[i].confSig
        \/ /\ ~IsNull(v.tx[k].ins[i])
           /\ w.tx[k].ins[i].confSig = getTxOut(v, v.tx[k].ins[i].core).owner
  BY DEF Keeps, KeepsInputs
<1>4. \A k \in DOMAIN v.tx, o \in TxElements :
        /\ v.tx[k].outs[o].spent => w.tx[k].outs[o].spent
        /\ v.tx[k].outs[o].exited => w.tx[k].outs[o].exited
  BY DEF Keeps, KeepsOutputs
<1> QED  BY <1>1, <1>2, <1>3, <1>4 DEF RecordsGrow

\* An output that exited unspent is not spent by an effect.
LEMMA ExitedKept ==
    ASSUME NEW v, NEW w, Keeps(v, w), NEW k \in DOMAIN v.tx, NEW o \in TxElements,
           v.tx[k].outs[o].exited, ~v.tx[k].outs[o].spent
    PROVE  ~w.tx[k].outs[o].spent
  BY DEF Keeps, KeepsOutputs

LEMMA SerialKeepsRecords == Serial => RecordsOnlyGrow
<1>1. Inv(db) /\ [Effect(db, db')]_db => [RecordsGrow(db, db')]_db
  BY EffectKeeps, KeptRecordsGrow
<1>2. RecordsOnlyGrow <=> [][RecordsGrow(db, db')]_db
  BY DEF RecordsOnlyGrow, RecordsGrow, Output
<1> QED  BY <1>1, <1>2, InvHolds, PTL DEF Serial

LEMMA SerialKeepsPending == Serial => PendingKept
<1>1. Inv(db) /\ [Effect(db, db')]_db => [KeepsPending(db, db')]_db
  BY EffectKeeps
<1>2. PendingKept <=> [][KeepsPending(db, db')]_db
  BY DEF PendingKept, KeepsPending
<1> QED  BY <1>1, <1>2, InvHolds, PTL DEF Serial

LEMMA SerialKeepsExits == Serial => ExitedNotSpentLater
<1> DEFINE Step ==
        \A out \in Outputs :
            Output(out).exited /\ ~Output(out).spent => ~getTxOut(db', out).spent
<1>1. Inv(db) /\ [Effect(db, db')]_db => [Step]_db
  <2> SUFFICES ASSUME Inv(db), Effect(db, db'), NEW out \in Outputs,
                      Output(out).exited, ~Output(out).spent
               PROVE  ~getTxOut(db', out).spent
    OBVIOUS
  <2>1. PICK k \in DOMAIN db.tx, o \in TxElements : out = <<k[1], k[2], o>>
    BY DEF Outputs
  <2>2. TxKey(out) = k /\ out[3] = o
    BY <2>1 DEF TxKey, Inv, StoreType
  <2>3. Keeps(db, db')
    BY EffectKeeps
  <2> QED  BY <2>2, <2>3, ExitedKept DEF Output, getTxOut
<1>2. ExitedNotSpentLater <=> [][Step]_db
  BY DEF ExitedNotSpentLater
<1> HIDE DEF Step
<1> QED  BY <1>1, <1>2, InvHolds, PTL DEF Serial

-----------------------------------------------------------------------------
(* What the outputs of a store are worth.                                  *)

LEMMA UnspentIsSum ==
    ASSUME NEW tx \in Tx
    PROVE  /\ UnspentAmount(tx) =
                (IF tx.outs[0].spent THEN 0 ELSE tx.outs[0].amount)
                  + (IF tx.outs[1].spent THEN 0 ELSE tx.outs[1].amount)
           /\ UnspentAmount(tx) \in Nat
<1> DEFINE S == {o \in TxElements : ~tx.outs[o].spent}
           f == [o \in S |-> tx.outs[o].amount]
<1>1. \A o \in TxElements : tx.outs[o].amount \in Nat
  BY DEF Tx, TxOut
<1>2. DOMAIN f = S /\ S \subseteq TxElements /\ \A o \in S : f[o] = tx.outs[o].amount
  OBVIOUS
<1>3. \A o \in TxElements : o \in S <=> ~tx.outs[o].spent
  OBVIOUS
<1>4. UnspentAmount(tx) = SumFunction(f)
  BY DEF UnspentAmount
<1> HIDE DEF f, S
<1>5. NatOn(f, DOMAIN f)
  BY <1>1, <1>2 DEF NatOn
<1>6. /\ SumFunction(f) = (IF 0 \in S THEN f[0] ELSE 0) + (IF 1 \in S THEN f[1] ELSE 0)
      /\ SumFunction(f) \in Nat
  BY <1>2, <1>5, SumOfElements
<1> QED  BY <1>2, <1>3, <1>4, <1>6

LEMMA OutAmountIsSum ==
    ASSUME NEW tx \in Tx
    PROVE  /\ OutAmount(tx) = tx.outs[0].amount + tx.outs[1].amount
           /\ OutAmount(tx) \in Nat
<1> DEFINE f == [o \in TxElements |-> tx.outs[o].amount]
<1>1. \A o \in TxElements : tx.outs[o].amount \in Nat
  BY DEF Tx, TxOut
<1>2. DOMAIN f = TxElements /\ \A o \in TxElements : f[o] = tx.outs[o].amount
  OBVIOUS
<1>3. OutAmount(tx) = SumFunction(f)
  BY DEF OutAmount
<1> HIDE DEF f
<1>4. NatOn(f, DOMAIN f)
  BY <1>1, <1>2 DEF NatOn
<1>5. /\ SumFunction(f) = (IF 0 \in DOMAIN f THEN f[0] ELSE 0)
                            + (IF 1 \in DOMAIN f THEN f[1] ELSE 0)
      /\ SumFunction(f) \in Nat
  BY <1>2, <1>4, SumOfElements
<1> QED  BY <1>2, <1>3, <1>5

\* What input i brings in.
InputAmount(v, tx, i) ==
    IF IsNull(tx.ins[i]) THEN 0 ELSE getTxOut(v, tx.ins[i].core).amount

LEMMA InAmountIsSum ==
    ASSUME NEW v, NEW tx, \A i \in TxElements : InputAmount(v, tx, i) \in Nat
    PROVE  InAmount(v, tx) = InputAmount(v, tx, 0) + InputAmount(v, tx, 1)
<1> DEFINE S == {i \in TxElements : ~IsNull(tx.ins[i])}
           f == [i \in S |-> getTxOut(v, tx.ins[i].core).amount]
<1>1. /\ DOMAIN f = S /\ S \subseteq TxElements
      /\ \A i \in S : f[i] = InputAmount(v, tx, i)
      /\ \A i \in TxElements : i \in S <=> ~IsNull(tx.ins[i])
  BY DEF InputAmount
<1>2. InAmount(v, tx) = SumFunction(f)
  BY DEF InAmount
<1> HIDE DEF f, S
<1>3. NatOn(f, DOMAIN f)
  BY <1>1 DEF NatOn
<1>4. SumFunction(f) = (IF 0 \in S THEN f[0] ELSE 0) + (IF 1 \in S THEN f[1] ELSE 0)
  BY <1>1, <1>3, SumOfElements
<1> QED  BY <1>1, <1>2, <1>4 DEF InputAmount

\* A leaf covers what a transaction pays.
LEMMA LeafAmounts ==
    ASSUME NEW tx, NEW new, MerkleLeaf(new) = MerkleLeaf(tx)
    PROVE  \A o \in TxElements : new.outs[o].amount = tx.outs[o].amount
<1>1. TxHash(new) = TxHash(tx)
  BY DEF MerkleLeaf
<1>2. [o \in TxElements |-> OutputCore(new.outs[o])]
        = [o \in TxElements |-> OutputCore(tx.outs[o])]
  BY <1>1 DEF TxHash
<1>3. \A o \in TxElements : OutputCore(new.outs[o]) = OutputCore(tx.outs[o])
  BY <1>2
<1> QED  BY <1>3 DEF OutputCore

\* The amounts of a table, as functions.
Values(txes) == [k \in DOMAIN txes |-> UnspentAmount(txes[k])]
Brought(txes) == [k \in DOMAIN txes |-> OutAmount(txes[k])]
IssuedKeys(txes) == {k \in DOMAIN txes : IsDeposit(txes[k]) \/ IsCopy(txes, k)}

TxTable(txes) ==
    IsFiniteSet(DOMAIN txes) /\ \A k \in DOMAIN txes : txes[k] \in Tx

LEMMA WorthIsSum ==
    ASSUME NEW t, TxTable(t)
    PROVE  /\ Worth(t) = SumFunctionOnSet(Values(t), DOMAIN t)
           /\ NatOn(Values(t), DOMAIN t)
           /\ Worth(t) \in Nat
<1>1. Worth(t) = SumFunctionOnSet(Values(t), DOMAIN t)
  BY DEF Worth, Values, SumFunction
<1>2. NatOn(Values(t), DOMAIN t)
  BY UnspentIsSum DEF NatOn, Values, TxTable
<1> QED  BY <1>1, <1>2, SumIsNat DEF TxTable

LEMMA IssuedIsSum ==
    ASSUME NEW t, TxTable(t)
    PROVE  /\ Issued(t) = SumFunctionOnSet(Brought(t), IssuedKeys(t))
           /\ NatOn(Brought(t), DOMAIN t)
           /\ Issued(t) \in Nat
           /\ IsFiniteSet(IssuedKeys(t)) /\ IssuedKeys(t) \subseteq DOMAIN t
<1> DEFINE D == IssuedKeys(t)
           f == [k \in D |-> OutAmount(t[k])]
<1>1. Issued(t) = SumFunctionOnSet(f, D)
  BY DEF Issued, IssuedKeys, SumFunction
<1>2. D \subseteq DOMAIN t /\ IsFiniteSet(D)
  BY FS_Subset DEF IssuedKeys, TxTable
<1>3. NatOn(Brought(t), DOMAIN t)
  BY OutAmountIsSum DEF NatOn, Brought, TxTable
<1>4. \A k \in D : f[k] = Brought(t)[k]
  BY <1>2 DEF Brought
<1> HIDE DEF f
<1>5. NatOn(f, D) /\ NatOn(Brought(t), D)
  BY <1>2, <1>3, <1>4 DEF NatOn
<1>6. SumFunctionOnSet(f, D) = SumFunctionOnSet(Brought(t), D)
  BY <1>2, <1>4, <1>5, SumSame
<1>7. SumFunctionOnSet(Brought(t), D) \in Nat
  BY <1>2, <1>5, SumIsNat
<1> QED  BY <1>1, <1>2, <1>3, <1>6, <1>7

\* Table t is table s and the entries of B, which come later.
Enlarged(s, t, B) ==
    /\ TxTable(s)
    /\ IsFiniteSet(B)
    /\ DOMAIN t = DOMAIN s \cup B
    /\ DOMAIN s \cap B = {}
    /\ \A k \in DOMAIN s : t[k] = s[k]
    /\ \A k \in B : t[k] \in Tx
    /\ \A k \in DOMAIN s, l \in B : ~(l[1] < k[1])

LEMMA ExtendedTable ==
    ASSUME NEW s, NEW t, NEW B, Enlarged(s, t, B)
    PROVE  /\ TxTable(t)
           /\ Worth(t) = Worth(s) + SumFunctionOnSet(Values(t), B)
           /\ Issued(t) = Issued(s)
                + SumFunctionOnSet(Brought(t), B \cap IssuedKeys(t))
<1>0. /\ TxTable(s) /\ IsFiniteSet(B)
      /\ DOMAIN t = DOMAIN s \cup B /\ DOMAIN s \cap B = {}
      /\ \A k \in DOMAIN s : t[k] = s[k]
      /\ \A k \in B : t[k] \in Tx
  BY DEF Enlarged
<1>1. TxTable(t)
  BY <1>0, FS_Union DEF TxTable
<1> DEFINE A == DOMAIN s
<1>2. Worth(t) = Worth(s) + SumFunctionOnSet(Values(t), B)
  <2>1. IsFiniteSet(A) /\ NatOn(Values(t), A) /\ NatOn(Values(t), B) /\ NatOn(Values(s), A)
    BY <1>0, <1>1, WorthIsSum DEF NatOn, TxTable
  <2>2. SumFunctionOnSet(Values(t), DOMAIN t)
          = SumFunctionOnSet(Values(t), A) + SumFunctionOnSet(Values(t), B)
    BY <1>0, <2>1, SumUnion
  <2>3. \A k \in A : Values(t)[k] = Values(s)[k]
    BY <1>0 DEF Values
  <2>4. SumFunctionOnSet(Values(t), A) = SumFunctionOnSet(Values(s), A)
    BY <1>0, <2>1, <2>3, SumSame
  <2> QED  BY <1>0, <1>1, <2>2, <2>4, WorthIsSum
<1>3. Issued(t) = Issued(s) + SumFunctionOnSet(Brought(t), B \cap IssuedKeys(t))
  <2> DEFINE D == IssuedKeys(s)
             E == B \cap IssuedKeys(t)
  <2>0. \A k \in DOMAIN s : IsCopy(t, k) <=> IsCopy(s, k)
    BY <1>0 DEF Enlarged, IsCopy
  <2>1. IssuedKeys(t) = D \cup E /\ D \cap E = {}
    BY <1>0, <2>0 DEF IssuedKeys
  <2>2. IsFiniteSet(D) /\ D \subseteq DOMAIN t /\ D \subseteq A
    BY <1>0, IssuedIsSum
  <2>3. IsFiniteSet(E) /\ E \subseteq DOMAIN t
    BY <1>0, FS_Subset
  <2>4. NatOn(Brought(t), D) /\ NatOn(Brought(t), E) /\ NatOn(Brought(s), D)
    BY <1>0, <1>1, <2>2, <2>3, IssuedIsSum DEF NatOn
  <2>5. \A k \in D : Brought(t)[k] = Brought(s)[k]
    BY <1>0, <2>2 DEF Brought
  <2> HIDE DEF D, E
  <2>6. SumFunctionOnSet(Brought(t), D \cup E)
          = SumFunctionOnSet(Brought(t), D) + SumFunctionOnSet(Brought(t), E)
    BY <1>0, <2>1, <2>2, <2>3, <2>4, SumUnion
  <2>7. SumFunctionOnSet(Brought(t), D) = SumFunctionOnSet(Brought(s), D)
    BY <1>0, <2>2, <2>4, <2>5, SumSame
  <2> QED  BY <1>0, <1>1, <2>1, <2>6, <2>7, IssuedIsSum DEF D, E
<1> QED  BY <1>1, <1>2, <1>3

\* Tables of the same transactions but for confirmations and exits.
LEMMA SameAmounts ==
    ASSUME NEW s, TxTable(s), NEW t, TxTable(t), DOMAIN t = DOMAIN s,
           \A k \in DOMAIN s :
             /\ Consumes(t[k]) = Consumes(s[k])
             /\ \A o \in TxElements :
                  /\ t[k].outs[o].amount = s[k].outs[o].amount
                  /\ t[k].outs[o].spent <=> s[k].outs[o].spent
    PROVE  Worth(t) = Worth(s)
<1>1. \A k \in DOMAIN s : Values(t)[k] = Values(s)[k]
  BY UnspentIsSum DEF Values, TxTable
<1> QED  BY <1>1, WorthIsSum, SumSame DEF TxTable

LEMMA SameIssued ==
    ASSUME NEW s, TxTable(s), NEW t, TxTable(t), DOMAIN t = DOMAIN s,
           \A k \in DOMAIN s : MerkleLeaf(t[k]) = MerkleLeaf(s[k])
    PROVE  Issued(t) = Issued(s)
<1>1. IssuedKeys(t) = IssuedKeys(s)
  <2>1. \A k \in DOMAIN s : IsDeposit(t[k]) <=> IsDeposit(s[k])
    BY LeafConsumes DEF IsDeposit, TxTable
  <2>2. \A k \in DOMAIN s : IsCopy(t, k) <=> IsCopy(s, k)
    BY DEF IsCopy
  <2> QED  BY <2>1, <2>2 DEF IssuedKeys
<1>2. \A k \in DOMAIN s : Brought(t)[k] = Brought(s)[k]
  BY LeafAmounts, OutAmountIsSum DEF Brought, TxTable
<1> DEFINE D == IssuedKeys(s)
<1>3. D \subseteq DOMAIN s /\ IsFiniteSet(D)
  BY IssuedIsSum
<1>4. NatOn(Brought(s), D)
  BY <1>3, IssuedIsSum DEF NatOn
<1> HIDE DEF D
<1>5. SumFunctionOnSet(Brought(s), D) = SumFunctionOnSet(Brought(t), D)
  BY <1>2, <1>3, <1>4, SumSame
<1> QED  BY <1>1, <1>5, IssuedIsSum DEF D

LEMMA SumOfFewer ==
    ASSUME NEW f, NEW S, NEW T, T \subseteq S, IsFiniteSet(S), NatOn(f, S)
    PROVE  /\ SumFunctionOnSet(f, T) <= SumFunctionOnSet(f, S)
           /\ SumFunctionOnSet(f, T) \in Nat
<1> DEFINE R == S \ T
<1>1. IsFiniteSet(R) /\ IsFiniteSet(T) /\ NatOn(f, R) /\ NatOn(f, T) /\ T \cap R = {} /\ S = T \cup R
  BY FS_Subset DEF NatOn
<1> HIDE DEF R
<1>2. SumFunctionOnSet(f, S) = SumFunctionOnSet(f, T) + SumFunctionOnSet(f, R)
  BY <1>1, SumUnion
<1>3. SumFunctionOnSet(f, T) \in Nat /\ SumFunctionOnSet(f, R) \in Nat
  BY <1>1, SumIsNat
<1> QED  BY <1>2, <1>3

\* The pending transactions no block has yet, and what they are worth.
UnsealedKeys(v) ==
    {h \in DOMAIN v.mempool :
        \A k \in DOMAIN v.tx : MerkleLeaf(v.tx[k]) # MerkleLeaf(v.mempool[h])}

LEMMA UnsealedIsSum ==
    ASSUME NEW v, TxTable(v.mempool)
    PROVE  /\ Worth(Unsealed(v)) = SumFunctionOnSet(Values(v.mempool), UnsealedKeys(v))
           /\ NatOn(Values(v.mempool), DOMAIN v.mempool)
           /\ Worth(Unsealed(v)) \in Nat
           /\ IsFiniteSet(UnsealedKeys(v)) /\ UnsealedKeys(v) \subseteq DOMAIN v.mempool
<1> DEFINE F == UnsealedKeys(v)
           f == [h \in F |-> UnspentAmount(Unsealed(v)[h])]
<1>1. F \subseteq DOMAIN v.mempool /\ IsFiniteSet(F)
  BY FS_Subset DEF UnsealedKeys, TxTable
<1>2. DOMAIN Unsealed(v) = F /\ \A h \in F : Unsealed(v)[h] = v.mempool[h]
  BY DEF Unsealed, UnsealedKeys
<1>3. Worth(Unsealed(v)) = SumFunctionOnSet(f, F)
  BY <1>2 DEF Worth, SumFunction
<1>4. \A h \in F : f[h] = Values(v.mempool)[h]
  BY <1>1, <1>2 DEF Values
<1> HIDE DEF f
<1>5. NatOn(Values(v.mempool), DOMAIN v.mempool)
  BY UnspentIsSum DEF NatOn, Values, TxTable
<1>6. NatOn(f, F) /\ NatOn(Values(v.mempool), F)
  BY <1>1, <1>4, <1>5 DEF NatOn
<1>7. SumFunctionOnSet(f, F) = SumFunctionOnSet(Values(v.mempool), F)
  BY <1>1, <1>4, <1>6, SumSame
<1> QED  BY <1>1, <1>3, <1>5, <1>6, <1>7, SumIsNat DEF F

-----------------------------------------------------------------------------
(* Value is conserved, as long as no transaction names an output twice.    *)

NamesOnce(tx) ==
    \A i, j \in TxElements :
        ~IsNull(tx.ins[i]) /\ tx.ins[i].core = tx.ins[j].core => i = j

Valued(v) ==
    /\ IsFiniteSet(DOMAIN v.tx)
    /\ \A h \in DOMAIN v.mempool : ~IsDeposit(v.mempool[h])
    /\ Worth(v.tx) + Worth(Unsealed(v)) <= Issued(v.tx)

LEMMA StoreTables ==
    ASSUME NEW v, Inv(v), Valued(v)
    PROVE  TxTable(v.tx) /\ TxTable(v.mempool)
  BY DEF TxTable, Inv, StoreType, MempoolKeyed, Valued

LEMMA BlockRecords ==
    ASSUME NEW v, Inv(v), NEW u, StoreType(u), u.tx = v.tx, u.cur = v.cur,
           NEW txes, AddableTo(v, txes)
    PROVE  LET w == incrementCurrentBlockNumber(addBlock(u, v.cur, txes))
               B == {v.cur} \X (DOMAIN txes)
           IN  /\ w.mempool = u.mempool
               /\ DOMAIN w.tx = DOMAIN v.tx \cup B
               /\ DOMAIN v.tx \cap B = {}
               /\ \A k \in DOMAIN v.tx, l \in B : ~(l[1] < k[1])
               /\ \A k \in DOMAIN v.tx, l \in B : k[1] < l[1]
               /\ \A k \in DOMAIN v.tx : w.tx[k] = v.tx[k]
               /\ \A k \in B : k[2] \in DOMAIN txes /\ w.tx[k] = txes[k[2]]
<1> DEFINE w == incrementCurrentBlockNumber(addBlock(u, u.cur, txes))
           B == {v.cur} \X (DOMAIN txes)
<1>1. KeysBelowCurrent(u) /\ AddableTo(u, txes)
  BY DEF Inv, KeysBelowCurrent, AddableTo, HasTxOut
<1>2. /\ w.mempool = u.mempool
      /\ DOMAIN w.tx = DOMAIN u.tx \cup ({u.cur} \X (DOMAIN txes))
      /\ \A k \in DOMAIN u.tx : w.tx[k] = u.tx[k]
      /\ \A i \in DOMAIN txes : w.tx[<<u.cur, i>>] = txes[i]
  <2> HIDE DEF w
  <2> QED  BY <1>1, AddBlockEffect DEF w
<1>3. w = incrementCurrentBlockNumber(addBlock(u, v.cur, txes))
  OBVIOUS
<1> HIDE DEF w
<1>4. \A k \in B : k[2] \in DOMAIN txes /\ w.tx[k] = txes[k[2]]
  BY <1>2
<1>5. DOMAIN v.tx \cap B = {}
  BY DEF Inv, StoreType, KeysBelowCurrent
<1>6. \A k \in DOMAIN v.tx, l \in B : ~(l[1] < k[1]) /\ k[1] < l[1]
  <2> SUFFICES ASSUME NEW k \in DOMAIN v.tx, NEW l \in B
               PROVE  ~(l[1] < k[1]) /\ k[1] < l[1]
    OBVIOUS
  <2>1. l[1] = v.cur
    OBVIOUS
  <2>2. k[1] \in Nat /\ v.cur \in Nat /\ k[1] < v.cur
    BY DEF Inv, StoreType, KeysBelowCurrent
  <2> HIDE DEF B
  <2> QED  BY <2>1, <2>2
<1> QED  BY <1>2, <1>3, <1>4, <1>5, <1>6

\* A step that keeps the records seals no more than it adds to the mempool.
LEMMA UnsealedShrinks ==
    ASSUME NEW v, NEW w, DOMAIN v.tx \subseteq DOMAIN w.tx,
           \A k \in DOMAIN v.tx : MerkleLeaf(w.tx[k]) = MerkleLeaf(v.tx[k])
    PROVE  \A h \in UnsealedKeys(w) :
             h \in DOMAIN v.mempool /\ w.mempool[h] = v.mempool[h] => h \in UnsealedKeys(v)
  BY DEF UnsealedKeys

LEMMA UnspentBelowOut ==
    ASSUME NEW tx \in Tx
    PROVE  UnspentAmount(tx) <= OutAmount(tx)
<1>1. \A o \in TxElements : tx.outs[o].amount \in Nat
  BY DEF Tx, TxOut
<1>2. 0 \in TxElements /\ 1 \in TxElements
  OBVIOUS
<1> QED  BY <1>1, <1>2, UnspentIsSum, OutAmountIsSum

LEMMA DepositValued ==
    ASSUME NEW v, Inv(v), Valued(v), NEW w, DepositEffect(v, w)
    PROVE  Valued(w)
<1>1. PICK owner \in Address, amount \in DepositAmounts :
        w = AddDepositBlock(v, owner, amount).db
  BY DEF DepositEffect
<1> DEFINE tx == DepositTx(owner, amount)
           txes == [i \in {0} |-> tx]
           key == <<v.cur, 0>>
<1>2. tx \in Tx /\ Consumes(tx) = {}
  BY DepositTxEffect, ChildChainAssumption
<1>3. w = incrementCurrentBlockNumber(addBlock(v, v.cur, txes))
  BY <1>1 DEF AddDepositBlock, Done
<1> HIDE DEF tx
<1>4. DOMAIN txes = {0} /\ txes[0] = tx
  OBVIOUS
<1> HIDE DEF txes
<1>5. AddableTo(v, txes) /\ StoreType(v)
  BY <1>2, <1>4 DEF AddableTo, Inv
<1>6. /\ w.mempool = v.mempool
      /\ DOMAIN w.tx = DOMAIN v.tx \cup {key}
      /\ DOMAIN v.tx \cap {key} = {}
      /\ \A k \in DOMAIN v.tx, l \in {key} : ~(l[1] < k[1])
      /\ \A k \in DOMAIN v.tx : w.tx[k] = v.tx[k]
      /\ w.tx[key] = tx
  <2>1. {v.cur} \X (DOMAIN txes) = {key}
    BY <1>4
  <2> QED  BY <1>3, <1>4, <1>5, <2>1, BlockRecords
<1> HIDE DEF key
<1>7. IsFiniteSet({key}) /\ \A k \in {key} : w.tx[k] \in Tx
  BY <1>2, <1>6, FS_Singleton
<1>8. /\ TxTable(w.tx)
      /\ Worth(w.tx) = Worth(v.tx) + SumFunctionOnSet(Values(w.tx), {key})
      /\ Issued(w.tx) = Issued(v.tx)
           + SumFunctionOnSet(Brought(w.tx), {key} \cap IssuedKeys(w.tx))
  <2>1. Enlarged(v.tx, w.tx, {key})
    BY <1>6, <1>7, StoreTables DEF Enlarged
  <2> QED  BY <2>1, ExtendedTable
<1>9. {key} \cap IssuedKeys(w.tx) = {key}
  BY <1>2, <1>6 DEF IssuedKeys, IsDeposit
<1>10. /\ Values(w.tx)[key] = UnspentAmount(tx)
       /\ Brought(w.tx)[key] = OutAmount(tx)
       /\ UnspentAmount(tx) <= OutAmount(tx)
       /\ UnspentAmount(tx) \in Nat /\ OutAmount(tx) \in Nat
  BY <1>2, <1>6, UnspentIsSum, OutAmountIsSum, UnspentBelowOut DEF Values, Brought
<1>11. /\ SumFunctionOnSet(Values(w.tx), {key}) = UnspentAmount(tx)
       /\ SumFunctionOnSet(Brought(w.tx), {key}) = OutAmount(tx)
  BY <1>10, SumOfOne
<1>12. Worth(Unsealed(w)) <= Worth(Unsealed(v)) /\ Worth(Unsealed(w)) \in Nat
  <2>1. UnsealedKeys(w) \subseteq UnsealedKeys(v)
    <3>1. DOMAIN v.tx \subseteq DOMAIN w.tx
          /\ \A k \in DOMAIN v.tx : MerkleLeaf(w.tx[k]) = MerkleLeaf(v.tx[k])
      BY <1>6
    <3> QED  BY <1>6, <3>1, UnsealedShrinks DEF UnsealedKeys
  <2>2. TxTable(v.mempool) /\ TxTable(w.mempool)
    BY <1>6, StoreTables
  <2>3. IsFiniteSet(UnsealedKeys(v)) /\ NatOn(Values(v.mempool), UnsealedKeys(v))
    BY <2>2, UnsealedIsSum DEF NatOn
  <2> QED  BY <1>6, <2>1, <2>2, <2>3, UnsealedIsSum, SumOfFewer
<1>13. Worth(w.tx) + Worth(Unsealed(w)) <= Issued(w.tx)
  <2>1. Worth(w.tx) = Worth(v.tx) + UnspentAmount(tx)
    BY <1>8, <1>11
  <2>2. Issued(w.tx) = Issued(v.tx) + OutAmount(tx)
    BY <1>8, <1>9, <1>11
  <2>3. Worth(v.tx) \in Nat /\ Worth(Unsealed(v)) \in Nat /\ Issued(v.tx) \in Nat
    BY StoreTables, WorthIsSum, UnsealedIsSum, IssuedIsSum
  <2>4. Worth(v.tx) + Worth(Unsealed(v)) <= Issued(v.tx)
    BY DEF Valued
  <2>5. UnspentAmount(tx) \in Nat /\ OutAmount(tx) \in Nat /\ UnspentAmount(tx) <= OutAmount(tx)
    BY <1>10
  <2> QED  BY <1>12, <2>1, <2>2, <2>3, <2>4, <2>5
<1> QED  BY <1>6, <1>8, <1>13 DEF Valued, TxTable

\* A block of part of the mempool: what it has of transactions that no block had
\* it takes from what was pending, and the rest of it are copies.
LEMMA SealValued ==
    ASSUME NEW v, Inv(v), Valued(v), NEW w, SealEffect(v, w)
    PROVE  Valued(w)
<1>0. PICK batch \in SUBSET DOMAIN v.mempool :
        \E gone \in SUBSET batch :
        \E order \in Bijection(0 .. Cardinality(batch) - 1, batch) :
             w = Sealed(v, batch, gone, order)
  BY DEF SealEffect
<1>g. PICK gone \in SUBSET batch :
        \E order \in Bijection(0 .. Cardinality(batch) - 1, batch) :
             w = Sealed(v, batch, gone, order)
  BY <1>0
<1>1. PICK order \in Bijection(0 .. Cardinality(batch) - 1, batch) :
        w = Sealed(v, batch, gone, order)
  BY <1>g
<1> DEFINE txes == [i \in DOMAIN order |-> v.mempool[order[i]]]
           u == [v EXCEPT !.mempool = Without(@, gone)]
           B == {v.cur} \X (DOMAIN txes)
           move(k) == order[k[2]]
<1>2. /\ \A i \in DOMAIN order : order[i] \in batch
      /\ \A i, j \in DOMAIN order : order[i] = order[j] => i = j
  BY DEF Bijection, Injection, Surjection, IsInjective
<1>3. /\ DOMAIN txes = DOMAIN order
      /\ \A i \in DOMAIN order : txes[i] = v.mempool[order[i]]
  OBVIOUS
<1>4. DOMAIN txes = 0 .. Cardinality(batch) - 1 /\ AddableTo(v, txes)
  BY BatchInOrder
<1>5. w = incrementCurrentBlockNumber(addBlock(u, v.cur, txes))
  BY <1>1 DEF Sealed
<1>6. LosesPending(v, u) /\ StoreType(u)
  BY WithoutLoses
<1> HIDE DEF txes, u
<1>7. /\ w.mempool = u.mempool
      /\ DOMAIN w.tx = DOMAIN v.tx \cup B
      /\ DOMAIN v.tx \cap B = {}
      /\ \A k \in DOMAIN v.tx, l \in B : ~(l[1] < k[1])
      /\ \A k \in DOMAIN v.tx, l \in B : k[1] < l[1]
      /\ \A k \in DOMAIN v.tx : w.tx[k] = v.tx[k]
      /\ \A k \in B : k[2] \in DOMAIN txes /\ w.tx[k] = txes[k[2]]
  <2>1. u.tx = v.tx /\ u.cur = v.cur
    BY <1>6 DEF LosesPending
  <2>2. AddableTo(v, txes) /\ StoreType(u)
    BY <1>4, <1>6
  <2> DEFINE new == incrementCurrentBlockNumber(addBlock(u, v.cur, txes))
  <2>3. /\ new.mempool = u.mempool
        /\ DOMAIN new.tx = DOMAIN v.tx \cup B
        /\ DOMAIN v.tx \cap B = {}
        /\ \A k \in DOMAIN v.tx, l \in B : ~(l[1] < k[1])
        /\ \A k \in DOMAIN v.tx, l \in B : k[1] < l[1]
        /\ \A k \in DOMAIN v.tx : new.tx[k] = v.tx[k]
        /\ \A k \in B : k[2] \in DOMAIN txes /\ new.tx[k] = txes[k[2]]
    BY <2>1, <2>2, BlockRecords
  <2> HIDE DEF new
  <2>4. w = new
    BY <1>5 DEF new
  <2> QED  BY <2>3, <2>4
<1>8. \A k \in B : /\ move(k) \in DOMAIN v.mempool
                   /\ w.tx[k] = v.mempool[move(k)]
  BY <1>2, <1>3, <1>7
<1>9. \A k, l \in B : move(k) = move(l) => k = l
  <2>1. \A k \in B : k = <<v.cur, k[2]>> /\ k[2] \in DOMAIN order
    BY <1>3
  <2> QED  BY <1>2, <2>1
<1>10. IsFiniteSet(B)
  <2>1. IsFiniteSet({v.cur}) /\ IsFiniteSet(DOMAIN txes)
    <3> DEFINE n == Cardinality(batch)
    <3>1. n \in Nat
      BY FS_Subset, FS_CardinalityType DEF Inv, MempoolKeyed
    <3> HIDE DEF n
    <3>2. IsFiniteSet(0 .. n - 1)
      BY <3>1, FS_Interval
    <3> QED  BY <1>4, <3>2, FS_Singleton DEF n
  <2> QED  BY <2>1, FS_Product
<1> HIDE DEF B, move
<1>11. TxTable(v.tx) /\ TxTable(v.mempool)
  BY StoreTables
<1>12. \A k \in B : w.tx[k] \in Tx /\ ~IsDeposit(w.tx[k])
  BY <1>8, <1>11 DEF Valued, TxTable
<1>13. \A h \in DOMAIN w.mempool : h \in DOMAIN v.mempool /\ w.mempool[h] = v.mempool[h]
  BY <1>6, <1>7 DEF LosesPending
<1>14. TxTable(w.mempool)
  <2>1. DOMAIN w.mempool \subseteq DOMAIN v.mempool
    BY <1>13
  <2> QED  BY <1>11, <1>13, <2>1, FS_Subset DEF TxTable
\* The copies of the block, and the rest of it.
<1> DEFINE E == B \cap IssuedKeys(w.tx)
           N == B \ E
           M == {move(k) : k \in N}
           value == Values(w.tx)
<1>15. /\ TxTable(w.tx)
       /\ Worth(w.tx) = Worth(v.tx) + SumFunctionOnSet(value, B)
       /\ Issued(w.tx) = Issued(v.tx) + SumFunctionOnSet(Brought(w.tx), E)
  <2>1. Enlarged(v.tx, w.tx, B)
    BY <1>7, <1>10, <1>11, <1>12 DEF Enlarged
  <2> QED  BY <2>1, ExtendedTable
<1>16. /\ IsFiniteSet(E) /\ IsFiniteSet(N) /\ E \cap N = {} /\ B = E \cup N
       /\ NatOn(value, E) /\ NatOn(value, N) /\ NatOn(Brought(w.tx), E)
  <2>1. IsFiniteSet(E) /\ IsFiniteSet(N)
    BY <1>10, FS_Subset
  <2>2. NatOn(value, DOMAIN w.tx) /\ NatOn(Brought(w.tx), DOMAIN w.tx)
    BY <1>15, WorthIsSum, IssuedIsSum
  <2>3. E \subseteq DOMAIN w.tx /\ N \subseteq DOMAIN w.tx
    BY <1>7
  <2> HIDE DEF value
  <2> QED  BY <2>1, <2>2, <2>3 DEF NatOn
<1>17. SumFunctionOnSet(value, B) = SumFunctionOnSet(value, E) + SumFunctionOnSet(value, N)
  <2> HIDE DEF E, N, value
  <2> QED  BY <1>16, SumUnion
<1>18. SumFunctionOnSet(value, E) <= SumFunctionOnSet(Brought(w.tx), E)
  <2>1. \A k \in E : value[k] <= Brought(w.tx)[k]
    BY <1>7, <1>12, UnspentBelowOut DEF Values, Brought
  <2> HIDE DEF E, value
  <2> QED  BY <1>16, <2>1, SumUpTo
<1>19. \A k \in N : move(k) \in UnsealedKeys(v) /\ move(k) \notin UnsealedKeys(w)
  <2> SUFFICES ASSUME NEW k \in N
               PROVE  move(k) \in UnsealedKeys(v) /\ move(k) \notin UnsealedKeys(w)
    OBVIOUS
  <2>1. k \in B /\ k \in DOMAIN w.tx /\ ~IsCopy(w.tx, k)
    BY <1>7 DEF IssuedKeys
  <2>2. \A l \in DOMAIN v.tx : MerkleLeaf(v.tx[l]) # MerkleLeaf(w.tx[k])
    BY <1>7, <2>1 DEF IsCopy
  <2>3. move(k) \in UnsealedKeys(v)
    BY <1>8, <2>1, <2>2 DEF UnsealedKeys
  <2>4. move(k) \in DOMAIN w.mempool => w.mempool[move(k)] = w.tx[k]
    BY <1>8, <1>13, <2>1
  <2>5. move(k) \notin UnsealedKeys(w)
    BY <2>1, <2>4 DEF UnsealedKeys
  <2> QED  BY <2>3, <2>5
<1>20. SumFunctionOnSet(value, N) = SumFunctionOnSet(Values(v.mempool), M)
  <2> DEFINE b == [k \in N |-> move(k)]
  <2>1. b \in Bijection(N, M)
    <3>1. \A k, l \in N : b[k] = b[l] => k = l
      BY <1>9
    <3> QED  BY <3>1 DEF Bijection, Injection, Surjection, IsInjective
  <2>2. \A k \in N : Values(v.mempool)[b[k]] = value[k]
    BY <1>7, <1>8 DEF Values
  <2> HIDE DEF b, N, M, value
  <2> QED  BY <1>16, <2>1, <2>2, SumMoved
<1>21. /\ UnsealedKeys(w) \subseteq UnsealedKeys(v)
       /\ M \subseteq UnsealedKeys(v)
       /\ M \cap UnsealedKeys(w) = {}
  <2>1. DOMAIN v.tx \subseteq DOMAIN w.tx
        /\ \A k \in DOMAIN v.tx : MerkleLeaf(w.tx[k]) = MerkleLeaf(v.tx[k])
    BY <1>7
  <2>2. \A h \in UnsealedKeys(w) : h \in DOMAIN w.mempool
    BY DEF UnsealedKeys
  <2>3. UnsealedKeys(w) \subseteq UnsealedKeys(v)
    BY <1>13, <2>1, <2>2, UnsealedShrinks
  <2> HIDE DEF N
  <2> QED  BY <1>19, <2>3
<1>22. SumFunctionOnSet(Values(v.mempool), M) + Worth(Unsealed(w)) <= Worth(Unsealed(v))
  <2> DEFINE f == Values(v.mempool)
             F == UnsealedKeys(v)
             G == UnsealedKeys(w)
  <2>1. IsFiniteSet(F) /\ NatOn(f, F) /\ Worth(Unsealed(v)) = SumFunctionOnSet(f, F)
    BY <1>11, UnsealedIsSum DEF NatOn
  <2>2. /\ IsFiniteSet(G) /\ NatOn(Values(w.mempool), G)
        /\ G \subseteq DOMAIN w.mempool
        /\ Worth(Unsealed(w)) = SumFunctionOnSet(Values(w.mempool), G)
    BY <1>14, UnsealedIsSum DEF NatOn
  <2>3. \A h \in G : Values(w.mempool)[h] = f[h]
    BY <1>13, <2>2 DEF Values
  <2>4. G \subseteq F /\ M \subseteq F /\ M \cap G = {}
    BY <1>21
  <2> HIDE DEF f, F, G, M
  <2>5. SumFunctionOnSet(Values(w.mempool), G) = SumFunctionOnSet(f, G)
    BY <2>2, <2>3, SumSame
  <2>6. IsFiniteSet(M) /\ NatOn(f, M) /\ NatOn(f, G)
    BY <2>1, <2>4, FS_Subset DEF NatOn
  <2>7. SumFunctionOnSet(f, M \cup G) = SumFunctionOnSet(f, M) + SumFunctionOnSet(f, G)
    BY <2>2, <2>4, <2>6, SumUnion
  <2>8. SumFunctionOnSet(f, M \cup G) <= SumFunctionOnSet(f, F)
    <3>1. M \cup G \subseteq F
      BY <2>4
    <3> QED  BY <2>1, <3>1, SumOfFewer
  <2>9. SumFunctionOnSet(f, M) + Worth(Unsealed(w)) <= Worth(Unsealed(v))
    BY <2>1, <2>2, <2>5, <2>7, <2>8
  <2> QED  BY <2>9 DEF f
<1>23. Worth(w.tx) + Worth(Unsealed(w)) <= Issued(w.tx)
  <2>1. /\ Worth(v.tx) \in Nat /\ Worth(Unsealed(v)) \in Nat /\ Issued(v.tx) \in Nat
        /\ Worth(Unsealed(w)) \in Nat
    BY <1>11, <1>14, WorthIsSum, IssuedIsSum, UnsealedIsSum
  <2>2. /\ SumFunctionOnSet(value, E) \in Nat /\ SumFunctionOnSet(value, N) \in Nat
        /\ SumFunctionOnSet(Brought(w.tx), E) \in Nat
    <3> HIDE DEF E, N, value
    <3> QED  BY <1>16, SumIsNat
  <2>3. Worth(v.tx) + Worth(Unsealed(v)) <= Issued(v.tx)
    BY DEF Valued
  <2> HIDE DEF E, N, M, value
  <2> QED  BY <1>15, <1>17, <1>18, <1>20, <1>22, <2>1, <2>2, <2>3
<1>24. \A h \in DOMAIN w.mempool : ~IsDeposit(w.mempool[h])
  BY <1>13 DEF Valued
<1> QED  BY <1>15, <1>23, <1>24 DEF Valued, TxTable

\* f is g but for x, where it has n more.
HasMore(f, g, S, x, n) ==
    /\ IsFiniteSet(S) /\ NatOn(f, S) /\ NatOn(g, S)
    /\ n \in Nat
    /\ n = 0 \/ x \in S
    /\ \A y \in S : f[y] = g[y] + (IF y = x THEN n ELSE 0)

LEMMA SumOfShares ==
    ASSUME NEW f, NEW g, NEW S, NEW x, NEW n, HasMore(f, g, S, x, n)
    PROVE  SumFunctionOnSet(f, S) = SumFunctionOnSet(g, S) + n
<1> USE DEF HasMore
<1>1. CASE x \in S
  BY <1>1, SumWithLess DEF NatOn
<1>2. CASE x \notin S
  <2>1. \A y \in S : f[y] = g[y]
    BY <1>2 DEF NatOn
  <2> QED  BY <1>2, <2>1, SumSame, SumIsNat
<1> QED  BY <1>1, <1>2

\* What input i of a transaction takes out of the record of key k.
Share(v, tx, k, i) ==
    IF k = TxKey(tx.ins[i].core) THEN InputAmount(v, tx, i) ELSE 0

LEMMA ValidAmounts ==
    ASSUME NEW v, Inv(v), NEW tx \in Tx, ValidateTx(v, tx) = OK
    PROVE  \A i \in TxElements :
             /\ InputAmount(v, tx, i) \in Nat
             /\ InputAmount(v, tx, i) = 0 \/ TxKey(tx.ins[i].core) \in DOMAIN v.tx
<1> SUFFICES ASSUME NEW i \in TxElements, ~IsNull(tx.ins[i])
             PROVE  /\ getTxOut(v, tx.ins[i].core).amount \in Nat
                    /\ TxKey(tx.ins[i].core) \in DOMAIN v.tx
  BY DEF InputAmount
<1>1. HasTxOut(v, tx.ins[i].core)
  BY ValidInput
<1>2. tx.ins[i].core \in Nat \X Nat \X Nat
  BY DEF Tx, TxIn, TxInCore
<1>3. getTxOut(v, tx.ins[i].core) \in TxOut
  BY <1>1, <1>2, OutputType DEF Inv
<1> QED  BY <1>1, <1>3 DEF HasTxOut, TxOut

\* A transaction that names no output twice takes from each record what it
\* names of it.
LEMMA RecordGivesShares ==
    ASSUME NEW v, Inv(v), NEW tx \in Tx, ValidateTx(v, tx) = OK, NamesOnce(tx),
           NEW k \in DOMAIN v.tx
    PROVE  UnspentAmount(v.tx[k]) = UnspentAmount(SpendInputs(v, tx)[k])
                                      + Share(v, tx, k, 0) + Share(v, tx, k, 1)
<1> DEFINE old == v.tx[k]
           new == SpendInputs(v, tx)[k]
           Names(i, o) == ~IsNull(tx.ins[i]) /\ tx.ins[i].core = <<k[1], k[2], o>>
           Loss(i, o) == IF Names(i, o) THEN old.outs[o].amount ELSE 0
           Left(t, o) == IF t.outs[o].spent THEN 0 ELSE t.outs[o].amount
<1>1. /\ old \in Tx /\ new \in Tx
      /\ k = <<k[1], k[2]>> /\ k[1] \in Nat /\ k[2] \in Nat
      /\ \A o \in TxElements :
           /\ old.outs[o].amount \in Nat
           /\ new.outs[o].amount = old.outs[o].amount
           /\ new.outs[o].spent
                <=> old.outs[o].spent \/ <<k[1], k[2], o>> \in Consumes(tx)
  <2>1. StoreType(v)
    BY DEF Inv
  <2>2. /\ new \in Tx
        /\ \A o \in TxElements :
             /\ SameButSpent(old.outs[o], new.outs[o])
             /\ new.outs[o].spent
                  <=> old.outs[o].spent \/ <<k[1], k[2], o>> \in Consumes(tx)
    BY <2>1, SpendInputsEffect
  <2>3. old \in Tx /\ k = <<k[1], k[2]>> /\ k[1] \in Nat /\ k[2] \in Nat
    BY <2>1 DEF StoreType
  <2> HIDE DEF old, new
  <2>4. \A o \in TxElements : old.outs[o].amount \in Nat
    BY <2>3 DEF Tx, TxOut
  <2> QED  BY <2>2, <2>3, <2>4 DEF SameButSpent
<1>2. \A o \in TxElements :
        <<k[1], k[2], o>> \in Consumes(tx) <=> Names(0, o) \/ Names(1, o)
  <2>1. \A o \in TxElements : <<k[1], k[2], o>> \in Consumes(tx)
           => \E i \in TxElements : Names(i, o)
    BY ConsumesType
  <2>2. \A o \in TxElements : \A i \in TxElements :
           Names(i, o) => <<k[1], k[2], o>> \in Consumes(tx)
    BY NamedConsumed
  <2> HIDE DEF Names
  <2>3. \A i \in TxElements : i = 0 \/ i = 1
    OBVIOUS
  <2> QED  BY <2>1, <2>2, <2>3
<1>3. \A o \in TxElements, i \in TxElements : Names(i, o) => ~old.outs[o].spent
  <2> SUFFICES ASSUME NEW o \in TxElements, NEW i \in TxElements, Names(i, o)
               PROVE  ~old.outs[o].spent
    OBVIOUS
  <2>1. ~getTxOut(v, <<k[1], k[2], o>>).spent
    BY ValidInput
  <2> QED  BY <1>1, <2>1 DEF getTxOut, TxKey
<1>4. \A o \in TxElements : ~(Names(0, o) /\ Names(1, o))
  BY DEF NamesOnce
\* Output by output.
<1>5. \A o \in TxElements : Left(old, o) = Left(new, o) + Loss(0, o) + Loss(1, o)
  <2> HIDE DEF Names, old, new
  <2> QED  BY <1>1, <1>2, <1>3, <1>4
<1>6. \A i \in TxElements : Share(v, tx, k, i) = Loss(i, 0) + Loss(i, 1)
  <2> SUFFICES ASSUME NEW i \in TxElements
               PROVE  Share(v, tx, k, i) = Loss(i, 0) + Loss(i, 1)
    OBVIOUS
  <2> DEFINE c == tx.ins[i].core
  <2>1. c \in Nat \X Nat \X Nat
    BY DEF Tx, TxIn, TxInCore
  <2>2. CASE IsNull(tx.ins[i])
    BY <1>1, <2>2 DEF Share, InputAmount
  <2>3. CASE ~IsNull(tx.ins[i])
    <3>1. c[3] \in TxElements
      BY <2>1, <2>3, ValidInput, OutputType DEF Inv
    <3>2. Share(v, tx, k, i) = IF k = TxKey(c) THEN old.outs[c[3]].amount ELSE 0
      BY <2>3 DEF Share, InputAmount, getTxOut
    <3>3. \A o \in TxElements : Names(i, o) <=> k = TxKey(c) /\ o = c[3]
      BY <1>1, <2>1, <2>3 DEF TxKey
    <3>4. c[3] = 0 \/ c[3] = 1
      BY <3>1
    <3> HIDE DEF Names, c, old
    <3>5. old.outs[0].amount \in Nat /\ old.outs[1].amount \in Nat
      BY <1>1
    <3> QED  BY <3>2, <3>3, <3>4, <3>5
  <2> QED  BY <2>2, <2>3
<1>7. /\ UnspentAmount(old) = Left(old, 0) + Left(old, 1)
      /\ UnspentAmount(new) = Left(new, 0) + Left(new, 1)
  BY <1>1, UnspentIsSum
<1>8. \A o \in TxElements : Left(new, o) \in Nat /\ Loss(0, o) \in Nat /\ Loss(1, o) \in Nat
  <2> HIDE DEF Names, old, new
  <2> QED  BY <1>1
<1> HIDE DEF Left, Loss, old, new
<1> QED
  <2>1. 0 \in TxElements /\ 1 \in TxElements
    OBVIOUS
  <2>2. UnspentAmount(old) = UnspentAmount(new) + Share(v, tx, k, 0) + Share(v, tx, k, 1)
    BY <1>5, <1>6, <1>7, <1>8, <2>1
  <2> QED  BY <2>2 DEF old, new

\* Accepting moves no more value into the mempool than it takes from records.
LEMMA AcceptValued ==
    ASSUME NEW v, Inv(v), Valued(v), NEW tx \in Tx, ValidateTx(v, tx) = OK,
           NamesOnce(tx)
    PROVE  Valued(Accepted(v, tx))
<1> DEFINE w == Accepted(v, tx)
           H == TxHash(tx)
<1>1. tx \in Tx
  OBVIOUS
<1>2. w.tx = SpendInputs(v, tx)
  BY DEF Accepted, Inv, StoreType
<1>3. Inv(w)
  BY AcceptedPreservesInv
<1>8. /\ DOMAIN w.mempool = DOMAIN v.mempool \cup {H}
      /\ w.mempool[H] = tx
      /\ \A h \in DOMAIN v.mempool : w.mempool[h] = v.mempool[h]
      /\ H \notin DOMAIN v.mempool
  BY NotPending
<1> HIDE DEF w, H
<1>4. /\ DOMAIN w.tx = DOMAIN v.tx
      /\ \A k \in DOMAIN v.tx :
           /\ w.tx[k] \in Tx
           /\ MerkleLeaf(w.tx[k]) = MerkleLeaf(v.tx[k])
  <2>1. StoreType(v)
    BY DEF Inv
  <2> DEFINE t == SpendInputs(v, tx)
  <2>2. DOMAIN t = DOMAIN v.tx
    BY DEF SpendInputs
  <2>3. \A k \in DOMAIN v.tx : t[k] \in Tx /\ MerkleLeaf(t[k]) = MerkleLeaf(v.tx[k])
    BY <2>1, SpendInputsEffect
  <2>4. w.tx = t
    BY <1>2
  <2> HIDE DEF t
  <2> QED  BY <2>2, <2>3, <2>4
<1>5. TxTable(v.tx) /\ TxTable(v.mempool) /\ TxTable(w.tx)
  BY <1>4, StoreTables DEF TxTable
\* The records.
<1>6. Worth(v.tx) = Worth(w.tx) + InputAmount(v, tx, 0) + InputAmount(v, tx, 1)
  <2> DEFINE S == DOMAIN v.tx
             f == Values(v.tx)
             g == Values(w.tx)
             m == [k \in S |-> g[k] + Share(v, tx, k, 1)]
             x(i) == TxKey(tx.ins[i].core)
             n(i) == InputAmount(v, tx, i)
  <2>1. \A i \in TxElements : n(i) \in Nat /\ (n(i) = 0 \/ x(i) \in S)
    BY <1>1, ValidAmounts
  <2>2. NatOn(f, S) /\ NatOn(g, S) /\ IsFiniteSet(S)
    BY <1>4, <1>5, WorthIsSum DEF TxTable
  <2>3. \A k \in S : m[k] = g[k] + (IF k = x(1) THEN n(1) ELSE 0)
    BY DEF Share
  <2>4. \A k \in S : f[k] = g[k] + Share(v, tx, k, 0) + Share(v, tx, k, 1)
    BY <1>1, <1>2, <1>4, RecordGivesShares DEF Values
  <2>5. \A k \in S : Share(v, tx, k, 0) = IF k = x(0) THEN n(0) ELSE 0
    BY DEF Share
  <2>6. \A k \in S : Share(v, tx, k, 1) = IF k = x(1) THEN n(1) ELSE 0
    BY DEF Share
  <2>7. n(0) \in Nat /\ n(1) \in Nat /\ (n(0) = 0 \/ x(0) \in S) /\ (n(1) = 0 \/ x(1) \in S)
    BY <2>1
  <2>8. Worth(v.tx) = SumFunctionOnSet(f, S) /\ Worth(w.tx) = SumFunctionOnSet(g, S)
    BY <1>4, <1>5, WorthIsSum
  <2> HIDE DEF m, f, g, x, n, S
  <2>9. NatOn(m, S)
    BY <2>2, <2>3, <2>7 DEF NatOn
  <2>10. \A k \in S : f[k] = m[k] + (IF k = x(0) THEN n(0) ELSE 0)
    <3> SUFFICES ASSUME NEW k \in S
                 PROVE  f[k] = m[k] + (IF k = x(0) THEN n(0) ELSE 0)
      OBVIOUS
    <3>1. g[k] \in Nat
      BY <2>2 DEF NatOn
    <3> QED  BY <2>3, <2>4, <2>5, <2>6, <2>7, <3>1
  <2>11. SumFunctionOnSet(m, S) = SumFunctionOnSet(g, S) + n(1)
    <3>1. HasMore(m, g, S, x(1), n(1))
      BY <2>2, <2>3, <2>7, <2>9 DEF HasMore
    <3> QED  BY <3>1, SumOfShares
  <2>12. SumFunctionOnSet(f, S) = SumFunctionOnSet(m, S) + n(0)
    <3>1. HasMore(f, m, S, x(0), n(0))
      BY <2>2, <2>7, <2>9, <2>10 DEF HasMore
    <3> QED  BY <3>1, SumOfShares
  <2>13. SumFunctionOnSet(g, S) \in Nat
    BY <2>2, SumIsNat
  <2>14. Worth(v.tx) = Worth(w.tx) + n(0) + n(1)
    BY <2>7, <2>8, <2>11, <2>12, <2>13
  <2> QED  BY <2>14 DEF n
\* The mempool.
<1>7. TxTable(w.mempool)
  <2>2. IsFiniteSet(DOMAIN w.mempool)
    BY <1>3 DEF Inv, MempoolKeyed
  <2>3. \A h \in DOMAIN v.mempool : v.mempool[h] \in Tx
    BY <1>5 DEF TxTable
  <2>4. \A h \in DOMAIN w.mempool : w.mempool[h] \in Tx
    BY <1>1, <1>8, <2>3
  <2> QED  BY <2>2, <2>4 DEF TxTable
<1>9. Worth(Unsealed(w)) <= Worth(Unsealed(v)) + OutAmount(tx)
  <2> DEFINE f == Values(w.mempool)
             F == UnsealedKeys(v)
             G == UnsealedKeys(w)
  <2>1. /\ IsFiniteSet(F) /\ NatOn(Values(v.mempool), F) /\ F \subseteq DOMAIN v.mempool
        /\ Worth(Unsealed(v)) = SumFunctionOnSet(Values(v.mempool), F)
    BY <1>5, UnsealedIsSum DEF NatOn
  <2>2. /\ NatOn(f, DOMAIN w.mempool)
        /\ G \subseteq DOMAIN w.mempool
        /\ Worth(Unsealed(w)) = SumFunctionOnSet(f, G)
    BY <1>7, UnsealedIsSum
  <2>3. \A h \in F : Values(v.mempool)[h] = f[h]
    BY <1>8, <2>1 DEF Values
  <2>4. f[H] = UnspentAmount(tx)
    BY <1>8 DEF Values
  <2>5. G \subseteq F \cup {H}
    <3>1. \A h \in G : h \in DOMAIN v.mempool /\ w.mempool[h] = v.mempool[h] => h \in F
      <4>1. /\ DOMAIN v.tx \subseteq DOMAIN w.tx
            /\ \A k \in DOMAIN v.tx : MerkleLeaf(w.tx[k]) = MerkleLeaf(v.tx[k])
        BY <1>4
      <4> QED  BY <4>1, UnsealedShrinks
    <3> QED  BY <1>8, <2>2, <3>1
  <2>6. /\ UnspentAmount(tx) \in Nat /\ OutAmount(tx) \in Nat
        /\ UnspentAmount(tx) <= OutAmount(tx)
    BY <1>1, UnspentIsSum, OutAmountIsSum, UnspentBelowOut
  <2>7. H \notin F /\ F \cup {H} \subseteq DOMAIN w.mempool
    BY <1>8, <2>1
  <2> HIDE DEF f, F, G
  <2>8. SumFunctionOnSet(Values(v.mempool), F) = SumFunctionOnSet(f, F)
    BY <2>1, <2>3, SumSame
  <2>9. /\ IsFiniteSet({H}) /\ IsFiniteSet(F \cup {H})
        /\ NatOn(f, F) /\ NatOn(f, {H}) /\ NatOn(f, F \cup {H})
    BY <2>1, <2>2, <2>7, FS_Singleton, FS_Union DEF NatOn
  <2>10. SumFunctionOnSet(f, F \cup {H}) = SumFunctionOnSet(f, F) + UnspentAmount(tx)
    <3>1. F \cap {H} = {}
      BY <2>7
    <3>2. SumFunctionOnSet(f, {H}) = UnspentAmount(tx)
      BY <2>4, <2>6, SumOfOne
    <3> QED  BY <2>1, <2>9, <3>1, <3>2, SumUnion
  <2>11. /\ SumFunctionOnSet(f, G) <= SumFunctionOnSet(f, F \cup {H})
         /\ SumFunctionOnSet(f, G) \in Nat
    BY <2>5, <2>9, SumOfFewer
  <2>12. SumFunctionOnSet(f, F) \in Nat
    BY <2>1, <2>9, SumIsNat
  <2> QED  BY <2>1, <2>2, <2>6, <2>8, <2>10, <2>11, <2>12
\* The balance.
<1>11. Issued(w.tx) = Issued(v.tx)
  BY <1>4, <1>5, SameIssued
<1>12. OutAmount(tx) <= InputAmount(v, tx, 0) + InputAmount(v, tx, 1)
  <2>1. \A i \in TxElements : InputAmount(v, tx, i) \in Nat
    BY <1>1, ValidAmounts
  <2>2. InAmount(v, tx) = InputAmount(v, tx, 0) + InputAmount(v, tx, 1)
    BY <2>1, InAmountIsSum
  <2>3. ~(OutAmount(tx) > InAmount(v, tx)) /\ OutAmount(tx) \in Nat
    BY <1>1, ValidateTxOK, OutAmountIsSum
  <2>4. InputAmount(v, tx, 0) \in Nat /\ InputAmount(v, tx, 1) \in Nat
    BY <2>1
  <2> QED  BY <2>2, <2>3, <2>4
<1>13. Worth(w.tx) + Worth(Unsealed(w)) <= Issued(w.tx)
  <2>1. /\ Worth(w.tx) \in Nat /\ Worth(Unsealed(v)) \in Nat /\ Issued(v.tx) \in Nat
        /\ Worth(v.tx) \in Nat /\ Worth(Unsealed(w)) \in Nat
    BY <1>5, <1>7, WorthIsSum, UnsealedIsSum, IssuedIsSum
  <2>2. /\ InputAmount(v, tx, 0) \in Nat /\ InputAmount(v, tx, 1) \in Nat
        /\ OutAmount(tx) \in Nat
    BY <1>1, ValidAmounts, OutAmountIsSum
  <2>4. Worth(v.tx) + Worth(Unsealed(v)) <= Issued(v.tx)
    BY DEF Valued
  <2> QED  BY <1>6, <1>9, <1>11, <1>12, <2>1, <2>2, <2>4
<1>14. \A h \in DOMAIN w.mempool : ~IsDeposit(w.mempool[h])
  BY <1>1, <1>8, ValidateTxOK DEF Valued, IsDeposit
<1> QED  BY <1>5, <1>13, <1>14 DEF Valued, TxTable, w

\* Confirming and exiting rewrite one record.
LEMMA RecordEffect ==
    ASSUME NEW v, Inv(v), NEW w, ConfirmEffect(v, w) \/ ExitEffect(v, w)
    PROVE  DOMAIN w.tx = DOMAIN v.tx /\ w.mempool = v.mempool
<1>1. ConfirmEffect(v, w) => \E k \in DOMAIN v.tx : \E new : w = setTx(v, k, new)
  BY DEF ConfirmEffect, ConfirmTx, Failed, Done, OK
<1>2. ExitEffect(v, w) => \E k \in DOMAIN v.tx : \E new : w = setTx(v, k, new)
  BY DEF ExitEffect, ExitTxOut, Failed, Done, OK
<1> QED  BY <1>1, <1>2, SetTxEffect

\* Confirming and exiting move no value.
LEMMA RewriteValued ==
    ASSUME NEW v, Inv(v), Valued(v), NEW w, Inv(w), Keeps(v, w),
           DOMAIN w.tx = DOMAIN v.tx, w.mempool = v.mempool
    PROVE  Valued(w)
<1>1. \A k \in DOMAIN v.tx : v.tx[k] \in Tx /\ w.tx[k] \in Tx
  BY DEF Inv, StoreType
<1>2. \A k \in DOMAIN v.tx : MerkleLeaf(w.tx[k]) = MerkleLeaf(v.tx[k])
  BY KeepsLeaf
<1>3. \A k \in DOMAIN v.tx, o \in TxElements :
        w.tx[k].outs[o].amount = v.tx[k].outs[o].amount
  BY DEF Keeps, KeepsOutputs
<1>4. \A k \in DOMAIN v.tx : Consumes(w.tx[k]) = Consumes(v.tx[k])
  BY <1>1, <1>2, LeafConsumes
<1>5. \A k \in DOMAIN v.tx, o \in TxElements :
        w.tx[k].outs[o].spent <=> v.tx[k].outs[o].spent
  BY DEF Keeps, KeepsOutputs, Inv, ConsumedIsSpent
<1>6. TxTable(v.tx) /\ TxTable(w.tx)
  BY <1>1, StoreTables DEF TxTable
<1>7. Worth(w.tx) = Worth(v.tx)
  BY <1>3, <1>4, <1>5, <1>6, SameAmounts
<1>8. Issued(w.tx) = Issued(v.tx)
  BY <1>2, <1>6, SameIssued
<1>9. Worth(Unsealed(w)) = Worth(Unsealed(v))
  <2>1. UnsealedKeys(w) = UnsealedKeys(v)
    BY <1>2 DEF UnsealedKeys
  <2>2. TxTable(v.mempool) /\ TxTable(w.mempool)
    BY StoreTables
  <2> QED  BY <2>1, <2>2, UnsealedIsSum
<1> QED  BY <1>7, <1>8, <1>9 DEF Valued

MempoolNamesOnce(v) == \A h \in DOMAIN v.mempool : NamesOnce(v.mempool[h])

LEMMA EffectPreservesValued ==
    ASSUME NEW v, Inv(v), Valued(v), NEW w, Effect(v, w), MempoolNamesOnce(w)
    PROVE  Valued(w)
<1>1. Inv(w) /\ Keeps(v, w)
  BY EffectPreservesInv, EffectKeeps
<1>2. CASE AcceptEffect(v, w)
  <2>1. PICK tx \in Tx : ValidateTx(v, tx) = OK /\ w = Accepted(v, tx)
    BY <1>2 DEF AcceptEffect
  <2>2. w.mempool = addTxToMempool(v, tx)
    BY <2>1 DEF Accepted, Inv, StoreType
  <2>3. NamesOnce(tx)
    BY <2>2 DEF MempoolNamesOnce, addTxToMempool, Override
  <2> QED  BY <2>1, <2>3, AcceptValued
<1>3. CASE ConfirmEffect(v, w) \/ ExitEffect(v, w)
  BY <1>1, <1>3, RecordEffect, RewriteValued
<1> QED  BY <1>2, <1>3, DepositValued, SealValued DEF Effect

LEMMA InitValued == Valued(NewChildChain)
<1>1. DOMAIN NewChildChain.tx = {} /\ DOMAIN NewChildChain.mempool = {}
  BY DEF NewChildChain
<1>2. TxTable(NewChildChain.tx) /\ TxTable(NewChildChain.mempool)
  BY <1>1, FS_EmptySet DEF TxTable
<1>3. \A f : SumFunctionOnSet(f, {}) = 0
  BY SumStep, FS_EmptySet
<1>4. IssuedKeys(NewChildChain.tx) = {} /\ UnsealedKeys(NewChildChain) = {}
  BY <1>1 DEF IssuedKeys, UnsealedKeys
<1>5. /\ Worth(NewChildChain.tx) = 0
      /\ Worth(Unsealed(NewChildChain)) = 0
      /\ Issued(NewChildChain.tx) = 0
  BY <1>1, <1>2, <1>3, <1>4, WorthIsSum, UnsealedIsSum, IssuedIsSum
<1> QED  BY <1>1, <1>2, <1>5 DEF Valued, TxTable

LEMMA ValuedHolds == Serial /\ []MempoolNamesOnce(db) => []Valued(db)
<1>1. Init => Valued(db)
  BY InitValued DEF Init
<1>2. Inv(db) /\ Valued(db) /\ [Effect(db, db')]_db /\ MempoolNamesOnce(db)'
        => Valued(db)'
  BY EffectPreservesValued
<1> QED  BY <1>1, <1>2, InvHolds, PTL DEF Serial

\* What the mempool gains is one of ClientTxes, everywhere but in Wallet, where
\* users make their transactions of what they read.
ClientAdds(v, w) ==
    \A h \in DOMAIN w.mempool :
        \/ h \in DOMAIN v.mempool /\ w.mempool[h] = v.mempool[h]
        \/ w.mempool[h] \in ClientTxes

ClientEffect(v, w) == Effect(v, w) /\ ClientAdds(v, w)

ClientSerial == Init /\ [][ClientEffect(db, db')]_db

LEMMA ClientSerialIsSerial == ClientSerial => Serial
<1>1. [ClientEffect(db, db')]_db => [Effect(db, db')]_db
  BY DEF ClientEffect
<1> QED  BY <1>1, PTL DEF ClientSerial, Serial

LEMMA ClientPosts ==
    ASSUME NEW v, Inv(v), NEW tx \in ClientTxes, ValidateTx(v, tx) = OK
    PROVE  ClientEffect(v, Accepted(v, tx))
<1> DEFINE w == Accepted(v, tx)
<1>1. w.mempool = addTxToMempool(v, tx)
  BY DEF Accepted, Inv, StoreType
<1>2. AcceptEffect(v, w)
  BY ChildChainAssumption DEF AcceptEffect
<1> HIDE DEF w
<1>3. ClientAdds(v, w)
  BY <1>1 DEF ClientAdds, addTxToMempool, Override
<1> QED  BY <1>2, <1>3 DEF ClientEffect, Effect, w

\* Everything but a post adds nothing.
LEMMA OthersAddNothing ==
    ASSUME NEW v, Inv(v), NEW w,
           \/ DepositEffect(v, w) \/ SealEffect(v, w)
           \/ ConfirmEffect(v, w) \/ ExitEffect(v, w)
    PROVE  ClientEffect(v, w)
<1>1. DepositEffect(v, w) \/ SealEffect(v, w) => ClientAdds(v, w)
  BY DepositAppends, SealAppends DEF Appends, ClientAdds
<1>2. ConfirmEffect(v, w) \/ ExitEffect(v, w) => ClientAdds(v, w)
  BY RecordEffect DEF ClientAdds
<1> QED  BY <1>1, <1>2 DEF ClientEffect, Effect

LEMMA SpecIsClientSerial == Spec => ClientSerial
<1>1. Init => Inv(db)
  BY InitInv DEF Init
<1>2. ASSUME Inv(db), Next
      PROVE  ClientEffect(db, db')
  <2>1. ASSUME NEW owner \in Address, NEW amount \in DepositAmounts,
               Deposit(owner, amount)
        PROVE  DepositEffect(db, db')
    BY <2>1 DEF Deposit, DepositEffect
  <2>2. ASSUME NEW order \in IterationOrders(db), Block(order)
        PROVE  SealEffect(db, db')
    BY <1>2, <2>2, AddBlockSeals DEF Block, SealEffect, IterationOrders
  <2>3. ASSUME NEW tx \in ClientTxes, Post(tx)
        PROVE  ClientEffect(db, db')
    BY <1>2, <2>3, AddTxToMempoolAccepts, ClientPosts DEF Post
  <2>4. ASSUME NEW pos \in ClientPositions, NEW sig \in Signature, Confirm(pos, sig)
        PROVE  ConfirmEffect(db, db')
    BY <2>4 DEF Confirm, ConfirmEffect
  <2>5. ASSUME NEW pos \in ClientPositions, Exit(pos)
        PROVE  ExitEffect(db, db')
    BY <2>5 DEF Exit, ExitEffect
  <2> QED  BY <1>2, <2>1, <2>2, <2>3, <2>4, <2>5, OthersAddNothing DEF Next
<1>3. Inv(db) /\ [Next]_db => Inv(db)'
  BY <1>2, EffectPreservesInv DEF ClientEffect
<1>4. Inv(db) /\ [Next]_db => [ClientEffect(db, db')]_db
  BY <1>2
<1> QED  BY <1>1, <1>3, <1>4, PTL DEF Spec, ClientSerial

\* What is marked spent was spent, or posted so.
PostedSpentIn(v, k, o) ==
    \E tx \in ClientTxes :
        tx.outs[o].spent /\ MerkleLeaf(tx) = MerkleLeaf(v.tx[k])

Explained(v) ==
    /\ \A h \in DOMAIN v.mempool : v.mempool[h] \in ClientTxes
    /\ \A k \in DOMAIN v.tx, o \in TxElements :
         v.tx[k].outs[o].spent =>
             \/ ConsumedIn(v.tx, <<k[1], k[2], o>>)
             \/ ConsumedIn(v.mempool, <<k[1], k[2], o>>)
             \/ PostedSpentIn(v, k, o)

LEMMA EffectPreservesExplained ==
    ASSUME NEW v, Inv(v), Explained(v), NEW w, ClientEffect(v, w)
    PROVE  Explained(w)
<1>1. Keeps(v, w) /\ Origins(v, w) /\ KeepsPending(v, w) /\ Inv(w)
  BY EffectKeeps, EffectPreservesInv DEF ClientEffect
<1>2. \A h \in DOMAIN w.mempool : w.mempool[h] \in ClientTxes
  BY DEF ClientEffect, ClientAdds, Explained
<1>3. \A k \in DOMAIN v.tx : Consumes(w.tx[k]) = Consumes(v.tx[k]) /\ k \in DOMAIN w.tx
  BY <1>1, KeepsLeaf, LeafConsumes DEF Keeps, Inv, StoreType
<1>4. \A c : ConsumedIn(v.tx, c) => ConsumedIn(w.tx, c)
  BY <1>3 DEF ConsumedIn
<1>5. \A c : ConsumedIn(v.mempool, c) => ConsumedIn(w.tx, c) \/ ConsumedIn(w.mempool, c)
  BY <1>1 DEF ConsumedIn, KeepsPending
<1>6. ASSUME NEW k \in DOMAIN v.tx, NEW o \in TxElements, PostedSpentIn(v, k, o)
      PROVE  PostedSpentIn(w, k, o)
  BY <1>1, <1>6, KeepsLeaf DEF PostedSpentIn
<1>7. ASSUME NEW k \in DOMAIN w.tx, NEW o \in TxElements, w.tx[k].outs[o].spent
      PROVE  \/ ConsumedIn(w.tx, <<k[1], k[2], o>>)
             \/ ConsumedIn(w.mempool, <<k[1], k[2], o>>)
             \/ PostedSpentIn(w, k, o)
  <2>1. CASE k \in DOMAIN v.tx /\ v.tx[k].outs[o].spent
    BY <1>4, <1>5, <1>6, <2>1 DEF Explained
  <2>2. CASE k \in DOMAIN v.tx /\ ~v.tx[k].outs[o].spent
    BY <1>1, <1>7, <2>2 DEF Keeps, KeepsOutputs
  <2>3. CASE k \notin DOMAIN v.tx
    <3>1. ~NewDeposit(w.tx[k])
      BY <1>7 DEF NewDeposit
    <3>2. PICK h \in DOMAIN v.mempool : w.tx[k] = v.mempool[h]
      BY <1>1, <2>3, <3>1 DEF Origins
    <3> QED  BY <1>7, <3>2 DEF Explained, PostedSpentIn
  <2> QED  BY <2>1, <2>2, <2>3
<1> QED  BY <1>2, <1>7 DEF Explained

LEMMA ExplainedGivesFlags == Inv(db) /\ Explained(db) => SpentExplained
<1> SUFFICES ASSUME Inv(db), Explained(db), NEW out \in Outputs
             PROVE  /\ Consumed(out) => Output(out).spent
                    /\ Output(out).spent => Consumed(out) \/ PostedSpent(out)
  BY DEF SpentExplained
<1>0. PICK k \in DOMAIN db.tx, o \in TxElements : out = <<k[1], k[2], o>>
  BY DEF Outputs
<1>1. TxKey(out) = k /\ out[3] = o
  BY <1>0 DEF TxKey, Inv, StoreType
<1>2. Output(out) = db.tx[k].outs[o]
  BY <1>1 DEF Output, getTxOut
<1>3. Consumed(out) <=> ConsumedIn(db.tx, out) \/ ConsumedIn(db.mempool, out)
  <2>1. \A h \in Holders : out \in Consumes(Held(h))
          => ConsumedIn(db.tx, out) \/ ConsumedIn(db.mempool, out)
    BY DEF ConsumedIn, Holders, Held
  <2>2. \A l \in DOMAIN db.tx : <<"tx", l>> \in Holders /\ Held(<<"tx", l>>) = db.tx[l]
    BY DEF Holders, Held
  <2>3. \A h \in DOMAIN db.mempool :
          <<"mempool", h>> \in Holders /\ Held(<<"mempool", h>>) = db.mempool[h]
    BY DEF Holders, Held
  <2> QED  BY <2>1, <2>2, <2>3 DEF Consumed, ConsumedIn
<1>4. PostedSpent(out) <=> PostedSpentIn(db, k, o)
  BY <1>1 DEF PostedSpent, PostedSpentIn
<1>5. Consumed(out) => Output(out).spent
  BY <1>0, <1>2, <1>3 DEF Inv, ConsumedIsSpent
<1>6. Output(out).spent => Consumed(out) \/ PostedSpent(out)
  BY <1>0, <1>2, <1>3, <1>4 DEF Explained
<1> QED  BY <1>5, <1>6

LEMMA ClientsExplain == ClientSerial => []SpentExplained
<1>1. Init => Explained(db)
  BY DEF Init, NewChildChain, Explained
<1>2. Inv(db) /\ Explained(db) /\ [ClientEffect(db, db')]_db => Explained(db)'
  BY EffectPreservesExplained DEF Explained, PostedSpentIn, ConsumedIn
<1> QED  BY <1>1, <1>2, ClientSerialIsSerial, InvHolds, ExplainedGivesFlags, PTL DEF ClientSerial

ClientsNameOnce == \A tx \in ClientTxes : NamesOnce(tx)

LEMMA ClientsConserve ==
    ASSUME ClientsNameOnce
    PROVE  ClientSerial => []ValueConserved
<1>1. Init => MempoolNamesOnce(db)
  BY DEF Init, NewChildChain, MempoolNamesOnce
<1>2. MempoolNamesOnce(db) /\ [ClientEffect(db, db')]_db => MempoolNamesOnce(db)'
  BY DEF MempoolNamesOnce, ClientEffect, ClientAdds, ClientsNameOnce
<1>3. Valued(db) => ValueConserved
  BY DEF Valued, ValueConserved
<1> QED  BY <1>1, <1>2, <1>3, ClientSerialIsSerial, ValuedHolds, PTL DEF ClientSerial

-----------------------------------------------------------------------------
(* The theorems.                                                           *)

\* An output that a transaction of the chain names, in a block or pending, is
\* marked spent, and one that is marked and not named was posted so: handler_tx.go:12
\* decodes the flag, and nothing of the way into a block looks at it.
THEOREM SpentFlagsExplained == Spec => []SpentExplained
  BY SpecIsClientSerial, ClientsExplain, PTL

\* Only the owner of an output signs for its spending, childchain.go:269-275, and
\* the owner recorded then is still the owner now.
THEOREM SpendersAuthorized == Spec => []InputsAuthorized
  BY AuthorizedHolds, SpecIsSerial, AuthorizedGivesSigners, PTL

\* The records are rewritten whole (childchain.go:218, 349, 409), and only the
\* one flag or confirmation the method is about changes: a flag is only ever set,
\* and a confirmation, which may have been posted with the transaction, gives way
\* only to the signature of the owner of what the input spends (331-337).
THEOREM RecordsKept == Spec => RecordsOnlyGrow
  BY SerialKeepsRecords, SpecIsSerial

\* A transaction that was accepted is pending until a block has it as it is:
\* deleted keys are keys of the block's transactions (childchain.go:549-561), and
\* a new transaction cannot take a pending one's key (childchain.go:677-688).
THEOREM AcceptedKept == Spec => PendingKept
  BY SerialKeepsPending, SpecIsSerial

\* ValidateTx refuses an exited output, childchain.go:264-266, and nothing else
\* marks outputs spent.
THEOREM ExitedStayUnspent == Spec => ExitedNotSpentLater
  BY SerialKeepsExits, SpecIsSerial

\* As long as no client's transaction names the same output twice, the outputs
\* nobody has spent, with what pays out of the mempool what no block has paid
\* yet, are worth no more than the deposits and the copies of transactions:
\* whatever AddBlock takes out of the mempool or leaves there, however records
\* are rewritten.
THEOREM ValueKept == ClientsNameOnce => (Spec => []ValueConserved)
<1> SUFFICES ASSUME ClientsNameOnce
             PROVE  Spec => []ValueConserved
  OBVIOUS
<1> QED  BY SpecIsClientSerial, ClientsConserve, PTL
=============================================================================
