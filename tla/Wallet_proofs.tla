----------------------------- MODULE Wallet_proofs -----------------------------
(***************************************************************************)
(* What a command makes of what it has read is still good when it sends    *)
(* it, for any users, payments and number of terminals.  The invariant     *)
(* says of each command that what it holds is an earlier version of what   *)
(* the store has, and of each exit of the contract that the store's record *)
(* of it is confirmed.                                                     *)
(***************************************************************************)
EXTENDS Wallet, TokenIndex_proofs

USE DEF TxElements, TxElementsNum

-----------------------------------------------------------------------------
(* The transaction a position leads to.                                    *)

RecordKey(pos) == TxKey(Core(pos))

Record(v, pos) == v.tx[RecordKey(pos)]

Found(v, pos) == ~ParsePanics(pos) /\ RecordKey(pos) \in DOMAIN v.tx

\* A command asks for a transaction by the transaction's position, and gets the
\* transaction of the position it was given.
LEMMA TxOfPosition ==
    ASSUME NEW pos \in Nat, pos < Uint64Limit
    PROVE  ParseTxPosition(TxPosition(pos)) = RecordKey(pos)
<1> DEFINE txPos == pos \div TxPositionOffset
           blk == txPos \div BlockPositionOffset
           idx == txPos % BlockPositionOffset
<1>1. pos \in Nat /\ pos < Uint64Limit
  OBVIOUS
<1>2. /\ TxPositionOffset \in Nat \ {0}
      /\ BlockPositionOffset \in Nat \ {0}
      /\ Uint64Limit \in Nat \ {0}
  BY PositionAssumption
<1>3. txPos \in Nat /\ txPos <= pos
  BY <1>1, <1>2
<1>4. Core(pos)[1] = blk /\ Core(pos)[2] = idx
  BY DEF Core, ParseTxOutPosition, parseTxElementPosition, ParseTxPosition
<1>5. RecordKey(pos) = <<blk, idx>>
  BY <1>4 DEF RecordKey, TxKey
<1>6. ParseTxPosition(txPos) = <<blk, idx>>
  BY DEF ParseTxPosition
<1> HIDE DEF txPos
<1>7. blk * BlockPositionOffset + idx = txPos
  BY <1>2, <1>3
<1>8. txPos % Uint64Limit = txPos
  BY <1>1, <1>2, <1>3
<1>9. TxPosition(pos) = txPos
  BY <1>4, <1>7, <1>8 DEF TxPosition, NewTxPosition, Uint64
<1> QED  BY <1>5, <1>6, <1>9

LEMMA ReadIsFound ==
    ASSUME NEW pos \in ClientPositions
    PROVE  /\ HasTx(pos) <=> Found(db, pos)
           /\ GetTx(pos) = Record(db, pos)
<1>1. ParseTxPosition(TxPosition(pos)) = RecordKey(pos)
  BY TxOfPosition, WalletAssumption, ChildChainAssumption
<1> QED  BY <1>1 DEF HasTx, GetTx, Found, Record

\* What is found is an element of a block.
LEMMA FoundType ==
    ASSUME NEW v, StoreType(v), NEW pos \in ClientPositions, Found(v, pos)
    PROVE  /\ Core(pos) \in Nat \X Nat \X Nat
           /\ Record(v, pos) \in Tx
           /\ IsExistOutput(Core(pos)[3]) => Core(pos)[3] \in TxElements
           /\ IsExistInput(Core(pos)[3]) => Core(pos)[3] \in TxElements
<1>1. Core(pos) \in Nat \X Nat \X Nat
  BY ParsedType, ChildChainAssumption
  DEF Found, Core, ParseTxOutPosition, ParseTxInPosition
<1>2. Record(v, pos) \in Tx
  BY DEF Found, Record, StoreType
<1> QED  BY <1>1, <1>2 DEF IsExistOutput, IsExistInput

-----------------------------------------------------------------------------
(* What was read, and what it has become.                                  *)

\* old is a version of the record that is now tx.
Earlier(old, tx) ==
    /\ old \in Tx
    /\ MerkleLeaf(old) = MerkleLeaf(tx)
    /\ \A i \in TxElements :
        old.ins[i].confSig # NullSignature => tx.ins[i].confSig = old.ins[i].confSig

\* Equal leaves have equal inputs, signatures, owners and amounts.
LEMMA LeafParts ==
    ASSUME NEW old, NEW tx, MerkleLeaf(old) = MerkleLeaf(tx)
    PROVE  /\ TxHash(old) = TxHash(tx)
           /\ \A e \in TxElements :
                /\ old.ins[e].core = tx.ins[e].core
                /\ old.ins[e].sig = tx.ins[e].sig
                /\ old.outs[e].owner = tx.outs[e].owner
                /\ old.outs[e].amount = tx.outs[e].amount
<1>1. \A t : /\ MerkleLeaf(t)[1] = TxHash(t)
             /\ \A e \in TxElements : MerkleLeaf(t)[2][e] = t.ins[e].sig
  BY DEF MerkleLeaf
<1>2. \A t : \A e \in TxElements :
        /\ TxHash(t)[1][e] = t.ins[e].core
        /\ TxHash(t)[2][e] = OutputCore(t.outs[e])
  BY DEF TxHash
<1>3. TxHash(old) = TxHash(tx)
  BY <1>1
<1>4. ASSUME NEW e \in TxElements
      PROVE  /\ old.ins[e].core = tx.ins[e].core
             /\ old.ins[e].sig = tx.ins[e].sig
             /\ OutputCore(old.outs[e]) = OutputCore(tx.outs[e])
  <2>1. old.ins[e].sig = tx.ins[e].sig
    <3>1. MerkleLeaf(old)[2][e] = old.ins[e].sig /\ MerkleLeaf(tx)[2][e] = tx.ins[e].sig
      BY <1>1
    <3> QED  BY <3>1
  <2>2. TxHash(old)[1][e] = old.ins[e].core /\ TxHash(tx)[1][e] = tx.ins[e].core
    BY <1>2
  <2>3. /\ TxHash(old)[2][e] = OutputCore(old.outs[e])
        /\ TxHash(tx)[2][e] = OutputCore(tx.outs[e])
    BY <1>2
  <2> QED  BY <1>3, <2>1, <2>2, <2>3
<1> QED  BY <1>3, <1>4 DEF OutputCore

\* Users post nothing that is confirmed already, so the confirmations of records
\* are of those who signed.
Unconfirmed(tx) == \A i \in TxElements : tx.ins[i].confSig = NullSignature

SignersConfirm(v) ==
    \A k \in DOMAIN v.tx, i \in TxElements :
        v.tx[k].ins[i].confSig \in {NullSignature, v.tx[k].ins[i].sig}

\* Then a confirmation is never replaced.
LEMMA ConfirmationKept ==
    ASSUME NEW v, Authorized(v), SignersConfirm(v), NEW w, Keeps(v, w),
           NEW k \in DOMAIN v.tx
    PROVE  /\ MerkleLeaf(w.tx[k]) = MerkleLeaf(v.tx[k])
           /\ \A i \in TxElements :
                v.tx[k].ins[i].confSig # NullSignature =>
                  w.tx[k].ins[i].confSig = v.tx[k].ins[i].confSig
<1>1. ASSUME NEW i \in TxElements, v.tx[k].ins[i].confSig # NullSignature
      PROVE  w.tx[k].ins[i].confSig = v.tx[k].ins[i].confSig
  BY <1>1 DEF Keeps, KeepsInputs, Authorized, AuthorizedTx, SignersConfirm
<1> QED  BY <1>1, KeepsLeaf

LEMMA EarlierKept ==
    ASSUME NEW v, Authorized(v), SignersConfirm(v), NEW w, Keeps(v, w),
           NEW k \in DOMAIN v.tx, NEW old, Earlier(old, v.tx[k])
    PROVE  Earlier(old, w.tx[k])
<1>1. /\ MerkleLeaf(w.tx[k]) = MerkleLeaf(v.tx[k])
      /\ \A i \in TxElements :
           v.tx[k].ins[i].confSig # NullSignature =>
             w.tx[k].ins[i].confSig = v.tx[k].ins[i].confSig
  BY ConfirmationKept
<1> QED  BY <1>1 DEF Earlier

-----------------------------------------------------------------------------
(* Payments.                                                               *)

\* tx spends one output, is signed by one account, not confirmed, and pays n in
\* all.
Spends(tx, core, signer, n) ==
    /\ tx \in Tx
    /\ Unconfirmed(tx)
    /\ tx.ins[0].core = core
    /\ core # NullTxInCore
    /\ IsNull(tx.ins[1])
    /\ tx.ins[0].sig = signer
    /\ OutAmount(tx) = n

LEMMA PaymentSpends ==
    ASSUME NEW core \in TxInCore, core # NullTxInCore, NEW out \in TxOut,
           NEW addr \in Accounts, NEW amount \in Nat, amount <= out.amount,
           NEW signer \in Accounts
    PROVE  Spends(Payment(core, out, addr, amount, signer), core, signer, out.amount)
<1> DEFINE tx == Payment(core, out, addr, amount, signer)
           in == [core |-> core, sig |-> signer, confSig |-> NullSignature]
           ins == [i \in TxElements |-> IF i = 0 THEN in ELSE NewTxIn(NullTxInCore)]
           change == out.amount - amount
           rest == IF change > 0 THEN NewTxOut(out.owner, change)
                   ELSE NewTxOut(NullAddress, 0)
           outs == [o \in TxElements |-> IF o = 0 THEN NewTxOut(addr, amount) ELSE rest]
<1>1. tx = [ins |-> ins, outs |-> outs]
  <2> DEFINE unsigned == [i \in TxElements |->
                            IF i = 0 THEN NewTxIn(core) ELSE NewTxIn(NullTxInCore)]
             none == [o \in TxElements |-> NewTxOut(NullAddress, 0)]
             first == [o \in TxElements |-> IF o = 0 THEN NewTxOut(addr, amount)
                                            ELSE NewTxOut(NullAddress, 0)]
             paying == SetOutput([NewTx EXCEPT !.ins[0] = NewTxIn(core)],
                                 0, NewTxOut(addr, amount))
             both == IF change > 0
                     THEN SetOutput(paying, 1, NewTxOut(out.owner, change))
                     ELSE paying
  <2>1. [NewTx EXCEPT !.ins[0] = NewTxIn(core)] = [ins |-> unsigned, outs |-> none]
    BY DEF NewTx
  <2>6. ASSUME NEW x, NEW y, NEW n, NEW e
        PROVE  SetOutput([ins |-> x, outs |-> y], e, n)
                 = [ins |-> x, outs |-> [y EXCEPT ![e] = n]]
    BY DEF SetOutput
  <2>7. [none EXCEPT ![0] = NewTxOut(addr, amount)] = first
    OBVIOUS
  <2>2. paying = [ins |-> unsigned, outs |-> first]
    <3> HIDE DEF unsigned, none, first
    <3> QED  BY <2>1, <2>6, <2>7
  <2>8. ASSUME change > 0
        PROVE  both = [ins |-> unsigned, outs |-> outs]
    <3>1. [first EXCEPT ![1] = NewTxOut(out.owner, change)] = outs
      <4>1. rest = NewTxOut(out.owner, change)
        BY <2>8
      <4> DEFINE f == [first EXCEPT ![1] = rest]
      <4>2. f = [o \in TxElements |-> IF o = 1 THEN rest ELSE first[o]]
        OBVIOUS
      <4>3. \A o \in TxElements :
              (IF o = 1 THEN rest ELSE first[o]) = (IF o = 0 THEN NewTxOut(addr, amount) ELSE rest)
        OBVIOUS
      <4> HIDE DEF rest, first, change
      <4>4. f = outs
        BY <4>2, <4>3
      <4> QED  BY <4>1, <4>4
    <3>2. both = SetOutput(paying, 1, NewTxOut(out.owner, change))
      BY <2>8
    <3> HIDE DEF unsigned, first, outs, both, paying
    <3> QED  BY <2>2, <2>6, <3>1, <3>2
  <2>9. ASSUME ~(change > 0)
        PROVE  both = [ins |-> unsigned, outs |-> outs]
    <3>1. first = outs /\ both = paying
      BY <2>9
    <3> HIDE DEF unsigned, first, outs, both, paying
    <3> QED  BY <2>2, <3>1
  <2>3. both = [ins |-> unsigned, outs |-> outs]
    BY <2>8, <2>9
  <2>4. [unsigned EXCEPT ![0].sig = signer] = ins
    <3>1. [NewTxIn(core) EXCEPT !.sig = signer] = in
      BY DEF NewTxIn
    <3>2. unsigned[0] = NewTxIn(core) /\ 0 \in TxElements
      OBVIOUS
    <3>3. [unsigned EXCEPT ![0].sig = signer]
            = [unsigned EXCEPT ![0] = [unsigned[0] EXCEPT !.sig = signer]]
      <4> HIDE DEF unsigned
      <4> QED  OBVIOUS
    <3> HIDE DEF in
    <3> QED  BY <3>1, <3>2, <3>3
  <2>5. tx = Signed(both, 0, signer)
    BY DEF Payment, Change
  <2> HIDE DEF both, unsigned, outs, ins
  <2> QED  BY <2>3, <2>4, <2>5 DEF Signed
<1>2. in \in TxIn /\ NewTxIn(NullTxInCore) \in TxIn
  BY DEF NewTxIn, NullTxInCore, TxIn, TxInCore, Signature
<1>3. out.owner \in Address /\ out.amount \in Nat
  BY DEF TxOut
<1>4. change \in Nat
  BY <1>3
<1> HIDE DEF change
<1>5. NewTxOut(addr, amount) \in TxOut /\ rest \in TxOut
  BY <1>3, <1>4 DEF NewTxOut, TxOut, Address
<1>6. tx \in Tx
  BY <1>1, <1>2, <1>5 DEF Tx
<1>7. Unconfirmed(tx)
  <2>1. \A i \in TxElements : ins[i].confSig = NullSignature
    BY DEF NewTxIn
  <2> HIDE DEF ins, outs, tx
  <2> QED  BY <1>1, <2>1 DEF Unconfirmed
<1>8. /\ tx.ins[0].core = core
      /\ tx.ins[0].sig = signer
      /\ IsNull(tx.ins[1])
  BY <1>1 DEF NewTxIn, IsNull
<1>9. OutAmount(tx) = out.amount
  <2>1. tx.outs[0].amount = amount
    BY <1>1 DEF NewTxOut
  <2>2. tx.outs[1].amount = IF change > 0 THEN change ELSE 0
    BY <1>1 DEF NewTxOut
  <2>3. OutAmount(tx) = tx.outs[0].amount + tx.outs[1].amount
    BY <1>6, OutAmountIsSum
  <2> HIDE DEF tx
  <2> QED  BY <1>3, <1>4, <2>1, <2>2, <2>3 DEF change
<1> HIDE DEF tx
<1> QED  BY <1>6, <1>7, <1>8, <1>9 DEF Spends, tx

\* The node takes a transaction that the owner signed and that pays what the
\* output has, unless somebody spent or exited the output, or the mempool is
\* full.
LEMMA SpendingAccepted ==
    ASSUME NEW v, StoreType(v), NEW core \in TxInCore, HasTxOut(v, core),
           NEW tx, NEW signer \in Accounts,
           Spends(tx, core, signer, getTxOut(v, core).amount),
           signer = getTxOut(v, core).owner
    PROVE  LET out == getTxOut(v, core)
               err == AddTxToMempool(v, tx).err
           IN  /\ err \in {OK, "ErrMempoolFull", "ErrTxOutAlreadySpent",
                           "ErrTxOutAlreadyExited"}
               /\ ~out.spent /\ ~out.exited => err \in {OK, "ErrMempoolFull"}
<1> DEFINE out == getTxOut(v, core)
           in == tx.ins[0]
           bad == {i \in TxElements : InputError(v, tx.ins[i]) # OK}
<1>1. /\ tx \in Tx
      /\ in.core = core /\ ~IsNull(in)
      /\ IsNull(tx.ins[1])
      /\ in.sig = signer
      /\ OutAmount(tx) = out.amount
  BY DEF Spends, IsNull
<1>2. out.amount \in Nat
  BY OutputType DEF TxInCore, TxOut
<1>3. SignatureError(in, out) = OK
  BY <1>1, TxAssumption DEF SignatureError, SignerAddress
<1>4. InputError(v, in) = TxOutError(out)
  <2> HIDE DEF in, out
  <2>1. getTxOut(v, in.core) = out /\ HasTxOut(v, in.core)
    BY <1>1 DEF out
  <2> QED  BY <1>1, <1>3, <2>1 DEF InputError
<1>5. InputError(v, tx.ins[1]) = OK
  BY <1>1 DEF InputError
<1>6. ASSUME TxOutError(out) = OK
      PROVE  ValidateTx(v, tx) = OK
  <2>1. bad = {}
    BY <1>4, <1>5, <1>6
  <2>2. Consumes(tx) # {}
    <3>1. in.core \in Consumes(tx)
      BY <1>1, NamedConsumed
    <3> QED  BY <3>1
  <2>3. OutAmount(tx) = InAmount(v, tx)
    <3>1. InputAmount(v, tx, 0) = out.amount /\ InputAmount(v, tx, 1) = 0
      BY <1>1 DEF InputAmount
    <3>2. \A i \in TxElements : InputAmount(v, tx, i) \in Nat
      BY <1>2, <3>1
    <3>3. InAmount(v, tx) = InputAmount(v, tx, 0) + InputAmount(v, tx, 1)
      BY <3>2, InAmountIsSum
    <3> QED  BY <1>1, <1>2, <3>1, <3>3
  <2>4. ~(OutAmount(tx) > InAmount(v, tx))
    BY <1>1, <1>2, <2>3
  <2> QED  BY <2>1, <2>2, <2>4 DEF ValidateTx
<1>7. ASSUME TxOutError(out) # OK
      PROVE  ValidateTx(v, tx) = TxOutError(out)
  <2>1. bad = {0}
    BY <1>4, <1>5, <1>7
  <2>2. Min(bad) = 0
    BY <2>1, MinIsLeast
  <2>3. ValidateTx(v, tx) = InputError(v, tx.ins[Min(bad)])
    BY <2>1 DEF ValidateTx
  <2> QED  BY <1>4, <2>2, <2>3
<1>8. AddTxToMempool(v, tx).err \in {ValidateTx(v, tx), "ErrMempoolFull"}
  BY DEF AddTxToMempool, Failed, Done
<1> HIDE DEF out, in, bad
<1>9. ValidateTx(v, tx) = TxOutError(out)
  BY <1>6, <1>7
<1> QED  BY <1>8, <1>9 DEF TxOutError, out

-----------------------------------------------------------------------------
(* The invariant.                                                          *)

StoreInv(v) ==
    /\ Inv(v)
    /\ Authorized(v)
    /\ Recorded(v)
    /\ Numbered(v)
    /\ SignersConfirm(v)

\* What waits is what users made: each output named once, nothing confirmed.
MempoolPays(v) ==
    \A h \in DOMAIN v.mempool : NamesOnce(v.mempool[h]) /\ Unconfirmed(v.mempool[h])

InOrder(v, b) == \A i, j \in DOMAIN v.header[b] : KeyPrecedes(i, j) <=> i < j

GoodPayment(v, c) ==
    LET in == c.tx.ins[0]
    IN  /\ in.core \in TxInCore
        /\ in.sig \in Accounts
        /\ HasTxOut(v, in.core)
        /\ Spends(c.tx, in.core, in.sig, getTxOut(v, in.core).amount)
        /\ c.honest => in.sig = getTxOut(v, in.core).owner

GoodConfirmation(v, c) ==
    /\ c.pos \in ClientPositions
    /\ Found(v, c.pos)
    /\ IsExistInput(Core(c.pos)[3])
    /\ c.hash = TxHash(Record(v, c.pos))
    /\ c.signer \in Accounts

GoodExit(v, c) ==
    /\ c.pos \in ClientPositions
    /\ Found(v, c.pos)
    /\ Earlier(c.tx, Record(v, c.pos))
    /\ c.sender \in Accounts

GoodProof(v, c) ==
    InOrder(v, Core(c.pos)[1]) => c.proof = MerkleLeaf(Record(v, c.pos))

\* What a command holds fits the store, whatever step it waits for.
GoodCommand(v, c) ==
    /\ c.step = "post" => GoodPayment(v, c)
    /\ c.step = "put" => GoodConfirmation(v, c)
    /\ c.step \in {"prove", "exit"} => GoodExit(v, c)
    /\ c.step = "exit" => GoodProof(v, c)

ExitRecord == [owner : Accounts, amount : Nat, valid : BOOLEAN, processed : BOOLEAN]

\* The contract let the owner exit an output of a confirmed transaction.
Exited(v, pos, exit) ==
    LET tx == Record(v, pos)
    IN  /\ pos \in ClientPositions
        /\ Found(v, pos)
        /\ Core(pos)[3] \in TxElements
        /\ exit \in ExitRecord
        /\ exit.owner = tx.outs[Core(pos)[3]].owner
        /\ \A i \in TxElements : ~IsNull(tx.ins[i]) => tx.ins[i].confSig # NullSignature

WalletInv ==
    /\ StoreInv(db)
    /\ MempoolPays(db)
    /\ DOMAIN cmd = Terminals
    /\ \A u \in Terminals : GoodCommand(db, cmd[u])
    /\ \A pos \in DOMAIN exits : Exited(db, pos, exits[pos])
    /\ events \subseteq ClientPositions

-----------------------------------------------------------------------------
(* The store moves on, and what commands hold stays good.                  *)

Moves(v, w) ==
    /\ StoreInv(v)
    /\ Keeps(v, w)
    /\ \A b \in DOMAIN v.header : b \in DOMAIN w.header /\ w.header[b] = v.header[b]

LEMMA SignersStillConfirm ==
    ASSUME NEW v, Authorized(v), SignersConfirm(v), MempoolPays(v),
           NEW w, Keeps(v, w), Origins(v, w)
    PROVE  SignersConfirm(w)
<1> SUFFICES ASSUME NEW k \in DOMAIN w.tx, NEW i \in TxElements
             PROVE  w.tx[k].ins[i].confSig \in {NullSignature, w.tx[k].ins[i].sig}
  BY DEF SignersConfirm
<1>1. CASE k \in DOMAIN v.tx
  BY <1>1 DEF Keeps, KeepsInputs, Authorized, AuthorizedTx, SignersConfirm
<1>2. CASE k \notin DOMAIN v.tx /\ NewDeposit(w.tx[k])
  BY <1>2 DEF NewDeposit
<1>3. ASSUME NEW h \in DOMAIN v.mempool, w.tx[k] = v.mempool[h]
      PROVE  w.tx[k].ins[i].confSig = NullSignature
  BY <1>3 DEF MempoolPays, Unconfirmed
<1> QED  BY <1>1, <1>2, <1>3 DEF Origins

LEMMA EffectMoves ==
    ASSUME NEW v, StoreInv(v), MempoolPays(v), NEW w, Effect(v, w)
    PROVE  StoreInv(w) /\ Moves(v, w)
<1>1. Inv(v) /\ Authorized(v) /\ Recorded(v) /\ Numbered(v)
  BY DEF StoreInv
<1>2. Inv(w) /\ Authorized(w) /\ Recorded(w) /\ Keeps(v, w) /\ SignersConfirm(w)
  BY <1>1, EffectPreservesInv, EffectPreservesAuthorized, EffectPreservesRecorded,
     EffectKeeps, SignersStillConfirm DEF StoreInv
<1>3. Rewrites(v, w) \/ \E txes : Appends(v, w, txes)
  BY <1>1, EffectRewrites, DepositAppends, SealAppends DEF Effect
<1>4. CASE Rewrites(v, w)
  <2>1. Numbered(w)
    BY <1>1, <1>4 DEF Rewrites, Numbered
  <2> QED  BY <1>2, <1>4, <2>1 DEF StoreInv, Moves, Rewrites
<1>5. ASSUME NEW txes, Appends(v, w, txes)
      PROVE  StoreInv(w) /\ Moves(v, w)
  <2>1. Numbered(w)
    BY <1>1, <1>5, AppendsPreservesNumbered
  <2>2. v.cur \notin DOMAIN v.header
    BY <1>1 DEF Recorded
  <2>3. \A b \in DOMAIN v.header : b \in DOMAIN w.header /\ w.header[b] = v.header[b]
    BY <1>5, <2>2 DEF Appends, Signs, Override
  <2> QED  BY <1>2, <2>1, <2>3 DEF StoreInv, Moves
<1> QED  BY <1>3, <1>4, <1>5

\* A record that was found stays, with its leaf and its confirmations.
LEMMA FoundKept ==
    ASSUME NEW v, NEW w, Moves(v, w), NEW pos, Found(v, pos)
    PROVE  /\ Found(w, pos)
           /\ MerkleLeaf(Record(w, pos)) = MerkleLeaf(Record(v, pos))
           /\ \A i \in TxElements :
                Record(v, pos).ins[i].confSig # NullSignature =>
                  Record(w, pos).ins[i].confSig = Record(v, pos).ins[i].confSig
           /\ \A old : Earlier(old, Record(v, pos)) => Earlier(old, Record(w, pos))
<1>1. /\ RecordKey(pos) \in DOMAIN v.tx
      /\ Authorized(v) /\ SignersConfirm(v)
      /\ Keeps(v, w)
  BY DEF Found, Moves, StoreInv
<1>2. RecordKey(pos) \in DOMAIN w.tx
  BY <1>1 DEF Keeps
<1>3. /\ MerkleLeaf(Record(w, pos)) = MerkleLeaf(Record(v, pos))
      /\ \A i \in TxElements :
           Record(v, pos).ins[i].confSig # NullSignature =>
             Record(w, pos).ins[i].confSig = Record(v, pos).ins[i].confSig
  BY <1>1, ConfirmationKept DEF Record
<1>4. \A old : Earlier(old, Record(v, pos)) => Earlier(old, Record(w, pos))
  BY <1>1, EarlierKept DEF Record
<1> QED  BY <1>2, <1>3, <1>4 DEF Found

\* The output of a payment keeps owner and amount.
LEMMA OutputKept ==
    ASSUME NEW v, NEW w, Moves(v, w), NEW core \in TxInCore, HasTxOut(v, core)
    PROVE  /\ HasTxOut(w, core)
           /\ getTxOut(w, core).owner = getTxOut(v, core).owner
           /\ getTxOut(w, core).amount = getTxOut(v, core).amount
<1>1. StoreType(v) /\ Keeps(v, w)
  BY DEF Moves, StoreInv, Inv
<1>2. TxKey(core) \in DOMAIN v.tx /\ core[3] \in TxElements
  BY <1>1, OutputType DEF HasTxOut, TxInCore
<1> QED  BY <1>1, <1>2 DEF HasTxOut, Keeps, KeepsOutputs, getTxOut

LEMMA GoodCommandKept ==
    ASSUME NEW v, NEW w, Moves(v, w), NEW c, GoodCommand(v, c)
    PROVE  GoodCommand(w, c)
<1>1. ASSUME GoodPayment(v, c)
      PROVE  GoodPayment(w, c)
  <2> DEFINE core == c.tx.ins[0].core
  <2>1. core \in TxInCore /\ HasTxOut(v, core)
    BY <1>1 DEF GoodPayment
  <2>2. /\ HasTxOut(w, core)
        /\ getTxOut(w, core).owner = getTxOut(v, core).owner
        /\ getTxOut(w, core).amount = getTxOut(v, core).amount
    BY <2>1, OutputKept
  <2> QED  BY <1>1, <2>2 DEF GoodPayment
<1>2. ASSUME GoodConfirmation(v, c)
      PROVE  GoodConfirmation(w, c)
  <2>1. /\ Found(w, c.pos)
        /\ MerkleLeaf(Record(w, c.pos)) = MerkleLeaf(Record(v, c.pos))
    BY <1>2, FoundKept DEF GoodConfirmation
  <2>2. TxHash(Record(w, c.pos)) = TxHash(Record(v, c.pos))
    BY <2>1, LeafParts
  <2> QED  BY <1>2, <2>1, <2>2 DEF GoodConfirmation
<1>3. ASSUME GoodExit(v, c)
      PROVE  /\ GoodExit(w, c)
             /\ GoodProof(v, c) => GoodProof(w, c)
  <2>1. /\ Found(v, c.pos)
        /\ Found(w, c.pos)
        /\ MerkleLeaf(Record(w, c.pos)) = MerkleLeaf(Record(v, c.pos))
        /\ Earlier(c.tx, Record(w, c.pos))
    BY <1>3, FoundKept DEF GoodExit
  <2>2. Core(c.pos)[1] \in DOMAIN v.header
    <3>1. RecordKey(c.pos)[1] \in DOMAIN v.header
      BY <2>1 DEF Found, Moves, StoreInv, Recorded
    <3> QED  BY <3>1 DEF RecordKey, TxKey
  <2>3. InOrder(w, Core(c.pos)[1]) <=> InOrder(v, Core(c.pos)[1])
    BY <2>2 DEF Moves, InOrder
  <2> QED  BY <1>3, <2>1, <2>3 DEF GoodExit, GoodProof
<1> QED  BY <1>1, <1>2, <1>3 DEF GoodCommand

LEMMA ExitedStays ==
    ASSUME NEW v, NEW w, Moves(v, w), NEW pos, NEW exit, Exited(v, pos, exit)
    PROVE  Exited(w, pos, exit)
<1> DEFINE old == Record(v, pos)
           new == Record(w, pos)
<1>1. /\ Found(w, pos)
      /\ MerkleLeaf(old) = MerkleLeaf(new)
      /\ \A i \in TxElements :
           old.ins[i].confSig # NullSignature => new.ins[i].confSig = old.ins[i].confSig
  BY FoundKept DEF Exited
<1>2. \A e \in TxElements : /\ old.ins[e].core = new.ins[e].core
                            /\ old.outs[e].owner = new.outs[e].owner
  BY <1>1, LeafParts
<1>3. /\ pos \in ClientPositions
      /\ Core(pos)[3] \in TxElements
      /\ exit \in ExitRecord
      /\ exit.owner = old.outs[Core(pos)[3]].owner
      /\ \A i \in TxElements : ~IsNull(old.ins[i]) => old.ins[i].confSig # NullSignature
  BY DEF Exited
<1> HIDE DEF old, new
<1>4. \A i \in TxElements : ~IsNull(new.ins[i]) => new.ins[i].confSig # NullSignature
  BY <1>1, <1>2, <1>3 DEF IsNull
<1>5. exit.owner = new.outs[Core(pos)[3]].owner
  BY <1>2, <1>3
<1> QED  BY <1>1, <1>3, <1>4, <1>5 DEF Exited, new

-----------------------------------------------------------------------------
(* The steps.                                                              *)

LEMMA WalletInitInv == WalletInit => WalletInv
<1> SUFFICES ASSUME WalletInit
             PROVE  WalletInv
  OBVIOUS
<1>1. db = NewChildChain
  BY DEF WalletInit, Init
<1>2. Authorized(db) /\ Numbered(db) /\ SignersConfirm(db) /\ MempoolPays(db)
  BY <1>1
  DEF Authorized, Numbered, SignersConfirm, MempoolPays, NewChildChain, FirstBlockNumber
<1>3. StoreInv(db)
  BY <1>1, <1>2, InitInv, InitRecorded DEF StoreInv
<1>4. DOMAIN cmd = Terminals /\ \A u \in Terminals : GoodCommand(db, cmd[u])
  BY DEF WalletInit, NoCommand, GoodCommand
<1>5. DOMAIN exits = {} /\ events = {}
  BY DEF WalletInit
<1> QED  BY <1>2, <1>3, <1>4, <1>5 DEF WalletInv

\* The store changes by an effect, and what is added to the mempool is a payment.
StoreStep ==
    /\ Effect(db, db') \/ db' = db
    /\ MempoolPays(db')

LEMMA StoreStepKeeps ==
    ASSUME WalletInv, StoreStep
    PROVE  /\ StoreInv(db')
           /\ \A c : GoodCommand(db, c) => GoodCommand(db', c)
           /\ \A pos, exit : Exited(db, pos, exit) => Exited(db', pos, exit)
<1>1. CASE Effect(db, db')
  <2>1. StoreInv(db') /\ Moves(db, db')
    BY <1>1, EffectMoves DEF WalletInv
  <2> QED  BY <2>1, GoodCommandKept, ExitedStays
<1>2. CASE db' = db
  BY <1>2 DEF WalletInv
<1> QED  BY <1>1, <1>2 DEF StoreStep

\* Steps that add nothing to the mempool.
LEMMA QuietStep ==
    ASSUME WalletInv,
           \/ DepositEffect(db, db') \/ SealEffect(db, db')
           \/ ConfirmEffect(db, db') \/ ExitEffect(db, db')
    PROVE  StoreStep
<1>1. DepositEffect(db, db') \/ SealEffect(db, db') => \E txes : Appends(db, db', txes)
  BY DepositAppends, SealAppends DEF WalletInv, StoreInv
<1>2. ConfirmEffect(db, db') \/ ExitEffect(db, db') => db'.mempool = db.mempool
  BY RecordEffect DEF WalletInv, StoreInv
<1>3. MempoolPays(db')
  BY <1>1, <1>2 DEF Appends, MempoolPays, WalletInv
<1> QED  BY <1>3 DEF StoreStep, Effect

LEMMA OperateStores ==
    ASSUME WalletInv, Operate
    PROVE  StoreStep
<1>1. ASSUME NEW owner \in Depositors, NEW amount \in DepositAmounts,
             Deposit(owner, amount)
      PROVE  DepositEffect(db, db')
  BY <1>1, WalletAssumption DEF Deposit, DepositEffect, Address
<1>2. ASSUME NEW order \in IterationOrders(db), Block(order)
      PROVE  SealEffect(db, db')
  BY <1>2, AddBlockSeals DEF Block, SealEffect, IterationOrders, WalletInv, StoreInv
<1> QED  BY <1>1, <1>2, QuietStep DEF Operate

LEMMA HandleExitStores ==
    ASSUME WalletInv, NEW pos \in events, HandleExit(pos)
    PROVE  StoreStep
<1>1. pos \in ClientPositions /\ db' = ExitTxOut(db, pos).db
  BY DEF WalletInv, HandleExit
<1>2. CASE ExitTxOut(db, pos).err = OK
  BY <1>1, <1>2, QuietStep DEF ExitEffect
<1>3. CASE ExitTxOut(db, pos).err # OK
  <2>1. db' = db
    BY <1>1, <1>3 DEF ExitTxOut, Failed, Done
  <2> QED  BY <2>1 DEF StoreStep, WalletInv
<1> QED  BY <1>2, <1>3

\* A payment names one output only.
LEMMA SpendsNamesOnce ==
    ASSUME NEW tx, NEW core, NEW signer, NEW n, Spends(tx, core, signer, n)
    PROVE  NamesOnce(tx)
  BY DEF Spends, NamesOnce, IsNull

LEMMA PostPaymentStores ==
    ASSUME WalletInv, NEW u \in Terminals, PostPayment(u)
    PROVE  StoreStep
<1> DEFINE tx == cmd[u].tx
<1>1. GoodPayment(db, cmd[u]) /\ db' = AddTxToMempool(db, tx).db
  BY DEF PostPayment, WalletInv, GoodCommand
<1>2. tx \in Tx /\ NamesOnce(tx) /\ Unconfirmed(tx)
  BY <1>1, SpendsNamesOnce DEF GoodPayment, Spends
<1> HIDE DEF tx
<1>3. CASE AddTxToMempool(db, tx).err = OK
  <2>1. ValidateTx(db, tx) = OK /\ db' = Accepted(db, tx)
    BY <1>1, <1>3, AddTxToMempoolAccepts
  <2>2. AcceptEffect(db, db')
    BY <1>2, <2>1 DEF AcceptEffect
  <2>3. db'.mempool = addTxToMempool(db, tx)
    BY <2>1 DEF Accepted, WalletInv, StoreInv, Inv, StoreType
  <2>4. MempoolPays(db')
    BY <1>2, <2>3 DEF MempoolPays, addTxToMempool, Override, WalletInv
  <2> QED  BY <2>2, <2>4 DEF StoreStep, Effect
<1>4. CASE AddTxToMempool(db, tx).err # OK
  <2>1. db' = db
    BY <1>1, <1>4 DEF AddTxToMempool, Failed, Done
  <2> QED  BY <2>1 DEF StoreStep, WalletInv
<1> QED  BY <1>3, <1>4

LEMMA PutConfirmationStores ==
    ASSUME WalletInv, NEW u \in Terminals, PutConfirmation(u)
    PROVE  StoreStep
<1> DEFINE pos == cmd[u].pos
           sig == ConfirmationSignature(cmd[u])
<1>1. GoodConfirmation(db, cmd[u]) /\ db' = ConfirmTx(db, pos, sig).db
  BY DEF PutConfirmation, WalletInv, GoodCommand
<1>2. pos \in ClientPositions /\ sig \in Signature
  BY <1>1 DEF GoodConfirmation, ConfirmationSignature, Signature
<1> HIDE DEF pos, sig
<1>3. CASE ConfirmTx(db, pos, sig).err = OK
  BY <1>1, <1>2, <1>3, QuietStep DEF ConfirmEffect
<1>4. CASE ConfirmTx(db, pos, sig).err # OK
  <2>1. db' = db
    BY <1>1, <1>4 DEF ConfirmTx, Failed, Done
  <2> QED  BY <2>1 DEF StoreStep, WalletInv
<1> QED  BY <1>3, <1>4

\* Commands that end, or go on with something good, leave the others as they are.
LEMMA Continues ==
    ASSUME NEW v, NEW c, DOMAIN c = Terminals,
           \A t \in Terminals : GoodCommand(v, c[t]),
           NEW u \in Terminals, NEW next, GoodCommand(v, next)
    PROVE  /\ DOMAIN [c EXCEPT ![u] = next] = Terminals
           /\ \A t \in Terminals : GoodCommand(v, [c EXCEPT ![u] = next][t])
  OBVIOUS

LEMMA NoCommandIsGood == \A v : GoodCommand(v, NoCommand)
  BY DEF NoCommand, GoodCommand

\* The store moves, a command may end.
LEMMA StoreStepInv ==
    ASSUME WalletInv, StoreStep, exits' = exits, events' \subseteq events,
           cmd' = cmd \/ \E u \in Terminals : Finish(u)
    PROVE  WalletInv'
<1>1. /\ StoreInv(db')
      /\ \A c : GoodCommand(db, c) => GoodCommand(db', c)
      /\ \A pos, exit : Exited(db, pos, exit) => Exited(db', pos, exit)
  BY StoreStepKeeps
<1>2. MempoolPays(db')
  BY DEF StoreStep
<1>3. \A u \in Terminals : GoodCommand(db', cmd[u])
  BY <1>1 DEF WalletInv
<1>4. DOMAIN cmd' = Terminals /\ \A u \in Terminals : GoodCommand(db', cmd'[u])
  <2>1. CASE cmd' = cmd
    BY <1>3, <2>1 DEF WalletInv
  <2>2. ASSUME NEW u \in Terminals, Finish(u)
        PROVE  DOMAIN cmd' = Terminals /\ \A t \in Terminals : GoodCommand(db', cmd'[t])
    BY <1>3, <2>2, Continues, NoCommandIsGood DEF Finish, WalletInv
  <2> QED  BY <2>1, <2>2
<1>5. \A pos \in DOMAIN exits' : Exited(db', pos, exits'[pos])
  BY <1>1 DEF WalletInv
<1>6. events' \subseteq ClientPositions
  BY DEF WalletInv
<1> QED  BY <1>1, <1>2, <1>4, <1>5, <1>6 DEF WalletInv

\* Only commands move.
LEMMA CommandStepInv ==
    ASSUME WalletInv, UNCHANGED <<db, contractVars>>,
           NEW u \in Terminals, NEW next, GoodCommand(db, next),
           cmd' = [cmd EXCEPT ![u] = next]
    PROVE  WalletInv'
<1>1. DOMAIN cmd' = Terminals /\ \A t \in Terminals : GoodCommand(db, cmd'[t])
  BY Continues DEF WalletInv
<1> QED  BY <1>1 DEF WalletInv, contractVars

\* The contract moves, a command may end.
LEMMA ContractStepInv ==
    ASSUME WalletInv, db' = db, events' \subseteq ClientPositions,
           \A pos \in DOMAIN exits' : Exited(db, pos, exits'[pos]),
           cmd' = cmd \/ \E u \in Terminals : Finish(u)
    PROVE  WalletInv'
<1>1. DOMAIN cmd' = Terminals /\ \A t \in Terminals : GoodCommand(db, cmd'[t])
  <2>1. ASSUME NEW u \in Terminals, Finish(u)
        PROVE  DOMAIN cmd' = Terminals /\ \A t \in Terminals : GoodCommand(db, cmd'[t])
    BY <2>1, Continues, NoCommandIsGood DEF Finish, WalletInv
  <2> QED  BY <2>1 DEF WalletInv
<1> QED  BY <1>1 DEF WalletInv

-----------------------------------------------------------------------------
(* What commands make of what they read.                                   *)

LEMMA ReadForPaymentInv ==
    ASSUME WalletInv, NEW u \in Terminals, NEW pos \in ClientPositions,
           NEW payment \in Payments, NEW signer \in Accounts,
           ReadForPayment(u, pos, payment[1], payment[2], signer)
    PROVE  WalletInv'
<1> DEFINE core == Core(pos)
           out == GetTx(pos).outs[core[3]]
           tx == Payment(core, out, payment[1], payment[2], signer)
           c == [step |-> "post", tx |-> tx, honest |-> signer = out.owner]
<1>1. /\ HasTx(pos) /\ IsExistOutput(core[3])
      /\ payment[2] <= out.amount
      /\ Enter(u, c)
  BY DEF ReadForPayment
<1>2. /\ StoreType(db) /\ Numbered(db)
  BY DEF WalletInv, StoreInv, Inv
<1>3. Found(db, pos) /\ GetTx(pos) = Record(db, pos)
  BY <1>1, ReadIsFound
<1>4. core \in TxInCore /\ core[3] \in TxElements /\ Record(db, pos) \in Tx
  BY <1>1, <1>2, <1>3, FoundType DEF TxInCore
<1>5. out \in TxOut /\ out = getTxOut(db, core)
  BY <1>3, <1>4 DEF Tx, getTxOut, Record, RecordKey
<1>6. HasTxOut(db, core)
  BY <1>1, <1>3 DEF HasTxOut, Found, RecordKey
<1>7. core # NullTxInCore
  <2>1. core[1] # 0
    BY <1>2, <1>3 DEF Numbered, Found, RecordKey, TxKey
  <2> QED  BY <2>1 DEF NullTxInCore
<1>8. payment[1] \in Accounts /\ payment[2] \in Nat
  BY WalletAssumption
<1> HIDE DEF core, out
<1>9. Spends(tx, core, signer, out.amount)
  BY <1>1, <1>4, <1>5, <1>7, <1>8, PaymentSpends
<1>10. tx.ins[0].core = core /\ tx.ins[0].sig = signer
  BY <1>9 DEF Spends
<1> HIDE DEF tx
<1>11. c.step = "post" /\ c.tx = tx /\ (c.honest => signer = out.owner)
  OBVIOUS
<1> HIDE DEF c
<1>12. GoodPayment(db, c)
  BY <1>4, <1>5, <1>6, <1>9, <1>10, <1>11 DEF GoodPayment
<1>13. GoodCommand(db, c)
  BY <1>11, <1>12 DEF GoodCommand
<1> QED  BY <1>1, <1>13, CommandStepInv DEF Enter

LEMMA ReadForConfirmationInv ==
    ASSUME WalletInv, NEW u \in Terminals, NEW pos \in ClientPositions,
           NEW signer \in Accounts, ReadForConfirmation(u, pos, signer)
    PROVE  WalletInv'
<1> DEFINE c == [step |-> "put", pos |-> pos, hash |-> TxHash(GetTx(pos)),
                 signer |-> signer]
<1>1. HasTx(pos) /\ IsExistInput(Core(pos)[3]) /\ Enter(u, c)
  BY DEF ReadForConfirmation
<1>2. Found(db, pos) /\ TxHash(GetTx(pos)) = TxHash(Record(db, pos))
  BY <1>1, ReadIsFound
<1>3. GoodCommand(db, c)
  BY <1>1, <1>2 DEF GoodCommand, GoodConfirmation
<1> HIDE DEF c
<1> QED  BY <1>1, <1>3, CommandStepInv DEF Enter

LEMMA ReadForExitInv ==
    ASSUME WalletInv, NEW u \in Terminals, NEW pos \in ClientPositions,
           NEW sender \in Accounts, ReadForExit(u, pos, sender)
    PROVE  WalletInv'
<1> DEFINE c == [step |-> "prove", pos |-> pos, tx |-> GetTx(pos), sender |-> sender]
<1>1. HasTx(pos) /\ Enter(u, c)
  BY DEF ReadForExit
<1>2. Found(db, pos) /\ GetTx(pos) = Record(db, pos)
  BY <1>1, ReadIsFound
<1>3. Record(db, pos) \in Tx
  BY <1>2, FoundType DEF WalletInv, StoreInv, Inv
<1>4. GoodCommand(db, c)
  BY <1>2, <1>3 DEF GoodCommand, GoodExit, Earlier
<1> HIDE DEF c
<1> QED  BY <1>1, <1>4, CommandStepInv DEF Enter

LEMMA ReadForChallengeInv ==
    ASSUME WalletInv, NEW u \in Terminals, NEW pos, NEW spending,
           ReadForChallenge(u, pos, spending)
    PROVE  WalletInv'
<1>1. PICK tx, sig : Enter(u, [step |-> "challenge", pos |-> pos, tx |-> tx, confSig |-> sig])
  BY DEF ReadForChallenge
<1> DEFINE c == [step |-> "challenge", pos |-> pos, tx |-> tx, confSig |-> sig]
<1>2. GoodCommand(db, c)
  BY DEF GoodCommand
<1> HIDE DEF c
<1> QED  BY <1>1, <1>2, CommandStepInv DEF Enter, c

\* The leaf of a record is the one its block was signed with, and the one its
\* proof proves if the block's keys are in order.
LEMMA RecordedLeaf ==
    ASSUME NEW v, StoreInv(v), NEW k \in DOMAIN v.tx
    PROVE  /\ v.header[k[1]][k[2]] = MerkleLeaf(v.tx[k])
           /\ InOrder(v, k[1]) => GetTxProof(v, k[1], k[2]) = MerkleLeaf(v.tx[k])
<1> DEFINE b == k[1]
           i == k[2]
<1>1. StoreType(v) /\ Recorded(v)
  BY DEF StoreInv, Inv
<1>2. k = <<b, i>>
  BY <1>1 DEF StoreType
<1>3. b \in DOMAIN v.header /\ i \in DOMAIN v.header[b]
  BY <1>1 DEF Recorded
<1> HIDE DEF b, i
<1>4. PICK n \in 1 .. MaxBlockTxesNum :
        /\ DOMAIN v.header[b] = 0 .. n - 1
        /\ \A j \in 0 .. n - 1 : v.header[b][j] = MerkleLeaf(v.tx[<<b, j>>])
  BY <1>1, <1>3 DEF Recorded, SignedAs
<1>5. v.header[b][i] = MerkleLeaf(v.tx[k])
  BY <1>2, <1>3, <1>4
<1>6. ASSUME InOrder(v, b)
      PROVE  GetTxProof(v, b, i) = v.header[b][i]
  <2>1. n \in Nat /\ Ordered(n)
    <3>1. n \in Nat
      BY ChildChainAssumption
    <3> QED  BY <1>4, <1>6, <3>1 DEF InOrder, Ordered
  <2>2. Served(v, b) = v.header[b]
    BY <1>1, <1>3, <1>4, <2>1, OrderedServed
  <2> QED  BY <2>2 DEF Served, GetTxProof
<1> QED  BY <1>5, <1>6 DEF b, i

LEMMA ReadProofInv ==
    ASSUME WalletInv, NEW u \in Terminals, ReadProof(u)
    PROVE  WalletInv'
<1> DEFINE old == cmd[u]
           pos == old.pos
           c == [step  |-> "exit", pos |-> pos, tx |-> old.tx, sender |-> old.sender,
                 proof |-> ProofFor(pos)]
<1>1. /\ old.step = "prove"
      /\ cmd' = [cmd EXCEPT ![u] = c]
      /\ UNCHANGED <<db, contractVars>>
  BY DEF ReadProof, WalletInv
<1>2. GoodExit(db, old)
  BY <1>1 DEF WalletInv, GoodCommand
<1>3. GoodExit(db, c)
  BY <1>2 DEF GoodExit
<1>4. GoodProof(db, c)
  <2>1. pos \in ClientPositions /\ RecordKey(pos) \in DOMAIN db.tx /\ StoreInv(db)
    BY <1>2 DEF GoodExit, Found, WalletInv
  <2>2. ProofFor(pos) = GetTxProof(db, RecordKey(pos)[1], RecordKey(pos)[2])
    BY <2>1, TxOfPosition, WalletAssumption, ChildChainAssumption DEF ProofFor
  <2>3. RecordKey(pos)[1] = Core(pos)[1]
    BY DEF RecordKey, TxKey
  <2> HIDE DEF pos
  <2>4. InOrder(db, Core(pos)[1]) => ProofFor(pos) = MerkleLeaf(Record(db, pos))
    BY <2>1, <2>2, <2>3, RecordedLeaf DEF Record
  <2> QED  BY <2>4 DEF GoodProof
<1>5. GoodCommand(db, c)
  BY <1>3, <1>4 DEF GoodCommand
<1> HIDE DEF c, old, pos
<1> QED  BY <1>1, <1>5, CommandStepInv

LEMMA StartExitInv ==
    ASSUME WalletInv, NEW u \in Terminals, StartExit(u)
    PROVE  WalletInv'
<1> DEFINE c == cmd[u]
           exit == [owner     |-> c.sender,
                    amount    |-> c.tx.outs[Core(c.pos)[3]].amount,
                    valid     |-> TRUE,
                    processed |-> FALSE]
<1>1. GoodExit(db, c) /\ db' = db /\ Finish(u)
  BY DEF StartExit, WalletInv, GoodCommand
<1>2. CASE AcceptsExit(c.pos, c.sender, c.tx, c.proof)
  <2> DEFINE pos == c.pos
             tx == Record(db, pos)
  <2>1. /\ exits' = Override(exits, [p \in {pos} |-> exit])
        /\ events' = events \cup {pos}
    BY <1>2 DEF StartExit
  <2>2. /\ pos \in ClientPositions
        /\ Found(db, pos)
        /\ Earlier(c.tx, tx)
        /\ c.sender \in Accounts
    BY <1>1 DEF GoodExit
  <2>3. /\ IsExistOutput(Core(pos)[3])
        /\ c.sender = c.tx.outs[Core(pos)[3]].owner
        /\ \A i \in TxElements : ~IsNull(c.tx.ins[i]) => c.tx.ins[i].confSig # NullSignature
    BY <1>2 DEF AcceptsExit
  <2>4. Core(pos)[3] \in TxElements
    BY <2>2, <2>3, FoundType DEF WalletInv, StoreInv, Inv
  <2>5. /\ c.tx \in Tx
        /\ \A e \in TxElements : /\ c.tx.ins[e].core = tx.ins[e].core
                                 /\ c.tx.outs[e].owner = tx.outs[e].owner
        /\ \A i \in TxElements :
             c.tx.ins[i].confSig # NullSignature => tx.ins[i].confSig = c.tx.ins[i].confSig
    BY <2>2, LeafParts DEF Earlier
  <2> HIDE DEF tx, pos, c
  <2>6. exit \in ExitRecord
    BY <2>2, <2>4, <2>5 DEF ExitRecord, Tx, TxOut, pos
  <2>7. exit.owner = tx.outs[Core(pos)[3]].owner
    BY <2>3, <2>4, <2>5
  <2>8. \A i \in TxElements : ~IsNull(tx.ins[i]) => tx.ins[i].confSig # NullSignature
    BY <2>3, <2>5 DEF IsNull
  <2> HIDE DEF exit
  <2>9. Exited(db, pos, exit)
    BY <2>2, <2>4, <2>6, <2>7, <2>8 DEF Exited, tx
  <2>10. \A p \in DOMAIN exits' : Exited(db, p, exits'[p])
    BY <2>1, <2>9 DEF Override, WalletInv
  <2>11. events' \subseteq ClientPositions
    BY <2>1, <2>2 DEF WalletInv
  <2> QED  BY <1>1, <2>10, <2>11, ContractStepInv
<1>3. CASE ~AcceptsExit(c.pos, c.sender, c.tx, c.proof)
  <2>1. exits' = exits /\ events' = events
    BY <1>3 DEF StartExit, contractVars
  <2> HIDE DEF c
  <2>2. \A p \in DOMAIN exits' : Exited(db, p, exits'[p])
    BY <2>1 DEF WalletInv
  <2>3. events' \subseteq ClientPositions
    BY <2>1 DEF WalletInv
  <2> QED  BY <1>1, <2>2, <2>3, ContractStepInv
<1> QED  BY <1>2, <1>3

\* A challenge or the processing of an exit leaves its owner.
LEMMA ExitedRewritten ==
    ASSUME NEW v, NEW pos, NEW old, Exited(v, pos, old),
           NEW new \in ExitRecord, new.owner = old.owner
    PROVE  Exited(v, pos, new)
  BY DEF Exited

LEMMA ChallengeExitInv ==
    ASSUME WalletInv, NEW u \in Terminals, ChallengeExit(u)
    PROVE  WalletInv'
<1> DEFINE pos == cmd[u].pos
<1>1. /\ exits' = exits \/ exits' = [exits EXCEPT ![pos].valid = FALSE]
      /\ Finish(u)
      /\ db' = db /\ events' = events
  BY DEF ChallengeExit
<1> HIDE DEF pos
<1>2. \A p \in DOMAIN exits : Exited(db, p, exits[p]) /\ exits[p] \in ExitRecord
  BY DEF WalletInv, Exited
<1>3. ASSUME NEW p \in DOMAIN exits'
      PROVE  Exited(db, p, exits'[p])
  <2>1. CASE exits' = exits
    BY <1>2, <2>1
  <2>2. CASE exits' = [exits EXCEPT ![pos].valid = FALSE]
    <3>1. p \in DOMAIN exits
      BY <2>2
    <3>2. exits'[p] \in ExitRecord /\ exits'[p].owner = exits[p].owner
      BY <1>2, <2>2, <3>1 DEF ExitRecord
    <3> QED  BY <1>2, <3>1, <3>2, ExitedRewritten
  <2> QED  BY <1>1, <2>1, <2>2
<1>4. events' \subseteq ClientPositions
  BY <1>1 DEF WalletInv
<1> QED  BY <1>1, <1>3, <1>4, ContractStepInv

LEMMA ProcessExitsInv ==
    ASSUME WalletInv, ProcessExits
    PROVE  WalletInv'
<1>1. /\ exits' = [p \in DOMAIN exits |-> [exits[p] EXCEPT !.processed = TRUE]]
      /\ db' = db /\ events' = events /\ cmd' = cmd
  BY DEF ProcessExits
<1>2. ASSUME NEW p \in DOMAIN exits'
      PROVE  Exited(db, p, exits'[p])
  <2>1. p \in DOMAIN exits /\ exits'[p] = [exits[p] EXCEPT !.processed = TRUE]
    BY <1>1
  <2>2. Exited(db, p, exits[p]) /\ exits[p] \in ExitRecord
    BY <2>1 DEF WalletInv, Exited
  <2>3. exits'[p] \in ExitRecord /\ exits'[p].owner = exits[p].owner
    BY <2>1, <2>2 DEF ExitRecord
  <2> QED  BY <2>2, <2>3, ExitedRewritten
<1>3. events' \subseteq ClientPositions
  BY <1>1 DEF WalletInv
<1> QED  BY <1>1, <1>2, <1>3, ContractStepInv

-----------------------------------------------------------------------------
(* Every step.                                                             *)

LEMMA WalletStep ==
    ASSUME WalletInv, [WalletNext]_walletVars
    PROVE  WalletInv' /\ (Effect(db, db') \/ db' = db)
<1>1. CASE Operate
  <2>1. StoreStep /\ exits' = exits /\ events' = events /\ cmd' = cmd
    BY <1>1, OperateStores DEF Operate, contractVars
  <2> QED  BY <2>1, StoreStepInv DEF StoreStep
<1>2. ASSUME NEW pos \in events, HandleExit(pos)
      PROVE  WalletInv' /\ (Effect(db, db') \/ db' = db)
  <2>1. StoreStep /\ exits' = exits /\ events' \subseteq events /\ cmd' = cmd
    BY <1>2, HandleExitStores DEF HandleExit
  <2> QED  BY <2>1, StoreStepInv DEF StoreStep
<1>3. CASE ProcessExits
  BY <1>3, ProcessExitsInv DEF ProcessExits
<1>4. ASSUME NEW u \in Terminals, PostPayment(u) \/ PutConfirmation(u)
      PROVE  WalletInv' /\ (Effect(db, db') \/ db' = db)
  <2>1. /\ StoreStep
        /\ exits' = exits /\ events' \subseteq events
        /\ \E t \in Terminals : Finish(t)
    BY <1>4, PostPaymentStores, PutConfirmationStores
    DEF PostPayment, PutConfirmation, contractVars
  <2> QED  BY <2>1, StoreStepInv DEF StoreStep
<1>5. ASSUME NEW u \in Terminals, Start(u)
      PROVE  WalletInv' /\ db' = db
  <2>1. PICK pos \in ClientPositions, signer \in Accounts :
          \/ \E payment \in Payments :
              ReadForPayment(u, pos, payment[1], payment[2], signer)
          \/ ReadForConfirmation(u, pos, signer)
          \/ ReadForExit(u, pos, signer)
          \/ \E spending \in ClientPositions : ReadForChallenge(u, pos, spending)
    BY <1>5 DEF Start
  <2>2. WalletInv'
    BY <2>1, ReadForPaymentInv, ReadForConfirmationInv, ReadForExitInv,
       ReadForChallengeInv
  <2>3. db' = db
    BY <2>1
    DEF ReadForPayment, ReadForConfirmation, ReadForExit, ReadForChallenge, Enter
  <2> QED  BY <2>2, <2>3
<1>6. ASSUME NEW u \in Terminals, ReadProof(u) \/ StartExit(u) \/ ChallengeExit(u)
      PROVE  WalletInv' /\ db' = db
  BY <1>6, ReadProofInv, StartExitInv, ChallengeExitInv
  DEF ReadProof, StartExit, ChallengeExit
<1>7. CASE UNCHANGED walletVars
  BY <1>7 DEF walletVars, contractVars, WalletInv
<1> QED  BY <1>1, <1>2, <1>3, <1>4, <1>5, <1>6, <1>7 DEF WalletNext

LEMMA WalletInvHolds == WalletSpec => []WalletInv
<1>1. WalletInv /\ [WalletNext]_walletVars => WalletInv'
  BY WalletStep
<1> QED  BY <1>1, WalletInitInv, PTL DEF WalletSpec
-----------------------------------------------------------------------------
(* What the invariant says of the commands and the exits.                  *)

\* A non-null input of a record names an output the store has, whose owner
\* signed for it.
LEMMA InputOfRecord ==
    ASSUME NEW v, StoreInv(v), NEW k \in DOMAIN v.tx, NEW i \in TxElements,
           ~IsNull(v.tx[k].ins[i])
    PROVE  LET txIn == v.tx[k].ins[i]
               owner == getTxOut(v, txIn.core).owner
           IN  /\ HasTxOut(v, txIn.core)
               /\ txIn.sig = owner
               /\ txIn.confSig \in {NullSignature, owner}
<1>1. v.tx[k].ins[i].core \in Consumes(v.tx[k])
  BY NamedConsumed
<1>2. Inv(v) /\ Authorized(v) /\ SignersConfirm(v)
  BY DEF StoreInv
<1>3. HasTxOut(v, v.tx[k].ins[i].core)
  BY <1>1, <1>2 DEF Inv, InputsNamed
<1> QED  BY <1>2, <1>3 DEF Authorized, AuthorizedTx, SignersConfirm

LEMMA PaymentAccepted ==
    ASSUME WalletInv, NEW u \in Terminals, cmd[u].step = "post", cmd[u].honest
    PROVE  AddTxToMempool(db, cmd[u].tx).err \in
             {OK, "ErrMempoolFull", "ErrTxOutAlreadySpent", "ErrTxOutAlreadyExited"}
<1> DEFINE tx == cmd[u].tx
           in == tx.ins[0]
<1>1. GoodPayment(db, cmd[u]) /\ StoreType(db)
  BY DEF WalletInv, GoodCommand, StoreInv, Inv
<1>2. /\ in.core \in TxInCore
      /\ in.sig \in Accounts
      /\ HasTxOut(db, in.core)
      /\ Spends(tx, in.core, in.sig, getTxOut(db, in.core).amount)
      /\ in.sig = getTxOut(db, in.core).owner
  BY <1>1 DEF GoodPayment
<1> HIDE DEF in
<1> QED  BY <1>1, <1>2, SpendingAccepted

LEMMA ConfirmationAccepted ==
    ASSUME WalletInv, NEW u \in Terminals, cmd[u].step = "put",
           ~IsNull(GetTx(cmd[u].pos).ins[Core(cmd[u].pos)[3]]),
           Output(GetTx(cmd[u].pos).ins[Core(cmd[u].pos)[3]].core).owner = cmd[u].signer
    PROVE  ConfirmTx(db, cmd[u].pos, ConfirmationSignature(cmd[u])).err = OK
<1> DEFINE pos == cmd[u].pos
           k == RecordKey(pos)
           i == Core(pos)[3]
           txIn == db.tx[k].ins[i]
<1>1. GoodConfirmation(db, cmd[u]) /\ StoreInv(db)
  BY DEF WalletInv, GoodCommand
<1>2. /\ pos \in ClientPositions
      /\ ~ParsePanics(pos)
      /\ k \in DOMAIN db.tx
      /\ IsExistInput(i)
      /\ cmd[u].hash = TxHash(Record(db, pos))
      /\ cmd[u].signer \in Accounts
  BY <1>1 DEF GoodConfirmation, Found
<1>3. GetTx(pos) = Record(db, pos) /\ Record(db, pos) = db.tx[k]
  BY <1>2, ReadIsFound DEF Record
<1>4. i \in TxElements
  BY <1>1, <1>2, FoundType DEF GoodConfirmation, StoreInv, Inv
<1>5. ~IsNull(txIn) /\ getTxOut(db, txIn.core).owner = cmd[u].signer
  BY <1>3 DEF Output
<1>6. ConfirmationSignature(cmd[u]) = cmd[u].signer
  BY <1>2, <1>3 DEF ConfirmationSignature
<1>7. HasTxOut(db, txIn.core)
  BY <1>1, <1>2, <1>4, <1>5, InputOfRecord
<1>8. ~WrongConfirmation(db, txIn, cmd[u].signer)
  BY <1>2, <1>5, TxAssumption DEF WrongConfirmation
<1>9. ParseTxInPosition(pos) = Core(pos)
  BY DEF ParseTxInPosition, Core, ParseTxOutPosition
<1> QED  BY <1>2, <1>5, <1>6, <1>7, <1>8, <1>9 DEF ConfirmTx, Done, RecordKey

LEMMA InvGivesGoodCommands == WalletInv => CommandsStayGood
  BY PaymentAccepted, ConfirmationAccepted DEF CommandsStayGood

LEMMA ExitAccepted ==
    ASSUME WalletInv, NEW c, NEW proof, GoodExit(db, c),
           IsExistOutput(Core(c.pos)[3]),
           proof = MerkleLeaf(Record(db, c.pos)),
           c.sender = c.tx.outs[Core(c.pos)[3]].owner,
           \A i \in TxElements : ~IsNull(c.tx.ins[i]) => Confirmed(c.tx, i),
           c.pos \notin DOMAIN exits
    PROVE  AcceptsExit(c.pos, c.sender, c.tx, proof)
<1> DEFINE pos == c.pos
           k == RecordKey(pos)
           tx == db.tx[k]
<1>1. /\ k \in DOMAIN db.tx
      /\ Earlier(c.tx, tx)
      /\ StoreInv(db)
  BY DEF GoodExit, Found, WalletInv, Record
<1>2. MerkleLeaf(c.tx) = MerkleLeaf(tx)
  BY <1>1 DEF Earlier
<1>3. db.header[Core(pos)[1]][Core(pos)[2]] = MerkleLeaf(tx)
  <2>1. k[1] = Core(pos)[1] /\ k[2] = Core(pos)[2]
    BY DEF RecordKey, TxKey
  <2>2. db.header[k[1]][k[2]] = MerkleLeaf(tx)
    BY <1>1, RecordedLeaf
  <2> QED  BY <2>1, <2>2
<1>4. ASSUME NEW i \in TxElements, ~IsNull(c.tx.ins[i])
      PROVE  c.tx.ins[i].confSig # NullSignature /\ c.tx.ins[i].confSig = c.tx.ins[i].sig
  <2>1. c.tx.ins[i].core = tx.ins[i].core /\ c.tx.ins[i].sig = tx.ins[i].sig
    BY <1>2, LeafParts
  <2>2. c.tx.ins[i].confSig # NullSignature
    BY <1>4 DEF Confirmed
  <2>3. tx.ins[i].confSig = c.tx.ins[i].confSig
    BY <1>1, <2>2 DEF Earlier
  <2>4. ~IsNull(tx.ins[i])
    BY <1>4, <2>1 DEF IsNull
  <2>5. tx.ins[i].confSig \in {NullSignature, tx.ins[i].sig}
    BY <1>1, <2>4, InputOfRecord
  <2> QED  BY <2>1, <2>2, <2>3, <2>5
<1> QED  BY <1>2, <1>3, <1>4 DEF AcceptsExit, Record

LEMMA InvGivesGoodExits == WalletInv => ExitsStayGood
<1> SUFFICES ASSUME WalletInv, NEW u \in Terminals,
                    cmd[u].step \in {"prove", "exit"},
                    IsExistOutput(Core(cmd[u].pos)[3]),
                    KeysInOrder(Core(cmd[u].pos)[1]),
                    cmd[u].sender = cmd[u].tx.outs[Core(cmd[u].pos)[3]].owner,
                    \A i \in TxElements :
                      ~IsNull(cmd[u].tx.ins[i]) => Confirmed(cmd[u].tx, i),
                    cmd[u].pos \notin DOMAIN exits
             PROVE  AcceptsExit(cmd[u].pos, cmd[u].sender, cmd[u].tx,
                                IF cmd[u].step = "exit" THEN cmd[u].proof
                                ELSE ProofFor(cmd[u].pos))
  BY DEF ExitsStayGood
<1> DEFINE c == cmd[u]
           pos == c.pos
           k == RecordKey(pos)
           proof == IF c.step = "exit" THEN c.proof ELSE ProofFor(pos)
<1>1. /\ GoodExit(db, c)
      /\ c.step = "exit" => GoodProof(db, c)
      /\ StoreInv(db)
  BY DEF WalletInv, GoodCommand
<1>2. InOrder(db, Core(pos)[1])
  BY DEF InOrder, KeysInOrder
<1>3. pos \in ClientPositions /\ k \in DOMAIN db.tx
  BY <1>1 DEF GoodExit, Found
<1>4. ProofFor(pos) = GetTxProof(db, k[1], k[2])
  BY <1>3, TxOfPosition, WalletAssumption, ChildChainAssumption DEF ProofFor
<1>5. k[1] = Core(pos)[1]
  BY DEF RecordKey, TxKey
<1>6. GetTxProof(db, k[1], k[2]) = MerkleLeaf(db.tx[k])
  BY <1>1, <1>2, <1>3, <1>5, RecordedLeaf
<1>7. proof = MerkleLeaf(Record(db, pos))
  BY <1>1, <1>2, <1>4, <1>6 DEF GoodProof, Record
<1> HIDE DEF proof
<1>8. AcceptsExit(c.pos, c.sender, c.tx, proof)
  BY <1>1, <1>7, ExitAccepted
<1> QED  BY <1>8 DEF proof

LEMMA InvGivesChallenges == WalletInv => DoubleExitsChallengeable
<1> SUFFICES ASSUME WalletInv, NEW pos \in DOMAIN exits, NEW later \in DOMAIN exits,
                    NEW i \in TxElements,
                    GetTx(later).ins[i].core = Core(pos),
                    exits[pos].valid,
                    ~exits[pos].processed
             PROVE  /\ Confirmed(GetTx(later), i)
                    /\ AcceptsChallenge(pos, GetTx(later), GetTx(later).ins[i].confSig)
  BY DEF DoubleExitsChallengeable
<1> DEFINE k == RecordKey(later)
           tx == db.tx[k]
           txIn == tx.ins[i]
<1>1. Exited(db, pos, exits[pos]) /\ Exited(db, later, exits[later]) /\ StoreInv(db)
  BY DEF WalletInv
<1>2. later \in ClientPositions /\ k \in DOMAIN db.tx /\ RecordKey(pos) \in DOMAIN db.tx
  BY <1>1 DEF Exited, Found
<1>3. GetTx(later) = tx
  BY <1>2, ReadIsFound DEF Record
<1>4. Core(pos)[1] # 0
  <2>1. RecordKey(pos)[1] \in 1 .. MaxBlkNum
    BY <1>1, <1>2 DEF StoreInv, Numbered
  <2> QED  BY <2>1, ChildChainAssumption DEF RecordKey, TxKey
<1>5. txIn.core = Core(pos) /\ ~IsNull(txIn)
  BY <1>3, <1>4 DEF IsNull, NullTxInCore
<1>6. txIn.confSig # NullSignature
  <2>1. \A j \in TxElements :
          ~IsNull(Record(db, later).ins[j]) => Record(db, later).ins[j].confSig # NullSignature
    BY <1>1 DEF Exited
  <2> QED  BY <1>5, <2>1 DEF Record
<1>7. exits[pos].owner = getTxOut(db, Core(pos)).owner
  BY <1>1 DEF Exited, Record, RecordKey, getTxOut
<1>8. txIn.confSig \in {NullSignature, getTxOut(db, txIn.core).owner}
  BY <1>1, <1>2, <1>5, InputOfRecord
<1>9. txIn.confSig = exits[pos].owner
  BY <1>5, <1>6, <1>7, <1>8
<1>10. Core(pos) \in Consumes(tx)
  BY <1>5, NamedConsumed
<1>11. IsExistInput(i)
  BY DEF IsExistInput
<1> HIDE DEF tx, k
<1> QED  BY <1>3, <1>6, <1>9, <1>10, <1>11 DEF Confirmed, AcceptsChallenge

LEMMA InvGivesSpendable ==
    ASSUME PositionsFit, WalletInv, IndexInv(db)
    PROVE  ListedOutputsSpendable
<1> SUFFICES ASSUME NEW addr \in Accounts, NEW pos \in GetUTXOPositions(db, addr)
             PROVE  LET inTxOut == GetTx(pos).outs[Core(pos)[3]]
                    IN  AddTxToMempool(db, Payment(Core(pos), inTxOut, addr,
                                                   inTxOut.amount, addr)).err
                          \in {OK, "ErrMempoolFull"}
  BY DEF ListedOutputsSpendable
<1>1. StoreInv(db) /\ Inv(db) /\ StoreType(db)
  BY DEF WalletInv, StoreInv, Inv
<1>2. PICK core \in Outputs :
        /\ pos = PositionOf(core)
        /\ Output(core).owner = addr
        /\ ~Output(core).spent
        /\ ~Output(core).exited
  BY <1>1, IndexGivesExactListing DEF UTXOListingExact, PositionOf, Address
<1>3. Element(core) /\ HasTxOut(db, core)
  <2>1. core \in OutputsOf(db)
    BY <1>2 DEF Outputs, OutputsOf
  <2> QED  BY <1>1, <2>1, OutputElement, OutputNamed DEF IndexInv
<1>4. Core(pos) = core
  BY <1>2, <1>3, ElementParses DEF Core
<1>5. pos \in Nat /\ pos < Uint64Limit
  BY <1>2, <1>3, PositionAssumption
  DEF Element, PositionOf, NewTxOutPosition, newTxElementPosition, NewTxPosition, Uint64
<1>6. GetTx(pos) = db.tx[TxKey(core)]
  BY <1>4, <1>5, TxOfPosition DEF GetTx, RecordKey
<1> DEFINE out == getTxOut(db, core)
           tx == Payment(core, out, addr, out.amount, addr)
<1>7. GetTx(pos).outs[Core(pos)[3]] = out
  BY <1>4, <1>6 DEF getTxOut
<1>8. core \in TxInCore /\ core # NullTxInCore
  BY <1>3 DEF Element, TxInCore, NullTxInCore
<1>9. out \in TxOut /\ out.amount \in Nat
  BY <1>1, <1>3, <1>8, OutputType DEF TxInCore, TxOut
<1>10. out.owner = addr /\ ~out.spent /\ ~out.exited
  BY <1>2 DEF Output
<1> HIDE DEF out
<1>11. Spends(tx, core, addr, out.amount)
  BY <1>8, <1>9, PaymentSpends
<1> HIDE DEF tx
<1>12. AddTxToMempool(db, tx).err \in {OK, "ErrMempoolFull"}
  BY <1>1, <1>3, <1>8, <1>10, <1>11, SpendingAccepted DEF out
<1> QED  BY <1>4, <1>7, <1>12 DEF tx

-----------------------------------------------------------------------------
(* The theorems.                                                           *)

\* Whatever commands send, the store changes as it does for clients that make
\* one request at a time: by a deposit, a block, an accepted transaction, a
\* confirmation or an exit.
THEOREM WalletIsSerial == WalletSpec => Serial
<1>1. WalletInit => Init
  BY DEF WalletInit
<1>2. WalletInv /\ [WalletNext]_walletVars => [Effect(db, db')]_db
  BY WalletStep
<1> QED  BY <1>1, <1>2, WalletInvHolds, PTL DEF WalletSpec, Serial

\* tx post and txin confirm (cmd_tx_post.go, cmd_txin_confirm.go) sign what they
\* read and send it later: owners, amounts and hashes of the transactions in
\* blocks never change, so the node can refuse an owner's payment only for what
\* happened to the output or for a full mempool, and not a confirmation.
THEOREM GoodCommands == WalletSpec => []CommandsStayGood
  BY WalletInvHolds, InvGivesGoodCommands, PTL

\* exit start, cmd_exit_start.go:35-51, reads a transaction, then its proof, and
\* calls the contract with both: between the reads the record may be spent,
\* exited and confirmed, but neither its leaf nor a confirmation it has changes.
\* Where the keys of its block are in order, the proof is of its leaf.
THEOREM GoodExits == WalletSpec => []ExitsStayGood
  BY WalletInvHolds, InvGivesGoodExits, PTL

\* exit challenge, cmd_exit_challenge.go:35-47: the contract let the spending
\* transaction's output exit because its inputs are confirmed, and the
\* confirmation the node serves is of the owner of the output that exited.
THEOREM DoubleExits == WalletSpec => []DoubleExitsChallengeable
  BY WalletInvHolds, InvGivesChallenges, PTL

\* GetUTXOPositions, childchain.go:352-384, and ValidateTx, childchain.go:231-292,
\* agree on what an account can spend, as long as positions fit in a uint64.
THEOREM ListedSpendable == PositionsFit => (WalletSpec => []ListedOutputsSpendable)
<1> SUFFICES ASSUME PositionsFit
             PROVE  WalletSpec => []ListedOutputsSpendable
  OBVIOUS
<1>1. WalletInv /\ Inv(db) /\ IndexInv(db) => ListedOutputsSpendable
  BY InvGivesSpendable
<1> QED  BY <1>1, WalletInvHolds, WalletIsSerial, IndexHolds, PTL

\* A payment names one output and pays what it has: users that pay with tx post
\* never make money, whatever they pay and to whom, but for what a copy of a
\* payment in a later block pays once more.
THEOREM PaymentsConserve == WalletSpec => []ValueConserved
<1>1. WalletInv => MempoolNamesOnce(db)
  BY DEF WalletInv, MempoolPays, MempoolNamesOnce
<1>2. Valued(db) => ValueConserved
  BY DEF Valued, ValueConserved
<1> QED  BY <1>1, <1>2, WalletInvHolds, WalletIsSerial, ValuedHolds, PTL
=============================================================================
