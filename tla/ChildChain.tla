----------------------------- MODULE ChildChain -----------------------------
(***************************************************************************)
(* core/childchain.go: the child chain, kept in a Badger key-value store.  *)
(* The methods are operators on the store a transaction sees; each returns *)
(* the error of the method and the store the transaction would commit.     *)
(* This module runs them one at a time, as ChildChain's own callers do     *)
(* when no two transactions overlap.                                       *)
(***************************************************************************)
EXTENDS Position, Tx, FiniteSets, FiniteSetsExt, Functions

CONSTANTS
    MempoolSize,       \* 99999 in the code
    MaxBlockTxesNum,   \* 99999 in the code
    KeyNumeralBase,    \* 10 in the code: the base the keys' numbers are printed in
    PrefetchSize,      \* 100 in the code: the items an iterator holds at once
    MaxBlkNum,         \* bound: no block is added past this number
    DepositAmounts,    \* the amounts deposits bring
    ClientTxes,        \* the transactions clients post
    ClientPositions    \* the positions clients confirm and exit

\* childchain.go:26, position.go:8-9.  A posted transaction is whatever decodes
\* as one: its flags and its confirmation signatures included.
ASSUME ChildChainAssumption ==
    /\ MempoolSize \in Nat
    /\ MaxBlockTxesNum \in Nat \ {0, 1}
    /\ MempoolSize <= MaxBlockTxesNum
    /\ BlockPositionOffset > MaxBlockTxesNum
    /\ TxPositionOffset > TxElementsNum
    /\ KeyNumeralBase \in Nat \ {0, 1}
    /\ PrefetchSize \in Nat \ {0}
    /\ MaxBlkNum \in Nat
    /\ DepositAmounts \subseteq Nat
    /\ ClientTxes \subseteq Tx
    /\ ClientPositions \subseteq Nat

VARIABLE db
(***************************************************************************)
(* The store, one field per family of keys:                                *)
(*   cur      "current_blknum"                                             *)
(*   header   "blk_header_<block number>"                                  *)
(*   tx       "tx_<block number>_<tx index>"                               *)
(*   mempool  "mempool_tx_<tx hash>"                                       *)
(*   token    "token_<address>_<txout position>"                           *)
(***************************************************************************)

FirstBlockNumber == 1

Override(f, g) ==
    [k \in DOMAIN f \cup DOMAIN g |-> IF k \in DOMAIN g THEN g[k] ELSE f[k]]

OK == "OK"
Done(v) == [err |-> OK, db |-> v]
Failed(err, v) == [err |-> err, db |-> v]

NewChildChain ==
    [cur     |-> FirstBlockNumber,
     header  |-> << >>,
     tx      |-> << >>,
     mempool |-> << >>,
     token   |-> << >>]

-----------------------------------------------------------------------------
(* Reading transactions and their outputs.                                 *)

TxKey(core) == <<core[1], core[2]>>

HasTxOut(v, core) == TxKey(core) \in DOMAIN v.tx /\ IsExistOutput(core[3])

getTxOut(v, core) == v.tx[TxKey(core)].outs[core[3]]

TokenKey(addr, core) == <<addr, NewTxOutPosition(core[1], core[2], core[3])>>

\* The transactions of a block, and the sequence of them its signature covers.
BlockTxKeys(v, blkNum) == {k \in DOMAIN v.tx : k[1] = blkNum}

MerkleLeaves(txes) == [i \in DOMAIN txes |-> MerkleLeaf(txes[i])]

\* The keys of a block's transactions end in the tx index, printed: the order of
\* the keys is the lexicographic order of the numerals.
Digits(n) == Min({d \in 1 .. n + 1 : n < KeyNumeralBase ^ d})

KeyPrecedes(i, j) ==
    LET shared == Min({Digits(i), Digits(j)})
        Leading(n) == n \div KeyNumeralBase ^ (Digits(n) - shared)
    IN  \/ Leading(i) < Leading(j)
        \/ Leading(i) = Leading(j) /\ Digits(i) < Digits(j)

\* getBlock takes the transactions in the order the iterator visits their keys.
GetBlock(v, blkNum) ==
    LET indexes == {k[2] : k \in BlockTxKeys(v, blkNum)}
        Rank(i) == Cardinality({j \in indexes \ {i} : KeyPrecedes(j, i)})
    IN  [p \in {Rank(i) : i \in indexes} |->
            v.tx[<<blkNum, CHOOSE i \in indexes : Rank(i) = p>>]]

\* GetTxProof proves the leaf the tree has at the tx index.
GetTxProof(v, blkNum, txIndex) == MerkleLeaves(GetBlock(v, blkNum))[txIndex]

\* Mutant: exited outputs are listed too.
IsUnspentMutant(out) == ~out.spent

IsUnspent(out) == ~out.spent /\ ~out.exited

GetUTXOPositions(v, addr) ==
    {key[2] : key \in {k \in DOMAIN v.token :
        /\ k[1] = addr
        /\ IsUnspent(getTxOut(v, ParseTxOutPosition(k[2])))}}

-----------------------------------------------------------------------------
(* Adding a block: txes is a function from tx indexes, 0 .. n - 1.         *)

AllConsumed(txes) == UNION {Consumes(txes[i]) : i \in DOMAIN txes}

\* The inputs, as <<tx index, input index>>, that spend the token of a key.
Spenders(v, txes, key) ==
    {s \in (DOMAIN txes) \X TxElements :
        LET txIn == txes[s[1]].ins[s[2]]
        IN  /\ ~IsNull(txIn)
            /\ key = TokenKey(getTxOut(v, txIn.core).owner, txIn.core)}

\* Mutant: the tx index and the input index are swapped.
SpentTokensMutant(v, blkNum, txes) ==
    [key \in {TokenKey(getTxOut(v, c).owner, c) : c \in AllConsumed(txes)} |->
        Max({NewTxInPosition(blkNum, s[2], s[1]) :
                s \in Spenders(v, txes, key)})]

\* setToken for every input: what is left is the position of the last txin
\* that names the output.
SpentTokens(v, blkNum, txes) ==
    [key \in {TokenKey(getTxOut(v, c).owner, c) : c \in AllConsumed(txes)} |->
        Max({NewTxInPosition(blkNum, s[1], s[2]) :
                s \in Spenders(v, txes, key)})]

NewTokens(blkNum, txes) ==
    [key \in {TokenKey(txes[i].outs[o].owner, <<blkNum, i, o>>) :
                i \in DOMAIN txes, o \in TxElements} |-> 0]

\* Mutant: the transactions are stored in the opposite order.
NewTxesMutant(blkNum, txes) ==
    [k \in {blkNum} \X (DOMAIN txes) |->
        txes[Cardinality(DOMAIN txes) - 1 - k[2]]]

NewTxes(blkNum, txes) ==
    [k \in {blkNum} \X (DOMAIN txes) |-> txes[k[2]]]

addBlock(v, blkNum, txes) ==
    [v EXCEPT
        !.token = Override(Override(@, SpentTokens(v, blkNum, txes)),
                           NewTokens(blkNum, txes)),
        !.tx = Override(@, NewTxes(blkNum, txes)),
        !.header = Override(@, [b \in {blkNum} |-> MerkleLeaves(txes)])]

\* Mutant: the number is left alone.
incrementCurrentBlockNumberMutant(v) == v

incrementCurrentBlockNumber(v) == [v EXCEPT !.cur = @ + 1]

\* The mempool in the order the iterator visits it, which is the order of the
\* transaction hashes: any order, as far as this model can tell.
IterationOrders(v) ==
    Bijection(0 .. Cardinality(DOMAIN v.mempool) - 1, DOMAIN v.mempool)

\* How many keys the iterator has yet to visit after the mempool's i-th one:
\* those of the mempool, then all of "token" and "tx".
KeysAfter(v, i) ==
    (Cardinality(DOMAIN v.mempool) - 1 - i)
        + Cardinality(DOMAIN v.token) + Cardinality(DOMAIN v.tx)

\* Every transaction read into the block should be deleted from the mempool.  But
\* the key given to Delete is the iterator's buffer, which takes the key
\* PrefetchSize items on, if there is one, before the deletion is committed: what
\* is deleted then is a key that is deleted anyway, or that is not there.
fixCurrentBlock(v, order) ==
    LET kept == {order[i] : i \in {i \in DOMAIN order : KeysAfter(v, i) >= PrefetchSize}}
    IN  [v EXCEPT !.mempool = Restrict(@, kept)]

\* The error of Block.AddTx stops fixCurrentBlock.
AddBlock(v, order) ==
    LET txes == [i \in DOMAIN order |-> v.mempool[order[i]]]
    IN  IF Cardinality(DOMAIN v.mempool) > MaxBlockTxesNum
        THEN Failed("ErrBlockTxesNumExceedsLimit", v)
        ELSE IF DOMAIN v.mempool = {}
        THEN Failed("ErrEmptyBlock", v)
        ELSE IF \E c \in AllConsumed(txes) : TxKey(c) \notin DOMAIN v.tx
        THEN Failed("ErrKeyNotFound", v)
        ELSE Done(incrementCurrentBlockNumber(
                    addBlock(fixCurrentBlock(v, order), v.cur, txes)))

DepositTx(owner, amount) == SetOutput(NewTx, 0, NewTxOut(owner, amount))

AddDepositBlock(v, owner, amount) ==
    Done(incrementCurrentBlockNumber(
           addBlock(v, v.cur, [i \in {0} |-> DepositTx(owner, amount)])))

-----------------------------------------------------------------------------
(* Accepting a transaction.                                                *)

\* Mutant: the spent flag is not looked at.
TxOutErrorSpentMutant(out) ==
    IF out.exited THEN "ErrTxOutAlreadyExited" ELSE OK

\* Mutant: the exited flag is not looked at.
TxOutErrorExitedMutant(out) ==
    IF out.spent THEN "ErrTxOutAlreadySpent" ELSE OK

TxOutError(out) ==
    IF out.spent THEN "ErrTxOutAlreadySpent"
    ELSE IF out.exited THEN "ErrTxOutAlreadyExited"
    ELSE OK

\* Mutant: a missing signature stands for the null address.
SignatureErrorMutant(txIn, out) ==
    IF SignerAddress(txIn) # out.owner THEN "ErrInvalidTxSignature" ELSE OK

SignatureError(txIn, out) ==
    IF txIn.sig = NullSignature \/ SignerAddress(txIn) # out.owner
    THEN "ErrInvalidTxSignature"
    ELSE OK

\* What ValidateTx finds wrong with an input, in the order it looks.
InputError(v, txIn) ==
    LET inTxOut == getTxOut(v, txIn.core)
    IN  IF IsNull(txIn) THEN OK
        ELSE IF ~HasTxOut(v, txIn.core) THEN "ErrInvalidTxIn"
        ELSE IF TxOutError(inTxOut) # OK THEN TxOutError(inTxOut)
        ELSE SignatureError(txIn, inTxOut)

\* The amounts a transaction brings in and pays out: each input counts.
InAmount(v, tx) ==
    SumFunction([i \in {i \in TxElements : ~IsNull(tx.ins[i])} |->
                    getTxOut(v, tx.ins[i].core).amount])

\* Mutant: only the first output is counted.
OutAmountMutant(tx) == tx.outs[0].amount

OutAmount(tx) == SumFunction([o \in TxElements |-> tx.outs[o].amount])

ValidateTx(v, tx) ==
    LET bad == {i \in TxElements : InputError(v, tx.ins[i]) # OK}
    IN  IF bad # {} THEN InputError(v, tx.ins[Min(bad)])
        ELSE IF Consumes(tx) = {} THEN "ErrInvalidTxIn"
        ELSE IF OutAmount(tx) > InAmount(v, tx) THEN "ErrInvalidTxBalance"
        ELSE OK

\* Mutant: the second input reads its record as it was before the first one's
\* was written.
SpendInputsMutant(v, tx) ==
    [k \in DOMAIN v.tx |->
        LET marked == {i \in TxElements :
                ~IsNull(tx.ins[i]) /\ TxKey(tx.ins[i].core) = k}
        IN  SpendOutputs(v.tx[k],
                {tx.ins[i].core[3] : i \in {i \in marked :
                    \A j \in marked : j <= i}})]

\* Each input's record is read, its output marked and written back; the second
\* input reads what the first has written.
SpendInputs(v, tx) ==
    [k \in DOMAIN v.tx |->
        SpendOutputs(v.tx[k],
                     {c[3] : c \in {c \in Consumes(tx) : TxKey(c) = k}})]

\* Mutant: the key covers the signatures, as a Merkle leaf does.
addTxToMempoolMutant(v, tx) ==
    Override(v.mempool, [h \in {MerkleLeaf(tx)} |-> tx])

\* Mutant: the key covers the outputs alone.
addTxToMempoolKeyMutant(v, tx) ==
    Override(v.mempool, [h \in {TxHash([tx EXCEPT !.ins = NewTx.ins])} |-> tx])

addTxToMempool(v, tx) == Override(v.mempool, [h \in {TxHash(tx)} |-> tx])

\* Mutant: one more.
MempoolFullMutant(v) == Cardinality(DOMAIN v.mempool) > MempoolSize

MempoolFull(v) == Cardinality(DOMAIN v.mempool) >= MempoolSize

AddTxToMempool(v, tx) ==
    LET err == ValidateTx(v, tx)
    IN  IF MempoolFull(v)
        THEN Failed("ErrMempoolFull", v)
        ELSE IF err # OK THEN Failed(err, v)
        ELSE Done([v EXCEPT !.tx = SpendInputs(v, tx),
                            !.mempool = addTxToMempool(v, tx)])

-----------------------------------------------------------------------------
(* Confirming an input, exiting an output.                                 *)

setTx(v, k, tx) == [v EXCEPT !.tx = [@ EXCEPT ![k] = tx]]

\* Mutant: anybody may confirm.
WrongConfirmationMutant(v, txIn, confSig) == confSig = NullSignature

\* A confirmation signature is the account that made it over this transaction's
\* confirmation hash; a null one recovers to no address.
WrongConfirmation(v, txIn, confSig) ==
    confSig = NullSignature \/ confSig # getTxOut(v, txIn.core).owner

ConfirmTx(v, txInPos, confSig) ==
    LET pos == ParseTxInPosition(txInPos)
        k == TxKey(pos)
        txIn == v.tx[k].ins[pos[3]]
    IN  IF ParsePanics(txInPos) THEN Failed("panic", v)
        ELSE IF k \notin DOMAIN v.tx THEN Failed("ErrTxNotFound", v)
        ELSE IF ~IsExistInput(pos[3]) THEN Failed("ErrTxInNotFound", v)
        ELSE IF IsNull(txIn) THEN Failed("ErrNullTxInConfirmation", v)
        ELSE IF ~HasTxOut(v, txIn.core) THEN Failed("ErrInvalidTxIn", v)
        ELSE IF WrongConfirmation(v, txIn, confSig)
        THEN Failed("ErrInvalidTxConfirmationSignature", v)
        ELSE Done(setTx(v, k, SetConfirmationSignature(v.tx[k], pos[3], confSig)))

ExitTxOut(v, txOutPos) ==
    LET pos == ParseTxInPosition(txOutPos)
        k == TxKey(pos)
    IN  IF ParsePanics(txOutPos) THEN Failed("panic", v)
        ELSE IF k \notin DOMAIN v.tx THEN Failed("ErrTxNotFound", v)
        ELSE IF ~IsExistOutput(pos[3]) THEN Failed("ErrTxOutNotFound", v)
        ELSE Done(setTx(v, k, ExitOutput(v.tx[k], pos[3])))

-----------------------------------------------------------------------------
(* One transaction at a time.                                              *)

\* The caller commits what a method did if it returned no error, and discards
\* it otherwise, which changes nothing.
Init == db = NewChildChain

Deposit(owner, amount) ==
    LET result == AddDepositBlock(db, owner, amount)
    IN  db.cur <= MaxBlkNum /\ result.err = OK /\ db' = result.db

Block(order) ==
    LET result == AddBlock(db, order)
    IN  db.cur <= MaxBlkNum /\ result.err = OK /\ db' = result.db

Post(tx) ==
    LET result == AddTxToMempool(db, tx)
    IN  result.err = OK /\ db' = result.db

Confirm(txInPos, confSig) ==
    LET result == ConfirmTx(db, txInPos, confSig)
    IN  result.err = OK /\ db' = result.db

Exit(txOutPos) ==
    LET result == ExitTxOut(db, txOutPos)
    IN  result.err = OK /\ db' = result.db

Next ==
    \/ \E owner \in Address, amount \in DepositAmounts : Deposit(owner, amount)
    \/ \E order \in IterationOrders(db) : Block(order)
    \/ \E tx \in ClientTxes : Post(tx)
    \/ \E pos \in ClientPositions, sig \in Signature : Confirm(pos, sig)
    \/ \E pos \in ClientPositions : Exit(pos)

Spec == Init /\ [][Next]_db
-----------------------------------------------------------------------------
(* Properties.                                                             *)

\* The transactions the store holds: those of blocks and those pending.
Holders ==
    ({"tx"} \X (DOMAIN db.tx)) \cup ({"mempool"} \X (DOMAIN db.mempool))

Held(h) == IF h[1] = "tx" THEN db.tx[h[2]] ELSE db.mempool[h[2]]

Outputs == {<<k[1], k[2], o>> : k \in DOMAIN db.tx, o \in TxElements}

Output(out) == getTxOut(db, out)

IsDeposit(tx) == Consumes(tx) = {}

\* The store has the five families of keys, each with values of its type.
TypeOK ==
    /\ DOMAIN db = {"cur", "header", "tx", "mempool", "token"}
    /\ db.cur \in Nat
    /\ DOMAIN db.tx \subseteq Nat \X Nat
    /\ \A k \in DOMAIN db.tx : db.tx[k] \in Tx
    /\ DOMAIN db.mempool \subseteq TxHashes
    /\ \A h \in DOMAIN db.mempool : db.mempool[h] \in Tx
    /\ DOMAIN db.token \subseteq Address \X Nat
    /\ \A k \in DOMAIN db.token : db.token[k] \in Nat
    /\ DOMAIN db.header \subseteq Nat

Consumed(out) == \E h \in Holders : out \in Consumes(Held(h))

\* The flag a client set in the transaction that has the output.
PostedSpent(out) ==
    \E tx \in ClientTxes :
        /\ tx.outs[out[3]].spent
        /\ MerkleLeaf(tx) = MerkleLeaf(db.tx[TxKey(out)])

\* The spent flag of an output, which is written when a transaction is accepted
\* and copied through every later rewrite of the record (confirmation, exit,
\* the other output's spending), is set if some transaction of a block or of the
\* mempool names the output.  If it is set and there is no such transaction, it
\* was set from the start, by the client who posted the output: neither the hash
\* nor a signature covers the flag, and ValidateTx does not look at it.
SpentExplained ==
    \A out \in Outputs :
        /\ Consumed(out) => Output(out).spent
        /\ Output(out).spent => Consumed(out) \/ PostedSpent(out)

\* Two transactions the chain holds, in blocks or pending, that name the same
\* output are the same transaction: a block that leaves a transaction in the
\* mempool makes a copy of it, but no other one is ever let in to its inputs.
NoDoubleSpend ==
    \A h, g \in Holders :
        Consumes(Held(h)) \cap Consumes(Held(g)) # {}
            => MerkleLeaf(Held(h)) = MerkleLeaf(Held(g))

\* A transaction that spends something is held once: in one block, or in the
\* mempool until a block takes it out.
HeldOnce ==
    \A h, g \in Holders :
        h # g => Consumes(Held(h)) \cap Consumes(Held(g)) = {}

\* A transaction names only outputs of earlier blocks: what it spends was in
\* the chain when it was accepted and has stayed there.
InputsInEarlierBlocks ==
    \A h \in Holders : \A core \in Consumes(Held(h)) :
        /\ core \in Outputs
        /\ core[1] < (IF h[1] = "tx" THEN h[2][1] ELSE db.cur)

\* The keys of a block's transactions are in the order of their indexes: in base
\* 10, where the block has no more than ten transactions.
KeysInOrder(b) ==
    \A i, j \in DOMAIN db.header[b] : KeyPrecedes(i, j) <=> i < j

\* The blocks are numbered 1 to current - 1 without a gap, and each has between
\* one and MaxBlockTxesNum transactions indexed from 0 without a gap, which are
\* still what the operator signed, however often the records were rewritten
\* since.  So is what getBlock reassembles, whose root goes to the root chain,
\* where the order of the keys is that of the indexes.
BlocksAsSigned ==
    /\ DOMAIN db.header = FirstBlockNumber .. db.cur - 1
    /\ {k[1] : k \in DOMAIN db.tx} = DOMAIN db.header
    /\ \A b \in DOMAIN db.header :
        /\ DOMAIN db.header[b] \in {0 .. n - 1 : n \in 1 .. MaxBlockTxesNum}
        /\ {k[2] : k \in BlockTxKeys(db, b)} = DOMAIN db.header[b]
        /\ \A i \in DOMAIN db.header[b] : db.header[b][i] = MerkleLeaf(db.tx[<<b, i>>])
        /\ KeysInOrder(b) => db.header[b] = MerkleLeaves(GetBlock(db, b))

\* The Merkle proof of a transaction's position proves that transaction.
ProofsProveTheirTx ==
    \A k \in DOMAIN db.tx : GetTxProof(db, k[1], k[2]) = MerkleLeaf(db.tx[k])

\* The token index has one entry for each output of the chain, under its owner;
\* the entry is 0 until a block spends the output, and from then on it is the
\* position of an input that names the output.
TokenIndexExact ==
    /\ DOMAIN db.token = {TokenKey(Output(out).owner, out) : out \in Outputs}
    /\ \A out \in Outputs :
        LET pos == db.token[TokenKey(Output(out).owner, out)]
            in == ParseTxInPosition(pos)
        IN  IF \E k \in DOMAIN db.tx : out \in Consumes(db.tx[k])
            THEN /\ pos # 0
                 /\ TxKey(in) \in DOMAIN db.tx
                 /\ IsExistInput(in[3])
                 /\ db.tx[TxKey(in)].ins[in[3]].core = out
            ELSE pos = 0

\* The listing of an address's outputs, which walks the token index and decodes
\* the positions of its keys, returns exactly the positions of the outputs the
\* address owns that are neither spent nor exited.
UTXOListingExact ==
    \A addr \in Address :
        GetUTXOPositions(db, addr) =
            {NewTxOutPosition(out[1], out[2], out[3]) :
                out \in {o \in Outputs : /\ Output(o).owner = addr
                                         /\ ~Output(o).spent
                                         /\ ~Output(o).exited}}

\* The position of every input and output of the chain leads back to it, although
\* the parser takes the element index modulo the transaction's position where
\* the constructor multiplied by TxPositionOffset.
PositionsRoundTrip ==
    \A k \in DOMAIN db.tx, e \in TxElements : RoundTrips(k[1], k[2], e)

\* Every input, pending or in a block, carries the signature of the owner of
\* the output it spends.  Hence no output of the null address is ever spent: the
\* null address is also what a missing signature recovers to.
InputsAuthorized ==
    \A h \in Holders, i \in TxElements :
        LET txIn == Held(h).ins[i]
        IN  ~IsNull(txIn) =>
                /\ txIn.sig = Output(txIn.core).owner
                /\ txIn.sig # NullSignature

\* What the outputs that nobody spends yet are worth, of one transaction and of
\* a table of them.
UnspentAmount(tx) ==
    SumFunction([o \in {o \in TxElements : ~tx.outs[o].spent} |-> tx.outs[o].amount])

Worth(txes) == SumFunction([k \in DOMAIN txes |-> UnspentAmount(txes[k])])

\* What comes in: by deposits, and by copies of transactions that an earlier
\* block has.
IsCopy(txes, k) ==
    \E l \in DOMAIN txes : l[1] < k[1] /\ MerkleLeaf(txes[l]) = MerkleLeaf(txes[k])

Issued(txes) ==
    SumFunction([k \in {k \in DOMAIN txes : IsDeposit(txes[k]) \/ IsCopy(txes, k)} |->
                    OutAmount(txes[k])])

\* The pending transactions no block has yet.
Unsealed(v) ==
    [h \in {h \in DOMAIN v.mempool :
            \A k \in DOMAIN v.tx : MerkleLeaf(v.tx[k]) # MerkleLeaf(v.mempool[h])} |->
        v.mempool[h]]

\* The outputs nobody spends yet are worth no more than what was deposited and
\* what copies pay out once more: the change of accepted transactions, pending
\* ones included, is covered by the outputs they consume, and value comes from
\* nowhere but deposits and blocks that repeat a transaction.
ValueConserved == Worth(db.tx) + Worth(Unsealed(db)) <= Issued(db.tx)

\* A step never removes or replaces a transaction of a block, and never clears
\* a spent or exited flag: the handlers that rewrite a whole record to change one
\* field of it lose nothing else.  A confirmation signature, which may have been
\* posted with the transaction and be anybody's, gives way only to the owner's.
RecordsOnlyGrow ==
    [][\A k \in DOMAIN db.tx :
        /\ k \in DOMAIN db'.tx
        /\ MerkleLeaf(db'.tx[k]) = MerkleLeaf(db.tx[k])
        /\ \A o \in TxElements :
            /\ db.tx[k].outs[o].spent => db'.tx[k].outs[o].spent
            /\ db.tx[k].outs[o].exited => db'.tx[k].outs[o].exited
        /\ \A i \in TxElements :
            \/ db'.tx[k].ins[i].confSig = db.tx[k].ins[i].confSig
            \/ /\ ~IsNull(db.tx[k].ins[i])
               /\ db'.tx[k].ins[i].confSig = Output(db.tx[k].ins[i].core).owner]_db

\* What is pending stays so until it is in a block: nothing accepted is dropped,
\* or replaced by another transaction.
PendingKept ==
    [][\A h \in DOMAIN db.mempool :
        \/ /\ h \in DOMAIN db'.mempool
           /\ db'.mempool[h] = db.mempool[h]
        \/ \E k \in DOMAIN db'.tx \ DOMAIN db.tx : db'.tx[k] = db.mempool[h]]_db

\* An output that exited before anybody spent it is never spent on the child
\* chain afterwards.
ExitedNotSpentLater ==
    [][\A out \in Outputs :
        Output(out).exited /\ ~Output(out).spent
            => ~getTxOut(db', out).spent]_db
=============================================================================
