--------------------------------- MODULE Tx ---------------------------------
(***************************************************************************)
(* core/types/tx.go, txin.go, txout.go, signature.go: the transaction type *)
(* and its methods.  A hash is modelled by the content it covers, and a    *)
(* signature by the account whose key made it over that content.           *)
(***************************************************************************)
EXTENDS Naturals

CONSTANTS Accounts, NullAddress, NullSignature

ASSUME TxAssumption ==
    /\ NullAddress \notin Accounts
    /\ NullSignature \notin Accounts

TxElementsNum == 2
TxElements == 0 .. TxElementsNum - 1

Address == Accounts \cup {NullAddress}
Signature == Accounts \cup {NullSignature}

\* TxInCore: the block number, tx index and output index of the output spent.
TxInCore == Nat \X Nat \X Nat
NullTxInCore == <<0, 0, 0>>

TxIn == [core : TxInCore, sig : Signature, confSig : Signature]
TxOut == [owner : Address, amount : Nat, spent : BOOLEAN, exited : BOOLEAN]
Tx == [ins : [TxElements -> TxIn], outs : [TxElements -> TxOut]]

NewTxIn(core) ==
    [core |-> core, sig |-> NullSignature, confSig |-> NullSignature]

NewTxOut(owner, amount) ==
    [owner |-> owner, amount |-> amount, spent |-> FALSE, exited |-> FALSE]

IsNull(txIn) == txIn.core = NullTxInCore

NewTx ==
    [ins  |-> [i \in TxElements |-> NewTxIn(NullTxInCore)],
     outs |-> [i \in TxElements |-> NewTxOut(NullAddress, 0)]]

SetOutput(tx, outIndex, txOut) == [tx EXCEPT !.outs[outIndex] = txOut]

IsExistInput(inIndex) == inIndex < TxElementsNum
IsExistOutput(outIndex) == outIndex < TxElementsNum

\* Encode and Hash cover the input and output cores only: neither the
\* signatures nor the spent and exited flags.
OutputCore(txOut) == <<txOut.owner, txOut.amount>>
TxHash(tx) ==
    <<[i \in TxElements |-> tx.ins[i].core],
      [i \in TxElements |-> OutputCore(tx.outs[i])]>>
TxHashes == [TxElements -> TxInCore] \X [TxElements -> Address \X Nat]

\* What a block's signature and a Merkle leaf cover of a transaction.
MerkleLeaf(tx) == <<TxHash(tx), [i \in TxElements |-> tx.ins[i].sig]>>

\* A null signature names the null address; any other one its signer.
SignerAddress(txIn) ==
    IF txIn.sig = NullSignature THEN NullAddress ELSE txIn.sig

\* SpendOutput for each index of a set.
SpendOutputs(tx, indexes) ==
    [tx EXCEPT !.outs = [o \in TxElements |->
        [tx.outs[o] EXCEPT !.spent = @ \/ o \in indexes]]]

\* Mutant: the output is built anew, which forgets that it was spent.
ExitOutputMutant(tx, outIndex) ==
    LET out == tx.outs[outIndex]
    IN  SetOutput(tx, outIndex,
                  [NewTxOut(out.owner, out.amount) EXCEPT !.exited = TRUE])

ExitOutput(tx, outIndex) == [tx EXCEPT !.outs[outIndex].exited = TRUE]

SetConfirmationSignature(tx, inIndex, confSig) ==
    [tx EXCEPT !.ins[inIndex].confSig = confSig]

\* The outputs a transaction names as inputs.
Consumes(tx) == {tx.ins[i].core : i \in TxElements} \ {NullTxInCore}
=============================================================================
