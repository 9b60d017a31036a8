-------------------------------- MODULE Wallet --------------------------------
(***************************************************************************)
(* cmd/plasma, client/ and the exits of core/rootchain.go: users at the    *)
(* command line, the operator's child chain and the contract's exits.  A   *)
(* command reads from the node, makes something of what it has read, and   *)
(* sends it in a later step: to the node, or to the contract.  Meanwhile   *)
(* the child chain moves on.                                               *)
(*                                                                         *)
(* The node's requests run one at a time here; ChildChainTxns lets them    *)
(* overlap, and Node keeps the two chains apart.  Here the contract has    *)
(* the roots of the child chain's blocks.  What it makes of an exit and of *)
(* a challenge is modelled from what core/rootchain.go gives it.           *)
(***************************************************************************)
EXTENDS ChildChain

CONSTANTS
    Terminals,       \* where commands run, one at a time in each
    Depositors,      \* the accounts that deposit
    Payments,        \* what users pay: the new owner and the amount
    MaxExits         \* bound: exits started

\* Positions are read as uint64.
ASSUME WalletAssumption ==
    /\ \A pos \in ClientPositions : pos < Uint64Limit
    /\ Depositors \subseteq Accounts
    /\ Payments \subseteq Accounts \X Nat
    /\ MaxExits \in Nat

VARIABLES
    exits,   \* plasmaExits: the exits of the contract, by position
    events,  \* the exits the watcher has yet to handle
    cmd      \* the command of each terminal

contractVars == <<exits, events>>
walletVars == <<db, contractVars, cmd>>

NoCommand == [step |-> "none"]

WalletInit ==
    /\ Init
    /\ exits = << >>
    /\ events = {}
    /\ cmd = [u \in Terminals |-> NoCommand]

-----------------------------------------------------------------------------
(* The operator.                                                           *)

Operate ==
    /\ \/ \E owner \in Depositors, amount \in DepositAmounts : Deposit(owner, amount)
       \/ \E order \in IterationOrders(db) : Block(order)
    /\ UNCHANGED <<contractVars, cmd>>

\* ExitStarted: an exit that finds no output is logged, and that is all.
HandleExit(pos) ==
    /\ pos \in events
    /\ events' = events \ {pos}
    /\ db' = ExitTxOut(db, pos).db
    /\ UNCHANGED <<exits, cmd>>

-----------------------------------------------------------------------------
(* The contract.                                                           *)

Core(pos) == ParseTxOutPosition(pos)

\* startExit: the transaction is in the block, the sender owns the output, and
\* who signed an input has confirmed it.
AcceptsExit(pos, sender, tx, proof) ==
    /\ pos \notin DOMAIN exits
    /\ proof = MerkleLeaf(tx)
    /\ proof = db.header[Core(pos)[1]][Core(pos)[2]]
    /\ IsExistOutput(Core(pos)[3])
    /\ sender = tx.outs[Core(pos)[3]].owner
    /\ \A i \in TxElements : ~IsNull(tx.ins[i]) =>
        tx.ins[i].confSig # NullSignature /\ tx.ins[i].confSig = tx.ins[i].sig

\* challengeExit: the transaction spends the output, and its owner confirmed it.
AcceptsChallenge(pos, spendingTx, confSig) ==
    /\ pos \in DOMAIN exits
    /\ exits[pos].valid
    /\ ~exits[pos].processed
    /\ Core(pos) \in Consumes(spendingTx)
    /\ confSig = exits[pos].owner

ProcessExits ==
    /\ exits' = [pos \in DOMAIN exits |-> [exits[pos] EXCEPT !.processed = TRUE]]
    /\ UNCHANGED <<db, events, cmd>>

-----------------------------------------------------------------------------
(* What commands read, make and send.                                      *)

\* A command parses the position it is given, and asks for the transaction by
\* the transaction's own position.
TxPosition(pos) == NewTxPosition(Core(pos)[1], Core(pos)[2])

HasTx(pos) == ~ParsePanics(pos) /\ ParseTxPosition(TxPosition(pos)) \in DOMAIN db.tx

GetTx(pos) == db.tx[ParseTxPosition(TxPosition(pos))]

\* The command of a terminal, once it has read what it needs.  A command that
\* does not like what it reads ends there and has changed nothing.
Enter(u, command) ==
    /\ cmd[u] = NoCommand
    /\ cmd' = [cmd EXCEPT ![u] = command]
    /\ UNCHANGED <<db, contractVars>>

Finish(u) == cmd' = [cmd EXCEPT ![u] = NoCommand]

Signed(tx, inIndex, signer) == [tx EXCEPT !.ins[inIndex].sig = signer]

\* Mutant: the change is what the output had.
ChangeMutant(inTxOut, amount) == inTxOut.amount

Change(inTxOut, amount) == inTxOut.amount - amount

\* tx post: the output, less what is paid, goes back to its owner.
Payment(core, inTxOut, addr, amount, signer) ==
    LET paying == SetOutput([NewTx EXCEPT !.ins[0] = NewTxIn(core)],
                            0, NewTxOut(addr, amount))
        change == Change(inTxOut, amount)
    IN  Signed(IF change > 0
               THEN SetOutput(paying, 1, NewTxOut(inTxOut.owner, change))
               ELSE paying,
               0, signer)

ReadForPayment(u, pos, addr, amount, signer) ==
    LET inTxOut == GetTx(pos).outs[Core(pos)[3]]
    IN  /\ HasTx(pos)
        /\ IsExistOutput(Core(pos)[3])
        /\ amount <= inTxOut.amount
        /\ Enter(u, [step   |-> "post",
                     tx     |-> Payment(Core(pos), inTxOut, addr, amount, signer),
                     honest |-> signer = inTxOut.owner])

PostPayment(u) ==
    /\ cmd[u].step = "post"
    /\ db' = AddTxToMempool(db, cmd[u].tx).db
    /\ Finish(u)
    /\ UNCHANGED contractVars

\* txin confirm: the signature is over the transaction that was read.
ReadForConfirmation(u, pos, signer) ==
    /\ HasTx(pos)
    /\ IsExistInput(Core(pos)[3])
    /\ Enter(u, [step |-> "put", pos |-> pos, hash |-> TxHash(GetTx(pos)),
                 signer |-> signer])

ConfirmationSignature(command) ==
    IF command.hash = TxHash(GetTx(command.pos)) THEN command.signer ELSE NullSignature

PutConfirmation(u) ==
    /\ cmd[u].step = "put"
    /\ db' = ConfirmTx(db, cmd[u].pos, ConfirmationSignature(cmd[u])).db
    /\ Finish(u)
    /\ UNCHANGED contractVars

\* exit start: the transaction, then its proof, then the exit.
ReadForExit(u, pos, sender) ==
    /\ HasTx(pos)
    /\ Enter(u, [step |-> "prove", pos |-> pos, tx |-> GetTx(pos), sender |-> sender])

ProofFor(pos) ==
    LET txPos == ParseTxPosition(TxPosition(pos))
    IN  GetTxProof(db, txPos[1], txPos[2])

ReadProof(u) ==
    /\ cmd[u].step = "prove"
    /\ cmd' = [cmd EXCEPT ![u] =
                [step   |-> "exit", pos |-> @.pos, tx |-> @.tx, sender |-> @.sender,
                 proof  |-> ProofFor(@.pos)]]
    /\ UNCHANGED <<db, contractVars>>

StartExit(u) ==
    LET c == cmd[u]
    IN  /\ c.step = "exit"
        /\ IF AcceptsExit(c.pos, c.sender, c.tx, c.proof)
           THEN /\ exits' = Override(exits, [p \in {c.pos} |->
                    [owner     |-> c.sender,
                     amount    |-> c.tx.outs[Core(c.pos)[3]].amount,
                     valid     |-> TRUE,
                     processed |-> FALSE]])
                /\ events' = events \cup {c.pos}
           ELSE UNCHANGED contractVars
        /\ Finish(u)
        /\ UNCHANGED db

\* exit challenge: the input of the spending transaction is there, and it is
\* confirmed.
Confirmed(tx, inIndex) ==
    IsExistInput(inIndex) /\ tx.ins[inIndex].confSig # NullSignature

ReadForChallenge(u, pos, spendingTxInPos) ==
    LET spendingTx == GetTx(spendingTxInPos)
        inIndex == Core(spendingTxInPos)[3]
    IN  /\ HasTx(spendingTxInPos)
        /\ Confirmed(spendingTx, inIndex)
        /\ Enter(u, [step |-> "challenge", pos |-> pos, tx |-> spendingTx,
                     confSig |-> spendingTx.ins[inIndex].confSig])

ChallengeExit(u) ==
    LET c == cmd[u]
    IN  /\ c.step = "challenge"
        /\ exits' = IF AcceptsChallenge(c.pos, c.tx, c.confSig)
                    THEN [exits EXCEPT ![c.pos].valid = FALSE]
                    ELSE exits
        /\ Finish(u)
        /\ UNCHANGED <<db, events>>

-----------------------------------------------------------------------------
Start(u) ==
    \E pos \in ClientPositions, signer \in Accounts :
        \/ \E payment \in Payments :
            ReadForPayment(u, pos, payment[1], payment[2], signer)
        \/ ReadForConfirmation(u, pos, signer)
        \/ Cardinality(DOMAIN exits) < MaxExits /\ ReadForExit(u, pos, signer)
        \/ \E spending \in ClientPositions : ReadForChallenge(u, pos, spending)

WalletNext ==
    \/ Operate
    \/ \E pos \in events : HandleExit(pos)
    \/ ProcessExits
    \/ \E u \in Terminals :
        \/ Start(u)
        \/ PostPayment(u)
        \/ PutConfirmation(u)
        \/ ReadProof(u)
        \/ StartExit(u)
        \/ ChallengeExit(u)

WalletSpec == WalletInit /\ [][WalletNext]_walletVars
-----------------------------------------------------------------------------
(* Properties.                                                             *)

\* What an owner's payment or confirmation was made from does not change until
\* it is sent: the node refuses the payment only because the output was spent or
\* exited in between or the mempool is full, and never refuses the confirmation
\* of an input.
CommandsStayGood ==
    \A u \in Terminals :
        /\ cmd[u].step = "post" /\ cmd[u].honest =>
            AddTxToMempool(db, cmd[u].tx).err \in
                {OK, "ErrMempoolFull", "ErrTxOutAlreadySpent", "ErrTxOutAlreadyExited"}
        /\ cmd[u].step = "put" =>
            LET txIn == GetTx(cmd[u].pos).ins[Core(cmd[u].pos)[3]]
            IN  ~IsNull(txIn) /\ Output(txIn.core).owner = cmd[u].signer =>
                    ConfirmTx(db, cmd[u].pos, ConfirmationSignature(cmd[u])).err = OK

\* Who owns a confirmed output can exit it, whatever happens between the two
\* reads and the call: the contract refuses only an exit it already has.  In a
\* block whose keys are not in order the proof may be of another transaction.
ExitsStayGood ==
    \A u \in Terminals :
        LET c == cmd[u]
            out == Core(c.pos)
        IN  /\ c.step \in {"prove", "exit"}
            /\ IsExistOutput(out[3])
            /\ KeysInOrder(out[1])
            /\ c.sender = c.tx.outs[out[3]].owner
            /\ \A i \in TxElements : ~IsNull(c.tx.ins[i]) => Confirmed(c.tx, i)
            => \/ c.pos \in DOMAIN exits
               \/ AcceptsExit(c.pos, c.sender, c.tx,
                              IF c.step = "exit" THEN c.proof ELSE ProofFor(c.pos))

\* When an output exits and so does an output of the transaction that spends
\* it, the first exit can be challenged with what the node serves, until it is
\* processed.
DoubleExitsChallengeable ==
    \A pos, later \in DOMAIN exits : \A i \in TxElements :
        LET spendingTx == GetTx(later)
        IN  /\ spendingTx.ins[i].core = Core(pos)
            /\ exits[pos].valid
            /\ ~exits[pos].processed
            => /\ Confirmed(spendingTx, i)
               /\ AcceptsChallenge(pos, spendingTx, spendingTx.ins[i].confSig)

\* The outputs listed for an account are those its payments can spend: the node
\* takes a payment of any of them, unless the mempool is full.
ListedOutputsSpendable ==
    \A addr \in Accounts : \A pos \in GetUTXOPositions(db, addr) :
        LET inTxOut == GetTx(pos).outs[Core(pos)[3]]
        IN  AddTxToMempool(db, Payment(Core(pos), inTxOut, addr, inTxOut.amount, addr)).err
                \in {OK, "ErrMempoolFull"}
=============================================================================
