-------------------------------- MODULE Node --------------------------------
(***************************************************************************)
(* app/plasma.go, app/handler_block.go and core/rootchain.go: the operator *)
(* node between its store and the contract on the root chain.  Requests    *)
(* and the two watchers work on the store as in ChildChainTxns.  Fixing a  *)
(* block takes several steps: read the root chain's number, build the      *)
(* block, send its root, commit.  A root that was sent is mined later.     *)
(*                                                                         *)
(* The contract is modelled from how core/rootchain.go uses it: deposits   *)
(* and block roots share one numbering.  The operator may also work by     *)
(* hand: POST /deposits makes a block without the contract, and the        *)
(* command "block commit" sends the root of any block again.               *)
(***************************************************************************)
EXTENDS ChildChainTxns, Sequences

CONSTANTS
    DepositWatcher, ExitWatcher,  \* two of the Handlers; the others are requests
    MaxRootBlocks,                \* bound: deposits and roots on the root chain
    MaxExits,                     \* bound: exits started on the root chain
    MaxManual,                    \* bound: deposits and commits by hand
    MerkleTreeLeaves,             \* 1024 in the code: 2^TxMerkleTreeDepth
    Faults                        \* may the node crash and the connection fail?

ASSUME NodeAssumption ==
    /\ DepositWatcher \in Handlers
    /\ ExitWatcher \in Handlers \ {DepositWatcher}
    /\ MaxRootBlocks \in Nat
    /\ MaxExits \in Nat
    /\ MaxManual \in Nat
    /\ MerkleTreeLeaves \in Nat \ {0}
    /\ Faults \in BOOLEAN

Requests == Handlers \ {DepositWatcher, ExitWatcher}

VARIABLES
    root,     \* the blocks of the root chain: leaves, block 1 first
    sent,     \* the roots sent and not mined yet, in the order of their nonces
    started,  \* the positions whose exit was started
    events,   \* what the subscriptions have delivered and no watcher has taken
    linked,   \* are the subscriptions alive?
    up,       \* is the node running?
    call,     \* where each request that makes a block is
    direct,   \* the blocks of deposits made without the contract
    manual    \* how often the operator worked by hand

chainVars == <<root, sent, started>>
handVars == <<direct, manual>>
nodeVars == <<events, linked, up, call>>
allVars == <<db, txn, chainVars, nodeVars, handVars>>

NoCall == [step |-> "none"]
NoEvents == [deposit |-> << >>, exit |-> << >>]

currentPlasmaBlockNumber == Len(root) + 1

NodeInit ==
    /\ TxnInit
    /\ root = << >>
    /\ sent = << >>
    /\ started = {}
    /\ events = NoEvents
    /\ linked = TRUE
    /\ up = TRUE
    /\ call = [r \in Requests |-> NoCall]
    /\ direct = {}
    /\ manual = 0

-----------------------------------------------------------------------------
(* The root chain and its users.                                           *)

Room == Len(root) + Len(sent) < MaxRootBlocks

\* The deposit's block is on the root chain at once; its event goes out if the
\* node is there to receive it.
RootDeposit(owner, amount) ==
    /\ Room
    /\ root' = Append(root, [i \in {0} |-> MerkleLeaf(DepositTx(owner, amount))])
    /\ events' = IF linked
                 THEN [events EXCEPT !.deposit = Append(@, <<owner, amount>>)]
                 ELSE events
    /\ UNCHANGED <<db, txn, sent, started, linked, up, call, handVars>>

\* An exit names an output of a block of the root chain.
RootStartExit(pos) ==
    LET out == ParseTxOutPosition(pos)
    IN  /\ Cardinality(started) < MaxExits
        /\ pos \notin started
        /\ out[1] \in DOMAIN root
        /\ out[2] \in DOMAIN root[out[1]]
        /\ started' = started \cup {pos}
        /\ events' = IF linked
                     THEN [events EXCEPT !.exit = Append(@, pos)]
                     ELSE events
        /\ UNCHANGED <<db, txn, root, sent, linked, up, call, handVars>>

MineRoot ==
    /\ sent # << >>
    /\ root' = Append(root, Head(sent))
    /\ sent' = Tail(sent)
    /\ UNCHANGED <<db, txn, started, nodeVars, handVars>>

-----------------------------------------------------------------------------
(* PostBlockHandler.                                                       *)

ReadRootNumber(r) ==
    /\ up
    /\ call[r] = NoCall
    /\ txn[r] = Idle
    /\ call' = [call EXCEPT ![r] =
                    [step |-> "checked", number |-> currentPlasmaBlockNumber]]
    /\ UNCHANGED <<db, txn, chainVars, events, linked, up, handVars>>

\* blk.Root of a block that has the whole mempool: the tree has too few leaves.
TreeTooSmall == Cardinality(DOMAIN db.mempool) > MerkleTreeLeaves

\* The transaction begins after the number was read; the block read back from
\* it gives the root to send.
BuildBlock(r) ==
    /\ call[r].step = "checked"
    /\ call[r].number = db.cur
    /\ ~TreeTooSmall
    /\ \E order \in IterationOrders(db) :
        /\ BeginBlock(r, order)
        /\ call' = [call EXCEPT ![r] =
            [step   |-> "built",
             leaves |-> MerkleLeaves(GetBlock(AddBlock(db, order).db, db.cur))]]
    /\ UNCHANGED <<chainVars, events, linked, up, handVars>>

\* ErrBlockchainNotSynchronized, or an error of AddBlock or of Root.
RefuseBlock(r) ==
    /\ call[r].step = "checked"
    /\ \/ call[r].number # db.cur
       \/ \E order \in IterationOrders(db) : AddBlock(db, order).err # OK
       \/ TreeTooSmall
    /\ call' = [call EXCEPT ![r] = NoCall]
    /\ UNCHANGED <<db, txn, chainVars, events, linked, up, handVars>>

SendRoot(r) ==
    /\ call[r].step = "built"
    /\ Room
    /\ sent' = Append(sent, call[r].leaves)
    /\ call' = [call EXCEPT ![r] = [step |-> "sent"]]
    /\ UNCHANGED <<db, txn, root, started, events, linked, up, handVars>>

\* The call returns an error; the root may have been taken all the same.
SendRootFails(r) ==
    /\ call[r].step = "built"
    /\ \/ UNCHANGED sent
       \/ Faults /\ Room /\ sent' = Append(sent, call[r].leaves)
    /\ call' = [call EXCEPT ![r] = NoCall]
    /\ txn' = [txn EXCEPT ![r] = Idle]
    /\ UNCHANGED <<db, root, started, events, linked, up, handVars>>

\* Mutant: the store may be committed before the root is sent.
CommitsNowMutant(r) == call[r].step # "checked"

\* The last step of a request: a fixed block once its root is sent, anything
\* else as soon as its method is done.
CommitsNow(r) == call[r].step \in {"none", "deposit", "sent"}

FinishRequest(r) ==
    /\ CommitsNow(r)
    /\ \/ Commit(r) /\ direct' = IF call[r].step = "deposit"
                                 THEN direct \cup {db.cur}
                                 ELSE direct
       \/ Conflict(r) /\ UNCHANGED direct
    /\ call' = [call EXCEPT ![r] = NoCall]
    /\ UNCHANGED <<chainVars, events, linked, up, manual>>

PostTx(r, tx) ==
    /\ up
    /\ call[r] = NoCall
    /\ BeginPost(r, tx)
    /\ UNCHANGED <<chainVars, nodeVars, handVars>>

\* POST /deposits: a block of the child chain alone.
PostDeposit(r, owner, amount) ==
    /\ up
    /\ call[r] = NoCall
    /\ manual < MaxManual
    /\ BeginDeposit(r, owner, amount)
    /\ call' = [call EXCEPT ![r] = [step |-> "deposit"]]
    /\ manual' = manual + 1
    /\ UNCHANGED <<chainVars, events, linked, up, direct>>

\* The command "block commit": get a block from the node, send its root.
CommitByHand(blkNum) ==
    /\ up
    /\ Room
    /\ manual < MaxManual
    /\ blkNum \in DOMAIN db.header
    /\ sent' = Append(sent, MerkleLeaves(GetBlock(db, blkNum)))
    /\ manual' = manual + 1
    /\ UNCHANGED <<db, txn, root, started, nodeVars, direct>>

-----------------------------------------------------------------------------
(* The watchers: take an event, handle it in a transaction, commit.        *)

Take(queue) == Tail(queue)

HandleDeposit ==
    /\ events.deposit # << >>
    /\ BeginDeposit(DepositWatcher, events.deposit[1][1], events.deposit[1][2])
    /\ events' = [events EXCEPT !.deposit = Take(@)]
    /\ UNCHANGED <<chainVars, linked, up, call, handVars>>

HandleExit ==
    /\ events.exit # << >>
    /\ BeginExit(ExitWatcher, events.exit[1])
    /\ events' = [events EXCEPT !.exit = Take(@)]
    /\ UNCHANGED <<chainVars, linked, up, call, handVars>>

\* An exit the child chain refuses is logged; what the transaction has done,
\* nothing, is committed.
RefuseExit ==
    /\ events.exit # << >>
    /\ txn[ExitWatcher] = Idle
    /\ ExitTxOut(db, events.exit[1]).err # OK
    /\ events' = [events EXCEPT !.exit = Take(@)]
    /\ UNCHANGED <<db, txn, chainVars, linked, up, call, handVars>>

\* A conflict is logged, and the event is gone.
FinishEvent(w) ==
    /\ Commit(w) \/ Conflict(w)
    /\ UNCHANGED <<chainVars, nodeVars, handVars>>

-----------------------------------------------------------------------------
(* Faults.                                                                 *)

\* The connection fails: both subscriptions end, and of the events delivered
\* only the first few still reach the watchers.  Nobody reads the error.
LinkFails ==
    /\ Faults
    /\ linked
    /\ linked' = FALSE
    /\ \E d \in 0 .. Len(events.deposit), e \in 0 .. Len(events.exit) :
        events' = [deposit |-> SubSeq(events.deposit, 1, d),
                   exit    |-> SubSeq(events.exit, 1, e)]
    /\ UNCHANGED <<db, txn, chainVars, up, call, handVars>>

\* Open transactions are lost, what was committed is kept.
Crash ==
    /\ Faults
    /\ up
    /\ up' = FALSE
    /\ linked' = FALSE
    /\ events' = NoEvents
    /\ call' = [r \in Requests |-> NoCall]
    /\ txn' = [h \in Handlers |-> Idle]
    /\ UNCHANGED <<db, chainVars, handVars>>

\* NewChildChain finds the store's block number; the subscriptions deliver what
\* happens from now on.
Restart ==
    /\ ~up
    /\ up' = TRUE
    /\ linked' = TRUE
    /\ UNCHANGED <<db, txn, chainVars, events, call, handVars>>

-----------------------------------------------------------------------------
RequestStep(r) ==
    \/ BuildBlock(r)
    \/ RefuseBlock(r)
    \/ SendRoot(r)
    \/ SendRootFails(r)
    \/ FinishRequest(r)

DepositStep == HandleDeposit \/ FinishEvent(DepositWatcher)
ExitStep == HandleExit \/ RefuseExit \/ FinishEvent(ExitWatcher)

NodeNext ==
    \/ \E owner \in Accounts, amount \in DepositAmounts : RootDeposit(owner, amount)
    \/ \E pos \in ClientPositions : RootStartExit(pos)
    \/ MineRoot
    \/ \E r \in Requests : ReadRootNumber(r) \/ RequestStep(r)
    \/ \E r \in Requests, tx \in ClientTxes : PostTx(r, tx)
    \/ \E r \in Requests, owner \in Accounts, amount \in DepositAmounts :
        PostDeposit(r, owner, amount)
    \/ \E blkNum \in DOMAIN db.header : CommitByHand(blkNum)
    \/ DepositStep
    \/ ExitStep
    \/ LinkFails
    \/ Crash
    \/ Restart

\* The root chain mines what it is sent; goroutines that can run do run.
NodeFairness ==
    /\ WF_allVars(MineRoot)
    /\ \A r \in Requests : WF_allVars(RequestStep(r))
    /\ WF_allVars(DepositStep)
    /\ WF_allVars(ExitStep)

NodeSpec == NodeInit /\ [][NodeNext]_allVars /\ NodeFairness
-----------------------------------------------------------------------------
(* Properties.                                                             *)

Occurrences(block, blocks) == Cardinality({n \in DOMAIN blocks : blocks[n] = block})

\* Every block of the child chain, deposits the operator posted directly aside,
\* has its counterpart on the root chain or on its way there, each its own: the
\* deposit it credits was made, no deposit is credited twice, and the root of a
\* fixed block was sent before the block was committed.  It says nothing of the
\* number the root chain has the block under, which SameBlocks is about.
BlocksBacked ==
    LET backed == [b \in DOMAIN db.header \ direct |-> MerkleLeaves(GetBlock(db, b))]
    IN  \A b \in DOMAIN backed :
            Occurrences(backed[b], backed) <= Occurrences(backed[b], root \o sent)

\* Everything that waits in the mempool can be fixed: a block takes it all, and
\* the block's tree does too.
PendingFixable ==
    db.mempool # << >> =>
        /\ \A order \in IterationOrders(db) : AddBlock(db, order).err = OK
        /\ ~TreeTooSmall

\* Where both chains have a block, it is the same one.
SameBlocks ==
    \A b \in DOMAIN db.header \cap DOMAIN root : db.header[b] = root[b]

\* When nothing is on its way the two chains have the same number of blocks,
\* without which no block can be fixed any more.
Synchronized ==
    (/\ sent = << >>
     /\ events = NoEvents
     /\ \A r \in Requests : call[r] = NoCall
     /\ \A h \in Handlers : txn[h] = Idle)
        => currentPlasmaBlockNumber = db.cur

\* A deposit on the root chain is credited on the child chain.
DepositsCredited ==
    \A owner \in Accounts, amount \in DepositAmounts :
        LET deposit == [i \in {0} |-> MerkleLeaf(DepositTx(owner, amount))]
        IN  \A n \in 1 .. MaxRootBlocks :
            Occurrences(deposit, root) >= n ~> Occurrences(deposit, db.header) >= n
=============================================================================
