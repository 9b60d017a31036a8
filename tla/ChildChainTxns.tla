--------------------------- MODULE ChildChainTxns ---------------------------
(***************************************************************************)
(* app/handler_*.go and the watchers of app/plasma.go: each runs one method*)
(* of the child chain in a Badger transaction of its own, and several are  *)
(* open at once.  A transaction reads the store as it was when it began;   *)
(* it fails to commit if a key it read was written by a transaction that   *)
(* committed since (Badger 1.5.4, serializable snapshot isolation).        *)
(*                                                                         *)
(* All a method reads, it reads in the snapshot: so running it is one step,*)
(* when the transaction begins, and committing is another.                 *)
(***************************************************************************)
EXTENDS ChildChain

CONSTANTS Handlers   \* the requests and watchers that run concurrently

ASSUME HandlersAssumption == IsFiniteSet(Handlers) /\ Handlers # {}

VARIABLE txn         \* the open transaction of each handler
vars == <<db, txn>>

(***************************************************************************)
(* A key is a pair of its family and its name in the family; the block     *)
(* number is alone in its family.                                          *)
(***************************************************************************)
CurKey == <<"cur", 0>>
TxKeys(keys) == {"tx"} \X keys
InputKeys(tx) == TxKeys({TxKey(c) : c \in Consumes(tx)})
Names(keys, family) == {key[2] : key \in {k \in keys : k[1] = family}}

\* The keys each method reads in the store and the keys it writes.  Counting
\* the mempool reads no key: the iterator records only the items it is asked
\* for.  PostBlock reads the new block back.

\* Mutants: the read is not recorded, as if another transaction had made it.
DepositReadsMutant(v) == {}
DepositReads(v) == {CurKey}

BlockReads(v) ==
    {CurKey} \cup ({"mempool"} \X DOMAIN v.mempool)
      \cup UNION {InputKeys(v.mempool[h]) : h \in DOMAIN v.mempool}
      \cup TxKeys({v.cur} \X (0 .. Cardinality(DOMAIN v.mempool) - 1))

PostReadsMutant(tx) == {}
PostReads(tx) == InputKeys(tx)

ConfirmReads(v, k) == TxKeys({k}) \cup InputKeys(v.tx[k])

ExitReadsMutant(k) == {}
ExitReads(k) == TxKeys({k})

AddedKeys(v, new) ==
    {CurKey, <<"header", v.cur>>} \cup TxKeys(BlockTxKeys(new, v.cur))
      \cup ({"token"} \X {key \in DOMAIN new.token :
                \/ key \notin DOMAIN v.token
                \/ new.token[key] # v.token[key]})

-----------------------------------------------------------------------------
(* Transactions.                                                           *)

Idle == [state |-> "idle"]
Stale == [state |-> "stale"]

Part(f, names) == [n \in DOMAIN f \cap names |-> f[n]]

\* A transaction that read and wrote these keys; new is the store it leaves.
\* A key it wrote that new does not have is one it deleted.
Open(reads, writes, new) ==
    [state  |-> "open",
     reads  |-> reads,
     writes |-> writes,
     new    |-> [cur     |-> IF CurKey \in writes THEN new.cur ELSE 0,
                 header  |-> Part(new.header, Names(writes, "header")),
                 tx      |-> Part(new.tx, Names(writes, "tx")),
                 mempool |-> Part(new.mempool, Names(writes, "mempool")),
                 token   |-> Part(new.token, Names(writes, "token"))]]

Written(f, names, new) == Override(Part(f, DOMAIN f \ names), new)

Apply(v, t) ==
    [cur     |-> IF CurKey \in t.writes THEN t.new.cur ELSE v.cur,
     header  |-> Written(v.header, Names(t.writes, "header"), t.new.header),
     tx      |-> Written(v.tx, Names(t.writes, "tx"), t.new.tx),
     mempool |-> Written(v.mempool, Names(t.writes, "mempool"), t.new.mempool),
     token   |-> Written(v.token, Names(t.writes, "token"), t.new.token)]

\* A method that returns an error leaves nothing to commit.
Begin(h, result, reads, writes) ==
    /\ txn[h] = Idle
    /\ result.err = OK
    /\ txn' = [txn EXCEPT ![h] = Open(reads, writes, result.db)]
    /\ UNCHANGED db

BeginDeposit(h, owner, amount) ==
    LET result == AddDepositBlock(db, owner, amount)
    IN  /\ db.cur <= MaxBlkNum
        /\ Begin(h, result, DepositReads(db), AddedKeys(db, result.db))

BeginBlock(h, order) ==
    LET result == AddBlock(db, order)
    IN  /\ db.cur <= MaxBlkNum
        /\ Begin(h, result, BlockReads(db),
                 AddedKeys(db, result.db) \cup ({"mempool"} \X DOMAIN db.mempool))

BeginPost(h, tx) ==
    Begin(h, AddTxToMempool(db, tx), PostReads(tx),
          InputKeys(tx) \cup {<<"mempool", TxHash(tx)>>})

BeginConfirm(h, txInPos, confSig) ==
    LET k == TxKey(ParseTxInPosition(txInPos))
    IN  Begin(h, ConfirmTx(db, txInPos, confSig), ConfirmReads(db, k), TxKeys({k}))

BeginExit(h, txOutPos) ==
    LET k == TxKey(ParseTxInPosition(txOutPos))
    IN  Begin(h, ExitTxOut(db, txOutPos), ExitReads(k), TxKeys({k}))

Commit(h) ==
    /\ txn[h].state = "open"
    /\ db' = Apply(db, txn[h])
    /\ txn' = [g \in Handlers |->
                IF g = h THEN Idle
                ELSE IF /\ txn[g].state = "open"
                        /\ txn[g].reads \cap txn[h].writes # {}
                THEN Stale
                ELSE txn[g]]

\* ErrConflict: the handler answers with the error, the watcher logs it.
Conflict(h) ==
    /\ txn[h] = Stale
    /\ txn' = [txn EXCEPT ![h] = Idle]
    /\ UNCHANGED db

-----------------------------------------------------------------------------
TxnInit == Init /\ txn = [h \in Handlers |-> Idle]

TxnNext ==
    \E h \in Handlers :
        \/ \E owner \in Address, amount \in DepositAmounts :
            BeginDeposit(h, owner, amount)
        \/ \E order \in IterationOrders(db) : BeginBlock(h, order)
        \/ \E tx \in ClientTxes : BeginPost(h, tx)
        \/ \E pos \in ClientPositions, sig \in Signature : BeginConfirm(h, pos, sig)
        \/ \E pos \in ClientPositions : BeginExit(h, pos)
        \/ Commit(h)
        \/ Conflict(h)

TxnSpec == TxnInit /\ [][TxnNext]_vars
-----------------------------------------------------------------------------
(* Properties.                                                             *)

\* The ledger's view of a transaction of a block, named by its tx index, and of
\* one that waits, with the marks it was posted with.
LedgerTx(tx) ==
    [signed |-> {<<tx.ins[i].core, tx.ins[i].sig>> :
                    i \in {i \in TxElements : ~IsNull(tx.ins[i])}},
     pays   |-> [o \in TxElements |-> OutputCore(tx.outs[o])]]

LedgerBlock(blkNum) ==
    [i \in DOMAIN db.header[blkNum] |-> LedgerTx(db.tx[<<blkNum, i>>])]

ConfirmedIns(tx) ==
    {tx.ins[i].core : i \in {i \in TxElements : tx.ins[i].confSig # NullSignature}}

PendingTx(tx) ==
    [signed    |-> LedgerTx(tx).signed,
     pays      |-> LedgerTx(tx).pays,
     void      |-> {o \in TxElements : tx.outs[o].spent},
     exited    |-> {o \in TxElements : tx.outs[o].exited},
     confirmed |-> ConfirmedIns(tx)]

Abstract == INSTANCE Ledger WITH
    Owners    <- Address,
    Unowned   <- NullAddress,
    Amounts   <- DepositAmounts,
    Transfers <- {PendingTx(tx) : tx \in ClientTxes},
    chain     <- [blk \in DOMAIN db.header |-> LedgerBlock(blk)],
    pending   <- {PendingTx(db.mempool[h]) : h \in DOMAIN db.mempool},
    void      <- {out \in Outputs : Output(out).spent /\ ~Consumed(out)},
    exited    <- {out \in Outputs : Output(out).exited},
    confirmed <- UNION {{k} \X ConfirmedIns(db.tx[k]) : k \in DOMAIN db.tx}

\* Concurrent requests, whatever their interleaving, have the effect of steps
\* of the ledger: flags read in a snapshot that is old by the time of the commit
\* never let a transaction in that the current chain would refuse, records
\* rewritten whole by two handlers lose neither an exit nor a confirmation, and an
\* output is marked spent without being spent only if it was posted so.
ImplementsLedger == Abstract!Spec

\* The mempool is counted before the transaction that fills it commits, and no
\* conflict tells of another that was counted at the same time.  So it does
\* exceed its capacity, but never by more than the requests that overlap.
OvershootBounded ==
    Cardinality(DOMAIN db.mempool) <= MempoolSize + Cardinality(Handlers) - 1
=============================================================================
