# more-minimal-plasma-chain: specifications and proofs

TLA+ models of the operator's child chain in `src/`, checked with TLC, and theorems about
them proved with TLAPS. Line numbers below are those of `src/`.

## The system

The operator runs one process (`main.go`, `app/`). It serves an HTTP API, watches a contract
on a root chain (Ethereum), and keeps the child chain in a Badger key-value store.

| part | state | operations |
|---|---|---|
| positions, `core/types/position.go` | none | build and parse the uint64 that names a transaction, input or output |
| transactions and blocks, `core/types/` | two inputs, two outputs with spent/exited flags, signatures; header and list | constructors, hash, Merkle leaf, sign, spend, exit, confirm |
| child chain, `core/childchain.go` | five key families: current number, block headers, transactions, mempool, token index | `AddBlock`, `AddDepositBlock`, `AddTxToMempool`, `ConfirmTx`, `ExitTxOut`, `GetBlock`, `GetTxProof`, `GetUTXOPositions` |
| HTTP handlers, `app/handler_*.go` | one Badger transaction per request | each runs one method, then commits; `PostBlockHandler` also sends the block's root to the root chain |
| watchers, `app/plasma.go` | two goroutines, each behind an unbuffered channel | `DepositCreated` adds a deposit block, `ExitStarted` exits an output |
| root chain client, `core/rootchain.go` | two connections | read the block number, send a root, deposit, exit, challenge; two subscriptions |
| process, `main.go`, `app/heartbeater.go`, `app/plasma.go` | channels `done`, `quitCh`, `doneCh`, `errCh`; whether the store is open and the server serves | `Start`, `Finalize`, `Shutdown`, `Beat`, `Stop` |
| client and command line, `client/`, `cmd/plasma/` | what a command has read so far | post, confirm, exit, challenge, process exits, fix a block, commit one by hand, read |

Interactions: handlers and watchers share nothing but the store, and each works in a
transaction of its own. A transaction reads the store as it was when the transaction began
and fails with a conflict if a key it read has since been written. The root chain and the
child chain number their blocks independently; a deposit on the root chain takes a number
there at once and one on the child chain when its event is handled.

What is hard here:

* whole records are read, changed in one field and written back (`setTx`), by requests that
  overlap; only Badger's conflict detection keeps a spent flag, an exit or a confirmation
  from being lost;
* the same fact is kept several times: that an output is spent is its flag, an entry of
  the token index, and the input of another transaction;
* the mempool is counted and emptied by iterating: iterating is not reading as far as
  conflict detection goes, and the iterator reuses the key it has handed out;
* what a client posts is stored as posted, with flags and confirmations that nothing checks;
* keys are text, and their byte order is not the order of the numbers in them;
* `PostBlockHandler` commits twice, on the root chain and in the store, with no way back;
* events are delivered once, handled in a transaction that may conflict, and dropped when
  it does;
* a command reads from the node, signs what it made of it and sends it later, to the node or
  to the contract, while blocks, spends and exits go on;
* the process is taken down by one goroutine while the others go on: the store is closed
  first, the heartbeat waited for, the server drained last.

What makes each part correct:

* positions: parsing gives back what was built, different elements differ;
* child chain: an output is spent at most once, only by its owner, only before it exits, and
  only from an earlier block; value is conserved; flags, token index and blocks agree;
  a record never loses what was written to it; what was accepted gets into a block, once; a
  proof proves the transaction asked for;
* concurrent requests: what commits has the effect of one request after another;
* node with root chain: the two chains give a number to the same block; every deposit
  arrives on the child chain, once; every block has its root on the root chain;
* process: shutdown ends, in order every request is answered, no goroutine is left behind
  with an answer nobody takes;
* command line: what was made from what was read is still good when it is sent; who may exit
  can, and who exits what he has spent can be challenged.

`PROJECT.json` lists each of these hazards at its line.

## Modules

| module | models | state |
|---|---|---|
| `Position` | `position.go` | none (operators) |
| `Tx` | `tx.go`, `txin.go`, `txout.go`, `signature.go` | none (operators) |
| `ChildChain` | `childchain.go`, block content of `block.go` | `db`, a record with one field per key family |
| `ChildChainTxns` | handlers and watchers in overlapping Badger transactions | `db`, and `txn`, the open transaction of each handler |
| `Ledger` | what the child chain promises, abstractly | `chain`, `pending`, `void`, `exited`, `confirmed` |
| `Node` | `PostBlockHandler`, `PostTxHandler`, `PostDepositHandler`, both watchers, the root chain and its client, faults | those of `ChildChainTxns`, and `root`, `sent`, `started`, `events`, `linked`, `up`, `call`, `direct`, `manual` |
| `Wallet` | the commands of `cmd/plasma/` that change something, the exits of the contract | `db`, `exits`, `events`, `cmd` |
| `Lifecycle` | `main.go`, `heartbeater.go`, `Start`, `Finalize`, `Shutdown` | where each goroutine is, what each channel holds, `store`, `server`, `process` |
| `Position_proofs`, `ChildChain_proofs`, `Records_proofs`, `TokenIndex_proofs`, `ChildChainTxns_proofs`, `Node_proofs`, `Wallet_proofs`, `Lifecycle_proofs` | theorems | |
| `MCChildChain`, `MCChildChainTxns`, `MCNode`, `MCWallet`, `MCLifecycle` | instances for TLC | |

`ChildChain` extends `Position` and `Tx`; `ChildChainTxns` extends `ChildChain` and instantiates
`Ledger` with a refinement mapping; `Node` extends `ChildChainTxns`; `Wallet` extends
`ChildChain`; `Lifecycle` stands alone, since which request uses the store does not matter to it.

**Position, Tx.** Positions are natural numbers modulo `Uint64Limit`. A hash is the content it
covers: `TxHash` leaves out signatures and flags as `Encode` does, `MerkleLeaf` adds the
signatures. A signature is the account whose key made it over the content it is attached
to; `NullSignature` is the missing one. A forged signature, or one moved from another
transaction, is the case of an account that is not the owner.

**ChildChain.** Every method is an operator on the store a transaction sees, and returns the
error and the store to commit; the operators have the names of the methods. The actions
`Deposit`, `Block`, `Post`, `Confirm` and `Exit` take the result of a method that returned no
error; a method that fails commits nothing, which is a stuttering step. The order of the
mempool, which is that of hashes, is any order (`IterationOrders`). `GetBlock` takes
transactions in the lexicographic order of the tx indexes printed in base `KeyNumeralBase`,
as the iterator over `tx_<blknum>_<txindex>` does. What the operator signs is kept in
`header` as the sequence of leaves, so that it can be compared with what `GetBlock` returns.

Clients post any transaction that can be decoded (`ClientTxes \subseteq Tx`): its outputs may be
marked spent or exited and its inputs carry anybody's confirmation, since `app/handler_tx.go:12`
decodes these fields, the hash and the signatures do not cover them, and `ValidateTx` does not
look at them. The properties are stated for such transactions.

`fixCurrentBlock` deletes what the code deletes. `txn.Delete(item.Key())` (`core/childchain.go:561`) keeps
the slice it is given until the commit, and the slice is the iterator's: `Next` takes
the item back and reads the key `PrefetchSize` items further on into it (100 in
`DefaultIteratorOptions` of Badger 1.5.4). So a mempool key is deleted only if fewer keys than that
follow it in the store (`KeysAfter`), where the order of keys is headers, number, mempool, tokens,
transactions. What is deleted in its place is another mempool key, which goes anyway, or the
beginning of a token's or transaction's key, which is no key. The transaction stays in the mempool and the
next block has it too: a copy. Its inputs are marked spent, so that nothing else spends them.

**ChildChainTxns.** A transaction is opened on the current store, runs its method and holds
the keys it read, the keys it wrote and the values; it commits later or finds itself stale.
Running the method is one step because everything it reads comes from the snapshot. The
read sets are those of Badger 1.5.4: `Get` records the key, an iterator records the items
it is asked for, counting the mempool records nothing. A commit makes every open
transaction that read one of the written keys stale. Which mempool keys a block's deletions miss
makes no difference here: a block reads all of the mempool's items.

**Ledger.** Has no flags, no index and no transactions of the store: an output can be spent if
no transfer of the chain or waiting names it, it did not exit and it is not void. Balance counts the *set*
of outputs spent. A transfer waits with the marks it was asked for with: outputs that are void
(marked spent though nobody spends them) or exited from the start, inputs that are confirmed; they take effect
when a block is made. A block takes some of what waits and may leave some of that waiting.
`ChildChainTxns!ImplementsLedger` is the refinement: the mapping reads the transactions of a block by
tx index, waiting transfers from the mempool, exits and confirmations from the records; an output
is void if its flag is set and no transaction names it.

**Node.** Two of the handlers are the watchers, the others requests. A request to fix a block
goes through `ReadRootNumber`, `BuildBlock`, `SendRoot` and `FinishRequest`; the number it read
is kept in `call`, and the block's leaves stand for its root. A sent root is in `sent`, in the
order of the operator's nonces, until `MineRoot` gives it the next number; `SendRootFails` covers an
answer that was lost. `root` is the contract as the code uses it: deposits and roots take
numbers from one counter. Events go to `events` if the subscriptions are alive (`linked`) and are
taken one at a time; a conflict or an error drops the event, as the code logs it and goes on.
`LinkFails` ends the subscriptions, whose error nobody reads; `Crash` loses open transactions and
events, `Restart` subscribes anew without asking for what was missed (a Geth `logs`
subscription delivers new logs only). With `Faults = FALSE` neither happens. Two things the operator
does by hand are in it too: `PostDeposit` (`POST /deposits`) makes a block of the child chain alone,
noted in `direct`, and `CommitByHand` (`block commit`) sends the root of any block once more;
`manual` counts them. A block takes the whole mempool, but its Merkle tree takes
`MerkleTreeLeaves` (1024 in the code): above that `Root` fails (`TreeTooSmall`).

**Wallet.** Each terminal runs one command at a time; `cmd` holds what it has read. A command is
a step that reads (`ReadForPayment`, `ReadForConfirmation`, `ReadForExit` and `ReadProof`,
`ReadForChallenge`) and a later one that sends (`PostPayment`, `PutConfirmation`, `StartExit`,
`ChallengeExit`); between them anything may happen. Requests of the node are atomic here, since
`ChildChainTxns` is about their overlap. The contract is assumed to have the roots of the child
chain's blocks, since `Node` is about the two chains. What it accepts is taken from the arguments
`core/rootchain.go` gives it (`AcceptsExit`, `AcceptsChallenge`, both external); positions are `uint64`
(`WalletAssumption`); `ProcessExits`
settles all exits, without the two weeks they wait. `exits` is what `PlasmaExits` reads, `events` the
`ExitStarted` events the watcher has not handled, in any order.

Users post what the command line makes, with flags clear and no confirmation; what other clients
may post is in `ChildChain`, `ChildChainTxns` and `Node`.

**Lifecycle.** One action per step of a goroutine. `main` starts the watchers and the heartbeat,
serves, and waits for `done`; `finalizer` waits for SIGTERM, closes the store, stops the heartbeat, shuts
the server down and closes `done`. `beater` is `Beat` in its loop; the goroutine it starts for each
ping is counted in `calling` while it waits for the root chain and in `sending` while it waits for
room in `errCh`. A ping may never return. Closing a closed channel panics. A request that finds
the store closed fails; a watcher that does may panic, which ends the process (`WatcherPanics`).

## Runs

| run | expected | shows |
|---|---|---|
| `childchain` | pass | all properties of `ChildChain`, one transaction at a time; every input and output is found again from its position (`PositionsRoundTrip`) |
| `txns` | pass | two concurrent requests implement `Ledger`, keep flags and token index in step, and overfill the mempool by one transaction at most (`OvershootBounded`) |
| `node` | pass | with two requests, both watchers, all faults and an operator who also works by hand, every block of the child chain, as the node serves it, but for direct deposits has a counterpart of its own on the root chain or on its way (`BlocksBacked`), under whatever number: no deposit is credited twice, and no block is committed before its root is sent |
| `wallet` | pass | with two commands at once: payments and confirmations stay good until they are sent (`CommandsStayGood`), the owner of a confirmed output can exit it (`ExitsStayGood`, for blocks whose keys are in index order), of two exits of the same value the earlier can be challenged (`DoubleExitsChallengeable`), what is listed can be spent (`ListedOutputsSpendable`) |
| `lifecycle` | pass | once told to stop the process ends (`ShutdownEnds`), in order only with every request answered (`AnsweredBeforeExit`), with no ping left that cannot deliver (`PingsDeliver`) and no channel closed twice (`ChannelsClosedOnce`) |
| `repeats` | violation | an output named by both inputs is counted twice (`ValueConserved`) |
| `order` | violation | proofs of blocks whose tx indexes have two digits (`ProofsProveTheirTx`) |
| `copies` | violation | a transaction is in a block and still in the mempool (`HeldOnce`) |
| `node_swap` | violation | the two chains have different blocks under one number (`SameBlocks`), without any fault |
| `node_stuck` | violation | the root chain stays a block ahead for good (`Synchronized`), without any fault |
| `node_lost` | violation | a deposit is never credited (`DepositsCredited`), without any fault |
| `node_full` | violation | more transactions wait than a block's Merkle tree has leaves (`PendingFixable`) |

Bounds of `childchain`: two accounts and the null address, four blocks, two transactions per
block and in the mempool, offsets 4 and 3 (3 is the least `ChildChainAssumption` allows; with two
different ones a mix-up shows), one deposit amount. Four blocks are enough for a deposit to be split, the parts to be joined again or
paid on, and exited at each point. The client transactions pay the whole amount, split it, pay too
much, spend without a signature or with a wrong one, and join two outputs, the two outputs of one
transaction included. Two more are posted with an output marked spent or exited and a confirmation
by its owner or by somebody else (`Marked`). Those that name one output twice are in `repeats` only, since they break
`ValueConserved`. `PrefetchSize` is 4, so that one deposit (three keys) is too few for a
deletion to miss its key, and a second block is enough; both cases and copies that are spent on, confirmed and
exited occur. The runs that must fail on something else keep 100, where no deletion misses.

Bounds of `txns`: two handlers, one account, three blocks, five transactions, four of which compete
for two deposits and one of which has every mark; `PrefetchSize` is 5, so that two deposits make
copies and one does not. Two transactions are enough to conflict; a third can only make one of the two
stale earlier. Handlers are symmetric. The mempool holds one transaction, so that two posts
that overlap overfill it. In `order` a block has four transactions and keys are printed in base 3,
so that one index has two digits, as with eleven in base 10.

Bounds of the node runs: one account, one payment, three blocks on the root chain, one exit. Three blocks
are a deposit, a block that spends it, and one more deposit or block that competes with it. `MaxBlkNum` is one
more than `MaxRootBlocks` and so never stops the child chain before the root chain. `node` has two requests and
one piece of work by hand (`MaxManual`), and `PrefetchSize` 4; the others one request and no work by hand. `MerkleTreeLeaves` is the mempool's capacity, where the tree never
fails, but for `node_full`, where it is one, and two transactions are pending.

Bounds of `wallet`: two accounts, one of which deposits, two symmetric terminals, three blocks, two
exits, payments of half a deposit, and the outputs of the first two blocks. That is enough for
a deposit to be paid on with change, confirmed, exited by both owners and challenged, with another
command under way at each point, and with `PrefetchSize` 5 for copies of payments. `MaxBlkNum`, `MaxExits` bound it; the mempool can be full.

Bounds of `lifecycle`: the two watchers of the code and two requests, with the heartbeat enabled or
not. Nothing else grows: at most one ping is under way, which `Lifecycle_proofs` shows.

Fairness (`NodeFairness`) is weak, and on four things only: roots that were sent are mined, a
request that has begun takes its next step, and each watcher takes its next step when it has an event
or an open transaction. The last three are goroutines that nothing but the scheduler holds
back; for a request it includes that the root chain's RPC answers or fails, since the code sets no
deadline of its own. Nothing is assumed of users, of restarts or of the connection.
`DepositsCredited` is violated under it, so that what `node_lost` shows is not a system that stopped.

`LifecycleFairness` is weak on the steps of goroutines that can run, answers to requests included.
It is strong on `BeatQuits` alone: `select` picks at random among the channels that are ready, and
an answer to a ping may be ready whenever `quitCh` is; one that is ready again and again is
picked some day. Nothing is assumed of SIGTERM, of pings, of new requests or of events.
`ShutdownEnds` therefore starts from a shutdown that has begun. It leaves one case out: when
`Start` fails before the heartbeat starts, and the heartbeat is enabled, `Stop` (`app/heartbeater.go:34`) waits for a
goroutine that does not exist, and the process hangs. Its end may also be a failure the
code allows: `Shutdown` returns an error (`main.go`), or a watcher panics on the closed store.

`CHECK_DEADLOCK FALSE` is said in `MCLifecycle.cfg`, where the process ends, and in
`MCChildChainOrder.cfg`, where the bound on blocks stops the run.

### Findings

1. `repeats`: `ValidateTx` (`core/childchain.go:278`) adds the amount of an output once per input
   that names it, under the comment "check in/out balance" (286).
2. `order`: `getBlock` (505) follows key order, `GetTxProof` (178) the tx index: from the
   eleventh transaction on, "create tx proof" (177) makes a proof of another transaction.
3. `node_swap`: the check for `ErrBlockchainNotSynchronized` (`app/handler_block.go:25`) compares a number
   read before the transaction begins, and the root is mined later still; a deposit in
   between takes the number, and the block and the deposit swap places on one chain only.
4. `node_stuck`: the root is sent (50) before the store commits (55). A conflict discards the
   block, and every later request to fix one is refused.
5. `node_lost`: a deposit event whose transaction conflicts is logged and dropped (`app/plasma.go:206`).
6. `node_full`: a block takes the whole mempool (`core/childchain.go:561`), but its Merkle tree (`core/types/block.go:81`)
   takes 1024 transactions; with more of them pending no block can be fixed. The comment at
   `core/childchain.go:26` asks of `MempoolSize` only that it is no more than a block takes.
7. `copies`: `Delete` is given the iterator's key buffer (`core/childchain.go:561`) under the comment "remove tx from
   mempool" (560). When a hundred keys follow, another key is deleted, and the next block has the
   transaction again: its outputs are issued once more. Every transaction of a block has three keys, so from the
   thirty-fourth on nothing leaves the mempool any more. Badger is not part of the repository; this follows version 1.5.4, which
   `go.mod` names, where `Item.Key` is valid until `Next` and `KeyCopy` is there for other uses.

"check mempool capacity" (`core/childchain.go:182`) does not hold the capacity when posts overlap, because counting
reads no key. With `MempoolSize` equal to `MaxBlockTxesNum`, which the comment allows, a mempool
overfilled in this way makes `AddBlock` fail for good. `OvershootBounded` says by how much it can
be overfilled.

The flags of a posted transaction are taken over unchecked (`app/handler_tx.go:12`, `core/childchain.go:231-292`): who
posts an output marked spent has an output that nobody spent and nobody ever can, while the token index has it
as unspent. No comment or doc rules this out; `SpentExplained` says that it is the only case of its kind.

## Proofs

`Position_proofs`: `PositionRoundTrip` for all offsets and limits, from `PositionAssumption`, when
the position does not wrap; `PositionsDistinct` follows. The point is that the parser's remainder by the
transaction's position agrees with the remainder by `TxPositionOffset` for elements of
blocks from 1 on, because there the former is larger than the element index.

`ChildChain_proofs`: for all accounts, client transactions, positions, amounts and bounds that
satisfy `ChildChainAssumption`, `TxAssumption` and `PositionAssumption`,

* `TypeCorrect`: `TypeOK`;
* `NoDoubleSpending`: `NoDoubleSpend`;
* `InputsPrecede`: `InputsInEarlierBlocks`;
* `PositionsLeadBack`: `PositionsRoundTrip`, from `TypeOK` and the theorem on positions.

None of them is inductive alone. That nobody has spent what a posted transaction spends is checked by
the code on the flag, so `NoDoubleSpend` needs that whatever is named is flagged (the reverse
does not hold of outputs posted with the flag set); that a new block overwrites no record needs every key to be below the
current number; that two pending transactions are not taken for copies of each other needs the mempool
to be keyed by the hash. `NoDoubleSpend` does not say that an output is named once, which finding 7
refutes, but that what names it is one transaction and its copies.
The inductive invariant `Inv` is the conjunction of these: `StoreType`, `KeysBelowCurrent`,
`MempoolKeyed`, `InputsNamed`, `ConsumedIsSpent` (whatever is named is flagged), `SpendersAlike` (what names it is one
transaction), stated of a store. There is one
lemma per method (the store it returns satisfies `Inv` if the one it is given does), one that every
step of `Next` preserves it, and the theorems follow from it one by one.

What a step does to the store is stated once, as `Effect(v, w)`: `w` is what one method that
returned no error makes of `v`. `Serial` is a store that starts as `NewChildChain` and changes by
effects only, and `InvHolds` proves `Inv` of it; so whatever is shown to run its methods one after
another has every property below, and `ChildChain`, `ChildChainTxns` and `Node` are shown to.

`Records_proofs`: `SpentFlagsExplained` (`SpentExplained`), `SpendersAuthorized` (`InputsAuthorized`), `RecordsKept`
(`RecordsOnlyGrow`), `AcceptedKept` (`PendingKept`), `ExitedStayUnspent` (`ExitedNotSpentLater`). That a flag nobody's
input accounts for was posted is `Explained`, an invariant of `Inv` together with what clients post. The lemmas say of each method that it keeps the records
(`Keeps`: leaves and owners the same, flags and confirmations only set, but for a confirmation the owner replaces), what becomes of the mempool (`KeepsPending`), and where each
transaction of the store it returns comes from (`Origins`), which carries a signature checked at
acceptance to the block.

The same module proves `ValueKept`: `ClientsNameOnce => (Spec => []ValueConserved)`, where `ClientsNameOnce` says that no
client transaction names the same output with both inputs. Without it the property is false (finding 1).
The invariant is `Valued`, the property stated of a store, together with `Inv` and the mempool's
transactions naming each output once. The property bounds what is unspent, in blocks and in the transactions no block has yet (`Unsealed`), by deposits
and by what copies pay once more (`Issued`). What a block takes of the mempool moves value from one sum to the
other, whether it is deleted there or not;
what a post adds is covered, input by input, by what ceases to be unspent (`HasMore`), which needs
that the inputs name different, unspent outputs. The sums are folds over finite sets of
unknown size: the facts about them (`Sums over finite sets` in `ChildChain_proofs`) are proved by taking the
smallest set that would refute them, in place of an induction. `ClientEffect` is an `Effect` whose post is one of
`ClientTxes`, and `ClientSerial` a `Serial` of them; the concurrent transactions and the node are shown to be
that, which gives `ConcurrentValue` and `NodeValue`.

`TokenIndex_proofs`: `TokensExact` (`TokenIndexExact`) and `ListingExact` (`UTXOListingExact`). The
entry for an output is a position, kept and read back as a uint64, and 0 means that nobody spends
it; both theorems therefore assume `PositionsFit`: the last position of block `MaxBlkNum` is below
`Uint64Limit`. With the code's offsets a block has 10^9 positions, so that this holds for the first
1.8 * 10^10 blocks. Beyond them positions wrap, and the index is wrong.

The same module proves `ServedAsSigned` (`BlocksAsSigned`). The property says of every block that it is numbered
and indexed without a gap and that its records have the leaves the operator signed; and that
`getBlock` gives back the sequence that was signed if the keys of the block's transactions are in
the order of their indexes (`KeysInOrder`), as they are up to ten transactions. Above that the order differs
and finding 2 applies. The invariant is `Recorded`; that the iterator's rank of a key is its index when
the keys are in order (`OrderedServed`) is a fact about cardinalities of intervals.

`ChildChainTxns_proofs`: for any finite, non-empty set of handlers (`HandlersAssumption`),
`ConcurrentIsSerial`: overlapping transactions change the store by effects only. From it the properties
above follow for them too (`ConcurrentTypes`, `ConcurrentSpentFlags`, `ConcurrentNoDoubleSpend`, `ConcurrentPendingKept`,
`ConcurrentInputsPrecede`, `ConcurrentSigners`, `ConcurrentRecordsKept`, `ConcurrentExitsKept`,
`ConcurrentValue`, `ConcurrentTokens`, `ConcurrentListing`, `ConcurrentBlocks`). The invariant is about open transactions: one that is not
stale is `Fresh`, that is, its method run on the store as it is *now* would return what it returned
on its snapshot. There is one lemma per method for what it reads: the records it looked at, the current number,
the mempool's items. What no read covers is the count of the mempool, so a fresh post is one of
a store in which the mempool may have filled meanwhile; for `Effect` that makes no difference, and by how
much it may is `OvershootIsBounded` (`OvershootBounded`): the mempool with the open posts is at most
its capacity and one less than the handlers, as each handler counted before it was open.

`Node_proofs`: `BlocksAreBacked` (`BlocksBacked`) for any requests, watchers' events, faults and bounds.
The invariant `NodeInv` has four parts: open transactions are fresh, the two chains and what
is on its way have their types, an open transaction and the step its request has reached belong
together (`CallsMatch`), and `Balance`: for every block `B`, how often the child chain has it (direct deposits apart), and
the deposit events that wait and will make it, and the open transactions that will
commit it and whose root is out, are together no more than its occurrences on the root chain and among the roots
sent. `BlocksBacked` alone is not inductive: a deposit event, or a root already sent, is a
claim on a block of the root chain before the child chain has the block, and two claims may be for equal
blocks. The blocks are counted as the node serves them (`GetBlock`). Likewise proved of the
node: `NodeIsSerial`, and from it `NodeSpendsOnce`, `NodePendingKept`, `NodeSigners`, `NodeRecordsKept`, `NodeExitsKept`, `NodeValue` and `NodeBlocks`, through
crashes, lost connections and refused requests.

`Wallet_proofs`: for any accounts, payments, positions and number of terminals (`WalletAssumption`), `GoodCommands`
(`CommandsStayGood`), `GoodExits` (`ExitsStayGood`), `DoubleExits` (`DoubleExitsChallengeable`), `ListedSpendable`
(`ListedOutputsSpendable`, under `PositionsFit`) and `PaymentsConserve` (`ValueConserved`, without a condition, since a payment names
one output, but for copies). What a command holds is about a store that has moved on, so the invariant
`WalletInv` says of each command how what it holds relates to the store as it is (`GoodCommand`): the
transaction it read is an `Earlier` version of the record, with the same leaf and no confirmation the
record has not; the output it spends is there with the amount it pays; the proof it holds is
the record's leaf. Of each exit it says that its owner is the output's and that every
input of its transaction is confirmed (`Exited`), which is what a challenge needs later. One lemma carries
all of this over any move of the store (`GoodCommandKept`, from `Keeps`); `WalletIsSerial` shows that there are no
moves but the methods', with transactions that users make in the place of `ClientTxes`. That the position a command
is given and the position it asks with lead to the same record is `TxOfPosition`. Put together, the theorems use
everything above: authorization for confirmations, the token index for the listing, `Recorded` for proofs.

`Lifecycle_proofs`: for any watchers and requests, `ExitAnswersAll` (`AnsweredBeforeExit`),
`NoPingBlocks` (`PingsDeliver`) and `NoChannelClosedTwice` (`ChannelsClosedOnce`). They share the
inductive invariant `LifecycleInv`, whose parts say which goroutine has passed the point where a
closed channel was closed (`Closers`), that a ping is under way exactly while the heartbeat waits for it or
has left it behind (`OnePing`), and that the server is closed before it is drained (`Draining`). It was checked with TLC
before it was proved.

Only model-checked:

* `ImplementsLedger`, which needs the balance of `ValidateTx` to be the ledger's, which finding 1 refutes for
  repeated inputs;
* liveness (`ShutdownEnds`), which rests on fairness and is out of the prover's reach.

## Not modelled, and the plan

Done in this order: positions, transaction type, child chain, its proofs, concurrent
transactions, the ledger, the node, the command line, the process; proofs for records, token
index, concurrent transactions and the node, of conserved value, of the blocks that are served,
and of the command line. What is left is a proof of the refinement: initial states and steps of
`ChildChainTxns` => `Ledger`, with no client transaction naming an output twice.

Left out, and why:

* the Merkle tree's hashing, RLP and HTTP: pure functions or libraries at the edge, modelled by
  what they give back (leaves, records, one step per request);
* configuration and utilities (`app/context.go`'s forms, flags, error codes): no state;
* the command `deploy`, which creates the contract before there is a chain, and commands that only
  read and print;
* the contract's queue of exits, its two weeks and bonds: outside `src/`;
* a node whose `NewChildChain` failed: `NewPlasma` ignores the error (`app/plasma.go:46`), and every request then
  dereferences nil.
