------------------------- MODULE ChildChainTxns_proofs -------------------------
(***************************************************************************)
(* Concurrent transactions keep what one transaction at a time keeps, for  *)
(* any number of handlers.  The invariant says that an open transaction    *)
(* that is not stale is one that could have begun now: its snapshot and    *)
(* the store agree on everything it has read.  So each commit has the      *)
(* effect of a step of ChildChain.                                         *)
(***************************************************************************)
EXTENDS ChildChainTxns, TokenIndex_proofs

USE DEF TxElements, TxElementsNum

-----------------------------------------------------------------------------
(* Stores as records of functions.                                         *)

FcnStore(v) ==
    /\ v = [cur |-> v.cur, header |-> v.header, tx |-> v.tx,
            mempool |-> v.mempool, token |-> v.token]
    /\ IsFcn(v.header) /\ IsFcn(v.tx) /\ IsFcn(v.mempool) /\ IsFcn(v.token)

\* g is f but for these names.
Agree(f, g, names) ==
    \A n : n \notin names =>
        /\ n \in DOMAIN g <=> n \in DOMAIN f
        /\ n \in DOMAIN f => g[n] = f[n]

\* f and g agree on these names.
SameOn(f, g, names) ==
    \A n \in names :
        /\ n \in DOMAIN f <=> n \in DOMAIN g
        /\ n \in DOMAIN f => f[n] = g[n]

LEMMA PartSame ==
    ASSUME NEW f, NEW g, NEW names, SameOn(f, g, names)
    PROVE  Part(f, names) = Part(g, names)
<1>1. DOMAIN f \cap names = DOMAIN g \cap names
  BY DEF SameOn
<1>2. \A n \in DOMAIN f \cap names : f[n] = g[n]
  BY DEF SameOn
<1> QED  BY <1>1, <1>2 DEF Part

LEMMA WrittenPart ==
    ASSUME NEW f, NEW g, IsFcn(g), NEW names, Agree(f, g, names)
    PROVE  Written(f, names, Part(g, names)) = g
<1> DEFINE w == Written(f, names, Part(g, names))
<1>1. \A n : n \in DOMAIN Part(g, names) <=> n \in DOMAIN g /\ n \in names
  BY DEF Part
<1>2. \A n \in DOMAIN Part(g, names) : Part(g, names)[n] = g[n]
  BY DEF Part
<1>3. \A n : n \in DOMAIN Part(f, DOMAIN f \ names) <=> n \in DOMAIN f /\ n \notin names
  BY DEF Part
<1>4. \A n \in DOMAIN Part(f, DOMAIN f \ names) : Part(f, DOMAIN f \ names)[n] = f[n]
  BY DEF Part
<1>5. IsFcn(w)
  BY DEF IsFcn, Written, Override
<1>6. \A n : n \in DOMAIN w <=> n \in DOMAIN g
  BY <1>1, <1>3 DEF Written, Override, Agree
<1>7. \A n \in DOMAIN w : w[n] = g[n]
  BY <1>1, <1>2, <1>3, <1>4 DEF Written, Override, Agree
<1> HIDE DEF w
<1> QED  BY <1>5, <1>6, <1>7, FcnEqual DEF w

\* new is v but for these keys.
OnlyWrites(v, new, writes) ==
    /\ CurKey \in writes \/ new.cur = v.cur
    /\ Agree(v.header, new.header, Names(writes, "header"))
    /\ Agree(v.tx, new.tx, Names(writes, "tx"))
    /\ Agree(v.mempool, new.mempool, Names(writes, "mempool"))
    /\ Agree(v.token, new.token, Names(writes, "token"))

\* Committing a transaction in the store it began in gives what it computed.
LEMMA ApplyOpen ==
    ASSUME NEW v, NEW new, FcnStore(new), NEW reads, NEW writes,
           OnlyWrites(v, new, writes)
    PROVE  Apply(v, Open(reads, writes, new)) = new
<1> DEFINE t == Open(reads, writes, new)
<1>1. /\ t.writes = writes
      /\ CurKey \in writes => t.new.cur = new.cur
      /\ t.new.header = Part(new.header, Names(writes, "header"))
      /\ t.new.tx = Part(new.tx, Names(writes, "tx"))
      /\ t.new.mempool = Part(new.mempool, Names(writes, "mempool"))
      /\ t.new.token = Part(new.token, Names(writes, "token"))
  BY DEF Open
<1> HIDE DEF t
<1>2. Written(v.header, Names(writes, "header"), t.new.header) = new.header
  BY <1>1, WrittenPart DEF OnlyWrites, FcnStore
<1>3. Written(v.tx, Names(writes, "tx"), t.new.tx) = new.tx
  BY <1>1, WrittenPart DEF OnlyWrites, FcnStore
<1>4. Written(v.mempool, Names(writes, "mempool"), t.new.mempool) = new.mempool
  BY <1>1, WrittenPart DEF OnlyWrites, FcnStore
<1>5. Written(v.token, Names(writes, "token"), t.new.token) = new.token
  BY <1>1, WrittenPart DEF OnlyWrites, FcnStore
<1>6. (IF CurKey \in writes THEN t.new.cur ELSE v.cur) = new.cur
  BY <1>1 DEF OnlyWrites
<1>7. Apply(v, t) = [cur |-> new.cur, header |-> new.header, tx |-> new.tx,
                     mempool |-> new.mempool, token |-> new.token]
  BY <1>1, <1>2, <1>3, <1>4, <1>5, <1>6 DEF Apply
<1> QED  BY <1>7 DEF FcnStore, t

\* Two stores that agree on the keys written make the same transaction.
LEMMA OpenSame ==
    ASSUME NEW reads, NEW writes, NEW x, NEW y,
           CurKey \in writes => x.cur = y.cur,
           SameOn(x.header, y.header, Names(writes, "header")),
           SameOn(x.tx, y.tx, Names(writes, "tx")),
           SameOn(x.mempool, y.mempool, Names(writes, "mempool")),
           SameOn(x.token, y.token, Names(writes, "token"))
    PROVE  Open(reads, writes, x) = Open(reads, writes, y)
<1>1. /\ Part(x.header, Names(writes, "header")) = Part(y.header, Names(writes, "header"))
      /\ Part(x.tx, Names(writes, "tx")) = Part(y.tx, Names(writes, "tx"))
      /\ Part(x.mempool, Names(writes, "mempool")) = Part(y.mempool, Names(writes, "mempool"))
      /\ Part(x.token, Names(writes, "token")) = Part(y.token, Names(writes, "token"))
  BY PartSame
<1> QED  BY <1>1 DEF Open
-----------------------------------------------------------------------------
(* Keys.                                                                   *)

Pairs(keys) == \A key \in keys : key = <<key[1], key[2]>>

LEMMA NamesOf ==
    ASSUME NEW keys, Pairs(keys), NEW family, NEW n
    PROVE  n \in Names(keys, family) <=> <<family, n>> \in keys
  BY DEF Names, Pairs

\* The keys of records, as confirming and exiting write them, and accepting with
\* a key of the mempool.
LEMMA RecordNames ==
    ASSUME NEW ks
    PROVE  LET keys == TxKeys(ks)
           IN  /\ Pairs(keys)
               /\ CurKey \notin keys
               /\ Names(keys, "tx") = ks
               /\ Names(keys, "header") = {}
               /\ Names(keys, "mempool") = {}
               /\ Names(keys, "token") = {}
<1>1. Pairs(TxKeys(ks))
  BY DEF TxKeys, Pairs
<1>2. CurKey \notin TxKeys(ks)
  BY DEF TxKeys, CurKey
<1>3. \A n : /\ <<"tx", n>> \in TxKeys(ks) <=> n \in ks
             /\ <<"header", n>> \notin TxKeys(ks)
             /\ <<"mempool", n>> \notin TxKeys(ks)
             /\ <<"token", n>> \notin TxKeys(ks)
  BY DEF TxKeys
<1> QED  BY <1>1, <1>2, <1>3, NamesOf

LEMMA PostNames ==
    ASSUME NEW tx
    PROVE  LET keys == InputKeys(tx) \cup {<<"mempool", TxHash(tx)>>}
           IN  /\ Pairs(keys)
               /\ CurKey \notin keys
               /\ Names(keys, "tx") = {TxKey(c) : c \in Consumes(tx)}
               /\ Names(keys, "header") = {}
               /\ Names(keys, "mempool") = {TxHash(tx)}
               /\ Names(keys, "token") = {}
<1> DEFINE ks == {TxKey(c) : c \in Consumes(tx)}
           H == TxHash(tx)
           keys == TxKeys(ks) \cup {<<"mempool", H>>}
<1>1. InputKeys(tx) = TxKeys(ks)
  BY DEF InputKeys
<1> HIDE DEF ks, H
<1>2. Pairs(keys)
  BY DEF TxKeys, Pairs
<1>3. CurKey \notin keys
  BY DEF TxKeys, CurKey
<1>4. \A n : /\ <<"tx", n>> \in keys <=> n \in ks
             /\ <<"header", n>> \notin keys
             /\ <<"mempool", n>> \in keys <=> n = H
             /\ <<"token", n>> \notin keys
  BY DEF TxKeys
<1> HIDE DEF keys
<1>5. /\ Names(keys, "tx") = ks
      /\ Names(keys, "header") = {}
      /\ Names(keys, "mempool") = {H}
      /\ Names(keys, "token") = {}
  BY <1>2, <1>4, NamesOf
<1> QED  BY <1>1, <1>2, <1>3, <1>5 DEF keys, ks, H

\* The keys a block writes.
BlockNames(keys, v, new, batch) ==
    /\ Pairs(keys)
    /\ CurKey \in keys
    /\ Names(keys, "tx") = BlockTxKeys(new, v.cur)
    /\ Names(keys, "header") = {v.cur}
    /\ Names(keys, "mempool") = batch
    /\ Names(keys, "token") =
         {key \in DOMAIN new.token : \/ key \notin DOMAIN v.token
                                     \/ new.token[key] # v.token[key]}

LEMMA AddedNames ==
    ASSUME NEW v, NEW new, NEW batch
    PROVE  BlockNames(AddedKeys(v, new) \cup ({"mempool"} \X batch), v, new, batch)
<1> DEFINE ks == BlockTxKeys(new, v.cur)
           changed == {key \in DOMAIN new.token : \/ key \notin DOMAIN v.token
                                                  \/ new.token[key] # v.token[key]}
           keys == {CurKey, <<"header", v.cur>>} \cup TxKeys(ks)
                     \cup ({"token"} \X changed) \cup ({"mempool"} \X batch)
<1>1. AddedKeys(v, new) \cup ({"mempool"} \X batch) = keys
  BY DEF AddedKeys
<1> HIDE DEF ks, changed
<1>2. Pairs(keys)
  BY DEF TxKeys, Pairs, CurKey
<1>3. CurKey \in keys
  OBVIOUS
<1>4. \A n : /\ <<"tx", n>> \in keys <=> n \in ks
             /\ <<"header", n>> \in keys <=> n = v.cur
             /\ <<"mempool", n>> \in keys <=> n \in batch
             /\ <<"token", n>> \in keys <=> n \in changed
  BY DEF TxKeys, CurKey
<1> HIDE DEF keys
<1>5. /\ Names(keys, "tx") = ks
      /\ Names(keys, "header") = {v.cur}
      /\ Names(keys, "mempool") = batch
      /\ Names(keys, "token") = changed
  BY <1>2, <1>4, NamesOf
<1> QED  BY <1>1, <1>2, <1>3, <1>5 DEF keys, ks, changed, BlockNames

-----------------------------------------------------------------------------
(* Transactions that could begin now.                                      *)

FreshPost(v, t) ==
    \E tx \in ClientTxes :
        /\ PostReads(tx) \subseteq t.reads
        /\ ValidateTx(v, tx) = OK
        /\ t = Open(t.reads, InputKeys(tx) \cup {<<"mempool", TxHash(tx)>>},
                    Accepted(v, tx))

FreshConfirm(v, t) ==
    \E pos \in ClientPositions, sig \in Signature :
        LET k == TxKey(ParseTxInPosition(pos))
        IN  /\ ConfirmTx(v, pos, sig).err = OK
            /\ ConfirmReads(v, k) \subseteq t.reads
            /\ t = Open(t.reads, TxKeys({k}), ConfirmTx(v, pos, sig).db)

FreshExit(v, t) ==
    \E pos \in ClientPositions :
        LET k == TxKey(ParseTxInPosition(pos))
        IN  /\ ExitReads(k) \subseteq t.reads
            /\ ExitTxOut(v, pos).err = OK
            /\ t = Open(t.reads, TxKeys({k}), ExitTxOut(v, pos).db)

FreshDeposit(v, t) ==
    /\ v.cur <= MaxBlkNum
    /\ CurKey \in t.reads
    /\ \E owner \in Address, amount \in DepositAmounts :
        LET new == AddDepositBlock(v, owner, amount).db
        IN  t = Open(t.reads, AddedKeys(v, new), new)

\* t has the block of a batch of the mempool, and takes "gone" out of it.
BlockOf(v, t, batch, gone) ==
    \E order \in Bijection(0 .. Cardinality(batch) - 1, batch) :
        LET new == Sealed(v, batch, gone, order)
        IN  t = Open(t.reads, AddedKeys(v, new) \cup ({"mempool"} \X batch), new)

FreshBlock(v, t) ==
    /\ v.cur <= MaxBlkNum
    /\ CurKey \in t.reads
    /\ \E batch \in SUBSET DOMAIN v.mempool :
        /\ batch # {}
        /\ Cardinality(batch) <= MaxBlockTxesNum
        /\ {"mempool"} \X batch \subseteq t.reads
        /\ \E gone \in SUBSET batch : BlockOf(v, t, batch, gone)

Fresh(v, t) ==
    \/ FreshPost(v, t)
    \/ FreshConfirm(v, t)
    \/ FreshExit(v, t)
    \/ FreshDeposit(v, t)
    \/ FreshBlock(v, t)

\* What committing t in v does: it makes w of v with the effect of a step, writes
\* no key but t.writes, and adds no block unless it writes the block number.
Commits(v, t, w) ==
    /\ Apply(v, t) = w
    /\ ClientEffect(v, w)
    /\ FcnStore(w)
    /\ Pairs(t.writes)
    /\ OnlyWrites(v, w, t.writes)
    /\ CurKey \in t.writes \/ Rewrites(v, w)

-----------------------------------------------------------------------------
(* Committing them.                                                        *)

LEMMA OpenFields ==
    ASSUME NEW t, NEW writes, NEW new, t = Open(t.reads, writes, new)
    PROVE  t.writes = writes
<1> DEFINE reads == t.reads
<1>1. t = Open(reads, writes, new)
  OBVIOUS
<1> HIDE DEF reads
<1> QED  BY <1>1 DEF Open

\* A record none of whose outputs is spent stays the same.
LEMMA SpendNothing ==
    ASSUME NEW tx \in Tx
    PROVE  SpendOutputs(tx, {}) = tx
<1>1. \A o \in TxElements : [tx.outs[o] EXCEPT !.spent = @ \/ o \in {}] = tx.outs[o]
  BY DEF Tx, TxOut
<1>2. [o \in TxElements |-> [tx.outs[o] EXCEPT !.spent = @ \/ o \in {}]] = tx.outs
  BY <1>1 DEF Tx
<1> QED  BY <1>2 DEF SpendOutputs, Tx

LEMMA PostCommits ==
    ASSUME NEW v, Inv(v), FcnStore(v), NEW t, FreshPost(v, t)
    PROVE  \E w : Commits(v, t, w)
<1>1. PICK tx \in ClientTxes :
        /\ ValidateTx(v, tx) = OK
        /\ t = Open(t.reads, InputKeys(tx) \cup {<<"mempool", TxHash(tx)>>},
                    Accepted(v, tx))
  BY DEF FreshPost
<1> DEFINE w == Accepted(v, tx)
           keys == InputKeys(tx) \cup {<<"mempool", TxHash(tx)>>}
<1>2. AcceptEffect(v, w)
  BY <1>1, ChildChainAssumption DEF AcceptEffect
<1>3. ClientEffect(v, w) /\ Rewrites(v, w)
  BY <1>1, <1>2, ClientPosts, EffectRewrites
<1>4. /\ w = [cur |-> v.cur, header |-> v.header, tx |-> SpendInputs(v, tx),
              mempool |-> addTxToMempool(v, tx), token |-> v.token]
      /\ IsFcn(SpendInputs(v, tx))
      /\ IsFcn(addTxToMempool(v, tx))
  <2> DEFINE a == SpendInputs(v, tx)
             m == addTxToMempool(v, tx)
  <2>1. w = [v EXCEPT !.tx = a, !.mempool = m]
    BY DEF Accepted
  <2>2. IsFcn(a) /\ IsFcn(m)
    BY DEF IsFcn, SpendInputs, addTxToMempool, Override
  <2> HIDE DEF a, m
  <2>3. w = [cur |-> v.cur, header |-> v.header, tx |-> a, mempool |-> m,
             token |-> v.token]
    BY <2>1 DEF FcnStore
  <2> QED  BY <2>2, <2>3 DEF a, m
<1>5. FcnStore(w)
  BY <1>4 DEF FcnStore
<1>6. /\ Pairs(keys)
      /\ CurKey \notin keys
      /\ Names(keys, "tx") = {TxKey(c) : c \in Consumes(tx)}
      /\ Names(keys, "mempool") = {TxHash(tx)}
  BY PostNames
<1>7. Agree(v.tx, w.tx, {TxKey(c) : c \in Consumes(tx)})
  <2>1. DOMAIN w.tx = DOMAIN v.tx
    BY <1>4 DEF SpendInputs
  <2>2. ASSUME NEW k \in DOMAIN v.tx, k \notin {TxKey(c) : c \in Consumes(tx)}
        PROVE  w.tx[k] = v.tx[k]
    <3> DEFINE indexes == {c[3] : c \in {c \in Consumes(tx) : TxKey(c) = k}}
    <3>1. indexes = {}
      BY <2>2
    <3>2. w.tx[k] = SpendOutputs(v.tx[k], indexes)
      BY <1>4 DEF SpendInputs
    <3> HIDE DEF indexes, w
    <3> QED  BY <3>1, <3>2, SpendNothing DEF Inv, StoreType
  <2> HIDE DEF w
  <2> QED  BY <2>1, <2>2 DEF Agree
<1>8. Agree(v.mempool, w.mempool, {TxHash(tx)})
  BY <1>4 DEF addTxToMempool, Override, Agree
<1> HIDE DEF w
<1>9. OnlyWrites(v, w, keys)
  BY <1>3, <1>6, <1>7, <1>8 DEF OnlyWrites, Rewrites, Agree
<1>10. t = Open(t.reads, keys, w) /\ t.writes = keys
  BY <1>1, OpenFields DEF w
<1> HIDE DEF keys
<1>11. Apply(v, t) = w
  BY <1>5, <1>9, <1>10, ApplyOpen
<1> QED  BY <1>3, <1>5, <1>6, <1>9, <1>10, <1>11 DEF Commits

\* Rewriting one record.
LEMMA SetTxCommits ==
    ASSUME NEW v, Inv(v), FcnStore(v), NEW t, NEW k \in DOMAIN v.tx, NEW new,
           t = Open(t.reads, TxKeys({k}), setTx(v, k, new)),
           ClientEffect(v, setTx(v, k, new)), Rewrites(v, setTx(v, k, new))
    PROVE  Commits(v, t, setTx(v, k, new))
<1> DEFINE w == setTx(v, k, new)
           keys == TxKeys({k})
<1>1. /\ w = [cur |-> v.cur, header |-> v.header, tx |-> [v.tx EXCEPT ![k] = new],
              mempool |-> v.mempool, token |-> v.token]
      /\ IsFcn([v.tx EXCEPT ![k] = new])
  BY DEF setTx, FcnStore, IsFcn
<1>2. FcnStore(w)
  BY <1>1 DEF FcnStore
<1>3. Pairs(keys) /\ Names(keys, "tx") = {k}
  BY RecordNames
<1>4. Agree(v.tx, w.tx, {k})
  BY <1>1 DEF Agree
<1>5. w.mempool = v.mempool
  BY <1>1
<1>6. Rewrites(v, w) /\ ClientEffect(v, w)
  OBVIOUS
<1> HIDE DEF w
<1>7. OnlyWrites(v, w, keys)
  BY <1>3, <1>4, <1>5, <1>6 DEF OnlyWrites, Rewrites, Agree
<1>8. t = Open(t.reads, keys, w) /\ t.writes = keys
  BY OpenFields DEF w
<1> HIDE DEF keys
<1>9. Apply(v, t) = w
  BY <1>2, <1>7, <1>8, ApplyOpen
<1> QED  BY <1>2, <1>3, <1>6, <1>7, <1>8, <1>9 DEF Commits, w

LEMMA ConfirmCommits ==
    ASSUME NEW v, Inv(v), FcnStore(v), NEW t, FreshConfirm(v, t)
    PROVE  \E w : Commits(v, t, w)
<1>1. PICK pos \in ClientPositions, sig \in Signature :
        /\ ConfirmTx(v, pos, sig).err = OK
        /\ t = Open(t.reads, TxKeys({TxKey(ParseTxInPosition(pos))}),
                    ConfirmTx(v, pos, sig).db)
  BY DEF FreshConfirm
<1> DEFINE in == ParseTxInPosition(pos)
           k == TxKey(in)
           new == SetConfirmationSignature(v.tx[k], in[3], sig)
           w == ConfirmTx(v, pos, sig).db
<1>2. k \in DOMAIN v.tx /\ w = setTx(v, k, new)
  BY <1>1 DEF ConfirmTx, Failed, Done, OK
<1>3. ConfirmEffect(v, w)
  BY <1>1 DEF ConfirmEffect
<1>4. t = Open(t.reads, TxKeys({k}), w)
  BY <1>1
<1> HIDE DEF w, new, k
<1>5. ClientEffect(v, w) /\ Rewrites(v, w)
  BY <1>3, OthersAddNothing, EffectRewrites
<1> QED  BY <1>2, <1>4, <1>5, SetTxCommits

LEMMA ExitCommits ==
    ASSUME NEW v, Inv(v), FcnStore(v), NEW t, FreshExit(v, t)
    PROVE  \E w : Commits(v, t, w)
<1>1. PICK pos \in ClientPositions :
        /\ ExitTxOut(v, pos).err = OK
        /\ t = Open(t.reads, TxKeys({TxKey(ParseTxInPosition(pos))}),
                    ExitTxOut(v, pos).db)
  BY DEF FreshExit
<1> DEFINE out == ParseTxInPosition(pos)
           k == TxKey(out)
           new == ExitOutput(v.tx[k], out[3])
           w == ExitTxOut(v, pos).db
<1>2. k \in DOMAIN v.tx /\ w = setTx(v, k, new)
  BY <1>1 DEF ExitTxOut, Failed, Done, OK
<1>3. ExitEffect(v, w)
  BY <1>1 DEF ExitEffect
<1>4. t = Open(t.reads, TxKeys({k}), w)
  BY <1>1
<1> HIDE DEF w, new, k
<1>5. ClientEffect(v, w) /\ Rewrites(v, w)
  BY <1>3, OthersAddNothing, EffectRewrites
<1> QED  BY <1>2, <1>4, <1>5, SetTxCommits

-----------------------------------------------------------------------------
(* Committing blocks.                                                      *)

\* The store with the mempool m and a block of txes.
Extended(v, m, txes) ==
    incrementCurrentBlockNumber(addBlock([v EXCEPT !.mempool = m], v.cur, txes))

BatchTxes(v, order) == [i \in DOMAIN order |-> v.mempool[order[i]]]

DepositTxes(owner, amount) == [i \in {0} |-> DepositTx(owner, amount)]

NewHeader(blkNum, txes) == [b \in {blkNum} |-> MerkleLeaves(txes)]

LEMMA ExtendedFields ==
    ASSUME NEW v, FcnStore(v), NEW m, IsFcn(m), NEW txes,
           NEW new, new = Extended(v, m, txes)
    PROVE  /\ FcnStore(new)
           /\ new.cur = v.cur + 1
           /\ new.header = Override(v.header, NewHeader(v.cur, txes))
           /\ new.tx = Override(v.tx, NewTxes(v.cur, txes))
           /\ new.mempool = m
           /\ new.token = Override(Override(v.token, SpentTokens(v, v.cur, txes)),
                                   NewTokens(v.cur, txes))
<1> DEFINE u == [v EXCEPT !.mempool = m]
           header == Override(v.header, NewHeader(v.cur, txes))
           tx == Override(v.tx, NewTxes(v.cur, txes))
           token == Override(Override(v.token, SpentTokens(v, v.cur, txes)),
                             NewTokens(v.cur, txes))
<1>1. u = [cur |-> v.cur, header |-> v.header, tx |-> v.tx, mempool |-> m,
           token |-> v.token]
  BY DEF FcnStore
<1> HIDE DEF u
<1>2. SpentTokens(u, v.cur, txes) = SpentTokens(v, v.cur, txes)
  <2>1. u.tx = v.tx
    BY <1>1
  <2> QED  BY <2>1, SpentTokensOfRecords
<1>3. /\ u.token = v.token
      /\ u.tx = v.tx
      /\ u.header = v.header
      /\ u.cur = v.cur
  BY <1>1
<1>4. addBlock(u, v.cur, txes) = [u EXCEPT !.token = token, !.tx = tx, !.header = header]
  BY <1>2, <1>3 DEF addBlock, NewHeader
<1>5. IsFcn(header) /\ IsFcn(tx) /\ IsFcn(token)
  BY DEF IsFcn, Override
<1>6. new = incrementCurrentBlockNumber(addBlock(u, v.cur, txes))
  BY DEF Extended, u
<1> HIDE DEF header, tx, token
<1>7. addBlock(u, v.cur, txes)
        = [cur |-> v.cur, header |-> header, tx |-> tx, mempool |-> m, token |-> token]
  BY <1>1, <1>4
<1>8. new = [cur |-> v.cur + 1, header |-> header, tx |-> tx, mempool |-> m,
             token |-> token]
  BY <1>6, <1>7 DEF incrementCurrentBlockNumber
<1>9. FcnStore(new)
  BY <1>5, <1>8 DEF FcnStore
<1> QED  BY <1>8, <1>9 DEF header, tx, token

LEMMA SealedExtends ==
    ASSUME NEW v, NEW batch, NEW gone, NEW order
    PROVE  Sealed(v, batch, gone, order)
             = Extended(v, Without(v.mempool, gone), BatchTxes(v, order))
  BY DEF Sealed, Extended, BatchTxes

LEMMA DepositExtends ==
    ASSUME NEW v, FcnStore(v), NEW owner, NEW amount
    PROVE  AddDepositBlock(v, owner, amount).db
             = Extended(v, v.mempool, DepositTxes(owner, amount))
<1>1. [v EXCEPT !.mempool = v.mempool] = v
  BY DEF FcnStore
<1> QED  BY <1>1 DEF AddDepositBlock, Done, Extended, DepositTxes

\* A block writes the number, its header, its transactions, the tokens that
\* change, and the transactions it takes from the mempool.
LEMMA ExtendedWrites ==
    ASSUME NEW v, FcnStore(v), NEW m, IsFcn(m), NEW txes, NEW batch,
           Agree(v.mempool, m, batch), NEW new, new = Extended(v, m, txes)
    PROVE  OnlyWrites(v, new, AddedKeys(v, new) \cup ({"mempool"} \X batch))
<1> DEFINE keys == AddedKeys(v, new) \cup ({"mempool"} \X batch)
           token == Override(v.token, SpentTokens(v, v.cur, txes))
<1>1. /\ new.header = Override(v.header, NewHeader(v.cur, txes))
      /\ new.tx = Override(v.tx, NewTxes(v.cur, txes))
      /\ new.mempool = m
      /\ new.token = Override(token, NewTokens(v.cur, txes))
  BY ExtendedFields
<1>2. BlockNames(keys, v, new, batch)
  BY AddedNames
<1>3. Agree(v.header, new.header, {v.cur})
  BY <1>1 DEF Agree, Override, NewHeader
<1>4. Agree(v.tx, new.tx, BlockTxKeys(new, v.cur))
  <2>1. DOMAIN NewTxes(v.cur, txes) = {v.cur} \X (DOMAIN txes)
    BY DEF NewTxes
  <2>2. \A n : n \in DOMAIN new.tx
                 <=> n \in DOMAIN v.tx \/ n \in {v.cur} \X (DOMAIN txes)
    BY <1>1, <2>1 DEF Override
  <2>3. \A n \in DOMAIN v.tx : n \notin {v.cur} \X (DOMAIN txes) => new.tx[n] = v.tx[n]
    BY <1>1, <2>1 DEF Override
  <2>4. \A n \in {v.cur} \X (DOMAIN txes) : n \in BlockTxKeys(new, v.cur)
    BY <2>2 DEF BlockTxKeys
  <2> QED  BY <2>2, <2>3, <2>4 DEF Agree
<1>5. Agree(v.token, new.token,
            {key \in DOMAIN new.token : \/ key \notin DOMAIN v.token
                                        \/ new.token[key] # v.token[key]})
  <2>1. DOMAIN v.token \subseteq DOMAIN new.token
    BY <1>1 DEF Override
  <2> QED  BY <2>1 DEF Agree
<1> HIDE DEF keys
<1> QED  BY <1>1, <1>2, <1>3, <1>4, <1>5 DEF OnlyWrites, BlockNames, keys

\* t adds the block that makes w of v, and takes a batch from the mempool.
Extends(v, t, w, m, txes, batch) ==
    /\ IsFcn(m)
    /\ Agree(v.mempool, m, batch)
    /\ w = Extended(v, m, txes)
    /\ ClientEffect(v, w)
    /\ t = Open(t.reads, AddedKeys(v, w) \cup ({"mempool"} \X batch), w)

LEMMA ExtendedCommits ==
    ASSUME NEW v, FcnStore(v), NEW t, NEW w, NEW m, NEW txes, NEW batch,
           Extends(v, t, w, m, txes, batch)
    PROVE  Commits(v, t, w)
<1> DEFINE keys == AddedKeys(v, w) \cup ({"mempool"} \X batch)
<1>0. /\ IsFcn(m)
      /\ Agree(v.mempool, m, batch)
      /\ w = Extended(v, m, txes)
      /\ ClientEffect(v, w)
      /\ t = Open(t.reads, keys, w)
  BY DEF Extends
<1>1. FcnStore(w)
  BY <1>0, ExtendedFields
<1>2. OnlyWrites(v, w, keys)
  BY <1>0, ExtendedWrites
<1>3. Pairs(keys) /\ CurKey \in keys
  BY AddedNames DEF BlockNames
<1>4. t.writes = keys
  BY <1>0, OpenFields
<1> HIDE DEF keys
<1>5. Apply(v, t) = w
  BY <1>0, <1>1, <1>2, ApplyOpen
<1> QED  BY <1>0, <1>1, <1>2, <1>3, <1>4, <1>5 DEF Commits

LEMMA DepositExtending ==
    ASSUME NEW v, Inv(v), FcnStore(v), NEW t, FreshDeposit(v, t)
    PROVE  \E w, m, txes, batch : Extends(v, t, w, m, txes, batch)
<1>1. PICK owner \in Address, amount \in DepositAmounts :
        LET new == AddDepositBlock(v, owner, amount).db
        IN  t = Open(t.reads, AddedKeys(v, new), new)
  BY DEF FreshDeposit
<1> DEFINE w == AddDepositBlock(v, owner, amount).db
<1>2. ClientEffect(v, w)
  BY OthersAddNothing DEF FreshDeposit, DepositEffect
<1>3. w = Extended(v, v.mempool, DepositTxes(owner, amount))
  BY DepositExtends
<1>4. t = Open(t.reads, AddedKeys(v, w), w)
  BY <1>1
<1>5. AddedKeys(v, w) = AddedKeys(v, w) \cup ({"mempool"} \X {})
  OBVIOUS
<1>6. Agree(v.mempool, v.mempool, {}) /\ IsFcn(v.mempool)
  BY DEF Agree, FcnStore
<1> HIDE DEF w
<1>7. Extends(v, t, w, v.mempool, DepositTxes(owner, amount), {})
  BY <1>2, <1>3, <1>4, <1>5, <1>6 DEF Extends
<1> QED  BY <1>7

LEMMA BlockExtending ==
    ASSUME NEW v, Inv(v), NEW t, FreshBlock(v, t)
    PROVE  \E w, m, txes, batch : Extends(v, t, w, m, txes, batch)
<1>1. PICK batch \in SUBSET DOMAIN v.mempool :
        /\ batch # {}
        /\ Cardinality(batch) <= MaxBlockTxesNum
        /\ \E gone \in SUBSET batch : BlockOf(v, t, batch, gone)
  BY DEF FreshBlock
<1>2. PICK gone \in SUBSET batch : BlockOf(v, t, batch, gone)
  BY <1>1
<1>0. PICK order \in Bijection(0 .. Cardinality(batch) - 1, batch) :
        LET new == Sealed(v, batch, gone, order)
        IN  t = Open(t.reads, AddedKeys(v, new) \cup ({"mempool"} \X batch), new)
  BY <1>2 DEF BlockOf
<1> DEFINE w == Sealed(v, batch, gone, order)
           m == Without(v.mempool, gone)
<1>3. ClientEffect(v, w)
  BY <1>1, OthersAddNothing DEF FreshBlock, SealEffect
<1>4. w = Extended(v, m, BatchTxes(v, order))
  BY SealedExtends
<1>5. t = Open(t.reads, AddedKeys(v, w) \cup ({"mempool"} \X batch), w)
  BY <1>0
<1>6. Agree(v.mempool, m, batch) /\ IsFcn(m)
  BY DEF Agree, Without, IsFcn
<1> HIDE DEF w, m
<1>7. Extends(v, t, w, m, BatchTxes(v, order), batch)
  BY <1>3, <1>4, <1>5, <1>6 DEF Extends
<1> QED  BY <1>7

LEMMA FreshCommits ==
    ASSUME NEW v, Inv(v), FcnStore(v), NEW t, Fresh(v, t)
    PROVE  Commits(v, t, Apply(v, t))
<1>1. FreshDeposit(v, t) \/ FreshBlock(v, t) => \E w : Commits(v, t, w)
  BY DepositExtending, BlockExtending, ExtendedCommits
<1>2. \E w : Commits(v, t, w)
  BY <1>1, PostCommits, ConfirmCommits, ExitCommits DEF Fresh
<1> QED  BY <1>2 DEF Commits

-----------------------------------------------------------------------------
(* A commit leaves the transactions that read none of its keys fresh.      *)

SameAt(f, g, n) ==
    /\ n \in DOMAIN f <=> n \in DOMAIN g
    /\ n \in DOMAIN f => f[n] = g[n]

\* w is v as far as these keys tell.
Undisturbed(v, w, reads) ==
    /\ CurKey \in reads => Rewrites(v, w)
    /\ \A k : <<"tx", k>> \in reads => SameAt(v.tx, w.tx, k)
    /\ \A h : <<"mempool", h>> \in reads => SameAt(v.mempool, w.mempool, h)

LEMMA CommitLeaves ==
    ASSUME NEW v, NEW u, NEW w, Commits(v, u, w),
           NEW reads, reads \cap u.writes = {}
    PROVE  Undisturbed(v, w, reads)
<1>1. CurKey \in reads => Rewrites(v, w)
  BY DEF Commits
<1>2. ASSUME NEW k, <<"tx", k>> \in reads
      PROVE  SameAt(v.tx, w.tx, k)
  <2>1. k \notin Names(u.writes, "tx")
    BY <1>2, NamesOf DEF Commits
  <2> QED  BY <2>1 DEF Commits, OnlyWrites, Agree, SameAt
<1>3. ASSUME NEW h, <<"mempool", h>> \in reads
      PROVE  SameAt(v.mempool, w.mempool, h)
  <2>1. h \notin Names(u.writes, "mempool")
    BY <1>3, NamesOf DEF Commits
  <2> QED  BY <2>1 DEF Commits, OnlyWrites, Agree, SameAt
<1> QED  BY <1>1, <1>2, <1>3 DEF Undisturbed

\* An output whose record was read is the same.
LEMMA OutputSame ==
    ASSUME NEW v, NEW w, NEW reads, Undisturbed(v, w, reads),
           NEW c, <<"tx", TxKey(c)>> \in reads
    PROVE  /\ HasTxOut(w, c) <=> HasTxOut(v, c)
           /\ HasTxOut(v, c) => getTxOut(w, c) = getTxOut(v, c)
  BY DEF Undisturbed, SameAt, HasTxOut, getTxOut

LEMMA ValidStays ==
    ASSUME NEW v, NEW w, NEW tx \in Tx, ValidateTx(v, tx) = OK,
           \A c \in Consumes(tx) :
             HasTxOut(w, c) /\ getTxOut(w, c) = getTxOut(v, c)
    PROVE  ValidateTx(w, tx) = OK
<1>1. /\ Consumes(tx) # {}
      /\ \A c \in Consumes(tx) : HasTxOut(v, c)
      /\ \A i \in TxElements : InputError(v, tx.ins[i]) = OK
      /\ ~(OutAmount(tx) > InAmount(v, tx))
  BY ValidateTxOK
<1>2. ASSUME NEW i \in TxElements
      PROVE  InputError(w, tx.ins[i]) = OK
  <2>1. CASE IsNull(tx.ins[i])
    BY <2>1 DEF InputError
  <2>2. CASE ~IsNull(tx.ins[i])
    <3> DEFINE c == tx.ins[i].core
    <3>1. c \in Consumes(tx)
      BY <2>2, NamedConsumed
    <3>2. HasTxOut(v, c) /\ HasTxOut(w, c) /\ getTxOut(w, c) = getTxOut(v, c)
      BY <1>1, <3>1
    <3>3. InputError(v, tx.ins[i]) = OK
      BY <1>1
    <3> QED  BY <3>2, <3>3 DEF InputError
  <2> QED  BY <2>1, <2>2
<1>3. InAmount(w, tx) = InAmount(v, tx)
  <2> DEFINE D == {i \in TxElements : ~IsNull(tx.ins[i])}
             fv == [i \in D |-> getTxOut(v, tx.ins[i].core).amount]
             fw == [i \in D |-> getTxOut(w, tx.ins[i].core).amount]
  <2>1. \A i \in D : getTxOut(w, tx.ins[i].core) = getTxOut(v, tx.ins[i].core)
    BY NamedConsumed
  <2>2. fw = fv
    BY <2>1
  <2>3. InAmount(w, tx) = SumFunction(fw) /\ InAmount(v, tx) = SumFunction(fv)
    BY DEF InAmount
  <2> HIDE DEF fv, fw
  <2> QED  BY <2>2, <2>3
<1> QED  BY <1>1, <1>2, <1>3 DEF ValidateTx, OK

LEMMA PostStays ==
    ASSUME NEW v, NEW w, NEW t, FreshPost(v, t), Undisturbed(v, w, t.reads)
    PROVE  FreshPost(w, t)
<1>1. PICK tx \in ClientTxes :
        /\ PostReads(tx) \subseteq t.reads
        /\ ValidateTx(v, tx) = OK
        /\ t = Open(t.reads, InputKeys(tx) \cup {<<"mempool", TxHash(tx)>>},
                    Accepted(v, tx))
  BY DEF FreshPost
<1> DEFINE keys == InputKeys(tx) \cup {<<"mempool", TxHash(tx)>>}
           ks == {TxKey(c) : c \in Consumes(tx)}
           reads == t.reads
<1>2. tx \in Tx
  BY ChildChainAssumption
<1>3. \A c \in Consumes(tx) : <<"tx", TxKey(c)>> \in reads
  BY <1>1 DEF PostReads, InputKeys, TxKeys
<1>4. ValidateTx(w, tx) = OK
  <2>1. \A c \in Consumes(tx) : HasTxOut(v, c)
    BY <1>1, <1>2, ValidateTxOK
  <2>2. \A c \in Consumes(tx) : HasTxOut(w, c) /\ getTxOut(w, c) = getTxOut(v, c)
    BY <1>3, <2>1, OutputSame
  <2> QED  BY <1>1, <1>2, <2>2, ValidStays
<1>5. Open(reads, keys, Accepted(v, tx)) = Open(reads, keys, Accepted(w, tx))
  <2> DEFINE x == Accepted(v, tx)
             y == Accepted(w, tx)
  <2>1. /\ CurKey \notin keys
        /\ Names(keys, "tx") = ks
        /\ Names(keys, "header") = {}
        /\ Names(keys, "mempool") = {TxHash(tx)}
        /\ Names(keys, "token") = {}
    BY PostNames
  <2>2. SameOn(x.tx, y.tx, ks)
    <3>1. x.tx = SpendInputs(v, tx) /\ y.tx = SpendInputs(w, tx)
      BY DEF Accepted
    <3>2. \A k \in ks : SameAt(v.tx, w.tx, k)
      BY <1>3 DEF Undisturbed
    <3>3. SameOn(SpendInputs(v, tx), SpendInputs(w, tx), ks)
      BY <3>2 DEF SameAt, SameOn, SpendInputs
    <3> HIDE DEF x, y
    <3> QED  BY <3>1, <3>3
  <2>3. SameOn(x.mempool, y.mempool, {TxHash(tx)})
    <3>1. x.mempool = addTxToMempool(v, tx) /\ y.mempool = addTxToMempool(w, tx)
      BY DEF Accepted
    <3> HIDE DEF x, y
    <3> QED  BY <3>1 DEF SameOn, addTxToMempool, Override
  <2> HIDE DEF x, y, keys, ks
  <2>4. SameOn(x.header, y.header, {}) /\ SameOn(x.token, y.token, {})
    BY DEF SameOn
  <2> QED  BY <2>1, <2>2, <2>3, <2>4, OpenSame DEF x, y
<1> QED  BY <1>1, <1>4, <1>5 DEF FreshPost

\* One record read and rewritten alike.
LEMMA SetTxStays ==
    ASSUME NEW v, StoreType(v), NEW w, StoreType(w), NEW reads, NEW k, NEW new,
           k \in DOMAIN v.tx, k \in DOMAIN w.tx
    PROVE  Open(reads, TxKeys({k}), setTx(v, k, new))
             = Open(reads, TxKeys({k}), setTx(w, k, new))
<1> DEFINE x == setTx(v, k, new)
           y == setTx(w, k, new)
           keys == TxKeys({k})
<1>1. /\ CurKey \notin keys
      /\ Names(keys, "tx") = {k}
      /\ Names(keys, "header") = {}
      /\ Names(keys, "mempool") = {}
      /\ Names(keys, "token") = {}
  BY RecordNames
<1>2. x.tx = [v.tx EXCEPT ![k] = new] /\ y.tx = [w.tx EXCEPT ![k] = new]
  BY DEF setTx, StoreType
<1> HIDE DEF x, y, keys
<1>3. SameOn(x.tx, y.tx, {k})
  BY <1>2 DEF SameOn
<1>4. /\ SameOn(x.header, y.header, {})
      /\ SameOn(x.mempool, y.mempool, {})
      /\ SameOn(x.token, y.token, {})
  BY DEF SameOn
<1> QED  BY <1>1, <1>3, <1>4, OpenSame DEF x, y, keys

LEMMA ConfirmStays ==
    ASSUME NEW v, Inv(v), NEW w, StoreType(w), NEW t, FreshConfirm(v, t),
           Undisturbed(v, w, t.reads)
    PROVE  FreshConfirm(w, t)
<1>1. PICK pos \in ClientPositions, sig \in Signature :
        LET k == TxKey(ParseTxInPosition(pos))
        IN  /\ ConfirmTx(v, pos, sig).err = OK
            /\ ConfirmReads(v, k) \subseteq t.reads
            /\ t = Open(t.reads, TxKeys({k}), ConfirmTx(v, pos, sig).db)
  BY DEF FreshConfirm
<1> DEFINE in == ParseTxInPosition(pos)
           k == TxKey(in)
           txIn == v.tx[k].ins[in[3]]
           new(x) == SetConfirmationSignature(x.tx[k], in[3], sig)
           reads == t.reads
<1>2. /\ ~ParsePanics(pos)
      /\ k \in DOMAIN v.tx
      /\ IsExistInput(in[3])
      /\ ~IsNull(txIn)
      /\ HasTxOut(v, txIn.core)
      /\ ~WrongConfirmation(v, txIn, sig)
      /\ ConfirmTx(v, pos, sig).db = setTx(v, k, new(v))
  BY <1>1 DEF ConfirmTx, Failed, Done, OK
<1>3. in[3] \in TxElements
  BY <1>2, ParsedType, ChildChainAssumption DEF IsExistInput
<1>4. k \in DOMAIN w.tx /\ w.tx[k] = v.tx[k]
  BY <1>1, <1>2 DEF ConfirmReads, TxKeys, Undisturbed, SameAt
<1>5. <<"tx", TxKey(txIn.core)>> \in reads
  BY <1>1, <1>2, <1>3, NamedConsumed DEF ConfirmReads, InputKeys, TxKeys
<1>6. HasTxOut(w, txIn.core) /\ getTxOut(w, txIn.core) = getTxOut(v, txIn.core)
  BY <1>2, <1>5, OutputSame
<1>7. /\ ConfirmTx(w, pos, sig).err = OK
      /\ ConfirmTx(w, pos, sig).db = setTx(w, k, new(v))
  BY <1>2, <1>4, <1>6 DEF ConfirmTx, Done, OK, WrongConfirmation
<1>8. ConfirmReads(w, k) \subseteq reads
  BY <1>1, <1>4 DEF ConfirmReads
<1>9. t = Open(reads, TxKeys({k}), setTx(v, k, new(v)))
  BY <1>1, <1>2
<1> HIDE DEF new, k, in
<1>10. t = Open(reads, TxKeys({k}), setTx(w, k, new(v)))
  BY <1>2, <1>4, <1>9, SetTxStays DEF Inv
<1>11. t = Open(reads, TxKeys({k}), ConfirmTx(w, pos, sig).db)
  BY <1>7, <1>10
<1> QED  BY <1>7, <1>8, <1>11 DEF FreshConfirm, k, in

LEMMA ExitStays ==
    ASSUME NEW v, Inv(v), NEW w, StoreType(w), NEW t, FreshExit(v, t),
           Undisturbed(v, w, t.reads)
    PROVE  FreshExit(w, t)
<1>1. PICK pos \in ClientPositions :
        LET k == TxKey(ParseTxInPosition(pos))
        IN  /\ ExitReads(k) \subseteq t.reads
            /\ ExitTxOut(v, pos).err = OK
            /\ t = Open(t.reads, TxKeys({k}), ExitTxOut(v, pos).db)
  BY DEF FreshExit
<1> DEFINE out == ParseTxInPosition(pos)
           k == TxKey(out)
           new(x) == ExitOutput(x.tx[k], out[3])
           reads == t.reads
<1>2. /\ ~ParsePanics(pos)
      /\ k \in DOMAIN v.tx
      /\ IsExistOutput(out[3])
      /\ ExitTxOut(v, pos).db = setTx(v, k, new(v))
  BY <1>1 DEF ExitTxOut, Failed, Done, OK
<1>3. k \in DOMAIN w.tx /\ w.tx[k] = v.tx[k]
  BY <1>1, <1>2 DEF ExitReads, TxKeys, Undisturbed, SameAt
<1>4. /\ ExitTxOut(w, pos).err = OK
      /\ ExitTxOut(w, pos).db = setTx(w, k, new(v))
  BY <1>2, <1>3 DEF ExitTxOut, Done, OK
<1>5. t = Open(reads, TxKeys({k}), setTx(v, k, new(v)))
  BY <1>1, <1>2
<1>6. ExitReads(k) \subseteq reads
  BY <1>1
<1> HIDE DEF new, k, out
<1>7. t = Open(reads, TxKeys({k}), setTx(w, k, new(v)))
  BY <1>2, <1>3, <1>5, SetTxStays DEF Inv
<1>8. t = Open(reads, TxKeys({k}), ExitTxOut(w, pos).db)
  BY <1>4, <1>7
<1> QED  BY <1>4, <1>6, <1>8 DEF FreshExit, k, out

\* The tokens a block of txes spends are those of its inputs' owners, who stay.
LEMMA SpentTokensKept ==
    ASSUME NEW v, StoreType(v), NEW w, Keeps(v, w), NEW blkNum, NEW txes,
           \A i \in DOMAIN txes : txes[i] \in Tx,
           \A i \in DOMAIN txes : \A c \in Consumes(txes[i]) : HasTxOut(v, c)
    PROVE  SpentTokens(w, blkNum, txes) = SpentTokens(v, blkNum, txes)
<1>1. ASSUME NEW i \in DOMAIN txes, NEW c \in Consumes(txes[i])
      PROVE  getTxOut(w, c).owner = getTxOut(v, c).owner
  <2>1. c \in Nat \X Nat \X Nat
    BY ConsumesType
  <2> QED  BY <2>1, OwnerKept
<1>2. \A c \in AllConsumed(txes) : getTxOut(w, c).owner = getTxOut(v, c).owner
  BY <1>1 DEF AllConsumed
<1>3. {TokenKey(getTxOut(w, c).owner, c) : c \in AllConsumed(txes)}
        = {TokenKey(getTxOut(v, c).owner, c) : c \in AllConsumed(txes)}
  <2> DEFINE kv(c) == TokenKey(getTxOut(v, c).owner, c)
             kw(c) == TokenKey(getTxOut(w, c).owner, c)
  <2>1. \A c \in AllConsumed(txes) : kw(c) = kv(c)
    BY <1>2
  <2> HIDE DEF kv, kw
  <2>2. {kw(c) : c \in AllConsumed(txes)} = {kv(c) : c \in AllConsumed(txes)}
    BY <2>1
  <2> QED  BY <2>2 DEF kv, kw
<1>4. ASSUME NEW key
      PROVE  Spenders(w, txes, key) = Spenders(v, txes, key)
  <2>1. ASSUME NEW s \in (DOMAIN txes) \X TxElements
        PROVE  LET txIn == txes[s[1]].ins[s[2]]
               IN  ~IsNull(txIn) =>
                     getTxOut(w, txIn.core).owner = getTxOut(v, txIn.core).owner
    BY <1>1, NamedConsumed
  <2> QED  BY <2>1 DEF Spenders
<1> QED  BY <1>3, <1>4 DEF SpentTokens

\* Stores that agree on the number, the tokens and the names of the records make
\* the same transaction of the same block.
LEMMA ExtendedStays ==
    ASSUME NEW v, Inv(v), FcnStore(v), NEW w, FcnStore(w), Rewrites(v, w), Keeps(v, w),
           NEW txes,
           \A i \in DOMAIN txes : txes[i] \in Tx,
           \A i \in DOMAIN txes : \A c \in Consumes(txes[i]) : HasTxOut(v, c),
           NEW batch, NEW m, IsFcn(m), NEW n, IsFcn(n), SameOn(m, n, batch),
           NEW x, x = Extended(v, m, txes), NEW y, y = Extended(w, n, txes),
           NEW reads
    PROVE  Open(reads, AddedKeys(v, x) \cup ({"mempool"} \X batch), x)
             = Open(reads, AddedKeys(w, y) \cup ({"mempool"} \X batch), y)
<1> DEFINE kx == AddedKeys(v, x) \cup ({"mempool"} \X batch)
           ky == AddedKeys(w, y) \cup ({"mempool"} \X batch)
<1>1. SpentTokens(w, v.cur, txes) = SpentTokens(v, v.cur, txes)
  BY SpentTokensKept DEF Inv
<1>2. /\ x.cur = v.cur + 1
      /\ x.header = Override(v.header, NewHeader(v.cur, txes))
      /\ x.tx = Override(v.tx, NewTxes(v.cur, txes))
      /\ x.mempool = m
      /\ x.token = Override(Override(v.token, SpentTokens(v, v.cur, txes)),
                            NewTokens(v.cur, txes))
  BY ExtendedFields
<1>3. /\ y.cur = w.cur + 1
      /\ y.header = Override(w.header, NewHeader(w.cur, txes))
      /\ y.tx = Override(w.tx, NewTxes(w.cur, txes))
      /\ y.mempool = n
      /\ y.token = Override(Override(w.token, SpentTokens(w, w.cur, txes)),
                            NewTokens(w.cur, txes))
  BY ExtendedFields
<1>4. w.cur = v.cur /\ w.header = v.header /\ w.token = v.token /\ DOMAIN w.tx = DOMAIN v.tx
  BY DEF Rewrites
<1>5. y.cur = x.cur /\ y.header = x.header /\ y.token = x.token
  BY <1>1, <1>2, <1>3, <1>4
<1>6. DOMAIN y.tx = DOMAIN x.tx
  BY <1>2, <1>3, <1>4 DEF Override
<1>7. BlockTxKeys(y, w.cur) = BlockTxKeys(x, v.cur)
  BY <1>4, <1>6 DEF BlockTxKeys
<1>8. kx = ky
  BY <1>4, <1>5, <1>7 DEF AddedKeys
<1>9. SameOn(x.tx, y.tx, BlockTxKeys(x, v.cur))
  <2> SUFFICES ASSUME NEW k \in DOMAIN x.tx, k[1] = v.cur
               PROVE  x.tx[k] = y.tx[k]
    BY <1>6 DEF SameOn, BlockTxKeys
  <2>1. k \notin DOMAIN v.tx
    BY DEF Inv, StoreType, KeysBelowCurrent
  <2>2. k \in DOMAIN NewTxes(v.cur, txes)
    BY <1>2, <2>1 DEF Override
  <2> QED  BY <1>2, <1>3, <1>4, <2>2 DEF Override
<1>10. BlockNames(kx, v, x, batch)
  BY AddedNames
<1>11. /\ SameOn(x.header, y.header, Names(kx, "header"))
       /\ SameOn(x.token, y.token, Names(kx, "token"))
  BY <1>5 DEF SameOn
<1>12. SameOn(x.mempool, y.mempool, batch)
  BY <1>2, <1>3
<1> HIDE DEF kx, ky
<1>13. Open(reads, kx, x) = Open(reads, kx, y)
  BY <1>5, <1>9, <1>10, <1>11, <1>12, OpenSame DEF BlockNames
<1> QED  BY <1>8, <1>13 DEF kx, ky

LEMMA DepositStays ==
    ASSUME NEW v, Inv(v), FcnStore(v), NEW w, FcnStore(w), Keeps(v, w),
           NEW t, FreshDeposit(v, t), Undisturbed(v, w, t.reads)
    PROVE  FreshDeposit(w, t)
<1>1. PICK owner \in Address, amount \in DepositAmounts :
        LET new == AddDepositBlock(v, owner, amount).db
        IN  t = Open(t.reads, AddedKeys(v, new), new)
  BY DEF FreshDeposit
<1> DEFINE x == AddDepositBlock(v, owner, amount).db
           y == AddDepositBlock(w, owner, amount).db
           txes == DepositTxes(owner, amount)
           reads == t.reads
<1>2. Rewrites(v, w) /\ CurKey \in reads /\ v.cur <= MaxBlkNum
  BY DEF FreshDeposit, Undisturbed
<1>3. x = Extended(v, v.mempool, txes) /\ y = Extended(w, w.mempool, txes)
  BY DepositExtends
<1>4. /\ \A i \in DOMAIN txes : txes[i] \in Tx
      /\ \A i \in DOMAIN txes : \A c \in Consumes(txes[i]) : HasTxOut(v, c)
  BY DepositTxEffect, ChildChainAssumption DEF DepositTxes
<1>5. t = Open(reads, AddedKeys(v, x), x)
  BY <1>1
<1> HIDE DEF x, y, txes
<1>6. /\ AddedKeys(v, x) = AddedKeys(v, x) \cup ({"mempool"} \X {})
      /\ AddedKeys(w, y) = AddedKeys(w, y) \cup ({"mempool"} \X {})
  OBVIOUS
<1>7. SameOn(v.mempool, w.mempool, {}) /\ IsFcn(v.mempool) /\ IsFcn(w.mempool)
  BY DEF SameOn, FcnStore
<1>8. t = Open(reads, AddedKeys(w, y), y)
  BY <1>2, <1>3, <1>4, <1>5, <1>6, <1>7, ExtendedStays
<1>9. w.cur <= MaxBlkNum
  BY <1>2 DEF Rewrites
<1> QED  BY <1>2, <1>8, <1>9 DEF FreshDeposit, y

LEMMA BlockStays ==
    ASSUME NEW v, Inv(v), FcnStore(v), NEW w, FcnStore(w), Keeps(v, w),
           NEW t, FreshBlock(v, t), Undisturbed(v, w, t.reads)
    PROVE  FreshBlock(w, t)
<1>1. PICK batch \in SUBSET DOMAIN v.mempool :
        /\ batch # {}
        /\ Cardinality(batch) <= MaxBlockTxesNum
        /\ {"mempool"} \X batch \subseteq t.reads
        /\ \E gone \in SUBSET batch : BlockOf(v, t, batch, gone)
  BY DEF FreshBlock
<1>0. PICK gone \in SUBSET batch : BlockOf(v, t, batch, gone)
  BY <1>1
<1>2. PICK order \in Bijection(0 .. Cardinality(batch) - 1, batch) :
        LET new == Sealed(v, batch, gone, order)
        IN  t = Open(t.reads, AddedKeys(v, new) \cup ({"mempool"} \X batch), new)
  BY <1>0 DEF BlockOf
<1> DEFINE x == Sealed(v, batch, gone, order)
           y == Sealed(w, batch, gone, order)
           m == Without(v.mempool, gone)
           n == Without(w.mempool, gone)
           txes == BatchTxes(v, order)
           reads == t.reads
<1>3. Rewrites(v, w) /\ CurKey \in reads /\ v.cur <= MaxBlkNum
  BY DEF FreshBlock, Undisturbed
<1>4. \A h \in batch : h \in DOMAIN w.mempool /\ w.mempool[h] = v.mempool[h]
  BY <1>1 DEF Undisturbed, SameAt
<1>5. \A i \in DOMAIN order : order[i] \in batch
  BY DEF Bijection, Injection, Surjection
<1>6. BatchTxes(w, order) = txes
  BY <1>4, <1>5 DEF BatchTxes
<1>7. x = Extended(v, m, txes) /\ y = Extended(w, n, txes)
  BY <1>6, SealedExtends
<1>8. ASSUME NEW i \in DOMAIN txes
      PROVE  txes[i] \in Tx /\ \A c \in Consumes(txes[i]) : HasTxOut(v, c)
  <2>1. order[i] \in DOMAIN v.mempool /\ txes[i] = v.mempool[order[i]]
    BY <1>5 DEF BatchTxes
  <2> QED  BY <2>1 DEF Inv, StoreType, InputsNamed
<1>9. t = Open(reads, AddedKeys(v, x) \cup ({"mempool"} \X batch), x)
  BY <1>2
<1>10. IsFcn(m) /\ IsFcn(n) /\ SameOn(m, n, batch)
  BY <1>4 DEF IsFcn, Without, SameOn
<1> HIDE DEF x, y, m, n, txes
<1>11. t = Open(reads, AddedKeys(w, y) \cup ({"mempool"} \X batch), y)
  BY <1>3, <1>7, <1>8, <1>9, <1>10, ExtendedStays
<1>12. w.cur <= MaxBlkNum /\ batch \in SUBSET DOMAIN w.mempool
  BY <1>3, <1>4 DEF Rewrites
<1>13. BlockOf(w, t, batch, gone)
  BY <1>11 DEF BlockOf, y
<1> QED  BY <1>1, <1>3, <1>12, <1>13 DEF FreshBlock

\* No conflict, so the transaction could begin in the new store.
LEMMA FreshStays ==
    ASSUME NEW v, Inv(v), FcnStore(v), NEW u, NEW w, Commits(v, u, w),
           NEW t, Fresh(v, t), t.reads \cap u.writes = {}
    PROVE  Fresh(w, t)
<1>1. Effect(v, w) /\ FcnStore(w)
  BY DEF Commits, ClientEffect
<1>2. Keeps(v, w) /\ StoreType(w)
  BY <1>1, EffectKeeps, EffectPreservesInv DEF Inv
<1>3. Undisturbed(v, w, t.reads)
  BY CommitLeaves
<1>4. FreshPost(v, t) => FreshPost(w, t)
  BY <1>3, PostStays
<1>5. FreshConfirm(v, t) => FreshConfirm(w, t)
  BY <1>2, <1>3, ConfirmStays
<1>6. FreshExit(v, t) => FreshExit(w, t)
  BY <1>2, <1>3, ExitStays
<1>7. FreshDeposit(v, t) => FreshDeposit(w, t)
  BY <1>1, <1>2, <1>3, DepositStays
<1>8. FreshBlock(v, t) => FreshBlock(w, t)
  BY <1>1, <1>2, <1>3, BlockStays
<1> QED  BY <1>4, <1>5, <1>6, <1>7, <1>8 DEF Fresh

-----------------------------------------------------------------------------
(* Beginning them.                                                         *)

\* The mempool a transaction will leave is only ever that of its writes.
LEMMA OpenMempool ==
    ASSUME NEW t, NEW writes, NEW new, t = Open(t.reads, writes, new)
    PROVE  DOMAIN t.new.mempool = DOMAIN new.mempool \cap Names(writes, "mempool")
<1> DEFINE reads == t.reads
<1>1. t = Open(reads, writes, new)
  OBVIOUS
<1> HIDE DEF reads
<1>2. t.new.mempool = Part(new.mempool, Names(writes, "mempool"))
  BY <1>1 DEF Open
<1> QED  BY <1>2 DEF Part

\* t is to add to the mempool: it leaves something there and makes no block.
Adds(t) == CurKey \notin t.writes /\ DOMAIN t.new.mempool # {}

\* One that posts adds one transaction to the mempool, the others add none: what
\* a block leaves there was there.
LEMMA FreshAdds ==
    ASSUME NEW v, NEW t
    PROVE  /\ FreshPost(v, t) => \E h : DOMAIN t.new.mempool \subseteq {h}
           /\ FreshConfirm(v, t) => DOMAIN t.new.mempool = {}
           /\ FreshExit(v, t) => DOMAIN t.new.mempool = {}
           /\ FreshDeposit(v, t) =>
                CurKey \in t.writes /\ DOMAIN t.new.mempool = {}
           /\ FreshBlock(v, t) =>
                CurKey \in t.writes /\ DOMAIN t.new.mempool \subseteq DOMAIN v.mempool
<1>1. ASSUME FreshPost(v, t)
      PROVE  \E h : DOMAIN t.new.mempool \subseteq {h}
  <2>1. PICK tx : t = Open(t.reads, InputKeys(tx) \cup {<<"mempool", TxHash(tx)>>},
                           Accepted(v, tx))
    BY <1>1 DEF FreshPost
  <2> DEFINE keys == InputKeys(tx) \cup {<<"mempool", TxHash(tx)>>}
  <2>2. Names(keys, "mempool") = {TxHash(tx)}
    BY PostNames
  <2> HIDE DEF keys
  <2>3. DOMAIN t.new.mempool \subseteq {TxHash(tx)}
    BY <2>1, <2>2, OpenMempool DEF keys
  <2> QED  BY <2>3
<1>2. ASSUME NEW k, NEW new, t = Open(t.reads, TxKeys({k}), new)
      PROVE  DOMAIN t.new.mempool = {}
  <2>1. Names(TxKeys({k}), "mempool") = {}
    BY RecordNames
  <2> QED  BY <1>2, <2>1, OpenMempool
<1>3. /\ FreshConfirm(v, t) => DOMAIN t.new.mempool = {}
      /\ FreshExit(v, t) => DOMAIN t.new.mempool = {}
  BY <1>2 DEF FreshConfirm, FreshExit
<1>4. ASSUME NEW batch, NEW new,
             t = Open(t.reads, AddedKeys(v, new) \cup ({"mempool"} \X batch), new)
      PROVE  CurKey \in t.writes /\ DOMAIN t.new.mempool \subseteq batch
  <2> DEFINE keys == AddedKeys(v, new) \cup ({"mempool"} \X batch)
  <2>1. t = Open(t.reads, keys, new)
    BY <1>4
  <2>2. BlockNames(keys, v, new, batch)
    BY AddedNames
  <2> HIDE DEF keys
  <2>3. Names(keys, "mempool") = batch /\ CurKey \in keys
    BY <2>2 DEF BlockNames
  <2>4. DOMAIN t.new.mempool = DOMAIN new.mempool \cap batch /\ t.writes = keys
    BY <2>1, <2>3, OpenMempool, OpenFields
  <2> QED  BY <2>3, <2>4
<1>5. ASSUME FreshDeposit(v, t)
      PROVE  CurKey \in t.writes /\ DOMAIN t.new.mempool = {}
  <2>1. PICK owner \in Address, amount \in DepositAmounts :
          LET new == AddDepositBlock(v, owner, amount).db
          IN  t = Open(t.reads, AddedKeys(v, new), new)
    BY <1>5 DEF FreshDeposit
  <2> DEFINE new == AddDepositBlock(v, owner, amount).db
             none == {}
             D == DOMAIN t.new.mempool
  <2>2. AddedKeys(v, new) = AddedKeys(v, new) \cup ({"mempool"} \X none)
    OBVIOUS
  <2>3. t = Open(t.reads, AddedKeys(v, new), new)
    BY <2>1
  <2> HIDE DEF new, none
  <2>4. t = Open(t.reads, AddedKeys(v, new) \cup ({"mempool"} \X none), new)
    BY <2>2, <2>3
  <2>5. CurKey \in t.writes /\ D \subseteq none
    BY <1>4, <2>4
  <2> HIDE DEF D
  <2>6. D = {}
    BY <2>5 DEF none
  <2> QED  BY <2>5, <2>6 DEF D
<1>6. ASSUME FreshBlock(v, t)
      PROVE  CurKey \in t.writes /\ DOMAIN t.new.mempool \subseteq DOMAIN v.mempool
  <2>1. PICK batch \in SUBSET DOMAIN v.mempool :
          \E gone \in SUBSET batch : BlockOf(v, t, batch, gone)
    BY <1>6 DEF FreshBlock
  <2>2. PICK new : t = Open(t.reads, AddedKeys(v, new) \cup ({"mempool"} \X batch), new)
    BY <2>1 DEF BlockOf
  <2>3. CurKey \in t.writes /\ DOMAIN t.new.mempool \subseteq batch
    BY <1>4, <2>2
  <2> QED  BY <2>3
<1> QED  BY <1>1, <1>3, <1>5, <1>6

\* Handler h begins t, which could begin now, and finds room in the mempool if
\* it is to add to it.
Begins(h, t) ==
    /\ txn[h] = Idle
    /\ txn' = [txn EXCEPT ![h] = t]
    /\ UNCHANGED db
    /\ Fresh(db, t)
    /\ Adds(t) => ~MempoolFull(db)

LEMMA OpenReads ==
    ASSUME NEW reads, NEW writes, NEW new
    PROVE  LET t == Open(reads, writes, new)
           IN  t.reads = reads /\ t = Open(t.reads, writes, new)
  BY DEF Open

LEMMA BeginsPost ==
    ASSUME NEW h, NEW tx \in ClientTxes, BeginPost(h, tx)
    PROVE  \E t : Begins(h, t)
<1> DEFINE keys == InputKeys(tx) \cup {<<"mempool", TxHash(tx)>>}
           new == AddTxToMempool(db, tx).db
           t == Open(PostReads(tx), keys, new)
<1>1. AddTxToMempool(db, tx).err = OK /\ ~MempoolFull(db)
  BY DEF BeginPost, Begin, AddTxToMempool, Failed, OK
<1>2. ValidateTx(db, tx) = OK /\ new = Accepted(db, tx)
  BY <1>1, AddTxToMempoolAccepts
<1>3. txn[h] = Idle /\ txn' = [txn EXCEPT ![h] = t] /\ UNCHANGED db
  BY DEF BeginPost, Begin
<1>4. t.reads = PostReads(tx) /\ t = Open(t.reads, keys, new)
  BY OpenReads
<1> HIDE DEF t
<1>5. FreshPost(db, t)
  BY <1>2, <1>4, ChildChainAssumption DEF FreshPost
<1> QED  BY <1>1, <1>3, <1>5 DEF Begins, Fresh

LEMMA BeginsConfirm ==
    ASSUME FcnStore(db), NEW h, NEW pos \in ClientPositions, NEW sig \in Signature,
           BeginConfirm(h, pos, sig)
    PROVE  \E t : Begins(h, t)
<1> DEFINE k == TxKey(ParseTxInPosition(pos))
           new == ConfirmTx(db, pos, sig).db
           t == Open(ConfirmReads(db, k), TxKeys({k}), new)
<1>1. /\ ConfirmTx(db, pos, sig).err = OK
      /\ txn[h] = Idle
      /\ txn' = [txn EXCEPT ![h] = t]
      /\ UNCHANGED db
  BY DEF BeginConfirm, Begin
<1>2. t.reads = ConfirmReads(db, k) /\ t = Open(t.reads, TxKeys({k}), new)
  BY OpenReads
<1> HIDE DEF t
<1>3. FreshConfirm(db, t)
  BY <1>1, <1>2 DEF FreshConfirm
<1> QED  BY <1>1, <1>3, FreshAdds DEF Begins, Fresh, Adds

LEMMA BeginsExit ==
    ASSUME FcnStore(db), NEW h, NEW pos \in ClientPositions, BeginExit(h, pos)
    PROVE  \E t : Begins(h, t)
<1> DEFINE k == TxKey(ParseTxInPosition(pos))
           new == ExitTxOut(db, pos).db
           t == Open(ExitReads(k), TxKeys({k}), new)
<1>1. /\ ExitTxOut(db, pos).err = OK
      /\ txn[h] = Idle
      /\ txn' = [txn EXCEPT ![h] = t]
      /\ UNCHANGED db
  BY DEF BeginExit, Begin
<1>2. t.reads = ExitReads(k) /\ t = Open(t.reads, TxKeys({k}), new)
  BY OpenReads
<1> HIDE DEF t
<1>3. FreshExit(db, t)
  BY <1>1, <1>2 DEF FreshExit
<1> QED  BY <1>1, <1>3, FreshAdds DEF Begins, Fresh, Adds

LEMMA BeginsDeposit ==
    ASSUME FcnStore(db), NEW h, NEW owner \in Address, NEW amount \in DepositAmounts,
           BeginDeposit(h, owner, amount)
    PROVE  \E t : Begins(h, t)
<1> DEFINE new == AddDepositBlock(db, owner, amount).db
           t == Open(DepositReads(db), AddedKeys(db, new), new)
<1>1. /\ db.cur <= MaxBlkNum
      /\ txn[h] = Idle
      /\ txn' = [txn EXCEPT ![h] = t]
      /\ UNCHANGED db
  BY DEF BeginDeposit, Begin
<1>2. t.reads = DepositReads(db) /\ t = Open(t.reads, AddedKeys(db, new), new)
  BY OpenReads
<1>3. CurKey \in t.reads
  BY <1>2 DEF DepositReads
<1> HIDE DEF t
<1>4. FreshDeposit(db, t)
  BY <1>1, <1>2, <1>3 DEF FreshDeposit
<1> QED  BY <1>1, <1>4, FreshAdds DEF Begins, Fresh, Adds

LEMMA BeginsBlock ==
    ASSUME Inv(db), FcnStore(db), NEW h, NEW order \in IterationOrders(db),
           BeginBlock(h, order)
    PROVE  \E t : Begins(h, t)
<1> DEFINE batch == DOMAIN db.mempool
           new == AddBlock(db, order).db
           keys == AddedKeys(db, new) \cup ({"mempool"} \X batch)
           t == Open(BlockReads(db), keys, new)
<1>1. /\ db.cur <= MaxBlkNum
      /\ AddBlock(db, order).err = OK
      /\ txn[h] = Idle
      /\ txn' = [txn EXCEPT ![h] = t]
      /\ UNCHANGED db
  BY DEF BeginBlock, Begin
<1>2. /\ batch # {}
      /\ Cardinality(batch) <= MaxBlockTxesNum
      /\ \E gone \in SUBSET batch : new = Sealed(db, batch, gone, order)
  BY <1>1, AddBlockSeals
<1>3. PICK gone \in SUBSET batch : new = Sealed(db, batch, gone, order)
  BY <1>2
<1>4. t.reads = BlockReads(db) /\ t = Open(t.reads, keys, new)
  BY OpenReads
<1>5. CurKey \in t.reads /\ {"mempool"} \X batch \subseteq t.reads
  BY <1>4 DEF BlockReads
<1>6. order \in Bijection(0 .. Cardinality(batch) - 1, batch)
  BY DEF IterationOrders
<1> HIDE DEF t, new
<1>7. t = Open(t.reads, AddedKeys(db, Sealed(db, batch, gone, order))
                          \cup ({"mempool"} \X batch), Sealed(db, batch, gone, order))
  BY <1>3, <1>4
<1> HIDE DEF batch
<1>8. BlockOf(db, t, batch, gone)
  BY <1>6, <1>7 DEF BlockOf
<1>9. FreshBlock(db, t)
  <2>1. batch \in SUBSET DOMAIN db.mempool
    BY DEF batch
  <2> QED  BY <1>1, <1>2, <1>5, <1>8, <2>1 DEF FreshBlock
<1> QED  BY <1>1, <1>9, FreshAdds DEF Begins, Fresh, Adds

-----------------------------------------------------------------------------
(* The invariant.                                                          *)

TxnsFresh ==
    /\ txn = [h \in Handlers |-> txn[h]]
    /\ \A h \in Handlers : txn[h].state = "open" => Fresh(db, txn[h])

TxnInv == Inv(db) /\ FcnStore(db) /\ TxnsFresh

LEMMA TxnInitInv == TxnInit => TxnInv
<1> SUFFICES ASSUME TxnInit
             PROVE  TxnInv
  OBVIOUS
<1>1. Inv(db)
  BY InitInv DEF TxnInit, Init
<1>2. FcnStore(db)
  BY DEF TxnInit, Init, NewChildChain, FcnStore, IsFcn
<1>3. TxnsFresh
  BY DEF TxnInit, TxnsFresh, Idle
<1> QED  BY <1>1, <1>2, <1>3 DEF TxnInv

\* A step begins a transaction, commits one, reports a conflict or does nothing.
LEMMA TxnSteps ==
    ASSUME TxnInv, [TxnNext]_vars
    PROVE  \/ \E h \in Handlers : \E t : Begins(h, t)
           \/ \E h \in Handlers : Commit(h)
           \/ \E h \in Handlers : Conflict(h)
           \/ UNCHANGED vars
<1>1. ASSUME NEW h \in Handlers, NEW owner \in Address, NEW amount \in DepositAmounts,
             BeginDeposit(h, owner, amount)
      PROVE  \E t : Begins(h, t)
  BY <1>1, BeginsDeposit DEF TxnInv
<1>2. ASSUME NEW h \in Handlers, NEW order \in IterationOrders(db), BeginBlock(h, order)
      PROVE  \E t : Begins(h, t)
  BY <1>2, BeginsBlock DEF TxnInv
<1>3. ASSUME NEW h \in Handlers, NEW tx \in ClientTxes, BeginPost(h, tx)
      PROVE  \E t : Begins(h, t)
  BY <1>3, BeginsPost
<1>4. ASSUME NEW h \in Handlers, NEW pos \in ClientPositions, NEW sig \in Signature,
             BeginConfirm(h, pos, sig)
      PROVE  \E t : Begins(h, t)
  BY <1>4, BeginsConfirm DEF TxnInv
<1>5. ASSUME NEW h \in Handlers, NEW pos \in ClientPositions, BeginExit(h, pos)
      PROVE  \E t : Begins(h, t)
  BY <1>5, BeginsExit DEF TxnInv
<1> QED  BY <1>1, <1>2, <1>3, <1>4, <1>5 DEF TxnNext

\* What a commit does to the store and to the others.
LEMMA CommitStep ==
    ASSUME TxnInv, NEW h \in Handlers, Commit(h)
    PROVE  /\ Commits(db, txn[h], db')
           /\ ClientEffect(db, db')
           /\ txn' = [g \in Handlers |-> txn'[g]]
           /\ \A g \in Handlers : txn'[g].state = "open" =>
                /\ g # h
                /\ txn[g].state = "open"
                /\ txn'[g] = txn[g]
                /\ txn[g].reads \cap txn[h].writes = {}
<1>1. Fresh(db, txn[h]) /\ db' = Apply(db, txn[h])
  BY DEF TxnInv, TxnsFresh, Commit
<1>2. Commits(db, txn[h], db')
  BY <1>1, FreshCommits DEF TxnInv
<1>3. ASSUME NEW g \in Handlers, txn'[g].state = "open"
      PROVE  /\ g # h
             /\ txn[g].state = "open"
             /\ txn'[g] = txn[g]
             /\ txn[g].reads \cap txn[h].writes = {}
  BY <1>3 DEF Commit, Idle, Stale
<1>4. txn' = [g \in Handlers |-> txn'[g]]
  BY DEF Commit
<1> QED  BY <1>2, <1>3, <1>4 DEF Commits

LEMMA TxnStep ==
    ASSUME TxnInv, [TxnNext]_vars
    PROVE  TxnInv' /\ [ClientEffect(db, db')]_db
<1>1. ASSUME NEW h \in Handlers, NEW t, Begins(h, t)
      PROVE  TxnInv' /\ UNCHANGED db
  <2>1. UNCHANGED db /\ txn' = [txn EXCEPT ![h] = t] /\ Fresh(db, t)
    BY <1>1 DEF Begins
  <2>2. txn' = [g \in Handlers |-> txn'[g]]
    BY <2>1 DEF TxnInv, TxnsFresh
  <2>3. \A g \in Handlers : txn'[g] = IF g = h THEN t ELSE txn[g]
    BY <2>1 DEF TxnInv, TxnsFresh
  <2>4. \A g \in Handlers : txn'[g].state = "open" => Fresh(db, txn'[g])
    BY <2>1, <2>3 DEF TxnInv, TxnsFresh
  <2> QED  BY <2>1, <2>2, <2>4 DEF TxnInv, TxnsFresh
<1>2. ASSUME NEW h \in Handlers, Commit(h)
      PROVE  TxnInv' /\ ClientEffect(db, db')
  <2>1. Commits(db, txn[h], db') /\ ClientEffect(db, db')
    BY <1>2, CommitStep
  <2>2. Inv(db') /\ FcnStore(db')
    BY <2>1, EffectPreservesInv DEF TxnInv, Commits, ClientEffect
  <2>3. ASSUME NEW g \in Handlers, txn'[g].state = "open"
        PROVE  Fresh(db', txn'[g])
    <3>1. /\ txn[g].state = "open"
          /\ txn'[g] = txn[g]
          /\ txn[g].reads \cap txn[h].writes = {}
      BY <1>2, <2>3, CommitStep
    <3>2. Fresh(db, txn[g])
      BY <3>1 DEF TxnInv, TxnsFresh
    <3>3. Fresh(db', txn[g])
      BY <2>1, <3>1, <3>2, FreshStays DEF TxnInv
    <3> QED  BY <3>1, <3>3
  <2>4. txn' = [g \in Handlers |-> txn'[g]]
    BY <1>2, CommitStep
  <2> QED  BY <2>1, <2>2, <2>3, <2>4 DEF TxnInv, TxnsFresh
<1>3. ASSUME NEW h \in Handlers, Conflict(h)
      PROVE  TxnInv' /\ UNCHANGED db
  <2>1. UNCHANGED db /\ txn' = [txn EXCEPT ![h] = Idle]
    BY <1>3 DEF Conflict
  <2>2. txn' = [g \in Handlers |-> txn'[g]]
    BY <2>1 DEF TxnInv, TxnsFresh
  <2>3. \A g \in Handlers : txn'[g] = IF g = h THEN Idle ELSE txn[g]
    BY <2>1 DEF TxnInv, TxnsFresh
  <2>4. \A g \in Handlers : txn'[g].state = "open" => Fresh(db, txn'[g])
    BY <2>3 DEF TxnInv, TxnsFresh, Idle
  <2> QED  BY <2>1, <2>2, <2>4 DEF TxnInv, TxnsFresh
<1>4. CASE UNCHANGED vars
  BY <1>4 DEF vars, TxnInv, TxnsFresh
<1> QED  BY <1>1, <1>2, <1>3, <1>4, TxnSteps

LEMMA TxnInvHolds == TxnSpec => []TxnInv
<1>1. TxnInv /\ [TxnNext]_vars => TxnInv'
  BY TxnStep
<1> QED  BY <1>1, TxnInitInv, PTL DEF TxnSpec

LEMMA TxnsAreClientSerial == TxnSpec => ClientSerial
<1>1. TxnInit => Init
  BY DEF TxnInit
<1>2. TxnInv /\ [TxnNext]_vars => [ClientEffect(db, db')]_db
  BY TxnStep
<1> QED  BY <1>1, <1>2, TxnInvHolds, PTL DEF TxnSpec, ClientSerial

-----------------------------------------------------------------------------
(* How far the mempool overshoots.                                         *)

\* The handlers whose transaction is to add to the mempool.
Posting ==
    {h \in Handlers : txn[h].state = "open" /\ Adds(txn[h])}

\* Each of them may have counted the mempool before the others added to it.
Overshoot ==
    Cardinality(DOMAIN db.mempool) + Cardinality(Posting)
      <= MempoolSize + Cardinality(Handlers) - 1

LEMMA PostingCounted ==
    ASSUME NEW S \in SUBSET Handlers
    PROVE  /\ IsFiniteSet(S)
           /\ Cardinality(S) \in Nat
           /\ Cardinality(S) <= Cardinality(Handlers)
           /\ Cardinality(Handlers) \in Nat \ {0}
<1>1. IsFiniteSet(S) /\ Cardinality(S) <= Cardinality(Handlers)
  BY HandlersAssumption, FS_Subset
<1>2. Cardinality(S) \in Nat /\ Cardinality(Handlers) \in Nat
  BY <1>1, HandlersAssumption, FS_CardinalityType
<1>3. Cardinality(Handlers) # 0
  BY HandlersAssumption, FS_EmptySet
<1> QED  BY <1>1, <1>2, <1>3

\* The mempool after a commit.
LEMMA ApplyMempool ==
    ASSUME NEW v, NEW t
    PROVE  DOMAIN Apply(v, t).mempool \subseteq DOMAIN v.mempool \cup DOMAIN t.new.mempool
<1>1. Apply(v, t).mempool = Written(v.mempool, Names(t.writes, "mempool"), t.new.mempool)
  BY DEF Apply
<1> QED  BY <1>1 DEF Written, Override, Part

LEMMA OneMore ==
    ASSUME NEW S, IsFiniteSet(S), NEW x, NEW T \in SUBSET (S \cup {x})
    PROVE  Cardinality(T) <= Cardinality(S) + 1
<1>1. IsFiniteSet(S \cup {x})
  BY FS_AddElement
<1>2. Cardinality(S \cup {x}) = IF x \in S THEN Cardinality(S) ELSE Cardinality(S) + 1
  BY FS_AddElement
<1>3. Cardinality(T) <= Cardinality(S \cup {x})
  BY <1>1, FS_Subset
<1>4. /\ Cardinality(T) \in Nat
      /\ Cardinality(S) \in Nat
      /\ Cardinality(S \cup {x}) \in Nat
  BY <1>1, FS_Subset, FS_CardinalityType
<1> QED  BY <1>2, <1>3, <1>4

LEMMA FreshCases ==
    ASSUME NEW v, NEW t, Fresh(v, t)
    PROVE  /\ CurKey \in t.writes => DOMAIN t.new.mempool \subseteq DOMAIN v.mempool
           /\ CurKey \notin t.writes => \E h : DOMAIN t.new.mempool \subseteq {h}
<1>1. CASE FreshPost(v, t)
  <2>1. CurKey \notin t.writes
    BY <1>1, OpenFields, PostNames DEF FreshPost
  <2> QED  BY <1>1, <2>1, FreshAdds
<1>2. CASE FreshConfirm(v, t) \/ FreshExit(v, t)
  <2>1. DOMAIN t.new.mempool = {}
    BY <1>2, FreshAdds
  <2> QED  BY <2>1
<1>3. CASE FreshDeposit(v, t) \/ FreshBlock(v, t)
  BY <1>3, FreshAdds
<1> QED  BY <1>1, <1>2, <1>3 DEF Fresh

LEMMA OvershootStep ==
    ASSUME TxnInv, TxnInv', Overshoot, [TxnNext]_vars
    PROVE  Overshoot'
<1> DEFINE m == Cardinality(DOMAIN db.mempool)
           m2 == Cardinality(DOMAIN db'.mempool)
           p == Cardinality(Posting)
           p2 == Cardinality(Posting')
           n == Cardinality(Handlers)
<1>1. /\ IsFiniteSet(DOMAIN db.mempool) /\ m \in Nat
      /\ IsFiniteSet(DOMAIN db'.mempool) /\ m2 \in Nat
  BY FS_CardinalityType DEF TxnInv, Inv, MempoolKeyed
<1>2. /\ p \in Nat /\ p <= n
      /\ p2 \in Nat /\ p2 <= n
      /\ n \in Nat \ {0}
      /\ MempoolSize \in Nat
  BY PostingCounted, ChildChainAssumption DEF Posting
<1>3. m + p <= MempoolSize + n - 1
  BY DEF Overshoot
<1>4. IsFiniteSet(Posting)
  BY PostingCounted DEF Posting
<1>5. ASSUME NEW h \in Handlers, NEW t, Begins(h, t)
      PROVE  m2 + p2 <= MempoolSize + n - 1
  <2>1. /\ UNCHANGED db
        /\ \A g \in Handlers : txn'[g] = IF g = h THEN t ELSE txn[g]
        /\ Adds(t) => ~MempoolFull(db)
    BY <1>5 DEF Begins, TxnInv, TxnsFresh
  <2>2. m2 = m
    BY <2>1
  <2>3. CASE Adds(t)
    <3>1. m < MempoolSize
      BY <1>1, <1>2, <2>1, <2>3 DEF MempoolFull
    <3> HIDE DEF m, m2, p, p2, n
    <3> QED  BY <1>1, <1>2, <2>2, <3>1
  <2>4. CASE ~Adds(t)
    <3>1. Posting' \subseteq Posting
      BY <2>1, <2>4 DEF Posting
    <3>2. p2 <= p
      BY <1>4, <3>1, FS_Subset
    <3> HIDE DEF m, m2, p, p2, n
    <3> QED  BY <1>1, <1>2, <1>3, <2>2, <3>2
  <2> QED  BY <2>3, <2>4
<1>6. ASSUME NEW h \in Handlers, Commit(h)
      PROVE  m2 + p2 <= MempoolSize + n - 1
  <2> DEFINE add == DOMAIN txn[h].new.mempool
  <2>1. DOMAIN db'.mempool \subseteq DOMAIN db.mempool \cup add
    BY <1>6, ApplyMempool DEF Commit
  <2>2. Posting' \subseteq Posting \ {h}
    BY <1>6, CommitStep DEF Posting
  <2>3. CASE ~Adds(txn[h])
    <3>0. Fresh(db, txn[h])
      BY <1>6 DEF Commit, TxnInv, TxnsFresh
    <3>1. m2 <= m
      <4>1. add \subseteq DOMAIN db.mempool
        BY <2>3, <3>0, FreshCases DEF Adds
      <4> QED  BY <1>1, <2>1, <4>1, FS_Subset
    <3>2. p2 <= p
      BY <1>4, <2>2, FS_Subset
    <3> HIDE DEF m, m2, p, p2, n
    <3> QED  BY <1>1, <1>2, <1>3, <3>1, <3>2
  <2>4. CASE Adds(txn[h])
    <3>1. Fresh(db, txn[h]) /\ txn[h].state = "open"
      BY <1>6 DEF Commit, TxnInv, TxnsFresh
    <3>2. PICK x : add \subseteq {x}
      BY <2>4, <3>1, FreshCases DEF Adds
    <3>3. m2 <= m + 1
      <4>1. DOMAIN db'.mempool \subseteq DOMAIN db.mempool \cup {x}
        BY <2>1, <3>2
      <4> QED  BY <1>1, <4>1, OneMore
    <3>4. h \in Posting
      BY <2>4, <3>1 DEF Posting
    <3>5. p2 <= p - 1
      <4>1. IsFiniteSet(Posting \ {h}) /\ Cardinality(Posting \ {h}) = p - 1
        BY <1>4, <3>4, FS_RemoveElement
      <4> QED  BY <2>2, <4>1, FS_Subset
    <3> HIDE DEF m, m2, p, p2, n
    <3> QED  BY <1>1, <1>2, <1>3, <3>3, <3>5
  <2> QED  BY <2>3, <2>4
<1>7. ASSUME NEW h \in Handlers, Conflict(h)
      PROVE  m2 + p2 <= MempoolSize + n - 1
  <2>1. /\ UNCHANGED db
        /\ \A g \in Handlers : txn'[g] = IF g = h THEN Idle ELSE txn[g]
    BY <1>7 DEF Conflict, TxnInv, TxnsFresh
  <2>2. Posting' \subseteq Posting
    BY <2>1 DEF Posting, Idle
  <2>3. m2 = m /\ p2 <= p
    BY <1>4, <2>1, <2>2, FS_Subset
  <2> HIDE DEF m, m2, p, p2, n
  <2> QED  BY <1>1, <1>2, <1>3, <2>3
<1>8. ASSUME UNCHANGED vars
      PROVE  m2 + p2 <= MempoolSize + n - 1
  BY <1>3, <1>8 DEF vars, Posting
<1>9. m2 + p2 <= MempoolSize + n - 1
  BY <1>5, <1>6, <1>7, <1>8, TxnSteps
<1> QED  BY <1>9 DEF Overshoot

LEMMA OvershootHolds == TxnSpec => [](TxnInv /\ Overshoot)
<1>1. TxnInit => Overshoot
  <2> SUFFICES ASSUME TxnInit
               PROVE  Overshoot
    OBVIOUS
  <2>1. DOMAIN db.mempool = {} /\ Posting = {}
    BY DEF TxnInit, Init, NewChildChain, Posting, Idle
  <2>2. Cardinality({}) = 0
    BY FS_EmptySet
  <2>3. Cardinality(Handlers) \in Nat \ {0} /\ MempoolSize \in Nat
    BY PostingCounted, ChildChainAssumption
  <2>4. Cardinality(DOMAIN db.mempool) = 0 /\ Cardinality(Posting) = 0
    BY <2>1, <2>2
  <2> QED  BY <2>3, <2>4 DEF Overshoot
<1>2. TxnInv /\ Overshoot /\ [TxnNext]_vars => (TxnInv /\ Overshoot)'
  BY TxnStep, OvershootStep
<1> QED  BY <1>1, <1>2, TxnInitInv, PTL DEF TxnSpec

LEMMA OvershootBounds == TxnInv /\ Overshoot => OvershootBounded
<1> SUFFICES ASSUME TxnInv, Overshoot
             PROVE  OvershootBounded
  OBVIOUS
<1>1. Cardinality(Posting) \in Nat /\ Cardinality(Handlers) \in Nat /\ MempoolSize \in Nat
  BY PostingCounted, ChildChainAssumption DEF Posting
<1>2. Cardinality(DOMAIN db.mempool) \in Nat
  BY FS_CardinalityType DEF TxnInv, Inv, MempoolKeyed
<1> QED  BY <1>1, <1>2 DEF Overshoot, OvershootBounded

-----------------------------------------------------------------------------
(* The theorems.                                                           *)

\* Whatever requests and watchers overlap (the handlers of app/handler_*.go, the
\* watchers of app/plasma.go), the store goes through the states that one method
\* at a time could give it.
THEOREM ConcurrentIsSerial == TxnSpec => Serial
  BY TxnsAreClientSerial, ClientSerialIsSerial

\* The store keeps its types under concurrent requests.
THEOREM ConcurrentTypes == TxnSpec => []TypeOK
  BY ConcurrentIsSerial, InvHolds, InvGivesTypes, PTL

\* The spent flags, read in one snapshot and written in another transaction
\* (childchain.go:208-220, 258-266), cover all that is spent under concurrent
\* requests, and are set for no other reason than a client's having posted one.
THEOREM ConcurrentSpentFlags == TxnSpec => []SpentExplained
  BY TxnsAreClientSerial, ClientsExplain, PTL

\* Two requests that post different transactions of the same output at the same
\* time do not both have theirs accepted: the transactions that spend it, in
\* blocks or pending, are copies of one.
THEOREM ConcurrentNoDoubleSpend == TxnSpec => []NoDoubleSpend
  BY ConcurrentIsSerial, InvHolds, InvGivesNoDoubleSpend, PTL

\* A transaction accepted while others commit waits until a block has it: none
\* of them deletes it or takes its key.
THEOREM ConcurrentPendingKept == TxnSpec => PendingKept
  BY ConcurrentIsSerial, SerialKeepsPending

\* A transaction accepted while blocks are added still names outputs of blocks
\* before its own.
THEOREM ConcurrentInputsPrecede == TxnSpec => []InputsInEarlierBlocks
  BY ConcurrentIsSerial, InvHolds, InvGivesEarlierInputs, PTL

\* The signatures checked in a snapshot (childchain.go:269-275) are those of the
\* owners the committed store has.
THEOREM ConcurrentSigners == TxnSpec => []InputsAuthorized
  BY ConcurrentIsSerial, AuthorizedHolds, AuthorizedGivesSigners, PTL

\* Handlers that rewrite the same record whole (childchain.go:218, 349, 409) at
\* the same time lose no flag of each other's, and no confirmation but for the
\* owner's.
THEOREM ConcurrentRecordsKept == TxnSpec => RecordsOnlyGrow
  BY ConcurrentIsSerial, SerialKeepsRecords

\* An exit that commits while a request to spend the output is open is not
\* followed by the output's spending.
THEOREM ConcurrentExitsKept == TxnSpec => ExitedNotSpentLater
  BY ConcurrentIsSerial, SerialKeepsExits

\* As long as no client names an output twice, requests that overlap create no
\* value, but for what copies of a transaction pay: what they checked in a
\* snapshot still covers what they pay when they commit.
THEOREM ConcurrentValue == ClientsNameOnce => (TxnSpec => []ValueConserved)
<1> SUFFICES ASSUME ClientsNameOnce
             PROVE  TxnSpec => []ValueConserved
  OBVIOUS
<1> QED  BY TxnsAreClientSerial, ClientsConserve, PTL

\* The token index stays exact when blocks and deposits overlap (addBlock,
\* childchain.go:569-611), as long as positions fit in a uint64.
THEOREM ConcurrentTokens == PositionsFit => (TxnSpec => []TokenIndexExact)
<1> SUFFICES ASSUME PositionsFit
             PROVE  TxnSpec => []TokenIndexExact
  OBVIOUS
<1>1. Inv(db) /\ IndexInv(db) => TokenIndexExact
  BY IndexGivesExactTokens
<1> QED  BY <1>1, ConcurrentIsSerial, IndexHolds, PTL

\* Under concurrent requests too, GetUTXOPositions lists exactly what an address
\* can still spend.
THEOREM ConcurrentListing == PositionsFit => (TxnSpec => []UTXOListingExact)
<1> SUFFICES ASSUME PositionsFit
             PROVE  TxnSpec => []UTXOListingExact
  OBVIOUS
<1>1. Inv(db) /\ IndexInv(db) => UTXOListingExact
  BY IndexGivesExactListing
<1> QED  BY <1>1, ConcurrentIsSerial, IndexHolds, PTL

\* Blocks are numbered without a gap and stay as they were signed, although
\* deposits and blocks overlap and take their numbers in their snapshots.
THEOREM ConcurrentBlocks == TxnSpec => []BlocksAsSigned
<1>1. Inv(db) /\ Recorded(db) => BlocksAsSigned
  BY RecordedGivesSigned
<1> QED  BY <1>1, ConcurrentIsSerial, RecordedHolds, PTL

\* AddTxToMempool counts the mempool in its snapshot (childchain.go:183-185) and
\* no conflict follows from the count: with n requests at once the mempool holds
\* at most n - 1 transactions more than its capacity.
THEOREM OvershootIsBounded == TxnSpec => []OvershootBounded
  BY OvershootHolds, OvershootBounds, PTL
=============================================================================
