------------------------------ MODULE Node_proofs ------------------------------
(***************************************************************************)
(* The operator node, whatever happens to it: its store changes by one     *)
(* effect of ChildChain at a time, and every block it serves is backed by  *)
(* a block of the root chain.                                              *)
(***************************************************************************)
EXTENDS Node, ChildChainTxns_proofs, SequenceTheorems

USE DEF TxElements, TxElementsNum

-----------------------------------------------------------------------------
(* Counting in sequences.                                                  *)

IsSeq(s) == s \in Seq({s[i] : i \in DOMAIN s})

Places(s, X) == {i \in DOMAIN s : s[i] \in X}

CountIn(s, X) == Cardinality(Places(s, X))

Shift(A, n) == {i + n : i \in A}

LEMMA SeqIsSeq ==
    ASSUME NEW S, NEW s \in Seq(S)
    PROVE  IsSeq(s)
<1>1. /\ Len(s) \in Nat
      /\ s \in [1 .. Len(s) -> S]
      /\ DOMAIN s = 1 .. Len(s)
  BY LenProperties
<1> DEFINE R == {s[i] : i \in DOMAIN s}
<1>2. s \in [1 .. Len(s) -> R]
  BY <1>1
<1> HIDE DEF R
<1>3. s \in Seq(R)
  BY <1>1, <1>2
<1> QED  BY <1>3 DEF IsSeq, R

LEMMA CountIsNat ==
    ASSUME NEW s, IsSeq(s), NEW X
    PROVE  /\ IsFiniteSet(Places(s, X))
           /\ CountIn(s, X) \in Nat
<1>1. Len(s) \in Nat /\ DOMAIN s = 1 .. Len(s)
  BY LenProperties DEF IsSeq
<1>2. IsFiniteSet(1 .. Len(s))
  BY <1>1, FS_Interval
<1>3. Places(s, X) \in SUBSET (1 .. Len(s))
  BY <1>1 DEF Places
<1>4. IsFiniteSet(Places(s, X))
  BY <1>2, <1>3, FS_Subset
<1> QED  BY <1>4, FS_CardinalityType DEF CountIn

LEMMA ShiftCount ==
    ASSUME NEW A, IsFiniteSet(A), A \subseteq Nat, NEW n \in Nat
    PROVE  IsFiniteSet(Shift(A, n)) /\ Cardinality(Shift(A, n)) = Cardinality(A)
<1> DEFINE f == [i \in A |-> i + n]
<1>1. f \in Bijection(A, Shift(A, n))
  BY DEF Bijection, Injection, Surjection, IsInjective, Shift
<1>2. ExistsBijection(A, Shift(A, n))
  BY <1>1 DEF ExistsBijection
<1> QED  BY <1>2, FS_Bijection

LEMMA DisjointCount ==
    ASSUME NEW A, IsFiniteSet(A), NEW B, IsFiniteSet(B), A \cap B = {}
    PROVE  /\ IsFiniteSet(A \cup B)
           /\ Cardinality(A \cup B) = Cardinality(A) + Cardinality(B)
<1>1. Cardinality(A \cup B) = Cardinality(A) + Cardinality(B) - Cardinality(A \cap B)
  BY FS_Union
<1>2. Cardinality(A) \in Nat /\ Cardinality(B) \in Nat /\ Cardinality(A \cap B) = 0
  BY FS_CardinalityType, FS_EmptySet
<1> QED  BY <1>1, <1>2, FS_Union

LEMMA CountConcat ==
    ASSUME NEW s, IsSeq(s), NEW t, IsSeq(t), NEW X
    PROVE  /\ IsSeq(s \o t)
           /\ CountIn(s \o t, X) = CountIn(s, X) + CountIn(t, X)
<1> DEFINE S == {s[i] : i \in DOMAIN s} \cup {t[i] : i \in DOMAIN t}
           n == Len(s)
           A == Places(s, X)
           B == Places(t, X)
<1>1. s \in Seq(S) /\ t \in Seq(S)
  BY DEF IsSeq
<1> HIDE DEF S
<1>2. /\ n \in Nat /\ DOMAIN s = 1 .. n
      /\ Len(t) \in Nat /\ DOMAIN t = 1 .. Len(t)
  BY <1>1, LenProperties
<1>3. /\ s \o t \in Seq(S)
      /\ Len(s \o t) = n + Len(t)
      /\ \A i \in 1 .. n + Len(t) :
           (s \o t)[i] = IF i <= n THEN s[i] ELSE t[i - n]
  BY <1>1, ConcatProperties
<1>4. DOMAIN (s \o t) = 1 .. n + Len(t)
  BY <1>3, LenProperties
<1> HIDE DEF n
<1>5. Places(s \o t, X) = A \cup Shift(B, n)
  <2>1. ASSUME NEW i \in Places(s \o t, X)
        PROVE  i \in A \cup Shift(B, n)
    <3>1. i \in 1 .. n + Len(t) /\ (s \o t)[i] \in X
      BY <1>4 DEF Places
    <3>2. CASE i <= n
      BY <1>2, <1>3, <3>1, <3>2 DEF Places
    <3>3. CASE ~(i <= n)
      <4>1. i - n \in 1 .. Len(t) /\ (i - n) + n = i
        BY <1>2, <3>1, <3>3
      <4>2. i - n \in B
        BY <1>2, <1>3, <3>1, <3>3, <4>1 DEF Places
      <4> QED  BY <4>1, <4>2 DEF Shift
    <3> QED  BY <3>2, <3>3
  <2>2. ASSUME NEW i \in A
        PROVE  i \in Places(s \o t, X)
    <3>1. i \in 1 .. n /\ s[i] \in X
      BY <1>2 DEF Places
    <3>2. i \in 1 .. n + Len(t) /\ i <= n
      BY <1>2, <3>1
    <3> QED  BY <1>3, <1>4, <3>1, <3>2 DEF Places
  <2>3. ASSUME NEW j \in B
        PROVE  j + n \in Places(s \o t, X)
    <3>1. j \in 1 .. Len(t) /\ t[j] \in X
      BY <1>2 DEF Places
    <3>2. j + n \in 1 .. n + Len(t) /\ ~(j + n <= n) /\ (j + n) - n = j
      BY <1>2, <3>1
    <3> QED  BY <1>3, <1>4, <3>1, <3>2 DEF Places
  <2> HIDE DEF A, B
  <2> QED  BY <2>1, <2>2, <2>3 DEF Shift
<1>6. A \cap Shift(B, n) = {}
  BY <1>2 DEF Places, Shift
<1>7. /\ IsFiniteSet(A) /\ IsFiniteSet(B)
      /\ B \subseteq Nat
  <2>1. IsFiniteSet(A) /\ IsFiniteSet(B)
    BY CountIsNat
  <2> QED  BY <1>2, <2>1 DEF Places
<1> HIDE DEF A, B
<1>8. IsFiniteSet(Shift(B, n)) /\ Cardinality(Shift(B, n)) = Cardinality(B)
  BY <1>2, <1>7, ShiftCount
<1>9. Cardinality(A \cup Shift(B, n)) = Cardinality(A) + Cardinality(B)
  BY <1>6, <1>7, <1>8, DisjointCount
<1>10. CountIn(s \o t, X) = CountIn(s, X) + CountIn(t, X)
  BY <1>5, <1>9 DEF CountIn, A, B
<1> QED  BY <1>3, <1>10, SeqIsSeq

One(e, X) == IF e \in X THEN 1 ELSE 0

LEMMA CountOne ==
    ASSUME NEW e, NEW X
    PROVE  IsSeq(<<e>>) /\ CountIn(<<e>>, X) = One(e, X)
<1>1. <<e>> \in Seq({e})
  OBVIOUS
<1>2. Places(<<e>>, X) = IF e \in X THEN {1} ELSE {}
  BY DEF Places
<1>3. Cardinality({1}) = 1 /\ Cardinality({}) = 0
  BY FS_Singleton, FS_EmptySet
<1> QED  BY <1>1, <1>2, <1>3, SeqIsSeq DEF CountIn, One

LEMMA CountAppend ==
    ASSUME NEW s, IsSeq(s), NEW e, NEW X
    PROVE  /\ IsSeq(Append(s, e))
           /\ CountIn(Append(s, e), X) = CountIn(s, X) + One(e, X)
<1> DEFINE S == {s[i] : i \in DOMAIN s} \cup {e}
<1>1. s \in Seq(S) /\ e \in S
  BY DEF IsSeq
<1> HIDE DEF S
<1>2. Append(s, e) = s \o <<e>>
  BY <1>1, AppendIsConcat
<1> QED  BY <1>2, CountOne, CountConcat

LEMMA CountTail ==
    ASSUME NEW s, IsSeq(s), s # << >>, NEW X
    PROVE  /\ Head(s) = s[1] /\ 1 \in DOMAIN s
           /\ IsSeq(Tail(s))
           /\ CountIn(s, X) = One(s[1], X) + CountIn(Tail(s), X)
<1> DEFINE S == {s[i] : i \in DOMAIN s}
<1>1. s \in Seq(S)
  BY DEF IsSeq
<1> HIDE DEF S
<1>2. Tail(s) \in Seq(S) /\ Head(s) = s[1] /\ Head(s) \in S
  BY <1>1, HeadTailProperties
<1>3. IsSeq(Tail(s))
  BY <1>2, SeqIsSeq
<1>4. s = <<s[1]>> \o Tail(s)
  <2>1. /\ Len(s) \in Nat \ {0}
        /\ Len(Tail(s)) = Len(s) - 1
        /\ \A i \in 1 .. Len(Tail(s)) : Tail(s)[i] = s[i + 1]
    BY <1>1, HeadTailProperties, EmptySeq
  <2> DEFINE t == <<s[1]>> \o Tail(s)
  <2>2. <<s[1]>> \in Seq(S) /\ Len(<<s[1]>>) = 1
    BY <1>2
  <2>3. /\ t \in Seq(S)
        /\ Len(t) = Len(s)
        /\ \A i \in 1 .. Len(s) : t[i] = IF i <= 1 THEN <<s[1]>>[i] ELSE Tail(s)[i - 1]
    BY <1>2, <2>1, <2>2, ConcatProperties
  <2>4. \A i \in 1 .. Len(s) : t[i] = s[i]
    BY <2>1, <2>3
  <2> HIDE DEF t
  <2> QED  BY <1>1, <2>3, <2>4, SeqEqual DEF t
<1>5. 1 \in DOMAIN s
  BY <1>1, EmptySeq, LenProperties
<1>6. CountIn(<<s[1]>> \o Tail(s), X) = CountIn(<<s[1]>>, X) + CountIn(Tail(s), X)
  BY <1>3, CountOne, CountConcat
<1>7. CountIn(<<s[1]>>, X) = One(s[1], X)
  BY CountOne
<1> QED  BY <1>2, <1>3, <1>4, <1>5, <1>6, <1>7

\* A sequence cut short.
LEMMA CountPrefix ==
    ASSUME NEW s, IsSeq(s), NEW n \in 0 .. Len(s), NEW X
    PROVE  /\ IsSeq(SubSeq(s, 1, n))
           /\ \A i \in DOMAIN SubSeq(s, 1, n) :
                i \in DOMAIN s /\ SubSeq(s, 1, n)[i] = s[i]
           /\ CountIn(SubSeq(s, 1, n), X) <= CountIn(s, X)
<1> DEFINE S == {s[i] : i \in DOMAIN s}
           t == SubSeq(s, 1, n)
<1>1. /\ s \in Seq(S)
      /\ Len(s) \in Nat
      /\ DOMAIN s = 1 .. Len(s)
  BY LenProperties DEF IsSeq
<1>2. n \in Int /\ 1 \in Int /\ \A i \in 1 .. n : s[i] \in S
  BY <1>1
<1> HIDE DEF S
<1>3. /\ t \in Seq(S)
      /\ Len(t) = IF 1 <= n THEN n - 1 + 1 ELSE 0
      /\ \A i \in 1 .. n - 1 + 1 : t[i] = s[1 + i - 1]
  BY <1>2, SubSeqProperties
<1>4. DOMAIN t = 1 .. n /\ \A i \in 1 .. n : t[i] = s[i]
  BY <1>1, <1>3, LenProperties
<1>5. IsSeq(t)
  BY <1>3, SeqIsSeq
<1> HIDE DEF t
<1>6. \A i \in DOMAIN t : i \in DOMAIN s /\ t[i] = s[i]
  BY <1>1, <1>4
<1>7. Places(t, X) \in SUBSET Places(s, X)
  BY <1>6 DEF Places
<1>8. CountIn(t, X) <= CountIn(s, X)
  BY <1>7, CountIsNat, FS_Subset DEF CountIn
<1> QED  BY <1>5, <1>6, <1>8 DEF t

LEMMA AppendedIn ==
    ASSUME NEW s, IsSeq(s), NEW T, \A i \in DOMAIN s : s[i] \in T, NEW e \in T
    PROVE  \A i \in DOMAIN Append(s, e) : Append(s, e)[i] \in T
<1>1. s \in Seq(T)
  <2>1. Len(s) \in Nat /\ DOMAIN s = 1 .. Len(s) /\ s \in [1 .. Len(s) -> {s[i] : i \in DOMAIN s}]
    BY LenProperties DEF IsSeq
  <2>2. s \in [1 .. Len(s) -> T]
    BY <2>1
  <2> QED  BY <2>1, <2>2
<1>2. Append(s, e) \in Seq(T)
  BY <1>1
<1> QED  BY <1>2, LenProperties, ElementOfSeq

LEMMA TailIn ==
    ASSUME NEW s, IsSeq(s), s # << >>, NEW T, \A i \in DOMAIN s : s[i] \in T
    PROVE  \A i \in DOMAIN Tail(s) : Tail(s)[i] \in T
<1> DEFINE S == {s[i] : i \in DOMAIN s}
<1>1. s \in Seq(S) /\ S \subseteq T
  BY DEF IsSeq
<1> HIDE DEF S
<1>2. Tail(s) \in Seq(S)
  BY <1>1, HeadTailProperties
<1>3. \A i \in DOMAIN Tail(s) : Tail(s)[i] \in S
  BY <1>2, LenProperties, ElementOfSeq
<1> QED  BY <1>1, <1>3

-----------------------------------------------------------------------------
(* The blocks a node serves.                                               *)

\* Blocks whose records have the same keys and leaves are the same to users.
LEMMA ServedSame ==
    ASSUME NEW v, DOMAIN v.tx \subseteq Nat \X Nat, NEW w, NEW b,
           BlockTxKeys(w, b) = BlockTxKeys(v, b),
           \A k \in BlockTxKeys(v, b) : MerkleLeaf(w.tx[k]) = MerkleLeaf(v.tx[k])
    PROVE  Served(w, b) = Served(v, b)
<1> DEFINE I == Indexes(v, b)
           x == Served(v, b)
           y == Served(w, b)
<1>1. I = Indexes(w, b)
  BY DEF Indexes
<1>2. \A i \in I : <<b, i>> \in BlockTxKeys(v, b)
  BY DEF Indexes, BlockTxKeys
<1>0. I = Indexes(v, b)
  OBVIOUS
<1> HIDE DEF I
<1>3. /\ IsFcn(x)
      /\ DOMAIN x = Ranks(I)
      /\ \A p \in DOMAIN x : x[p] = MerkleLeaf(v.tx[<<b, IndexAt(I, p)>>])
  BY <1>0, ServedLeaf
<1>4. /\ IsFcn(y)
      /\ DOMAIN y = Ranks(I)
      /\ \A p \in DOMAIN y : y[p] = MerkleLeaf(w.tx[<<b, IndexAt(I, p)>>])
  BY <1>1, ServedLeaf
<1> HIDE DEF x, y
<1>5. ASSUME NEW p \in DOMAIN x
      PROVE  y[p] = x[p]
  <2>1. \E i \in I : RankIn(I, i) = p
    BY <1>3 DEF Ranks
  <2>2. IndexAt(I, p) \in I
    BY <2>1 DEF IndexAt
  <2> QED  BY <1>2, <1>3, <1>4, <2>2
<1>6. y = x
  BY <1>3, <1>4, <1>5, FcnEqual
<1> QED  BY <1>6 DEF x, y

\* An effect leaves the blocks there are as they are served.
LEMMA EffectKeepsServed ==
    ASSUME NEW v, Inv(v), NEW w, Effect(v, w), NEW b, b < v.cur
    PROVE  Served(w, b) = Served(v, b)
<1>1. Keeps(v, w)
  BY EffectKeeps
<1>2. \A k \in DOMAIN w.tx \ DOMAIN v.tx : k[1] = v.cur
  <2>1. ASSUME NEW txes, Appends(v, w, txes)
        PROVE  \A k \in DOMAIN w.tx \ DOMAIN v.tx : k[1] = v.cur
    BY <2>1 DEF Appends
  <2>2. Rewrites(v, w) \/ \E txes : Appends(v, w, txes)
    BY EffectRewrites, DepositAppends, SealAppends DEF Effect
  <2> QED  BY <2>1, <2>2 DEF Rewrites
<1>3. BlockTxKeys(w, b) = BlockTxKeys(v, b)
  <2>1. v.cur \in Nat /\ b # v.cur
    BY DEF Inv, StoreType
  <2> QED  BY <1>1, <1>2, <2>1 DEF BlockTxKeys, Keeps
<1>4. \A k \in BlockTxKeys(v, b) : MerkleLeaf(w.tx[k]) = MerkleLeaf(v.tx[k])
  BY <1>1, KeepsLeaf DEF BlockTxKeys
<1> QED  BY <1>3, <1>4, ServedSame DEF Inv, StoreType

-----------------------------------------------------------------------------
(* The blocks transactions add.                                            *)

\* The block an open transaction is to add, as it will be served.
Added(t) == Served(t.new, t.new.cur - 1)

DepositLeaves(d) == [i \in {0} |-> MerkleLeaf(DepositTx(d[1], d[2]))]

LEMMA OpenedServes ==
    ASSUME NEW v, v.cur \in Nat, NEW new, new.cur = v.cur + 1,
           DOMAIN new.tx \subseteq Nat \X Nat, NEW batch,
           NEW t, t = Open(t.reads, AddedKeys(v, new) \cup ({"mempool"} \X batch), new)
    PROVE  CurKey \in t.writes /\ Added(t) = Served(new, v.cur)
<1> DEFINE keys == AddedKeys(v, new) \cup ({"mempool"} \X batch)
           reads == t.reads
<1>1. BlockNames(keys, v, new, batch)
  BY AddedNames
<1>2. t = Open(reads, keys, new)
  OBVIOUS
<1> HIDE DEF keys, reads
<1>3. CurKey \in keys /\ Names(keys, "tx") = BlockTxKeys(new, v.cur)
  BY <1>1 DEF BlockNames
<1>4. /\ t.writes = keys
      /\ t.new.cur = v.cur + 1
      /\ t.new.tx = Part(new.tx, BlockTxKeys(new, v.cur))
  BY <1>2, <1>3 DEF Open
<1>5. /\ BlockTxKeys(t.new, v.cur) = BlockTxKeys(new, v.cur)
      /\ \A k \in BlockTxKeys(new, v.cur) : t.new.tx[k] = new.tx[k]
  BY <1>4 DEF Part, BlockTxKeys
<1>6. Served(t.new, v.cur) = Served(new, v.cur)
  BY <1>5, ServedSame
<1>7. t.new.cur - 1 = v.cur
  BY <1>4
<1> QED  BY <1>3, <1>4, <1>6, <1>7 DEF Added

\* Committing t adds the block that t promised.
AddsBlock(v, t) ==
    LET w == Apply(v, t)
    IN  /\ w.cur = v.cur + 1
        /\ DOMAIN w.header = DOMAIN v.header \cup {v.cur}
        /\ Served(w, v.cur) = Added(t)

LEMMA ExtendedAdds ==
    ASSUME NEW v, Inv(v), FcnStore(v), NEW t, NEW w, NEW m, NEW txes, NEW batch,
           Extends(v, t, w, m, txes, batch)
    PROVE  AddsBlock(v, t)
<1>1. /\ IsFcn(m)
      /\ w = Extended(v, m, txes)
      /\ Effect(v, w)
      /\ t = Open(t.reads, AddedKeys(v, w) \cup ({"mempool"} \X batch), w)
  BY DEF Extends, ClientEffect
<1>2. w.cur = v.cur + 1 /\ w.header = Override(v.header, NewHeader(v.cur, txes))
  BY <1>1, ExtendedFields
<1>3. DOMAIN w.header = DOMAIN v.header \cup {v.cur}
  BY <1>2 DEF Override, NewHeader
<1>4. Inv(w)
  BY <1>1, EffectPreservesInv
<1>5. Added(t) = Served(w, v.cur)
  BY <1>1, <1>2, <1>4, OpenedServes DEF Inv, StoreType
<1>6. Apply(v, t) = w
  BY ExtendedCommits DEF Commits
<1> QED  BY <1>2, <1>3, <1>5, <1>6 DEF AddsBlock

LEMMA FreshAddsBlock ==
    ASSUME NEW v, Inv(v), FcnStore(v), NEW t, Fresh(v, t)
    PROVE  CurKey \in t.writes => AddsBlock(v, t)
<1>1. FreshPost(v, t) => CurKey \notin t.writes
  BY OpenFields, PostNames DEF FreshPost
<1>2. FreshConfirm(v, t) \/ FreshExit(v, t) => CurKey \notin t.writes
  BY OpenFields, RecordNames DEF FreshConfirm, FreshExit
<1>3. FreshDeposit(v, t) \/ FreshBlock(v, t) => AddsBlock(v, t)
  BY DepositExtending, BlockExtending, ExtendedAdds
<1> QED  BY <1>1, <1>2, <1>3 DEF Fresh

\* A block of one transaction has that transaction's leaf.
LEMMA DepositServed ==
    ASSUME NEW v, Inv(v), FcnStore(v), NEW owner, NEW amount,
           NEW new, new = AddDepositBlock(v, owner, amount).db
    PROVE  Served(new, v.cur) = DepositLeaves(<<owner, amount>>)
<1> DEFINE tx == DepositTx(owner, amount)
           b == v.cur
           x == Served(new, b)
           y == DepositLeaves(<<owner, amount>>)
<1>1. new.tx = Override(v.tx, NewTxes(b, DepositTxes(owner, amount)))
  BY DepositExtends, ExtendedFields DEF FcnStore
<1>2. b \in Nat /\ \A k \in DOMAIN v.tx : k \in Nat \X Nat /\ k[1] # b
  BY DEF Inv, StoreType, KeysBelowCurrent
<1> HIDE DEF tx, b
<1>3. BlockTxKeys(new, b) = {<<b, 0>>} /\ new.tx[<<b, 0>>] = tx
  BY <1>1, <1>2 DEF Override, NewTxes, DepositTxes, BlockTxKeys, tx
<1>4. Indexes(new, b) = {0}
  BY <1>3 DEF Indexes
<1>5. RankIn({0}, 0) = 0
  BY FS_EmptySet DEF RankIn
<1>6. Ranks({0}) = {0} /\ IndexAt({0}, 0) = 0
  BY <1>5 DEF Ranks, IndexAt
<1>7. IsFcn(x) /\ DOMAIN x = {0} /\ x[0] = MerkleLeaf(tx)
  BY <1>3, <1>4, <1>6, ServedLeaf
<1>8. IsFcn(y) /\ DOMAIN y = {0} /\ y[0] = MerkleLeaf(tx)
  BY DEF DepositLeaves, IsFcn, tx
<1> HIDE DEF x, y
<1>9. x = y
  BY <1>7, <1>8, FcnEqual
<1> QED  BY <1>9 DEF x, y, b

-----------------------------------------------------------------------------
(***************************************************************************)
(* The invariant.  Take any block B.  How often it is served, how often it *)
(* is still to be added because a deposit's event is waiting, and how      *)
(* often an open transaction is about to add it with the root chain's      *)
(* consent, is together no more than its occurrences on the root chain and *)
(* on the way there.                                                       *)
(***************************************************************************)
HeldSet(v, d, B) == {b \in DOMAIN v.header \ d : Served(v, b) = B}

DueDeposits(B) == {d \in Accounts \X DepositAmounts : DepositLeaves(d) = B}

Claims(x, c, h) ==
    /\ x[h].state = "open"
    /\ \/ h = DepositWatcher
       \/ h \in Requests /\ c[h].step = "sent"

ClaimSet(x, c, B) == {h \in Handlers : Claims(x, c, h) /\ Added(x[h]) = B}

Accounted(v, d, q, x, c, r, s, B) ==
    Cardinality(HeldSet(v, d, B)) + CountIn(q, DueDeposits(B))
        + Cardinality(ClaimSet(x, c, B))
      <= CountIn(r, {B}) + CountIn(s, {B})

Balance ==
    \A B : Accounted(db, direct, events.deposit, txn, call, root, sent, B)

HeadersPast(v) == \A b \in DOMAIN v.header : b \in Nat /\ b < v.cur

NodeTypes ==
    /\ HeadersPast(db)
    /\ IsSeq(root)
    /\ IsSeq(sent)
    /\ events = [deposit |-> events.deposit, exit |-> events.exit]
    /\ IsSeq(events.deposit)
    /\ \A i \in DOMAIN events.deposit :
         events.deposit[i] \in Accounts \X DepositAmounts
    /\ IsSeq(events.exit)
    /\ \A i \in DOMAIN events.exit : events.exit[i] \in ClientPositions
    /\ call = [r \in Requests |-> call[r]]

\* What a handler's open transaction is, by where the handler is.
CallMatches(x, c, r) ==
    /\ c[r].step = "checked" => x[r] = Idle
    /\ x[r].state = "open" =>
        /\ c[r].step = "none" => CurKey \notin x[r].writes
        /\ c[r].step = "built" => Added(x[r]) = c[r].leaves

CallsMatch ==
    /\ \A r \in Requests : CallMatches(txn, call, r)
    /\ txn[ExitWatcher].state = "open" => CurKey \notin txn[ExitWatcher].writes

NodeInv == TxnInv /\ NodeTypes /\ CallsMatch /\ Balance

LEMMA HeldIsFinite ==
    ASSUME NEW v, v.cur \in Nat, HeadersPast(v), NEW d, NEW B
    PROVE  IsFiniteSet(HeldSet(v, d, B)) /\ Cardinality(HeldSet(v, d, B)) \in Nat
<1>1. HeldSet(v, d, B) \in SUBSET Nat /\ \A b \in HeldSet(v, d, B) : b <= v.cur
  BY DEF HeldSet, HeadersPast
<1>2. IsFiniteSet(HeldSet(v, d, B))
  BY <1>1, FS_BoundedSetOfNaturals
<1> QED  BY <1>2, FS_CardinalityType

LEMMA ClaimsAreFinite ==
    ASSUME NEW x, NEW c, NEW B
    PROVE  IsFiniteSet(ClaimSet(x, c, B)) /\ Cardinality(ClaimSet(x, c, B)) \in Nat
<1>1. ClaimSet(x, c, B) \in SUBSET Handlers
  BY DEF ClaimSet
<1>2. IsFiniteSet(ClaimSet(x, c, B))
  BY <1>1, HandlersAssumption, FS_Subset
<1> QED  BY <1>2, FS_CardinalityType

\* A step that adds no block.  The new claims are paid for by an event taken or
\* a root sent.
LEMMA NoBlockAccounted ==
    ASSUME NodeInv, UNCHANGED <<db, direct>>,
           IsSeq(root'), IsSeq(sent'), IsSeq(events.deposit'),
           NEW B, NEW X, IsFiniteSet(X),
           ClaimSet(txn', call', B) \subseteq ClaimSet(txn, call, B) \cup X,
           CountIn(events.deposit', DueDeposits(B)) + Cardinality(X)
               + CountIn(root, {B}) + CountIn(sent, {B})
             <= CountIn(events.deposit, DueDeposits(B))
                  + CountIn(root', {B}) + CountIn(sent', {B})
    PROVE  Accounted(db', direct', events.deposit', txn', call', root', sent', B)
<1> DEFINE held == Cardinality(HeldSet(db, direct, B))
           due == CountIn(events.deposit, DueDeposits(B))
           due2 == CountIn(events.deposit', DueDeposits(B))
           claimed == Cardinality(ClaimSet(txn, call, B))
           claimed2 == Cardinality(ClaimSet(txn', call', B))
           backing == CountIn(root, {B}) + CountIn(sent, {B})
           backing2 == CountIn(root', {B}) + CountIn(sent', {B})
<1>1. /\ held \in Nat /\ due \in Nat /\ due2 \in Nat
      /\ claimed \in Nat /\ claimed2 \in Nat
      /\ backing \in Nat /\ backing2 \in Nat
      /\ Cardinality(X) \in Nat
  <2>1. held \in Nat
    BY HeldIsFinite DEF NodeInv, NodeTypes, TxnInv, Inv, StoreType
  <2>2. due \in Nat /\ due2 \in Nat
    BY CountIsNat DEF NodeInv, NodeTypes
  <2>3. claimed \in Nat /\ claimed2 \in Nat
    BY ClaimsAreFinite
  <2>4. backing \in Nat /\ backing2 \in Nat
    BY CountIsNat DEF NodeInv, NodeTypes
  <2> QED  BY <2>1, <2>2, <2>3, <2>4, FS_CardinalityType
<1>2. claimed2 <= claimed + Cardinality(X)
  <2> DEFINE C == ClaimSet(txn, call, B)
             D == ClaimSet(txn', call', B)
  <2>1. IsFiniteSet(C) /\ D \in SUBSET (C \cup X)
    BY ClaimsAreFinite
  <2> HIDE DEF C, D
  <2>2. /\ IsFiniteSet(C \cup X)
        /\ Cardinality(C \cup X) = Cardinality(C) + Cardinality(X) - Cardinality(C \cap X)
    BY <2>1, FS_Union
  <2>3. Cardinality(D) <= Cardinality(C \cup X)
    BY <2>1, <2>2, FS_Subset
  <2>4. C \cap X \in SUBSET C
    OBVIOUS
  <2>5. IsFiniteSet(C \cap X) /\ IsFiniteSet(D)
    BY <2>1, <2>2, <2>4, FS_Subset
  <2>6. /\ Cardinality(C \cap X) \in Nat /\ Cardinality(C) \in Nat
        /\ Cardinality(X) \in Nat /\ Cardinality(D) \in Nat
    BY <2>1, <2>5, FS_CardinalityType
  <2>7. Cardinality(D) <= Cardinality(C) + Cardinality(X)
    BY <2>2, <2>3, <2>6
  <2> QED  BY <2>7 DEF C, D
<1>3. held + due + claimed <= backing
  BY DEF NodeInv, Balance, Accounted
<1>4. due2 + Cardinality(X) + backing <= due + backing2
  BY <1>1, CountIsNat DEF NodeInv, NodeTypes
<1>5. HeldSet(db', direct', B) = HeldSet(db, direct, B)
  OBVIOUS
<1> HIDE DEF held, due, due2, claimed, claimed2, backing, backing2
<1>6. held + due2 + claimed2 <= backing2
  BY <1>1, <1>2, <1>3, <1>4
<1> QED  BY <1>5, <1>6 DEF Accounted, held, due2, claimed2, backing2

\* What a commit does to the blocks that are served.
LEMMA CommitServes ==
    ASSUME TxnInv, HeadersPast(db), NEW h \in Handlers, Commit(h)
    PROVE  /\ HeadersPast(db')
           /\ \A b \in DOMAIN db.header : Served(db', b) = Served(db, b)
           /\ DOMAIN db'.header \subseteq DOMAIN db.header \cup {db.cur}
           /\ \A b \in DOMAIN db'.header \ DOMAIN db.header :
                CurKey \in txn[h].writes /\ Served(db', b) = Added(txn[h])
<1>1. Fresh(db, txn[h]) /\ Inv(db) /\ FcnStore(db) /\ db' = Apply(db, txn[h])
  BY DEF TxnInv, TxnsFresh, Commit
<1>2. Commits(db, txn[h], db') /\ ClientEffect(db, db')
  BY CommitStep
<1>3. db.cur \in Nat
  BY <1>1 DEF Inv, StoreType
<1>4. \A b \in DOMAIN db.header : Served(db', b) = Served(db, b)
  BY <1>1, <1>2, EffectKeepsServed DEF HeadersPast, ClientEffect
<1>5. CASE CurKey \in txn[h].writes
  <2>1. AddsBlock(db, txn[h])
    BY <1>1, <1>5, FreshAddsBlock
  <2>2. /\ db'.cur = db.cur + 1
        /\ DOMAIN db'.header = DOMAIN db.header \cup {db.cur}
        /\ Served(db', db.cur) = Added(txn[h])
    BY <1>1, <2>1 DEF AddsBlock
  <2> QED  BY <1>3, <1>4, <1>5, <2>2 DEF HeadersPast
<1>6. CASE CurKey \notin txn[h].writes
  <2>1. db'.cur = db.cur /\ db'.header = db.header
    BY <1>2, <1>6 DEF Commits, Rewrites
  <2> QED  BY <1>4, <2>1 DEF HeadersPast
<1> QED  BY <1>5, <1>6

\* The block a commit adds was claimed, unless it is set aside.
LEMMA CommitAccounted ==
    ASSUME NodeInv, UNCHANGED <<events, root, sent>>,
           NEW h \in Handlers, Commit(h), direct \subseteq direct',
           \A g \in Requests : g # h => call'[g] = call[g],
           \/ CurKey \notin txn[h].writes
           \/ db.cur \in direct'
           \/ Claims(txn, call, h),
           NEW B
    PROVE  Accounted(db', direct', events.deposit', txn', call', root', sent', B)
<1> DEFINE H == HeldSet(db, direct, B)
           H2 == HeldSet(db', direct', B)
           C == ClaimSet(txn, call, B)
           C2 == ClaimSet(txn', call', B)
           due == CountIn(events.deposit, DueDeposits(B))
           backing == CountIn(root, {B}) + CountIn(sent, {B})
<1>1. TxnInv /\ HeadersPast(db) /\ TxnInv'
  <2>1. TxnNext
    BY DEF TxnNext
  <2>2. TxnInv'
    BY <2>1, TxnStep DEF NodeInv
  <2> QED  BY <2>2 DEF NodeInv, NodeTypes
<1>2. /\ HeadersPast(db')
      /\ \A b \in DOMAIN db.header : Served(db', b) = Served(db, b)
      /\ DOMAIN db'.header \subseteq DOMAIN db.header \cup {db.cur}
      /\ \A b \in DOMAIN db'.header \ DOMAIN db.header :
           CurKey \in txn[h].writes /\ Served(db', b) = Added(txn[h])
  BY <1>1, CommitServes
<1>3. C2 \subseteq C \ {h}
  <2>1. \A g \in Handlers : txn'[g].state = "open" =>
          g # h /\ txn[g].state = "open" /\ txn'[g] = txn[g]
    BY <1>1, CommitStep
  <2> QED  BY <2>1 DEF ClaimSet, Claims
<1>4. /\ H2 \subseteq H \cup {db.cur}
      /\ H2 \subseteq H \/ h \in C
  BY <1>2, HandlersAssumption DEF HeldSet, ClaimSet
<1>5. /\ IsFiniteSet(H) /\ Cardinality(H) \in Nat
      /\ IsFiniteSet(H2) /\ Cardinality(H2) \in Nat
      /\ IsFiniteSet(C) /\ Cardinality(C) \in Nat
      /\ IsFiniteSet(C2) /\ Cardinality(C2) \in Nat
  BY <1>1, <1>2, HeldIsFinite, ClaimsAreFinite DEF TxnInv, Inv, StoreType
<1>6. due \in Nat /\ backing \in Nat
  BY CountIsNat DEF NodeInv, NodeTypes
<1>7. Cardinality(H) + due + Cardinality(C) <= backing
  BY DEF NodeInv, Balance, Accounted
<1>8. Cardinality(H2) + Cardinality(C2) <= Cardinality(H) + Cardinality(C)
  <2> HIDE DEF H, H2, C, C2
  <2>1. CASE H2 \subseteq H
    <3>1. Cardinality(H2) <= Cardinality(H) /\ Cardinality(C2) <= Cardinality(C)
      BY <1>3, <1>5, <2>1, FS_Subset
    <3> QED  BY <1>5, <3>1
  <2>2. CASE h \in C
    <3>1. /\ IsFiniteSet(H \cup {db.cur})
          /\ Cardinality(H \cup {db.cur}) <= Cardinality(H) + 1
          /\ Cardinality(H \cup {db.cur}) \in Nat
      <4>1. /\ IsFiniteSet(H \cup {db.cur})
            /\ Cardinality(H \cup {db.cur})
                 = IF db.cur \in H THEN Cardinality(H) ELSE Cardinality(H) + 1
        BY <1>5, FS_AddElement
      <4> QED  BY <1>5, <4>1
    <3>2. Cardinality(H2) <= Cardinality(H \cup {db.cur})
      BY <1>4, <3>1, FS_Subset
    <3>3. IsFiniteSet(C \ {h}) /\ Cardinality(C \ {h}) = Cardinality(C) - 1
      BY <1>5, <2>2, FS_RemoveElement
    <3>4. Cardinality(C2) <= Cardinality(C \ {h})
      BY <1>3, <3>3, FS_Subset
    <3> QED  BY <1>5, <3>1, <3>2, <3>3, <3>4
  <2> QED  BY <1>4, <2>1, <2>2
<1> HIDE DEF H, H2, C, C2, due, backing
<1>9. Cardinality(H2) + due + Cardinality(C2) <= backing
  BY <1>5, <1>6, <1>7, <1>8
<1> QED  BY <1>9 DEF Accounted, H2, C2, due, backing

\* A step that leaves the store alone and opens no transaction that could not
\* have begun now.
LEMMA TxnKeeps ==
    ASSUME TxnInv, UNCHANGED db, txn' = [h \in Handlers |-> txn'[h]],
           \A h \in Handlers : txn'[h].state = "open" =>
             txn'[h] = txn[h] \/ Fresh(db, txn'[h])
    PROVE  TxnInv' /\ [ClientEffect(db, db')]_db
<1>1. \A h \in Handlers : txn'[h].state = "open" => Fresh(db', txn'[h])
  BY DEF TxnInv, TxnsFresh
<1> QED  BY <1>1 DEF TxnInv, TxnsFresh

-----------------------------------------------------------------------------
(* Steps that leave the store and its transactions alone.                  *)

LEMMA SameStore ==
    ASSUME TxnInv, UNCHANGED <<db, txn>>
    PROVE  TxnInv'
  BY DEF TxnInv, TxnsFresh

\* No new claim, and nothing else that counts changes.
LEMMA QuietBalance ==
    ASSUME NodeInv, UNCHANGED <<db, direct, root>>,
           IsSeq(sent'), \A B : CountIn(sent, {B}) <= CountIn(sent', {B}),
           events'.deposit = events.deposit,
           \A h \in Handlers : Claims(txn', call', h) =>
             Claims(txn, call, h) /\ txn'[h] = txn[h]
    PROVE  Balance'
<1> SUFFICES ASSUME NEW B
             PROVE  Accounted(db', direct', events.deposit', txn', call', root', sent', B)
  BY DEF Balance
<1>1. ClaimSet(txn', call', B) \subseteq ClaimSet(txn, call, B) \cup {}
  BY DEF ClaimSet
<1>2. IsSeq(root') /\ IsSeq(events.deposit')
  BY DEF NodeInv, NodeTypes
<1>3. /\ CountIn(root, {B}) \in Nat /\ CountIn(sent, {B}) \in Nat
      /\ CountIn(sent', {B}) \in Nat
      /\ CountIn(events.deposit, DueDeposits(B)) \in Nat
  BY CountIsNat DEF NodeInv, NodeTypes
<1>4. /\ CountIn(events.deposit', DueDeposits(B)) = CountIn(events.deposit, DueDeposits(B))
      /\ CountIn(root', {B}) = CountIn(root, {B})
      /\ CountIn(sent, {B}) <= CountIn(sent', {B})
      /\ Cardinality({}) = 0
  BY FS_EmptySet
<1>5. CountIn(events.deposit', DueDeposits(B)) + Cardinality({})
          + CountIn(root, {B}) + CountIn(sent, {B})
        <= CountIn(events.deposit, DueDeposits(B))
             + CountIn(root', {B}) + CountIn(sent', {B})
  BY <1>3, <1>4
<1>6. IsFiniteSet({})
  BY FS_EmptySet
<1> QED  BY <1>1, <1>2, <1>5, <1>6, NoBlockAccounted

LEMMA RootDepositInv ==
    ASSUME NodeInv, NEW owner \in Accounts, NEW amount \in DepositAmounts,
           RootDeposit(owner, amount)
    PROVE  NodeInv' /\ UNCHANGED db
<1> DEFINE d == <<owner, amount>>
           leaves == DepositLeaves(d)
<1>1. /\ root' = Append(root, leaves)
      /\ UNCHANGED <<db, txn, sent, call, direct>>
      /\ events'.exit = events.exit
      /\ events' = [deposit |-> events'.deposit, exit |-> events'.exit]
      /\ \/ events'.deposit = Append(events.deposit, d)
         \/ events'.deposit = events.deposit
  BY DEF RootDeposit, handVars, DepositLeaves, NodeInv, NodeTypes
<1>2. d \in Accounts \X DepositAmounts
  OBVIOUS
<1> HIDE DEF d
<1>3. TxnInv' /\ CallsMatch'
  BY <1>1, SameStore DEF NodeInv, CallsMatch
<1>4. NodeTypes'
  <2>1. IsSeq(root')
    BY <1>1, CountAppend DEF NodeInv, NodeTypes
  <2>2. /\ IsSeq(events'.deposit)
        /\ \A i \in DOMAIN events'.deposit :
             events'.deposit[i] \in Accounts \X DepositAmounts
    <3> DEFINE q == events.deposit
               T == Accounts \X DepositAmounts
    <3>1. IsSeq(q) /\ \A i \in DOMAIN q : q[i] \in T
      BY DEF NodeInv, NodeTypes
    <3> HIDE DEF q, T
    <3>2. d \in T
      BY <1>2 DEF T
    <3>3. IsSeq(Append(q, d)) /\ \A i \in DOMAIN Append(q, d) : Append(q, d)[i] \in T
      BY <3>1, <3>2, CountAppend, AppendedIn
    <3> QED  BY <1>1, <3>1, <3>3 DEF q, T
  <2> QED  BY <1>1, <2>1, <2>2 DEF NodeInv, NodeTypes
<1>5. ASSUME NEW B
      PROVE  Accounted(db', direct', events.deposit', txn', call', root', sent', B)
  <2>1. One(d, DueDeposits(B)) = One(leaves, {B}) /\ One(leaves, {B}) \in Nat
    BY <1>2 DEF One, DueDeposits
  <2>2. CountIn(root', {B}) = CountIn(root, {B}) + One(leaves, {B})
    BY <1>1, CountAppend DEF NodeInv, NodeTypes
  <2>3. \/ CountIn(events'.deposit, DueDeposits(B))
             = CountIn(events.deposit, DueDeposits(B)) + One(leaves, {B})
        \/ CountIn(events'.deposit, DueDeposits(B))
             = CountIn(events.deposit, DueDeposits(B))
    <3>1. IsSeq(events.deposit)
      BY DEF NodeInv, NodeTypes
    <3>2. CountIn(Append(events.deposit, d), DueDeposits(B))
            = CountIn(events.deposit, DueDeposits(B)) + One(leaves, {B})
      BY <2>1, <3>1, CountAppend
    <3> QED  BY <1>1, <3>2
  <2>4. /\ CountIn(root, {B}) \in Nat /\ CountIn(sent, {B}) \in Nat
        /\ CountIn(events.deposit, DueDeposits(B)) \in Nat
    BY CountIsNat DEF NodeInv, NodeTypes
  <2>5. CountIn(sent', {B}) = CountIn(sent, {B})
    BY <1>1
  <2>6. CountIn(events.deposit', DueDeposits(B)) + Cardinality({})
            + CountIn(root, {B}) + CountIn(sent, {B})
          <= CountIn(events.deposit, DueDeposits(B))
               + CountIn(root', {B}) + CountIn(sent', {B})
    BY <2>1, <2>2, <2>3, <2>4, <2>5, FS_EmptySet
  <2>7. ClaimSet(txn', call', B) \subseteq ClaimSet(txn, call, B) \cup {}
    BY <1>1
  <2>8. IsSeq(root') /\ IsSeq(sent') /\ IsSeq(events.deposit') /\ IsFiniteSet({})
    BY <1>4, FS_EmptySet DEF NodeTypes
  <2>9. UNCHANGED <<db, direct>>
    BY <1>1
  <2> QED  BY <2>6, <2>7, <2>8, <2>9, NoBlockAccounted
<1> QED  BY <1>1, <1>3, <1>4, <1>5 DEF NodeInv, Balance

LEMMA RootStartExitInv ==
    ASSUME NodeInv, NEW pos \in ClientPositions, RootStartExit(pos)
    PROVE  NodeInv' /\ UNCHANGED db
<1>1. /\ UNCHANGED <<db, txn, root, sent, call, direct>>
      /\ events'.deposit = events.deposit
      /\ events' = [deposit |-> events'.deposit, exit |-> events'.exit]
      /\ events'.exit = Append(events.exit, pos) \/ events'.exit = events.exit
  BY DEF RootStartExit, handVars, NodeInv, NodeTypes
<1>2. TxnInv' /\ CallsMatch'
  BY <1>1, SameStore DEF NodeInv, CallsMatch
<1>3. NodeTypes'
  <2>1. /\ IsSeq(events'.exit)
        /\ \A i \in DOMAIN events'.exit : events'.exit[i] \in ClientPositions
    <3> DEFINE q == events.exit
    <3>1. IsSeq(q) /\ \A i \in DOMAIN q : q[i] \in ClientPositions
      BY DEF NodeInv, NodeTypes
    <3> HIDE DEF q
    <3>2. /\ IsSeq(Append(q, pos))
          /\ \A i \in DOMAIN Append(q, pos) : Append(q, pos)[i] \in ClientPositions
      BY <3>1, CountAppend, AppendedIn
    <3> QED  BY <1>1, <3>1, <3>2 DEF q
  <2> QED  BY <1>1, <2>1 DEF NodeInv, NodeTypes
<1>4. Balance'
  BY <1>1 DEF NodeInv, Balance
<1> QED  BY <1>1, <1>2, <1>3, <1>4 DEF NodeInv

LEMMA MineRootInv ==
    ASSUME NodeInv, MineRoot
    PROVE  NodeInv' /\ UNCHANGED db
<1>1. /\ sent # << >>
      /\ root' = Append(root, Head(sent))
      /\ sent' = Tail(sent)
      /\ UNCHANGED <<db, txn, events, call, direct>>
  BY DEF MineRoot, nodeVars, handVars
<1>2. Head(sent) = sent[1]
  BY <1>1, CountTail DEF NodeInv, NodeTypes
<1>3. IsSeq(root') /\ IsSeq(sent')
  BY <1>1, CountTail, CountAppend DEF NodeInv, NodeTypes
<1>4. TxnInv' /\ CallsMatch' /\ NodeTypes'
  BY <1>1, <1>3, SameStore DEF NodeInv, CallsMatch, NodeTypes
<1>5. ASSUME NEW B
      PROVE  Accounted(db', direct', events.deposit', txn', call', root', sent', B)
  <2>1. CountIn(root', {B}) = CountIn(root, {B}) + One(sent[1], {B})
    BY <1>1, <1>2, CountAppend DEF NodeInv, NodeTypes
  <2>2. CountIn(sent, {B}) = One(sent[1], {B}) + CountIn(sent', {B})
    BY <1>1, CountTail DEF NodeInv, NodeTypes
  <2>3. /\ CountIn(root, {B}) \in Nat /\ CountIn(sent', {B}) \in Nat
        /\ One(sent[1], {B}) \in Nat
    BY <1>3, CountIsNat DEF NodeInv, NodeTypes, One
  <2>4. CountIn(root', {B}) + CountIn(sent', {B}) = CountIn(root, {B}) + CountIn(sent, {B})
    BY <2>1, <2>2, <2>3
  <2>5. Accounted(db, direct, events.deposit, txn, call, root, sent, B)
    BY DEF NodeInv, Balance
  <2> QED  BY <1>1, <2>4, <2>5 DEF Accounted
<1> QED  BY <1>1, <1>4, <1>5 DEF NodeInv, Balance

LEMMA CommitByHandInv ==
    ASSUME NodeInv, NEW blkNum, CommitByHand(blkNum)
    PROVE  NodeInv' /\ UNCHANGED db
<1>1. /\ sent' = Append(sent, MerkleLeaves(GetBlock(db, blkNum)))
      /\ UNCHANGED <<db, txn, root, events, call, direct>>
  BY DEF CommitByHand, nodeVars
<1> DEFINE leaves == MerkleLeaves(GetBlock(db, blkNum))
<1> HIDE DEF leaves
<1>2. IsSeq(sent')
  BY <1>1, CountAppend DEF NodeInv, NodeTypes
<1>3. ASSUME NEW B
      PROVE  CountIn(sent, {B}) <= CountIn(sent', {B})
  <2>1. IsSeq(sent)
    BY DEF NodeInv, NodeTypes
  <2>2. CountIn(sent', {B}) = CountIn(sent, {B}) + One(leaves, {B})
    BY <1>1, <2>1, CountAppend DEF leaves
  <2>3. CountIn(sent, {B}) \in Nat /\ One(leaves, {B}) \in Nat
    BY <2>1, CountIsNat DEF One
  <2> QED  BY <2>2, <2>3
<1>4. TxnInv' /\ CallsMatch' /\ NodeTypes'
  BY <1>1, <1>2, SameStore DEF NodeInv, CallsMatch, NodeTypes
<1>5. Balance'
  BY <1>1, <1>2, <1>3, QuietBalance
<1> QED  BY <1>1, <1>4, <1>5 DEF NodeInv

-----------------------------------------------------------------------------
(* Steps of requests.                                                      *)

\* A request is no watcher.
LEMMA RequestIsHandler ==
    ASSUME NEW r \in Requests
    PROVE  r \in Handlers /\ r # DepositWatcher /\ r # ExitWatcher
  BY DEF Requests

\* A handler begins t.
LEMMA BegunStore ==
    ASSUME TxnInv, NEW h \in Handlers, NEW t, Begins(h, t)
    PROVE  /\ TxnInv'
           /\ UNCHANGED db
           /\ \A g \in Handlers : txn'[g] = IF g = h THEN t ELSE txn[g]
<1>1. UNCHANGED db /\ txn' = [txn EXCEPT ![h] = t] /\ Fresh(db, t)
  BY DEF Begins
<1>2. txn' = [g \in Handlers |-> txn'[g]]
  BY <1>1 DEF TxnInv, TxnsFresh
<1>3. \A g \in Handlers : txn'[g] = IF g = h THEN t ELSE txn[g]
  BY <1>1 DEF TxnInv, TxnsFresh
<1>4. TxnInv'
  BY <1>1, <1>2, <1>3, TxnKeeps
<1> QED  BY <1>1, <1>3, <1>4

\* A handler's transaction comes to an end without a commit.
LEMMA DroppedStore ==
    ASSUME TxnInv, UNCHANGED db, NEW h \in Handlers, txn' = [txn EXCEPT ![h] = Idle]
    PROVE  /\ TxnInv'
           /\ \A g \in Handlers : txn'[g] = IF g = h THEN Idle ELSE txn[g]
<1>1. txn' = [g \in Handlers |-> txn'[g]]
  BY DEF TxnInv, TxnsFresh
<1>2. \A g \in Handlers : txn'[g] = IF g = h THEN Idle ELSE txn[g]
  BY DEF TxnInv, TxnsFresh
<1>3. TxnInv'
  BY <1>1, <1>2, TxnKeeps DEF Idle
<1> QED  BY <1>2, <1>3

\* A request whose transaction becomes x and whose call becomes c.
LEMMA RequestInv ==
    ASSUME NodeInv, TxnInv', NEW r \in Requests,
           NEW x, \A g \in Handlers : txn'[g] = IF g = r THEN x ELSE txn[g],
           NEW c, call' = [call EXCEPT ![r] = c], c.step # "sent",
           CallMatches(txn', call', r),
           UNCHANGED sent \/ \E e : sent' = Append(sent, e),
           UNCHANGED <<db, root, events, direct>>
    PROVE  NodeInv' /\ UNCHANGED db
<1>1. /\ call' = [g \in Requests |-> call'[g]]
      /\ call'[r] = c
      /\ \A g \in Requests : g # r => call'[g] = call[g]
  BY DEF NodeInv, NodeTypes
<1>2. r \in Handlers /\ r # DepositWatcher /\ r # ExitWatcher /\ ExitWatcher \in Handlers
  BY RequestIsHandler, NodeAssumption
<1>0. IsSeq(sent') /\ \A B : CountIn(sent, {B}) <= CountIn(sent', {B})
  <2>1. IsSeq(sent)
    BY DEF NodeInv, NodeTypes
  <2>2. ASSUME NEW e, sent' = Append(sent, e), NEW B
        PROVE  IsSeq(sent') /\ CountIn(sent, {B}) <= CountIn(sent', {B})
    <3>1. IsSeq(sent') /\ CountIn(sent', {B}) = CountIn(sent, {B}) + One(e, {B})
      BY <2>1, <2>2, CountAppend
    <3>2. CountIn(sent, {B}) \in Nat /\ One(e, {B}) \in Nat
      BY <2>1, CountIsNat DEF One
    <3> QED  BY <3>1, <3>2
  <2>3. ASSUME NEW B
        PROVE  CountIn(sent, {B}) <= CountIn(sent, {B})
    BY <2>1, CountIsNat
  <2> QED  BY <2>1, <2>2, <2>3
<1>3. NodeTypes'
  BY <1>0, <1>1 DEF NodeInv, NodeTypes
<1>4. CallsMatch'
  <2>1. ASSUME NEW g \in Requests
        PROVE  CallMatches(txn', call', g)
    BY <1>1, RequestIsHandler DEF NodeInv, CallsMatch, CallMatches
  <2> QED  BY <1>2, <2>1 DEF NodeInv, CallsMatch
<1>5. Balance'
  <2>1. ASSUME NEW h \in Handlers, Claims(txn', call', h)
        PROVE  Claims(txn, call, h) /\ txn'[h] = txn[h]
    <3>1. h # r
      BY <1>1, <1>2, <2>1 DEF Claims
    <3> QED  BY <1>1, <2>1, <3>1 DEF Claims
  <2>2. UNCHANGED <<db, direct, root>> /\ events'.deposit = events.deposit
    OBVIOUS
  <2> QED  BY <1>0, <2>1, <2>2, QuietBalance
<1> QED  BY <1>3, <1>4, <1>5 DEF NodeInv

LEMMA ReadRootNumberInv ==
    ASSUME NodeInv, NEW r \in Requests, ReadRootNumber(r)
    PROVE  NodeInv' /\ UNCHANGED db
<1> DEFINE c == [step |-> "checked", number |-> currentPlasmaBlockNumber]
<1>1. /\ txn[r] = Idle
      /\ call' = [call EXCEPT ![r] = c]
      /\ UNCHANGED <<db, txn, root, sent, events, direct>>
  BY DEF ReadRootNumber, chainVars, handVars
<1>2. c.step = "checked"
  OBVIOUS
<1> HIDE DEF c
<1>3. CallMatches(txn', call', r)
  BY <1>1, <1>2 DEF CallMatches, NodeInv, NodeTypes, Idle
<1>4. TxnInv' /\ \A g \in Handlers : txn'[g] = IF g = r THEN txn[r] ELSE txn[g]
  BY <1>1, SameStore DEF NodeInv
<1> QED  BY <1>1, <1>2, <1>3, <1>4, RequestInv

LEMMA RefuseBlockInv ==
    ASSUME NodeInv, NEW r \in Requests, RefuseBlock(r)
    PROVE  NodeInv' /\ UNCHANGED db
<1>1. /\ call[r].step = "checked"
      /\ call' = [call EXCEPT ![r] = NoCall]
      /\ UNCHANGED <<db, txn, root, sent, events, direct>>
  BY DEF RefuseBlock, chainVars, handVars
<1>2. txn[r] = Idle
  BY <1>1 DEF NodeInv, CallsMatch, CallMatches
<1>3. CallMatches(txn', call', r)
  BY <1>1, <1>2 DEF CallMatches, Idle, NodeInv, NodeTypes, NoCall
<1>4. TxnInv' /\ \A g \in Handlers : txn'[g] = IF g = r THEN txn[r] ELSE txn[g]
  BY <1>1, SameStore DEF NodeInv
<1>5. NoCall.step # "sent"
  BY DEF NoCall
<1> QED  BY <1>1, <1>3, <1>4, <1>5, RequestInv

\* Reading the number back finds the block that the transaction adds.
LEMMA BuildBlockInv ==
    ASSUME NodeInv, NEW r \in Requests, BuildBlock(r)
    PROVE  NodeInv' /\ UNCHANGED db
<1>1. PICK order \in IterationOrders(db) :
        /\ BeginBlock(r, order)
        /\ call' = [call EXCEPT ![r] =
             [step |-> "built", leaves |-> Served(AddBlock(db, order).db, db.cur)]]
  BY DEF BuildBlock, Served
<1>2. UNCHANGED <<root, sent, events, direct>>
  BY DEF BuildBlock, chainVars, handVars
<1> DEFINE new == AddBlock(db, order).db
           batch == DOMAIN db.mempool
           keys == AddedKeys(db, new) \cup ({"mempool"} \X batch)
           t == Open(BlockReads(db), keys, new)
           c == [step |-> "built", leaves |-> Served(new, db.cur)]
<1>3. Inv(db) /\ FcnStore(db) /\ db.cur \in Nat /\ r \in Handlers
  BY RequestIsHandler DEF NodeInv, TxnInv, Inv, StoreType
<1>4. AddBlock(db, order).err = OK /\ db.cur <= MaxBlkNum
  BY <1>1 DEF BeginBlock, Begin
<1>5. /\ \E gone \in SUBSET batch : new = Sealed(db, batch, gone, order)
      /\ batch # {}
      /\ Cardinality(batch) <= MaxBlockTxesNum
  BY <1>3, <1>4, AddBlockSeals
<1>0. PICK gone \in SUBSET batch : new = Sealed(db, batch, gone, order)
  BY <1>5
<1>6. new.cur = db.cur + 1
  <2>1. IsFcn(Without(db.mempool, gone))
    BY DEF IsFcn, Without
  <2> QED  BY <1>3, <1>0, <2>1, SealedExtends, ExtendedFields
<1>7. DOMAIN new.tx \subseteq Nat \X Nat
  <2>1. order \in Bijection(0 .. Cardinality(batch) - 1, batch)
    BY DEF IterationOrders
  <2>2. batch \in SUBSET DOMAIN db.mempool
    OBVIOUS
  <2>3. Inv(Sealed(db, batch, gone, order))
    BY <1>3, <1>5, <2>1, <2>2, SealedPreservesInv
  <2> QED  BY <1>0, <2>3 DEF Inv, StoreType
<1>8. t = Open(t.reads, keys, new)
  BY OpenReads
<1>9. PICK u : Begins(r, u)
  BY <1>1, <1>3, BeginsBlock
<1>10. TxnInv' /\ UNCHANGED db /\ \A g \in Handlers : txn'[g] = IF g = r THEN u ELSE txn[g]
  BY <1>3, <1>9, BegunStore DEF NodeInv
<1>11. txn'[r] = t
  BY <1>1, <1>3 DEF BeginBlock, Begin, NodeInv, TxnInv, TxnsFresh
<1>12. c.step = "built" /\ c.leaves = Served(new, db.cur)
  OBVIOUS
<1>13. call' = [call EXCEPT ![r] = c]
  BY <1>1
<1>14. t.state = "open"
  BY DEF Open
<1> HIDE DEF t, new, c
<1>15. Added(t) = Served(new, db.cur)
  BY <1>3, <1>6, <1>7, <1>8, OpenedServes
<1> HIDE DEF keys, batch
<1>16. CallMatches(txn', call', r)
  <2>1. call'[r] = c
    BY <1>13 DEF NodeInv, NodeTypes
  <2> QED  BY <1>11, <1>12, <1>15, <2>1 DEF CallMatches
<1> QED  BY <1>2, <1>10, <1>12, <1>13, <1>16, RequestInv

LEMMA SendRootFailsInv ==
    ASSUME NodeInv, NEW r \in Requests, SendRootFails(r)
    PROVE  NodeInv' /\ UNCHANGED db
<1>1. /\ UNCHANGED sent \/ \E e : sent' = Append(sent, e)
      /\ call' = [call EXCEPT ![r] = NoCall]
      /\ txn' = [txn EXCEPT ![r] = Idle]
      /\ UNCHANGED <<db, root, events, direct>>
  BY DEF SendRootFails, handVars
<1>2. TxnInv' /\ \A g \in Handlers : txn'[g] = IF g = r THEN Idle ELSE txn[g]
  BY <1>1, RequestIsHandler, DroppedStore DEF NodeInv
<1>3. CallMatches(txn', call', r)
  BY <1>1, <1>2, RequestIsHandler DEF CallMatches, Idle, NoCall, NodeInv, NodeTypes
<1>4. NoCall.step # "sent"
  BY DEF NoCall
<1> QED  BY <1>1, <1>2, <1>3, <1>4, RequestInv

LEMMA PostDepositInv ==
    ASSUME NodeInv, NEW r \in Requests, NEW owner \in Accounts,
           NEW amount \in DepositAmounts, PostDeposit(r, owner, amount)
    PROVE  NodeInv' /\ UNCHANGED db
<1> DEFINE c == [step |-> "deposit"]
<1>1. /\ BeginDeposit(r, owner, amount)
      /\ call' = [call EXCEPT ![r] = c]
      /\ UNCHANGED <<root, sent, events, direct>>
  BY DEF PostDeposit, chainVars
<1>2. r \in Handlers /\ owner \in Address /\ TxnInv /\ FcnStore(db)
  BY RequestIsHandler DEF Address, NodeInv, TxnInv
<1>3. PICK t : Begins(r, t)
  BY <1>1, <1>2, BeginsDeposit
<1>4. TxnInv' /\ UNCHANGED db /\ \A g \in Handlers : txn'[g] = IF g = r THEN t ELSE txn[g]
  BY <1>2, <1>3, BegunStore
<1>5. c.step = "deposit"
  OBVIOUS
<1> HIDE DEF c
<1>6. CallMatches(txn', call', r)
  BY <1>1, <1>5 DEF CallMatches, NodeInv, NodeTypes
<1> QED  BY <1>1, <1>4, <1>5, <1>6, RequestInv

LEMMA PostTxInv ==
    ASSUME NodeInv, NEW r \in Requests, NEW tx \in ClientTxes, PostTx(r, tx)
    PROVE  NodeInv' /\ UNCHANGED db
<1>1. /\ call[r] = NoCall
      /\ BeginPost(r, tx)
      /\ UNCHANGED <<root, sent, events, call, direct>>
  BY DEF PostTx, chainVars, nodeVars, handVars
<1>2. r \in Handlers /\ TxnInv
  BY RequestIsHandler DEF NodeInv
<1>3. PICK t : Begins(r, t)
  BY <1>1, BeginsPost
<1>4. TxnInv' /\ UNCHANGED db /\ \A g \in Handlers : txn'[g] = IF g = r THEN t ELSE txn[g]
  BY <1>2, <1>3, BegunStore
<1>5. CurKey \notin txn'[r].writes
  <2> DEFINE keys == InputKeys(tx) \cup {<<"mempool", TxHash(tx)>>}
             new == AddTxToMempool(db, tx).db
  <2>1. txn'[r] = Open(PostReads(tx), keys, new)
    BY <1>1, <1>2 DEF BeginPost, Begin, TxnInv, TxnsFresh
  <2>2. CurKey \notin keys
    BY PostNames
  <2> QED  BY <2>1, <2>2 DEF Open
<1>6. call' = [call EXCEPT ![r] = NoCall]
  BY <1>1 DEF NodeInv, NodeTypes
<1>7. NoCall.step = "none"
  BY DEF NoCall
<1>8. CallMatches(txn', call', r)
  BY <1>1, <1>5, <1>7 DEF CallMatches
<1> QED  BY <1>1, <1>4, <1>6, <1>7, <1>8, RequestInv

\* Sending the root of its block is what gives a request its claim.
LEMMA SendRootInv ==
    ASSUME NodeInv, NEW r \in Requests, SendRoot(r)
    PROVE  NodeInv' /\ UNCHANGED db
<1> DEFINE leaves == call[r].leaves
           c == [step |-> "sent"]
<1>1. /\ call[r].step = "built"
      /\ sent' = Append(sent, leaves)
      /\ call' = [call EXCEPT ![r] = c]
      /\ UNCHANGED <<db, txn, root, events, direct>>
  BY DEF SendRoot, handVars
<1>2. txn[r].state = "open" => Added(txn[r]) = leaves
  BY <1>1 DEF NodeInv, CallsMatch, CallMatches
<1>3. c.step = "sent"
  OBVIOUS
<1> HIDE DEF leaves, c
<1>4. /\ call' = [g \in Requests |-> call'[g]]
      /\ call'[r] = c
      /\ \A g \in Requests : g # r => call'[g] = call[g]
  BY <1>1 DEF NodeInv, NodeTypes
<1>5. IsSeq(sent')
  BY <1>1, CountAppend DEF NodeInv, NodeTypes
<1>6. TxnInv' /\ NodeTypes'
  BY <1>1, <1>4, <1>5, SameStore DEF NodeInv, NodeTypes
<1>7. CallsMatch'
  <2>1. ASSUME NEW g \in Requests
        PROVE  CallMatches(txn', call', g)
    BY <1>1, <1>3, <1>4 DEF NodeInv, CallsMatch, CallMatches
  <2> QED  BY <1>1, <2>1 DEF NodeInv, CallsMatch
<1>8. ASSUME NEW B
      PROVE  Accounted(db', direct', events.deposit', txn', call', root', sent', B)
  <2> DEFINE X == IF leaves = B THEN {r} ELSE {}
  <2>1. IsFiniteSet(X) /\ Cardinality(X) = One(leaves, {B})
    BY FS_Singleton, FS_EmptySet DEF One
  <2>2. ClaimSet(txn', call', B) \subseteq ClaimSet(txn, call, B) \cup X
    <3>1. ASSUME NEW h \in ClaimSet(txn', call', B), h # r
          PROVE  h \in ClaimSet(txn, call, B)
      BY <1>1, <1>4, <3>1 DEF ClaimSet, Claims
    <3>2. r \in ClaimSet(txn', call', B) => r \in X
      BY <1>1, <1>2 DEF ClaimSet, Claims
    <3> QED  BY <3>1, <3>2
  <2> HIDE DEF X
  <2>3. CountIn(sent', {B}) = CountIn(sent, {B}) + One(leaves, {B})
    BY <1>1, CountAppend DEF NodeInv, NodeTypes
  <2>4. /\ CountIn(root, {B}) \in Nat /\ CountIn(sent, {B}) \in Nat
        /\ CountIn(events.deposit, DueDeposits(B)) \in Nat
        /\ One(leaves, {B}) \in Nat
    BY CountIsNat DEF NodeInv, NodeTypes, One
  <2>5. /\ CountIn(root', {B}) = CountIn(root, {B})
        /\ CountIn(events.deposit', DueDeposits(B)) = CountIn(events.deposit, DueDeposits(B))
    BY <1>1
  <2>6. CountIn(events.deposit', DueDeposits(B)) + Cardinality(X)
            + CountIn(root, {B}) + CountIn(sent, {B})
          <= CountIn(events.deposit, DueDeposits(B))
               + CountIn(root', {B}) + CountIn(sent', {B})
    BY <2>1, <2>3, <2>4, <2>5
  <2>7. IsSeq(root') /\ IsSeq(sent') /\ IsSeq(events.deposit')
    BY <1>6 DEF NodeTypes
  <2>8. UNCHANGED <<db, direct>>
    BY <1>1
  <2> QED  BY <2>1, <2>2, <2>6, <2>7, <2>8, NoBlockAccounted
<1> QED  BY <1>1, <1>6, <1>7, <1>8 DEF NodeInv, Balance

\* A handler that comes to its end, by a commit or by a conflict.
LEMMA EndedCalls ==
    ASSUME NodeInv, NEW h \in Handlers, Commit(h) \/ Conflict(h)
    PROVE  /\ txn'[h] = Idle
           /\ \A g \in Handlers : g # h =>
                /\ txn'[g].state = "open" => txn'[g] = txn[g]
                /\ txn[g] = Idle => txn'[g] = Idle
<1>1. txn = [g \in Handlers |-> txn[g]]
  BY DEF NodeInv, TxnInv, TxnsFresh
<1>2. CASE Commit(h)
  BY <1>1, <1>2 DEF Commit, Idle, Stale
<1>3. CASE Conflict(h)
  BY <1>1, <1>3 DEF Conflict
<1> QED  BY <1>2, <1>3

LEMMA FinishRequestInv ==
    ASSUME NodeInv, NEW r \in Requests, FinishRequest(r)
    PROVE  NodeInv' /\ [ClientEffect(db, db')]_db
<1>1. /\ call[r].step \in {"none", "deposit", "sent"}
      /\ call' = [call EXCEPT ![r] = NoCall]
      /\ UNCHANGED <<root, sent, events>>
  BY DEF FinishRequest, CommitsNow, chainVars
<1>2. \/ Commit(r) /\ direct' = IF call[r].step = "deposit"
                                THEN direct \cup {db.cur}
                                ELSE direct
      \/ Conflict(r) /\ UNCHANGED direct
  BY DEF FinishRequest
<1>3. r \in Handlers /\ r # DepositWatcher /\ r # ExitWatcher /\ ExitWatcher \in Handlers
  BY RequestIsHandler, NodeAssumption
<1>4. /\ call' = [g \in Requests |-> call'[g]]
      /\ call'[r] = NoCall
      /\ \A g \in Requests : g # r => call'[g] = call[g]
  BY <1>1 DEF NodeInv, NodeTypes
<1>5. /\ txn'[r] = Idle
      /\ \A g \in Handlers : g # r =>
           /\ txn'[g].state = "open" => txn'[g] = txn[g]
           /\ txn[g] = Idle => txn'[g] = Idle
  BY <1>2, <1>3, EndedCalls
<1>6. CallsMatch'
  <2>1. CallMatches(txn', call', r)
    BY <1>4, <1>5 DEF CallMatches, NoCall, Idle
  <2>2. ASSUME NEW g \in Requests, g # r
        PROVE  CallMatches(txn', call', g)
    BY <1>4, <1>5, <2>2, RequestIsHandler DEF NodeInv, CallsMatch, CallMatches
  <2> QED  BY <1>3, <1>5, <2>1, <2>2 DEF NodeInv, CallsMatch
<1>7. CASE Commit(r) /\ direct' = IF call[r].step = "deposit"
                                  THEN direct \cup {db.cur}
                                  ELSE direct
  <2>1. TxnInv' /\ [ClientEffect(db, db')]_db
    <3>1. TxnNext
      BY <1>3, <1>7 DEF TxnNext
    <3> QED  BY <3>1, TxnStep DEF NodeInv
  <2>2. HeadersPast(db')
    BY <1>3, <1>7, CommitServes DEF NodeInv, NodeTypes
  <2>3. NodeTypes'
    BY <1>1, <1>4, <2>2 DEF NodeInv, NodeTypes
  <2>4. txn[r].state = "open"
    BY <1>7 DEF Commit
  <2>5. \/ CurKey \notin txn[r].writes
        \/ db.cur \in direct'
        \/ Claims(txn, call, r)
    BY <1>1, <1>7, <2>4 DEF NodeInv, CallsMatch, CallMatches, Claims
  <2>6. direct \subseteq direct'
    BY <1>7
  <2>7. ASSUME NEW B
        PROVE  Accounted(db', direct', events.deposit', txn', call', root', sent', B)
    <3>1. UNCHANGED <<events, root, sent>>
      BY <1>1
    <3>2. Commit(r) /\ r \in Handlers
      BY <1>3, <1>7
    <3> QED  BY <1>4, <2>5, <2>6, <3>1, <3>2, CommitAccounted
  <2> QED  BY <1>6, <2>1, <2>3, <2>7 DEF NodeInv, Balance
<1>8. CASE Conflict(r) /\ UNCHANGED direct
  <2>1. txn' = [txn EXCEPT ![r] = Idle] /\ UNCHANGED db
    BY <1>8 DEF Conflict
  <2>2. TxnInv' /\ \A g \in Handlers : txn'[g] = IF g = r THEN Idle ELSE txn[g]
    BY <1>3, <2>1, DroppedStore DEF NodeInv
  <2>3. CallMatches(txn', call', r) /\ NoCall.step # "sent"
    BY <1>6 DEF CallsMatch, NoCall
  <2>4. UNCHANGED <<db, root, events, direct>> /\ UNCHANGED sent
    BY <1>1, <1>8, <2>1
  <2> QED  BY <1>1, <2>2, <2>3, <2>4, RequestInv
<1> QED  BY <1>2, <1>7, <1>8

-----------------------------------------------------------------------------
(* Steps of the watchers.                                                  *)

\* Taking a deposit's event is what gives the watcher its claim: the block it
\* is to add is the deposit's.
LEMMA HandleDepositInv ==
    ASSUME NodeInv, HandleDeposit
    PROVE  NodeInv' /\ UNCHANGED db
<1> DEFINE q == events.deposit
           d == q[1]
           new == AddDepositBlock(db, d[1], d[2]).db
           t == Open(DepositReads(db), AddedKeys(db, new), new)
<1>1. /\ q # << >>
      /\ BeginDeposit(DepositWatcher, d[1], d[2])
      /\ events' = [events EXCEPT !.deposit = Tail(q)]
      /\ UNCHANGED <<root, sent, call, direct>>
  BY DEF HandleDeposit, Take, chainVars, handVars
<1>2. IsSeq(q) /\ \A i \in DOMAIN q : q[i] \in Accounts \X DepositAmounts
  BY DEF NodeInv, NodeTypes
<1>3. /\ Inv(db) /\ FcnStore(db) /\ TxnInv /\ db.cur \in Nat
      /\ DepositWatcher \in Handlers /\ ExitWatcher \in Handlers
      /\ DepositWatcher # ExitWatcher
  BY NodeAssumption DEF NodeInv, TxnInv, Inv, StoreType
<1>4. txn' = [txn EXCEPT ![DepositWatcher] = t]
  BY <1>1 DEF BeginDeposit, Begin
<1>5. events' = [deposit |-> Tail(q), exit |-> events.exit]
  BY <1>1 DEF NodeInv, NodeTypes
<1>6. t = Open(t.reads, AddedKeys(db, new), new)
  BY OpenReads
<1> HIDE DEF t, new, q
<1>7. /\ 1 \in DOMAIN q
      /\ IsSeq(Tail(q))
      /\ \A i \in DOMAIN Tail(q) : Tail(q)[i] \in Accounts \X DepositAmounts
  BY <1>1, <1>2, CountTail, TailIn
<1>8. d \in Accounts \X DepositAmounts
  BY <1>2, <1>7
<1> HIDE DEF d
<1>9. d[1] \in Address /\ d[2] \in DepositAmounts /\ d[2] \in Nat /\ d = <<d[1], d[2]>>
  <2>1. d[1] \in Accounts /\ d[2] \in DepositAmounts /\ d = <<d[1], d[2]>>
    BY <1>8
  <2> QED  BY <2>1, ChildChainAssumption DEF Address
<1>10. PICK u : Begins(DepositWatcher, u)
  BY <1>1, <1>3, <1>9, BeginsDeposit
<1>11. /\ TxnInv' /\ UNCHANGED db
       /\ \A g \in Handlers : txn'[g] = IF g = DepositWatcher THEN u ELSE txn[g]
  BY <1>3, <1>10, BegunStore
<1>12. txn'[DepositWatcher] = t
  BY <1>3, <1>4 DEF TxnInv, TxnsFresh
<1>13. Added(t) = DepositLeaves(d)
  <2>1. new.cur = db.cur + 1
    BY <1>3, DepositExtends, ExtendedFields DEF FcnStore, new
  <2>2. DOMAIN new.tx \subseteq Nat \X Nat
    BY <1>3, <1>9, DepositPreservesInv DEF Inv, StoreType, new
  <2>3. AddedKeys(db, new) = AddedKeys(db, new) \cup ({"mempool"} \X {})
    OBVIOUS
  <2>4. Added(t) = Served(new, db.cur)
    BY <1>3, <1>6, <2>1, <2>2, <2>3, OpenedServes
  <2>5. Served(new, db.cur) = DepositLeaves(<<d[1], d[2]>>)
    BY <1>3, DepositServed DEF new
  <2> QED  BY <1>9, <2>4, <2>5
<1>14. NodeTypes'
  BY <1>1, <1>5, <1>7, <1>11 DEF NodeInv, NodeTypes
<1>15. CallsMatch'
  <2>1. ASSUME NEW g \in Requests
        PROVE  CallMatches(txn', call', g)
    BY <1>1, <1>11, RequestIsHandler DEF NodeInv, CallsMatch, CallMatches
  <2> QED  BY <1>3, <1>11, <2>1 DEF NodeInv, CallsMatch
<1>16. ASSUME NEW B
       PROVE  Accounted(db', direct', events.deposit', txn', call', root', sent', B)
  <2> DEFINE X == IF DepositLeaves(d) = B THEN {DepositWatcher} ELSE {}
  <2>1. IsFiniteSet(X) /\ Cardinality(X) = One(d, DueDeposits(B))
    BY <1>8, FS_Singleton, FS_EmptySet DEF One, DueDeposits
  <2>2. ClaimSet(txn', call', B) \subseteq ClaimSet(txn, call, B) \cup X
    <3>1. ASSUME NEW h \in ClaimSet(txn', call', B), h # DepositWatcher
          PROVE  h \in ClaimSet(txn, call, B)
      BY <1>1, <1>11, <3>1 DEF ClaimSet, Claims
    <3>2. DepositWatcher \in ClaimSet(txn', call', B) => DepositWatcher \in X
      BY <1>12, <1>13 DEF ClaimSet
    <3> QED  BY <3>1, <3>2
  <2> HIDE DEF X
  <2>3. CountIn(q, DueDeposits(B)) = One(d, DueDeposits(B)) + CountIn(Tail(q), DueDeposits(B))
    BY <1>1, <1>2, CountTail DEF d
  <2>4. /\ CountIn(root, {B}) \in Nat /\ CountIn(sent, {B}) \in Nat
        /\ CountIn(Tail(q), DueDeposits(B)) \in Nat
        /\ One(d, DueDeposits(B)) \in Nat
    BY <1>7, CountIsNat DEF NodeInv, NodeTypes, One
  <2>5. /\ CountIn(root', {B}) = CountIn(root, {B})
        /\ CountIn(sent', {B}) = CountIn(sent, {B})
        /\ CountIn(events.deposit', DueDeposits(B)) = CountIn(Tail(q), DueDeposits(B))
    BY <1>1, <1>5
  <2>6. CountIn(events.deposit', DueDeposits(B)) + Cardinality(X)
            + CountIn(root, {B}) + CountIn(sent, {B})
          <= CountIn(events.deposit, DueDeposits(B))
               + CountIn(root', {B}) + CountIn(sent', {B})
    BY <2>1, <2>3, <2>4, <2>5 DEF q
  <2>7. IsSeq(root') /\ IsSeq(sent') /\ IsSeq(events.deposit')
    BY <1>14 DEF NodeTypes
  <2>8. UNCHANGED <<db, direct>>
    BY <1>1, <1>11
  <2> QED  BY <2>1, <2>2, <2>6, <2>7, <2>8, NoBlockAccounted
<1> QED  BY <1>11, <1>14, <1>15, <1>16 DEF NodeInv, Balance

\* A step that changes the exit watcher's transaction and its events alone.
LEMMA ExitWatcherInv ==
    ASSUME NodeInv, TxnInv', UNCHANGED <<db, root, sent, call, direct>>,
           events' = [events EXCEPT !.exit = Tail(@)], events.exit # << >>,
           \A g \in Handlers : g # ExitWatcher => txn'[g] = txn[g],
           txn'[ExitWatcher].state = "open" => CurKey \notin txn'[ExitWatcher].writes
    PROVE  NodeInv' /\ UNCHANGED db
<1> DEFINE q == events.exit
<1>1. IsSeq(q) /\ q # << >> /\ \A i \in DOMAIN q : q[i] \in ClientPositions
  BY DEF NodeInv, NodeTypes
<1>2. events' = [deposit |-> events.deposit, exit |-> Tail(q)]
  BY DEF NodeInv, NodeTypes
<1> HIDE DEF q
<1>3. IsSeq(Tail(q)) /\ \A i \in DOMAIN Tail(q) : Tail(q)[i] \in ClientPositions
  <2>1. IsSeq(Tail(q))
    BY <1>1, CountTail
  <2>2. \A i \in DOMAIN Tail(q) : Tail(q)[i] \in ClientPositions
    BY <1>1, TailIn
  <2> QED  BY <2>1, <2>2
<1>4. NodeTypes'
  <2>1. events'.deposit = events.deposit /\ events'.exit = Tail(q)
    BY <1>2
  <2>2. events' = [deposit |-> events'.deposit, exit |-> events'.exit]
    BY <1>2, <2>1
  <2> QED  BY <1>3, <2>1, <2>2 DEF NodeInv, NodeTypes
<1>5. CallsMatch'
  <2>1. ASSUME NEW g \in Requests
        PROVE  CallMatches(txn', call', g)
    BY RequestIsHandler DEF NodeInv, CallsMatch, CallMatches
  <2> QED  BY <2>1 DEF CallsMatch
<1>6. Balance'
  <2>1. \A h \in Handlers : Claims(txn', call', h) =>
          Claims(txn, call, h) /\ txn'[h] = txn[h]
    BY RequestIsHandler, NodeAssumption DEF Claims
  <2>2. IsSeq(sent') /\ events'.deposit = events.deposit
    BY <1>2 DEF NodeInv, NodeTypes
  <2>3. ASSUME NEW B
        PROVE  CountIn(sent, {B}) <= CountIn(sent', {B})
    BY CountIsNat DEF NodeInv, NodeTypes
  <2> QED  BY <2>1, <2>2, <2>3, QuietBalance
<1> QED  BY <1>4, <1>5, <1>6 DEF NodeInv

LEMMA HandleExitInv ==
    ASSUME NodeInv, HandleExit
    PROVE  NodeInv' /\ UNCHANGED db
<1> DEFINE q == events.exit
           pos == q[1]
<1>1. /\ q # << >>
      /\ BeginExit(ExitWatcher, pos)
      /\ events' = [events EXCEPT !.exit = Tail(@)]
      /\ UNCHANGED <<root, sent, call, direct>>
  BY DEF HandleExit, Take, chainVars, handVars
<1>2. IsSeq(q) /\ \A i \in DOMAIN q : q[i] \in ClientPositions
  BY DEF NodeInv, NodeTypes
<1> HIDE DEF q
<1>3. pos \in ClientPositions
  BY <1>1, <1>2, CountTail
<1>4. TxnInv /\ FcnStore(db) /\ ExitWatcher \in Handlers
  BY NodeAssumption DEF NodeInv, TxnInv
<1>5. PICK u : Begins(ExitWatcher, u)
  BY <1>1, <1>3, <1>4, BeginsExit
<1>6. TxnInv' /\ UNCHANGED db /\ \A g \in Handlers : txn'[g] = IF g = ExitWatcher THEN u ELSE txn[g]
  BY <1>4, <1>5, BegunStore
<1>7. CurKey \notin txn'[ExitWatcher].writes
  <2> DEFINE k == TxKey(ParseTxInPosition(pos))
             new == ExitTxOut(db, pos).db
  <2>1. txn'[ExitWatcher] = Open(ExitReads(k), TxKeys({k}), new)
    BY <1>1, <1>4 DEF BeginExit, Begin, TxnInv, TxnsFresh
  <2>2. CurKey \notin TxKeys({k})
    BY RecordNames
  <2> QED  BY <2>1, <2>2 DEF Open
<1> QED  BY <1>1, <1>6, <1>7, ExitWatcherInv DEF q

LEMMA RefuseExitInv ==
    ASSUME NodeInv, RefuseExit
    PROVE  NodeInv' /\ UNCHANGED db
<1>1. /\ events.exit # << >>
      /\ txn[ExitWatcher] = Idle
      /\ events' = [events EXCEPT !.exit = Tail(@)]
      /\ UNCHANGED <<db, txn, root, sent, call, direct>>
  BY DEF RefuseExit, Take, chainVars, handVars
<1>2. TxnInv'
  BY <1>1, SameStore DEF NodeInv
<1> QED  BY <1>1, <1>2, ExitWatcherInv DEF Idle

LEMMA FinishEventInv ==
    ASSUME NodeInv, NEW w \in {DepositWatcher, ExitWatcher}, FinishEvent(w)
    PROVE  NodeInv' /\ [ClientEffect(db, db')]_db
<1>1. UNCHANGED <<root, sent, events, call, direct>> /\ (Commit(w) \/ Conflict(w))
  BY DEF FinishEvent, chainVars, nodeVars, handVars
<1>2. w \in Handlers /\ ExitWatcher \in Handlers /\ w \notin Requests
  BY NodeAssumption DEF Requests
<1>3. /\ txn'[w] = Idle
      /\ \A g \in Handlers : g # w =>
           /\ txn'[g].state = "open" => txn'[g] = txn[g]
           /\ txn[g] = Idle => txn'[g] = Idle
  BY <1>1, <1>2, EndedCalls
<1>4. CallsMatch'
  <2>1. ASSUME NEW g \in Requests
        PROVE  CallMatches(txn', call', g)
    BY <1>1, <1>2, <1>3, RequestIsHandler DEF NodeInv, CallsMatch, CallMatches
  <2>2. txn'[ExitWatcher].state = "open" => CurKey \notin txn'[ExitWatcher].writes
    BY <1>2, <1>3 DEF NodeInv, CallsMatch, Idle
  <2> QED  BY <2>1, <2>2 DEF CallsMatch
<1>5. TxnInv' /\ [ClientEffect(db, db')]_db
  <2>1. TxnNext
    BY <1>1, <1>2 DEF TxnNext
  <2> QED  BY <2>1, TxnStep DEF NodeInv
<1>6. CASE Commit(w)
  <2>1. HeadersPast(db')
    BY <1>2, <1>6, CommitServes DEF NodeInv, NodeTypes
  <2>2. NodeTypes'
    BY <1>1, <2>1 DEF NodeInv, NodeTypes
  <2>3. \/ CurKey \notin txn[w].writes
        \/ Claims(txn, call, w)
    BY <1>6 DEF Commit, NodeInv, CallsMatch, Claims
  <2>4. /\ UNCHANGED <<events, root, sent>>
        /\ direct \subseteq direct'
        /\ \A g \in Requests : g # w => call'[g] = call[g]
    BY <1>1
  <2>5. ASSUME NEW B
        PROVE  Accounted(db', direct', events.deposit', txn', call', root', sent', B)
    BY <1>2, <1>6, <2>3, <2>4, CommitAccounted
  <2> QED  BY <1>4, <1>5, <2>2, <2>5 DEF NodeInv, Balance
<1>7. CASE Conflict(w)
  <2>1. UNCHANGED db
    BY <1>7 DEF Conflict
  <2>2. NodeTypes'
    BY <1>1, <2>1 DEF NodeInv, NodeTypes
  <2>3. Balance'
    <3>1. \A h \in Handlers : Claims(txn', call', h) =>
            Claims(txn, call, h) /\ txn'[h] = txn[h]
      BY <1>1, <1>3 DEF Claims, Idle
    <3>2. IsSeq(sent') /\ events'.deposit = events.deposit /\ UNCHANGED <<db, direct, root>>
      BY <1>1, <2>1 DEF NodeInv, NodeTypes
    <3>3. ASSUME NEW B
          PROVE  CountIn(sent, {B}) <= CountIn(sent', {B})
      BY <1>1, CountIsNat DEF NodeInv, NodeTypes
    <3> QED  BY <3>1, <3>2, <3>3, QuietBalance
  <2> QED  BY <1>4, <1>5, <2>2, <2>3 DEF NodeInv
<1> QED  BY <1>1, <1>6, <1>7

-----------------------------------------------------------------------------
(* Faults.                                                                 *)

\* No transaction begins, no root is sent, and events get lost: the blocks
\* that are still to come can only become fewer.
LEMMA LossBalance ==
    ASSUME NodeInv, UNCHANGED <<db, direct, root, sent>>, IsSeq(events.deposit'),
           \A X : CountIn(events.deposit', X) <= CountIn(events.deposit, X),
           \A h \in Handlers : Claims(txn', call', h) =>
             Claims(txn, call, h) /\ txn'[h] = txn[h]
    PROVE  Balance'
<1> SUFFICES ASSUME NEW B
             PROVE  Accounted(db', direct', events.deposit', txn', call', root', sent', B)
  BY DEF Balance
<1>1. ClaimSet(txn', call', B) \subseteq ClaimSet(txn, call, B) \cup {}
  BY DEF ClaimSet
<1>2. IsSeq(root') /\ IsSeq(sent') /\ IsFiniteSet({})
  BY FS_EmptySet DEF NodeInv, NodeTypes
<1>3. /\ CountIn(root, {B}) \in Nat /\ CountIn(sent, {B}) \in Nat
      /\ CountIn(events.deposit, DueDeposits(B)) \in Nat
      /\ CountIn(events.deposit', DueDeposits(B)) \in Nat
  BY CountIsNat DEF NodeInv, NodeTypes
<1>4. /\ CountIn(events.deposit', DueDeposits(B)) <= CountIn(events.deposit, DueDeposits(B))
      /\ CountIn(root', {B}) = CountIn(root, {B})
      /\ CountIn(sent', {B}) = CountIn(sent, {B})
      /\ Cardinality({}) = 0
  BY FS_EmptySet
<1>5. CountIn(events.deposit', DueDeposits(B)) + Cardinality({})
          + CountIn(root, {B}) + CountIn(sent, {B})
        <= CountIn(events.deposit, DueDeposits(B))
             + CountIn(root', {B}) + CountIn(sent', {B})
  BY <1>3, <1>4
<1> QED  BY <1>1, <1>2, <1>5, NoBlockAccounted

LEMMA LinkFailsInv ==
    ASSUME NodeInv, LinkFails
    PROVE  NodeInv' /\ UNCHANGED db
<1> DEFINE q == events.deposit
           e == events.exit
<1>1. UNCHANGED <<db, txn, root, sent, call, direct>>
  BY DEF LinkFails, chainVars, handVars
<1>2. PICK m \in 0 .. Len(q) : \E n \in 0 .. Len(e) :
        events' = [deposit |-> SubSeq(q, 1, m), exit |-> SubSeq(e, 1, n)]
  BY DEF LinkFails
<1>3. PICK n \in 0 .. Len(e) :
        events' = [deposit |-> SubSeq(q, 1, m), exit |-> SubSeq(e, 1, n)]
  BY <1>2
<1>4. /\ IsSeq(q) /\ \A i \in DOMAIN q : q[i] \in Accounts \X DepositAmounts
      /\ IsSeq(e) /\ \A i \in DOMAIN e : e[i] \in ClientPositions
  BY DEF NodeInv, NodeTypes
<1> HIDE DEF q, e
<1>5. /\ IsSeq(SubSeq(q, 1, m))
      /\ \A i \in DOMAIN SubSeq(q, 1, m) : i \in DOMAIN q /\ SubSeq(q, 1, m)[i] = q[i]
      /\ \A X : CountIn(SubSeq(q, 1, m), X) <= CountIn(q, X)
  BY <1>4, CountPrefix
<1>6. /\ IsSeq(SubSeq(e, 1, n))
      /\ \A i \in DOMAIN SubSeq(e, 1, n) : i \in DOMAIN e /\ SubSeq(e, 1, n)[i] = e[i]
  BY <1>4, CountPrefix
<1>7. /\ events'.deposit = SubSeq(q, 1, m)
      /\ events'.exit = SubSeq(e, 1, n)
      /\ events' = [deposit |-> events'.deposit, exit |-> events'.exit]
  BY <1>3
<1>8. NodeTypes'
  <2>1. \A i \in DOMAIN events'.deposit : events'.deposit[i] \in Accounts \X DepositAmounts
    BY <1>4, <1>5, <1>7
  <2>2. \A i \in DOMAIN events'.exit : events'.exit[i] \in ClientPositions
    BY <1>4, <1>6, <1>7
  <2>3. IsSeq(events'.deposit) /\ IsSeq(events'.exit)
    BY <1>5, <1>6, <1>7
  <2> QED  BY <1>1, <1>7, <2>1, <2>2, <2>3 DEF NodeInv, NodeTypes
<1>9. TxnInv' /\ CallsMatch'
  BY <1>1, SameStore DEF NodeInv, CallsMatch
<1>10. Balance'
  <2>1. \A h \in Handlers : Claims(txn', call', h) =>
          Claims(txn, call, h) /\ txn'[h] = txn[h]
    BY <1>1
  <2>2. IsSeq(events.deposit')
    BY <1>5, <1>7
  <2>3. \A X : CountIn(events.deposit', X) <= CountIn(events.deposit, X)
    BY <1>5, <1>7 DEF q
  <2> QED  BY <1>1, <2>1, <2>2, <2>3, LossBalance
<1> QED  BY <1>1, <1>8, <1>9, <1>10 DEF NodeInv

LEMMA CountNone ==
    /\ IsSeq(<< >>)
    /\ \A X : CountIn(<< >>, X) = 0
    /\ \A i \in DOMAIN << >> : FALSE
<1>1. << >> \in Seq({}) /\ DOMAIN << >> = {}
  OBVIOUS
<1>2. ASSUME NEW X
      PROVE  CountIn(<< >>, X) = 0
  BY <1>1, FS_EmptySet DEF CountIn, Places
<1> QED  BY <1>1, <1>2, SeqIsSeq

LEMMA CrashInv ==
    ASSUME NodeInv, Crash
    PROVE  NodeInv' /\ UNCHANGED db
<1>1. /\ events' = NoEvents
      /\ call' = [r \in Requests |-> NoCall]
      /\ txn' = [h \in Handlers |-> Idle]
      /\ UNCHANGED <<db, root, sent, direct>>
  BY DEF Crash, chainVars, handVars
<1>2. /\ events'.deposit = << >>
      /\ events'.exit = << >>
      /\ events' = [deposit |-> events'.deposit, exit |-> events'.exit]
  BY <1>1 DEF NoEvents
<1>3. TxnInv'
  BY <1>1, TxnKeeps DEF NodeInv, Idle
<1>4. NodeTypes'
  <2>1. call' = [r \in Requests |-> call'[r]]
    BY <1>1
  <2> QED  BY <1>1, <1>2, <2>1, CountNone DEF NodeInv, NodeTypes
<1>5. CallsMatch'
  BY <1>1, RequestIsHandler, NodeAssumption DEF CallsMatch, CallMatches, Idle, NoCall
<1>6. Balance'
  <2>1. \A h \in Handlers : Claims(txn', call', h) =>
          Claims(txn, call, h) /\ txn'[h] = txn[h]
    BY <1>1 DEF Claims, Idle
  <2>2. ASSUME NEW X
        PROVE  CountIn(events.deposit', X) <= CountIn(events.deposit, X)
    <3>1. CountIn(events.deposit', X) = 0 /\ CountIn(events.deposit, X) \in Nat
      BY <1>2, CountNone, CountIsNat DEF NodeInv, NodeTypes
    <3> QED  BY <3>1
  <2>3. IsSeq(events.deposit')
    BY <1>2, CountNone
  <2> QED  BY <1>1, <2>1, <2>2, <2>3, LossBalance
<1> QED  BY <1>1, <1>3, <1>4, <1>5, <1>6 DEF NodeInv

LEMMA RestartInv ==
    ASSUME NodeInv, Restart
    PROVE  NodeInv' /\ UNCHANGED db
<1>1. UNCHANGED <<db, txn, root, sent, events, call, direct>>
  BY DEF Restart, chainVars, handVars
<1>2. TxnInv'
  BY <1>1, SameStore DEF NodeInv
<1> QED  BY <1>1, <1>2 DEF NodeInv, NodeTypes, CallsMatch, Balance

-----------------------------------------------------------------------------
(* All steps together.                                                     *)

LEMMA NodeInitInv == NodeInit => NodeInv
<1> SUFFICES ASSUME NodeInit
             PROVE  NodeInv
  OBVIOUS
<1>1. TxnInv
  BY TxnInitInv DEF NodeInit
<1>2. /\ DOMAIN db.header = {}
      /\ txn = [h \in Handlers |-> Idle]
      /\ call = [r \in Requests |-> NoCall]
      /\ root = << >> /\ sent = << >>
      /\ events = [deposit |-> << >>, exit |-> << >>]
  BY DEF NodeInit, TxnInit, Init, NewChildChain, NoEvents
<1>3. NodeTypes
  BY <1>2, CountNone DEF NodeTypes, HeadersPast
<1>4. CallsMatch
  BY <1>2, RequestIsHandler, NodeAssumption DEF CallsMatch, CallMatches, Idle, NoCall
<1>5. ASSUME NEW B
      PROVE  Accounted(db, direct, events.deposit, txn, call, root, sent, B)
  <2>1. HeldSet(db, direct, B) = {} /\ ClaimSet(txn, call, B) = {}
    BY <1>2 DEF HeldSet, ClaimSet, Claims, Idle
  <2>2. /\ CountIn(events.deposit, DueDeposits(B)) = 0
        /\ CountIn(root, {B}) = 0 /\ CountIn(sent, {B}) = 0
    BY <1>2, CountNone
  <2> QED  BY <2>1, <2>2, FS_EmptySet DEF Accounted
<1> QED  BY <1>1, <1>3, <1>4, <1>5 DEF NodeInv, Balance

LEMMA NodeStep ==
    ASSUME NodeInv, [NodeNext]_allVars
    PROVE  NodeInv' /\ [ClientEffect(db, db')]_db
<1>1. ASSUME NEW owner \in Accounts, NEW amount \in DepositAmounts,
             RootDeposit(owner, amount)
      PROVE  NodeInv' /\ UNCHANGED db
  BY <1>1, RootDepositInv
<1>2. ASSUME NEW pos \in ClientPositions, RootStartExit(pos)
      PROVE  NodeInv' /\ UNCHANGED db
  BY <1>2, RootStartExitInv
<1>3. MineRoot => NodeInv' /\ UNCHANGED db
  BY MineRootInv
<1>4. ASSUME NEW r \in Requests, ReadRootNumber(r) \/ RequestStep(r)
      PROVE  NodeInv' /\ [ClientEffect(db, db')]_db
  BY <1>4, ReadRootNumberInv, BuildBlockInv, RefuseBlockInv, SendRootInv,
     SendRootFailsInv, FinishRequestInv DEF RequestStep
<1>5. ASSUME NEW r \in Requests, NEW tx \in ClientTxes, PostTx(r, tx)
      PROVE  NodeInv' /\ UNCHANGED db
  BY <1>5, PostTxInv
<1>6. ASSUME NEW r \in Requests, NEW owner \in Accounts,
             NEW amount \in DepositAmounts, PostDeposit(r, owner, amount)
      PROVE  NodeInv' /\ UNCHANGED db
  BY <1>6, PostDepositInv
<1>7. ASSUME NEW blkNum, CommitByHand(blkNum)
      PROVE  NodeInv' /\ UNCHANGED db
  BY <1>7, CommitByHandInv
<1>8. DepositStep \/ ExitStep => NodeInv' /\ [ClientEffect(db, db')]_db
  BY HandleDepositInv, HandleExitInv, RefuseExitInv, FinishEventInv
     DEF DepositStep, ExitStep
<1>9. LinkFails \/ Crash \/ Restart => NodeInv' /\ UNCHANGED db
  BY LinkFailsInv, CrashInv, RestartInv
<1>10. CASE UNCHANGED allVars
  <2>1. UNCHANGED <<db, txn, root, sent, events, call, direct>>
    BY <1>10 DEF allVars, chainVars, nodeVars, handVars
  <2>2. TxnInv'
    BY <2>1, SameStore DEF NodeInv
  <2> QED  BY <2>1, <2>2 DEF NodeInv, NodeTypes, CallsMatch, Balance
<1> QED  BY <1>1, <1>2, <1>3, <1>4, <1>5, <1>6, <1>7, <1>8, <1>9, <1>10 DEF NodeNext

LEMMA NodeInvHolds == NodeSpec => []NodeInv
  BY NodeInitInv, NodeStep, PTL DEF NodeSpec

LEMMA NodeIsClientSerial == NodeSpec => ClientSerial
<1>1. NodeInit => Init
  BY DEF NodeInit, TxnInit
<1>2. NodeInv /\ [NodeNext]_allVars => [ClientEffect(db, db')]_db
  BY NodeStep
<1> QED  BY <1>1, <1>2, NodeInvHolds, PTL DEF NodeSpec, ClientSerial

\* The balance of one block, read as the property states it.
LEMMA InvGivesBacked == NodeInv => BlocksBacked
<1> DEFINE backed == [b \in DOMAIN db.header \ direct |-> MerkleLeaves(GetBlock(db, b))]
<1>1. ASSUME NodeInv, NEW B
      PROVE  Occurrences(B, backed) <= Occurrences(B, root \o sent)
  <2>1. {b \in DOMAIN backed : backed[b] = B} = HeldSet(db, direct, B)
    BY DEF HeldSet, Served
  <2>2. {n \in DOMAIN (root \o sent) : (root \o sent)[n] = B} = Places(root \o sent, {B})
    BY DEF Places
  <2> HIDE DEF backed
  <2>3. /\ Occurrences(B, backed) = Cardinality(HeldSet(db, direct, B))
        /\ Occurrences(B, root \o sent) = CountIn(root \o sent, {B})
    BY <2>1, <2>2 DEF Occurrences, CountIn
  <2>4. CountIn(root \o sent, {B}) = CountIn(root, {B}) + CountIn(sent, {B})
    BY <1>1, CountConcat DEF NodeInv, NodeTypes
  <2>5. Accounted(db, direct, events.deposit, txn, call, root, sent, B)
    BY <1>1 DEF NodeInv, Balance
  <2>6. /\ Cardinality(HeldSet(db, direct, B)) \in Nat
        /\ CountIn(events.deposit, DueDeposits(B)) \in Nat
        /\ Cardinality(ClaimSet(txn, call, B)) \in Nat
        /\ CountIn(root, {B}) \in Nat /\ CountIn(sent, {B}) \in Nat
    BY <1>1, HeldIsFinite, ClaimsAreFinite, CountIsNat
       DEF NodeInv, NodeTypes, TxnInv, Inv, StoreType
  <2> QED  BY <2>3, <2>4, <2>5, <2>6 DEF Accounted
<1> HIDE DEF backed
<1> QED  BY <1>1 DEF BlocksBacked, backed

-----------------------------------------------------------------------------
(* The theorems.                                                           *)

\* Whatever requests, watchers and the operator do by hand, and whatever
\* crashes and broken connections do to them, each block of the child chain that
\* the operator did not post directly has an occurrence of its own on the root
\* chain or on its way there (PostBlockHandler, handler_block.go:50-55,
\* sends the root before it commits; the deposit watcher, plasma.go:198-227,
\* takes an event once).
THEOREM BlocksAreBacked == NodeSpec => []BlocksBacked
  BY NodeInvHolds, InvGivesBacked, PTL

\* The node's store goes through the states that one method at a time could give
\* it: a crash leaves what was committed, a watcher or a request that fails
\* leaves nothing.
THEOREM NodeIsSerial == NodeSpec => Serial
  BY NodeIsClientSerial, ClientSerialIsSerial

\* So no output is spent by two different transactions, and the spent flags cover
\* what is spent and are otherwise set only where a client posted them so, ...
THEOREM NodeSpendsOnce == NodeSpec => [](NoDoubleSpend /\ SpentExplained)
  BY NodeIsSerial, NodeIsClientSerial, InvHolds, InvGivesNoDoubleSpend, ClientsExplain, PTL

\* ... nothing accepted is dropped before a block has it, ...
THEOREM NodePendingKept == NodeSpec => PendingKept
  BY NodeIsSerial, SerialKeepsPending

\* ... only the owner of an output signs for its spending, ...
THEOREM NodeSigners == NodeSpec => []InputsAuthorized
  BY NodeIsSerial, AuthorizedHolds, AuthorizedGivesSigners, PTL

\* ... no record loses what was written to it, ...
THEOREM NodeRecordsKept == NodeSpec => RecordsOnlyGrow
  BY NodeIsSerial, SerialKeepsRecords

\* ... no value is created but by copies, unless a client names an output twice,
THEOREM NodeValue == ClientsNameOnce => (NodeSpec => []ValueConserved)
<1> SUFFICES ASSUME ClientsNameOnce
             PROVE  NodeSpec => []ValueConserved
  OBVIOUS
<1> QED  BY NodeIsClientSerial, ClientsConserve, PTL

\* ... blocks have no gap and stay as they were signed, ...
THEOREM NodeBlocks == NodeSpec => []BlocksAsSigned
<1>1. Inv(db) /\ Recorded(db) => BlocksAsSigned
  BY RecordedGivesSigned
<1> QED  BY <1>1, NodeIsSerial, RecordedHolds, PTL

\* ... and an output whose exit the watcher (plasma.go:229-257) recorded before
\* anybody spent it is not spent afterwards.
THEOREM NodeExitsKept == NodeSpec => ExitedNotSpentLater
  BY NodeIsSerial, SerialKeepsExits

=============================================================================
