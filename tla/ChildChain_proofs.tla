-------------------------- MODULE ChildChain_proofs --------------------------
(***************************************************************************)
(* Proofs about ChildChain, for every value of its constants.              *)
(***************************************************************************)
EXTENDS ChildChain, Position_proofs, FiniteSetTheorems, WellFoundedInduction, TLAPS

USE DEF TxElements, TxElementsNum

-----------------------------------------------------------------------------
(* The methods of a transaction.                                           *)

SameButSpent(old, new) ==
    /\ new.owner = old.owner
    /\ new.amount = old.amount
    /\ new.exited = old.exited

LEMMA SpendOutputsEffect ==
    ASSUME NEW tx \in Tx, NEW indexes
    PROVE  LET new == SpendOutputs(tx, indexes)
           IN  /\ new \in Tx
               /\ new.ins = tx.ins
               /\ \A o \in TxElements :
                    /\ new.outs[o].spent <=> tx.outs[o].spent \/ o \in indexes
                    /\ SameButSpent(tx.outs[o], new.outs[o])
<1> DEFINE new == SpendOutputs(tx, indexes)
           out(o) == [tx.outs[o] EXCEPT !.spent = @ \/ o \in indexes]
<1>1. new.ins = tx.ins /\ new.outs = [o \in TxElements |-> out(o)]
  BY DEF SpendOutputs, Tx
<1>2. ASSUME NEW o \in TxElements
      PROVE  /\ out(o) \in TxOut
             /\ out(o).spent <=> tx.outs[o].spent \/ o \in indexes
             /\ SameButSpent(tx.outs[o], out(o))
  BY DEF Tx, TxOut, SameButSpent
<1>3. new = [ins |-> tx.ins, outs |-> [o \in TxElements |-> out(o)]]
  BY DEF SpendOutputs, Tx
<1>4. tx.ins \in [TxElements -> TxIn]
  BY DEF Tx
<1>5. [o \in TxElements |-> out(o)] \in [TxElements -> TxOut]
  BY <1>2
<1>6. \A o \in TxElements : new.outs[o] = out(o)
  BY <1>1
<1>7. new \in Tx
  BY <1>3, <1>4, <1>5 DEF Tx
<1> HIDE DEF new, out
<1> QED  BY <1>1, <1>2, <1>6, <1>7 DEF new

LEMMA ExitOutputEffect ==
    ASSUME NEW tx \in Tx, NEW e \in TxElements
    PROVE  LET new == ExitOutput(tx, e)
           IN  /\ new \in Tx
               /\ new.ins = tx.ins
               /\ \A o \in TxElements :
                    /\ new.outs[o].spent <=> tx.outs[o].spent
                    /\ new.outs[o].owner = tx.outs[o].owner
                    /\ new.outs[o].amount = tx.outs[o].amount
                    /\ new.outs[o].exited <=> tx.outs[o].exited \/ o = e
<1> DEFINE new == ExitOutput(tx, e)
<1>1. /\ new \in Tx
      /\ new.ins = tx.ins
      /\ \A o \in TxElements : (new.outs[o].spent <=> tx.outs[o].spent)
  BY DEF ExitOutput, Tx, TxOut
<1>2. new.outs = [tx.outs EXCEPT ![e].exited = TRUE]
  BY DEF ExitOutput, Tx
<1>3. ASSUME NEW o \in TxElements
      PROVE  /\ new.outs[o].owner = tx.outs[o].owner
             /\ new.outs[o].amount = tx.outs[o].amount
             /\ new.outs[o].exited <=> tx.outs[o].exited \/ o = e
  <2>1. tx.outs[o] \in TxOut /\ tx.outs \in [TxElements -> TxOut]
    BY DEF Tx
  <2>2. new.outs[o] = IF o = e THEN [tx.outs[e] EXCEPT !.exited = TRUE] ELSE tx.outs[o]
    BY <1>2, <2>1
  <2> HIDE DEF new
  <2> QED  BY <2>1, <2>2 DEF TxOut
<1> HIDE DEF new
<1> QED  BY <1>1, <1>3 DEF new

LEMMA ConfirmationEffect ==
    ASSUME NEW tx \in Tx, NEW j \in TxElements, NEW sig \in Signature
    PROVE  LET new == SetConfirmationSignature(tx, j, sig)
           IN  /\ new \in Tx
               /\ \A i \in TxElements :
                    /\ new.ins[i].core = tx.ins[i].core
                    /\ new.ins[i].sig = tx.ins[i].sig
                    /\ new.ins[i].confSig = IF i = j THEN sig ELSE tx.ins[i].confSig
               /\ new.outs = tx.outs
  BY DEF SetConfirmationSignature, Tx, TxIn

\* What a transaction consumes depends on its input cores only.
LEMMA ConsumesCores ==
    ASSUME NEW tx, NEW new,
           \A i \in TxElements : new.ins[i].core = tx.ins[i].core
    PROVE  Consumes(new) = Consumes(tx)
  BY DEF Consumes

LEMMA ConsumesType ==
    ASSUME NEW tx \in Tx, NEW c \in Consumes(tx)
    PROVE  /\ c \in Nat \X Nat \X Nat
           /\ \E i \in TxElements : tx.ins[i].core = c /\ ~IsNull(tx.ins[i])
  BY DEF Consumes, Tx, TxIn, TxInCore, IsNull
-----------------------------------------------------------------------------
(* Maxima and minima of sets of naturals.                                  *)

LEMMA MinIsLeast ==
    ASSUME NEW S \in SUBSET Nat, S # {}
    PROVE  Min(S) \in S /\ \A y \in S : Min(S) <= y
<1> DEFINE R == OpToRel(<, Nat)
<1>1. \E x \in S : \A y \in S : ~(<<y, x>> \in R)
  <2>1. IsWellFoundedOn(R, Nat)
    BY NatLessThanWellFounded
  <2> HIDE DEF R
  <2> QED  BY <2>1, WFMin
<1>2. \A x, y \in Nat : <<y, x>> \in R <=> y < x
  BY DEF OpToRel
<1> HIDE DEF R
<1>3. \E x \in S : \A y \in S : x <= y
  <2>1. PICK x \in S : \A y \in S : ~(<<y, x>> \in R)
    BY <1>1
  <2>2. \A y \in S : ~(y < x)
    BY <1>2, <2>1
  <2>3. \A y \in S : x <= y
    BY <2>2
  <2> QED  BY <2>3
<1> QED  BY <1>3 DEF Min

LEMMA MaxInSet ==
    ASSUME NEW bound \in Nat, NEW S \in SUBSET (0 .. bound), S # {}
    PROVE  Max(S) \in S
<1> DEFINE U == {n \in Nat : \A y \in S : y <= n}
           m == Min(U)
<1>1. U \in SUBSET Nat /\ bound \in U
  OBVIOUS
<1>2. m \in U /\ \A n \in U : m <= n
  <2> HIDE DEF U
  <2> QED  BY <1>1, MinIsLeast
<1>3. \A y \in S : y \in Nat /\ y <= m
  BY <1>2
<1>4. m \in S
  \* Otherwise m - 1 would be a smaller upper bound.
  <2> SUFFICES ASSUME m \notin S
               PROVE  FALSE
    OBVIOUS
  <2>1. m \in Nat
    BY <1>2
  <2> HIDE DEF m
  <2>2. \A y \in S : y <= m - 1
    BY <1>3, <2>1
  <2>3. m - 1 \in Nat
    <3>1. PICK y \in S : TRUE
      OBVIOUS
    <3>2. y # m
      BY <3>1
    <3> QED  BY <1>3, <2>1, <3>1, <3>2
  <2>4. m - 1 \in U
    BY <2>2, <2>3
  <2> HIDE DEF U
  <2> QED  BY <1>2, <2>1, <2>4
<1>5. \E x \in S : \A y \in S : x >= y
  BY <1>3, <1>4
<1> QED  BY <1>5 DEF Max
-----------------------------------------------------------------------------
(* Sums over finite sets.  SumFunctionOnSet takes the elements in an order *)
(* that CHOOSE gives; the lemmas say that the order does not matter.       *)

First(s) == CHOOSE x \in s : TRUE

\* The recursion of MapThenFoldSet, as SumFunctionOnSet uses it.
Totals(f, S, g) ==
    g = [s \in SUBSET S |->
            IF s = {} THEN 0 ELSE f[First(s)] + g[s \ {First(s)}]]

LEMMA SumIsTotal ==
    ASSUME NEW f, NEW S
    PROVE  SumFunctionOnSet(f, S) = (CHOOSE g : Totals(f, S, g))[S]
  BY DEF SumFunctionOnSet, FoldFunctionOnSet, MapThenFoldSet, Totals, First

LEMMA FirstIn ==
    ASSUME NEW s, s # {}
    PROVE  First(s) \in s
  BY DEF First

\* A set of finite sets has one of least size.
LEMMA SmallestSet ==
    ASSUME NEW F, F # {}, \A S \in F : IsFiniteSet(S)
    PROVE  \E S \in F : \A T \in F : Cardinality(S) <= Cardinality(T)
<1> DEFINE sizes == {Cardinality(S) : S \in F}
<1>1. sizes \in SUBSET Nat /\ sizes # {}
  BY FS_CardinalityType
<1>2. Min(sizes) \in sizes /\ \A n \in sizes : Min(sizes) <= n
  <2> HIDE DEF sizes
  <2> QED  BY <1>1, MinIsLeast
<1> QED  BY <1>2

LEMMA SmallerSet ==
    ASSUME NEW S, IsFiniteSet(S), NEW x \in S
    PROVE  /\ IsFiniteSet(S \ {x})
           /\ ~(Cardinality(S) <= Cardinality(S \ {x}))
<1>1. Cardinality(S) \in Nat /\ Cardinality(S \ {x}) = Cardinality(S) - 1
  BY FS_RemoveElement, FS_CardinalityType
<1> QED  BY <1>1, FS_RemoveElement

\* The recursion determines what it yields for finite sets.
LEMMA TotalsAgree ==
    ASSUME NEW f, NEW S, NEW g, Totals(f, S, g), NEW T, NEW h, Totals(f, T, h),
           NEW s, IsFiniteSet(s), s \subseteq S, s \subseteq T
    PROVE  g[s] = h[s]
<1> DEFINE F == {t \in SUBSET s : g[t] # h[t]}
<1> SUFFICES ASSUME F # {} PROVE FALSE
  OBVIOUS
<1>1. \A t \in F : IsFiniteSet(t)
  BY FS_Subset
<1>2. PICK t \in F : \A r \in F : Cardinality(t) <= Cardinality(r)
  <2> HIDE DEF F
  <2> QED  BY <1>1, SmallestSet
<1>3. t \in SUBSET S /\ t \in SUBSET T
  OBVIOUS
<1>4. /\ g[t] = IF t = {} THEN 0 ELSE f[First(t)] + g[t \ {First(t)}]
      /\ h[t] = IF t = {} THEN 0 ELSE f[First(t)] + h[t \ {First(t)}]
  BY <1>3 DEF Totals
<1>5. t # {} /\ g[t \ {First(t)}] # h[t \ {First(t)}]
  BY <1>4
<1>6. First(t) \in t /\ t \ {First(t)} \in F
  BY <1>5, FirstIn
<1> QED  BY <1>1, <1>2, <1>6, SmallerSet

LEMMA TotalsExist ==
    ASSUME NEW f, NEW S, IsFiniteSet(S)
    PROVE  \E g : Totals(f, S, g)
<1> DEFINE F == {T \in SUBSET S : ~\E g : Totals(f, T, g)}
<1> SUFFICES ASSUME F # {} PROVE FALSE
  OBVIOUS
<1>1. \A T \in F : IsFiniteSet(T)
  BY FS_Subset
<1>2. PICK T \in F : \A U \in F : Cardinality(T) <= Cardinality(U)
  <2> HIDE DEF F
  <2> QED  BY <1>1, SmallestSet
<1>3. T \subseteq S /\ IsFiniteSet(T)
  BY <1>1
<1> DEFINE of(s) == CHOOSE g : Totals(f, s, g)
           rest == SumFunctionOnSet(f, T \ {First(T)})
           g == [s \in SUBSET T |->
                    IF s = T THEN IF s = {} THEN 0 ELSE f[First(s)] + rest
                    ELSE SumFunctionOnSet(f, s)]
<1>4. ASSUME NEW s \in SUBSET T, s # T
      PROVE  Totals(f, s, of(s)) /\ SumFunctionOnSet(f, s) = of(s)[s]
  <2>1. IsFiniteSet(s) /\ ~(Cardinality(T) <= Cardinality(s))
    <3>1. IsFiniteSet(s) /\ Cardinality(s) <= Cardinality(T) /\ Cardinality(s) # Cardinality(T)
      BY <1>3, <1>4, FS_Subset
    <3> QED  BY <1>3, <3>1, FS_CardinalityType
  <2>2. s \notin F
    BY <1>2, <2>1
  <2>3. \E h : Totals(f, s, h)
    BY <1>3, <2>2
  <2> QED  BY <2>3, SumIsTotal
<1>5. ASSUME NEW s \in SUBSET T, s # T, s # {}
      PROVE  SumFunctionOnSet(f, s) = f[First(s)] + SumFunctionOnSet(f, s \ {First(s)})
  <2> DEFINE r == s \ {First(s)}
  <2>1. First(s) \in s
    BY <1>5, FirstIn
  <2>2. r \in SUBSET T /\ r # T /\ r \in SUBSET s
    BY <2>1
  <2>3. Totals(f, s, of(s)) /\ Totals(f, r, of(r)) /\ IsFiniteSet(r)
    BY <1>3, <1>4, <1>5, <2>2, FS_Subset
  <2>4. of(s)[r] = of(r)[r]
    <3> HIDE DEF of, r
    <3> QED  BY <2>2, <2>3, TotalsAgree
  <2>5. of(s)[s] = f[First(s)] + of(s)[r]
    <3>1. s \in SUBSET s
      OBVIOUS
    <3> HIDE DEF of
    <3> QED  BY <1>5, <2>3, <3>1 DEF Totals
  <2> HIDE DEF of, r
  <2>6. SumFunctionOnSet(f, s) = of(s)[s] /\ SumFunctionOnSet(f, r) = of(r)[r]
    BY <1>4, <1>5, <2>2
  <2> QED  BY <2>4, <2>5, <2>6 DEF r
<1>6. SumFunctionOnSet(f, {}) = 0 \/ T = {}
  <2> SUFFICES ASSUME T # {} PROVE SumFunctionOnSet(f, {}) = 0
    OBVIOUS
  <2>1. {} \in SUBSET T /\ {} # T /\ {} \in SUBSET {}
    OBVIOUS
  <2>2. Totals(f, {}, of({})) /\ SumFunctionOnSet(f, {}) = of({})[{}]
    BY <1>4, <2>1
  <2> HIDE DEF of
  <2> QED  BY <2>1, <2>2 DEF Totals
<1>7. ASSUME NEW s \in SUBSET T
      PROVE  g[s] = IF s = {} THEN 0 ELSE f[First(s)] + g[s \ {First(s)}]
  <2>1. s # {} => First(s) \in s
    BY FirstIn
  <2>2. s # {} => s \ {First(s)} # T /\ s \ {First(s)} \in SUBSET T
    BY <2>1
  <2> QED  BY <1>5, <1>6, <2>2
<1>8. Totals(f, T, g)
  <2>1. g = [s \in SUBSET T |-> g[s]]
    OBVIOUS
  <2> HIDE DEF g
  <2> QED  BY <1>7, <2>1 DEF Totals
<1> QED  BY <1>2, <1>8

LEMMA SumStep ==
    ASSUME NEW f, NEW S, IsFiniteSet(S)
    PROVE  SumFunctionOnSet(f, S) =
             IF S = {} THEN 0 ELSE f[First(S)] + SumFunctionOnSet(f, S \ {First(S)})
<1> DEFINE of(s) == CHOOSE g : Totals(f, s, g)
           r == S \ {First(S)}
<1>1. Totals(f, S, of(S)) /\ Totals(f, r, of(r)) /\ IsFiniteSet(r)
  BY TotalsExist, FS_Subset
<1>2. of(S)[S] = IF S = {} THEN 0 ELSE f[First(S)] + of(S)[r]
  <2>1. S \in SUBSET S
    OBVIOUS
  <2> HIDE DEF of
  <2> QED  BY <1>1, <2>1 DEF Totals
<1>3. of(S)[r] = of(r)[r]
  <2> HIDE DEF of
  <2> QED  BY <1>1, TotalsAgree
<1>4. SumFunctionOnSet(f, S) = of(S)[S] /\ SumFunctionOnSet(f, r) = of(r)[r]
  BY SumIsTotal
<1> HIDE DEF of, r
<1> QED  BY <1>2, <1>3, <1>4 DEF r

NatOn(f, S) == \A x \in S : f[x] \in Nat

LEMMA SumIsNat ==
    ASSUME NEW f, NEW S, IsFiniteSet(S), NatOn(f, S)
    PROVE  SumFunctionOnSet(f, S) \in Nat
<1> DEFINE F == {T \in SUBSET S : SumFunctionOnSet(f, T) \notin Nat}
<1> SUFFICES ASSUME F # {} PROVE FALSE
  OBVIOUS
<1>1. \A T \in F : IsFiniteSet(T)
  BY FS_Subset
<1>2. PICK T \in F : \A U \in F : Cardinality(T) <= Cardinality(U)
  <2> HIDE DEF F
  <2> QED  BY <1>1, SmallestSet
<1> DEFINE r == T \ {First(T)}
<1>3. SumFunctionOnSet(f, T) = IF T = {} THEN 0 ELSE f[First(T)] + SumFunctionOnSet(f, r)
  BY <1>1, SumStep
<1>4. T # {} => First(T) \in T /\ r \in SUBSET S /\ f[First(T)] \in Nat
  BY FirstIn DEF NatOn
<1>5. T # {} => r \in F
  BY <1>3, <1>4
<1> HIDE DEF F
<1>6. T # {}
  BY <1>3 DEF F
<1> QED  BY <1>1, <1>2, <1>4, <1>5, <1>6, SmallerSet

\* An element may be taken out, whichever it is.
LEMMA SumWithout ==
    ASSUME NEW f, NEW S, IsFiniteSet(S), NatOn(f, S), NEW x \in S
    PROVE  SumFunctionOnSet(f, S) = f[x] + SumFunctionOnSet(f, S \ {x})
<1> DEFINE sum(T) == SumFunctionOnSet(f, T)
           Bad(T) == \E y \in T : sum(T) # f[y] + sum(T \ {y})
           F == {T \in SUBSET S : Bad(T)}
<1> SUFFICES ASSUME F # {} PROVE FALSE
  OBVIOUS
<1>1. \A T \in F : IsFiniteSet(T)
  BY FS_Subset
<1>2. PICK T \in F : \A U \in F : Cardinality(T) <= Cardinality(U)
  <2> HIDE DEF F
  <2> QED  BY <1>1, SmallestSet
<1>3. PICK y \in T : sum(T) # f[y] + sum(T \ {y})
  OBVIOUS
<1> DEFINE c == First(T)
<1>4. sum(T) = f[c] + sum(T \ {c}) /\ c \in T
  BY <1>1, <1>3, SumStep, FirstIn
<1>5. c # y
  BY <1>3, <1>4
<1>6. ~Bad(T \ {c}) /\ ~Bad(T \ {y})
  <2>1. T \ {c} \notin F /\ T \ {y} \notin F
    <3> HIDE DEF F, c
    <3> QED  BY <1>1, <1>2, <1>4, SmallerSet
  <2> QED  BY <2>1
<1>7. /\ sum(T \ {c}) = f[y] + sum((T \ {c}) \ {y})
      /\ sum(T \ {y}) = f[c] + sum((T \ {y}) \ {c})
  BY <1>4, <1>5, <1>6
<1>8. (T \ {c}) \ {y} = (T \ {y}) \ {c}
  OBVIOUS
<1>9. sum((T \ {y}) \ {c}) \in Nat /\ f[c] \in Nat /\ f[y] \in Nat
  <2> DEFINE r == (T \ {y}) \ {c}
  <2>1. r \in SUBSET S /\ c \in S /\ y \in S
    BY <1>4
  <2> HIDE DEF c, r
  <2>2. IsFiniteSet(r) /\ NatOn(f, r)
    BY <2>1, FS_Subset DEF NatOn
  <2> QED  BY <2>1, <2>2, SumIsNat DEF NatOn, r
<1>10. sum(T \ {c}) = f[y] + sum((T \ {y}) \ {c})
  BY <1>7, <1>8
<1> HIDE DEF F, Bad
<1>11. sum(T) = f[y] + sum(T \ {y})
  BY <1>4, <1>7, <1>9, <1>10
<1> QED  BY <1>3, <1>11

\* Sums are added up pointwise, here with an inequality.
LEMMA SumUpTo ==
    ASSUME NEW f, NEW g, NEW S, IsFiniteSet(S), NatOn(f, S), NatOn(g, S),
           \A x \in S : f[x] <= g[x]
    PROVE  SumFunctionOnSet(f, S) <= SumFunctionOnSet(g, S)
<1> DEFINE F == {T \in SUBSET S : ~(SumFunctionOnSet(f, T) <= SumFunctionOnSet(g, T))}
<1> SUFFICES ASSUME F # {} PROVE FALSE
  OBVIOUS
<1>1. \A T \in F : IsFiniteSet(T)
  BY FS_Subset
<1>2. PICK T \in F : \A U \in F : Cardinality(T) <= Cardinality(U)
  <2> HIDE DEF F
  <2> QED  BY <1>1, SmallestSet
<1> DEFINE r == T \ {First(T)}
<1>3. /\ SumFunctionOnSet(f, T) = IF T = {} THEN 0 ELSE f[First(T)] + SumFunctionOnSet(f, r)
      /\ SumFunctionOnSet(g, T) = IF T = {} THEN 0 ELSE g[First(T)] + SumFunctionOnSet(g, r)
  BY <1>1, SumStep
<1>4. T # {}
  BY <1>3
<1>5. First(T) \in T /\ r \in SUBSET S
  BY <1>4, FirstIn
<1>6. /\ f[First(T)] \in Nat /\ g[First(T)] \in Nat
      /\ f[First(T)] <= g[First(T)]
  BY <1>5 DEF NatOn
<1>7. SumFunctionOnSet(f, r) \in Nat /\ SumFunctionOnSet(g, r) \in Nat
  BY <1>5, SumIsNat, FS_Subset DEF NatOn
<1>8. r \in F
  BY <1>3, <1>4, <1>5, <1>6, <1>7
<1> HIDE DEF F
<1> QED  BY <1>1, <1>2, <1>5, <1>8, SmallerSet

LEMMA SumSame ==
    ASSUME NEW f, NEW g, NEW S, IsFiniteSet(S), NatOn(f, S), \A x \in S : f[x] = g[x]
    PROVE  SumFunctionOnSet(f, S) = SumFunctionOnSet(g, S)
<1>1. NatOn(g, S)
  BY DEF NatOn
<1>2. \A x \in S : f[x] <= g[x] /\ g[x] <= f[x]
  BY DEF NatOn
<1>3. /\ SumFunctionOnSet(f, S) <= SumFunctionOnSet(g, S)
      /\ SumFunctionOnSet(g, S) <= SumFunctionOnSet(f, S)
  BY <1>1, <1>2, SumUpTo
<1> QED  BY <1>1, <1>3, SumIsNat

\* What a bijection brings together has the same sum on both sides.
LEMMA SumMoved ==
    ASSUME NEW f, NEW g, NEW S, NEW T, IsFiniteSet(S), NatOn(f, S),
           NEW b \in Bijection(S, T), \A x \in S : g[b[x]] = f[x]
    PROVE  SumFunctionOnSet(f, S) = SumFunctionOnSet(g, T)
<1> DEFINE image(R) == {b[x] : x \in R}
           F == {R \in SUBSET S : SumFunctionOnSet(f, R) # SumFunctionOnSet(g, image(R))}
<1>1. \A x \in S : b[x] \in T
  BY DEF Bijection, Injection, Surjection, IsInjective
<1>2. \A x, y \in S : b[x] = b[y] => x = y
  BY DEF Bijection, Injection, Surjection, IsInjective
<1>3. image(S) = T
  BY DEF Bijection, Injection, Surjection, IsInjective
<1> SUFFICES ASSUME F # {} PROVE FALSE
  BY <1>3
<1>4. \A R \in F : IsFiniteSet(R)
  BY FS_Subset
<1>5. PICK R \in F : \A U \in F : Cardinality(R) <= Cardinality(U)
  <2> HIDE DEF F
  <2> QED  BY <1>4, SmallestSet
<1>6. R # {}
  <2>1. image({}) = {}
    OBVIOUS
  <2>2. SumFunctionOnSet(f, {}) = 0 /\ SumFunctionOnSet(g, {}) = 0
    BY SumStep, FS_EmptySet
  <2> QED  BY <2>1, <2>2
<1>7. PICK x \in R : TRUE
  BY <1>6
<1>8. IsFiniteSet(R) /\ R \in SUBSET S /\ IsFiniteSet(R \ {x})
  BY <1>4, FS_Subset
<1>9. R \ {x} \notin F
  <2> HIDE DEF F
  <2> QED  BY <1>5, <1>7, <1>8, SmallerSet
<1>10. SumFunctionOnSet(f, R \ {x}) = SumFunctionOnSet(g, image(R \ {x}))
  BY <1>8, <1>9
<1>11. image(R \ {x}) = image(R) \ {b[x]} /\ b[x] \in image(R)
  BY <1>2, <1>7, <1>8
<1>12. IsFiniteSet(image(R)) /\ NatOn(g, image(R))
  <2>1. IsFiniteSet(image(R))
    <3> DEFINE r == [y \in R |-> b[y]]
    <3>1. r \in Surjection(R, image(R))
      BY DEF Surjection
    <3> HIDE DEF r, image
    <3> QED  BY <1>8, <3>1, FS_Surjection
  <2> QED  BY <2>1, <1>8 DEF NatOn
<1>13. /\ SumFunctionOnSet(f, R) = f[x] + SumFunctionOnSet(f, R \ {x})
       /\ SumFunctionOnSet(g, image(R)) = g[b[x]] + SumFunctionOnSet(g, image(R) \ {b[x]})
  <2> HIDE DEF image
  <2>1. NatOn(f, R)
    BY <1>8 DEF NatOn
  <2> QED  BY <1>7, <1>8, <1>11, <1>12, <2>1, SumWithout
<1> QED  BY <1>7, <1>8, <1>10, <1>11, <1>13

LEMMA SumUnion ==
    ASSUME NEW f, NEW S, IsFiniteSet(S), NEW T, IsFiniteSet(T), S \cap T = {},
           NatOn(f, S), NatOn(f, T)
    PROVE  SumFunctionOnSet(f, S \cup T) = SumFunctionOnSet(f, S) + SumFunctionOnSet(f, T)
<1> DEFINE sum(R) == SumFunctionOnSet(f, R)
           F == {R \in SUBSET T : sum(S \cup R) # sum(S) + sum(R)}
<1> SUFFICES ASSUME F # {} PROVE FALSE
  OBVIOUS
<1>1. \A R \in F : IsFiniteSet(R)
  BY FS_Subset
<1>2. PICK R \in F : \A U \in F : Cardinality(R) <= Cardinality(U)
  <2> HIDE DEF F
  <2> QED  BY <1>1, SmallestSet
<1>3. R \in SUBSET T /\ IsFiniteSet(R) /\ NatOn(f, R) /\ sum(S \cup R) # sum(S) + sum(R)
  BY <1>1 DEF NatOn
<1>4. sum({}) = 0 /\ sum(S) \in Nat
  BY SumStep, SumIsNat, FS_EmptySet
<1>5. R # {}
  <2> SUFFICES ASSUME R = {} PROVE FALSE
    OBVIOUS
  <2>1. S \cup R = S
    OBVIOUS
  <2> HIDE DEF sum
  <2> QED  BY <1>3, <1>4, <2>1
<1>6. PICK x \in R : TRUE
  BY <1>5
<1>7. R \ {x} \notin F
  <2> HIDE DEF F
  <2> QED  BY <1>1, <1>2, <1>6, SmallerSet
<1>8. sum(S \cup (R \ {x})) = sum(S) + sum(R \ {x})
  BY <1>7, <1>3
<1>9. (S \cup R) \ {x} = S \cup (R \ {x})
  BY <1>3, <1>6
<1>10. IsFiniteSet(S \cup R) /\ NatOn(f, S \cup R)
  BY <1>3, FS_Union DEF NatOn
<1>11. sum(S \cup R) = f[x] + sum((S \cup R) \ {x}) /\ sum(R) = f[x] + sum(R \ {x})
  BY <1>3, <1>6, <1>10, SumWithout
<1>12. sum(R \ {x}) \in Nat /\ f[x] \in Nat
  <2>1. IsFiniteSet(R \ {x}) /\ NatOn(f, R \ {x})
    BY <1>3, FS_Subset DEF NatOn
  <2> QED  BY <1>3, <1>6, <2>1, SumIsNat DEF NatOn
<1>13. sum(S \cup R) = f[x] + sum(S \cup (R \ {x}))
  BY <1>9, <1>11
<1>14. sum(S \cup R) = sum(S) + sum(R)
  <2> HIDE DEF sum, F
  <2> QED  BY <1>4, <1>8, <1>11, <1>12, <1>13
<1> QED  BY <1>3, <1>14

\* Two functions that differ in one place.
LEMMA SumWithLess ==
    ASSUME NEW f, NEW g, NEW S, IsFiniteSet(S), NatOn(f, S), NatOn(g, S),
           NEW x \in S, NEW n \in Nat, f[x] = g[x] + n,
           \A y \in S \ {x} : f[y] = g[y]
    PROVE  SumFunctionOnSet(f, S) = SumFunctionOnSet(g, S) + n
<1> DEFINE r == S \ {x}
<1>1. IsFiniteSet(r) /\ NatOn(f, r) /\ \A y \in r : f[y] = g[y]
  BY FS_Subset DEF NatOn
<1>2. SumFunctionOnSet(f, r) = SumFunctionOnSet(g, r) /\ SumFunctionOnSet(f, r) \in Nat
  <2> HIDE DEF r
  <2> QED  BY <1>1, SumSame, SumIsNat
<1>3. /\ SumFunctionOnSet(f, S) = f[x] + SumFunctionOnSet(f, r)
      /\ SumFunctionOnSet(g, S) = g[x] + SumFunctionOnSet(g, r)
  BY SumWithout
<1>4. g[x] \in Nat
  BY DEF NatOn
<1> HIDE DEF r
<1> QED  BY <1>2, <1>3, <1>4

LEMMA SumOfOne ==
    ASSUME NEW f, NEW x, f[x] \in Nat
    PROVE  SumFunctionOnSet(f, {x}) = f[x]
<1>1. IsFiniteSet({x}) /\ NatOn(f, {x}) /\ {x} \ {x} = {}
  BY FS_Singleton DEF NatOn
<1>2. SumFunctionOnSet(f, {}) = 0
  BY SumStep, FS_EmptySet
<1>3. SumFunctionOnSet(f, {x}) = f[x] + SumFunctionOnSet(f, {x} \ {x})
  BY <1>1, SumWithout
<1> QED  BY <1>1, <1>2, <1>3

\* The inputs or outputs of a transaction are two at most.
LEMMA SumOfElements ==
    ASSUME NEW f, DOMAIN f \subseteq TxElements, NatOn(f, DOMAIN f)
    PROVE  /\ SumFunction(f) = (IF 0 \in DOMAIN f THEN f[0] ELSE 0)
                                 + (IF 1 \in DOMAIN f THEN f[1] ELSE 0)
           /\ SumFunction(f) \in Nat
<1> DEFINE S == DOMAIN f
           sum(R) == SumFunctionOnSet(f, R)
<1>1. TxElements = {0, 1}
  OBVIOUS
<1>2. IsFiniteSet(S)
  <2>1. IsFiniteSet({0} \cup {1})
    BY FS_Singleton, FS_Union
  <2> QED  BY <1>1, <2>1, FS_Subset
<1>3. SumFunction(f) = sum(S)
  BY DEF SumFunction
<1>4. sum({}) = 0
  BY SumStep, FS_EmptySet
<1>5. CASE 0 \notin S
  <2>1. S = {} \/ S = {1}
    BY <1>1, <1>5
  <2> QED  BY <1>3, <1>4, <1>5, <2>1, SumOfOne DEF NatOn
<1>6. CASE 0 \in S
  <2>1. sum(S) = f[0] + sum(S \ {0})
    BY <1>2, <1>6, SumWithout
  <2>2. S \ {0} = IF 1 \in S THEN {1} ELSE {}
    BY <1>1
  <2>3. sum(S \ {0}) = IF 1 \in S THEN f[1] ELSE 0
    BY <1>4, <2>2, SumOfOne DEF NatOn
  <2>4. f[0] \in Nat /\ (1 \in S => f[1] \in Nat)
    BY <1>6 DEF NatOn
  <2> HIDE DEF sum, S
  <2> QED  BY <1>3, <1>6, <2>1, <2>3, <2>4 DEF S
<1> QED  BY <1>5, <1>6

-----------------------------------------------------------------------------
(* The inductive invariant, stated of any store.                           *)

StoreType(v) ==
    /\ DOMAIN v = {"cur", "header", "tx", "mempool", "token"}
    /\ v.cur \in Nat
    /\ DOMAIN v.tx \subseteq Nat \X Nat
    /\ \A k \in DOMAIN v.tx : v.tx[k] \in Tx
    /\ DOMAIN v.mempool \subseteq TxHashes
    /\ \A h \in DOMAIN v.mempool : v.mempool[h] \in Tx
    /\ DOMAIN v.token \subseteq Address \X Nat
    /\ \A k \in DOMAIN v.token : v.token[k] \in Nat
    /\ DOMAIN v.header \subseteq Nat

KeysBelowCurrent(v) == \A k \in DOMAIN v.tx : k[1] < v.cur

MempoolKeyed(v) ==
    /\ IsFiniteSet(DOMAIN v.mempool)
    /\ \A h \in DOMAIN v.mempool : TxHash(v.mempool[h]) = h

InputsNamed(v) ==
    /\ \A k \in DOMAIN v.tx : \A c \in Consumes(v.tx[k]) :
         HasTxOut(v, c) /\ c[1] < k[1]
    /\ \A h \in DOMAIN v.mempool : \A c \in Consumes(v.mempool[h]) :
         HasTxOut(v, c)

ConsumedIn(table, c) == \E k \in DOMAIN table : c \in Consumes(table[k])

ConsumedIsSpent(v) ==
    \A k \in DOMAIN v.tx, o \in TxElements :
        \/ ConsumedIn(v.tx, <<k[1], k[2], o>>)
        \/ ConsumedIn(v.mempool, <<k[1], k[2], o>>)
        => v.tx[k].outs[o].spent

\* A transaction shares an input with copies of itself only, and the mempool has
\* no copies.
Disjoint(table) ==
    \A k, l \in DOMAIN table :
        k # l => Consumes(table[k]) \cap Consumes(table[l]) = {}

Alike(tx, other) ==
    Consumes(tx) \cap Consumes(other) # {} => MerkleLeaf(tx) = MerkleLeaf(other)

SpendersAlike(v) ==
    /\ Disjoint(v.mempool)
    /\ \A k, l \in DOMAIN v.tx : Alike(v.tx[k], v.tx[l])
    /\ \A k \in DOMAIN v.tx, h \in DOMAIN v.mempool : Alike(v.tx[k], v.mempool[h])

Inv(v) ==
    /\ StoreType(v)
    /\ KeysBelowCurrent(v)
    /\ MempoolKeyed(v)
    /\ InputsNamed(v)
    /\ ConsumedIsSpent(v)
    /\ SpendersAlike(v)

-----------------------------------------------------------------------------
(* Reading and extending a store.                                          *)

LEMMA OverrideType ==
    ASSUME NEW f, NEW g, NEW K, NEW V,
           DOMAIN f \subseteq K, \A k \in DOMAIN f : f[k] \in V,
           DOMAIN g \subseteq K, \A k \in DOMAIN g : g[k] \in V
    PROVE  /\ DOMAIN Override(f, g) \subseteq K
           /\ \A k \in DOMAIN Override(f, g) : Override(f, g)[k] \in V
  BY DEF Override

\* An output that HasTxOut finds is one of the store's.
LEMMA OutputType ==
    ASSUME NEW v, StoreType(v), NEW c \in Nat \X Nat \X Nat, HasTxOut(v, c)
    PROVE  /\ c[3] \in TxElements
           /\ v.tx[TxKey(c)] \in Tx
           /\ getTxOut(v, c) \in TxOut
           /\ TokenKey(getTxOut(v, c).owner, c) \in Address \X Nat
<1>1. c[3] \in TxElements
  BY DEF HasTxOut, IsExistOutput
<1>2. v.tx[TxKey(c)] \in Tx
  BY DEF HasTxOut, StoreType
<1>3. getTxOut(v, c) \in TxOut
  BY <1>1, <1>2 DEF getTxOut, Tx
<1>4. NewTxOutPosition(c[1], c[2], c[3]) \in Nat
  BY PositionAssumption DEF NewTxOutPosition, newTxElementPosition, NewTxPosition, Uint64
<1> QED  BY <1>1, <1>2, <1>3, <1>4 DEF TokenKey, TxOut

\* The transactions of a block and the store they are added to.
AddableTo(v, txes) ==
    /\ DOMAIN txes \subseteq Nat
    /\ \A i \in DOMAIN txes : txes[i] \in Tx
    /\ \A i \in DOMAIN txes : \A c \in Consumes(txes[i]) : HasTxOut(v, c)

LEMMA PositionsBounded ==
    ASSUME NEW b \in Nat, NEW i \in Nat, NEW e \in Nat
    PROVE  /\ NewTxOutPosition(b, i, e) \in 0 .. Uint64Limit
           /\ NewTxOutPosition(b, i, e) \in Nat
  BY PositionAssumption
  DEF NewTxOutPosition, newTxElementPosition, NewTxPosition, Uint64

LEMMA SpentTokensType ==
    ASSUME NEW v, StoreType(v), NEW txes, AddableTo(v, txes)
    PROVE  LET t == SpentTokens(v, v.cur, txes)
           IN  /\ DOMAIN t \subseteq Address \X Nat
               /\ \A key \in DOMAIN t : t[key] \in Nat
<1> DEFINE keys == {TokenKey(getTxOut(v, c).owner, c) : c \in AllConsumed(txes)}
           poses(key) == {NewTxInPosition(v.cur, s[1], s[2]) :
                            s \in Spenders(v, txes, key)}
<1>1. \A c \in AllConsumed(txes) :
        /\ c \in Nat \X Nat \X Nat
        /\ HasTxOut(v, c)
        /\ \E i \in DOMAIN txes, j \in TxElements :
             txes[i].ins[j].core = c /\ ~IsNull(txes[i].ins[j])
  BY ConsumesType DEF AllConsumed, AddableTo
<1>2. keys \subseteq Address \X Nat
  BY <1>1, OutputType
<1>3. ASSUME NEW key \in keys
      PROVE  Max(poses(key)) \in Nat
  <2>1. poses(key) \in SUBSET (0 .. Uint64Limit)
    <3> SUFFICES ASSUME NEW s \in Spenders(v, txes, key)
                 PROVE  NewTxInPosition(v.cur, s[1], s[2]) \in 0 .. Uint64Limit
      OBVIOUS
    <3>1. v.cur \in Nat /\ s[1] \in Nat /\ s[2] \in Nat
      BY DEF Spenders, AddableTo, StoreType
    <3>2. NewTxInPosition(v.cur, s[1], s[2]) = NewTxOutPosition(v.cur, s[1], s[2])
      BY DEF NewTxInPosition, NewTxOutPosition
    <3> QED  BY <3>1, <3>2, PositionsBounded
  <2>2. poses(key) # {}
    <3>1. PICK c \in AllConsumed(txes) : key = TokenKey(getTxOut(v, c).owner, c)
      OBVIOUS
    <3>2. PICK i \in DOMAIN txes, j \in TxElements :
            txes[i].ins[j].core = c /\ ~IsNull(txes[i].ins[j])
      BY <1>1
    <3>3. <<i, j>> \in Spenders(v, txes, key)
      BY <3>1, <3>2 DEF Spenders
    <3> QED  BY <3>3
  <2>3. Uint64Limit \in Nat
    BY PositionAssumption
  <2> DEFINE S == poses(key)
  <2> HIDE DEF S
  <2>4. Max(S) \in S
    BY <2>1, <2>2, <2>3, MaxInSet DEF S
  <2>5. S \subseteq 0 .. Uint64Limit
    BY <2>1 DEF S
  <2> QED  BY <2>3, <2>4, <2>5 DEF S
<1>4. SpentTokens(v, v.cur, txes) = [key \in keys |-> Max(poses(key))]
  BY DEF SpentTokens
<1> HIDE DEF keys, poses
<1> QED  BY <1>2, <1>3, <1>4

LEMMA NewTokensType ==
    ASSUME NEW v, StoreType(v), NEW txes, AddableTo(v, txes)
    PROVE  LET t == NewTokens(v.cur, txes)
           IN  /\ DOMAIN t \subseteq Address \X Nat
               /\ \A key \in DOMAIN t : t[key] \in Nat
<1> DEFINE key(i, o) == TokenKey(txes[i].outs[o].owner, <<v.cur, i, o>>)
<1>1. ASSUME NEW i \in DOMAIN txes, NEW o \in TxElements
      PROVE  key(i, o) \in Address \X Nat
  <2>1. txes[i].outs[o].owner \in Address
    BY DEF AddableTo, Tx, TxOut
  <2>2. v.cur \in Nat /\ i \in Nat /\ o \in Nat
    BY DEF AddableTo, StoreType
  <2>3. NewTxOutPosition(v.cur, i, o) \in Nat
    BY <2>2, PositionsBounded
  <2> QED  BY <2>1, <2>3 DEF TokenKey
<1> DEFINE keys == {key(i, o) : i \in DOMAIN txes, o \in TxElements}
<1>2. NewTokens(v.cur, txes) = [k \in keys |-> 0]
  BY DEF NewTokens
<1>3. keys \subseteq Address \X Nat
  <2> HIDE DEF key
  <2> QED  BY <1>1
<1> HIDE DEF keys
<1> QED  BY <1>2, <1>3

LEMMA AddBlockEffect ==
    ASSUME NEW v, StoreType(v), KeysBelowCurrent(v),
           NEW txes, AddableTo(v, txes)
    PROVE  LET w == incrementCurrentBlockNumber(addBlock(v, v.cur, txes))
           IN  /\ StoreType(w)
               /\ w.cur = v.cur + 1
               /\ w.mempool = v.mempool
               /\ DOMAIN w.tx = DOMAIN v.tx \cup ({v.cur} \X (DOMAIN txes))
               /\ \A k \in DOMAIN v.tx : w.tx[k] = v.tx[k]
               /\ \A i \in DOMAIN txes : w.tx[<<v.cur, i>>] = txes[i]
<1> DEFINE w == incrementCurrentBlockNumber(addBlock(v, v.cur, txes))
           new == NewTxes(v.cur, txes)
           spent == SpentTokens(v, v.cur, txes)
           unspent == NewTokens(v.cur, txes)
           hdr == [b \in {v.cur} |-> MerkleLeaves(txes)]
<1>1. /\ DOMAIN w = {"cur", "header", "tx", "mempool", "token"}
      /\ w.cur = v.cur + 1
      /\ w.mempool = v.mempool
      /\ w.tx = Override(v.tx, new)
      /\ w.token = Override(Override(v.token, spent), unspent)
      /\ w.header = Override(v.header, hdr)
  BY DEF StoreType, incrementCurrentBlockNumber, addBlock
<1>2. /\ DOMAIN new = {v.cur} \X (DOMAIN txes)
      /\ \A i \in DOMAIN txes : new[<<v.cur, i>>] = txes[i]
      /\ \A k \in DOMAIN new : new[k] = txes[k[2]]
  BY DEF NewTxes
<1>3. DOMAIN hdr = {v.cur}
  OBVIOUS
<1>4. /\ DOMAIN spent \subseteq Address \X Nat
      /\ \A key \in DOMAIN spent : spent[key] \in Nat
      /\ DOMAIN unspent \subseteq Address \X Nat
      /\ \A key \in DOMAIN unspent : unspent[key] \in Nat
  BY SpentTokensType, NewTokensType
<1>5. \A k \in DOMAIN v.tx : k \notin {v.cur} \X (DOMAIN txes)
  BY DEF KeysBelowCurrent, StoreType
<1> HIDE DEF w, new, spent, unspent, hdr
<1>6. DOMAIN w.tx = DOMAIN v.tx \cup ({v.cur} \X (DOMAIN txes))
  BY <1>1, <1>2 DEF Override
<1>7. \A k \in DOMAIN v.tx : w.tx[k] = v.tx[k]
  BY <1>1, <1>2, <1>5 DEF Override
<1>8. \A i \in DOMAIN txes : w.tx[<<v.cur, i>>] = txes[i]
  <2>1. \A k \in DOMAIN new : w.tx[k] = new[k]
    BY <1>1 DEF Override
  <2> QED  BY <1>2, <2>1
<1>9. StoreType(w)
  <2>1. w.cur \in Nat
    BY <1>1 DEF StoreType
  <2>2. /\ DOMAIN new \subseteq Nat \X Nat
        /\ \A k \in DOMAIN new : new[k] \in Tx
    BY <1>2 DEF StoreType, AddableTo
  <2>3. /\ DOMAIN w.tx \subseteq Nat \X Nat
        /\ \A k \in DOMAIN w.tx : w.tx[k] \in Tx
    BY <1>1, <2>2, OverrideType DEF StoreType
  <2>4. LET t == Override(v.token, spent)
        IN  /\ DOMAIN t \subseteq Address \X Nat
            /\ \A key \in DOMAIN t : t[key] \in Nat
    BY <1>4, OverrideType DEF StoreType
  <2>5. /\ DOMAIN w.token \subseteq Address \X Nat
        /\ \A key \in DOMAIN w.token : w.token[key] \in Nat
    BY <1>1, <1>4, <2>4, OverrideType
  <2>6. DOMAIN w.header \subseteq Nat
    BY <1>1, <1>3 DEF Override, StoreType
  <2> QED  BY <1>1, <2>1, <2>3, <2>5, <2>6 DEF StoreType
<1> QED  BY <1>1, <1>6, <1>7, <1>8, <1>9 DEF w

-----------------------------------------------------------------------------
(***************************************************************************)
(* What a method makes of the store, apart from when it may: the steps of  *)
(* ChildChain are of these five kinds, and so are the commits of           *)
(* ChildChainTxns.  There a block may leave transactions in the mempool    *)
(* that came after it was begun, and a transaction may come to a mempool   *)
(* that is full.  Which transactions of its own a block takes out of the   *)
(* mempool does not matter here.                                           *)
(***************************************************************************)
Without(table, keys) == [k \in DOMAIN table \ keys |-> table[k]]

\* The transactions of a batch of the mempool become a block, and some of them
\* are gone from the mempool.
Sealed(v, batch, gone, order) ==
    incrementCurrentBlockNumber(
        addBlock([v EXCEPT !.mempool = Without(@, gone)], v.cur,
                 [i \in DOMAIN order |-> v.mempool[order[i]]]))

Accepted(v, tx) ==
    [v EXCEPT !.tx = SpendInputs(v, tx), !.mempool = addTxToMempool(v, tx)]

DepositEffect(v, w) ==
    /\ v.cur <= MaxBlkNum
    /\ \E owner \in Address, amount \in DepositAmounts :
        w = AddDepositBlock(v, owner, amount).db

SealEffect(v, w) ==
    /\ v.cur <= MaxBlkNum
    /\ \E batch \in SUBSET DOMAIN v.mempool :
        /\ batch # {}
        /\ Cardinality(batch) <= MaxBlockTxesNum
        /\ \E gone \in SUBSET batch :
           \E order \in Bijection(0 .. Cardinality(batch) - 1, batch) :
            w = Sealed(v, batch, gone, order)

AcceptEffect(v, w) ==
    \E tx \in Tx : ValidateTx(v, tx) = OK /\ w = Accepted(v, tx)

ConfirmEffect(v, w) ==
    \E pos \in ClientPositions, sig \in Signature :
        ConfirmTx(v, pos, sig).err = OK /\ w = ConfirmTx(v, pos, sig).db

ExitEffect(v, w) ==
    \E pos \in ClientPositions :
        ExitTxOut(v, pos).err = OK /\ w = ExitTxOut(v, pos).db

Effect(v, w) ==
    \/ DepositEffect(v, w)
    \/ SealEffect(v, w)
    \/ AcceptEffect(v, w)
    \/ ConfirmEffect(v, w)
    \/ ExitEffect(v, w)

\* The store changes by one effect at a time.
Serial == Init /\ [][Effect(db, db')]_db

-----------------------------------------------------------------------------
(* Blocks preserve the invariant.                                          *)

\* The transactions of a block come from the mempool or are deposits.
NewDeposit(tx) ==
    /\ Consumes(tx) = {}
    /\ \A o \in TxElements : ~tx.outs[o].spent
    /\ \A i \in TxElements : tx.ins[i].confSig = NullSignature

From(v, txes) ==
    \A i \in DOMAIN txes :
        \/ NewDeposit(txes[i])
        \/ \E h \in DOMAIN v.mempool : txes[i] = v.mempool[h]

\* u is v but for a mempool that has lost some transactions.
LosesPending(v, u) ==
    /\ u.tx = v.tx
    /\ u.cur = v.cur
    /\ u.token = v.token
    /\ u.header = v.header
    /\ DOMAIN u.mempool \subseteq DOMAIN v.mempool
    /\ \A h \in DOMAIN u.mempool : u.mempool[h] = v.mempool[h]

LEMMA WithoutLoses ==
    ASSUME NEW v, Inv(v), NEW gone
    PROVE  LET u == [v EXCEPT !.mempool = Without(@, gone)]
           IN  /\ LosesPending(v, u)
               /\ DOMAIN u.mempool = DOMAIN v.mempool \ gone
               /\ StoreType(u)
               /\ MempoolKeyed(u)
<1> DEFINE u == [v EXCEPT !.mempool = Without(@, gone)]
<1>1. /\ u.tx = v.tx /\ u.cur = v.cur /\ u.token = v.token /\ u.header = v.header
      /\ DOMAIN u.mempool = DOMAIN v.mempool \ gone
      /\ \A h \in DOMAIN u.mempool : u.mempool[h] = v.mempool[h]
      /\ DOMAIN u = DOMAIN v
  BY DEF Inv, StoreType, Without
<1> HIDE DEF u
<1>2. IsFiniteSet(DOMAIN u.mempool)
  BY <1>1, FS_Subset DEF Inv, MempoolKeyed
<1>3. StoreType(u) /\ MempoolKeyed(u)
  BY <1>1, <1>2 DEF Inv, StoreType, MempoolKeyed
<1> QED  BY <1>1, <1>3 DEF LosesPending, u

LEMMA BlockPreservesInv ==
    ASSUME NEW v, Inv(v),
           NEW u, LosesPending(v, u), StoreType(u), MempoolKeyed(u),
           NEW txes, AddableTo(v, txes), From(v, txes)
    PROVE  Inv(incrementCurrentBlockNumber(addBlock(u, v.cur, txes)))
<1> DEFINE w == incrementCurrentBlockNumber(addBlock(u, v.cur, txes))
<1>1. /\ u.tx = v.tx
      /\ u.cur = v.cur
      /\ DOMAIN u.mempool \subseteq DOMAIN v.mempool
      /\ \A h \in DOMAIN u.mempool : u.mempool[h] = v.mempool[h]
  BY DEF LosesPending
<1>2. /\ StoreType(w)
      /\ w.cur = v.cur + 1
      /\ w.mempool = u.mempool
      /\ DOMAIN w.tx = DOMAIN v.tx \cup ({v.cur} \X (DOMAIN txes))
      /\ \A k \in DOMAIN v.tx : w.tx[k] = v.tx[k]
      /\ \A i \in DOMAIN txes : w.tx[<<v.cur, i>>] = txes[i]
  <2>1. KeysBelowCurrent(u) /\ AddableTo(u, txes)
    BY <1>1 DEF Inv, KeysBelowCurrent, AddableTo, HasTxOut
  <2>2. StoreType(u)
    OBVIOUS
  <2> HIDE DEF w
  <2> QED  BY <1>1, <2>1, <2>2, AddBlockEffect DEF w
<1> HIDE DEF w
<1>3. /\ v.cur \in Nat
      /\ DOMAIN v.tx \subseteq Nat \X Nat
      /\ \A k \in DOMAIN v.tx : k[1] < v.cur
      /\ DOMAIN txes \subseteq Nat
  BY DEF Inv, StoreType, KeysBelowCurrent, AddableTo
\* A record of the new chain is an old one or one of the new block's; what the
\* latter consume is consumed by pending transactions.
<1>4. \A k \in DOMAIN w.tx :
        \/ k \in DOMAIN v.tx /\ w.tx[k] = v.tx[k]
        \/ \E i \in DOMAIN txes : k = <<v.cur, i>> /\ w.tx[k] = txes[i]
  BY <1>2
<1>5. \A k \in DOMAIN w.tx :
        \/ k \in DOMAIN v.tx /\ w.tx[k] = v.tx[k]
        \/ Consumes(w.tx[k]) = {}
        \/ \E h \in DOMAIN v.mempool : w.tx[k] = v.mempool[h]
  BY <1>4 DEF From, NewDeposit
<1>6. \A c : HasTxOut(v, c) => HasTxOut(w, c)
  BY <1>2 DEF HasTxOut
<1>7. KeysBelowCurrent(w)
  BY <1>2, <1>3, <1>4 DEF KeysBelowCurrent
<1>8. MempoolKeyed(w)
  BY <1>2 DEF MempoolKeyed
<1>9. \A i \in DOMAIN txes : \A c \in Consumes(txes[i]) :
        HasTxOut(v, c) /\ c[1] < v.cur
  <2> SUFFICES ASSUME NEW i \in DOMAIN txes, NEW c \in Consumes(txes[i])
               PROVE  HasTxOut(v, c) /\ c[1] < v.cur
    OBVIOUS
  <2>1. HasTxOut(v, c)
    BY DEF AddableTo
  <2> QED  BY <1>3, <2>1 DEF HasTxOut, TxKey
<1>10. InputsNamed(w)
  <2>1. ASSUME NEW k \in DOMAIN w.tx, NEW c \in Consumes(w.tx[k])
        PROVE  HasTxOut(w, c) /\ c[1] < k[1]
    BY <1>4, <1>6, <1>9, <2>1 DEF Inv, InputsNamed
  <2>2. ASSUME NEW h \in DOMAIN w.mempool, NEW c \in Consumes(w.mempool[h])
        PROVE  HasTxOut(w, c)
    BY <1>1, <1>2, <1>6, <2>2 DEF Inv, InputsNamed
  <2> QED  BY <2>1, <2>2 DEF InputsNamed
\* Nothing is consumed that was not consumed before.
<1>11. \A c : ConsumedIn(w.tx, c) \/ ConsumedIn(w.mempool, c)
                => ConsumedIn(v.tx, c) \/ ConsumedIn(v.mempool, c)
  BY <1>1, <1>2, <1>5 DEF ConsumedIn
<1>12. ConsumedIsSpent(w)
  <2> SUFFICES ASSUME NEW k \in DOMAIN w.tx, NEW o \in TxElements,
                      \/ ConsumedIn(v.tx, <<k[1], k[2], o>>)
                      \/ ConsumedIn(v.mempool, <<k[1], k[2], o>>)
               PROVE  w.tx[k].outs[o].spent
    BY <1>11 DEF ConsumedIsSpent
  <2>1. CASE k \in DOMAIN v.tx
    BY <1>2, <2>1 DEF Inv, ConsumedIsSpent
  <2>2. CASE k \notin DOMAIN v.tx
    <3>1. HasTxOut(v, <<k[1], k[2], o>>)
      BY DEF Inv, InputsNamed, ConsumedIn
    <3>2. PICK i \in DOMAIN txes : k = <<v.cur, i>>
      BY <1>4, <2>2
    <3> QED  BY <2>2, <3>1, <3>2 DEF HasTxOut, TxKey
  <2> QED  BY <2>1, <2>2
<1>13. SpendersAlike(w)
  <2>1. Disjoint(w.mempool)
    BY <1>1, <1>2 DEF Inv, SpendersAlike, Disjoint
  <2>2. \A g, h \in DOMAIN v.mempool : Alike(v.mempool[g], v.mempool[h])
    BY DEF Inv, SpendersAlike, Disjoint, Alike
  <2>3. \A k \in DOMAIN v.tx, h \in DOMAIN v.mempool :
          Alike(v.tx[k], v.mempool[h]) /\ Alike(v.mempool[h], v.tx[k])
    BY DEF Inv, SpendersAlike, Alike
  <2>4. \A k \in DOMAIN w.tx, h \in DOMAIN v.mempool : Alike(w.tx[k], v.mempool[h])
    <3> SUFFICES ASSUME NEW k \in DOMAIN w.tx, NEW h \in DOMAIN v.mempool
                 PROVE  Alike(w.tx[k], v.mempool[h])
      OBVIOUS
    <3>1. CASE Consumes(w.tx[k]) = {}
      BY <3>1 DEF Alike
    <3> QED  BY <1>5, <2>2, <2>3, <3>1
  <2>5. \A k, l \in DOMAIN w.tx : Alike(w.tx[k], w.tx[l])
    <3> SUFFICES ASSUME NEW k \in DOMAIN w.tx, NEW l \in DOMAIN w.tx
                 PROVE  Alike(w.tx[k], w.tx[l])
      OBVIOUS
    <3>1. CASE k \in DOMAIN v.tx /\ l \in DOMAIN v.tx
      BY <1>2, <3>1 DEF Inv, SpendersAlike
    <3>2. CASE Consumes(w.tx[k]) = {} \/ Consumes(w.tx[l]) = {}
      BY <3>2 DEF Alike
    <3>3. CASE \E h \in DOMAIN v.mempool : w.tx[l] = v.mempool[h]
      BY <2>4, <3>3
    <3>4. CASE /\ \E h \in DOMAIN v.mempool : w.tx[k] = v.mempool[h]
               /\ l \in DOMAIN v.tx
      BY <1>2, <2>3, <3>4
    <3> QED  BY <1>5, <3>1, <3>2, <3>3, <3>4
  <2> QED  BY <1>1, <1>2, <2>1, <2>4, <2>5 DEF SpendersAlike
<1> QED
  BY <1>2, <1>7, <1>8, <1>10, <1>12, <1>13 DEF Inv, w

LEMMA InitInv == Inv(NewChildChain)
<1> DEFINE v == NewChildChain
<1>1. /\ DOMAIN v = {"cur", "header", "tx", "mempool", "token"}
      /\ v.cur = 1
      /\ DOMAIN v.tx = {}
      /\ DOMAIN v.mempool = {}
      /\ DOMAIN v.token = {}
      /\ DOMAIN v.header = {}
  BY DEF NewChildChain, FirstBlockNumber
<1> HIDE DEF v
<1>2. StoreType(v)
  BY <1>1 DEF StoreType
<1>3. MempoolKeyed(v)
  BY <1>1, FS_EmptySet DEF MempoolKeyed
<1> QED
  BY <1>1, <1>2, <1>3 DEF v, Inv, KeysBelowCurrent, InputsNamed, ConsumedIsSpent,
     SpendersAlike, Disjoint, ConsumedIn

LEMMA DepositTxEffect ==
    ASSUME NEW owner \in Address, NEW amount \in Nat
    PROVE  LET tx == DepositTx(owner, amount)
           IN  /\ tx \in Tx
               /\ Consumes(tx) = {}
               /\ \A o \in TxElements : ~tx.outs[o].spent
               /\ \A i \in TxElements : tx.ins[i].confSig = NullSignature
<1> DEFINE tx == DepositTx(owner, amount)
           ins == [i \in TxElements |-> NewTxIn(NullTxInCore)]
           outs == [o \in TxElements |-> IF o = 0 THEN NewTxOut(owner, amount)
                                         ELSE NewTxOut(NullAddress, 0)]
<1>1. tx = [ins |-> ins, outs |-> outs]
  BY DEF DepositTx, SetOutput, NewTx
<1>2. NewTxIn(NullTxInCore) \in TxIn
  BY DEF NewTxIn, NullTxInCore, TxIn, TxInCore, Signature
<1>3. /\ NewTxOut(owner, amount) \in TxOut
      /\ NewTxOut(NullAddress, 0) \in TxOut
  BY DEF NewTxOut, TxOut, Address
<1>4. tx \in Tx
  BY <1>1, <1>2, <1>3 DEF Tx
<1>5. Consumes(tx) = {}
  BY <1>1 DEF Consumes, NewTxIn
<1>6. \A o \in TxElements : ~tx.outs[o].spent
  BY <1>1 DEF NewTxOut
<1>7. \A i \in TxElements : tx.ins[i].confSig = NullSignature
  BY <1>1 DEF NewTxIn
<1> QED  BY <1>4, <1>5, <1>6, <1>7

LEMMA DepositPreservesInv ==
    ASSUME NEW v, Inv(v), NEW owner \in Address, NEW amount \in Nat
    PROVE  Inv(AddDepositBlock(v, owner, amount).db)
<1> DEFINE txes == [i \in {0} |-> DepositTx(owner, amount)]
<1>1. /\ DOMAIN txes = {0}
      /\ NewDeposit(txes[0])
      /\ txes[0] \in Tx
  BY DepositTxEffect DEF NewDeposit
<1>2. AddDepositBlock(v, owner, amount).db
        = incrementCurrentBlockNumber(addBlock(v, v.cur, txes))
  BY DEF AddDepositBlock, Done
<1> HIDE DEF txes
<1>3. AddableTo(v, txes) /\ From(v, txes)
  BY <1>1 DEF AddableTo, From, NewDeposit
<1>4. LosesPending(v, v) /\ StoreType(v) /\ MempoolKeyed(v)
  BY DEF Inv, LosesPending
<1> QED  BY <1>2, <1>3, <1>4, BlockPreservesInv

\* What a batch of the mempool, in some order, is.
LEMMA BatchInOrder ==
    ASSUME NEW v, Inv(v), NEW batch \in SUBSET DOMAIN v.mempool,
           NEW order \in Bijection(0 .. Cardinality(batch) - 1, batch)
    PROVE  LET txes == [i \in DOMAIN order |-> v.mempool[order[i]]]
           IN  /\ Cardinality(batch) \in Nat
               /\ DOMAIN txes = 0 .. Cardinality(batch) - 1
               /\ \A i \in DOMAIN txes : \E h \in DOMAIN v.mempool : txes[i] = v.mempool[h]
               /\ AddableTo(v, txes)
               /\ From(v, txes)
<1> DEFINE txes == [i \in DOMAIN order |-> v.mempool[order[i]]]
<1>1. Cardinality(batch) \in Nat
  BY FS_Subset, FS_CardinalityType DEF Inv, MempoolKeyed
<1>2. /\ DOMAIN order = 0 .. Cardinality(batch) - 1
      /\ \A i \in DOMAIN order : order[i] \in DOMAIN v.mempool
  BY DEF Bijection, Injection
<1>3. /\ DOMAIN txes = DOMAIN order
      /\ \A i \in DOMAIN txes : \E h \in DOMAIN v.mempool : txes[i] = v.mempool[h]
  BY <1>2
<1> HIDE DEF txes
<1>4. AddableTo(v, txes)
  <2>1. DOMAIN txes \subseteq Nat
    BY <1>1, <1>2, <1>3
  <2>2. \A i \in DOMAIN txes : txes[i] \in Tx
    BY <1>3 DEF Inv, StoreType
  <2>3. \A i \in DOMAIN txes : \A c \in Consumes(txes[i]) : HasTxOut(v, c)
    BY <1>3 DEF Inv, InputsNamed
  <2> QED  BY <2>1, <2>2, <2>3 DEF AddableTo
<1>5. From(v, txes)
  BY <1>3 DEF From
<1> QED  BY <1>1, <1>2, <1>3, <1>4, <1>5 DEF txes

LEMMA SealedPreservesInv ==
    ASSUME NEW v, Inv(v), NEW batch \in SUBSET DOMAIN v.mempool, NEW gone,
           NEW order \in Bijection(0 .. Cardinality(batch) - 1, batch)
    PROVE  Inv(Sealed(v, batch, gone, order))
<1> DEFINE txes == [i \in DOMAIN order |-> v.mempool[order[i]]]
           u == [v EXCEPT !.mempool = Without(@, gone)]
<1>1. Sealed(v, batch, gone, order)
        = incrementCurrentBlockNumber(addBlock(u, v.cur, txes))
  BY DEF Sealed
<1>2. AddableTo(v, txes) /\ From(v, txes)
  BY BatchInOrder
<1>3. LosesPending(v, u) /\ StoreType(u) /\ MempoolKeyed(u)
  BY WithoutLoses
<1> HIDE DEF txes, u
<1> QED  BY <1>1, <1>2, <1>3, BlockPreservesInv

-----------------------------------------------------------------------------
(* Accepting a transaction preserves the invariant.                        *)

LEMMA ValidateTxOK ==
    ASSUME NEW v, NEW tx \in Tx, ValidateTx(v, tx) = OK
    PROVE  /\ Consumes(tx) # {}
           /\ \A c \in Consumes(tx) : HasTxOut(v, c) /\ ~getTxOut(v, c).spent
           /\ \A i \in TxElements : InputError(v, tx.ins[i]) = OK
           /\ ~(OutAmount(tx) > InAmount(v, tx))
<1> DEFINE bad == {i \in TxElements : InputError(v, tx.ins[i]) # OK}
<1>1. bad = {}
  <2> SUFFICES ASSUME bad # {}
               PROVE  FALSE
    OBVIOUS
  <2>1. ValidateTx(v, tx) = InputError(v, tx.ins[Min(bad)])
    BY DEF ValidateTx
  <2>2. bad \in SUBSET Nat
    OBVIOUS
  <2>3. Min(bad) \in bad
    <3> HIDE DEF bad
    <3> QED  BY <2>2, MinIsLeast
  <2> QED  BY <2>1, <2>3
<1>2. Consumes(tx) # {} /\ ~(OutAmount(tx) > InAmount(v, tx))
  BY <1>1 DEF ValidateTx, OK
<1>3. ASSUME NEW c \in Consumes(tx)
      PROVE  HasTxOut(v, c) /\ ~getTxOut(v, c).spent
  <2>1. PICK i \in TxElements : tx.ins[i].core = c /\ ~IsNull(tx.ins[i])
    BY ConsumesType
  <2>2. InputError(v, tx.ins[i]) = OK
    BY <1>1
  <2> QED  BY <2>1, <2>2 DEF InputError, TxOutError, OK
<1> QED  BY <1>1, <1>2, <1>3

LEMMA TxHashEffect ==
    ASSUME NEW tx \in Tx
    PROVE  /\ TxHash(tx) \in TxHashes
           /\ \A new \in Tx : TxHash(new) = TxHash(tx)
                                => Consumes(new) = Consumes(tx)
<1>1. TxHash(tx) \in TxHashes
  BY DEF TxHash, TxHashes, OutputCore, Tx, TxIn, TxOut
<1>2. ASSUME NEW new \in Tx, TxHash(new) = TxHash(tx)
      PROVE  Consumes(new) = Consumes(tx)
  <2>1. [i \in TxElements |-> new.ins[i].core] = [i \in TxElements |-> tx.ins[i].core]
    BY <1>2 DEF TxHash
  <2>2. \A i \in TxElements : new.ins[i].core = tx.ins[i].core
    BY <2>1
  <2> QED  BY <2>2, ConsumesCores
<1> QED  BY <1>1, <1>2

\* A leaf covers the inputs but for their confirmations, and the outputs but for
\* their flags.
LEMMA SameLeaf ==
    ASSUME NEW tx, NEW new,
           \A i \in TxElements :
             new.ins[i].core = tx.ins[i].core /\ new.ins[i].sig = tx.ins[i].sig,
           \A o \in TxElements :
             /\ new.outs[o].owner = tx.outs[o].owner
             /\ new.outs[o].amount = tx.outs[o].amount
    PROVE  MerkleLeaf(new) = MerkleLeaf(tx)
  BY DEF MerkleLeaf, TxHash, OutputCore

\* Transactions with the same leaf have the same inputs.
LEMMA LeafConsumes ==
    ASSUME NEW tx \in Tx, NEW new \in Tx, MerkleLeaf(new) = MerkleLeaf(tx)
    PROVE  Consumes(new) = Consumes(tx)
  BY TxHashEffect DEF MerkleLeaf

LEMMA AlikeKept ==
    ASSUME NEW tx, NEW new, Consumes(new) = Consumes(tx), MerkleLeaf(new) = MerkleLeaf(tx),
           NEW other, NEW newer, Consumes(newer) = Consumes(other),
           MerkleLeaf(newer) = MerkleLeaf(other), Alike(tx, other)
    PROVE  Alike(new, newer)
  BY DEF Alike

LEMMA SpendInputsEffect ==
    ASSUME NEW v, StoreType(v), NEW tx \in Tx
    PROVE  LET new == SpendInputs(v, tx)
           IN  /\ DOMAIN new = DOMAIN v.tx
               /\ \A k \in DOMAIN v.tx :
                    /\ new[k] \in Tx
                    /\ new[k].ins = v.tx[k].ins
                    /\ Consumes(new[k]) = Consumes(v.tx[k])
                    /\ MerkleLeaf(new[k]) = MerkleLeaf(v.tx[k])
                    /\ \A o \in TxElements :
                         /\ new[k].outs[o].spent
                              <=> \/ v.tx[k].outs[o].spent
                                  \/ <<k[1], k[2], o>> \in Consumes(tx)
                         /\ SameButSpent(v.tx[k].outs[o], new[k].outs[o])
<1> DEFINE new == SpendInputs(v, tx)
           indexes(k) == {c[3] : c \in {c \in Consumes(tx) : TxKey(c) = k}}
<1>1. new = [k \in DOMAIN v.tx |-> SpendOutputs(v.tx[k], indexes(k))]
  BY DEF SpendInputs
<1>2. ASSUME NEW k \in DOMAIN v.tx
      PROVE  /\ new[k] \in Tx
             /\ new[k].ins = v.tx[k].ins
             /\ Consumes(new[k]) = Consumes(v.tx[k])
             /\ MerkleLeaf(new[k]) = MerkleLeaf(v.tx[k])
             /\ \A o \in TxElements :
                  /\ new[k].outs[o].spent
                       <=> v.tx[k].outs[o].spent \/ o \in indexes(k)
                  /\ SameButSpent(v.tx[k].outs[o], new[k].outs[o])
  <2>1. v.tx[k] \in Tx
    BY DEF StoreType
  <2>2. new[k] = SpendOutputs(v.tx[k], indexes(k))
    BY <1>1
  <2> HIDE DEF new, indexes
  <2>3. /\ new[k] \in Tx
        /\ new[k].ins = v.tx[k].ins
        /\ \A o \in TxElements :
             /\ new[k].outs[o].spent <=> v.tx[k].outs[o].spent \/ o \in indexes(k)
             /\ SameButSpent(v.tx[k].outs[o], new[k].outs[o])
    BY <2>1, <2>2, SpendOutputsEffect
  <2>4. MerkleLeaf(new[k]) = MerkleLeaf(v.tx[k])
    BY <2>3, SameLeaf DEF SameButSpent
  <2> QED  BY <2>3, <2>4, ConsumesCores
<1>3. ASSUME NEW k \in DOMAIN v.tx, NEW o \in TxElements
      PROVE  o \in indexes(k) <=> <<k[1], k[2], o>> \in Consumes(tx)
  <2>1. k \in Nat \X Nat
    BY DEF StoreType
  <2>2. \A c \in Consumes(tx) : c \in Nat \X Nat \X Nat
    BY ConsumesType
  <2>3. \A c \in Consumes(tx) : TxKey(c) = k /\ c[3] = o => c = <<k[1], k[2], o>>
    BY <2>1, <2>2 DEF TxKey
  <2>4. <<k[1], k[2], o>> \in Consumes(tx) => o \in indexes(k)
    <3>1. TxKey(<<k[1], k[2], o>>) = k
      BY <2>1 DEF TxKey
    <3> QED  BY <3>1
  <2> QED  BY <2>3, <2>4
<1> HIDE DEF indexes
<1>4. DOMAIN new = DOMAIN v.tx
  BY <1>1
<1> HIDE DEF new
<1> QED  BY <1>2, <1>3, <1>4 DEF new

LEMMA AcceptedPreservesInv ==
    ASSUME NEW v, Inv(v), NEW tx \in Tx, ValidateTx(v, tx) = OK
    PROVE  Inv(Accepted(v, tx))
<1> DEFINE w == Accepted(v, tx)
           H == TxHash(tx)
<1>1. tx \in Tx
  OBVIOUS
<1>2. ValidateTx(v, tx) = OK
  OBVIOUS
<1>3. w = [v EXCEPT !.tx = SpendInputs(v, tx), !.mempool = addTxToMempool(v, tx)]
  BY DEF Accepted
<1>4. /\ DOMAIN w = {"cur", "header", "tx", "mempool", "token"}
      /\ w.cur = v.cur
      /\ w.tx = SpendInputs(v, tx)
      /\ w.mempool = addTxToMempool(v, tx)
      /\ w.token = v.token
      /\ w.header = v.header
  BY <1>3 DEF Inv, StoreType
<1> HIDE DEF w
<1>5. /\ DOMAIN w.tx = DOMAIN v.tx
      /\ \A k \in DOMAIN v.tx :
           /\ w.tx[k] \in Tx
           /\ Consumes(w.tx[k]) = Consumes(v.tx[k])
           /\ MerkleLeaf(w.tx[k]) = MerkleLeaf(v.tx[k])
           /\ \A o \in TxElements :
                w.tx[k].outs[o].spent
                  <=> \/ v.tx[k].outs[o].spent
                      \/ <<k[1], k[2], o>> \in Consumes(tx)
  BY <1>1, <1>4, SpendInputsEffect DEF Inv
<1>6. /\ H \in TxHashes
      /\ \A new \in Tx : TxHash(new) = H => Consumes(new) = Consumes(tx)
  BY <1>1, TxHashEffect
<1> HIDE DEF H
<1>7. /\ DOMAIN w.mempool = DOMAIN v.mempool \cup {H}
      /\ w.mempool[H] = tx
      /\ \A h \in DOMAIN v.mempool \ {H} : w.mempool[h] = v.mempool[h]
  BY <1>4 DEF addTxToMempool, Override, H
\* The transaction's inputs exist and nobody consumes them yet.
<1>8. \A c \in Consumes(tx) :
        /\ c \in Nat \X Nat \X Nat
        /\ HasTxOut(v, c)
        /\ ~ConsumedIn(v.tx, c)
        /\ ~ConsumedIn(v.mempool, c)
  <2> SUFFICES ASSUME NEW c \in Consumes(tx)
               PROVE  /\ c \in Nat \X Nat \X Nat
                      /\ HasTxOut(v, c)
                      /\ ~ConsumedIn(v.tx, c)
                      /\ ~ConsumedIn(v.mempool, c)
    OBVIOUS
  <2>1. c \in Nat \X Nat \X Nat /\ HasTxOut(v, c) /\ ~getTxOut(v, c).spent
    BY <1>1, <1>2, ConsumesType, ValidateTxOK
  <2> DEFINE k == TxKey(c)
             o == c[3]
  <2>2. k \in DOMAIN v.tx /\ o \in TxElements /\ c = <<k[1], k[2], o>>
    BY <2>1, OutputType DEF Inv, HasTxOut, TxKey
  <2>3. ~v.tx[k].outs[o].spent
    BY <2>1 DEF getTxOut
  <2> HIDE DEF k, o
  <2>4. ~ConsumedIn(v.tx, c) /\ ~ConsumedIn(v.mempool, c)
    BY <2>2, <2>3 DEF Inv, ConsumedIsSpent
  <2> QED  BY <2>1, <2>4
\* Hence it is not in the mempool already.
<1>9. H \notin DOMAIN v.mempool
  <2> SUFFICES ASSUME H \in DOMAIN v.mempool
               PROVE  FALSE
    OBVIOUS
  <2>1. v.mempool[H] \in Tx /\ TxHash(v.mempool[H]) = H
    BY DEF Inv, StoreType, MempoolKeyed
  <2>2. Consumes(v.mempool[H]) = Consumes(tx)
    BY <1>6, <2>1
  <2>3. PICK c : c \in Consumes(tx)
    BY <1>1, <1>2, ValidateTxOK
  <2> QED  BY <1>8, <2>2, <2>3 DEF ConsumedIn
<1>10. \A h \in DOMAIN v.mempool : w.mempool[h] = v.mempool[h]
  BY <1>7, <1>9
<1>11. \A c : ConsumedIn(w.tx, c) <=> ConsumedIn(v.tx, c)
  BY <1>5 DEF ConsumedIn
<1>12. \A c : ConsumedIn(w.mempool, c)
                <=> ConsumedIn(v.mempool, c) \/ c \in Consumes(tx)
  BY <1>7, <1>10 DEF ConsumedIn
<1>13. StoreType(w)
  BY <1>4, <1>5, <1>6, <1>7, <1>10 DEF Inv, StoreType
<1>14. KeysBelowCurrent(w)
  BY <1>4, <1>5 DEF Inv, KeysBelowCurrent
<1>15. MempoolKeyed(w)
  <2>1. IsFiniteSet(DOMAIN w.mempool)
    BY <1>7, FS_AddElement DEF Inv, MempoolKeyed
  <2>2. TxHash(tx) = H
    BY DEF H
  <2> QED  BY <1>7, <1>10, <2>1, <2>2 DEF Inv, MempoolKeyed
<1>16. InputsNamed(w)
  <2>1. \A c : HasTxOut(v, c) => HasTxOut(w, c)
    BY <1>5 DEF HasTxOut
  <2> QED  BY <1>5, <1>7, <1>8, <1>10, <2>1 DEF Inv, InputsNamed
<1>17. ConsumedIsSpent(w)
  BY <1>5, <1>11, <1>12 DEF Inv, ConsumedIsSpent
<1>18. SpendersAlike(w)
  <2>1. \A k, l \in DOMAIN w.tx : Alike(w.tx[k], w.tx[l])
    BY <1>5 DEF Inv, SpendersAlike, Alike
  <2>2. Disjoint(w.mempool)
    <3> SUFFICES ASSUME NEW g \in DOMAIN w.mempool, NEW h \in DOMAIN w.mempool,
                        g # h,
                        NEW c \in Consumes(w.mempool[g]),
                        c \in Consumes(w.mempool[h])
                 PROVE  FALSE
      BY DEF Disjoint
    <3>1. CASE g = H
      BY <1>7, <1>8, <1>10, <3>1 DEF ConsumedIn
    <3>2. CASE h = H
      BY <1>7, <1>8, <1>10, <3>2 DEF ConsumedIn
    <3>3. CASE g # H /\ h # H
      BY <1>7, <1>10, <3>3 DEF Inv, SpendersAlike, Disjoint
    <3> QED  BY <3>1, <3>2, <3>3
  <2>3. ASSUME NEW k \in DOMAIN w.tx, NEW h \in DOMAIN w.mempool
        PROVE  Alike(w.tx[k], w.mempool[h])
    <3>1. CASE h = H
      BY <1>5, <1>7, <1>8, <3>1 DEF Alike, ConsumedIn
    <3>2. CASE h # H
      BY <1>5, <1>7, <1>10, <3>2, AlikeKept DEF Inv, SpendersAlike
    <3> QED  BY <3>1, <3>2
  <2> QED  BY <2>1, <2>2, <2>3 DEF SpendersAlike
<1> QED
  BY <1>13, <1>14, <1>15, <1>16, <1>17, <1>18 DEF Inv, w

-----------------------------------------------------------------------------
(* Rewriting one record preserves the invariant.                           *)

LEMMA setTxPreservesInv ==
    ASSUME NEW v, Inv(v), NEW k \in DOMAIN v.tx,
           NEW new \in Tx, MerkleLeaf(new) = MerkleLeaf(v.tx[k]),
           \A o \in TxElements : (new.outs[o].spent <=> v.tx[k].outs[o].spent)
    PROVE  Inv(setTx(v, k, new))
<1> DEFINE w == setTx(v, k, new)
<1>1. /\ DOMAIN w = {"cur", "header", "tx", "mempool", "token"}
      /\ w.cur = v.cur
      /\ w.tx = [v.tx EXCEPT ![k] = new]
      /\ w.mempool = v.mempool
      /\ w.token = v.token
      /\ w.header = v.header
  BY DEF Inv, StoreType, setTx
<1> HIDE DEF w
<1>0. Consumes(new) = Consumes(v.tx[k])
  BY LeafConsumes DEF Inv, StoreType
<1>2. /\ DOMAIN w.tx = DOMAIN v.tx
      /\ \A l \in DOMAIN v.tx :
           /\ w.tx[l] \in Tx
           /\ Consumes(w.tx[l]) = Consumes(v.tx[l])
           /\ MerkleLeaf(w.tx[l]) = MerkleLeaf(v.tx[l])
           /\ \A o \in TxElements : (w.tx[l].outs[o].spent <=> v.tx[l].outs[o].spent)
  BY <1>0, <1>1 DEF Inv, StoreType
<1>3. \A c : HasTxOut(v, c) => HasTxOut(w, c)
  BY <1>2 DEF HasTxOut
<1>4. \A c : ConsumedIn(w.tx, c) <=> ConsumedIn(v.tx, c)
  BY <1>2 DEF ConsumedIn
<1>5. StoreType(w)
  BY <1>1, <1>2 DEF Inv, StoreType
<1>6. KeysBelowCurrent(w) /\ MempoolKeyed(w)
  BY <1>1, <1>2 DEF Inv, KeysBelowCurrent, MempoolKeyed
<1>7. InputsNamed(w)
  BY <1>1, <1>2, <1>3 DEF Inv, InputsNamed
<1>8. ConsumedIsSpent(w)
  BY <1>1, <1>2, <1>4 DEF Inv, ConsumedIsSpent
<1>9. SpendersAlike(w)
  <2>1. \A l, m \in DOMAIN w.tx : Alike(w.tx[l], w.tx[m])
    BY <1>2 DEF Inv, SpendersAlike, Alike
  <2>2. Disjoint(w.mempool)
    BY <1>1 DEF Inv, SpendersAlike
  <2>3. \A l \in DOMAIN w.tx, h \in DOMAIN w.mempool : Alike(w.tx[l], w.mempool[h])
    <3> SUFFICES ASSUME NEW l \in DOMAIN w.tx, NEW h \in DOMAIN w.mempool
                 PROVE  Alike(w.tx[l], w.mempool[h])
      OBVIOUS
    <3>1. Alike(v.tx[l], v.mempool[h]) /\ w.mempool[h] = v.mempool[h]
      BY <1>1, <1>2 DEF Inv, SpendersAlike
    <3>2. Consumes(w.tx[l]) = Consumes(v.tx[l]) /\ MerkleLeaf(w.tx[l]) = MerkleLeaf(v.tx[l])
      BY <1>2
    <3> QED  BY <3>1, <3>2 DEF Alike
  <2> QED  BY <2>1, <2>2, <2>3 DEF SpendersAlike
<1> QED  BY <1>5, <1>6, <1>7, <1>8, <1>9 DEF Inv, w

LEMMA ParsedType ==
    ASSUME NEW pos \in Nat, ~ParsePanics(pos)
    PROVE  ParseTxInPosition(pos) \in Nat \X Nat \X Nat
<1> DEFINE txPos == pos \div TxPositionOffset
<1>1. txPos \in Nat \ {0}
  BY PositionAssumption DEF ParsePanics
<1> HIDE DEF txPos
<1>2. /\ txPos \div BlockPositionOffset \in Nat
      /\ txPos % BlockPositionOffset \in Nat
      /\ pos % txPos \in Nat
  BY <1>1, PositionAssumption
<1> QED
  BY <1>2 DEF txPos, ParseTxInPosition, parseTxElementPosition, ParseTxPosition

LEMMA ConfirmTxPreservesInv ==
    ASSUME NEW v, Inv(v), NEW pos \in Nat, NEW sig \in Signature,
           ConfirmTx(v, pos, sig).err = OK
    PROVE  Inv(ConfirmTx(v, pos, sig).db)
<1> DEFINE in == ParseTxInPosition(pos)
           k == TxKey(in)
           new == SetConfirmationSignature(v.tx[k], in[3], sig)
<1>1. /\ ~ParsePanics(pos)
      /\ k \in DOMAIN v.tx
      /\ IsExistInput(in[3])
      /\ ConfirmTx(v, pos, sig).db = setTx(v, k, new)
  BY DEF ConfirmTx, Failed, Done, OK
<1>2. in[3] \in TxElements
  BY <1>1, ParsedType DEF IsExistInput
<1>3. v.tx[k] \in Tx
  BY <1>1 DEF Inv, StoreType
<1> HIDE DEF in, k
<1>4. /\ new \in Tx
      /\ \A i \in TxElements : /\ new.ins[i].core = v.tx[k].ins[i].core
                               /\ new.ins[i].sig = v.tx[k].ins[i].sig
      /\ new.outs = v.tx[k].outs
  <2> DEFINE old == v.tx[k]
             j == in[3]
  <2>1. old \in Tx /\ j \in TxElements /\ sig \in Signature
    BY <1>2, <1>3
  <2> HIDE DEF old, j
  <2>2. LET w == SetConfirmationSignature(old, j, sig)
        IN  /\ w \in Tx
            /\ \A i \in TxElements : /\ w.ins[i].core = old.ins[i].core
                                     /\ w.ins[i].sig = old.ins[i].sig
            /\ w.outs = old.outs
    BY <2>1, ConfirmationEffect
  <2> QED  BY <2>2 DEF old, j
<1> HIDE DEF new
<1>5. MerkleLeaf(new) = MerkleLeaf(v.tx[k])
  BY <1>4, SameLeaf
<1> QED  BY <1>1, <1>4, <1>5, setTxPreservesInv

LEMMA ExitTxOutPreservesInv ==
    ASSUME NEW v, Inv(v), NEW pos \in Nat, ExitTxOut(v, pos).err = OK
    PROVE  Inv(ExitTxOut(v, pos).db)
<1> DEFINE out == ParseTxInPosition(pos)
           k == TxKey(out)
           new == ExitOutput(v.tx[k], out[3])
<1>1. /\ ~ParsePanics(pos)
      /\ k \in DOMAIN v.tx
      /\ IsExistOutput(out[3])
      /\ ExitTxOut(v, pos).db = setTx(v, k, new)
  BY DEF ExitTxOut, Failed, Done, OK
<1>2. out[3] \in TxElements
  BY <1>1, ParsedType DEF IsExistOutput
<1>3. v.tx[k] \in Tx
  BY <1>1 DEF Inv, StoreType
<1> HIDE DEF out, k
<1>4. /\ new \in Tx
      /\ new.ins = v.tx[k].ins
      /\ \A o \in TxElements :
           /\ new.outs[o].spent <=> v.tx[k].outs[o].spent
           /\ new.outs[o].owner = v.tx[k].outs[o].owner
           /\ new.outs[o].amount = v.tx[k].outs[o].amount
  BY <1>2, <1>3, ExitOutputEffect
<1> HIDE DEF new
<1>5. MerkleLeaf(new) = MerkleLeaf(v.tx[k])
  BY <1>4, SameLeaf
<1> QED  BY <1>1, <1>4, <1>5, setTxPreservesInv

-----------------------------------------------------------------------------
(* The theorems.                                                           *)

LEMMA EffectPreservesInv ==
    ASSUME NEW v, Inv(v), NEW w, Effect(v, w)
    PROVE  Inv(w)
<1>1. CASE DepositEffect(v, w)
  BY <1>1, DepositPreservesInv, ChildChainAssumption DEF DepositEffect
<1>2. CASE SealEffect(v, w)
  BY <1>2, SealedPreservesInv DEF SealEffect
<1>3. CASE AcceptEffect(v, w)
  BY <1>3, AcceptedPreservesInv DEF AcceptEffect
<1>4. CASE ConfirmEffect(v, w)
  BY <1>4, ConfirmTxPreservesInv, ChildChainAssumption DEF ConfirmEffect
<1>5. CASE ExitEffect(v, w)
  BY <1>5, ExitTxOutPreservesInv, ChildChainAssumption DEF ExitEffect
<1> QED  BY <1>1, <1>2, <1>3, <1>4, <1>5 DEF Effect

\* A block is of the whole mempool when nothing overlaps with it.
LEMMA AddBlockSeals ==
    ASSUME NEW v, Inv(v), NEW order \in IterationOrders(v), AddBlock(v, order).err = OK
    PROVE  /\ DOMAIN v.mempool # {}
           /\ Cardinality(DOMAIN v.mempool) <= MaxBlockTxesNum
           /\ \E gone \in SUBSET DOMAIN v.mempool :
                AddBlock(v, order).db = Sealed(v, DOMAIN v.mempool, gone, order)
<1> DEFINE txes == [i \in DOMAIN order |-> v.mempool[order[i]]]
           kept == {order[i] : i \in {i \in DOMAIN order : KeysAfter(v, i) >= PrefetchSize}}
           gone == DOMAIN v.mempool \ kept
<1>1. /\ DOMAIN v.mempool # {}
      /\ ~(Cardinality(DOMAIN v.mempool) > MaxBlockTxesNum)
      /\ AddBlock(v, order).db
           = incrementCurrentBlockNumber(addBlock(fixCurrentBlock(v, order), v.cur, txes))
  BY DEF AddBlock, Failed, Done, OK
<1>2. Cardinality(DOMAIN v.mempool) \in Nat
  BY FS_CardinalityType DEF Inv, MempoolKeyed
<1>3. fixCurrentBlock(v, order) = [v EXCEPT !.mempool = Without(@, gone)]
  <2>1. fixCurrentBlock(v, order) = [v EXCEPT !.mempool = Restrict(@, kept)]
    BY DEF fixCurrentBlock
  <2>3. kept \subseteq DOMAIN v.mempool
    BY DEF IterationOrders, Bijection, Injection
  <2> HIDE DEF kept
  <2>2. kept = DOMAIN v.mempool \ gone
    BY <2>3
  <2>4. Restrict(v.mempool, kept) = Without(v.mempool, gone)
    BY <2>2 DEF Restrict, Without
  <2> QED  BY <2>1, <2>4
<1>4. gone \in SUBSET DOMAIN v.mempool
  OBVIOUS
<1> HIDE DEF gone, kept
<1>5. AddBlock(v, order).db = Sealed(v, DOMAIN v.mempool, gone, order)
  BY <1>1, <1>3 DEF Sealed
<1> QED  BY <1>1, <1>2, <1>4, <1>5, ChildChainAssumption

LEMMA AddTxToMempoolAccepts ==
    ASSUME NEW v, NEW tx, AddTxToMempool(v, tx).err = OK
    PROVE  ValidateTx(v, tx) = OK /\ AddTxToMempool(v, tx).db = Accepted(v, tx)
  BY DEF AddTxToMempool, Failed, Done, OK, Accepted

LEMMA NextHasEffect ==
    ASSUME Inv(db), Next
    PROVE  Effect(db, db')
<1>1. ASSUME NEW owner \in Address, NEW amount \in DepositAmounts,
             Deposit(owner, amount)
      PROVE  DepositEffect(db, db')
  BY <1>1 DEF Deposit, DepositEffect
<1>2. ASSUME NEW order \in IterationOrders(db), Block(order)
      PROVE  SealEffect(db, db')
  BY <1>2, AddBlockSeals DEF Block, SealEffect, IterationOrders
<1>3. ASSUME NEW tx \in ClientTxes, Post(tx)
      PROVE  AcceptEffect(db, db')
  BY <1>3, AddTxToMempoolAccepts, ChildChainAssumption DEF Post, AcceptEffect
<1>4. ASSUME NEW pos \in ClientPositions, NEW sig \in Signature, Confirm(pos, sig)
      PROVE  ConfirmEffect(db, db')
  BY <1>4 DEF Confirm, ConfirmEffect
<1>5. ASSUME NEW pos \in ClientPositions, Exit(pos)
      PROVE  ExitEffect(db, db')
  BY <1>5 DEF Exit, ExitEffect
<1> QED  BY <1>1, <1>2, <1>3, <1>4, <1>5 DEF Next, Effect

\* An output that HasTxOut finds in the store is one of Outputs.
LEMMA NamedIsOutput ==
    ASSUME StoreType(db), NEW c \in Nat \X Nat \X Nat, HasTxOut(db, c)
    PROVE  c \in Outputs
<1>1. TxKey(c) \in DOMAIN db.tx /\ c[3] \in TxElements
  BY OutputType DEF HasTxOut
<1>2. c = <<TxKey(c)[1], TxKey(c)[2], c[3]>>
  BY DEF TxKey
<1> QED  BY <1>1, <1>2 DEF Outputs

LEMMA InvHolds == Serial => []Inv(db)
<1>1. Init => Inv(db)
  BY InitInv DEF Init
<1>2. Inv(db) /\ [Effect(db, db')]_db => Inv(db)'
  BY EffectPreservesInv
<1> QED  BY <1>1, <1>2, PTL DEF Serial

LEMMA SpecIsSerial == Spec => Serial
<1>1. Init => Inv(db)
  BY InitInv DEF Init
<1>2. Inv(db) /\ [Next]_db => Inv(db)'
  BY NextHasEffect, EffectPreservesInv
<1>3. Inv(db) /\ [Next]_db => [Effect(db, db')]_db
  BY NextHasEffect
<1> QED  BY <1>1, <1>2, <1>3, PTL DEF Spec, Serial

-----------------------------------------------------------------------------
(* What the invariant says of the store, in the terms of ChildChain.       *)

LEMMA InvGivesTypes == Inv(db) => TypeOK
  BY DEF Inv, StoreType, TypeOK

LEMMA InvGivesRoundTrips == Inv(db) => PositionsRoundTrip
<1> SUFFICES ASSUME Inv(db), NEW k \in DOMAIN db.tx, NEW e \in TxElements
             PROVE  RoundTrips(k[1], k[2], e)
  BY DEF PositionsRoundTrip
<1>1. k[1] \in Nat /\ k[2] \in Nat /\ e \in Nat
  BY DEF Inv, StoreType, TxElements, TxElementsNum
<1> QED  BY <1>1, PositionRoundTrip

LEMMA InvGivesNoDoubleSpend == Inv(db) => NoDoubleSpend
<1> SUFFICES ASSUME Inv(db), NEW h \in Holders, NEW g \in Holders,
                    Consumes(Held(h)) \cap Consumes(Held(g)) # {}
             PROVE  MerkleLeaf(Held(h)) = MerkleLeaf(Held(g))
  BY DEF NoDoubleSpend
<1>1. CASE h[1] = "tx" /\ g[1] = "tx"
  BY <1>1 DEF Holders, Held, Inv, SpendersAlike, Alike
<1>2. CASE h[1] = "tx" /\ g[1] = "mempool"
  BY <1>2 DEF Holders, Held, Inv, SpendersAlike, Alike
<1>3. CASE h[1] = "mempool" /\ g[1] = "tx"
  BY <1>3 DEF Holders, Held, Inv, SpendersAlike, Alike
<1>4. CASE h[1] = "mempool" /\ g[1] = "mempool"
  BY <1>4 DEF Holders, Held, Inv, SpendersAlike, Disjoint
<1> QED  BY <1>1, <1>2, <1>3, <1>4 DEF Holders

LEMMA InvGivesEarlierInputs == Inv(db) => InputsInEarlierBlocks
<1> SUFFICES ASSUME Inv(db), NEW h \in Holders, NEW c \in Consumes(Held(h))
             PROVE  /\ c \in Outputs
                    /\ c[1] < (IF h[1] = "tx" THEN h[2][1] ELSE db.cur)
  BY DEF InputsInEarlierBlocks
<1>1. CASE h[1] = "tx"
  <2>1. HasTxOut(db, c) /\ c[1] < h[2][1]
    BY <1>1 DEF Holders, Held, Inv, InputsNamed
  <2>2. c \in Nat \X Nat \X Nat
    BY <1>1, ConsumesType DEF Holders, Held, Inv, StoreType
  <2> QED  BY <1>1, <2>1, <2>2, NamedIsOutput DEF Inv
<1>2. CASE h[1] = "mempool"
  <2>1. HasTxOut(db, c)
    BY <1>2 DEF Holders, Held, Inv, InputsNamed
  <2>2. c \in Nat \X Nat \X Nat
    BY <1>2, ConsumesType DEF Holders, Held, Inv, StoreType
  <2>3. c[1] < db.cur
    BY <2>1, <2>2 DEF HasTxOut, TxKey, Inv, KeysBelowCurrent
  <2> QED  BY <1>2, <2>1, <2>2, <2>3, NamedIsOutput DEF Inv
<1> QED  BY <1>1, <1>2 DEF Holders

-----------------------------------------------------------------------------
(* The theorems.                                                           *)

\* The stored transactions, keys and values keep their types whatever the
\* clients post, confirm and exit.
THEOREM TypeCorrect == Spec => []TypeOK
  BY InvHolds, SpecIsSerial, InvGivesTypes, PTL

\* Every input and output of the chain is found again from its position.
THEOREM PositionsLeadBack == Spec => []PositionsRoundTrip
  BY InvHolds, SpecIsSerial, InvGivesRoundTrips, PTL

\* ValidateTx lets nothing in to an output that a transaction of the chain names:
\* two transactions that name it, in blocks or pending, are the same one, which a
\* block has taken without its being deleted from the mempool (childchain.go:561).
THEOREM NoDoubleSpending == Spec => []NoDoubleSpend
  BY InvHolds, SpecIsSerial, InvGivesNoDoubleSpend, PTL

\* Every input of a transaction, in a block or pending, names an output of an
\* earlier block.
THEOREM InputsPrecede == Spec => []InputsInEarlierBlocks
  BY InvHolds, SpecIsSerial, InvGivesEarlierInputs, PTL
=============================================================================
