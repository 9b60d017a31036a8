-------------------------- MODULE MCChildChainTxns --------------------------
(***************************************************************************)
(* A small instance of ChildChainTxns: one account, two requests at once,  *)
(* and transactions that compete for the same outputs.                     *)
(***************************************************************************)
EXTENDS ChildChainTxns, TLC

CONSTANTS a, h1, h2

In(core) == [NewTxIn(core) EXCEPT !.sig = a]
NullIn == NewTxIn(NullTxInCore)
Out(amount) == NewTxOut(a, amount)

Build(in0, in1, out0, out1) ==
    [SetOutput(SetOutput(NewTx, 0, out0), 1, out1)
        EXCEPT !.ins = [i \in TxElements |-> IF i = 0 THEN in0 ELSE in1]]

\* Two ways to spend the first output, one to spend the second, one to spend
\* both together, one to spend the third, which comes with an output spent, the
\* other exited and its input confirmed.
MCClientTxes ==
    {Build(In(<<1, 0, 0>>), NullIn, Out(2), Out(0)),
     Build(In(<<1, 0, 0>>), NullIn, Out(1), Out(1)),
     Build(In(<<2, 0, 0>>), NullIn, Out(2), Out(0)),
     Build([In(<<3, 0, 0>>) EXCEPT !.confSig = a], NullIn,
           [Out(1) EXCEPT !.spent = TRUE], [Out(1) EXCEPT !.exited = TRUE]),
     Build(In(<<1, 0, 0>>), In(<<2, 0, 0>>), Out(4), Out(0))}

MCClientPositions ==
    {NewTxOutPosition(core[1], core[2], core[3]) :
        core \in {<<1, 0, 0>>, <<3, 0, 0>>}}

MCHandlers == {h1, h2}
Symmetry == Permutations(MCHandlers)
=============================================================================
