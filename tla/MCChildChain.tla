---------------------------- MODULE MCChildChain ----------------------------
(***************************************************************************)
(* A small instance of ChildChain for TLC: two accounts, positions with    *)
(* small offsets and a fixed set of transactions.                          *)
(***************************************************************************)
EXTENDS ChildChain, TLC

CONSTANTS a, b

MCAccounts == {a, b}

In(core, sig) == [NewTxIn(core) EXCEPT !.sig = sig]
NullIn == NewTxIn(NullTxInCore)
NullOut == NewTxOut(NullAddress, 0)

\* A transaction from its two inputs and its two outputs.
Build(in0, in1, out0, out1) ==
    [SetOutput(SetOutput(NewTx, 0, out0), 1, out1)
        EXCEPT !.ins = [i \in TxElements |-> IF i = 0 THEN in0 ELSE in1]]

\* The outputs the first three blocks can have (only the third can have two
\* transactions), and one that never is there.
Cores ==
    {<<1, 0, 0>>, <<1, 0, 1>>, <<2, 0, 0>>, <<2, 0, 1>>, <<2, 1, 0>>}
      \cup {3} \X (0 .. 1) \X (0 .. 1)

\* Those among them that may be worth something.
Payable == Cores \ {<<1, 0, 1>>, <<2, 1, 0>>}

\* The whole amount, a split, more than there is.
Payments ==
    {Build(In(core, sig), NullIn, out[1], out[2]) :
        core \in Payable, sig \in MCAccounts,
        out \in {<<NewTxOut(b, 2), NullOut>>,
                 <<NewTxOut(a, 1), NewTxOut(b, 1)>>,
                 <<NewTxOut(a, 2), NewTxOut(b, 1)>>}}

\* An unsigned input, which can only be worth nothing.
Unsigned ==
    {Build(In(core, NullSignature), NullIn, NewTxOut(a, 0), NullOut) :
        core \in Cores}

\* Two inputs joined into one output.  Different outputs in one order only.
Join(c1, s1, c2, s2) == Build(In(c1, s1), In(c2, s2), NewTxOut(a, 2), NullOut)

Before(c1, c2) ==
    NewTxOutPosition(c1[1], c1[2], c1[3]) < NewTxOutPosition(c2[1], c2[2], c2[3])

Joins ==
    {Join(c[1], s[1], c[2], s[2]) :
        c \in {p \in Payable \X Payable : Before(p[1], p[2])},
        s \in {<<a, a>>, <<a, b>>, <<b, a>>}}

\* Two inputs that name the same output.
Repeats ==
    {Build(In(core, sig), In(core, sig), NewTxOut(b, 2), NewTxOut(b, 2)) :
        core \in Cores, sig \in MCAccounts}

\* Each deposit's owner spends it: enough to fill a block.
Spends ==
    {Build(In(<<blk, 0, 0>>, a), NullIn, NewTxOut(b, 2), NullOut) :
        blk \in 1 .. MaxBlkNum - 1}

\* Splits of the first deposit that come with marks: an output spent and a
\* confirmation by somebody else, an output exited and one by the owner.
Split == Build(In(<<1, 0, 0>>, a), NullIn, NewTxOut(a, 1), NewTxOut(b, 1))
Marked ==
    {[Split EXCEPT !.outs[0].spent = TRUE, !.ins[0].confSig = b],
     [Split EXCEPT !.outs[1].exited = TRUE, !.ins[0].confSig = a]}

MCClientTxes == Payments \cup Unsigned \cup Joins \cup Marked
MCClientTxesWithRepeats == Payments \cup Repeats

\* Outputs (and inputs) that may exist, one that never does, and the position
\* that cannot be parsed.
MCClientPositions ==
    {0} \cup {NewTxOutPosition(core[1], core[2], core[3]) :
                core \in {<<1, 0, 0>>, <<2, 0, 0>>, <<2, 0, 1>>, <<2, 1, 0>>,
                          <<1, 0, TxElementsNum>>}}
=============================================================================
