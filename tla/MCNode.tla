------------------------------- MODULE MCNode -------------------------------
(***************************************************************************)
(* A small instance of Node: one account, one or two requests, and payments*)
(* of the first two deposits.                                              *)
(***************************************************************************)
EXTENDS Node

CONSTANTS a, r1, r2

Pay(core) ==
    [SetOutput(NewTx, 0, NewTxOut(a, 2))
        EXCEPT !.ins[0] = [NewTxIn(core) EXCEPT !.sig = a]]

MCClientTxes == {Pay(<<1, 0, 0>>)}
MCClientTxesTwo == {Pay(<<1, 0, 0>>), Pay(<<2, 0, 0>>)}
MCClientPositions == {NewTxOutPosition(1, 0, 0), NewTxOutPosition(2, 0, 0)}
MCHandlers == {r1, DepositWatcher, ExitWatcher}
MCHandlersTwo == {r1, r2, DepositWatcher, ExitWatcher}
=============================================================================
