------------------------------ MODULE MCWallet ------------------------------
(***************************************************************************)
(* A small instance of Wallet: two accounts, one of which deposits, and    *)
(* two commands at once.                                                   *)
(***************************************************************************)
EXTENDS Wallet, TLC

CONSTANTS a, b, t1, t2

MCAccounts == {a, b}
MCTerminals == {t1, t2}
Symmetry == Permutations(MCTerminals)

\* Half of a deposit, or the whole of such a half.
MCPayments == {<<b, 1>>}

\* The outputs (and inputs) of the first two blocks that can be there.
MCClientPositions ==
    {NewTxOutPosition(core[1], core[2], core[3]) :
        core \in {<<1, 0, 0>>, <<2, 0, 0>>}}
=============================================================================
