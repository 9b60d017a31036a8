------------------------------- MODULE Ledger -------------------------------
(***************************************************************************)
(* What the child chain promises, without its store: a chain of blocks of  *)
(* transfers, transfers that wait for a block, and the outputs exited and  *)
(* the inputs confirmed so far.  Whether an output is still there to spend *)
(* is said by the transfers themselves; there is no flag to keep in step.  *)
(*                                                                         *)
(* A transfer is a record: "signed" is a set of pairs of an output and the *)
(* account that signed for it, "pays" gives the owner and the amount of    *)
(* each of its outputs.  While it waits it also has the marks it was asked *)
(* for with, which the ledger takes at face value: the outputs that are to *)
(* be void, or exited, from the start, and the inputs that are confirmed.  *)
(***************************************************************************)
EXTENDS Naturals, FiniteSets, Functions

CONSTANTS
    Owners,     \* who can own an output
    Unowned,    \* the owner of the empty output of a deposit
    Amounts,    \* the amounts of deposits
    Transfers   \* the transfers that can be asked for

VARIABLES chain, pending, void, exited, confirmed
vars == <<chain, pending, void, exited, confirmed>>

Paid == {0, 1}

\* Transactions and outputs of the chain are named by where they are.
Txs == UNION {{<<blk, i>> : i \in DOMAIN chain[blk]} : blk \in DOMAIN chain}
Transfer(k) == chain[k[1]][k[2]]

Outputs == {<<k[1], k[2], o>> : k \in Txs, o \in Paid}
Owner(out) == Transfer(out).pays[out[3]][1]
Amount(out) == Transfer(out).pays[out[3]][2]

Inputs(t) == {s[1] : s \in t.signed}
Consumed == UNION {Inputs(t) : t \in pending \cup {Transfer(k) : k \in Txs}}

\* A block is a function from 0 .. n - 1.
NextNumber == Cardinality(DOMAIN chain) + 1

Append(block) ==
    chain' = [blk \in 1 .. NextNumber |->
                IF blk \in DOMAIN chain THEN chain[blk] ELSE block]

Init ==
    /\ chain = << >>
    /\ pending = {}
    /\ void = {}
    /\ exited = {}
    /\ confirmed = {}

\* A deposit makes a block of its own.
Deposit(owner, amount) ==
    /\ Append([i \in {0} |->
                [signed |-> {},
                 pays   |-> [o \in Paid |-> IF o = 0 THEN <<owner, amount>>
                                                     ELSE <<Unowned, 0>>]]])
    /\ UNCHANGED <<pending, void, exited, confirmed>>

\* A transfer is accepted when each output it spends is in the chain, is spent
\* by no other transfer, is not void, did not exit, and is signed for by its
\* owner, and when it pays no more than the outputs it spends are worth.
Accept(t) ==
    /\ t.signed # {}
    /\ \A s \in t.signed :
        /\ s[1] \in Outputs \ (Consumed \cup void \cup exited)
        /\ s[2] = Owner(s[1])
    /\ SumFunction([o \in Paid |-> t.pays[o][2]])
        <= SumFunction([out \in Inputs(t) |-> Amount(out)])
    /\ pending' = pending \cup {t}
    /\ UNCHANGED <<chain, void, exited, confirmed>>

Unmarked(t) == [signed |-> t.signed, pays |-> t.pays]

\* The outputs of the next block that have a mark, "void" or "exited".
MarkedOutputs(block, mark) ==
    {<<NextNumber, e[1], e[2]>> : e \in
        {e \in (DOMAIN block) \X Paid : e[2] \in block[e[1]][mark]}}

\* Some of the waiting transfers move into a block, in some order, and their
\* marks take effect.  Some of those may be left waiting, for another block.
Seal ==
    \E batch \in SUBSET pending \ {{}} : \E left \in SUBSET batch :
        \E block \in Bijection(0 .. Cardinality(batch) - 1, batch) :
            /\ Append([i \in DOMAIN block |-> Unmarked(block[i])])
            /\ pending' = (pending \ batch) \cup left
            /\ void' = void \cup MarkedOutputs(block, "void")
            /\ exited' = exited \cup MarkedOutputs(block, "exited")
            /\ confirmed' = confirmed \cup
                UNION {{<<NextNumber, i>>} \X block[i].confirmed : i \in DOMAIN block}

Exit(out) ==
    /\ out \in Outputs
    /\ exited' = exited \cup {out}
    /\ UNCHANGED <<chain, pending, void, confirmed>>

Confirm(k, out) ==
    /\ k \in Txs
    /\ out \in Inputs(Transfer(k))
    /\ confirmed' = confirmed \cup {<<k, out>>}
    /\ UNCHANGED <<chain, pending, void, exited>>

Next ==
    \/ \E owner \in Owners, amount \in Amounts : Deposit(owner, amount)
    \/ \E t \in Transfers : Accept(t)
    \/ Seal
    \/ \E out \in Outputs : Exit(out)
    \/ \E k \in Txs : \E out \in Inputs(Transfer(k)) : Confirm(k, out)

Spec == Init /\ [][Next]_vars
=============================================================================
