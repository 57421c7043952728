------------------------------ MODULE MCWallet ------------------------------
(***************************************************************************)
(* Instances of Wallet for TLC.                                            *)
(***************************************************************************)
EXTENDS Wallet, Functions, FiniteSets, TLC

\* The invariant that the module docstring states: the amounts of a user's
\* rows add up to User.balance_vnd after every commit (wallet.py:11-12).
BalanceIsLedgerSum ==
    \A u \in Users :
        balance[u] = FoldFunction(LAMBDA r, sum : sum + r.amt, 0, ledger[u])

\* Every sign of amount, and the two that credit, debit and refund accept or not.
MCAmounts == -1 .. 1

Symmetry == Permutations(Users) \cup Permutations(Keys) \cup Permutations(Sessions)
=============================================================================
