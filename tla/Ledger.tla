------------------------------- MODULE Ledger -------------------------------
(***************************************************************************)
(* What the wallet promises its callers: a user's money moves by appending *)
(* rows to that user's ledger, a batch at a time, each row starting from   *)
(* the balance the one before it left, never below zero, and each under a  *)
(* key that was never used before.  packages/billing/wallet.py states it   *)
(* in its module docstring (lines 3-12).                                   *)
(***************************************************************************)
EXTENDS Integers, Sequences

CONSTANTS Users     \* the ids of the rows of table users

VARIABLES
    balance,        \* users.balance_vnd
    ledger          \* wallet_transactions of each user, oldest first

lvars == <<balance, ledger>>

\* The balance a user had before row i of a ledger.
BalanceBefore(rows, i) == IF i = 1 THEN 0 ELSE rows[i - 1].after

\* balance_after of the last row, the balance the ledger itself stands for.
ClosingBalance(rows) == IF rows = <<>> THEN 0 ELSE rows[Len(rows)].after

KeysOf(rows) == {rows[i].key : i \in DOMAIN rows}

LInit == /\ balance = [u \in Users |-> 0]
         /\ ledger = [u \in Users |-> <<>>]

(***************************************************************************)
(* One committed transaction posts at least one row for one user.          *)
(***************************************************************************)
Post(u) ==
    LET old == ledger[u]
        new == ledger'[u]
        posted == (Len(old) + 1) .. Len(new)
    IN  /\ Len(new) > Len(old)
        /\ \A i \in 1..Len(old) : new[i] = old[i]
        /\ \A i \in posted :
              /\ new[i].after = BalanceBefore(new, i) + new[i].amt
              /\ new[i].after >= 0
              /\ \A v \in Users : new[i].key \notin KeysOf(ledger[v])
              /\ \A j \in posted : i # j => new[i].key # new[j].key
        /\ balance'[u] = new[Len(new)].after
        /\ \A v \in Users \ {u} : balance'[v] = balance[v] /\ ledger'[v] = ledger[v]

LSpec == LInit /\ [][\E u \in Users : Post(u)]_lvars
=============================================================================
