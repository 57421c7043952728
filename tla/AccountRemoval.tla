--------------------------- MODULE AccountRemoval ---------------------------
(***************************************************************************)
(* What a removed account leaves behind: API keys, webhooks and bank       *)
(* accounts of one user, the requests that create or switch them on, and   *)
(* the four ways to remove the account (me_extra.py: delete_my_account;    *)
(* admin_users_extra.py: admin_soft_delete_user, admin_bulk_user_action,   *)
(* admin_anonymize_user; admin_console.py: update_user).  A request of the *)
(* user is let in while the account is active and commits later; the two   *)
(* removals that clean up do so in one transaction.                        *)
(***************************************************************************)
EXTENDS Integers, FiniteSets, Handlers

CONSTANT Items      \* rows of api_keys, webhooks and bank_accounts of the user

Kinds == {"key", "hook", "bank"}

VARIABLES
    status,     \* users.status
    item,       \* [kind, on]: not revoked, active, or polled
    itemReq,        \* the request a client has under way
    by,         \* who removed the account: "self", "admin", or "other" without cleaning up
    itemLate        \* history: items that a removed account was given

rVars == <<status, item, itemReq, by, itemLate>>

NoItem == [kind |-> "free", on |-> FALSE]
ItemRequest ==
    {Idle} \union [op : {"create"}, kind : Kinds] \union [op : {"switch"}, item : Items, on : BOOLEAN]

RemovalTypeOK ==
    /\ status \in {"active", "suspended", "deleted"} /\ by \in {"none", "self", "admin", "other"}
    /\ item \in [Items -> [kind : Kinds \union {"free"}, on : BOOLEAN]] /\ itemLate \subseteq Items
    /\ itemReq \in [Clients -> ItemRequest]

RInit ==
    /\ status = "active" /\ by = "none" /\ itemLate = {}
    /\ item = [i \in Items |-> NoItem] /\ itemReq = [c \in Clients |-> Idle]
-----------------------------------------------------------------------------
BeginItem(c, r) == itemReq[c] = Idle /\ itemReq' = [itemReq EXCEPT ![c] = r]
EndItem(c) == itemReq' = [itemReq EXCEPT ![c] = Idle]
ItemLate(i) == itemLate' = IF by = "none" THEN itemLate ELSE itemLate \union {i}

\* create_api_key_for_user, create_webhook, create_bank_account.
CreateBegin(c, kind) ==
    status = "active" /\ BeginItem(c, [op |-> "create", kind |-> kind]) /\ UNCHANGED <<status, item, by, itemLate>>
CreateCommit(c) ==
    /\ itemReq[c].op = "create" /\ EndItem(c)
    /\ \E i \in Items :
        /\ item[i] = NoItem /\ item' = [item EXCEPT ![i] = [kind |-> itemReq[c].kind, on |-> TRUE]] /\ ItemLate(i)
    /\ UNCHANGED <<status, by>>

\* update_webhook and update_bank_account; a key that was revoked stays so.
SwitchBegin(c, i, on) ==
    /\ status = "active" /\ item[i].kind \in {"hook", "bank"}
    /\ BeginItem(c, [op |-> "switch", item |-> i, on |-> on])
    /\ UNCHANGED <<status, item, by, itemLate>>
SwitchCommit(c) ==
    /\ itemReq[c].op = "switch" /\ EndItem(c)
    /\ item' = [item EXCEPT ![itemReq[c].item].on = itemReq[c].on]
    /\ IF itemReq[c].on THEN ItemLate(itemReq[c].item) ELSE UNCHANGED itemLate
    /\ UNCHANGED <<status, by>>

\* revoke_api_key, by the user, and admin_revoke_api_key.
AdminRevokeKey(i) ==
    /\ item[i].kind = "key" /\ item[i].on /\ item' = [item EXCEPT ![i].on = FALSE]
    /\ UNCHANGED <<status, itemReq, by, itemLate>>
RevokeKey(i) == status = "active" /\ AdminRevokeKey(i)

\* admin_create_user_api_key, admin_update_webhook, admin_update_bank_account:
\* they do not look at the account.
AdminCreateKey ==
    /\ \E i \in Items : item[i] = NoItem /\ item' = [item EXCEPT ![i] = [kind |-> "key", on |-> TRUE]] /\ ItemLate(i)
    /\ UNCHANGED <<status, itemReq, by>>
AdminSwitch(i, on) ==
    /\ item[i].kind \in {"hook", "bank"} /\ item' = [item EXCEPT ![i].on = on]
    /\ IF on THEN ItemLate(i) ELSE UNCHANGED itemLate
    /\ UNCHANGED <<status, itemReq, by>>
-----------------------------------------------------------------------------
Off(kinds) == [i \in Items |-> IF item[i].kind \in kinds THEN [item[i] EXCEPT !.on = FALSE] ELSE item[i]]

\* Mutant: the keys are forgotten.
SelfRemovedKeys == Off({"hook"})
\* delete_my_account: API keys and webhooks.
SelfRemoved == Off({"key", "hook"})
DeleteMyAccount ==
    /\ status = "active" /\ status' = "deleted" /\ by' = "self"
    /\ item' = SelfRemoved /\ itemLate' = {i \in itemLate : SelfRemoved[i].on}
    /\ UNCHANGED itemReq

\* admin_soft_delete_user: API keys, webhooks and bank accounts.
AdminRemoved == Off(Kinds)
AdminDelete ==
    /\ status' = "deleted" /\ by' = "admin"
    /\ item' = AdminRemoved /\ itemLate' = {i \in itemLate : AdminRemoved[i].on}
    /\ UNCHANGED itemReq

\* admin_bulk_user_action, update_user and admin_anonymize_user: the status alone.
SetStatus(st) ==
    /\ status' = st
    /\ by' = IF st = "active" THEN "none" ELSE IF by = "none" /\ st = "deleted" THEN "other" ELSE by
    /\ itemLate' = IF st = "active" THEN {} ELSE itemLate
    /\ UNCHANGED <<item, itemReq>>

RNext ==
    \/ \E c \in Clients :
        \/ \E kind \in Kinds : CreateBegin(c, kind)
        \/ \E i \in Items, on \in BOOLEAN : SwitchBegin(c, i, on)
        \/ CreateCommit(c) \/ SwitchCommit(c)
    \/ AdminCreateKey \/ DeleteMyAccount \/ AdminDelete
    \/ \E i \in Items : RevokeKey(i) \/ AdminRevokeKey(i) \/ (\E on \in BOOLEAN : AdminSwitch(i, on))
    \/ \E st \in {"active", "suspended", "deleted"} : SetStatus(st)

RSpec == RInit /\ [][RNext]_rVars
-----------------------------------------------------------------------------
(* An account its owner removed has no usable key and no active webhook,   *)
(* one an administrator removed is not polled either, except for what an   *)
(* administrator or a request under way gave it after the removal.         *)
RemovedIsOff ==
    \A i \in Items \ itemLate :
        /\ by = "self" => ~(item[i].on /\ item[i].kind \in {"key", "hook"})
        /\ by = "admin" => ~item[i].on

\* A removed account keeps nothing usable (delete_my_account,
\* admin_soft_delete_user).
RemovalHolds == RemovalTypeOK /\ RemovedIsOff
=============================================================================
