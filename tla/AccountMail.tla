---------------------------- MODULE AccountMail -----------------------------
(***************************************************************************)
(* Who owns which address: registration, verification, change of address,  *)
(* Google sign-in, the Telegram link, and anonymisation (auth.py,          *)
(* me_extra.py, telegram.py, admin_users_extra.py).  Requests load rows    *)
(* and commit later; users.email and (provider, subject) are unique, and a *)
(* commit that meets the constraint dies and writes nothing.               *)
(* A Google account is named by its address, which it keeps.               *)
(***************************************************************************)
EXTENDS Integers, FiniteSets, Handlers

CONSTANTS
    Users,       \* rows of users
    Addresses,   \* e-mail addresses
    TokIds,      \* ids for rows of email_tokens
    None,
    MaxSteps     \* bound on the requests begun

ASSUME MailAssumption ==
    MaxSteps \in Nat /\ None \notin Users /\ None \notin Addresses /\ \A a \in Addresses : <<"deleted", a>> \notin Addresses \union {None}

VARIABLES
    row,       \* users
    link,      \* oauth_identities: the account of a Google account, or None
    mailTok,   \* email_tokens of kind verify, change_email and user_tg_link
    mailReq,   \* the request a client has under way
    steps,     \* requests begun so far
    answered,  \* history: <<u, a>>: somebody who reads a's mail spoke for u
    forgotten, \* history: accounts that were anonymised
    mailLate   \* history: accounts written by a request begun before that

mVars == <<row, link, mailTok, mailReq, steps, answered, forgotten, mailLate>>

Placeholders == {<<"deleted", a>> : a \in Addresses}
Row == [st : {"none", "active", "deleted"}, email : {None} \union Addresses \union Placeholders,
        verified : BOOLEAN, chat : BOOLEAN]
Token == [kind : {"free", "verify", "change_email", "user_tg_link"}, user : Users \union {None},
          email : Addresses \union {None}, st : {"open", "used", "expired"}]

NoRow == [st |-> "none", email |-> None, verified |-> FALSE, chat |-> FALSE]
NoToken == [kind |-> "free", user |-> None, email |-> None, st |-> "open"]
MailRequest ==
    {Idle} \union [op : {"register"}, email : Addresses] \union [op : {"profile"}, user : Users]
    \union [op : {"verify", "tg"}, tok : TokIds] \union [op : {"confirm"}, tok : TokIds, email : Addresses]
    \union [op : {"google"}, email : Addresses, vouched : BOOLEAN, linked : BOOLEAN, user : Users \union {None}]

MailTypeOK ==
    /\ row \in [Users -> Row] /\ link \in [Addresses -> Users \union {None}] /\ mailTok \in [TokIds -> Token]
    /\ mailReq \in [Clients -> MailRequest] /\ steps \in 0..MaxSteps
    /\ answered \subseteq Users \X Addresses /\ forgotten \subseteq Users /\ mailLate \subseteq Users

MInit ==
    /\ row = [u \in Users |-> NoRow] /\ link = [a \in Addresses |-> None]
    /\ mailTok = [t \in TokIds |-> NoToken] /\ mailReq = [c \in Clients |-> Idle]
    /\ steps = 0 /\ answered = {} /\ forgotten = {} /\ mailLate = {}

mailHist == <<steps, answered, forgotten, mailLate>>
-----------------------------------------------------------------------------
BeginMail(c, r) == mailReq[c] = Idle /\ mailReq' = [mailReq EXCEPT ![c] = r] /\ steps < MaxSteps /\ steps' = steps + 1
EndMail(c) == mailReq' = [mailReq EXCEPT ![c] = Idle] /\ UNCHANGED steps

Taken(e) == \E u \in Users : row[u].email = e
\* A request that knew the account before it was anonymised writes to it.
MailLate(u) == mailLate' = mailLate \union ({u} \cap forgotten)
\* issue_email_token; the mail goes to e.
Issue(kind, u, e) ==
    \E t \in TokIds : mailTok[t].kind = "free" /\ mailTok' = [mailTok EXCEPT ![t] = [kind |-> kind, user |-> u, email |-> e, st |-> "open"]]
\* consume_email_token and its copies: the token is open and its user active.
Valid(t, kind) == mailTok[t].kind = kind /\ mailTok[t].st = "open" /\ row[mailTok[t].user].st = "active"
Use(t) == mailTok' = [mailTok EXCEPT ![t].st = "used"]
-----------------------------------------------------------------------------
(* Registration and verification                                           *)

RegisterBegin(c, e) ==
    /\ ~Taken(e) /\ BeginMail(c, [op |-> "register", email |-> e])
    /\ UNCHANGED <<row, link, mailTok, answered, forgotten, mailLate>>

RegisterCommit(c) ==
    LET e == mailReq[c].email IN
    /\ mailReq[c].op = "register" /\ EndMail(c)
    /\ IF Taken(e) THEN UNCHANGED <<row, mailTok>>
       ELSE \E u \in Users :
            /\ row[u] = NoRow
            /\ row' = [row EXCEPT ![u] = [NoRow EXCEPT !.st = "active", !.email = e]]
            /\ Issue("verify", u, e)
    /\ UNCHANGED <<link, answered, forgotten, mailLate>>

\* resend_verify, to the address the account has now.
ResendVerify(u) ==
    /\ row[u].st # "none" /\ ~row[u].verified /\ row[u].email \in Addresses
    /\ Issue("verify", u, row[u].email)
    /\ UNCHANGED <<row, link, mailReq, mailHist>>

VerifyBegin(c, t) ==
    /\ Valid(t, "verify") /\ BeginMail(c, [op |-> "verify", tok |-> t])
    /\ UNCHANGED <<row, link, mailTok, answered, forgotten, mailLate>>

VerifyCommit(c) ==
    LET t == mailReq[c].tok IN
    /\ mailReq[c].op = "verify" /\ EndMail(c)
    /\ row' = [row EXCEPT ![mailTok[t].user].verified = TRUE] /\ Use(t)
    /\ answered' = answered \union {<<mailTok[t].user, mailTok[t].email>>}
    /\ UNCHANGED <<link, forgotten, mailLate>>

\* admin_verify_email: the administrator vouches for the address.
AdminVerify(u) ==
    /\ row[u].st # "none" /\ row[u].email \in Addresses
    /\ row' = [row EXCEPT ![u].verified = TRUE] /\ answered' = answered \union {<<u, row[u].email>>}
    /\ UNCHANGED <<link, mailTok, mailReq, steps, forgotten, mailLate>>
-----------------------------------------------------------------------------
(* Change of address                                                       *)

\* change_email_request: the token is bound to the new address.
ChangeRequest(u, e) ==
    /\ row[u].st = "active" /\ ~Taken(e) /\ Issue("change_email", u, e)
    /\ UNCHANGED <<row, link, mailReq, mailHist>>

\* Mutant: the token fits whatever address is sent along.
BoundToAny(t, e) == TRUE
\* token_hash = hash_token(f"{raw}|{new_email}")
BoundTo(t, e) == mailTok[t].email = e

ConfirmBegin(c, t, e) ==
    /\ Valid(t, "change_email") /\ BoundTo(t, e) /\ ~Taken(e)
    /\ BeginMail(c, [op |-> "confirm", tok |-> t, email |-> e])
    /\ UNCHANGED <<row, link, mailTok, answered, forgotten, mailLate>>

ConfirmCommit(c) ==
    LET t == mailReq[c].tok u == mailTok[t].user IN
    /\ mailReq[c].op = "confirm" /\ EndMail(c)
    /\ IF Taken(mailReq[c].email) THEN UNCHANGED <<row, mailTok, answered, mailLate>>
       ELSE /\ row' = [row EXCEPT ![u] = [@ EXCEPT !.email = mailReq[c].email, !.verified = TRUE]] /\ Use(t)
            /\ answered' = answered \union {<<u, mailTok[t].email>>} /\ MailLate(u)
    /\ UNCHANGED <<link, forgotten>>
-----------------------------------------------------------------------------
(* Google                                                                  *)

\* google_callback: the account of the identity, else the one with the address.
GoogleBegin(c, e, vouched) ==
    LET owners == {u \in Users : row[u].email = e} IN
    /\ BeginMail(c, [op |-> "google", email |-> e, vouched |-> vouched, linked |-> link[e] # None,
                 user |-> IF link[e] # None THEN link[e]
                          ELSE IF owners # {} THEN CHOOSE u \in owners : TRUE ELSE None])
    /\ UNCHANGED <<row, link, mailTok, answered, forgotten, mailLate>>

\* A new account or a new identity may meet a constraint.
GoogleCommit(c) ==
    LET r == mailReq[c] IN
    /\ r.op = "google" /\ EndMail(c)
    /\ IF (r.user = None /\ Taken(r.email)) \/ (~r.linked /\ link[r.email] # None)
       THEN UNCHANGED <<row, link, answered>>
       ELSE \E u \in Users :
            /\ IF r.user = None
               THEN row[u] = NoRow /\ row' = [row EXCEPT ![u] = [st |-> "active", email |-> r.email, verified |-> r.vouched, chat |-> FALSE]]
               ELSE u = r.user /\ row' = [row EXCEPT ![u].verified = @ \/ r.vouched]
            /\ link' = [link EXCEPT ![r.email] = u]
            /\ answered' = IF r.vouched THEN answered \union {<<u, r.email>>} ELSE answered
    /\ UNCHANGED <<mailTok, forgotten, mailLate>>
-----------------------------------------------------------------------------
(* Telegram and profile                                                    *)

\* link_user_telegram
LinkRequest(u) == row[u].st = "active" /\ Issue("user_tg_link", u, None) /\ UNCHANGED <<row, link, mailReq, mailHist>>

\* _consume_user_link_token reads, telegram_webhook commits after an answer was sent.
LinkBegin(c, t) ==
    /\ Valid(t, "user_tg_link") /\ BeginMail(c, [op |-> "tg", tok |-> t])
    /\ UNCHANGED <<row, link, mailTok, answered, forgotten, mailLate>>
LinkCommit(c) ==
    LET u == mailTok[mailReq[c].tok].user IN
    /\ mailReq[c].op = "tg" /\ EndMail(c)
    /\ row' = [row EXCEPT ![u].chat = TRUE] /\ Use(mailReq[c].tok) /\ MailLate(u)
    /\ UNCHANGED <<link, answered, forgotten>>

\* update_profile may set telegram_chat_id.
ProfileBegin(c, u) ==
    /\ row[u].st = "active" /\ BeginMail(c, [op |-> "profile", user |-> u])
    /\ UNCHANGED <<row, link, mailTok, answered, forgotten, mailLate>>
ProfileCommit(c) ==
    /\ mailReq[c].op = "profile" /\ EndMail(c)
    /\ row' = [row EXCEPT ![mailReq[c].user].chat = TRUE] /\ MailLate(mailReq[c].user)
    /\ UNCHANGED <<link, mailTok, answered, forgotten>>
\* unlink_user_telegram
Unlink(u) ==
    row[u].st = "active" /\ row[u].chat /\ row' = [row EXCEPT ![u].chat = FALSE] /\ UNCHANGED <<link, mailTok, mailReq, mailHist>>
-----------------------------------------------------------------------------
(* Removal                                                                 *)

\* Mutant: the Telegram chat is kept.
AnonymisedChat(u) == [row[u] EXCEPT !.st = "deleted", !.email = <<"deleted", @>>]
\* The personal data of the row, replaced; the placeholder is a digest of the address.
Anonymised(u) == [row[u] EXCEPT !.st = "deleted", !.email = <<"deleted", @>>, !.chat = FALSE]

\* admin_anonymize_user; dies when an earlier owner of the address was anonymised.
Anonymise(u) ==
    /\ row[u].st # "none" /\ row[u].email \in Addresses /\ ~Taken(<<"deleted", row[u].email>>)
    /\ row' = [row EXCEPT ![u] = Anonymised(u)]
    /\ forgotten' = forgotten \union {u}
    /\ UNCHANGED <<link, mailTok, mailReq, steps, answered, mailLate>>

\* admin_bulk_user_action and update_user.
UpdateStatus(u, st) ==
    /\ row[u].st # "none" /\ row' = [row EXCEPT ![u].st = st]
    \* an account that is opened again is used again
    /\ forgotten' = IF st = "active" THEN forgotten \ {u} ELSE forgotten
    /\ UNCHANGED <<link, mailTok, mailReq, steps, answered, mailLate>>

TokenExpires(t) ==
    mailTok[t].kind # "free" /\ mailTok[t].st = "open" /\ mailTok' = [mailTok EXCEPT ![t].st = "expired"] /\ UNCHANGED <<row, link, mailReq, mailHist>>

MNext ==
    \/ \E c \in Clients :
        \/ \E e \in Addresses : RegisterBegin(c, e) \/ (\E v \in BOOLEAN : GoogleBegin(c, e, v))
        \/ \E t \in TokIds : VerifyBegin(c, t) \/ LinkBegin(c, t) \/ (\E e \in Addresses : ConfirmBegin(c, t, e))
        \/ \E u \in Users : ProfileBegin(c, u)
        \/ RegisterCommit(c) \/ GoogleCommit(c) \/ VerifyCommit(c) \/ ConfirmCommit(c) \/ LinkCommit(c) \/ ProfileCommit(c)
    \/ \E u \in Users :
        \/ ResendVerify(u) \/ AdminVerify(u) \/ LinkRequest(u) \/ Unlink(u) \/ Anonymise(u)
        \/ \E e \in Addresses : ChangeRequest(u, e)
        \/ \E st \in {"active", "deleted"} : UpdateStatus(u, st)
    \/ \E t \in TokIds : TokenExpires(t)

MSpec == MInit /\ [][MNext]_mVars
-----------------------------------------------------------------------------
(* A verified account has an address whose reader spoke for the account:   *)
(* by a token mailed there, through Google, or through an administrator.   *)
VerifiedWasAnswered ==
    \A u \in Users : row[u].verified /\ row[u].email \in Addresses => <<u, row[u].email>> \in answered

(* An anonymised account has neither its address nor its chat any more,    *)
(* unless a request that was under way has written them again.             *)
ForgottenIsForgotten ==
    \A u \in forgotten \ mailLate : row[u].email \notin Addresses /\ ~row[u].chat

\* The address of an account is its own, and gone when it is to be forgotten.
AccountMailHolds == MailTypeOK /\ VerifiedWasAnswered /\ ForgottenIsForgotten
=============================================================================
