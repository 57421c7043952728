---------------------------- MODULE SecondFactor ----------------------------
(***************************************************************************)
(* The second factor of one account: enrolment, recovery codes, and the    *)
(* two-step login (auth.py: enroll_2fa, verify_2fa, disable_2fa, login     *)
(* step 1 and 2, two_factor_challenge; me_extra.py:                        *)
(* regenerate_recovery_codes; admin_console.py: admin_disable_2fa).        *)
(* Requests load the row of two_factors and the challenge token, and       *)
(* commit later; they may overlap.  Password, lockout and sessions are     *)
(* module SignIn: every attempt here comes with the right password.        *)
(***************************************************************************)
EXTENDS Integers, FiniteSets, Handlers

CONSTANTS
    ChallengeIds,     \* ids for rows of email_tokens of kind 2fa
    RecoveryCodes,    \* the recovery codes handed out at a time
    MaxPeriod, MaxSecret, MaxAttempts     \* bounds

ASSUME FactorAssumption ==
    /\ MaxPeriod \in Nat /\ MaxSecret \in Nat /\ MaxAttempts \in Nat
    /\ RecoveryCodes \cap {"totp", "wrong"} = {}

VARIABLES
    twofa,    \* the row of two_factors
    challenge, \* challenge tokens
    factorReq, \* the request a client has under way
    period,   \* the period of the current totp code
    attempts, \* logins begun so far
    spent,    \* history: recovery codes accepted since they were handed out
    again,    \* history: a spent code was accepted again
    raced     \* history: a request wrote the row over a change it had not read

fVars == <<twofa, challenge, factorReq, period, attempts, spent, again, raced>>
factorHist == <<attempts, spent, again, raced>>

NoChallenge == [st |-> "free", uses |-> 0, shared |-> FALSE]

\* confirmed: the secret of which the user has sent a code.
TwoFactor == [st : {"none", "enrolled", "enabled"}, secret : 0..MaxSecret, confirmed : 0..MaxSecret,
              form : {"hashed", "encrypted"}, left : SUBSET RecoveryCodes, last : -1..MaxPeriod]
Challenge == [st : {"free", "open", "used", "expired"}, uses : Nat, shared : BOOLEAN]
FactorRequest ==
    {Idle} \union [op : {"enroll", "verify"}, two : TwoFactor]
    \union [op : {"login", "challenge"}, two : TwoFactor, tok : ChallengeIds,
            code : {"wrong", "totp"} \union RecoveryCodes, at : 0..MaxPeriod]

FactorTypeOK ==
    /\ twofa \in TwoFactor /\ challenge \in [ChallengeIds -> Challenge] /\ period \in 0..MaxPeriod
    /\ factorReq \in [Clients -> FactorRequest]
    /\ attempts \in 0..MaxAttempts /\ spent \subseteq RecoveryCodes
    /\ again \in BOOLEAN /\ raced \in BOOLEAN

FactorRow(st, secret, confirmed) ==
    [st |-> st, secret |-> secret, confirmed |-> confirmed, form |-> "hashed", left |-> {}, last |-> -1]

FInit ==
    /\ twofa = FactorRow("none", 0, 0)
    /\ challenge = [t \in ChallengeIds |-> NoChallenge]
    /\ factorReq = [c \in Clients |-> Idle]
    /\ period = 0 /\ attempts = 0 /\ spent = {}
    /\ again = FALSE /\ raced = FALSE

BeginFactor(c, r) == factorReq[c] = Idle /\ factorReq' = [factorReq EXCEPT ![c] = r]
EndFactor(c) == factorReq' = [factorReq EXCEPT ![c] = Idle]
-----------------------------------------------------------------------------
(* Enrolment, by the signed-in user                                        *)

\* enroll_2fa: refused when the second factor is enabled.
EnrollBegin(c) ==
    /\ twofa.st # "enabled" /\ twofa.secret < MaxSecret
    /\ BeginFactor(c, [op |-> "enroll", two |-> twofa])
    /\ UNCHANGED <<twofa, challenge, period, factorHist>>

\* A new secret.  An insert meets the primary key, an update needs its row:
\* the request dies otherwise.
EnrollCommit(c) ==
    LET r == factorReq[c] IN
    /\ r.op = "enroll" /\ EndFactor(c)
    /\ IF (r.two.st = "none") = (twofa.st = "none") /\ twofa.secret < MaxSecret
       THEN /\ twofa' = IF twofa.st = "none" THEN FactorRow("enrolled", twofa.secret + 1, twofa.confirmed)
                                             ELSE [twofa EXCEPT !.secret = @ + 1]
            /\ raced' = (raced \/ r.two # twofa)
       ELSE UNCHANGED <<twofa, raced>>
    /\ UNCHANGED <<challenge, period, attempts, spent, again>>

\* verify_2fa with a code of the secret it loads; also when already enabled.
Verify2faBegin(c) ==
    /\ twofa.st # "none"
    /\ BeginFactor(c, [op |-> "verify", two |-> twofa])
    /\ UNCHANGED <<twofa, challenge, period, factorHist>>

\* Mutant: the row is enabled before the user has sent a code of the secret.
VerifiedUnseen(r) == [twofa EXCEPT !.st = "enabled", !.left = RecoveryCodes, !.form = "hashed"]
\* enabled_at and ten hashed recovery codes.
Verified(r) == [twofa EXCEPT !.st = "enabled", !.left = RecoveryCodes, !.form = "hashed", !.confirmed = r.two.secret]

Verify2faCommit(c) ==
    LET r == factorReq[c] IN
    /\ r.op = "verify" /\ EndFactor(c)
    /\ IF twofa.st # "none"
       THEN twofa' = Verified(r) /\ spent' = {} /\ raced' = (raced \/ r.two # twofa)
       ELSE UNCHANGED <<twofa, spent, raced>>
    /\ UNCHANGED <<challenge, period, attempts, again>>

\* disable_2fa, with the password, and admin_disable_2fa delete the row.
DeleteRow ==
    /\ twofa.st # "none"
    /\ twofa' = FactorRow("none", twofa.secret, twofa.confirmed) /\ spent' = {}
    /\ UNCHANGED <<challenge, factorReq, period, attempts, again, raced>>
Disable2fa == DeleteRow
AdminDisable2fa == DeleteRow

\* regenerate_recovery_codes: new codes, encrypted, in a list.
RegenerateCodes ==
    /\ twofa.st = "enabled"
    /\ twofa' = [twofa EXCEPT !.form = "encrypted", !.left = RecoveryCodes] /\ spent' = {}
    /\ UNCHANGED <<challenge, factorReq, period, attempts, again, raced>>
-----------------------------------------------------------------------------
(* The two-step login                                                      *)

\* login without a code: a challenge token.
ChallengeIssued(t) ==
    /\ twofa.st = "enabled" /\ challenge[t].st = "free"
    /\ challenge' = [challenge EXCEPT ![t].st = "open"]
    /\ UNCHANGED <<twofa, factorReq, period, factorHist>>

Holders(t) == {c \in Clients : factorReq[c].op \in {"login", "challenge"} /\ factorReq[c].tok = t}

\* Mutant: used_at is not looked at.
OpenOrUsed(t) == challenge[t].st \in {"open", "used"}
\* _consume_2fa_challenge, and the same test in two_factor_challenge.
Open(t) == challenge[t].st = "open"

\* login with a code, and two_factor_challenge, which asks for no password and
\* does not see whether the second factor is still there.
StepTwoBegin(c, op, t, code) ==
    /\ Open(t) /\ (op = "login" => twofa.st = "enabled")
    /\ BeginFactor(c, [op |-> op, two |-> twofa, tok |-> t, code |-> code, at |-> period])
    /\ attempts < MaxAttempts /\ attempts' = attempts + 1
    /\ challenge' = [challenge EXCEPT ![t].shared = @ \/ Holders(t) # {}]
    /\ UNCHANGED <<twofa, period, spent, again, raced>>

\* _verify_2fa_code: the totp code of the period unless it was the last one
\* used, or a recovery code that is not marked as used.
Accepted(r) ==
    r.two.st = "enabled"
    /\ \/ r.code = "totp" /\ r.two.last # r.at
       \/ r.code \in RecoveryCodes /\ r.two.form = "hashed" /\ r.code \in r.two.left
\* verify_recovery_code is given the list that regenerate_recovery_codes stored.
Raises(r) == r.two.st = "enabled" /\ r.code # "totp" /\ r.two.form = "encrypted"

StepTwo(c) == factorReq[c].op \in {"login", "challenge"}

\* A wrong code; the token is spent with it.
CodeRefused(c) ==
    LET r == factorReq[c] IN
    /\ StepTwo(c) /\ ~Accepted(r) /\ ~Raises(r) /\ EndFactor(c)
    /\ challenge' = [challenge EXCEPT ![r.tok].st = "used"]
    /\ UNCHANGED <<twofa, period, factorHist>>

\* The request dies, and nothing is written: the codes are not readable, or
\* the row of two_factors is gone.
CodeRaises(c) ==
    LET r == factorReq[c] IN
    /\ StepTwo(c) /\ (Raises(r) \/ (Accepted(r) /\ twofa.st = "none")) /\ EndFactor(c)
    /\ UNCHANGED <<twofa, challenge, period, attempts, spent, again, raced>>

\* Mutant: the code stays among the unused ones.
CodeKept(r) == IF r.code = "totp" THEN [twofa EXCEPT !.last = r.at] ELSE twofa
\* What an accepted code writes, from the row as loaded.
CodeUsed(r) ==
    IF r.code = "totp" THEN [twofa EXCEPT !.last = r.at]
    ELSE [twofa EXCEPT !.left = r.two.left \ {r.code}, !.form = r.two.form]

\* The session is issued.
CodeAccepted(c) ==
    LET r == factorReq[c] IN
    /\ StepTwo(c) /\ Accepted(r) /\ twofa.st # "none" /\ EndFactor(c)
    /\ twofa' = CodeUsed(r)
    /\ challenge' = [challenge EXCEPT ![r.tok] = [@ EXCEPT !.st = "used", !.uses = challenge[r.tok].uses + 1]]
    /\ spent' = IF r.code = "totp" THEN spent ELSE spent \union {r.code}
    /\ again' = (again \/ r.code \in spent)
    /\ raced' = (raced \/ r.two # twofa)
    /\ UNCHANGED <<period, attempts>>

\* Time passes.
NextPeriod == period < MaxPeriod /\ period' = period + 1 /\ UNCHANGED <<twofa, challenge, factorReq, factorHist>>
ChallengeExpires(t) == challenge[t].st = "open" /\ challenge' = [challenge EXCEPT ![t].st = "expired"] /\ UNCHANGED <<twofa, factorReq, period, factorHist>>

FNext ==
    \/ \E c \in Clients :
        \/ EnrollBegin(c) \/ EnrollCommit(c) \/ Verify2faBegin(c) \/ Verify2faCommit(c)
        \/ \E op \in {"login", "challenge"}, t \in ChallengeIds, code \in {"wrong", "totp"} \union RecoveryCodes :
            StepTwoBegin(c, op, t, code)
        \/ CodeRefused(c) \/ CodeRaises(c) \/ CodeAccepted(c)
    \/ Disable2fa \/ AdminDisable2fa \/ RegenerateCodes \/ NextPeriod
    \/ \E t \in ChallengeIds : ChallengeIssued(t) \/ ChallengeExpires(t)

FSpec == FInit /\ [][FNext]_fVars
-----------------------------------------------------------------------------
(* A challenge token opens one session, or the requests that it opened     *)
(* them for had both read it before one of them marked it.                 *)
ChallengeOnce == \A t \in ChallengeIds : challenge[t].uses > 1 => challenge[t].shared

(* A recovery code is accepted once between two hand-outs, unless requests *)
(* have written the row over each other (the codes are one JSON value).    *)
RecoveryCodeOnce == again => raced

(* The secret the second factor asks for is one the user has shown to      *)
(* have, unless an enrolment was under way while another was confirmed.    *)
EnabledIsConfirmed == twofa.st = "enabled" => twofa.confirmed = twofa.secret \/ raced

\* Challenges and recovery codes serve once, and the secret was confirmed.
SecondFactorHolds ==
    /\ FactorTypeOK
    /\ ChallengeOnce
    /\ RecoveryCodeOnce
    /\ EnabledIsConfirmed
=============================================================================
