------------------------------- MODULE SignIn -------------------------------
(***************************************************************************)
(* One account's way in: login with its lockout, the sessions, and the     *)
(* changes of the password that end them (apps/api/routes/auth.py,         *)
(* packages/security/sessions.py, user_auth.py, email_tokens.py, and the   *)
(* administrator's routes for one user).  The second factor is module      *)
(* SecondFactor; here an attempt is right or wrong.                        *)
(*                                                                         *)
(* A request loads the rows it works on, computes (hashing, mail) and      *)
(* commits.  Loading and committing are two steps, so that requests        *)
(* interleave; a commit writes only the columns the request changed, from  *)
(* the values it loaded.  A refusal that writes nothing is a guard.        *)
(* Rate limits, captcha, cookies, audit rows and mail texts are left out.  *)
(***************************************************************************)
EXTENDS Integers, Sequences, FiniteSets, Handlers

CONSTANTS
    SessIds,          \* ids for rows of the table sessions
    Threshold,        \* LOGIN_LOCKOUT_THRESHOLD
    Durations,        \* LOGIN_LOCKOUT_DURATIONS
    Bounds            \* the limits a behaviour may keep: [clock, fails, pw, sessions, requests]

ASSUME SignInAssumption ==
    /\ Threshold \in Nat \ {0}
    /\ Durations \in Seq(Nat \ {0}) /\ Durations # <<>>
    /\ Bounds \subseteq [clock : Nat, fails : Nat, pw : Nat, sessions : Nat, requests : Nat]

VARIABLES
    user,     \* the row of users; pw counts the passwords the account has had
    sess,     \* the rows of sessions
    token,    \* the reset token: "none", "open", "used" or "expired"
    signReq,      \* the request a client has under way
    clock,
    wrong,    \* history: refused attempts since the count was last cleared
    stale,    \* history: an attempt was counted over a count it had not read
    begun,    \* requests begun so far
    bound     \* the limits this behaviour keeps

sVars == <<user, sess, token, signReq, clock, wrong, stale, begun, bound>>

\* history in a session: the password at the time it was opened, and whether
\* that raced with a change of the password; "left": its owner has logged out
NoSession == [st |-> "free", pw |-> 0, raced |-> FALSE]

User == [status : {"active", "suspended"}, pw : 0..bound.pw, fails : 0..bound.fails, locked : Nat]
Session == [st : {"free", "live", "left", "revoked"}, pw : 0..bound.pw, raced : BOOLEAN]
SignRequest ==
    {Idle}
    \union [op : {"login", "challenge"}, right : BOOLEAN, pw : 0..bound.pw, fails : 0..bound.fails, locked : Nat, at : Nat]
    \union [op : {"reset", "change"}, step : {"read", "revoked"}, fails : 0..bound.fails, locked : Nat,
            keep : SUBSET SessIds, rev : SUBSET SessIds]

SignInTypeOK ==
    /\ user \in User /\ clock \in 0..bound.clock
    /\ sess \in [SessIds -> Session] /\ token \in {"none", "open", "used", "expired"}
    /\ signReq \in [Clients -> SignRequest]
    /\ wrong \in Nat /\ stale \in BOOLEAN /\ begun \in 0..bound.requests /\ bound \in Bounds

\* A registered account, before its first login.
SInit ==
    /\ user = [status |-> "active", pw |-> 0, fails |-> 0, locked |-> 0]
    /\ sess = [s \in SessIds |-> NoSession]
    /\ token = "none"
    /\ signReq = [c \in Clients |-> Idle]
    /\ clock = 0 /\ wrong = 0 /\ stale = FALSE /\ begun = 0 /\ bound \in Bounds
-----------------------------------------------------------------------------
(* Helpers                                                                 *)

BeginSign(c, r) == signReq[c] = Idle /\ signReq' = [signReq EXCEPT ![c] = r] /\ begun < bound.requests /\ begun' = begun + 1
EndSign(c) == signReq' = [signReq EXCEPT ![c] = Idle] /\ UNCHANGED begun

\* lookup_session: the session a request of the signed-in user comes with.
LookupSession(s) == sess[s].st = "live" /\ user.status = "active"

\* The rows with revoked_at IS NULL.
Live == {s \in SessIds : sess[s].st \in {"live", "left"}}
\* A change of the password that has already run its UPDATE of sessions.
Revoking == \E c \in Clients : signReq[c].op \in {"reset", "change"} /\ signReq[c].step = "revoked"

\* revoke_all_sessions and revoke_session.
Revoke(S) == [s \in SessIds |-> IF s \in S THEN [NoSession EXCEPT !.st = "revoked"] ELSE sess[s]]

\* issue_session, by a request that loaded the user when its password was pw.
IssueSession(pw) ==
    \E s \in SessIds :
        /\ sess[s].st = "free" /\ Cardinality({o \in SessIds : sess[o].st # "free"}) < bound.sessions
        /\ sess' = [sess EXCEPT ![s] = [st |-> "live", pw |-> user.pw, raced |-> pw # user.pw \/ Revoking]]

\* _next_lockout_duration
NextLockout(fails) ==
    LET over == IF fails > Threshold THEN fails - Threshold ELSE 0
    IN  Durations[IF over < Len(Durations) THEN over + 1 ELSE Len(Durations)]

\* Mutant: only attempts with a password are counted.
FailedUncounted(r) == IF r.op = "challenge" THEN user ELSE [user EXCEPT !.fails = r.fails + 1, !.locked = r.at + 1]
\* Mutant: the lock begins one attempt late.
FailedLate(r) ==
    [user EXCEPT !.fails = r.fails + 1,
                 !.locked = IF r.fails >= Threshold THEN r.at + NextLockout(r.fails) ELSE @]
\* A refused password or code, counted from the value the request loaded.
Failed(r) ==
    LET fails == r.fails + 1
    IN  [user EXCEPT !.fails = fails,
                     !.locked = IF fails >= Threshold THEN r.at + NextLockout(fails) ELSE @]

\* failed_login_count = 0, locked_until = None: written when they were loaded otherwise.
Cleared(r) ==
    [user EXCEPT !.fails = IF r.fails # 0 THEN 0 ELSE @, !.locked = IF r.locked # 0 THEN 0 ELSE @]
\* Somebody else changed the count or the lock since the request loaded them.
Outdated(r) == stale \/ r.fails # user.fails \/ r.locked # user.locked
-----------------------------------------------------------------------------
(* Login                                                                   *)

\* login: loads the user; an inactive or locked account is refused at once.
\* two_factor_challenge goes on from an earlier login and does not ask for the lock.
LoginBegin(c, op, right) ==
    /\ user.status = "active" /\ (right \/ user.fails < bound.fails)
    /\ op = "login" => ~(user.locked > clock)
    /\ BeginSign(c, [op |-> op, right |-> right, pw |-> user.pw, fails |-> user.fails, locked |-> user.locked, at |-> clock])
    /\ UNCHANGED <<user, sess, token, clock, wrong, stale>>

LoginRefused(c) ==
    /\ signReq[c].op \in {"login", "challenge"} /\ ~signReq[c].right /\ EndSign(c)
    /\ user' = Failed(signReq[c])
    /\ wrong' = wrong + 1 /\ stale' = Outdated(signReq[c])
    /\ UNCHANGED <<sess, token, clock>>

LoginDone(c) ==
    /\ signReq[c].op \in {"login", "challenge"} /\ signReq[c].right /\ EndSign(c)
    /\ IssueSession(signReq[c].pw)
    /\ user' = Cleared(signReq[c])
    /\ wrong' = 0 /\ stale' = Outdated(signReq[c])
    /\ UNCHANGED <<token, clock>>

\* admin_impersonate: a session for the administrator, of an active account.
Impersonate ==
    /\ user.status = "active" /\ IssueSession(user.pw)
    /\ UNCHANGED <<user, token, signReq, clock, wrong, stale, begun>>

\* google_callback for a linked account, whatever its status.
GoogleLogin ==
    /\ IssueSession(user.pw)
    /\ user' = [user EXCEPT !.fails = 0, !.locked = 0] /\ wrong' = 0
    /\ UNCHANGED <<token, signReq, clock, stale, begun>>
-----------------------------------------------------------------------------
(* Password                                                                *)

NewToken ==
    /\ token \in {"none", "expired"} /\ user.pw < bound.pw /\ token' = "open"
    /\ UNCHANGED <<user, sess, signReq, clock, wrong, stale, begun>>
\* forgot mails a token for an active account, admin_reset_password for any.
Forgot == user.status = "active" /\ NewToken
AdminResetPassword == NewToken

\* reset: consume_email_token.
ResetBegin(c) ==
    /\ token = "open" /\ user.status = "active" /\ user.pw < bound.pw
    /\ BeginSign(c, [op |-> "reset", step |-> "read", fails |-> user.fails, locked |-> user.locked, keep |-> {}, rev |-> {}])
    /\ UNCHANGED <<user, sess, token, clock, wrong, stale>>

\* change_password, with the right current password.
ChangeBegin(c, s) ==
    /\ LookupSession(s) /\ user.pw < bound.pw
    /\ BeginSign(c, [op |-> "change", step |-> "read", fails |-> 0, locked |-> 0, keep |-> {s}, rev |-> {}])
    /\ UNCHANGED <<user, sess, token, clock, wrong, stale>>

\* Mutant: a change of the password leaves the sessions alone.
PasswordRevokesNone(c) == IF signReq[c].op = "change" THEN {} ELSE Live
\* revoke_all_sessions, except the session that asks.
PasswordRevokes(c) == Live \ signReq[c].keep

\* The UPDATE of sessions: what is committed from now on it does not see.
PasswordUpdate(c) ==
    /\ signReq[c].op \in {"reset", "change"} /\ signReq[c].step = "read"
    /\ signReq' = [signReq EXCEPT ![c] = [@ EXCEPT !.step = "revoked", !.rev = PasswordRevokes(c)]]
    /\ UNCHANGED <<user, sess, token, clock, wrong, stale, begun>>

PasswordCommit(c) ==
    LET r == signReq[c] pw == user.pw + 1 IN
    /\ r.op \in {"reset", "change"} /\ r.step = "revoked" /\ EndSign(c) /\ pw <= bound.pw
    /\ sess' = [s \in SessIds |-> IF s \in r.keep THEN [sess[s] EXCEPT !.pw = pw] ELSE Revoke(r.rev)[s]]
    /\ IF r.op = "reset"
       THEN /\ user' = [Cleared(r) EXCEPT !.pw = pw]
            /\ token' = "used" /\ wrong' = 0 /\ stale' = Outdated(r)
       ELSE user' = [user EXCEPT !.pw = pw] /\ UNCHANGED <<token, wrong, stale>>
    /\ UNCHANGED clock
-----------------------------------------------------------------------------
(* Sessions and administration                                             *)

\* logout: request.state.session_id is only set by current_user, which the
\* route does not depend on; the cookie goes, the row stays.
Logout(s) ==
    /\ LookupSession(s)
    /\ sess' = [sess EXCEPT ![s].st = "left"]
    /\ UNCHANGED <<user, token, signReq, clock, wrong, stale, begun>>

\* logout_all, of a signed-in user, and admin_revoke_all_sessions.
AdminRevokeAll == Live # {} /\ sess' = Revoke(Live) /\ UNCHANGED <<user, token, signReq, clock, wrong, stale, begun>>
LogoutAll == (\E s \in SessIds : LookupSession(s)) /\ AdminRevokeAll
\* delete_session, of a signed-in user, and admin_revoke_session; a session
\* that runs out is not let in any more either.
AdminRevokeSession(s) == s \in Live /\ sess' = Revoke({s}) /\ UNCHANGED <<user, token, signReq, clock, wrong, stale, begun>>
DeleteSession(s) == (\E o \in SessIds : LookupSession(o)) /\ AdminRevokeSession(s)

LockUser == user' = [user EXCEPT !.locked = clock + 1] /\ UNCHANGED <<sess, token, signReq, clock, wrong, stale, begun>>
UnlockUser ==
    /\ user' = [user EXCEPT !.locked = 0, !.fails = 0] /\ wrong' = 0
    /\ UNCHANGED <<sess, token, signReq, clock, stale, begun>>
\* update_user: status.
UpdateUser(st) == user' = [user EXCEPT !.status = st] /\ UNCHANGED <<sess, token, signReq, clock, wrong, stale, begun>>

\* Time passes: a lock or a token may run out.
Tick == clock < bound.clock /\ clock' = clock + 1 /\ UNCHANGED <<user, sess, token, signReq, wrong, stale, begun>>
ResetTokenExpires == token = "open" /\ token' = "expired" /\ UNCHANGED <<user, sess, signReq, clock, wrong, stale, begun>>

SStep ==
    \/ \E c \in Clients :
        \/ \E op \in {"login", "challenge"}, right \in BOOLEAN : LoginBegin(c, op, right)
        \/ LoginRefused(c) \/ LoginDone(c)
        \/ ResetBegin(c) \/ (\E s \in SessIds : ChangeBegin(c, s))
        \/ PasswordUpdate(c) \/ PasswordCommit(c)
    \/ Impersonate \/ GoogleLogin \/ Forgot \/ AdminResetPassword \/ LogoutAll \/ AdminRevokeAll \/ LockUser \/ UnlockUser \/ Tick \/ ResetTokenExpires
    \/ \E s \in SessIds : Logout(s) \/ DeleteSession(s) \/ AdminRevokeSession(s)
    \/ \E st \in {"active", "suspended"} : UpdateUser(st)

SNext == SStep /\ UNCHANGED bound
SSpec == SInit /\ [][SNext]_sVars
-----------------------------------------------------------------------------
(* A change of the password ends the other sessions: a session that is     *)
(* still live was opened since, or made the change, or its login was under *)
(* way while the password changed.                                         *)
PasswordEndsSessions == \A s \in Live : sess[s].pw = user.pw \/ sess[s].raced

(* Every refused attempt is counted, whichever route it came by, as long   *)
(* as no attempt was counted over a count that had changed meanwhile.      *)
FailuresCounted == ~stale => user.fails = wrong

(* An account with Threshold failures on record carries a lock (which may  *)
(* have run out), under the same proviso.                                  *)
FailuresLock == ~stale /\ user.fails >= Threshold => user.locked # 0

\* Sessions follow the password, and refused attempts count and lock (auth.py).
SignInHolds ==
    /\ SignInTypeOK
    /\ PasswordEndsSessions
    /\ FailuresCounted
    /\ FailuresLock
=============================================================================
