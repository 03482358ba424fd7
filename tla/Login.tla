------------------------------- MODULE Login -------------------------------
(***************************************************************************)
(* A login with a second factor, from the password to the session: login   *)
(* and mfa_verify of routes/login.rs over Mfa (services/mfa.rs), the       *)
(* pending token of services/auth_flow.rs, and the password and the        *)
(* account that other handlers replace and delete meanwhile.               *)
(*                                                                         *)
(* The pending token is a signed statement that the password matched; no   *)
(* table remembers it, so it can be presented again, and by several        *)
(* requests, until it expires.  A request slot is used by the handlers of  *)
(* Mfa (req) or by a login (login), and by both while a login spends a     *)
(* recovery code.                                                          *)
(***************************************************************************)
EXTENDS Mfa

CONSTANTS
    Password,
    PendingTtl,  \* the 300 s of issue_mfa_pending, in ticks
    Leeway,      \* the 30 s of crypto/jwt.rs:60, in ticks
    MaxPending,  \* bound on the pending tokens signed
    MaxTime      \* bound on the clock

ASSUME LoginAssumption ==
    /\ PendingTtl \in Nat /\ Leeway \in Nat /\ MaxPending \in Nat /\ MaxTime \in Nat
    /\ None \notin Nat /\ None \notin Password

VARIABLES
    now,        \* the clock, in ticks
    password,   \* users.password_hash
    deletedAt,  \* users.deleted_at, or None
    pending,    \* pending tokens signed so far
    login,      \* the login requests
    replaced    \* history: when each password was last replaced, or None

account == <<now, password, deletedAt, replaced>>
factor == <<row, req, history>>
loginVars == <<account, factor, pending, login>>

(***************************************************************************)
(* pw is the password that matched and secret the one the challenge was    *)
(* checked against.  The rest is history: asked is when the password was   *)
(* matched or the pending token accepted, found when the user was last     *)
(* looked up, marks has "off" once the second factor has not been in force *)
(* since the password matched, and "late" if the password was replaced     *)
(* before the pending token was signed.                                    *)
(***************************************************************************)
Mark == {"off", "late"}
Grounds == [pw : Password, secret : Secret \cup {None}, asked : Nat, found : Nat,
            marks : SUBSET Mark]
LoginPc == {"isEnabled", "saveRest", "requireUser", "openSession"}
LoginRequest == [pc : LoginPc, on : Grounds]
PendingToken == [pw : Password, exp : Nat, late : BOOLEAN]

LoginTypeOK ==
    /\ TypeOK
    /\ now \in Nat
    /\ password \in Password
    /\ deletedAt \in Nat \cup {None}
    /\ pending \subseteq PendingToken
    /\ login \in [Req -> LoginRequest \cup {None}]
    /\ replaced \in [Password -> Nat \cup {None}]

LoginInit ==
    /\ Init
    /\ now = 0
    /\ password \in Password
    /\ deletedAt = None
    /\ pending = {}
    /\ login = [r \in Req |-> None]
    /\ replaced = [p \in Password |-> None]

At(r, pc) == login[r] # None /\ login[r].pc = pc
Free(r) == req[r].pc = "done" /\ login[r] = None

Answer(r) == login' = [login EXCEPT ![r] = None]
Enter(r, pc, on) == login' = [login EXCEPT ![r] = [pc |-> pc, on |-> on]]

----------------------------------------------------------------------------
(* POST /auth/login *)

\* verify_credentials: find_by_email skips deleted accounts.
MatchPassword(r, p) ==
    /\ Free(r)
    /\ deletedAt = None
    /\ p = password
    /\ Enter(r, "isEnabled",
             [pw |-> p, secret |-> None, asked |-> now, found |-> now,
              marks |-> {m \in {"off"} : ~InForce(row)}])
    /\ UNCHANGED <<account, factor, pending>>

\* is_enabled answers yes: issue_mfa_pending.
Defer(r) ==
    /\ At(r, "isEnabled")
    /\ InForce(row)
    /\ Cardinality(pending) < MaxPending
    /\ pending' = pending \cup
          {[pw |-> login[r].on.pw, exp |-> now + PendingTtl,
            late |-> "late" \in login[r].on.marks]}
    /\ Answer(r)
    /\ UNCHANGED <<account, factor>>

\* A bug: an error of is_enabled reads as no.
MaySkipOnError(x) == TRUE

MaySkip(x) == ~InForce(x)

\* is_enabled answers no: complete_login.
Skip(r) ==
    /\ At(r, "isEnabled")
    /\ MaySkip(row)
    /\ Enter(r, "openSession", login[r].on)
    /\ UNCHANGED <<account, factor, pending>>

----------------------------------------------------------------------------
(* POST /auth/mfa/verify with a pending token *)

\* A bug: the expiry of a pending token is not validated.
AcceptedForever(t) == t \in pending

\* jwt.verify
Accepted(t) == t \in pending /\ now <= t.exp + Leeway

\* What a login that presents t rests on.
GroundsOf(t) ==
    [pw |-> t.pw, secret |-> row.secret, asked |-> now, found |-> 0,
     marks |-> {m \in {"late"} : t.late}]

\* verify_challenge with a TOTP code of the secret that get_row returned.
PresentTotp(r, t) ==
    /\ Free(r)
    /\ Accepted(t)
    /\ InForce(row)
    /\ Enter(r, "requireUser", GroundsOf(t))
    /\ UNCHANGED <<account, factor, pending>>

\* verify_challenge with a recovery code ...
PresentCode(r, t, c) ==
    /\ login[r] = None
    /\ Accepted(t)
    /\ Challenge(r, c)
    /\ Enter(r, "saveRest", GroundsOf(t))
    /\ UNCHANGED <<account, pending>>

\* ... which is gone before the user is looked up.
SpendCode(r) ==
    /\ At(r, "saveRest")
    /\ SaveRest(r)
    /\ Enter(r, "requireUser", login[r].on)
    /\ UNCHANGED <<account, pending>>

\* require_user
MayOpen == deletedAt = None

RequireUser(r) ==
    /\ At(r, "requireUser")
    /\ IF MayOpen
       THEN Enter(r, "openSession", [login[r].on EXCEPT !.found = now])
       ELSE Answer(r)
    /\ UNCHANGED <<account, factor, pending>>

\* complete_login: create_session, which looks at nothing; its row is the one of Login
\* in RefreshRotation.
OpenSession(r) ==
    /\ At(r, "openSession")
    /\ Answer(r)
    /\ UNCHANGED <<account, factor, pending>>

\* A statement fails, or the client hangs up.
HangUp(r) ==
    /\ ~Free(r)
    /\ Stop(r)
    /\ Answer(r)
    /\ UNCHANGED <<account, pending>>

----------------------------------------------------------------------------
(* What the other handlers do meanwhile *)

\* The logins of the requests of R get the mark.
Marked(mark, R) ==
    [r \in Req |->
        IF r \in R THEN [login[r] EXCEPT !.on.marks = @ \cup {mark}] ELSE login[r]]

\* mfa_enable with a session of the account.
SetupAgain(k) ==
    /\ Setup(k)
    /\ login' = Marked("off", {r \in Req : login[r] # None})
    /\ UNCHANGED <<account, pending>>

ConfirmSetup(r) ==
    /\ login[r] = None
    /\ \/ \E batch \in SUBSET Code : Confirm(r, batch)
       \/ SaveBatch(r)
       \/ Enable(r)
       \/ Show(r)
    /\ UNCHANGED <<account, pending, login>>

\* set_credentials, from reset_password or change_password.
ReplacePassword(p) ==
    /\ p # password
    /\ password' = p
    /\ replaced' = [replaced EXCEPT ![password] = now]
    /\ login' = Marked("late", {r \in Req : At(r, "isEnabled")})
    /\ UNCHANGED <<now, deletedAt, factor, pending>>

\* soft_delete: the row of mfa stays.
Delete ==
    /\ deletedAt = None
    /\ deletedAt' = now
    /\ UNCHANGED <<now, password, replaced, factor, pending, login>>

Tick ==
    /\ now < MaxTime
    /\ now' = now + 1
    /\ UNCHANGED <<password, deletedAt, replaced, factor, pending, login>>

LogIn(r) ==
    \/ \E p \in Password : MatchPassword(r, p)
    \/ Defer(r)
    \/ Skip(r)
    \/ \E t \in pending : PresentTotp(r, t)
    \/ \E t \in pending, c \in Code : PresentCode(r, t, c)
    \/ SpendCode(r)
    \/ RequireUser(r)
    \/ OpenSession(r)
    \/ ConfirmSetup(r)
    \/ HangUp(r)

LoginNext ==
    \/ \E r \in Req : LogIn(r)
    \/ \E k \in Secret : SetupAgain(k)
    \/ \E p \in Password : ReplacePassword(p)
    \/ Delete
    \/ Tick

LoginSpec == LoginInit /\ [][LoginNext]_loginVars

----------------------------------------------------------------------------
(* Properties *)

\* What the logins that are about to open a session rest on.
Opening == {login[r].on : r \in {x \in Req : At(x, "openSession")}}

\* A session opened without a challenge belongs to a login during which the second
\* factor was, at some moment, not in force; one opened with a challenge proved a secret
\* its user had confirmed, unless a setup overlapped that confirmation
\* (routes/login.rs:67 "MFA actif ? -> challenge intermediaire").
SecondFactorHeld ==
    \A on \in Opening :
        IF on.secret = None
        THEN "off" \in on.marks
        ELSE on.secret \in confirmed \/ "setup" \in raced

\* What a session rests on held when it was last asked for.  A password that was replaced
\* opens a session only by a login that was under way or by a pending token, for the
\* token's five minutes and the leeway; a deleted account only by a login that had
\* already looked the user up.
GroundsHeld ==
    \A on \in Opening :
        /\ \/ on.pw = password
           \/ "late" \in on.marks
           \/ on.asked <= replaced[on.pw] + PendingTtl + Leeway
        /\ deletedAt # None => on.found <= deletedAt
=============================================================================
