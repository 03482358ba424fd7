---------------------------- MODULE Credentials ----------------------------
(***************************************************************************)
(* The password of one account against its sessions: login, forgotten      *)
(* password, assisted reset, reset, change and deletion (routes/login.rs,  *)
(* routes/account.rs, routes/admin.rs, services/tokens_svc.rs).            *)
(*                                                                         *)
(* Every statement of these handlers is keyed by the account's id, so one  *)
(* account is enough.  One action is one statement with the local          *)
(* computation that follows it; a request can stop between any two.        *)
(* A value of Password stands for what is stored (hash and salt) and for   *)
(* what a client must know to match it.                                    *)
(***************************************************************************)
EXTENDS Naturals, FiniteSets

CONSTANTS
    Password,
    Sid,         \* sessions the account can come to have
    ResetToken,  \* action tokens of kind pw_reset
    Req,         \* concurrent requests
    ListLimit,   \* the LIMIT 100 of list_user_sessions
    None

ASSUME ConstantsAssumption ==
    /\ ListLimit \in Nat \ {0}
    /\ IsFiniteSet(Sid)
    /\ None \notin Password /\ None \notin Sid /\ None \notin ResetToken

VARIABLES
    password,  \* users.password_hash and salt
    account,   \* users.deleted_at: "active" or "deleted"
    live,      \* sessions with revoked = FALSE
    ended,     \* sessions with revoked = TRUE
    tokens,    \* rows of kind pw_reset: absent, unused, expired or used
    req,       \* the requests
    basis,     \* history: the password each session was opened with, or None
    excused,   \* history: sessions left live for a named reason since the last time
               \* a password was stored or the account deleted
    effects,   \* history: <<token, request>> of the passwords set with a token
    overlapped \* history: tokens a request found while another was about to use them

rows == <<password, account, live, ended, tokens>>
history == <<basis, excused, effects, overlapped>>
vars == <<rows, req, history>>

Pc == {"done", "openSession", "mint", "useToken", "setReset", "setChange",
       "softDelete", "revokeAll", "list", "loop"}

\* pw is the password that was matched (login) or is to be stored; own is the session
\* whose access token the request carries; todo is what is left of the listed sessions.
Request == [pc : Pc, pw : Password \cup {None}, own : Sid \cup {None},
            tok : ResetToken \cup {None}, todo : SUBSET Sid]

Idle == [pc |-> "done", pw |-> None, own |-> None, tok |-> None, todo |-> {}]

TypeOK ==
    /\ password \in Password
    /\ account \in {"active", "deleted"}
    /\ live \subseteq Sid /\ ended \subseteq Sid /\ live \cap ended = {}
    /\ tokens \in [ResetToken -> {"absent", "unused", "expired", "used"}]
    /\ req \in [Req -> Request]
    /\ basis \in [Sid -> Password \cup {None}]
    /\ excused \subseteq Sid
    /\ effects \subseteq ResetToken \X Req
    /\ overlapped \subseteq ResetToken

Init ==
    /\ password \in Password
    /\ account = "active"
    /\ live = {} /\ ended = {}
    /\ tokens = [t \in ResetToken |-> "absent"]
    /\ req = [r \in Req |-> Idle]
    /\ basis = [s \in Sid |-> None]
    /\ excused = {} /\ effects = {} /\ overlapped = {}

\* A bug: the statement that revokes matches no row.
StillLiveForgets(S) == live

\* revoked = TRUE for the sessions of S.
StillLive(S) == live \ S

Goto(r, pc) == req' = [req EXCEPT ![r].pc = pc]
Finish(r) == req' = [req EXCEPT ![r] = Idle]

----------------------------------------------------------------------------
(* Login *)

\* verify_credentials: find_by_email skips deleted accounts, then the hash is compared.
\* What follows (MFA, geolocation) reads neither of them again.
MatchPassword(r, p) ==
    /\ req[r].pc = "done"
    /\ account = "active"
    /\ p = password
    /\ req' = [req EXCEPT ![r] = [Idle EXCEPT !.pc = "openSession", !.pw = p]]
    /\ UNCHANGED <<rows, history>>

\* create_session.  History: opened with a password that is gone, or for nobody.
OpenSession(r, s) ==
    /\ req[r].pc = "openSession"
    /\ s \notin live \cup ended
    /\ live' = live \cup {s}
    /\ basis' = [basis EXCEPT ![s] = req[r].pw]
    /\ excused' = IF req[r].pw # password \/ account = "deleted"
                  THEN excused \cup {s} ELSE excused
    /\ Finish(r)
    /\ UNCHANGED <<password, account, ended, tokens, effects, overlapped>>

----------------------------------------------------------------------------
(* Reset tokens *)

\* find_by_email of forgot_password, get_user of the administrator's user_reset_link.
FindAccount(r) ==
    /\ req[r].pc = "done"
    /\ account = "active"
    /\ req' = [req EXCEPT ![r] = [Idle EXCEPT !.pc = "mint"]]
    /\ UNCHANGED <<rows, history>>

\* issue_action_token, and the link is sent.
Mint(r, t) ==
    /\ req[r].pc = "mint"
    /\ tokens[t] = "absent"
    /\ tokens' = [tokens EXCEPT ![t] = "unused"]
    /\ Finish(r)
    /\ UNCHANGED <<password, account, live, ended, history>>

ExpireToken(t) ==
    /\ tokens[t] = "unused"
    /\ tokens' = [tokens EXCEPT ![t] = "expired"]
    /\ UNCHANGED <<password, account, live, ended, req, history>>

\* consume_action_token, its SELECT: used_at IS NULL and not expired.  The account's
\* deleted_at is not looked at.
FindToken(r, t, p) ==
    /\ req[r].pc = "done"
    /\ tokens[t] = "unused"
    /\ req' = [req EXCEPT ![r] = [Idle EXCEPT !.pc = "useToken", !.pw = p, !.tok = t]]
    /\ overlapped' = overlapped \cup
          {x \in {t} : \E q \in Req : req[q].pc = "useToken" /\ req[q].tok = x}
    /\ UNCHANGED <<rows, basis, excused, effects>>

\* A bug: the row of the token is found but not marked.
MarkedLeft(t) == tokens[t]

Marked(t) == "used"

\* consume_action_token, its UPDATE: WHERE id = $1, whatever used_at is by now.
UseToken(r) ==
    /\ req[r].pc = "useToken"
    /\ tokens' = [tokens EXCEPT ![req[r].tok] = Marked(req[r].tok)]
    /\ Goto(r, "setReset")
    /\ UNCHANGED <<password, account, live, ended, history>>

\* A bug: the sessions are left alone.
AfterResetForgets == "done"

\* What reset_password does once the password is stored.
AfterReset == "revokeAll"

\* set_credentials
SetReset(r) ==
    /\ req[r].pc = "setReset"
    /\ password' = req[r].pw
    /\ effects' = effects \cup {<<req[r].tok, r>>}
    /\ excused' = {}
    /\ Goto(r, AfterReset)
    /\ UNCHANGED <<account, live, ended, tokens, basis, overlapped>>

----------------------------------------------------------------------------
(* Handlers behind require_auth *)

\* change_password: require_auth reads the user, and the current password is compared
\* with what it read.  The session may be revoked already: only the JWT counts.
AskChange(r, s, p) ==
    /\ req[r].pc = "done"
    /\ account = "active"
    /\ s \in live \cup ended
    /\ req' = [req EXCEPT ![r] =
                 [Idle EXCEPT !.pc = "setChange", !.pw = p, !.own = s]]
    /\ UNCHANGED <<rows, history>>

SetChange(r) ==
    /\ req[r].pc = "setChange"
    /\ password' = req[r].pw
    /\ excused' = {}
    /\ Goto(r, "list")
    /\ UNCHANGED <<account, live, ended, tokens, basis, effects, overlapped>>

\* What the loop is to revoke, of what list_user_sessions returned.
Others(listed, own) == listed \ {own}

\* list_user_sessions: at most ListLimit rows, revoked or not, in the order of
\* last_seen_at, which any other request can have changed.
List(r) ==
    /\ req[r].pc = "list"
    /\ \E listed \in SUBSET (live \cup ended) :
          /\ \/ listed = live \cup ended
             \/ Cardinality(listed) = ListLimit
          /\ Cardinality(listed) <= ListLimit
          /\ req' = [req EXCEPT ![r].pc = "loop",
                                ![r].todo = Others(listed, req[r].own)]
          /\ excused' = excused \cup (live \ Others(listed, req[r].own))
    /\ UNCHANGED <<rows, basis, effects, overlapped>>

Rest(todo, s) == todo \ {s}

\* One turn of the loop; the error of revoke_session is ignored, and its UPDATE passes
\* over a session that has expired.
RevokeNext(r, s) ==
    /\ req[r].pc = "loop"
    /\ s \in req[r].todo
    /\ \/ /\ live' = StillLive({s})
          /\ ended' = ended \cup {s}
          /\ UNCHANGED excused
       \/ /\ excused' = excused \cup {s}
          /\ UNCHANGED <<live, ended>>
    /\ req' = [req EXCEPT ![r].todo = Rest(req[r].todo, s)]
    /\ UNCHANGED <<password, account, tokens, basis, effects, overlapped>>

EndLoop(r) ==
    /\ req[r].pc = "loop"
    /\ req[r].todo = {}
    /\ Finish(r)
    /\ UNCHANGED <<rows, history>>

\* delete_account once the password matched, or the administrator's delete_user,
\* which does not look whether the account is deleted already.
AskDelete(r) ==
    /\ req[r].pc = "done"
    /\ req' = [req EXCEPT ![r] = [Idle EXCEPT !.pc = "softDelete"]]
    /\ UNCHANGED <<rows, history>>

\* A bug: deletion trusts require_user to keep the sessions out.
AfterDeleteForgets == "done"

AfterDelete == "revokeAll"

SoftDelete(r) ==
    /\ req[r].pc = "softDelete"
    /\ account' = "deleted"
    /\ excused' = {}
    /\ Goto(r, AfterDelete)
    /\ UNCHANGED <<password, live, ended, tokens, basis, effects, overlapped>>

\* revoke_all_for_user, from reset_password and the deletions.
RevokeAll(r) ==
    /\ req[r].pc = "revokeAll"
    /\ ended' = ended \cup live
    /\ live' = StillLive(live)
    /\ Finish(r)
    /\ UNCHANGED <<password, account, tokens, history>>

\* logout, logout-all, DELETE /auth/sessions/{id}, a reuse alarm.
Revoke(S) ==
    /\ S # {} /\ S \subseteq live
    /\ live' = StillLive(S)
    /\ ended' = ended \cup S
    /\ UNCHANGED <<password, account, tokens, req, history>>

\* The sessions a request that stops here was still to revoke.
Pending(r) ==
    {s \in live : req[r].pc \in {"revokeAll", "list"}}
        \cup {s \in req[r].todo : req[r].pc = "loop"}

\* A statement fails, or the client hangs up.
Abort(r) ==
    /\ req[r].pc # "done"
    /\ Finish(r)
    /\ excused' = excused \cup Pending(r)
    /\ UNCHANGED <<rows, basis, effects, overlapped>>

Serve(r) ==
    \/ \E p \in Password : MatchPassword(r, p)
    \/ \E s \in Sid : OpenSession(r, s)
    \/ FindAccount(r)
    \/ \E t \in ResetToken : Mint(r, t)
    \/ \E t \in ResetToken, p \in Password : FindToken(r, t, p)
    \/ UseToken(r)
    \/ SetReset(r)
    \/ \E s \in Sid, p \in Password : AskChange(r, s, p)
    \/ SetChange(r)
    \/ List(r)
    \/ \E s \in Sid : RevokeNext(r, s)
    \/ EndLoop(r)
    \/ AskDelete(r)
    \/ SoftDelete(r)
    \/ RevokeAll(r)
    \/ Abort(r)

Next ==
    \/ \E r \in Req : Serve(r)
    \/ \E t \in ResetToken : ExpireToken(t)
    \/ \E S \in SUBSET Sid : Revoke(S)

Spec == Init /\ [][Next]_vars

----------------------------------------------------------------------------
(* Properties *)

\* A request that stored a password or deleted the account has yet to reach s.
BeingRevoked(s) == \E r \in Req : s \in Pending(r)

\* A session opened with a password that has been replaced is live only while the
\* request that replaced it is still revoking, or for one of the reasons the code
\* leaves: it was opened by a login that had matched the old password, it is the
\* session change_password keeps, it is past the LIMIT of the list, its revocation
\* failed silently, or the request stopped half-way (docs/API.md:87, :93).
SupersededIsExcused ==
    \A s \in live :
        basis[s] # password => s \in excused \/ BeingRevoked(s)

\* A deleted account keeps a live session only for one of the same reasons
\* (docs/API.md:99 "revocation totale").
DeletedIsExcused ==
    account = "deleted" => \A s \in live : s \in excused \/ BeingRevoked(s)

\* A reset token stores one password (services/tokens_svc.rs:44 and CHANGELOG.md:43
\* "usage unique"), unless a request found it while another had found it and not yet
\* marked it used.
ResetTokenOnceUnlessOverlapped ==
    \A e, f \in effects : e[1] = f[1] => e = f \/ e[1] \in overlapped
=============================================================================
