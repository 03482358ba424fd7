---------------------------- MODULE AccessTokens ----------------------------
(***************************************************************************)
(* Access tokens: what a JWT is worth once its session, its jti or its     *)
(* user is gone.  require_auth and issue_access_token of                   *)
(* services/auth_flow.rs, the jti blacklist of services/tokens_svc.rs, and *)
(* the logout handlers of routes/login.rs.                                 *)
(*                                                                         *)
(* The sessions table is seen through what RefreshRotation establishes     *)
(* (LateIsRefused): a request is granted tokens for a session only if the  *)
(* session was live when the request arrived.  One action is one statement *)
(* with the local computation that follows it.                             *)
(***************************************************************************)
EXTENDS Naturals

CONSTANTS
    User, Sid, Jti, Req,
    Owner,         \* the user_id column of each session
    AccessTtl,     \* ACCESS_TOKEN_TTL_SECS, in ticks
    Leeway,        \* the 30 s of crypto/jwt.rs:60, in ticks
    BlacklistTtl,  \* the 900 s of the logout handlers, whatever AccessTtl is, in ticks
    MayFail,       \* whether a statement whose error is ignored can fail
    MaxTime,       \* bound on the clock
    None

ASSUME ConstantsAssumption ==
    /\ Owner \in [Sid -> User]
    /\ AccessTtl \in Nat /\ Leeway \in Nat /\ BlacklistTtl \in Nat /\ MaxTime \in Nat
    /\ MayFail \in BOOLEAN
    /\ None \notin Nat /\ None \notin Sid /\ None \notin Jti
    /\ None \notin [sid : Sid, iat : Nat]

VARIABLES
    now,        \* the clock, in ticks
    status,     \* sessions table: absent, live, expired or revoked
    issued,     \* sid and iat of each signed access token, or None
    blacklist,  \* table revoked_jti: expires_at of the row, or None
    deleted,    \* users whose deleted_at is set
    req,        \* the requests
    quiet       \* history: since when a session is revoked and nothing is granting for it

tables == <<status, issued, blacklist, deleted>>
vars == <<now, tables, req, quiet>>

Token == [sid : Sid, iat : Nat]
Kind == {"other", "logout", "logoutAll"}
Pc == {"done", "grant", "checkJti", "checkUser", "handle", "blacklist"}

(***************************************************************************)
(* pc is what the request does next; an answered request leaves its slot   *)
(* Idle.  marks is history, what already held when the request arrived:    *)
(* "listed" (its jti has a row in revoked_jti) and "orphan" (its user is   *)
(* deleted).                                                               *)
(***************************************************************************)
Mark == {"listed", "orphan"}
Request == [pc : Pc, kind : Kind, sid : Sid \cup {None}, jti : Jti \cup {None},
            at : Nat, marks : SUBSET Mark]

Idle == [pc |-> "done", kind |-> "other", sid |-> None, jti |-> None, at |-> 0,
         marks |-> {}]

TypeOK ==
    /\ now \in Nat
    /\ status \in [Sid -> {"absent", "live", "expired", "revoked"}]
    /\ issued \in [Jti -> Token \cup {None}]
    /\ blacklist \in [Jti -> Nat \cup {None}]
    /\ deleted \subseteq User
    /\ req \in [Req -> Request]
    /\ quiet \in [Sid -> Nat \cup {None}]

Issued(j) == issued[j] # None

\* No request is between its admission and its token for s.
NobodyGrants(rq, s) == \A r \in Req : ~(rq[r].pc = "grant" /\ rq[r].sid = s)

\* History, a conjunct of every action: the first moment s is revoked for good.
Remember ==
    quiet' = [s \in Sid |->
        IF quiet[s] = None /\ status'[s] = "revoked" /\ NobodyGrants(req', s)
        THEN now ELSE quiet[s]]

Init ==
    /\ now = 0
    /\ status = [s \in Sid |-> "absent"]
    /\ issued = [j \in Jti |-> None]
    /\ blacklist = [j \in Jti |-> None]
    /\ deleted = {}
    /\ req = [r \in Req |-> Idle]
    /\ quiet = [s \in Sid |-> None]

Drop(r) == req' = [req EXCEPT ![r] = Idle]

----------------------------------------------------------------------------
(* Requests that obtain a token: complete_login, and a refresh *)

\* create_session by a login, or a refresh whose session row is found usable.
Admit(r, s) ==
    /\ req[r].pc = "done"
    /\ status[s] \in {"absent", "live"}
    /\ status' = [status EXCEPT ![s] = "live"]
    /\ req' = [req EXCEPT ![r] = [Idle EXCEPT !.pc = "grant", !.sid = s]]
    /\ UNCHANGED <<now, issued, blacklist, deleted>>
    /\ Remember

\* A rotation's UPDATE extends expires_at and does not look at revoked.
Prolong(r) ==
    LET s == req[r].sid
    IN  /\ req[r].pc = "grant"
        /\ status[s] = "expired"
        /\ status' = [status EXCEPT ![s] = "live"]
        /\ UNCHANGED <<now, issued, blacklist, deleted, req>>
        /\ Remember

\* issue_access_token: a new jti, iat now; it reads nothing of the session again.
Grant(r, j) ==
    /\ req[r].pc = "grant"
    /\ ~Issued(j)
    /\ issued' = [issued EXCEPT ![j] = [sid |-> req[r].sid, iat |-> now]]
    /\ Drop(r)
    /\ UNCHANGED <<now, status, blacklist, deleted>>
    /\ Remember

----------------------------------------------------------------------------
(* Requests that present a token *)

\* A bug: one unit of time too many.
AcceptedTooLong(j) == now <= issued[j].iat + AccessTtl + Leeway + 1

\* JwtKeys::verify accepts until exp + leeway.
Accepted(j) == now <= issued[j].iat + AccessTtl + Leeway

Marks(j) ==
    {m \in Mark : \/ m = "listed" /\ blacklist[j] # None
                  \/ m = "orphan" /\ Owner[issued[j].sid] \in deleted}

\* The JWT is verified; the cut-off of the jti query is computed in the same poll.
Arrive(r, k, j) ==
    /\ req[r].pc = "done"
    /\ Issued(j)
    /\ \/ ~Accepted(j) /\ Drop(r)
       \/ /\ Accepted(j)
          /\ req' = [req EXCEPT ![r] = [Idle EXCEPT !.pc = "checkJti", !.kind = k,
                !.sid = issued[j].sid, !.jti = j, !.at = now, !.marks = Marks(j)]]
    /\ UNCHANGED <<now, tables>>
    /\ Remember

\* A bug: the cut-off is the moment the query runs, after the wait for a connection.
RevokedJtiLate(r) ==
    LET row == blacklist[req[r].jti] IN row # None /\ row > now

\* is_jti_revoked: jti = $1 AND expires_at > $2, with the $2 of the arrival.
RevokedJti(r) ==
    LET row == blacklist[req[r].jti] IN row # None /\ row > req[r].at

CheckJti(r) ==
    /\ req[r].pc = "checkJti"
    /\ \/ RevokedJti(r) /\ Drop(r)
       \/ ~RevokedJti(r) /\ req' = [req EXCEPT ![r].pc = "checkUser"]
    /\ UNCHANGED <<now, tables>>
    /\ Remember

\* A bug: get_user without deleted_at IS NULL.
UserGoneIgnored(r) == FALSE

UserGone(r) == Owner[req[r].sid] \in deleted

\* require_user; the touch that follows writes last_seen_at alone.
CheckUser(r) ==
    /\ req[r].pc = "checkUser"
    /\ \/ UserGone(r) /\ Drop(r)
       \/ ~UserGone(r) /\ req' = [req EXCEPT ![r].pc = "handle"]
    /\ UNCHANGED <<now, tables>>
    /\ Remember

\* The body of any handler behind require_auth that is not a logout.
Handle(r) ==
    /\ req[r].pc = "handle"
    /\ req[r].kind = "other"
    /\ Drop(r)
    /\ UNCHANGED <<now, tables>>
    /\ Remember

\* A bug: the rows are deleted instead of flagged.
RevokeRowsDropped(S) == [s \in Sid |-> IF s \in S THEN None ELSE status[s]]

RevokeRows(S) == [s \in Sid |-> IF s \in S THEN "revoked" ELSE status[s]]

\* revoke_session: its WHERE clause skips a session that has expired.
Logout(r) ==
    /\ req[r].pc = "handle"
    /\ req[r].kind = "logout"
    /\ \/ status' = RevokeRows({s \in {req[r].sid} : status[s] = "live"})
       \/ MayFail /\ UNCHANGED status
    /\ req' = [req EXCEPT ![r].pc = "blacklist"]
    /\ UNCHANGED <<now, issued, blacklist, deleted>>
    /\ Remember

SessionsOf(u) == {s \in Sid : Owner[s] = u /\ status[s] # "absent"}

LogoutAll(r) ==
    /\ req[r].pc = "handle"
    /\ req[r].kind = "logoutAll"
    /\ status' = RevokeRows(SessionsOf(Owner[req[r].sid]))
    /\ req' = [req EXCEPT ![r].pc = "blacklist"]
    /\ UNCHANGED <<now, issued, blacklist, deleted>>
    /\ Remember

BlacklistUntil(r) == now + BlacklistTtl

\* blacklist_jti: jti is the primary key and the error of a second INSERT is ignored.
Blacklist(r) ==
    LET j == req[r].jti
    IN  /\ req[r].pc = "blacklist"
        /\ \/ /\ blacklist[j] = None
              /\ blacklist' = [blacklist EXCEPT ![j] = BlacklistUntil(r)]
           \/ /\ blacklist[j] # None \/ MayFail
              /\ UNCHANGED blacklist
        /\ Drop(r)
        /\ UNCHANGED <<now, status, issued, deleted>>
        /\ Remember

\* A statement whose error is returned fails, or the client hangs up.
Abort(r) ==
    /\ req[r].pc # "done"
    /\ Drop(r)
    /\ UNCHANGED <<now, tables>>
    /\ Remember

----------------------------------------------------------------------------
(* Other writers, and time *)

\* revoke_session by another device or an administrator.
RevokeSession(s) ==
    /\ status[s] = "live"
    /\ status' = RevokeRows({s})
    /\ UNCHANGED <<now, issued, blacklist, deleted, req>>
    /\ Remember

\* soft_delete; the revoke_all_for_user after it is a statement of its own.
SoftDelete(u) ==
    /\ u \notin deleted
    /\ deleted' = deleted \cup {u}
    /\ UNCHANGED <<now, status, issued, blacklist, req>>
    /\ Remember

\* revoke_all_for_user by reset_password, delete_account or a reuse alarm.
RevokeAll(u) ==
    /\ status' = RevokeRows(SessionsOf(u))
    /\ UNCHANGED <<now, issued, blacklist, deleted, req>>
    /\ Remember

\* expires_at of the session passes.
Expire(s) ==
    /\ status[s] = "live"
    /\ status' = [status EXCEPT ![s] = "expired"]
    /\ UNCHANGED <<now, issued, blacklist, deleted, req>>
    /\ Remember

Tick ==
    /\ now < MaxTime
    /\ now' = now + 1
    /\ UNCHANGED <<tables, req>>
    /\ Remember

Serve(r) ==
    \/ \E s \in Sid : Admit(r, s)
    \/ Prolong(r)
    \/ \E j \in Jti : Grant(r, j)
    \/ \E k \in Kind, j \in Jti : Arrive(r, k, j)
    \/ CheckJti(r)
    \/ CheckUser(r)
    \/ Handle(r)
    \/ Logout(r)
    \/ LogoutAll(r)
    \/ Blacklist(r)
    \/ Abort(r)

Others ==
    \/ \E s \in Sid : RevokeSession(s)
    \/ \E u \in User : SoftDelete(u)
    \/ \E u \in User : RevokeAll(u)
    \/ \E s \in Sid : Expire(s)
    \/ Tick

Next == (\E r \in Req : Serve(r)) \/ Others

Spec == Init /\ [][Next]_vars

----------------------------------------------------------------------------
(* Properties *)

\* The request got past require_auth: its handler runs and answers 200.
Admitted(r) == req[r].pc \in {"handle", "blacklist"}

\* A token whose jti is in revoked_jti when it arrives is refused for BlacklistTtl from its
\* signature on, however long its request waits for the database.  Rows of revoked_jti
\* lapse (services/tokens_svc.rs:100), and with the code's values (login.rs:246: 900 s,
\* config.rs:63: 900 s, jwt.rs:60: 30 s) a row may lapse before its token: a logged-out
\* token is then honoured again, but only between its own expiry and the end of its leeway.
ListedIsRefusedForItsTtl ==
    \A r \in Req :
        (Admitted(r) /\ "listed" \in req[r].marks)
            => req[r].at >= issued[req[r].jti].iat + BlacklistTtl

\* A request that arrives after its user was deleted is refused, also in the gap
\* between soft_delete and the revocation of the user's sessions.
DeletedIsRefused ==
    \A r \in Req : Admitted(r) => "orphan" \notin req[r].marks

\* require_auth never reads sessions.revoked: a revoked session stays usable, but not
\* longer than one access token after the last grant in flight when it was revoked
\* (docs/SECURITY.md:9 relies on the short TTL).
RevocationFades ==
    \A r \in Req :
        (Admitted(r) /\ quiet[req[r].sid] # None)
            => req[r].at <= quiet[req[r].sid] + AccessTtl + Leeway
=============================================================================
