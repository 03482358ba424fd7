-------------------------- MODULE RefreshRotation --------------------------
(***************************************************************************)
(* Refresh-token rotation: services/sessions.rs and the handler            *)
(* POST /auth/token/refresh of routes/login.rs, on PostgreSQL.             *)
(*                                                                         *)
(* No handler opens a database transaction.  Each SQL statement commits on *)
(* its own and the task yields at every .await, so one action is one       *)
(* statement (with the local computation that follows it), and any number  *)
(* of requests, logouts, logins and deletions interleave between them.     *)
(* A request can stop after any statement: a database error is returned by *)
(* `?`, and axum drops the future of a client that hangs up.               *)
(***************************************************************************)
EXTENDS Naturals, FiniteSets

CONSTANTS
    User,        \* accounts
    Sid,         \* rows the sessions table can come to hold
    Token,       \* refresh tokens; a token stands for its HMAC too
    Req,         \* concurrent activations of the refresh handler
    RefreshTtl,  \* REFRESH_TOKEN_TTL_SECS, in ticks
    MaxTime,     \* bound on the clock
    None         \* no row, no token

SessionRow == [user : User, hash : Token, expires : Nat, revoked : BOOLEAN]

ASSUME ConstantsAssumption ==
    /\ RefreshTtl \in Nat
    /\ MaxTime \in Nat
    /\ None \notin Sid
    /\ None \notin Token
    /\ None \notin SessionRow

VARIABLES
    now,        \* util::now(), in ticks
    sessions,   \* table sessions: its row, or None
    traces,     \* value_hash of the tokens rows of kind 'refresh_rotated'
    deleted,    \* users whose deleted_at is set
    req,        \* the refresh requests
    known,      \* history: tokens that reached a client
    family,     \* history: the session each token was minted for, or None
    exchanged,  \* history: <<presented, new>> of each RotateOutcome::Rotated
    late,       \* history: requests that arrived too late for their token
    replayed    \* history: requests that arrived with an exchanged token

tables == <<sessions, traces, deleted>>
arrivals == <<late, replayed>>
vars == <<now, tables, req, known, family, exchanged, arrivals>>

(***************************************************************************)
(* pc is the statement the request is about to run; "done" is both a fresh *)
(* slot and an answered request.                                           *)
(***************************************************************************)
Pc == {"done", "checkTrace", "revokeAll", "update", "insertTrace", "requireUser"}
Answer == {"none", "rotated", "invalid", "reuse", "error"}
Request == [pc : Pc, presented : Token \cup {None}, sid : Sid \cup {None},
            new : Token \cup {None}, answer : Answer]

TypeOK ==
    /\ now \in Nat
    /\ sessions \in [Sid -> SessionRow \cup {None}]
    /\ traces \subseteq Token
    /\ deleted \subseteq User
    /\ req \in [Req -> Request]
    /\ known \subseteq Token
    /\ family \in [Token -> Sid \cup {None}]
    /\ exchanged \subseteq Token \X Token
    /\ late \subseteq Req
    /\ replayed \subseteq Req

Rows == {s \in Sid : sessions[s] # None}
RowsOf(u) == {s \in Rows : sessions[s].user = u}

\* A bug: the generator repeats a token that no client has received.
FreshUnlessKnown(t) == t \notin known

\* secure_token: 384 random bits, so never a token minted before.
Fresh(t) == family[t] = None

Expired(s) == sessions[s].expires < now

\* The session a token was minted for is revoked or expired, or its owner is gone.
LateFor(t) ==
    LET s == family[t]
    IN  /\ s \in Rows
        /\ \/ sessions[s].revoked
           \/ Expired(s)
           \/ sessions[s].user \in deleted

RevokeRows(S) ==
    [s \in Sid |-> IF s \in S THEN [sessions[s] EXCEPT !.revoked = TRUE]
                              ELSE sessions[s]]

Init ==
    /\ now = 0
    /\ sessions = [s \in Sid |-> None]
    /\ traces = {}
    /\ deleted = {}
    /\ req = [r \in Req |-> [pc |-> "done", presented |-> None, sid |-> None,
                             new |-> None, answer |-> "none"]]
    /\ known = {}
    /\ family = [t \in Token |-> None]
    /\ exchanged = {}
    /\ late = {}
    /\ replayed = {}

----------------------------------------------------------------------------
(* Steps of one refresh request *)

Reply(r, a) == req' = [req EXCEPT ![r] = [@ EXCEPT !.pc = "done", !.answer = a]]

Asked(t, pc, s, a) ==
    [pc |-> pc, presented |-> t, sid |-> s, new |-> None, answer |-> a]

\* SELECT * FROM sessions WHERE refresh_hash = $1
Holders(t) == {s \in Rows : sessions[s].hash = t}

\* A bug: only the expiry is checked.
UsableForgetsRevoked(s) == ~Expired(s)

\* find_by_refresh_hash, and the checks on the row it returned.
Usable(s) == ~sessions[s].revoked /\ ~Expired(s)

Find(r, t) ==
    /\ req[r].pc = "done"
    /\ t \in known
    /\ \/ /\ \A s \in Holders(t) : ~Usable(s)
          /\ req' = [req EXCEPT ![r] = Asked(t, "done", None, "invalid")]
       \/ \E s \in Holders(t) :
             /\ Usable(s)
             /\ req' = [req EXCEPT ![r] = Asked(t, "checkTrace", s, "none")]
    /\ late' = IF LateFor(t) THEN late \cup {r} ELSE late \ {r}
    /\ replayed' = IF t \in traces THEN replayed \cup {r} ELSE replayed \ {r}
    /\ UNCHANGED <<now, tables, known, family, exchanged>>

\* was_refresh_rotated
CheckTrace(r) ==
    /\ req[r].pc = "checkTrace"
    /\ req' = [req EXCEPT ![r].pc = IF req[r].presented \in traces
                                    THEN "revokeAll" ELSE "update"]
    /\ UNCHANGED <<now, tables, known, family, exchanged, arrivals>>

\* revoke_all_for_user, then ReuseDetected
RevokeReused(r) ==
    /\ req[r].pc = "revokeAll"
    /\ sessions' = RevokeRows(RowsOf(sessions[req[r].sid].user))
    /\ Reply(r, "reuse")
    /\ UNCHANGED <<now, traces, deleted, known, family, exchanged, arrivals>>

\* A bug: the whole row is written back from a fresh value.
RotatedRowRevives(row, t) ==
    [row EXCEPT !.hash = t, !.expires = now + RefreshTtl, !.revoked = FALSE]

\* A bug: the new hash is bound to the wrong placeholder.
RotatedRowNullHash(row, t) == [row EXCEPT !.hash = None, !.expires = now + RefreshTtl]

\* A bug: the row keeps the token it was found by.
RotatedRowKeepsHash(row, t) == [row EXCEPT !.expires = now + RefreshTtl]

\* SET refresh_hash, last_seen_at, expires_at: revoked is neither read nor written.
RotatedRow(row, t) == [row EXCEPT !.hash = t, !.expires = now + RefreshTtl]

\* UPDATE sessions ... WHERE id = $1.  The new token is random: one never minted.
Update(r, t) ==
    LET s == req[r].sid
    IN  /\ req[r].pc = "update"
        /\ Fresh(t)
        /\ sessions' = [sessions EXCEPT ![s] = RotatedRow(sessions[s], t)]
        /\ family' = [family EXCEPT ![t] = s]
        /\ req' = [req EXCEPT ![r] = [@ EXCEPT !.pc = "insertTrace", !.new = t]]
        /\ UNCHANGED <<now, traces, deleted, known, exchanged, arrivals>>

\* A bug: the index is not unique, or the INSERT says ON CONFLICT DO NOTHING.
TraceConflictIgnored(t) == FALSE

\* idx_tokens_value is a UNIQUE index on value_hash.
TraceConflict(t) == t \in traces

\* INSERT INTO tokens ... 'refresh_rotated'
InsertTrace(r) ==
    LET t == req[r].presented
    IN  /\ req[r].pc = "insertTrace"
        /\ \/ /\ TraceConflict(t)
              /\ Reply(r, "error")
              /\ UNCHANGED <<traces, exchanged>>
           \/ /\ ~TraceConflict(t)
              /\ traces' = traces \cup {t}
              /\ exchanged' = exchanged \cup {<<t, req[r].new>>}
              /\ req' = [req EXCEPT ![r].pc = "requireUser"]
        /\ UNCHANGED <<now, sessions, deleted, known, family, arrivals>>

\* require_user finds no row with deleted_at IS NULL.
OwnerGone(u) == u \in deleted

\* require_user, issue_access_token, and the answer with both tokens.
Respond(r) ==
    /\ req[r].pc = "requireUser"
    /\ \/ /\ OwnerGone(sessions[req[r].sid].user)
          /\ Reply(r, "invalid")
          /\ UNCHANGED known
       \/ /\ ~OwnerGone(sessions[req[r].sid].user)
          /\ Reply(r, "rotated")
          /\ known' = known \cup {req[r].new}
    /\ UNCHANGED <<now, tables, family, exchanged, arrivals>>

\* A statement fails, or the client hangs up and the task is dropped.
Abort(r) ==
    /\ req[r].pc # "done"
    /\ Reply(r, "error")
    /\ UNCHANGED <<now, tables, known, family, exchanged, arrivals>>

----------------------------------------------------------------------------
(* The other handlers that write the same rows *)

\* complete_login.  The credentials were checked by earlier statements, so the
\* account may be deleted by now; touch_login can fail after the INSERT, and
\* then the client never sees the token.
Login(s, u, t) ==
    /\ s \notin Rows
    /\ Fresh(t)
    /\ sessions' = [sessions EXCEPT ![s] = [user |-> u, hash |-> t,
                        expires |-> now + RefreshTtl, revoked |-> FALSE]]
    /\ family' = [family EXCEPT ![t] = s]
    /\ \/ known' = known \cup {t}
       \/ UNCHANGED known
    /\ UNCHANGED <<now, traces, deleted, req, exchanged, arrivals>>

\* revoke_session: WHERE id = $1 AND revoked = FALSE AND expires_at > $2
RevokeSession(s) ==
    /\ s \in Rows
    /\ ~sessions[s].revoked
    /\ sessions[s].expires > now
    /\ sessions' = RevokeRows({s})
    /\ UNCHANGED <<now, traces, deleted, req, known, family, exchanged, arrivals>>

\* revoke_all_for_user, from logout-all, reset_password and delete_account.
RevokeAll(u) ==
    /\ sessions' = RevokeRows(RowsOf(u))
    /\ UNCHANGED <<now, traces, deleted, req, known, family, exchanged, arrivals>>

\* soft_delete, the statement before delete_account revokes the sessions.
SoftDelete(u) ==
    /\ u \notin deleted
    /\ deleted' = deleted \cup {u}
    /\ UNCHANGED <<now, sessions, traces, req, known, family, exchanged, arrivals>>

Tick ==
    /\ now < MaxTime
    /\ now' = now + 1
    /\ UNCHANGED <<tables, req, known, family, exchanged, arrivals>>

Serve(r) ==
    \/ \E t \in Token : Find(r, t)
    \/ CheckTrace(r)
    \/ RevokeReused(r)
    \/ \E t \in Token : Update(r, t)
    \/ InsertTrace(r)
    \/ Respond(r)
    \/ Abort(r)

Others ==
    \/ \E s \in Sid, u \in User, t \in Token : Login(s, u, t)
    \/ \E s \in Sid : RevokeSession(s)
    \/ \E u \in User : RevokeAll(u)
    \/ \E u \in User : SoftDelete(u)
    \/ Tick

Next == (\E r \in Req : Serve(r)) \/ Others

Spec == Init /\ [][Next]_vars

----------------------------------------------------------------------------
(* Properties *)

\* A refresh token buys at most one successor, however many requests present it
\* at once and wherever they stop (README.md:232 "utilise qu'une fois").
SingleUse ==
    \A g, h \in exchanged : g[1] = h[1] => g = h

\* The hash in a session row is never one that has a 'refresh_rotated' trace, and
\* belongs to that session alone: `LIMIT 1` in find_by_refresh_hash never has to
\* choose, although idx_sessions_refresh is not unique.
CurrentHashIsLive ==
    \A s \in Rows :
        /\ sessions[s].hash \notin traces
        /\ \A q \in Rows : sessions[q].hash = sessions[s].hash => q = s

\* A request that arrives after its session was revoked or had expired, or after its
\* owner was deleted, is never given tokens, whatever token of the session it
\* presents and whatever requests were still running when that happened.
LateIsRefused ==
    \A r \in late : req[r].answer # "rotated"

\* The alarm is raised only for a token that was really exchanged, and the session
\* it was raised about stays revoked although other rotations are in flight.
AlarmIsJustifiedAndFinal ==
    \A r \in Req : req[r].answer = "reuse" =>
        /\ \E g \in exchanged : g[1] = req[r].presented
        /\ sessions[req[r].sid].revoked

\* What services/sessions.rs:77, docs/SECURITY.md:45 and docs/API.md:53 promise: a
\* token that was already exchanged when it is presented revokes the account's
\* sessions (unless they are already dead, or the request fails).
ReplayRevokesAll ==
    \A r \in replayed \ late :
        req[r].pc = "done" => req[r].answer \in {"reuse", "error"}

Contract == INSTANCE OneTimeTokens WITH family <- family, exchanged <- exchanged

\* Rotation implements OneTimeTokens: every mint and every exchange of the concurrent
\* handlers is a step of the contract, and every other statement stutters.
ImplementsContract == Contract!Spec
=============================================================================
