------------------------------ MODULE Passkeys ------------------------------
(***************************************************************************)
(* Passkeys: services/passkeys.rs, routes/passkeys.rs and the key-value    *)
(* half of services/store.rs that keeps the challenges.                    *)
(*                                                                         *)
(* A registration challenge lies under one key per user, a login challenge *)
(* under an identifier of its own; both are taken out by the first answer, *)
(* valid or not, and lapse after 600 s.  One action is one SQL statement   *)
(* or one call of the store; requests, deletions and restarts interleave.  *)
(* The authenticators and the verification done by webauthn-rs are         *)
(* external: an answer names the challenge it signs, its credential and,   *)
(* for a login, the value of the authenticator's counter.                  *)
(***************************************************************************)
EXTENDS Naturals, Sequences

CONSTANTS
    User,
    RegChallenge,   \* challenges of registrations
    LoginChallenge, \* challenges of logins, and their challenge_id
    Cred,       \* credentials authenticators can make, all with a counter
    Req,        \* concurrent activations of the four handlers
    Ttl,        \* 600 s, in ticks
    MaxTime,    \* bound on the clock
    MaxCounter, \* bound on the counter of an authenticator
    None

\* Where the challenges are kept, decided by from_env at start-up.
Backend == {"memory", "redis"}

Challenge == RegChallenge \cup LoginChallenge

\* wa_reg_key(user) and wa_auth_key(challenge_id).
Key == User \cup LoginChallenge

Entry == [challenge : Challenge, creds : SUBSET Cred, until : Nat]

\* key is the counter inside public_key_enc, which is what webauthn-rs compares with;
\* counter is the column, which nothing reads.
PasskeyRow == [user : User, key : Nat, counter : Nat]

Answer == [challenge : Challenge, cred : Cred, counter : Nat]

ASSUME ConstantsAssumption ==
    /\ {Ttl, MaxTime, MaxCounter} \subseteq Nat
    /\ None \notin User \cup RegChallenge \cup LoginChallenge \cup Cred
                 \cup Entry \cup PasskeyRow \cup Answer
    /\ User \cap LoginChallenge = {}
    /\ RegChallenge \cap LoginChallenge = {}

VARIABLES
    now,
    backend,    \* the store in use
    kv,         \* what each store holds: an entry or None under each key
    passkeys,   \* table passkeys by credential_id, which is UNIQUE
    deleted,    \* users whose deleted_at is set
    req,        \* the requests
    attested,   \* the challenge each credential was made for, or None
    sign,       \* the counter of each credential's authenticator
    asserted,   \* the login answers authenticators have signed
    issued,     \* history: the user each challenge was made out to, or None
    results,    \* history: the passkeys stored and the sessions opened, in turn
    written,    \* history: login challenges whose counter was stored
    overtaken,  \* history: login challenges still open when another one was
    replaced,   \* history: registration challenges overwritten in the store
    late        \* history: login challenges answered after the account was deleted

server == <<backend, kv, passkeys, deleted, req>>
authenticators == <<attested, sign, asserted>>
history == <<issued, results, written, overtaken, replaced, late>>
vars == <<now, server, authenticators, history>>

Pc == {"done", "putReg", "takeReg", "insert", "list", "putAuth", "find", "update",
       "requireUser", "openSession"}
Request == [pc : Pc, user : User \cup {None}, creds : SUBSET Cred,
            answer : Answer \cup {None}]

Idle == [pc |-> "done", user |-> None, creds |-> {}, answer |-> None]

TypeOK ==
    /\ now \in Nat
    /\ backend \in Backend
    /\ kv \in [Backend -> [Key -> Entry \cup {None}]]
    /\ passkeys \in [Cred -> PasskeyRow \cup {None}]
    /\ deleted \subseteq User
    /\ req \in [Req -> Request]
    /\ attested \in [Cred -> Challenge \cup {None}]
    /\ sign \in [Cred -> 0..MaxCounter]
    /\ asserted \subseteq Answer
    /\ issued \in [Challenge -> User \cup {None}]
    /\ results \in Seq([challenge : Challenge, cred : Cred, user : User])
    /\ replaced \subseteq RegChallenge
    /\ written \cup overtaken \cup late \subseteq LoginChallenge

Init ==
    /\ now = 0
    /\ backend \in Backend
    /\ kv = [b \in Backend |-> [k \in Key |-> None]]
    /\ passkeys = [c \in Cred |-> None]
    /\ deleted = {}
    /\ req = [r \in Req |-> Idle]
    /\ attested = [c \in Cred |-> None]
    /\ sign = [c \in Cred |-> 0]
    /\ asserted = {}
    /\ issued = [ch \in Challenge |-> None]
    /\ results = <<>>
    /\ written = {}
    /\ overtaken = {}
    /\ replaced = {}
    /\ late = {}

----------------------------------------------------------------------------
(* The store *)

\* kv_put; an error of Redis is dropped.
Put(k, e) ==
    \/ kv' = [kv EXCEPT ![backend][k] = e]
    \/ backend = "redis" /\ UNCHANGED kv

Live(k) ==
    LET e == kv[backend][k]
    IN  IF e # None /\ e.until > now THEN e ELSE None

\* A bug: kv_get in place of kv_take.
TakeLeaves(k, e) == e = Live(k) /\ UNCHANGED kv

\* kv_take returns e: one lock in memory, one GETDEL in Redis, where an error reads as
\* None whether or not the command was carried out.
Take(k, e) ==
    LET removed == [kv EXCEPT ![backend][k] = None]
    IN  \/ e = Live(k) /\ kv' = removed
        \/ backend = "redis" /\ e = None /\ kv' \in {kv, removed}

Step(r, pc) == req' = [req EXCEPT ![r].pc = pc]
Reply(r) == req' = [req EXCEPT ![r] = Idle]
ResultOf(r) == [challenge |-> req[r].answer.challenge, cred |-> req[r].answer.cred,
                user |-> req[r].user]
Unissued(ch) == issued[ch] = None

----------------------------------------------------------------------------
(* Registration *)

\* POST /auth/passkey/register/options: require_auth.
AskRegistration(r, u) ==
    /\ req[r].pc = "done"
    /\ u \notin deleted
    /\ req' = [req EXCEPT ![r] = [Idle EXCEPT !.pc = "putReg", !.user = u]]
    /\ UNCHANGED <<now, backend, kv, passkeys, deleted, authenticators, history>>

\* registration_options: a random challenge, kept under the user's key.
PutRegistration(r, ch) ==
    LET u == req[r].user
        old == Live(u)
    IN  /\ req[r].pc = "putReg"
        /\ Unissued(ch)
        /\ Put(u, [challenge |-> ch, creds |-> {}, until |-> now + Ttl])
        /\ issued' = [issued EXCEPT ![ch] = u]
        /\ replaced' = IF old # None /\ kv' # kv
                       THEN replaced \cup {old.challenge} ELSE replaced
        /\ Reply(r)
        /\ UNCHANGED <<now, backend, passkeys, deleted, authenticators,
                       results, written, overtaken, late>>

\* POST /auth/passkey/register: require_auth; the body is any attestation there is.
PostRegistration(r, u, c) ==
    /\ req[r].pc = "done"
    /\ u \notin deleted
    /\ attested[c] # None
    /\ req' = [req EXCEPT ![r] = [Idle EXCEPT !.pc = "takeReg", !.user = u,
                 !.answer = [challenge |-> attested[c], cred |-> c, counter |-> 0]]]
    /\ UNCHANGED <<now, backend, kv, passkeys, deleted, authenticators, history>>

\* A bug: the attestation is not compared with the pending challenge.
AttestsAnything(e, a) == TRUE

\* finish_passkey_registration, of webauthn-rs
Attests(e, a) == a.challenge = e.challenge

\* kv_take, and the verification of the attestation.
TakeRegistration(r) ==
    /\ req[r].pc = "takeReg"
    /\ \E e \in {Live(req[r].user), None} :
          /\ Take(req[r].user, e)
          /\ \/ /\ e # None
                /\ Attests(e, req[r].answer)
                /\ Step(r, "insert")
             \/ /\ ~(e # None /\ Attests(e, req[r].answer))
                /\ Reply(r)
    /\ UNCHANGED <<now, backend, passkeys, deleted, authenticators, history>>

\* INSERT INTO passkeys; a credential_id that is there already is a conflict.
InsertPasskey(r) ==
    LET c == req[r].answer.cred
    IN  /\ req[r].pc = "insert"
        /\ \/ /\ passkeys[c] # None
              /\ Reply(r)
              /\ UNCHANGED <<passkeys, results>>
           \/ /\ passkeys[c] = None
              /\ passkeys' = [passkeys EXCEPT ![c] =
                    [user |-> req[r].user, key |-> req[r].answer.counter,
                     counter |-> req[r].answer.counter]]
              /\ results' = Append(results, ResultOf(r))
              /\ Reply(r)
        /\ UNCHANGED <<now, backend, kv, deleted, authenticators,
                       issued, written, overtaken, replaced, late>>

----------------------------------------------------------------------------
(* Login *)

\* POST /auth/passkey/login/options: find_by_email.
AskLogin(r, u) ==
    /\ req[r].pc = "done"
    /\ u \notin deleted
    /\ req' = [req EXCEPT ![r] = [Idle EXCEPT !.pc = "list", !.user = u]]
    /\ UNCHANGED <<now, backend, kv, passkeys, deleted, authenticators, history>>

CredsOf(u) == {c \in Cred : passkeys[c] # None /\ passkeys[c].user = u}

\* user_passkeys
ListPasskeys(r) ==
    LET cs == CredsOf(req[r].user)
    IN  /\ req[r].pc = "list"
        /\ \/ cs = {} /\ Reply(r)
           \/ /\ cs # {}
              /\ req' = [req EXCEPT ![r].pc = "putAuth", ![r].creds = cs]
        /\ UNCHANGED <<now, backend, kv, passkeys, deleted, authenticators, history>>

\* authentication_options: a random challenge, kept under a random identifier.
PutAuthentication(r, ch) ==
    /\ req[r].pc = "putAuth"
    /\ Unissued(ch)
    /\ Put(ch, [challenge |-> ch, creds |-> req[r].creds, until |-> now + Ttl])
    /\ issued' = [issued EXCEPT ![ch] = req[r].user]
    /\ Reply(r)
    /\ UNCHANGED <<now, backend, passkeys, deleted, authenticators,
                   results, written, overtaken, replaced, late>>

\* finish_passkey_authentication, of webauthn-rs: the challenge, one of the credentials
\* listed with it, and a counter above the one the credential was registered with.
Asserts(e, a) ==
    /\ a.challenge = e.challenge
    /\ a.cred \in e.creds
    /\ a.counter > passkeys[a.cred].key

\* POST /auth/passkey/login: kv_take and the verification; challenge_id and answer are
\* the client's.
PostLogin(r, id, a) ==
    /\ req[r].pc = "done"
    /\ \E e \in {Live(id), None} :
          /\ Take(id, e)
          /\ \/ /\ e # None
                /\ Asserts(e, a)
                /\ req' = [req EXCEPT ![r] = [Idle EXCEPT !.pc = "find", !.answer = a]]
                /\ late' = IF issued[a.challenge] \in deleted
                           THEN late \cup {a.challenge} ELSE late
             \/ /\ ~(e # None /\ Asserts(e, a))
                /\ UNCHANGED <<req, late>>
    /\ UNCHANGED <<now, backend, passkeys, deleted, authenticators,
                   issued, results, written, overtaken, replaced>>

\* SELECT id, user_id FROM passkeys WHERE credential_id = $1; no handler deletes a row.
FindPasskey(r) ==
    /\ req[r].pc = "find"
    /\ req' = [req EXCEPT ![r].pc = "update",
                          ![r].user = passkeys[req[r].answer.cred].user]
    /\ UNCHANGED <<now, backend, kv, passkeys, deleted, authenticators, history>>

\* Login challenges made out and not yet followed by a write.
Open == {ch \in LoginChallenge : issued[ch] # None} \ written

\* A bug, and what the SQLite backend does: arguments are bound by their position.
CountedSwapped(row, a) == [row EXCEPT !.counter = a.cred]

\* SET counter
Counted(row, a) == [row EXCEPT !.counter = a.counter]

\* UPDATE passkeys SET counter ... WHERE id = $1, whatever the row holds by now.
UpdateCounter(r) ==
    LET a == req[r].answer
    IN  /\ req[r].pc = "update"
        /\ passkeys' = [passkeys EXCEPT ![a.cred] = Counted(@, a)]
        /\ written' = written \cup {a.challenge}
        /\ overtaken' = overtaken \cup (Open \ {a.challenge})
        /\ Step(r, "requireUser")
        /\ UNCHANGED <<now, backend, kv, deleted, authenticators,
                       issued, results, replaced, late>>

\* A bug: a passkey is taken for a live account.
AccountGoneIgnored(u) == FALSE

AccountGone(u) == u \in deleted

\* require_user
RequireUser(r) ==
    /\ req[r].pc = "requireUser"
    /\ \/ AccountGone(req[r].user) /\ Reply(r)
       \/ ~AccountGone(req[r].user) /\ Step(r, "openSession")
    /\ UNCHANGED <<now, backend, kv, passkeys, deleted, authenticators, history>>

\* complete_login inserts a session of its own.
OpenSession(r) ==
    /\ req[r].pc = "openSession"
    /\ results' = Append(results, ResultOf(r))
    /\ Reply(r)
    /\ UNCHANGED <<now, backend, kv, passkeys, deleted, authenticators,
                   issued, written, overtaken, replaced, late>>

----------------------------------------------------------------------------
(* Failures, the authenticators and the rest of the system *)

\* A statement fails, or the client hangs up.
Abort(r) ==
    /\ req[r].pc # "done"
    /\ Reply(r)
    /\ UNCHANGED <<now, backend, kv, passkeys, deleted, authenticators, history>>

\* The process stops and starts again: requests and the memory store are gone, and
\* from_env falls back to memory when Redis does not answer just then.
Restart ==
    /\ backend' \in Backend
    /\ kv' = [kv EXCEPT !["memory"] = [k \in Key |-> None]]
    /\ req' = [r \in Req |-> Idle]
    /\ UNCHANGED <<now, passkeys, deleted, authenticators, history>>

\* soft_delete leaves the passkeys where they are.
SoftDelete(u) ==
    /\ u \notin deleted
    /\ deleted' = deleted \cup {u}
    /\ UNCHANGED <<now, backend, kv, passkeys, req, authenticators, history>>

\* An authenticator makes a credential for a challenge.
Attest(ch, c) ==
    /\ ~Unissued(ch)
    /\ attested[c] = None
    /\ attested' = [attested EXCEPT ![c] = ch]
    /\ UNCHANGED <<now, server, sign, asserted, history>>

\* An authenticator signs a challenge, and counts.
Sign(ch, c) ==
    LET n == sign[c] + 1
    IN  /\ ~Unissued(ch)
        /\ attested[c] # None
        /\ n <= MaxCounter
        /\ sign' = [sign EXCEPT ![c] = n]
        /\ asserted' = asserted \cup {[challenge |-> ch, cred |-> c, counter |-> n]}
        /\ UNCHANGED <<now, server, attested, history>>

Tick ==
    /\ now < MaxTime
    /\ now' = now + 1
    /\ UNCHANGED <<server, authenticators, history>>

Registration(r) ==
    \/ \E u \in User : AskRegistration(r, u)
    \/ \E ch \in RegChallenge : PutRegistration(r, ch)
    \/ \E u \in User, c \in Cred : PostRegistration(r, u, c)
    \/ TakeRegistration(r)
    \/ InsertPasskey(r)

PasskeyLogin(r) ==
    \/ \E u \in User : AskLogin(r, u)
    \/ ListPasskeys(r)
    \/ \E ch \in LoginChallenge : PutAuthentication(r, ch)
    \/ \E id \in LoginChallenge, a \in asserted : PostLogin(r, id, a)
    \/ FindPasskey(r)
    \/ UpdateCounter(r)
    \/ RequireUser(r)
    \/ OpenSession(r)

Next ==
    \/ \E r \in Req : Registration(r) \/ PasskeyLogin(r) \/ Abort(r)
    \/ Restart
    \/ \E u \in User : SoftDelete(u)
    \/ \E ch \in RegChallenge, c \in Cred : Attest(ch, c)
    \/ \E ch \in LoginChallenge, c \in Cred : Sign(ch, c)
    \/ Tick

Spec == Init /\ [][Next]_vars

----------------------------------------------------------------------------
(* Properties *)

Contract ==
    INSTANCE OneTimeChallenges WITH
        owner <- issued,
        results <- [i \in DOMAIN results |-> <<results[i].challenge, results[i].user>>]

\* Every passkey that is stored and every session that is opened uses up one challenge,
\* made out to the very user who gets it: answers that are posted twice, late, under
\* another challenge_id or another account, after a restart or with Redis failing,
\* never yield a second result or somebody else's.
ImplementsContract == Contract!Spec

\* A challenge that the store in use replaced by a later one of the same user registers
\* nothing any more: one key per user.  (One that a restart left behind in the other store
\* was not replaced.)
ReplacedRegistersNothing ==
    \A c \in Cred : passkeys[c] # None => attested[c] \notin replaced

\* The stored counter goes back only when the login that writes it was under way while
\* another one wrote: ceremonies one after the other keep it growing, although the
\* UPDATE compares nothing.
CounterFallsOnlyWhenOvertaken ==
    [][\A c \in Cred :
        passkeys[c] # None /\ passkeys[c].counter > passkeys'[c].counter =>
            \E r \in Req : /\ req[r].pc = "update"
                           /\ req[r].answer.cred = c
                           /\ req[r].answer.challenge \in overtaken]_vars

\* Deleting an account leaves its passkeys and its open challenges, yet an answer that
\* is posted afterwards never opens a session.
LateIsRefused ==
    \A i \in DOMAIN results : results[i].challenge \notin late
=============================================================================
