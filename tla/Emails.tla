------------------------------- MODULE Emails -------------------------------
(***************************************************************************)
(* The address of an account and its verification: register, verify_email  *)
(* and resend_verification of routes/auth.rs, change_email and             *)
(* delete_account of routes/account.rs, delete_user of routes/admin.rs and *)
(* bootstrap_owner, which every instance runs before it serves, over the   *)
(* tables users and tokens.                                                *)
(*                                                                         *)
(* One action is one statement with the local computation that follows it; *)
(* a request can stop between any two of its statements.                   *)
(***************************************************************************)
EXTENDS Naturals, FiniteSets

CONSTANTS
    User,     \* rows the users table can come to hold
    Address,  \* lower-cased email addresses
    Token,    \* action tokens of kind email_verify
    Req,      \* concurrent requests, and instances that are starting
    OwnerEmail, \* OWNER_EMAIL, the same for all instances
    None      \* no row, no value, or the anonymous address of a deleted user

Account == [email : Address \cup {None}, verified : BOOLEAN, deleted : BOOLEAN,
            role : {"user", "owner"}]

\* address is history: where the link that carries the token was mailed.
Link == [user : User, address : Address, state : {"unused", "expired", "used"}]

ASSUME ConstantsAssumption ==
    /\ None \notin Address \cup User \cup Token \cup Account \cup Link
    /\ OwnerEmail \in Address

VARIABLES
    users,       \* table users: its row, or None
    tokens,      \* rows of kind email_verify, or None
    req,         \* the requests
    changed,     \* history: users whose address was changed
    overlapped,  \* history: users deleted while a change of their address was in flight
    misled       \* history: a bootstrap has gone by a count that was wrong or outdated

vars == <<users, tokens, req, changed, overlapped, misled>>

Pc == {"done", "mint", "setEmail", "useToken", "markVerified", "softDelete",
       "createOwner", "verifyOwner"}
Request == [pc : Pc, user : User \cup {None}, address : Address \cup {None},
            tok : Token \cup {None}]

Idle == [pc |-> "done", user |-> None, address |-> None, tok |-> None]

TypeOK ==
    /\ users \in [User -> Account \cup {None}]
    /\ tokens \in [Token -> Link \cup {None}]
    /\ req \in [Req -> Request]
    /\ changed \subseteq User /\ overlapped \subseteq User
    /\ misled \in BOOLEAN

Rows == {u \in User : users[u] # None}

\* deleted_at IS NULL
Active == {u \in Rows : ~users[u].deleted}

\* The UNIQUE index on LOWER(email) covers deleted rows too.
Taken(a) == {u \in Rows : users[u].email = a}

Init ==
    /\ users = [u \in User |-> None]
    /\ tokens = [t \in Token |-> None]
    /\ req = [r \in Req |-> Idle]
    /\ changed = {} /\ overlapped = {} /\ misled = FALSE

Finish(r) == req' = [req EXCEPT ![r] = Idle]

Start(r, pc, u, a, t) ==
    req' = [req EXCEPT ![r] = [pc |-> pc, user |-> u, address |-> a, tok |-> t]]

----------------------------------------------------------------------------

\* A bug: an account is created as bootstrap_owner creates one, already verified.
CreatedVerified(a, role) ==
    [email |-> a, verified |-> TRUE, deleted |-> FALSE, role |-> role]

Created(a, role) ==
    [email |-> a, verified |-> FALSE, deleted |-> FALSE, role |-> role]

\* create_user; a unique violation becomes Conflict.
Register(r, u, a) ==
    /\ req[r].pc = "done"
    /\ u \notin Rows
    /\ Taken(a) = {}
    /\ users' = [users EXCEPT ![u] = Created(a, "user")]
    /\ Start(r, "mint", u, a, None)
    /\ UNCHANGED <<tokens, changed, overlapped, misled>>

\* resend_verification, its find_by_email: the address is the one read here.
AskAgain(r, u) ==
    /\ req[r].pc = "done"
    /\ u \in Active
    /\ ~users[u].verified
    /\ users[u].email # None
    /\ Start(r, "mint", u, users[u].email, None)
    /\ UNCHANGED <<users, tokens, changed, overlapped, misled>>

\* issue_action_token, then the link is mailed to the address the request holds.
Mint(r, t) ==
    /\ req[r].pc = "mint"
    /\ tokens[t] = None
    /\ tokens' = [tokens EXCEPT ![t] = [user |-> req[r].user,
                     address |-> req[r].address, state |-> "unused"]]
    /\ Finish(r)
    /\ UNCHANGED <<users, changed, overlapped, misled>>

ExpireToken(t) ==
    /\ tokens[t] # None
    /\ tokens[t].state = "unused"
    /\ tokens' = [tokens EXCEPT ![t].state = "expired"]
    /\ UNCHANGED <<users, req, changed, overlapped, misled>>

\* consume_action_token, its SELECT.
FindToken(r, t) ==
    /\ req[r].pc = "done"
    /\ tokens[t] # None
    /\ tokens[t].state = "unused"
    /\ Start(r, "useToken", None, None, t)
    /\ UNCHANGED <<users, tokens, changed, overlapped, misled>>

\* consume_action_token, its UPDATE.
UseToken(r) ==
    /\ req[r].pc = "useToken"
    /\ tokens' = [tokens EXCEPT ![req[r].tok].state = "used"]
    /\ req' = [req EXCEPT ![r].pc = "markVerified"]
    /\ UNCHANGED <<users, changed, overlapped, misled>>

\* mark_email_verified: WHERE id = $1, whatever the address is by now.
MarkVerified(r) ==
    /\ req[r].pc = "markVerified"
    /\ users' = [users EXCEPT ![tokens[req[r].tok].user].verified = TRUE]
    /\ Finish(r)
    /\ UNCHANGED <<tokens, changed, overlapped, misled>>

\* A bug: the user is read without deleted_at IS NULL.
MayChangeIfAny(u) == u \in Rows

\* require_auth found the user, and the password matched.
MayChange(u) == u \in Active

AskChange(r, u, a) ==
    /\ req[r].pc = "done"
    /\ MayChange(u)
    /\ Start(r, "setEmail", u, a, None)
    /\ UNCHANGED <<users, tokens, changed, overlapped, misled>>

\* A bug: the row is rebuilt and loses deleted_at.
RenamedForgets(row, a) == [email |-> a, verified |-> FALSE, role |-> row.role]

Renamed(row, a) == [row EXCEPT !.email = a, !.verified = FALSE]

\* OWNER_EMAIL becomes free under a bootstrap that counted no users.
Vacates(u, a) ==
    /\ users[u].email = OwnerEmail /\ a # OwnerEmail
    /\ \E r \in Req : req[r].pc = "createOwner"

\* set_email: WHERE id = $1, so the row may be deleted by now; the user's own row does
\* not conflict with itself.
SetEmail(r) ==
    LET u == req[r].user
        a == req[r].address
    IN  /\ req[r].pc = "setEmail"
        /\ \/ /\ Taken(a) \ {u} # {}
              /\ Finish(r)
              /\ UNCHANGED <<users, changed, misled>>
           \/ /\ Taken(a) \ {u} = {}
              /\ users' = [users EXCEPT ![u] = Renamed(users[u], a)]
              /\ changed' = changed \cup {u}
              /\ misled' = (misled \/ Vacates(u, a))
              /\ req' = [req EXCEPT ![r].pc = "mint"]
        /\ UNCHANGED <<tokens, overlapped>>

\* delete_account once the password matched, or the administrator's delete_user,
\* which does not look whether the user is deleted already.
AskDelete(r, u) ==
    /\ req[r].pc = "done"
    /\ u \in Rows
    /\ Start(r, "softDelete", u, None, None)
    /\ UNCHANGED <<users, tokens, changed, overlapped, misled>>

ChangesInFlight(u) == \E r \in Req : req[r].pc = "setEmail" /\ req[r].user = u

\* soft_delete: deleted_at, and an anonymous address nobody else can have.
SoftDelete(r) ==
    LET u == req[r].user
    IN  /\ req[r].pc = "softDelete"
        /\ users' = [users EXCEPT ![u] = [@ EXCEPT !.email = None, !.deleted = TRUE]]
        /\ overlapped' = IF ChangesInFlight(u) THEN overlapped \cup {u} ELSE overlapped
        /\ misled' = (misled \/ Vacates(u, None))
        /\ Finish(r)
        /\ UNCHANGED <<tokens, changed>>

----------------------------------------------------------------------------
(* bootstrap_owner *)

\* SELECT COUNT(*) FROM users, deleted rows included; an error reads as 0.
CountUsers(r) ==
    /\ req[r].pc = "done"
    /\ Start(r, "createOwner", None, OwnerEmail, None)
    /\ misled' = (misled \/ Rows # {})
    /\ UNCHANGED <<users, tokens, changed, overlapped>>

\* A bug: the address is looked up first, and the INSERT relies on it.
OwnerConflictIgnored(a) == FALSE

OwnerConflict(a) == Taken(a) # {}

\* create_user with role owner; a conflict ends the bootstrap.  After any other error it
\* goes on to verify, and to print a password for, a row that is not there (Abort).
CreateOwner(r, u) ==
    LET a == req[r].address
    IN  /\ req[r].pc = "createOwner"
        /\ u \notin Rows
        /\ \/ OwnerConflict(a) /\ Finish(r) /\ UNCHANGED users
           \/ /\ ~OwnerConflict(a)
              /\ users' = [users EXCEPT ![u] = Created(a, "owner")]
              /\ req' = [req EXCEPT ![r].pc = "verifyOwner", ![r].user = u]
        /\ UNCHANGED <<tokens, changed, overlapped, misled>>

\* UPDATE users SET email_verified = TRUE WHERE id = $1; its error is only logged, and
\* then the password is printed.
VerifyOwner(r) ==
    LET u == req[r].user
    IN  /\ req[r].pc = "verifyOwner"
        /\ users' = [users EXCEPT ![u].verified = TRUE]
        /\ Finish(r)
        /\ UNCHANGED <<tokens, changed, overlapped, misled>>

----------------------------------------------------------------------------

\* A statement fails, the client hangs up, or a starting instance crashes.
Abort(r) ==
    /\ req[r].pc # "done"
    /\ Finish(r)
    /\ UNCHANGED <<users, tokens, changed, overlapped, misled>>

Serve(r) ==
    \/ \E u \in User, a \in Address : Register(r, u, a)
    \/ \E u \in User : AskAgain(r, u)
    \/ \E t \in Token : Mint(r, t)
    \/ \E t \in Token : FindToken(r, t)
    \/ UseToken(r)
    \/ MarkVerified(r)
    \/ \E u \in User, a \in Address : AskChange(r, u, a)
    \/ SetEmail(r)
    \/ \E u \in User : AskDelete(r, u)
    \/ SoftDelete(r)
    \/ Abort(r)

Bootstrap(r) ==
    \/ CountUsers(r)
    \/ \E u \in User : CreateOwner(r, u)
    \/ VerifyOwner(r)

Next ==
    \/ \E r \in Req : Serve(r) \/ Bootstrap(r)
    \/ \E t \in Token : ExpireToken(t)

Spec == Init /\ [][Next]_vars

----------------------------------------------------------------------------
(* Properties *)

\* The links of user u that were used and had been mailed to address a.
Proofs(u, a) == {t \in Token : /\ tokens[t] # None
                               /\ tokens[t].user = u
                               /\ tokens[t].address = a
                               /\ tokens[t].state = "used"}

Ordinary == {u \in Active : users[u].role = "user"}
Owners == {u \in Rows : users[u].role = "owner"}

\* An account whose address never changed is verified only by a link mailed to it; the
\* owner, made by bootstrap_owner, is the one exception.
VerifiedWasMailed ==
    \A u \in Ordinary \ changed :
        users[u].verified => Proofs(u, users[u].email) # {}

\* A deleted account holds an address, and keeps everyone else from registering it,
\* only if a change of address overlapped its deletion.
DeletedIsAnonymousUnlessOverlapped ==
    \A u \in Rows : (users[u].deleted /\ users[u].email # None) => u \in overlapped

\* However many instances start at once or crash on the way, there is one owner at most
\* (bootstrap.rs:7 "aucune re-attribution possible"), unless a COUNT failed or the owner
\* gave up OWNER_EMAIL between the COUNT and the INSERT of another instance.
OneOwnerUnlessMisled ==
    ~misled => Cardinality(Owners) <= 1

\* docs/API.md:96: after a change of address, "re-verification requise sur la nouvelle
\* adresse": a verified account has used a link mailed to the address it has.
VerifiedIsCurrent ==
    \A u \in Ordinary : users[u].verified => Proofs(u, users[u].email) # {}
=============================================================================
