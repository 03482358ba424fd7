------------------------------ MODULE Dialects ------------------------------
(***************************************************************************)
(* The two SQL dialects of db.rs: every statement is written with the      *)
(* placeholders $1, $2, ... of PostgreSQL, and sqlite_sql turns each of    *)
(* them into `?` for SQLite; the q_ macros bind the same arguments, in     *)
(* order, to either.  PostgreSQL gives $n the n-th argument wherever it    *)
(* stands; SQLite gives the i-th `?` of the text the i-th argument.        *)
(*                                                                         *)
(* The two databases run side by side on the same calls.  A statement is   *)
(* seen as its placeholders in the order of the text, each with the column *)
(* it is for.  Left out are constants and conditions with no placeholder,  *)
(* which are the same text for both, and the columns of an INSERT that no  *)
(* UPDATE below has anything to do with (device, ip, created_at, ...).     *)
(***************************************************************************)
EXTENDS Naturals, Sequences

CONSTANTS
    Statements,  \* the statements that run
    Value,       \* values of the arguments
    Null

\* The columns that a placeholder of the statements below stands for.
Columns == [
    sessions |-> {"id", "user_id", "refresh_hash", "last_seen_at", "expires_at"},
    users    |-> {"id", "email", "password_hash", "salt", "updated_at", "deleted_at",
                  "last_login_at", "last_login_ip", "last_login_country",
                  "last_login_device"},
    tokens   |-> {"id", "user_id", "value_hash", "used_at"},
    mfa      |-> {"user_id", "secret_enc", "recovery_codes_enc", "confirmed_at"},
    passkeys |-> {"id", "user_id", "counter", "last_used_at"}]

Table == DOMAIN Columns
Dialect == {"postgres", "sqlite"}

VARIABLE rows  \* the rows of each table in each dialect

----------------------------------------------------------------------------
(* The statements *)

\* INSERT INTO t (columns) VALUES ($1, $2, ...)
Insert(t, columns) ==
    [kind |-> "insert", table |-> t,
     slots |-> [i \in 1 .. Len(columns) |-> [column |-> columns[i], placeholder |-> i]]]

\* UPDATE t SET column = $2, ... WHERE key = $1: the key is the first argument and the
\* last slot of the text.
UpdateByKey(t, columns, key) ==
    [kind |-> "update", table |-> t,
     slots |-> [i \in 1 .. Len(columns) |->
                   [column |-> columns[i], placeholder |-> i + 1]]
                  \o <<[column |-> key, placeholder |-> 1]>>]

CreateSession ==
    Insert("sessions", <<"id", "user_id", "refresh_hash", "last_seen_at", "expires_at">>)
RotateRefresh ==
    UpdateByKey("sessions", <<"refresh_hash", "last_seen_at", "expires_at">>, "id")
TouchSession == UpdateByKey("sessions", <<"last_seen_at">>, "id")
CreateUser == Insert("users", <<"id", "email", "password_hash", "salt", "updated_at">>)
IssueToken == Insert("tokens", <<"id", "user_id", "value_hash">>)
SetupMfa == Insert("mfa", <<"user_id", "secret_enc">>)
RegisterPasskey == Insert("passkeys", <<"id", "user_id", "counter">>)
SetCredentials ==
    UpdateByKey("users", <<"password_hash", "salt", "updated_at">>, "id")
MarkEmailVerified == UpdateByKey("users", <<"updated_at">>, "id")
SetEmail == UpdateByKey("users", <<"email", "updated_at">>, "id")
SoftDelete == UpdateByKey("users", <<"deleted_at", "email", "updated_at">>, "id")
TouchLogin ==
    UpdateByKey("users", <<"last_login_at", "last_login_ip", "last_login_country",
                           "last_login_device", "updated_at">>, "id")
ConsumeToken == UpdateByKey("tokens", <<"used_at">>, "id")
SaveRecoveryHashes == UpdateByKey("mfa", <<"recovery_codes_enc">>, "user_id")
EnableMfa == UpdateByKey("mfa", <<"confirmed_at">>, "user_id")
CountPasskey == UpdateByKey("passkeys", <<"counter", "last_used_at">>, "id")

\* The statements that create and update the rows of the five tables.
CodeStatements ==
    {CreateSession, RotateRefresh, TouchSession, CreateUser, SetCredentials,
     MarkEmailVerified, SetEmail, SoftDelete, TouchLogin, IssueToken, ConsumeToken,
     SetupMfa, SaveRecoveryHashes, EnableMfa, RegisterPasskey, CountPasskey}

----------------------------------------------------------------------------
(* Running a statement *)

\* sqlite_sql keeps the place of a placeholder and drops its number.
Argument(d, st, i) == IF d = "postgres" THEN st.slots[i].placeholder ELSE i

\* The value each slot of the text gets.
Bound(d, st, args) == [i \in 1 .. Len(st.slots) |-> args[Argument(d, st, i)]]

\* What the slots of S say of column c, and old where none is for it.
ValueOf(c, st, S, bound, old) ==
    IF \E i \in S : st.slots[i].column = c
    THEN bound[CHOOSE i \in S : st.slots[i].column = c]
    ELSE old

Inserted(st, bound) ==
    [c \in Columns[st.table] |-> ValueOf(c, st, 1 .. Len(st.slots), bound, Null)]

Updated(row, st, bound) ==
    LET n == Len(st.slots)
    IN  IF row[st.slots[n].column] = bound[n]
        THEN [c \in Columns[st.table] |-> ValueOf(c, st, 1 .. n - 1, bound, row[c])]
        ELSE row

After(T, st, bound) ==
    IF st.kind = "insert"
    THEN T \cup {Inserted(st, bound)}
    ELSE {Updated(row, st, bound) : row \in T}

\* The q_ macros, on either backend.
Execute(st, args) ==
    rows' = [d \in Dialect |->
                [rows[d] EXCEPT ![st.table] = After(@, st, Bound(d, st, args))]]

DialectsInit == rows = [d \in Dialect |-> [t \in Table |-> {}]]

DialectsNext ==
    \E st \in Statements : \E args \in [1 .. Len(st.slots) -> Value] : Execute(st, args)

DialectsSpec == DialectsInit /\ [][DialectsNext]_rows

----------------------------------------------------------------------------
(* Properties *)

\* README.md:5 "PostgreSQL ou SQLite", db.rs:3-4 "converties en `?` pour SQLite": the
\* two databases hold the same rows after the same calls.
SameRows == rows["postgres"] = rows["sqlite"]

\* The placeholders of a statement stand in the order of their numbers.
InOrder(st) == \A i \in 1 .. Len(st.slots) : st.slots[i].placeholder = i
=============================================================================
