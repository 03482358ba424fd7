-------------------------------- MODULE Mfa --------------------------------
(***************************************************************************)
(* The second factor of one account: setup, confirm and verify_challenge   *)
(* of services/mfa.rs, called by mfa_enable and mfa_verify of              *)
(* routes/login.rs, over the account's row of the table mfa.               *)
(*                                                                         *)
(* All statements are keyed by user_id, so one account is enough.  One     *)
(* action is one statement with the local computation that follows it.     *)
(***************************************************************************)
EXTENDS Naturals, FiniteSets

CONSTANTS
    Secret,     \* TOTP secrets; setup draws a new one
    Code,       \* recovery codes; confirm draws new ones
    BatchSize,  \* the 8 codes of a confirmation
    Req,        \* concurrent requests
    None

Row == [secret : Secret, state : {"pending", "enabled"}, codes : SUBSET Code]

ASSUME ConstantsAssumption ==
    /\ BatchSize \in Nat \ {0}
    /\ IsFiniteSet(Code)
    /\ None \notin Row \cup Secret \cup Code

VARIABLES
    row,        \* the row of table mfa, or None
    req,        \* the requests
    drawn,      \* history: secrets and codes handed out so far
    confirmed,  \* history: secrets whose possession a client has proved
    shown,      \* history: the batch in the answer of the last confirmation
    cut,        \* history: the batch of a confirmation that enabled the row and stopped
                \* before its answer, until the next setup
    spent,      \* history: recovery codes that completed a login
    raced       \* history: the overlaps that have happened, see Overlap

history == <<drawn, confirmed, shown, cut, spent, raced>>
vars == <<row, req, history>>

\* read is the set of codes of the row that get_row returned, code the one presented,
\* batch the codes confirm drew.
Request == [pc : {"done", "saveBatch", "enable", "answer", "saveRest"},
            read : SUBSET Code, code : Code \cup {None}, batch : SUBSET Code]

Idle == [pc |-> "done", read |-> {}, code |-> None, batch |-> {}]

\* A setup or a confirmation during a confirmation, two writers of the codes, and a setup
\* before the answer of the confirmation it undoes.
Overlap == {"setup", "codes", "answer"}

TypeOK ==
    /\ row \in Row \cup {None}
    /\ req \in [Req -> Request]
    /\ drawn \subseteq Secret \cup Code
    /\ confirmed \subseteq Secret
    /\ shown \subseteq Code /\ cut \subseteq Code /\ spent \subseteq Code
    /\ raced \subseteq Overlap

Init ==
    /\ row = None
    /\ req = [r \in Req |-> Idle]
    /\ drawn = {} /\ confirmed = {} /\ shown = {} /\ cut = {}
    /\ spent = {} /\ raced = {}

Start(r, pc, read, c, batch) ==
    req' = [req EXCEPT ![r] = [pc |-> pc, read |-> read, code |-> c, batch |-> batch]]

Finish(r) == req' = [req EXCEPT ![r] = Idle]

----------------------------------------------------------------------------

Confirming == {r \in Req : req[r].pc \in {"saveBatch", "enable"}}
Answering == {r \in Req : req[r].pc = "answer"}
Spending == {r \in Req : req[r].pc = "saveRest"}

\* A bug: ON CONFLICT replaces the secret and leaves the rest of the row.
AfterSetupKeeps(k) ==
    IF row = None THEN [secret |-> k, state |-> "pending", codes |-> {}]
    ELSE [row EXCEPT !.secret = k]

\* INSERT ... ON CONFLICT (user_id) DO UPDATE: everything starts over.
AfterSetup(k) == [secret |-> k, state |-> "pending", codes |-> {}]

\* setup, whether or not the second factor is enabled.
Setup(k) ==
    /\ k \notin drawn
    /\ row' = AfterSetup(k)
    /\ drawn' = drawn \cup {k}
    /\ raced' = raced \cup {x \in {"setup"} : Confirming # {}}
                      \cup {x \in {"codes"} : Spending # {}}
                      \cup {x \in {"answer"} : Answering # {}}
    /\ shown' = {} /\ cut' = {}
    /\ UNCHANGED <<req, confirmed, spent>>

\* A bug: confirm does not look at enabled.
MayConfirmAgain(x) == x # None

\* get_row returned a row that is not enabled.
MayConfirm(x) == x # None /\ x.state = "pending"

\* confirm: the code matches the secret that was read; the recovery codes are drawn.
Confirm(r, batch) ==
    /\ req[r].pc = "done"
    /\ MayConfirm(row)
    /\ batch \cap drawn = {} /\ Cardinality(batch) = BatchSize
    /\ Start(r, "saveBatch", {}, None, batch)
    /\ drawn' = drawn \cup batch
    /\ confirmed' = confirmed \cup {row.secret}
    /\ raced' = raced \cup {x \in {"setup"} : Confirming # {}}
    /\ UNCHANGED <<row, shown, cut, spent>>

\* A bug: an empty code is stored with the others.
StoredBatchPadded(batch) == batch \cup {None}

StoredBatch(batch) == batch

\* save_recovery_hashes: WHERE user_id = $1, whatever the row is by now.
SaveBatch(r) ==
    /\ req[r].pc = "saveBatch"
    /\ row' = [row EXCEPT !.codes = StoredBatch(req[r].batch)]
    /\ req' = [req EXCEPT ![r].pc = "enable"]
    /\ raced' = raced \cup {x \in {"codes"} : Spending # {}}
    /\ UNCHANGED <<drawn, confirmed, shown, cut, spent>>

\* UPDATE mfa SET enabled = TRUE: the second factor is in force.
Enable(r) ==
    /\ req[r].pc = "enable"
    /\ row' = [row EXCEPT !.state = "enabled"]
    /\ req' = [req EXCEPT ![r].pc = "answer"]
    /\ UNCHANGED history

\* The event is logged, then the answer shows the codes, once.
Show(r) ==
    /\ req[r].pc = "answer"
    /\ shown' = req[r].batch
    /\ Finish(r)
    /\ UNCHANGED <<row, drawn, confirmed, cut, spent, raced>>

\* The row that get_row returned is enabled: what is_enabled answers, and the filter of
\* verify_challenge.
InForce(x) == x # None /\ x.state = "enabled"

\* verify_challenge with a code of the row that get_row returned.  (A TOTP code ends
\* the challenge at once and writes nothing.)
Challenge(r, c) ==
    /\ req[r].pc = "done"
    /\ InForce(row)
    /\ c \in row.codes
    /\ Start(r, "saveRest", row.codes, c, {})
    /\ raced' = raced \cup {x \in {"codes"} : Spending # {}}
    /\ UNCHANGED <<row, drawn, confirmed, shown, cut, spent>>

\* A bug: the code that was used is written back with the others.
RemainingKeeps(read, c) == read

Remaining(read, c) == read \ {c}

\* save_recovery_hashes with the codes that were read, less one; the login goes on.
SaveRest(r) ==
    /\ req[r].pc = "saveRest"
    /\ row' = [row EXCEPT !.codes = Remaining(req[r].read, req[r].code)]
    /\ spent' = spent \cup {req[r].code}
    /\ Finish(r)
    /\ UNCHANGED <<drawn, confirmed, shown, cut, raced>>

\* Request r goes no further; a confirmation that was to answer shows its codes to nobody.
Stop(r) ==
    /\ Finish(r)
    /\ cut' = IF req[r].pc = "answer" THEN req[r].batch ELSE cut
    /\ UNCHANGED <<row, drawn, confirmed, shown, spent, raced>>

\* A statement fails, the client hangs up, or the answer is lost.
Abort(r) ==
    /\ req[r].pc # "done"
    /\ Stop(r)

Serve(r) ==
    \/ \E batch \in SUBSET Code : Confirm(r, batch)
    \/ SaveBatch(r)
    \/ Enable(r)
    \/ Show(r)
    \/ \E c \in Code : Challenge(r, c)
    \/ SaveRest(r)
    \/ Abort(r)

Next == (\E k \in Secret : Setup(k)) \/ (\E r \in Req : Serve(r))

Spec == Init /\ [][Next]_vars

----------------------------------------------------------------------------
(* Properties *)

\* A second factor in force is one the user proved to hold, unless a setup or another
\* confirmation overlapped the confirmation.
EnabledIsConfirmed ==
    (InForce(row) /\ "setup" \notin raced) => row.secret \in confirmed

\* Codes that are in force before the user has seen them, or without the user ever seeing
\* them: those of a confirmation that has not answered or stopped before it did.
Unseen == cut \cup UNION {req[r].batch : r \in Answering}

\* The recovery codes of a second factor in force are those of the last answer, less the
\* spent ones (services/mfa.rs:215 "retournes EN CLAIR une seule fois").  The exceptions:
\* requests that overlapped, and a confirmation that is between enabling the row and its
\* answer, or was cut off there, when the codes that work are its own and nobody has them.
ShownCodesWork ==
    (InForce(row) /\ raced = {}) =>
        row.codes = (IF Unseen = {} THEN shown ELSE Unseen) \ spent

\* A recovery code that completed a login is never accepted again (CHANGELOG.md:46
\* "usage unique"), unless two writers of the codes overlapped: each writes back the
\* whole list it read.
SpentIsGone ==
    (InForce(row) /\ "codes" \notin raced) => row.codes \cap spent = {}
=============================================================================
