------------------------------ MODULE Lockout ------------------------------
(***************************************************************************)
(* The brute-force guard of POST /auth/login: enforce_lockout,             *)
(* verify_credentials and record_attempt of services/auth_flow.rs, over    *)
(* the table login_attempts.                                               *)
(*                                                                         *)
(* Each SELECT and the INSERT is a statement of its own, so requests that  *)
(* run side by side all count the failures before any of them records its  *)
(* own.  Successful attempts are recorded too but never read: only         *)
(* failures are kept here.                                                 *)
(***************************************************************************)
EXTENDS Naturals, FiniteSets

CONSTANTS
    Email, Ip, Req,
    MaxFailed,   \* settings.max_failed_logins
    Base,        \* settings.lockout_base_secs, in ticks
    Window,      \* the 15 minutes, in ticks
    Cap,         \* the 86400 s, in ticks
    MaxTime      \* bound on the clock

ASSUME ConstantsAssumption ==
    /\ Email \cap Ip = {}
    /\ MaxFailed \in Nat \ {0} /\ Window \in Nat \ {0}
    /\ Base \in Nat /\ Cap \in Nat /\ MaxTime \in Nat
    /\ IsFiniteSet(Req)

Time == 0..MaxTime

\* A row with success = FALSE; nth tells apart the rows of one tick, as their ids do.
Row == [email : Email, ip : Ip, at : Time, nth : Nat \ {0}]

VARIABLES
    now,       \* the clock, in ticks
    failures,  \* table login_attempts: the failed ones
    req        \* the requests

vars == <<now, failures, req>>

Pc == {"done", "locked", "countEmail", "lastEmail", "countIp", "lastIp",
       "verify", "record"}

\* since is when the cut-off of both counts was computed; fails is the last count.
Request == [pc : Pc, email : Email, ip : Ip, since : Time, fails : Nat]

TypeOK ==
    /\ now \in Time
    /\ failures \subseteq Row
    /\ req \in [Req -> Request]

Init ==
    /\ now = 0
    /\ failures = {}
    /\ \E e \in Email, i \in Ip :
          req = [r \in Req |-> [pc |-> "done", email |-> e, ip |-> i,
                                since |-> 0, fails |-> 0]]

\* An identity is an email or an ip; its rows hold it in the column of its kind.
RowsOf(k) == {row \in failures : row.email = k \/ row.ip = k}

\* A bug: the count has no window, as last_failure_time has none.
InWindowForever(t, at) == TRUE

\* created_at > window_end
InWindow(t, at) == t + Window > at

\* failures_since
FailuresSince(k, at) == Cardinality({row \in RowsOf(k) : InWindow(row.at, at)})

AtMost(n, bound) == IF n > bound THEN bound ELSE n

\* 2^0 to 2^6
PowerOfTwo == <<1, 2, 4, 8, 16, 32, 64>>

\* Base * 2^excess, with the excess capped at 6 and the product at 24 h.
Cooldown(fails) == AtMost(Base * PowerOfTwo[1 + AtMost(fails - MaxFailed, 6)], Cap)

\* last_failure_time has no window, and now() < unlock_at.
Locked(k, fails) ==
    \E row \in RowsOf(k) :
        /\ \A other \in RowsOf(k) : other.at <= row.at
        /\ now < row.at + Cooldown(fails)

Goto(r, pc) == req' = [req EXCEPT ![r].pc = pc]
Finish(r) == req' = [req EXCEPT ![r] = [@ EXCEPT !.pc = "done", !.since = 0, !.fails = 0]]

----------------------------------------------------------------------------

\* The first lines of enforce_lockout.
Ask(r, e, i) ==
    /\ req[r].pc \in {"done", "locked"}
    /\ req' = [req EXCEPT ![r] = [pc |-> "countEmail", email |-> e, ip |-> i,
                                  since |-> now, fails |-> 0]]
    /\ UNCHANGED <<now, failures>>

\* One SELECT COUNT: below the limit the identity is let through at once.
CountFailures(r, k, last, next) ==
    LET n == FailuresSince(k, req[r].since)
    IN  /\ req' = [req EXCEPT ![r].pc = IF n < MaxFailed THEN next ELSE last,
                              ![r].fails = n]
        /\ UNCHANGED <<now, failures>>

CountEmail(r) ==
    /\ req[r].pc = "countEmail"
    /\ CountFailures(r, req[r].email, "lastEmail", "countIp")

CountIp(r) ==
    /\ req[r].pc = "countIp"
    /\ CountFailures(r, req[r].ip, "lastIp", "verify")

\* A bug: a locked identity is only logged, its request goes on.
LockedIgnored(k, fails) == FALSE

LockHolds(k, fails) == Locked(k, fails)

LastFailure(r, k, next) ==
    /\ Goto(r, IF LockHolds(k, req[r].fails) THEN "locked" ELSE next)
    /\ UNCHANGED <<now, failures>>

LastEmail(r) ==
    /\ req[r].pc = "lastEmail"
    /\ LastFailure(r, req[r].email, "countIp")

LastIp(r) ==
    /\ req[r].pc = "lastIp"
    /\ LastFailure(r, req[r].ip, "verify")

\* verify_credentials; a right password, or a captcha that fails, ends the request here.
Verify(r) ==
    /\ req[r].pc = "verify"
    /\ \/ Goto(r, "record")
       \/ Finish(r)
    /\ UNCHANGED <<now, failures>>

\* The rows that only their id tells apart from the next one of request r.
Alike(r) ==
    {row \in failures : row.email = req[r].email /\ row.ip = req[r].ip /\ row.at = now}

\* A bug: the arguments are bound in the wrong order.
AttemptSwapped(r) ==
    [email |-> req[r].ip, ip |-> req[r].email, at |-> now,
     nth |-> Cardinality(Alike(r)) + 1]

\* INSERT INTO login_attempts
Attempt(r) ==
    [email |-> req[r].email, ip |-> req[r].ip, at |-> now,
     nth |-> Cardinality(Alike(r)) + 1]

\* record_attempt with success = FALSE; its error is ignored.
Record(r) ==
    /\ req[r].pc = "record"
    /\ \/ failures' = failures \cup {Attempt(r)}
       \/ UNCHANGED failures
    /\ Finish(r)
    /\ UNCHANGED now

\* A statement of enforce_lockout fails, or the client hangs up.
Abort(r) ==
    /\ req[r].pc \notin {"done", "locked"}
    /\ Finish(r)
    /\ UNCHANGED <<now, failures>>

Tick ==
    /\ now < MaxTime
    /\ now' = now + 1
    /\ UNCHANGED <<failures, req>>

Serve(r) ==
    \/ \E e \in Email, i \in Ip : Ask(r, e, i)
    \/ CountEmail(r)
    \/ LastEmail(r)
    \/ CountIp(r)
    \/ LastIp(r)
    \/ Verify(r)
    \/ Record(r)
    \/ Abort(r)

Next == Tick \/ \E r \in Req : Serve(r)

Spec == Init /\ [][Next]_vars

----------------------------------------------------------------------------
(* Properties *)

\* Requests that the check of identity k let through and that can still fail.
InFlight(k) ==
    {r \in Req :
        \/ req[r].email = k /\ req[r].pc \in {"countIp", "lastIp", "verify", "record"}
        \/ req[r].ip = k /\ req[r].pc \in {"verify", "record"}}

RecentRows(k) == {row \in RowsOf(k) : row.at + Window > now}
RecentFailures(k) == Cardinality(RecentRows(k))

\* With the defaults (lockout_base_secs is the 15 minutes of the window) the failures that
\* a window records of an identity, with the requests that can still record one, never
\* pass the limit plus the requests that run side by side, less one: everyone can count
\* before anyone records.  It is no bound on the passwords tried: a wrong one whose INSERT
\* fails (auth_flow.rs:137), or whose client hangs up after verify_credentials
\* (login.rs:49), leaves no row to be counted.
RecordedFailuresAreBounded ==
    (Base >= Window /\ Cap >= Base) =>
        \A k \in Email \cup Ip :
            RecentFailures(k) + Cardinality(InFlight(k))
                <= MaxFailed - 1 + Cardinality(Req)

\* Nobody is locked out by failures older than the 15 minutes: the exponential cooldown
\* (docs/SECURITY.md:11) never outlives the window that counts them.
LockNeedsRecentFailure ==
    \A r \in Req : req[r].pc = "locked" =>
        \E row \in failures :
            /\ row.email = req[r].email \/ row.ip = req[r].ip
            /\ row.at + Window > req[r].since
=============================================================================
