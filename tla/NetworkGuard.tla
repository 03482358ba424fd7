---------------------------- MODULE NetworkGuard ----------------------------
(***************************************************************************)
(* The request firewall, for one client address: network_guard of          *)
(* middleware.rs, ip_mode of services/ipintel.rs over blocked_ips, and     *)
(* rl_hit of services/store.rs over one of its two backends.               *)
(*                                                                         *)
(* rl_hit is atomic in both backends (a mutex, MULTI); the SELECT of       *)
(* ip_mode is a statement before it.  Every key of the limiter is an       *)
(* address, so one address is enough.                                      *)
(***************************************************************************)
EXTENDS Naturals, FiniteSets

CONSTANTS
    Backends,  \* what from_env may find: subset of {"memory", "redis"}
    Req,       \* concurrent requests
    Limit,     \* settings.rate_limit_per_min, not 0 (0 switches the limiter off)
    Window,    \* the 60 s, in ticks
    MaxTime,   \* bound on the clock
    MaxHits    \* bound on the requests that reach the limiter in one tick

ASSUME ConstantsAssumption ==
    /\ Backends \subseteq {"memory", "redis"}
    /\ Limit \in Nat \ {0} /\ Window \in Nat \ {0} /\ MaxTime \in Nat
    /\ MaxHits \in Nat

Time == 0..MaxTime
Mode == {"none", "whitelist", "blacklist"}

\* A request at the limiter, which was counted or was let through because Redis did not
\* answer; nth tells apart those of one tick.
Arrival == [at : Time, nth : Nat \ {0}, how : {"counted", "failOpen"}]

VARIABLES
    backend,  \* Store::Memory or Store::Redis, chosen at start-up
    now,      \* the clock, in ticks
    count,    \* the counter of the address, 0 when there is none
    mark,     \* memory: start of the counter's window; redis: when its key expires
    mode,     \* the row of blocked_ips that is in force
    req,      \* the requests
    hits,     \* history: requests that the limiter counted
    allowed,  \* history: all that were let through, by the count or by a failure of Redis
    losses    \* history: when a restart lost the counters in memory

limiter == <<count, mark>>
history == <<hits, allowed, losses>>
vars == <<backend, now, limiter, mode, req, history>>

Pc == {"done", "limit", "limited"}

TypeOK ==
    /\ backend \in Backends
    /\ now \in Time
    /\ count \in Nat /\ mark \in Nat
    /\ mode \in Mode
    /\ req \in [Req -> Pc]
    /\ hits \subseteq Arrival /\ allowed \subseteq Arrival /\ losses \subseteq Time

Init ==
    /\ backend \in Backends
    /\ now = 0
    /\ count = 0 /\ mark = 0
    /\ mode = "none"
    /\ req = [r \in Req |-> "done"]
    /\ hits = {} /\ allowed = {} /\ losses = {}

----------------------------------------------------------------------------

\* ip_mode: a blacklisted address is answered 403; a failed statement is answered 500
\* and a missing CSRF pair 403 (all "done").  A whitelisted address goes on like any other.
CheckAddress(r) ==
    /\ req[r] \in {"done", "limited"}
    /\ \/ /\ mode # "blacklist"
          /\ req' = [req EXCEPT ![r] = "limit"]
       \/ /\ req[r] = "limited"
          /\ req' = [req EXCEPT ![r] = "done"]
    /\ UNCHANGED <<backend, now, limiter, mode, history>>

\* Memory: no entry, or its window started at least Window ago.
WindowOver == count = 0 \/ now >= mark + Window

\* A bug: the key outlives its TTL by one tick.
KeyGoneLate == count = 0 \/ now > mark

\* Redis: the key is absent or its TTL ran out.
KeyGone == count = 0 \/ now >= mark

\* A bug: a window that started before its first request.
WindowStartEarly == now - Window

\* A window starts with the request that opens it.
WindowStart == now

\* The counter after this hit, and the mark that goes with it.
HitMemory ==
    /\ backend = "memory"
    /\ count' = IF WindowOver THEN 1 ELSE count + 1
    /\ mark' = IF WindowOver THEN WindowStart ELSE mark

\* INCR, then EXPIRE, which restarts the TTL at every hit.
HitRedis ==
    /\ backend = "redis"
    /\ count' = IF KeyGone THEN 1 ELSE count + 1
    /\ mark' = now + Window

\* A bug: one request too many.
UnderLimitPlusOne(n) == n <= Limit + 1

UnderLimit(n) == n <= Limit

FailedOpen == {h \in allowed : h.how = "failOpen"}

ThisTick(S) == {h \in S : h.at = now}

\* The next one of this tick in a history.
Arriving(S, how) == [at |-> now, nth |-> Cardinality(ThisTick(S)) + 1, how |-> how]
ThisHit == Arriving(hits, "counted")
ThisFailure == Arriving(FailedOpen, "failOpen")

Room == Cardinality(ThisTick(hits \cup allowed)) < MaxHits

\* rl_hit
Hit(r) ==
    /\ req[r] = "limit"
    /\ Room
    /\ HitMemory \/ HitRedis
    /\ req' = [req EXCEPT ![r] = IF UnderLimit(count') THEN "done" ELSE "limited"]
    /\ hits' = hits \cup {ThisHit}
    /\ allowed' = IF UnderLimit(count') THEN allowed \cup {ThisHit} ELSE allowed
    /\ UNCHANGED <<backend, now, mode, losses>>

\* Redis does not answer, with the hit lost or counted: the request is let through.
FailOpen(r) ==
    /\ req[r] = "limit"
    /\ backend = "redis"
    /\ Room
    /\ \/ UNCHANGED <<limiter, hits>>
       \/ HitRedis /\ hits' = hits \cup {ThisHit}
    /\ req' = [req EXCEPT ![r] = "done"]
    /\ allowed' = allowed \cup {ThisFailure}
    /\ UNCHANGED <<backend, now, mode, losses>>

\* upsert_block, delete_block, and an entry that expires.
SetMode(m) ==
    /\ m # mode
    /\ mode' = m
    /\ UNCHANGED <<backend, now, limiter, req, history>>

\* The process restarts with the same backend: the counters in memory are gone, and so
\* are its requests.  Bound: a tick is shorter than a start-up.
Restart ==
    /\ req' = [r \in Req |-> "done"]
    /\ \/ /\ backend = "memory" /\ now \notin losses
          /\ count' = 0 /\ mark' = 0 /\ losses' = losses \cup {now}
       \/ backend = "redis" /\ UNCHANGED <<limiter, losses>>
    /\ UNCHANGED <<backend, now, mode, hits, allowed>>

Tick ==
    /\ now < MaxTime
    /\ now' = now + 1
    /\ UNCHANGED <<backend, limiter, mode, req, history>>

Next ==
    \/ \E r \in Req : CheckAddress(r) \/ Hit(r) \/ FailOpen(r)
    \/ \E m \in Mode : SetMode(m)
    \/ Restart
    \/ Tick

Spec == Init /\ [][Next]_vars

----------------------------------------------------------------------------
(* Properties *)

\* What a history has of the Window that ends now.
Recent(S) == {h \in S : h.at + Window > now}
Recently(S) == Cardinality(Recent(S))

\* What is let through within any 60 s, in all.  In memory two windows can meet, and a
\* restart begins another one: at most twice the limit, and once more for each restart in
\* those 60 s.  With Redis, whose counter only restarts after 60 idle seconds and outlives
\* the process: at most the limit, and those let through because Redis did not answer
\* (store.rs:89 "fail-open documente").
BurstIsBounded ==
    Recently(allowed) <=
        IF backend = "memory"
        THEN (2 + Cardinality({t \in losses : t + Window > now})) * Limit
        ELSE Limit + Recently(FailedOpen)

\* The hits since Redis last forgot the address: those with no idle Window after them.
Unforgotten ==
    {h \in hits : \A t \in (h.at + 1)..now : \E g \in hits : g.at < t /\ t < g.at + Window}
Streak == Cardinality(Unforgotten)

\* README.md:234 announces one fixed window for both backends.  In memory a request is
\* refused only if the limit was really reached in the 60 s before it.  In Redis every
\* hit restarts the expiry, so what a refusal needs is that the limit was reached since
\* the last 60 s without a request, however long ago that was.
RefusedOnlyOverLimit ==
    [][\A r \in Req : (req[r] = "limit" /\ req'[r] = "limited")
          => Limit <= IF backend = "memory" THEN Recently(hits) ELSE Streak]_vars
=============================================================================
