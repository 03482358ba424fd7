---------------------------- MODULE LockoutProofs ----------------------------
(***************************************************************************)
(* Proofs about Lockout for every set of addresses and requests, every     *)
(* limit, window and cooldown, and every clock bound.                      *)
(***************************************************************************)
EXTENDS Lockout, FiniteSetTheorems, TLAPS

----------------------------------------------------------------------------
(* The inductive invariant *)

\* The rows of one email, ip and tick are numbered from one on.
Like(row) ==
    {other \in failures :
        other.email = row.email /\ other.ip = row.ip /\ other.at = row.at}

RowsNumbered ==
    /\ IsFiniteSet(failures)
    /\ \A row \in failures : row.nth <= Cardinality(Like(row))

\* Nobody counts from a later moment than the present.
NoneAhead == \A r \in Req : req[r].since <= now

\* An identity about to be held against its last failure was over the limit, and so has
\* failed in the window that was counted.
OverLimit(r, k) ==
    /\ req[r].fails >= MaxFailed
    /\ \E row \in RowsOf(k) : row.at + Window > req[r].since

HeldWereOverLimit ==
    \A r \in Req :
        /\ req[r].pc = "lastEmail" => OverLimit(r, req[r].email)
        /\ req[r].pc = "lastIp" => OverLimit(r, req[r].ip)

IInv ==
    /\ TypeOK
    /\ RowsNumbered
    /\ NoneAhead
    /\ HeldWereOverLimit
    /\ RecordedFailuresAreBounded
    /\ LockNeedsRecentFailure

----------------------------------------------------------------------------
(* The operators *)

\* Every nonempty bounded set of moments has a last one.
LEMMA LastMoment ==
    ASSUME NEW S \in SUBSET Time, S # {}
    PROVE  \E t \in S : \A u \in S : u <= t
  <1>1. DEFINE T == {MaxTime - t : t \in S}
  <1>2. T \subseteq Nat /\ T # {}
    <2>1. \A t \in S : MaxTime - t \in Nat
      BY ConstantsAssumption DEF Time
    <2>2. QED
      BY <2>1
  <1>3. PICK x \in T : \A y \in T : ~ (<<y, x>> \in OpToRel(<, Nat))
    BY <1>2, NatLessThanWellFounded, WFMin
  <1>4. \A y \in T : ~ (y < x)
    BY <1>2, <1>3 DEF OpToRel
  <1>5. PICK t \in S : x = MaxTime - t
    OBVIOUS
  <1>6. ASSUME NEW u \in S
        PROVE  u <= t
    <2>1. ~ (MaxTime - u < MaxTime - t)
      BY <1>4, <1>5
    <2>2. QED
      BY <2>1, ConstantsAssumption DEF Time
  <1>7. QED
    BY <1>6

\* The cooldown is at least the smaller one of its base and its cap.
LEMMA CooldownBound ==
    ASSUME NEW fails \in Nat, fails >= MaxFailed, Cap >= Base
    PROVE  Cooldown(fails) \in Nat /\ Cooldown(fails) >= Base
  <1>1. DEFINE x == AtMost(fails - MaxFailed, 6)
  <1>2. x \in 0..6
    BY ConstantsAssumption DEF AtMost
  <1>3. HIDE DEF x
  <1>4. PowerOfTwo[1 + x] \in {1, 2, 4, 8, 16, 32, 64}
    BY <1>2 DEF PowerOfTwo
  <1>5. DEFINE p == PowerOfTwo[1 + x]
  <1>6. Base * p \in Nat /\ Base * p >= Base
    BY <1>4, ConstantsAssumption
  <1>7. Cooldown(fails) = AtMost(Base * p, Cap)
    BY DEF Cooldown, x
  <1>8. HIDE DEF p
  <1>9. QED
    BY <1>6, <1>7, ConstantsAssumption DEF AtMost

\* While the cooldown is no shorter than the window, an identity that is over the limit
\* and not locked has no recent failure left.
LEMMA UnlockedIsQuiet ==
    ASSUME TypeOK, Base >= Window, Cap >= Base,
           NEW k, NEW fails \in Nat, fails >= MaxFailed, ~Locked(k, fails)
    PROVE  RecentRows(k) = {}
  <1>1. SUFFICES ASSUME NEW row \in RowsOf(k), row.at + Window > now
                 PROVE  FALSE
    BY DEF RecentRows
  <1>2. \A other \in RowsOf(k) : other.at \in Time
    BY DEF RowsOf, TypeOK, Row
  <1>3. DEFINE S == {other.at : other \in RowsOf(k)}
  <1>4. S \subseteq Time /\ S # {}
    BY <1>2
  <1>5. PICK t \in S : \A u \in S : u <= t
    BY <1>4, LastMoment
  <1>6. PICK last \in RowsOf(k) : last.at = t
    OBVIOUS
  <1>7. \A other \in RowsOf(k) : other.at <= last.at
    BY <1>5, <1>6
  <1>8. ~ (now < last.at + Cooldown(fails))
    BY <1>7 DEF Locked
  <1>9. row.at <= last.at
    BY <1>7
  <1>10. QED
    BY <1>1, <1>2, <1>8, <1>9, CooldownBound, ConstantsAssumption DEF TypeOK, Time

\* The sets that are counted are finite.
LEMMA Counts ==
    ASSUME IsFiniteSet(failures), NEW k
    PROVE  /\ IsFiniteSet(RecentRows(k)) /\ RecentFailures(k) \in Nat
           /\ IsFiniteSet(InFlight(k)) /\ Cardinality(InFlight(k)) \in Nat
           /\ Cardinality(InFlight(k)) <= Cardinality(Req)
           /\ Cardinality(Req) \in Nat
           /\ \A at : FailuresSince(k, at) \in Nat
  <1>1. RecentRows(k) \in SUBSET failures /\ InFlight(k) \in SUBSET Req
    BY DEF RecentRows, RowsOf, InFlight
  <1>2. IsFiniteSet(Req)
    BY ConstantsAssumption
  <1>3. IsFiniteSet(RecentRows(k)) /\ RecentFailures(k) \in Nat
    BY <1>1, FS_Subset, FS_CardinalityType DEF RecentFailures
  <1>4. /\ IsFiniteSet(InFlight(k)) /\ Cardinality(InFlight(k)) \in Nat
        /\ Cardinality(InFlight(k)) <= Cardinality(Req) /\ Cardinality(Req) \in Nat
    BY <1>1, <1>2, FS_Subset, FS_CardinalityType
  <1>5. ASSUME NEW at
        PROVE  FailuresSince(k, at) \in Nat
    <2>1. {row \in RowsOf(k) : InWindow(row.at, at)} \in SUBSET failures
      BY DEF RowsOf
    <2>2. QED
      BY <2>1, FS_Subset, FS_CardinalityType DEF FailuresSince
  <1>6. QED
    BY <1>3, <1>4, <1>5

\* What was counted from an earlier moment on holds all the recent failures.
LEMMA RecentAreCounted ==
    ASSUME TypeOK, IsFiniteSet(failures), NEW k, NEW at \in Time, at <= now
    PROVE  RecentFailures(k) <= FailuresSince(k, at)
  <1>1. DEFINE counted == {row \in RowsOf(k) : InWindow(row.at, at)}
  <1>2. counted \in SUBSET failures
    BY DEF RowsOf
  <1>3. IsFiniteSet(counted)
    BY <1>2, FS_Subset
  <1>4. \A row \in failures : row.at \in Time
    BY DEF TypeOK, Row
  <1>5. RecentRows(k) \in SUBSET counted
    BY <1>4, ConstantsAssumption DEF RecentRows, RowsOf, InWindow, TypeOK, Time
  <1>6. QED
    BY <1>3, <1>5, FS_Subset DEF RecentFailures, FailuresSince

----------------------------------------------------------------------------
(* The steps *)

\* Goto moves request r and touches no other.
LEMMA GotoEffect ==
    ASSUME TypeOK, NEW r \in Req, NEW pc \in Pc, Goto(r, pc)
    PROVE  /\ req'[r] \in Request /\ req'[r].pc = pc
           /\ req'[r].email = req[r].email /\ req'[r].ip = req[r].ip
           /\ req'[r].since = req[r].since /\ req'[r].fails = req[r].fails
           /\ \A q \in Req \ {r} : req'[q] = req[q]
  BY DEF TypeOK, Goto, Request

\* Finish ends request r and touches no other.
LEMMA FinishEffect ==
    ASSUME TypeOK, NEW r \in Req, Finish(r)
    PROVE  /\ req'[r] \in Request /\ req'[r].pc = "done" /\ req'[r].since = 0
           /\ req'[r].email = req[r].email /\ req'[r].ip = req[r].ip
           /\ \A q \in Req \ {r} : req'[q] = req[q]
  <1>1. DEFINE x == [req[r] EXCEPT !.pc = "done", !.since = 0, !.fails = 0]
  <1>2. /\ x \in Request /\ x.pc = "done" /\ x.since = 0
        /\ x.email = req[r].email /\ x.ip = req[r].ip
    <2>1. req[r] \in Request /\ "done" \in Pc /\ 0 \in Time
      BY ConstantsAssumption DEF TypeOK, Pc, Time
    <2>2. QED
      BY <2>1 DEF Request
  <1>3. req' = [req EXCEPT ![r] = x]
    BY DEF Finish
  <1>4. HIDE DEF x
  <1>5. QED
    BY <1>2, <1>3 DEF TypeOK

\* A count decides where request r goes, is kept, and touches no other.
LEMMA CountEffect ==
    ASSUME TypeOK, IsFiniteSet(failures), NEW r \in Req, NEW k,
           NEW last \in Pc, NEW next \in Pc, CountFailures(r, k, last, next)
    PROVE  LET n == FailuresSince(k, req[r].since)
           IN  /\ req'[r] \in Request /\ n \in Nat
               /\ req'[r].pc = IF n < MaxFailed THEN next ELSE last
               /\ req'[r].fails = n /\ req'[r].since = req[r].since
               /\ req'[r].email = req[r].email /\ req'[r].ip = req[r].ip
               /\ \A q \in Req \ {r} : req'[q] = req[q]
  <1>1. DEFINE n == FailuresSince(k, req[r].since)
  <1>2. n \in Nat
    BY Counts
  <1>3. HIDE DEF n
  <1>4. DEFINE pc == IF n < MaxFailed THEN next ELSE last
  <1>5. pc \in Pc
    OBVIOUS
  <1>6. req' = [req EXCEPT ![r].pc = pc, ![r].fails = n]
    BY DEF CountFailures, n
  <1>7. HIDE DEF pc
  <1>8. /\ req'[r] \in Request /\ req'[r].pc = pc
        /\ req'[r].fails = n /\ req'[r].since = req[r].since
        /\ req'[r].email = req[r].email /\ req'[r].ip = req[r].ip
        /\ \A q \in Req \ {r} : req'[q] = req[q]
    BY <1>2, <1>5, <1>6 DEF TypeOK, Request
  <1>9. QED
    BY <1>2, <1>8 DEF n, pc

LEMMA TypeStep ==
    ASSUME TypeOK, IsFiniteSet(failures), [Next]_vars
    PROVE  TypeOK'
  <1> USE ConstantsAssumption DEF TypeOK
  <1>1. ASSUME NEW r \in Req, NEW e \in Email, NEW i \in Ip, Ask(r, e, i)
        PROVE  TypeOK'
    BY <1>1 DEF Ask, Request, Pc
  <1>2. ASSUME NEW r \in Req, NEW k, NEW last \in Pc, NEW next \in Pc,
               CountFailures(r, k, last, next)
        PROVE  TypeOK'
    BY <1>2, Counts DEF CountFailures, Request
  <1>3. ASSUME NEW r \in Req, NEW k, NEW next \in Pc, LastFailure(r, k, next)
        PROVE  TypeOK'
    BY <1>3 DEF LastFailure, Goto, Request, Pc
  <1>4. ASSUME NEW r \in Req, Finish(r)
        PROVE  req' \in [Req -> Request]
    BY <1>4, FinishEffect DEF Finish
  <1>5. ASSUME NEW r \in Req, Verify(r)
        PROVE  TypeOK'
    BY <1>4, <1>5 DEF Verify, Goto, Request, Pc
  <1>6. ASSUME NEW r \in Req, Record(r)
        PROVE  TypeOK'
    <2>1. IsFiniteSet(Alike(r))
      BY FS_Subset DEF Alike
    <2>2. Cardinality(Alike(r)) + 1 \in Nat \ {0}
      BY <2>1, FS_CardinalityType
    <2>3. Attempt(r) \in Row
      BY <2>2 DEF Attempt, Row, Request
    <2>4. QED
      BY <1>4, <1>6, <2>3 DEF Record
  <1>7. ASSUME NEW r \in Req, Abort(r)
        PROVE  TypeOK'
    BY <1>4, <1>7 DEF Abort
  <1>8. CASE Tick
    BY <1>8 DEF Tick, Time
  <1>9. CASE UNCHANGED vars
    BY <1>9 DEF vars
  <1>10. QED
    BY <1>1, <1>2, <1>3, <1>5, <1>6, <1>7, <1>8, <1>9
       DEF Next, Serve, CountEmail, CountIp, LastEmail, LastIp, Pc

\* Only Record adds a row, and it numbers it after those it cannot be told from.
LEMMA RowsNumberedStep ==
    ASSUME TypeOK, RowsNumbered, [Next]_vars
    PROVE  RowsNumbered' /\ failures \subseteq failures'
  <1>1. CASE failures' = failures
    BY <1>1 DEF RowsNumbered, Like
  <1>2. ASSUME NEW r \in Req, failures' = failures \cup {Attempt(r)}
        PROVE  RowsNumbered'
    <2>1. IsFiniteSet(failures')
      BY <1>2, FS_AddElement DEF RowsNumbered
    <2>2. Alike(r) \subseteq failures /\ IsFiniteSet(Alike(r))
      BY FS_Subset DEF RowsNumbered, Alike
    <2>3. Attempt(r) \notin Alike(r)
      <3>1. ASSUME Attempt(r) \in Alike(r)
            PROVE  FALSE
        <4>1. Like(Attempt(r)) = Alike(r)
          BY DEF Like, Alike, Attempt
        <4>2. Attempt(r).nth <= Cardinality(Alike(r))
          BY <3>1, <4>1, <2>2 DEF RowsNumbered
        <4>3. QED
          BY <4>2, <2>2, FS_CardinalityType DEF Attempt
      <3>2. QED
        BY <3>1
    <2>4. ASSUME NEW row \in failures'
          PROVE  row.nth <= Cardinality(Like(row)')
      <3>1. CASE row \in failures
        <4>1. Like(row) \in SUBSET (Like(row)') /\ Like(row)' \in SUBSET failures'
          BY <1>2 DEF Like
        <4>2. IsFiniteSet(Like(row)') /\ IsFiniteSet(Like(row))
          BY <2>1, <4>1, FS_Subset
        <4>3. Cardinality(Like(row)) <= Cardinality(Like(row)')
          BY <4>1, <4>2, FS_Subset
        <4>4. row.nth <= Cardinality(Like(row)) /\ row.nth \in Nat
          BY <3>1 DEF RowsNumbered, TypeOK, Row
        <4>5. QED
          BY <4>2, <4>3, <4>4, FS_CardinalityType
      <3>2. CASE row = Attempt(r)
        <4>1. Like(row)' = Alike(r) \cup {Attempt(r)}
          BY <1>2, <3>2 DEF Like, Alike, Attempt
        <4>2. Cardinality(Like(row)') = Cardinality(Alike(r)) + 1
          BY <4>1, <2>2, <2>3, FS_AddElement
        <4>3. QED
          BY <4>2, <3>2, <2>2, FS_CardinalityType DEF Attempt
      <3>3. QED
        BY <1>2, <3>1, <3>2
    <2>5. QED
      BY <2>1, <2>4 DEF RowsNumbered
  <1>3. \/ failures' = failures
        \/ \E r \in Req : failures' = failures \cup {Attempt(r)}
    BY DEF Next, Serve, Ask, CountEmail, CountIp, CountFailures, LastEmail, LastIp,
           LastFailure, Verify, Record, Abort, Tick, vars
  <1>4. QED
    BY <1>1, <1>2, <1>3

LEMMA NoneAheadStep ==
    ASSUME TypeOK, IsFiniteSet(failures), NoneAhead, [Next]_vars
    PROVE  NoneAhead'
  <1>1. \A r \in Req : req[r].since \in 0..MaxTime /\ req[r].since <= now
    BY DEF TypeOK, Request, Time, NoneAhead
  <1>2. now \in 0..MaxTime /\ MaxTime \in Nat
    BY ConstantsAssumption DEF TypeOK, Time
  <1>3. ASSUME NEW r \in Req, now' = now, req'[r].since \in {now, req[r].since, 0},
               \A q \in Req \ {r} : req'[q] = req[q]
        PROVE  NoneAhead'
    BY <1>1, <1>2, <1>3 DEF NoneAhead
  <1>4. ASSUME NEW r \in Req, NEW e \in Email, NEW i \in Ip, Ask(r, e, i)
        PROVE  NoneAhead'
    BY <1>3, <1>4 DEF Ask, TypeOK
  <1>5. ASSUME NEW r \in Req, CountEmail(r) \/ CountIp(r)
        PROVE  NoneAhead'
    <2>1. ASSUME NEW k, NEW last \in Pc, NEW next \in Pc, CountFailures(r, k, last, next)
          PROVE  NoneAhead'
      <3>1. now' = now
        BY <2>1 DEF CountFailures
      <3>2. /\ req'[r].since = req[r].since
            /\ \A q \in Req \ {r} : req'[q] = req[q]
        BY <2>1, CountEffect
      <3>3. QED
        BY <1>3, <3>1, <3>2
    <2>2. QED
      BY <1>5, <2>1 DEF CountEmail, CountIp, Pc
  <1>6. ASSUME NEW r \in Req, LastEmail(r) \/ LastIp(r)
        PROVE  NoneAhead'
    BY <1>3, <1>6, GotoEffect DEF LastEmail, LastIp, LastFailure, Pc
  <1>7. ASSUME NEW r \in Req, Verify(r) \/ Record(r) \/ Abort(r)
        PROVE  NoneAhead'
    BY <1>3, <1>7, GotoEffect, FinishEffect DEF Verify, Record, Abort, Pc
  <1>8. CASE Tick
    BY <1>1, <1>2, <1>8 DEF Tick, NoneAhead
  <1>9. CASE UNCHANGED vars
    BY <1>9 DEF vars, NoneAhead
  <1>10. QED
    BY <1>4, <1>5, <1>6, <1>7, <1>8, <1>9 DEF Next, Serve

\* Only a request that passes its count is held against the last failure, and a row
\* that was counted stays.
LEMMA HeldStep ==
    ASSUME TypeOK, IsFiniteSet(failures), HeldWereOverLimit, LockNeedsRecentFailure,
           failures \subseteq failures', [Next]_vars
    PROVE  HeldWereOverLimit' /\ LockNeedsRecentFailure'
  <1> USE DEF TypeOK
  <1>1. \A k : RowsOf(k) \subseteq RowsOf(k)'
    BY DEF RowsOf
  <1>2. DEFINE Held(r) ==
                 /\ req[r].pc = "lastEmail" => OverLimit(r, req[r].email)
                 /\ req[r].pc = "lastIp" => OverLimit(r, req[r].ip)
                 /\ req[r].pc = "locked" =>
                       \E row \in failures :
                           /\ row.email = req[r].email \/ row.ip = req[r].ip
                           /\ row.at + Window > req[r].since
  <1>3. \A r \in Req : Held(r)
    BY DEF HeldWereOverLimit, LockNeedsRecentFailure
  <1>4. ASSUME NEW r \in Req, req'[r] = req[r]
        PROVE  Held(r)'
    BY <1>1, <1>3, <1>4 DEF OverLimit
  <1>5. ASSUME NEW r \in Req, req'[r].pc \notin {"lastEmail", "lastIp", "locked"}
        PROVE  Held(r)'
    BY <1>5
  <1>6. ASSUME NEW r \in Req, NEW k, NEW last \in {"lastEmail", "lastIp"},
               NEW next \in {"countIp", "verify"}, CountFailures(r, k, last, next),
               k = IF last = "lastEmail" THEN req[r].email ELSE req[r].ip
        PROVE  Held(r)'
    <2>1. CASE FailuresSince(k, req[r].since) < MaxFailed
      BY <2>1, <1>5, <1>6, CountEffect DEF Pc
    <2>2. CASE ~ (FailuresSince(k, req[r].since) < MaxFailed)
      <3>1. DEFINE counted == {row \in RowsOf(k) : InWindow(row.at, req[r].since)}
      <3>2. Cardinality(counted) >= MaxFailed
        BY <2>2, Counts, ConstantsAssumption DEF FailuresSince
      <3>3. counted # {}
        BY <3>2, FS_EmptySet, ConstantsAssumption
      <3>4. \E row \in RowsOf(k) : row.at + Window > req[r].since
        BY <3>3 DEF InWindow
      <3>5. /\ req'[r].pc = last /\ req'[r].fails = FailuresSince(k, req[r].since)
            /\ req'[r].since = req[r].since
            /\ req'[r].email = req[r].email /\ req'[r].ip = req[r].ip
        BY <2>2, <1>6, CountEffect DEF Pc
      <3>6. req'[r].fails >= MaxFailed
        BY <3>2, <3>5 DEF FailuresSince
      <3>7. OverLimit(r, k)'
        BY <3>4, <3>5, <3>6, <1>1 DEF OverLimit
      <3>8. QED
        BY <3>5, <3>7, <1>6
    <2>3. QED
      BY <2>1, <2>2
  <1>7. ASSUME NEW r \in Req, NEW k \in {req[r].email, req[r].ip}, OverLimit(r, k),
               NEW next \in {"countIp", "verify"}, LastFailure(r, k, next)
        PROVE  Held(r)'
    <2>1. PICK row \in RowsOf(k) : row.at + Window > req[r].since
      BY <1>7 DEF OverLimit
    <2>2. row \in failures' /\ (row.email = req[r].email \/ row.ip = req[r].ip)
      <3>1. row \in failures /\ (row.email = k \/ row.ip = k)
        BY DEF RowsOf
      <3>2. row.email \in Email /\ row.ip \in Ip
        BY <3>1 DEF Row
      <3>3. req[r].email \in Email /\ req[r].ip \in Ip
        BY DEF Request
      <3>4. QED
        BY <3>1, <3>2, <3>3, <1>7, ConstantsAssumption
    <2>3. /\ req'[r].pc \in {"locked", "countIp", "verify"}
          /\ req'[r].since = req[r].since
          /\ req'[r].email = req[r].email /\ req'[r].ip = req[r].ip
      BY <1>7, GotoEffect DEF LastFailure, Pc
    <2>4. QED
      BY <2>1, <2>2, <2>3
  <1>8. \A r \in Req : Held(r)'
    <2>1. ASSUME NEW r \in Req, Serve(r)
          PROVE  Held(r)' /\ \A q \in Req : q # r => req'[q] = req[q]
      <3>1. ASSUME NEW e \in Email, NEW i \in Ip, Ask(r, e, i)
            PROVE  Held(r)' /\ \A q \in Req : q # r => req'[q] = req[q]
        BY <1>5, <3>1 DEF Ask
      <3>2. CASE CountEmail(r)
        BY <1>6, <3>2 DEF CountEmail, CountFailures
      <3>3. CASE CountIp(r)
        BY <1>6, <3>3 DEF CountIp, CountFailures
      <3>4. CASE LastEmail(r)
        BY <1>3, <1>7, <3>4 DEF LastEmail, LastFailure, Goto
      <3>5. CASE LastIp(r)
        BY <1>3, <1>7, <3>5 DEF LastIp, LastFailure, Goto
      <3>6. CASE Verify(r) \/ Record(r) \/ Abort(r)
        BY <1>5, <3>6, GotoEffect, FinishEffect DEF Verify, Record, Abort, Pc
      <3>7. QED
        BY <2>1, <3>1, <3>2, <3>3, <3>4, <3>5, <3>6 DEF Serve
    <2>2. CASE Tick \/ UNCHANGED vars
      BY <1>4, <2>2 DEF Tick, vars
    <2>3. QED
      BY <1>4, <2>1, <2>2 DEF Next
  <1>9. QED
    BY <1>8 DEF HeldWereOverLimit, LockNeedsRecentFailure

\* A request that passes with less than the limit of recent failures keeps the bound, as
\* does a step that lets nobody pass.
LEMMA PassingKeepsBound ==
    ASSUME IsFiniteSet(failures), UNCHANGED <<now, failures>>, NEW k \in Email \cup Ip,
           Base >= Window, Cap >= Base, RecordedFailuresAreBounded,
           \/ InFlight(k)' \subseteq InFlight(k)
           \/ RecentFailures(k) <= MaxFailed - 1
    PROVE  RecentFailures(k)' + Cardinality(InFlight(k)') <= MaxFailed - 1 + Cardinality(Req)
  <1>1. RecentFailures(k)' = RecentFailures(k)
    BY DEF RecentFailures, RecentRows, RowsOf
  <1>2. InFlight(k)' \in SUBSET Req
    BY DEF InFlight
  <1>3. /\ IsFiniteSet(InFlight(k)') /\ Cardinality(InFlight(k)') \in Nat
        /\ Cardinality(InFlight(k)') <= Cardinality(Req)
    BY <1>2, ConstantsAssumption, FS_Subset, FS_CardinalityType
  <1>4. CASE InFlight(k)' \subseteq InFlight(k)
    <2>1. Cardinality(InFlight(k)') <= Cardinality(InFlight(k))
      BY <1>4, Counts, FS_Subset
    <2>2. QED
      BY <1>1, <1>3, <2>1, Counts, ConstantsAssumption DEF RecordedFailuresAreBounded
  <1>5. CASE RecentFailures(k) <= MaxFailed - 1
    BY <1>1, <1>3, <1>5, Counts, ConstantsAssumption
  <1>6. QED
    BY <1>4, <1>5

LEMMA BoundStep ==
    ASSUME TypeOK, RowsNumbered, NoneAhead, HeldWereOverLimit, RecordedFailuresAreBounded,
           [Next]_vars
    PROVE  RecordedFailuresAreBounded'
  <1> USE DEF RowsNumbered
  <1>1. SUFFICES ASSUME Base >= Window, Cap >= Base, NEW k \in Email \cup Ip
                 PROVE  RecentFailures(k)' + Cardinality(InFlight(k)')
                            <= MaxFailed - 1 + Cardinality(Req)
    BY DEF RecordedFailuresAreBounded
  <1>2. ASSUME NEW r \in Req, req'[r].email = req[r].email, req'[r].ip = req[r].ip,
               \A q \in Req \ {r} : req'[q] = req[q],
               req'[r].pc \in {"done", "locked", "countEmail", "lastEmail"}
        PROVE  InFlight(k)' \subseteq InFlight(k) \ {r}
    BY <1>2 DEF InFlight
  <1>3. \A r \in Req : req[r].email \in Email /\ req[r].ip \in Ip /\ req[r].fails \in Nat
                       /\ req[r].since \in Time /\ req[r].since <= now
    BY DEF TypeOK, Request, NoneAhead
  <1>4. ASSUME NEW r \in Req, NEW e \in Email, NEW i \in Ip, Ask(r, e, i)
        PROVE  InFlight(k)' \subseteq InFlight(k)
    BY <1>4 DEF Ask, InFlight, TypeOK
  <1>5. ASSUME NEW r \in Req, CountEmail(r) \/ CountIp(r)
        PROVE  InFlight(k)' \subseteq InFlight(k) \/ RecentFailures(k) <= MaxFailed - 1
    <2>1. ASSUME NEW j \in Email \cup Ip, FailuresSince(j, req[r].since) < MaxFailed
          PROVE  RecentFailures(j) <= MaxFailed - 1
      BY <2>1, <1>3, RecentAreCounted, Counts, ConstantsAssumption
    <2>2. CASE CountEmail(r)
      <3>1. CASE k = req[r].email /\ FailuresSince(k, req[r].since) < MaxFailed
        BY <2>1, <3>1
      <3>2. CASE ~ (k = req[r].email /\ FailuresSince(k, req[r].since) < MaxFailed)
        BY <2>2, <3>2, <1>3, CountEffect, ConstantsAssumption DEF CountEmail, InFlight, Pc
      <3>3. QED
        BY <3>1, <3>2
    <2>3. CASE CountIp(r)
      <3>1. CASE k = req[r].ip /\ FailuresSince(k, req[r].since) < MaxFailed
        BY <2>1, <3>1
      <3>2. CASE ~ (k = req[r].ip /\ FailuresSince(k, req[r].since) < MaxFailed)
        BY <2>3, <3>2, <1>3, CountEffect, ConstantsAssumption DEF CountIp, InFlight, Pc
      <3>3. QED
        BY <3>1, <3>2
    <2>4. QED
      BY <1>5, <2>2, <2>3
  <1>6. ASSUME NEW r \in Req, LastEmail(r) \/ LastIp(r)
        PROVE  InFlight(k)' \subseteq InFlight(k) \/ RecentFailures(k) <= MaxFailed - 1
    <2>1. ASSUME NEW j \in Email \cup Ip, req[r].fails >= MaxFailed,
                 ~LockHolds(j, req[r].fails)
          PROVE  RecentFailures(j) <= MaxFailed - 1
      <3>1. RecentRows(j) = {}
        BY <2>1, <1>1, <1>3, UnlockedIsQuiet DEF LockHolds
      <3>2. QED
        BY <3>1, FS_EmptySet, ConstantsAssumption DEF RecentFailures
    <2>2. CASE LastEmail(r)
      <3>1. req[r].fails >= MaxFailed
        BY <2>2 DEF LastEmail, HeldWereOverLimit, OverLimit
      <3>2. CASE k = req[r].email /\ ~LockHolds(k, req[r].fails)
        BY <2>1, <3>1, <3>2
      <3>3. CASE ~ (k = req[r].email /\ ~LockHolds(k, req[r].fails))
        BY <2>2, <3>3, <1>3, GotoEffect, ConstantsAssumption
           DEF LastEmail, LastFailure, InFlight, Pc
      <3>4. QED
        BY <3>2, <3>3
    <2>3. CASE LastIp(r)
      <3>1. req[r].fails >= MaxFailed
        BY <2>3 DEF LastIp, HeldWereOverLimit, OverLimit
      <3>2. CASE k = req[r].ip /\ ~LockHolds(k, req[r].fails)
        BY <2>1, <3>1, <3>2
      <3>3. CASE ~ (k = req[r].ip /\ ~LockHolds(k, req[r].fails))
        BY <2>3, <3>3, <1>3, GotoEffect, ConstantsAssumption
           DEF LastIp, LastFailure, InFlight, Pc
      <3>4. QED
        BY <3>2, <3>3
    <2>4. QED
      BY <1>6, <2>2, <2>3
  <1>7. ASSUME NEW r \in Req, Verify(r) \/ Abort(r)
        PROVE  InFlight(k)' \subseteq InFlight(k)
    BY <1>2, <1>7, GotoEffect, FinishEffect DEF Verify, Abort, InFlight, Pc
  <1>8. ASSUME NEW r \in Req, Record(r)
        PROVE  RecentFailures(k)' + Cardinality(InFlight(k)')
                   <= MaxFailed - 1 + Cardinality(Req)
    <2>1. InFlight(k)' \subseteq InFlight(k) \ {r}
      BY <1>2, <1>8, FinishEffect DEF Record
    <2>2. InFlight(k) \in SUBSET Req /\ IsFiniteSet(InFlight(k))
      BY Counts DEF InFlight
    <2>3. IsFiniteSet(InFlight(k) \ {r}) /\ IsFiniteSet(InFlight(k)')
      BY <2>1, <2>2, FS_RemoveElement, FS_Subset
    <2>4. Cardinality(InFlight(k)') <= Cardinality(InFlight(k) \ {r})
      BY <2>1, <2>3, FS_Subset
    <2>5. Cardinality(InFlight(k)') \in Nat /\ Cardinality(InFlight(k) \ {r}) \in Nat
      BY <2>3, FS_CardinalityType
    <2>6. CASE RecentRows(k)' \subseteq RecentRows(k)
      <3>1. /\ Cardinality(RecentRows(k)') \in Nat
            /\ Cardinality(RecentRows(k)') <= Cardinality(RecentRows(k))
        BY <2>6, Counts, FS_Subset, FS_CardinalityType
      <3>2. Cardinality(InFlight(k) \ {r}) <= Cardinality(InFlight(k))
        BY <2>2, FS_Subset
      <3>3. QED
        BY <1>1, <2>4, <2>5, <3>1, <3>2, Counts, ConstantsAssumption
           DEF RecordedFailuresAreBounded, RecentFailures
    <2>7. CASE ~ (RecentRows(k)' \subseteq RecentRows(k))
      <3>1. failures' = failures \cup {Attempt(r)} /\ now' = now
        BY <1>8, <2>7 DEF Record, RecentRows, RowsOf
      <3>2. k = req[r].email \/ k = req[r].ip
        BY <2>7, <3>1 DEF RecentRows, RowsOf, Attempt
      <3>3. RecentRows(k)' \subseteq RecentRows(k) \cup {Attempt(r)}
        BY <3>1 DEF RecentRows, RowsOf
      <3>4. r \in InFlight(k)
        BY <1>8, <3>2 DEF Record, InFlight
      <3>5. Cardinality(InFlight(k) \ {r}) = Cardinality(InFlight(k)) - 1
        BY <2>2, <3>4, FS_RemoveElement
      <3>6. /\ IsFiniteSet(RecentRows(k) \cup {Attempt(r)})
            /\ Cardinality(RecentRows(k) \cup {Attempt(r)}) <= RecentFailures(k) + 1
        BY Counts, FS_AddElement DEF RecentFailures
      <3>7. /\ Cardinality(RecentRows(k)') \in Nat
            /\ Cardinality(RecentRows(k)') <= Cardinality(RecentRows(k) \cup {Attempt(r)})
            /\ Cardinality(RecentRows(k) \cup {Attempt(r)}) \in Nat
        BY <3>3, <3>6, FS_Subset, FS_CardinalityType
      <3>8. QED
        BY <1>1, <2>4, <2>5, <3>5, <3>6, <3>7, Counts, ConstantsAssumption
           DEF RecordedFailuresAreBounded, RecentFailures
    <2>8. QED
      BY <2>6, <2>7
  <1>9. CASE Tick
    <2>1. \A row \in failures : row.at \in Nat
      BY ConstantsAssumption DEF TypeOK, Row, Time
    <2>2. RecentRows(k)' \subseteq RecentRows(k) /\ InFlight(k)' = InFlight(k)
      BY <1>9, <2>1, ConstantsAssumption
         DEF Tick, RecentRows, RowsOf, InFlight, TypeOK, Time
    <2>3. /\ Cardinality(RecentRows(k)') \in Nat
          /\ Cardinality(RecentRows(k)') <= Cardinality(RecentRows(k))
      BY <2>2, Counts, FS_Subset, FS_CardinalityType
    <2>4. QED
      BY <1>1, <2>2, <2>3, Counts, ConstantsAssumption
         DEF RecordedFailuresAreBounded, RecentFailures
  <1>10. CASE UNCHANGED vars
    BY <1>1, <1>10, PassingKeepsBound DEF vars, InFlight
  <1>11. QED
    <2>1. ASSUME NEW r \in Req, Serve(r), ~Record(r)
          PROVE  RecentFailures(k)' + Cardinality(InFlight(k)')
                     <= MaxFailed - 1 + Cardinality(Req)
      <3>1. InFlight(k)' \subseteq InFlight(k) \/ RecentFailures(k) <= MaxFailed - 1
        BY <2>1, <1>4, <1>5, <1>6, <1>7 DEF Serve
      <3>2. UNCHANGED <<now, failures>>
        BY <2>1 DEF Serve, Ask, CountEmail, CountIp, CountFailures, LastEmail, LastIp,
                    LastFailure, Verify, Abort
      <3>3. QED
        BY <1>1, <3>1, <3>2, PassingKeepsBound
    <2>2. QED
      BY <1>8, <1>9, <1>10, <2>1 DEF Next

----------------------------------------------------------------------------
(* The theorems *)

LEMMA InitIInv == Init => IInv
  <1> SUFFICES ASSUME Init PROVE IInv
    OBVIOUS
  <1>1. TypeOK
    BY ConstantsAssumption DEF Init, TypeOK, Request, Pc, Time
  <1>2. RowsNumbered
    BY FS_EmptySet DEF Init, RowsNumbered
  <1>3. NoneAhead /\ HeldWereOverLimit /\ LockNeedsRecentFailure
    BY DEF Init, NoneAhead, HeldWereOverLimit, LockNeedsRecentFailure
  <1>4. RecordedFailuresAreBounded
    <2>1. ASSUME NEW k
          PROVE  RecentRows(k) = {} /\ InFlight(k) = {}
      BY DEF Init, RecentRows, RowsOf, InFlight
    <2>2. Cardinality(Req) \in Nat
      BY ConstantsAssumption, FS_CardinalityType
    <2>3. QED
      BY <2>1, <2>2, FS_EmptySet, ConstantsAssumption
         DEF RecordedFailuresAreBounded, RecentFailures
  <1>5. QED
    BY <1>1, <1>2, <1>3, <1>4 DEF IInv

LEMMA NextIInv == IInv /\ [Next]_vars => IInv'
  <1> SUFFICES ASSUME IInv, [Next]_vars PROVE IInv'
    OBVIOUS
  <1>1. IsFiniteSet(failures)
    BY DEF IInv, RowsNumbered
  <1>2. QED
    BY <1>1, TypeStep, RowsNumberedStep, NoneAheadStep, HeldStep, BoundStep DEF IInv

\* IInv holds in every reachable state.
THEOREM Invariance == Spec => []IInv
  BY InitIInv, NextIInv, PTL DEF Spec

\* Every variable keeps its type.
THEOREM TypeCorrect == Spec => []TypeOK
  <1>1. IInv => TypeOK
    BY DEF IInv
  <1>2. QED
    BY <1>1, Invariance, PTL

\* However many requests count before any of them records, no more failures of an identity
\* are recorded in a window than the limit plus the requests side by side, less one.
THEOREM FailuresBounded == Spec => []RecordedFailuresAreBounded
  <1>1. IInv => RecordedFailuresAreBounded
    BY DEF IInv
  <1>2. QED
    BY <1>1, Invariance, PTL

\* Whoever is locked out has failed within the window that was counted.
THEOREM LocksRecent == Spec => []LockNeedsRecentFailure
  <1>1. IInv => LockNeedsRecentFailure
    BY DEF IInv
  <1>2. QED
    BY <1>1, Invariance, PTL
=============================================================================
