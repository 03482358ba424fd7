---------------------------- MODULE BackendProofs ----------------------------
(***************************************************************************)
(* Proofs about the two pairs of back ends that are meant to do the same:  *)
(* the limiter of NetworkGuard in memory or in Redis, for every limit,     *)
(* window, set of requests and clock bound, and the two SQL dialects of    *)
(* Dialects, for every set of statements and values.                       *)
(***************************************************************************)
EXTENDS NetworkGuard, Dialects, FiniteSetTheorems, TLAPS

----------------------------------------------------------------------------
(* The limiter: the inductive invariant *)

\* What was let through because it was counted within the limit.
Counted == {h \in allowed : h.how = "counted"}

SameTick(h) == {g \in hits : g.at = h.at}

\* The hits of one tick are numbered from one on, and none is in the future; what was let
\* through is one of them or a failure of Redis.
ArrivalsNumbered ==
    /\ IsFiniteSet(hits) /\ IsFiniteSet(FailedOpen)
    /\ \A h \in hits :
          h.at <= now /\ h.nth <= Cardinality(SameTick(h)) /\ h.how = "counted"
    /\ Counted \subseteq hits

\* Memory: what the present window counts, what was let through from a moment on, and
\* when the counters were lost from that moment on.
CountedHits == {h \in hits : h.at >= mark}
From(b) == {h \in Counted : h.at >= b}
LostSince(b) == {t \in losses : t >= b}

\* What the present window let through, and the most that those before it can have let
\* through from b on: the last of them, and one for each loss.
Present == IF count <= Limit THEN count ELSE Limit
Before(b) ==
    IF count # 0 /\ mark < b THEN 0 ELSE (1 + Cardinality(LostSince(b))) * Limit

MemoryCounts ==
    backend = "memory" =>
        /\ FailedOpen = {}
        /\ mark <= now
        /\ count <= Cardinality(CountedHits)
        /\ \A b \in Nat : b + Window > now => Cardinality(From(b)) <= Before(b) + Present

\* Redis: the key expires a Window after the last arrival; while it lives, its counter is
\* no less than what was let through in the Window and no more than the streak.
RedisCounts ==
    backend = "redis" =>
        /\ \A h \in hits : h.at + Window <= mark
        /\ mark > now => \E h \in hits : h.at + Window = mark
        /\ mark > now => /\ Recently(Counted) <= count
                         /\ Recently(Counted) <= Limit
                         /\ count <= Streak

IInv ==
    /\ TypeOK
    /\ ArrivalsNumbered
    /\ MemoryCounts
    /\ RedisCounts

----------------------------------------------------------------------------
(* The operators *)

\* Every part of the history can be counted.
LEMMA PartsFinite ==
    ASSUME ArrivalsNumbered, TypeOK, NEW S \in SUBSET hits
    PROVE  IsFiniteSet(S) /\ Cardinality(S) \in Nat
  BY FS_Subset, FS_CardinalityType DEF ArrivalsNumbered

\* The next hit is a new one.
LEMMA HitIsNew ==
    ASSUME TypeOK, ArrivalsNumbered
    PROVE  /\ ThisHit \in Arrival
           /\ ThisHit \notin hits
           /\ ThisHit.at = now /\ ThisHit.how = "counted"
           /\ ThisHit.nth = Cardinality(ThisTick(hits)) + 1
  <1>1. ThisTick(hits) \in SUBSET hits
    BY DEF ThisTick
  <1>2. Cardinality(ThisTick(hits)) \in Nat
    BY <1>1, PartsFinite
  <1>3. /\ ThisHit \in Arrival
        /\ ThisHit.at = now /\ ThisHit.how = "counted"
        /\ ThisHit.nth = Cardinality(ThisTick(hits)) + 1
    BY <1>2 DEF ThisHit, Arriving, Arrival, TypeOK
  <1>4. ASSUME ThisHit \in hits
        PROVE  FALSE
    <2>1. SameTick(ThisHit) = ThisTick(hits)
      BY <1>3 DEF SameTick, ThisTick
    <2>2. ThisHit.nth <= Cardinality(ThisTick(hits))
      BY <1>4, <2>1 DEF ArrivalsNumbered
    <2>3. QED
      BY <1>2, <1>3, <2>2
  <1>5. QED
    BY <1>3, <1>4

\* A request let through by a failure is told apart from those that were counted.
LEMMA FailureIsApart ==
    ASSUME TypeOK, ArrivalsNumbered
    PROVE  /\ ThisFailure \in Arrival
           /\ ThisFailure.how = "failOpen"
  <1>1. ThisTick(FailedOpen) \subseteq FailedOpen
    BY DEF ThisTick
  <1>2. Cardinality(ThisTick(FailedOpen)) \in Nat
    BY <1>1, FS_Subset, FS_CardinalityType DEF ArrivalsNumbered
  <1>3. QED
    BY <1>2 DEF ThisFailure, Arriving, Arrival, TypeOK

\* Counting one new hit more.
LEMMA OneMore ==
    ASSUME TypeOK, ArrivalsNumbered, NEW S \in SUBSET hits
    PROVE  /\ IsFiniteSet(S \cup {ThisHit})
           /\ Cardinality(S \cup {ThisHit}) = Cardinality(S) + 1
  BY PartsFinite, HitIsNew, FS_AddElement

\* Of two histories, the larger one counts no less.
LEMMA Fewer ==
    ASSUME ArrivalsNumbered, TypeOK, NEW T \in SUBSET (hits \cup {ThisHit}),
           NEW S \in SUBSET T
    PROVE  /\ Cardinality(S) \in Nat /\ Cardinality(T) \in Nat
           /\ Cardinality(S) <= Cardinality(T)
  <1>1. IsFiniteSet(hits \cup {ThisHit})
    BY OneMore
  <1>2. IsFiniteSet(T)
    BY <1>1, FS_Subset
  <1>3. QED
    BY <1>2, FS_Subset, FS_CardinalityType

\* The moments of arrivals, of the window and of the clock are natural numbers.
LEMMA Moments ==
    ASSUME TypeOK, ArrivalsNumbered
    PROVE  /\ now \in Nat /\ mark \in Nat /\ count \in Nat
           /\ Window \in Nat \ {0} /\ Limit \in Nat \ {0}
           /\ \A h \in hits : h.at \in Nat /\ h.at <= now
           /\ Counted \subseteq hits
  BY ConstantsAssumption DEF TypeOK, Time, Arrival, ArrivalsNumbered

\* The losses can be counted, and one limit for each of them and for the last window.
LEMMA LossesCounted ==
    ASSUME TypeOK, ArrivalsNumbered, NEW S \in SUBSET losses
    PROVE  /\ IsFiniteSet(S) /\ Cardinality(S) \in Nat
           /\ (1 + Cardinality(S)) * Limit \in Nat
           /\ (1 + Cardinality(S)) * Limit >= Limit
           /\ (2 + Cardinality(S)) * Limit = (1 + Cardinality(S)) * Limit + Limit
  <1>1. IsFiniteSet(0 .. MaxTime)
    BY ConstantsAssumption, FS_Interval
  <1>2. S \subseteq 0 .. MaxTime
    BY DEF TypeOK, Time
  <1>3. IsFiniteSet(S) /\ Cardinality(S) \in Nat
    BY <1>1, <1>2, FS_Subset, FS_CardinalityType
  <1>4. ASSUME NEW k \in Nat, NEW l \in Nat
        PROVE  /\ (1 + k) * l \in Nat
               /\ (1 + k) * l >= l
               /\ (2 + k) * l = (1 + k) * l + l
    <2>1. k * l \in Nat
      BY <1>4
    <2>2. (1 + k) * l = k * l + l /\ (2 + k) * l = k * l + l + l
      BY <1>4
    <2>3. QED
      BY <2>1, <2>2
  <1>5. QED
    BY <1>3, <1>4, Moments

----------------------------------------------------------------------------
(* The steps *)

\* What becomes of the hits when one more is counted.
Arrives == hits' = hits \cup {ThisHit} /\ now' = now /\ backend' = backend

\* A step that lets nothing through but, with Redis, what a failure lets through.
LetsNoneThrough == allowed' = allowed \/ allowed' = allowed \cup {ThisFailure}

LEMMA CountedAfter ==
    ASSUME TypeOK, ArrivalsNumbered
    PROVE  /\ LetsNoneThrough => Counted' = Counted
           /\ allowed' = allowed \cup {ThisHit} =>
                 Counted' = Counted \cup {ThisHit} /\ FailedOpen' = FailedOpen
           /\ allowed' = allowed => FailedOpen' = FailedOpen
           /\ allowed' = allowed \cup {ThisFailure} =>
                 FailedOpen' = FailedOpen \cup {ThisFailure}
  <1>1. ThisHit.how = "counted" /\ ThisFailure.how = "failOpen"
    BY HitIsNew, FailureIsApart
  <1>2. QED
    BY <1>1 DEF LetsNoneThrough, Counted, FailedOpen

LEMMA TypeStep ==
    ASSUME TypeOK, ArrivalsNumbered, [Next]_vars
    PROVE  TypeOK'
  <1> USE Moments, HitIsNew, FailureIsApart, ConstantsAssumption
      DEF TypeOK, limiter, history
  <1>1. ASSUME NEW r \in Req, CheckAddress(r)
        PROVE  TypeOK'
    BY <1>1 DEF CheckAddress, Pc
  <1>2. ASSUME HitMemory \/ HitRedis
        PROVE  count' \in Nat /\ mark' \in Nat
    BY <1>2 DEF HitMemory, HitRedis, WindowStart
  <1>3. ASSUME NEW r \in Req, Hit(r)
        PROVE  TypeOK'
    BY <1>2, <1>3 DEF Hit, Pc
  <1>4. ASSUME NEW r \in Req, FailOpen(r)
        PROVE  TypeOK'
    BY <1>2, <1>4 DEF FailOpen, Pc
  <1>5. ASSUME NEW m \in Mode, SetMode(m)
        PROVE  TypeOK'
    BY <1>5 DEF SetMode
  <1>6. CASE Restart
    BY <1>6 DEF Restart, Pc
  <1>7. CASE Tick
    BY <1>7 DEF Tick, Time
  <1>8. CASE UNCHANGED vars
    BY <1>8 DEF vars
  <1>9. QED
    BY <1>1, <1>3, <1>4, <1>5, <1>6, <1>7, <1>8 DEF Next

\* The hits keep their numbers when one more arrives.
LEMMA NumbersKept ==
    ASSUME TypeOK, ArrivalsNumbered, Arrives
    PROVE  /\ IsFiniteSet(hits')
           /\ \A h \in hits' : h.at <= now' /\ h.nth <= Cardinality(SameTick(h)')
                               /\ h.how = "counted"
  <1>1. IsFiniteSet(hits')
    BY OneMore DEF Arrives
  <1>2. ASSUME NEW h \in hits'
        PROVE  h.at <= now' /\ h.nth <= Cardinality(SameTick(h)') /\ h.how = "counted"
    <2>1. CASE h \in hits
      <3>1. SameTick(h) \subseteq SameTick(h)' /\ SameTick(h)' \subseteq hits \cup {ThisHit}
        BY DEF Arrives, SameTick
      <3>2. /\ Cardinality(SameTick(h)) <= Cardinality(SameTick(h)')
            /\ Cardinality(SameTick(h)) \in Nat /\ Cardinality(SameTick(h)') \in Nat
        BY <3>1, Fewer
      <3>3. /\ h.nth <= Cardinality(SameTick(h)) /\ h.nth \in Nat
            /\ h.at <= now /\ h.how = "counted"
        BY <2>1 DEF ArrivalsNumbered, TypeOK, Arrival
      <3>4. QED
        BY <3>2, <3>3 DEF Arrives
    <2>2. CASE h = ThisHit
      <3>1. SameTick(h)' = ThisTick(hits) \cup {ThisHit}
        BY <2>2, HitIsNew DEF Arrives, SameTick, ThisTick
      <3>2. ThisTick(hits) \in SUBSET hits
        BY DEF ThisTick
      <3>3. Cardinality(SameTick(h)') = Cardinality(ThisTick(hits)) + 1
        BY <3>1, <3>2, OneMore
      <3>4. /\ h.at = now /\ h.nth = Cardinality(ThisTick(hits)) + 1
            /\ h.how = "counted"
        BY <2>2, HitIsNew
      <3>5. QED
        BY <3>2, <3>3, <3>4, PartsFinite, Moments DEF Arrives
    <2>3. QED
      BY <2>1, <2>2 DEF Arrives
  <1>3. QED
    BY <1>1, <1>2

LEMMA ArrivalsNumberedStep ==
    ASSUME TypeOK, ArrivalsNumbered, [Next]_vars
    PROVE  ArrivalsNumbered'
  <1>1. CASE hits' = hits /\ allowed' = allowed /\ now' \in {now, now + 1}
    BY <1>1, Moments DEF ArrivalsNumbered, SameTick, Counted, FailedOpen
  <1>2. CASE /\ Arrives \/ (hits' = hits /\ now' = now)
             /\ LetsNoneThrough \/ (Arrives /\ allowed' = allowed \cup {ThisHit})
    <2>1. /\ IsFiniteSet(hits')
          /\ \A h \in hits' : h.at <= now' /\ h.nth <= Cardinality(SameTick(h)')
                              /\ h.how = "counted"
      BY <1>2, NumbersKept DEF ArrivalsNumbered, SameTick
    <2>2. FailedOpen' = FailedOpen \/ FailedOpen' = FailedOpen \cup {ThisFailure}
      BY <1>2, CountedAfter DEF LetsNoneThrough
    <2>3. IsFiniteSet(FailedOpen')
      BY <2>2, FS_AddElement DEF ArrivalsNumbered
    <2>4. Counted' \subseteq hits'
      BY <1>2, CountedAfter DEF ArrivalsNumbered, Arrives
    <2>5. QED
      BY <2>1, <2>3, <2>4 DEF ArrivalsNumbered
  <1>3. \/ hits' = hits /\ allowed' = allowed /\ now' \in {now, now + 1}
        \/ /\ Arrives \/ (hits' = hits /\ now' = now)
           /\ LetsNoneThrough \/ (Arrives /\ allowed' = allowed \cup {ThisHit})
    BY DEF Next, CheckAddress, Hit, FailOpen, SetMode, Restart, Tick, vars, history,
           Arrives, LetsNoneThrough
  <1>4. QED
    BY <1>1, <1>2, <1>3

\* A limiter whose counters, history and clock stay as they are.
LimiterKept == UNCHANGED <<backend, now, limiter, history>>

LEMMA KeptStep ==
    ASSUME MemoryCounts, RedisCounts, LimiterKept
    PROVE  MemoryCounts' /\ RedisCounts'
  BY DEF LimiterKept, limiter, history, MemoryCounts, RedisCounts, CountedHits, Present,
         Before, From, LostSince, Counted, FailedOpen, Recently, Recent, Streak,
         Unforgotten

\* What can be said of a moment no more than a Window ago.
LEMMA MemoryFacts ==
    ASSUME TypeOK, ArrivalsNumbered, NEW b \in Nat
    PROVE  /\ From(b) \in SUBSET hits
           /\ Cardinality(From(b)) \in Nat
           /\ b > now => Cardinality(From(b)) = 0
           /\ Before(b) \in Nat
           /\ Present \in Nat /\ Present <= Limit /\ Present <= count
           /\ LostSince(b) \in SUBSET losses
  <1> USE Moments
  <1>1. From(b) \in SUBSET hits /\ LostSince(b) \in SUBSET losses
    BY DEF From, LostSince
  <1>2. b > now => From(b) = {}
    BY DEF From
  <1>3. b > now => Cardinality(From(b)) = 0
    BY <1>2, FS_EmptySet
  <1>4. Cardinality(From(b)) \in Nat
    BY <1>1, PartsFinite
  <1>5. (1 + Cardinality(LostSince(b))) * Limit \in Nat
    BY <1>1, LossesCounted
  <1>6. QED
    BY <1>1, <1>3, <1>4, <1>5 DEF Before, Present

\* An arrival at the limiter in memory, counted and let through up to the limit.
LEMMA MemoryHitStep ==
    ASSUME TypeOK, ArrivalsNumbered, MemoryCounts, HitMemory, Arrives, losses' = losses,
           allowed' = IF UnderLimit(count') THEN allowed \cup {ThisHit} ELSE allowed
    PROVE  MemoryCounts'
  <1> USE Moments
  <1>1. backend = "memory" /\ backend' = "memory" /\ now' = now
    BY DEF HitMemory, Arrives
  <1>2. FailedOpen = {} /\ mark <= now /\ count <= Cardinality(CountedHits)
    BY <1>1 DEF MemoryCounts
  <1>3. FailedOpen' = {}
    BY <1>2, CountedAfter
  <1>4. CountedHits \in SUBSET hits /\ Cardinality(CountedHits) \in Nat
    BY PartsFinite DEF CountedHits
  <1>5. Counted' = IF UnderLimit(count') THEN Counted \cup {ThisHit} ELSE Counted
    BY CountedAfter DEF LetsNoneThrough
  <1>6. ThisHit.at = now
    BY HitIsNew
  <1>7. mark' <= now' /\ count' <= Cardinality(CountedHits')
    <2>1. CASE ~WindowOver
      <3>1. count' = count + 1 /\ mark' = mark
        BY <2>1 DEF HitMemory
      <3>2. CountedHits' = CountedHits \cup {ThisHit}
        BY <1>2, <1>6, <3>1 DEF CountedHits, Arrives
      <3>3. Cardinality(CountedHits') = Cardinality(CountedHits) + 1
        BY <1>4, <3>2, OneMore
      <3>4. QED
        BY <1>1, <1>2, <1>4, <3>1, <3>3
    <2>2. CASE WindowOver
      <3>1. count' = 1 /\ mark' = now
        BY <2>2 DEF HitMemory, WindowStart
      <3>2. {ThisHit} \subseteq CountedHits' /\ CountedHits' \subseteq hits \cup {ThisHit}
        BY <1>6, <3>1 DEF CountedHits, Arrives
      <3>3. Cardinality({ThisHit}) <= Cardinality(CountedHits')
        BY <3>2, Fewer
      <3>4. Cardinality({ThisHit}) = 1
        BY FS_Singleton
      <3>5. QED
        BY <1>1, <3>1, <3>3, <3>4
    <2>3. QED
      BY <2>1, <2>2
  <1>8. ASSUME NEW b \in Nat, b + Window > now
        PROVE  Cardinality(From(b))' <= Before(b)' + Present'
    <2>1. Cardinality(From(b)) <= Before(b) + Present
      BY <1>1, <1>8 DEF MemoryCounts
    <2>2. LostSince(b)' = LostSince(b)
      BY DEF LostSince
    <2>3. /\ (1 + Cardinality(LostSince(b))) * Limit \in Nat
          /\ (1 + Cardinality(LostSince(b))) * Limit >= Limit
      BY MemoryFacts, LossesCounted
    <2>4. CASE b > now
      <3>1. From(b)' = {}
        BY <1>5, <1>6, <2>4 DEF From
      <3>2. Cardinality(From(b))' = 0
        BY <3>1, FS_EmptySet
      <3>3. Before(b)' \in Nat
        BY <2>2, <2>3 DEF Before
      <3>4. count' \in Nat
        BY DEF HitMemory
      <3>5. Present' \in Nat
        BY <3>4 DEF Present
      <3>6. QED
        BY <3>2, <3>3, <3>5
    <2>5. CASE ~(b > now) /\ ~WindowOver
      <3>1. count' = count + 1 /\ mark' = mark /\ count # 0
        BY <2>5 DEF HitMemory, WindowOver
      <3>2. Before(b)' = Before(b)
        BY <2>2, <3>1 DEF Before
      <3>3. CASE UnderLimit(count')
        <4>1. Present' = Present + 1
          BY <3>1, <3>3 DEF Present, UnderLimit
        <4>2. From(b)' = From(b) \cup {ThisHit}
          BY <1>5, <1>6, <2>5, <3>3 DEF From
        <4>3. Cardinality(From(b))' = Cardinality(From(b)) + 1
          BY <4>2, MemoryFacts, OneMore
        <4>4. QED
          BY <2>1, <3>2, <4>1, <4>3, MemoryFacts
      <3>4. CASE ~UnderLimit(count')
        <4>1. Present' = Present
          BY <3>1, <3>4 DEF Present, UnderLimit
        <4>2. From(b)' = From(b)
          BY <1>5, <3>4 DEF From
        <4>3. QED
          BY <2>1, <3>2, <4>1, <4>2
      <3>5. QED
        BY <3>3, <3>4
    <2>6. CASE ~(b > now) /\ WindowOver
      <3>1. count' = 1 /\ mark' = now /\ UnderLimit(count')
        BY <2>6 DEF HitMemory, WindowStart, UnderLimit
      <3>2. Present' = 1
        BY <3>1 DEF Present, UnderLimit
      <3>3. Before(b)' = (1 + Cardinality(LostSince(b))) * Limit
        BY <2>2, <2>6, <3>1 DEF Before
      <3>4. From(b)' = From(b) \cup {ThisHit}
        BY <1>5, <1>6, <2>6, <3>1 DEF From
      <3>5. Cardinality(From(b))' = Cardinality(From(b)) + 1
        BY <3>4, MemoryFacts, OneMore
      <3>6. Cardinality(From(b)) <= (1 + Cardinality(LostSince(b))) * Limit
        <4>1. CASE count = 0
          <5>1. Before(b) = (1 + Cardinality(LostSince(b))) * Limit /\ Present = 0
            BY <4>1 DEF Before, Present
          <5>2. QED
            BY <2>1, <2>3, <5>1
        <4>2. CASE count # 0
          <5>1. mark < b
            BY <1>8, <2>6, <4>2 DEF WindowOver
          <5>2. Before(b) = 0 /\ Present <= Limit
            BY <4>2, <5>1 DEF Before, Present
          <5>3. QED
            BY <2>1, <2>3, <5>2, MemoryFacts
        <4>3. QED
          BY <4>1, <4>2
      <3>7. QED
        BY <2>3, <3>2, <3>3, <3>5, <3>6, MemoryFacts
    <2>7. QED
      BY <2>4, <2>5, <2>6
  <1>9. QED
    BY <1>1, <1>3, <1>7, <1>8 DEF MemoryCounts

\* An arrival at Redis; it may be counted without being let through as under the limit.
LEMMA RedisHitStep ==
    ASSUME TypeOK, ArrivalsNumbered, RedisCounts, HitRedis, Arrives,
           \/ UnderLimit(count') /\ allowed' = allowed \cup {ThisHit}
           \/ LetsNoneThrough
    PROVE  RedisCounts'
  <1> USE Moments
  <1>1. backend = "redis" /\ backend' = "redis" /\ now' = now /\ mark' = now + Window
    BY DEF HitRedis, Arrives
  <1>2. \/ UnderLimit(count') /\ Counted' = Counted \cup {ThisHit}
        \/ Counted' = Counted
    BY CountedAfter
  <1>3. ThisHit.at = now /\ ThisHit \notin hits
    BY HitIsNew
  <1>4. /\ \A h \in hits' : h.at + Window <= mark'
        /\ \E h \in hits' : h.at + Window = mark'
    BY <1>1, <1>3 DEF Arrives
  <1>5. Recent(Counted) \in SUBSET hits /\ Unforgotten \in SUBSET hits
    BY DEF Recent, Unforgotten
  <1>6. Recently(Counted) \in Nat /\ Streak \in Nat
    BY <1>5, PartsFinite DEF Recently, Streak
  <1>7. /\ Unforgotten \cup {ThisHit} \subseteq Unforgotten'
        /\ Unforgotten' \subseteq hits \cup {ThisHit}
    BY <1>1, <1>3 DEF Unforgotten, Arrives
  <1>8. Streak' >= Streak + 1
    <2>1. Cardinality(Unforgotten \cup {ThisHit}) = Streak + 1
      BY <1>5, OneMore DEF Streak
    <2>2. Cardinality(Unforgotten \cup {ThisHit}) <= Cardinality(Unforgotten')
      BY <1>7, Fewer
    <2>3. QED
      BY <2>1, <2>2 DEF Streak
  <1>9. Streak' \in Nat
    BY <1>7, Fewer DEF Streak
  <1>10. \/ UnderLimit(count') /\ Recently(Counted)' = Recently(Counted) + 1
         \/ Recently(Counted)' = Recently(Counted)
    <2>1. CASE UnderLimit(count') /\ Counted' = Counted \cup {ThisHit}
      <3>1. Recent(Counted)' = Recent(Counted) \cup {ThisHit}
        BY <1>1, <1>3, <2>1 DEF Recent
      <3>2. QED
        BY <1>5, <2>1, <3>1, OneMore DEF Recently
    <2>2. CASE Counted' = Counted
      BY <1>1, <2>2 DEF Recently, Recent
    <2>3. QED
      BY <1>2, <2>1, <2>2
  <1>11. CASE ~KeyGone
    <2>1. count' = count + 1 /\ mark > now
      BY <1>11 DEF HitRedis, KeyGone
    <2>2. Recently(Counted) <= count /\ Recently(Counted) <= Limit /\ count <= Streak
      BY <1>1, <2>1 DEF RedisCounts
    <2>3. Recently(Counted)' <= count' /\ Recently(Counted)' <= Limit /\ count' <= Streak'
      BY <1>6, <1>8, <1>9, <1>10, <2>1, <2>2 DEF UnderLimit
    <2>4. QED
      BY <1>4, <2>3 DEF RedisCounts
  <1>12. CASE KeyGone
    <2>1. count' = 1
      BY <1>12 DEF HitRedis
    <2>2. ASSUME now >= mark
          PROVE  Recently(Counted) = 0
      <3>1. Recent(Counted) = {}
        BY <1>1, <2>2 DEF Recent, RedisCounts
      <3>2. QED
        BY <3>1, FS_EmptySet DEF Recently
    <2>3. Recently(Counted) = 0
      BY <1>1, <1>6, <1>12, <2>2 DEF KeyGone, RedisCounts
    <2>4. Recently(Counted)' <= count' /\ Recently(Counted)' <= Limit /\ count' <= Streak'
      BY <1>6, <1>8, <1>9, <1>10, <2>1, <2>3
    <2>5. QED
      BY <1>4, <2>4 DEF RedisCounts
  <1>13. QED
    BY <1>11, <1>12

\* As time passes, nothing enters the Window that ends now, and the key expires in time.
LEMMA TickStep ==
    ASSUME TypeOK, ArrivalsNumbered, MemoryCounts, RedisCounts, Tick
    PROVE  MemoryCounts' /\ RedisCounts'
  <1> USE Moments
  <1>1. /\ now' = now + 1
        /\ UNCHANGED <<backend, count, mark, hits, allowed, losses>>
    BY DEF Tick, limiter, history
  <1>2. Counted' = Counted /\ FailedOpen' = FailedOpen
    BY <1>1 DEF Counted, FailedOpen
  <1>3. MemoryCounts'
    <2>1. CountedHits' = CountedHits /\ Present' = Present
      BY <1>1 DEF CountedHits, Present
    <2>2. ASSUME NEW b \in Nat, b + Window > now + 1
          PROVE  Cardinality(From(b))' = Cardinality(From(b)) /\ Before(b)' = Before(b)
      BY <1>1, <1>2 DEF From, Before, LostSince
    <2>3. \A b \in Nat : b + Window > now + 1 => b + Window > now
      OBVIOUS
    <2>4. QED
      BY <1>1, <1>2, <2>1, <2>2, <2>3 DEF MemoryCounts
  <1>4. ASSUME backend = "redis", mark > now + 1
        PROVE  /\ Recently(Counted)' <= count
               /\ Recently(Counted)' <= Limit
               /\ count <= Streak'
    <2>1. Recently(Counted) <= count /\ Recently(Counted) <= Limit /\ count <= Streak
      BY <1>4 DEF RedisCounts
    <2>2. Recent(Counted)' \subseteq Recent(Counted) /\ Recent(Counted) \subseteq hits
      BY <1>1, <1>2 DEF Recent
    <2>3. Recently(Counted)' <= Recently(Counted) /\ Recently(Counted)' \in Nat
          /\ Recently(Counted) \in Nat
      BY <2>2, Fewer DEF Recently
    <2>4. PICK g \in hits : g.at + Window = mark
      BY <1>4 DEF RedisCounts
    <2>5. g.at < now + 1 /\ now + 1 < g.at + Window
      BY <1>4, <2>4
    <2>6. ASSUME NEW h \in Unforgotten, NEW t \in (h.at + 1)..(now + 1)
          PROVE  \E f \in hits : f.at < t /\ t < f.at + Window
      <3>1. CASE t = now + 1
        BY <2>5, <3>1
      <3>2. CASE t # now + 1
        <4>1. h \in hits /\ t \in (h.at + 1)..now
          BY <2>6, <3>2 DEF Unforgotten
        <4>2. QED
          BY <4>1 DEF Unforgotten
      <3>3. QED
        BY <3>1, <3>2
    <2>7. Unforgotten \subseteq Unforgotten' /\ Unforgotten' \subseteq hits
      BY <1>1, <2>6 DEF Unforgotten
    <2>8. Streak <= Streak' /\ Streak \in Nat /\ Streak' \in Nat
      BY <2>7, Fewer DEF Streak
    <2>9. QED
      BY <2>1, <2>3, <2>8
  <1>5. RedisCounts'
    BY <1>1, <1>4 DEF RedisCounts
  <1>6. QED
    BY <1>3, <1>5

\* A restart loses the counters in memory, for which the next window starts anew, and
\* nothing of Redis.
LEMMA RestartStep ==
    ASSUME TypeOK, ArrivalsNumbered, MemoryCounts, RedisCounts, Restart
    PROVE  MemoryCounts' /\ RedisCounts'
  <1> USE Moments
  <1>1. CASE backend = "memory"
    <2>1. /\ backend' = "memory" /\ now' = now /\ count' = 0 /\ mark' = 0
          /\ hits' = hits /\ allowed' = allowed
          /\ losses' = losses \cup {now} /\ now \notin losses
      BY <1>1 DEF Restart
    <2>2. CountedHits' \in SUBSET hits /\ Counted' = Counted /\ FailedOpen' = FailedOpen
      BY <2>1 DEF CountedHits, Counted, FailedOpen
    <2>3. Cardinality(CountedHits') \in Nat
      BY <2>2, PartsFinite
    <2>4. Present' = 0
      BY <2>1 DEF Present
    <2>5. ASSUME NEW b \in Nat, b + Window > now
          PROVE  Cardinality(From(b))' <= Before(b)'
      <3>1. Cardinality(From(b)) <= Before(b) + Present
        BY <1>1, <2>5 DEF MemoryCounts
      <3>2. From(b)' = From(b)
        BY <2>2 DEF From
      <3>3. /\ LostSince(b) \in SUBSET losses
            /\ IsFiniteSet(LostSince(b)) /\ Cardinality(LostSince(b)) \in Nat
            /\ (1 + Cardinality(LostSince(b))) * Limit \in Nat
            /\ (2 + Cardinality(LostSince(b))) * Limit
                  = (1 + Cardinality(LostSince(b))) * Limit + Limit
        BY MemoryFacts, LossesCounted
      <3>4. Before(b)' = (1 + Cardinality(LostSince(b)')) * Limit
        BY <2>1 DEF Before
      <3>5. CASE b > now
        <4>1. LostSince(b)' = LostSince(b)
          BY <2>1, <3>5 DEF LostSince
        <4>2. QED
          BY <3>2, <3>3, <3>4, <3>5, <4>1, MemoryFacts
      <3>6. CASE ~(b > now)
        <4>1. LostSince(b)' = LostSince(b) \cup {now} /\ now \notin LostSince(b)
          BY <2>1, <3>6 DEF LostSince
        <4>2. Cardinality(LostSince(b)') = Cardinality(LostSince(b)) + 1
          BY <3>3, <4>1, FS_AddElement
        <4>3. 1 + Cardinality(LostSince(b)') = 2 + Cardinality(LostSince(b))
          BY <3>3, <4>2
        <4>4. Before(b)' = (1 + Cardinality(LostSince(b))) * Limit + Limit
          BY <3>3, <3>4, <4>3
        <4>5. Before(b) <= (1 + Cardinality(LostSince(b))) * Limit
          BY <3>3 DEF Before
        <4>6. QED
          BY <3>1, <3>2, <3>3, <4>4, <4>5, MemoryFacts
      <3>7. QED
        BY <3>5, <3>6
    <2>6. ASSUME NEW b \in Nat, b + Window > now
          PROVE  Cardinality(From(b))' <= Before(b)' + Present'
      <3>1. LostSince(b)' \subseteq losses \cup {now}
        BY <2>1 DEF LostSince
      <3>2. IsFiniteSet(losses \cup {now})
        BY LossesCounted, FS_AddElement
      <3>3. Cardinality(LostSince(b)') \in Nat
        BY <3>1, <3>2, FS_Subset, FS_CardinalityType
      <3>4. Before(b)' = (1 + Cardinality(LostSince(b)')) * Limit
        BY <2>1 DEF Before
      <3>5. Before(b)' + 0 = Before(b)'
        BY <3>3, <3>4
      <3>6. QED
        BY <2>4, <2>5, <2>6, <3>5
    <2>7. QED
      BY <1>1, <2>1, <2>2, <2>3, <2>6 DEF MemoryCounts, RedisCounts
  <1>2. CASE backend # "memory"
    <2>1. UNCHANGED <<backend, now, count, mark, hits, allowed, losses>>
      BY <1>2 DEF Restart, limiter
    <2>2. QED
      BY <2>1, KeptStep DEF LimiterKept, limiter, history
  <1>3. QED
    BY <1>1, <1>2

LEMMA NextIInv == IInv /\ [Next]_vars => IInv'
  <1> SUFFICES ASSUME IInv, [Next]_vars PROVE IInv'
    OBVIOUS
  <1> USE DEF IInv
  <1>1. TypeOK' /\ ArrivalsNumbered'
    BY TypeStep, ArrivalsNumberedStep
  <1>2. ASSUME NEW r \in Req, Hit(r)
        PROVE  MemoryCounts' /\ RedisCounts'
    <2>1. Arrives /\ losses' = losses
      BY <1>2 DEF Hit, Arrives
    <2>2. CASE HitMemory
      <3>1. MemoryCounts'
        BY <1>2, <2>1, <2>2, MemoryHitStep DEF Hit
      <3>2. QED
        BY <2>1, <2>2, <3>1 DEF HitMemory, Arrives, RedisCounts
    <2>3. CASE HitRedis
      <3>1. \/ UnderLimit(count') /\ allowed' = allowed \cup {ThisHit}
            \/ LetsNoneThrough
        BY <1>2 DEF Hit, LetsNoneThrough
      <3>2. RedisCounts'
        BY <2>1, <2>3, <3>1, RedisHitStep
      <3>3. QED
        BY <2>1, <2>3, <3>2 DEF HitRedis, Arrives, MemoryCounts
    <2>4. QED
      BY <1>2, <2>2, <2>3 DEF Hit
  <1>3. ASSUME NEW r \in Req, FailOpen(r)
        PROVE  MemoryCounts' /\ RedisCounts'
    <2>1. /\ backend = "redis" /\ backend' = "redis" /\ now' = now
          /\ allowed' = allowed \cup {ThisFailure}
      BY <1>3 DEF FailOpen
    <2>2. LetsNoneThrough /\ Counted' = Counted
      BY <2>1, CountedAfter DEF LetsNoneThrough
    <2>3. CASE UNCHANGED <<limiter, hits>>
      BY <2>1, <2>2, <2>3 DEF limiter, MemoryCounts, RedisCounts, Recently, Recent, Streak,
         Unforgotten
    <2>4. CASE HitRedis /\ hits' = hits \cup {ThisHit}
      <3>1. RedisCounts'
        BY <2>1, <2>2, <2>4, RedisHitStep DEF Arrives
      <3>2. QED
        BY <2>1, <3>1 DEF MemoryCounts
    <2>5. QED
      BY <1>3, <2>3, <2>4 DEF FailOpen
  <1>4. ASSUME NEW r \in Req, CheckAddress(r)
        PROVE  MemoryCounts' /\ RedisCounts'
    BY <1>4, KeptStep DEF CheckAddress, LimiterKept, limiter, history
  <1>5. ASSUME NEW m \in Mode, SetMode(m)
        PROVE  MemoryCounts' /\ RedisCounts'
    BY <1>5, KeptStep DEF SetMode, LimiterKept, limiter, history
  <1>6. CASE Restart
    BY <1>1, <1>6, RestartStep
  <1>7. CASE Tick
    BY <1>1, <1>7, TickStep
  <1>8. CASE UNCHANGED vars
    BY <1>1, <1>8, KeptStep DEF vars, LimiterKept, limiter, history
  <1>9. QED
    BY <1>1, <1>2, <1>3, <1>4, <1>5, <1>6, <1>7, <1>8 DEF Next

LEMMA InitIInv == Init => IInv
  <1> SUFFICES ASSUME Init PROVE IInv
    OBVIOUS
  <1>1. TypeOK
    BY ConstantsAssumption DEF Init, TypeOK, Time, Mode, Pc
  <1>2. FailedOpen = {} /\ Counted = {} /\ CountedHits = {}
    BY DEF Init, FailedOpen, Counted, CountedHits
  <1>3. ArrivalsNumbered
    BY <1>2, FS_EmptySet DEF Init, ArrivalsNumbered
  <1>4. MemoryCounts
    <2>1. ASSUME NEW b \in Nat
          PROVE  Cardinality(From(b)) <= Before(b) + Present
      <3>1. From(b) = {}
        BY <1>2 DEF From
      <3>2. QED
        BY <1>1, <1>3, <3>1, FS_EmptySet, MemoryFacts
    <2>2. QED
      BY <1>2, <2>1, FS_EmptySet DEF Init, MemoryCounts
  <1>5. RedisCounts
    BY DEF Init, RedisCounts
  <1>6. QED
    BY <1>1, <1>3, <1>4, <1>5 DEF IInv

----------------------------------------------------------------------------
(* The limiter: the theorems *)

\* IInv holds in every reachable state.
THEOREM Invariance == Spec => []IInv
  BY InitIInv, NextIInv, PTL DEF Spec

\* Every variable keeps its type.
THEOREM TypeCorrect == Spec => []TypeOK
  <1>1. IInv => TypeOK
    BY DEF IInv
  <1>2. QED
    BY <1>1, Invariance, PTL

\* Of all that is let through, a Window holds twice the limit at most in memory, and once
\* more for each restart in it; with Redis the limit, and what its failures let through.
THEOREM BurstBounded == Spec => []BurstIsBounded
  <1>1. ASSUME IInv
        PROVE  BurstIsBounded
    <2> USE <1>1, Moments DEF IInv
    <2>1. CASE backend = "memory"
      <3>1. DEFINE b == IF now + 1 >= Window THEN now + 1 - Window ELSE 0
                   lost == {t \in losses : t + Window > now}
      <3>2. b \in Nat /\ b + Window > now
        OBVIOUS
      <3>3. \A t \in Nat : t >= b <=> t + Window > now
        OBVIOUS
      <3>4. Recent(allowed) = From(b)
        BY <2>1, <3>3 DEF Recent, From, Counted, FailedOpen, MemoryCounts, TypeOK, Arrival,
           Time
      <3>5. lost = LostSince(b)
        <4>1. \A t \in losses : t \in Nat
          BY ConstantsAssumption DEF TypeOK, Time
        <4> HIDE DEF b
        <4>2. QED
          BY <3>3, <4>1 DEF LostSince
      <3> HIDE DEF b, lost
      <3>6. Cardinality(From(b)) <= Before(b) + Present
        BY <2>1, <3>2 DEF MemoryCounts
      <3>7. /\ Cardinality(From(b)) \in Nat /\ Before(b) \in Nat
            /\ Present \in Nat /\ Present <= Limit
            /\ LostSince(b) \in SUBSET losses
        BY <3>2, MemoryFacts
      <3>8. /\ (1 + Cardinality(lost)) * Limit \in Nat
            /\ (2 + Cardinality(lost)) * Limit = (1 + Cardinality(lost)) * Limit + Limit
        BY <3>5, <3>7, LossesCounted
      <3>9. Before(b) <= (1 + Cardinality(lost)) * Limit
        BY <3>5, <3>8 DEF Before
      <3>10. Recently(allowed) <= (2 + Cardinality(lost)) * Limit
        BY <3>4, <3>6, <3>7, <3>8, <3>9 DEF Recently
      <3>11. QED
        BY <2>1, <3>10 DEF BurstIsBounded, lost
    <2>2. CASE backend = "redis"
      <3>1. Recent(Counted) \in SUBSET hits
        BY DEF Recent
      <3>2. IsFiniteSet(Recent(Counted)) /\ Recently(Counted) \in Nat
        BY <3>1, PartsFinite DEF Recently
      <3>3. Recent(FailedOpen) \subseteq FailedOpen
        BY DEF Recent
      <3>4. IsFiniteSet(Recent(FailedOpen)) /\ Recently(FailedOpen) \in Nat
        BY <3>3, FS_Subset, FS_CardinalityType DEF Recently, ArrivalsNumbered
      <3>5. /\ Recent(allowed) = Recent(Counted) \cup Recent(FailedOpen)
            /\ Recent(Counted) \cap Recent(FailedOpen) = {}
        BY DEF Recent, Counted, FailedOpen, TypeOK, Arrival
      <3>6. Recently(allowed) = Recently(Counted) + Recently(FailedOpen)
        BY <3>2, <3>4, <3>5, FS_Union, FS_EmptySet DEF Recently
      <3>7. Recently(Counted) <= Limit
        <4>1. CASE mark > now
          BY <2>2, <4>1 DEF RedisCounts
        <4>2. CASE ~ (mark > now)
          <5>1. Recent(Counted) = {}
            BY <2>2, <4>2 DEF Recent, RedisCounts
          <5>2. QED
            BY <5>1, FS_EmptySet DEF Recently
        <4>3. QED
          BY <4>1, <4>2
      <3>8. QED
        BY <2>2, <3>2, <3>4, <3>6, <3>7 DEF BurstIsBounded
    <2>3. QED
      BY <2>1, <2>2, ConstantsAssumption DEF TypeOK
  <1>2. QED
    BY <1>1, Invariance, PTL

\* Nobody is refused before the limit was reached: in memory within the last Window, in
\* Redis since the last Window without a request.
THEOREM RefusedOverLimit == Spec => RefusedOnlyOverLimit
  <1>1. DEFINE Reached == Limit <= IF backend = "memory" THEN Recently(hits) ELSE Streak
  <1>2. ASSUME IInv, [Next]_vars, NEW r \in Req, req[r] = "limit", req'[r] = "limited"
        PROVE  Reached
    <2> USE <1>2, Moments DEF IInv
    <2>1. Hit(r)
      BY DEF Next, CheckAddress, Hit, FailOpen, SetMode, Restart, Tick, vars, TypeOK
    <2>2. ~UnderLimit(count')
      BY <2>1 DEF Hit, TypeOK
    <2>3. CASE HitMemory
      <3>1. backend = "memory" /\ ~WindowOver /\ count >= Limit
        BY <2>2, <2>3 DEF HitMemory, UnderLimit
      <3>2. now < mark + Window /\ count <= Cardinality(CountedHits)
        BY <3>1 DEF WindowOver, MemoryCounts
      <3>3. CountedHits \subseteq Recent(hits) /\ Recent(hits) \subseteq hits
        BY <3>2 DEF CountedHits, Recent
      <3>4. /\ Cardinality(CountedHits) <= Recently(hits)
            /\ Cardinality(CountedHits) \in Nat /\ Recently(hits) \in Nat
        BY <3>3, Fewer DEF Recently
      <3>5. QED
        BY <3>1, <3>2, <3>4
    <2>4. CASE HitRedis
      <3>1. backend = "redis" /\ mark > now /\ count >= Limit
        BY <2>2, <2>4 DEF HitRedis, UnderLimit, KeyGone
      <3>2. count <= Streak
        BY <3>1 DEF RedisCounts
      <3>3. Unforgotten \in SUBSET hits
        BY DEF Unforgotten
      <3>4. Streak \in Nat
        BY <3>3, PartsFinite DEF Streak
      <3>5. QED
        BY <3>1, <3>2, <3>4
    <2>5. QED
      BY <2>1, <2>3, <2>4 DEF Hit
  <1>3. IInv /\ [Next]_vars =>
            [\A r \in Req : (req[r] = "limit" /\ req'[r] = "limited") => Reached]_vars
    BY <1>2
  <1>4. QED
    BY <1>3, Invariance, PTL DEF Spec, RefusedOnlyOverLimit

----------------------------------------------------------------------------
(* The SQL dialects *)

\* A statement whose placeholders are in order binds the same values in both dialects.
LEMMA SameBinding ==
    ASSUME NEW st, InOrder(st), NEW args
    PROVE  Bound("postgres", st, args) = Bound("sqlite", st, args)
  <1>1. ASSUME NEW i \in 1 .. Len(st.slots)
        PROVE  Argument("postgres", st, i) = Argument("sqlite", st, i)
    BY <1>1 DEF InOrder, Argument
  <1>2. QED
    BY <1>1 DEF Bound

\* While only such statements run, the two databases cannot be told apart.
THEOREM InOrderSameRows ==
    ASSUME \A st \in Statements : InOrder(st)
    PROVE  DialectsSpec => []SameRows
  <1>1. DialectsInit => SameRows
    BY DEF DialectsInit, SameRows, Dialect
  <1>2. SameRows /\ [DialectsNext]_rows => SameRows'
    <2>1. SUFFICES ASSUME SameRows, DialectsNext PROVE SameRows'
      BY DEF SameRows
    <2>2. PICK st \in Statements : \E args \in [1 .. Len(st.slots) -> Value] :
             Execute(st, args)
      BY <2>1 DEF DialectsNext
    <2>3. PICK args \in [1 .. Len(st.slots) -> Value] : Execute(st, args)
      BY <2>2
    <2>4. Bound("postgres", st, args) = Bound("sqlite", st, args)
      BY SameBinding
    <2>5. QED
      BY <2>1, <2>3, <2>4 DEF Execute, SameRows, Dialect
  <1>3. QED
    BY <1>1, <1>2, PTL DEF DialectsSpec

\* An UPDATE that names its key first and uses it last is never one of them: SQLite
\* looks for the row whose key is the last value to be stored.
THEOREM UpdateByKeyMisplaced ==
    ASSUME NEW t, NEW columns \in Seq(STRING), columns # <<>>, NEW key,
           NEW args \in Seq(Value), Len(args) = Len(columns) + 1
    PROVE  LET st == UpdateByKey(t, columns, key)
               n  == Len(st.slots)
           IN  /\ ~InOrder(st)
               /\ n = Len(args)
               /\ Bound("postgres", st, args)[n] = args[1]
               /\ Bound("sqlite", st, args)[n] = args[n]
  <1>1. DEFINE st == UpdateByKey(t, columns, key)
               head == [i \in 1 .. Len(columns) |->
                           [column |-> columns[i], placeholder |-> i + 1]]
               last == [column |-> key, placeholder |-> 1]
               n == Len(st.slots)
  <1>2. st.slots = head \o <<last>>
    BY DEF UpdateByKey
  <1>3. head \in Seq({head[i] : i \in 1 .. Len(columns)}) /\ Len(head) = Len(columns)
    OBVIOUS
  <1>4. n = Len(columns) + 1 /\ Len(columns) \in Nat \ {0}
    BY <1>2, <1>3
  <1>5. st.slots[n].placeholder = 1
    BY <1>2, <1>3, <1>4
  <1>6. n \in 1 .. Len(st.slots) /\ n # 1
    BY <1>4
  <1>7. ~InOrder(st)
    BY <1>5, <1>6 DEF InOrder
  <1>8. /\ Bound("postgres", st, args)[n] = args[1]
        /\ Bound("sqlite", st, args)[n] = args[n]
    BY <1>5, <1>6 DEF Bound, Argument
  <1>9. QED
    BY <1>4, <1>7, <1>8
=============================================================================
