--------------------------- MODULE PasskeysProofs ---------------------------
(***************************************************************************)
(* Proofs about Passkeys for every set of users, challenges, credentials   *)
(* and requests, every lifetime of a challenge and every choice of store:  *)
(* that a ceremony keeps the contract OneTimeChallenges, that a replaced   *)
(* challenge registers nothing, and when a stored counter can go back.     *)
(***************************************************************************)
EXTENDS Passkeys, SequenceTheorems, TLAPS

----------------------------------------------------------------------------
(* The inductive invariant *)

\* Requests whose answer was verified, by what it was verified for.
Registering(r) == req[r].pc = "insert"
LoggingIn(r) == req[r].pc \in {"find", "update", "requireUser", "openSession"}
Verified(r) == Registering(r) \/ LoggingIn(r)

\* Credential c is a passkey of the user ch was made out to.
IsPasskeyFor(c, ch) == passkeys[c] # None /\ passkeys[c].user = issued[ch]

\* Entry e is what a handler stored under key k.
StoredAt(e, k) ==
    /\ issued[e.challenge] # None
    /\ k \in User => e.challenge \in RegChallenge /\ issued[e.challenge] = k
    /\ k \in LoginChallenge => e.challenge = k
    /\ \A c \in e.creds : IsPasskeyFor(c, e.challenge)

StoreHolds ==
    \A b \in Backend, k \in Key : kv[b][k] # None => StoredAt(kv[b][k], k)

\* What request r has found out is still so.
Holds(r) ==
    /\ req[r].pc \in {"putReg", "takeReg", "list", "putAuth"} => req[r].user \in User
    /\ req[r].pc = "takeReg" => req[r].answer # None
    /\ req[r].pc = "putAuth" => \A c \in req[r].creds :
                                    passkeys[c] # None /\ passkeys[c].user = req[r].user
    /\ Verified(r) => req[r].answer # None /\ issued[req[r].answer.challenge] # None
    /\ Registering(r) => req[r].answer.challenge \in RegChallenge
    /\ LoggingIn(r) => /\ req[r].answer.challenge \in LoginChallenge
                       /\ IsPasskeyFor(req[r].answer.cred, req[r].answer.challenge)
    /\ (Verified(r) /\ req[r].pc # "find") => req[r].user = issued[req[r].answer.challenge]

RequestsHold == \A r \in Req : Holds(r)

ResultsHold ==
    \A i \in DOMAIN results : /\ issued[results[i].challenge] # None
                              /\ results[i].user = issued[results[i].challenge]

\* A challenge is in one place only: under a key of one store, with one request that
\* answered it, or behind one result.
InStore(ch) == \E b \in Backend, k \in Key : kv[b][k] # None /\ kv[b][k].challenge = ch
WithRequest(ch, r) == Verified(r) /\ req[r].answer.challenge = ch
HasResult(ch) == \E i \in DOMAIN results : results[i].challenge = ch

OnePlace ==
    /\ \A k \in Key : (kv["memory"][k] # None /\ kv["redis"][k] # None) =>
            kv["memory"][k].challenge # kv["redis"][k].challenge
    /\ \A ch \in Challenge, r \in Req : WithRequest(ch, r) =>
            /\ ~InStore(ch) /\ ~HasResult(ch)
            /\ \A q \in Req \ {r} : ~WithRequest(ch, q)
    /\ \A ch \in Challenge : HasResult(ch) => ~InStore(ch)

\* A late challenge is one of a deleted account, and no login that has passed
\* require_user holds one.
LateIsDeleted ==
    /\ \A ch \in late : issued[ch] \in deleted
    /\ \A r \in Req : req[r].pc = "openSession" => req[r].answer.challenge \notin late

IInv ==
    /\ TypeOK /\ StoreHolds /\ RequestsHold /\ ResultsHold /\ OnePlace
    /\ LateIsDeleted /\ LateIsRefused

----------------------------------------------------------------------------
(* The effect of the statements on each variable *)

\* What a step does to the slots when it stores the record x in slot r.
LEMMA SlotEffect ==
    ASSUME TypeOK, NEW r \in Req, NEW x \in Request, req' = [req EXCEPT ![r] = x]
    PROVE  /\ req' \in [Req -> Request]
           /\ \A q \in Req \ {r} : req'[q] = req[q]
           /\ req'[r] = x
  BY DEF TypeOK

\* A free slot.
LEMMA IdleRequest ==
    Idle \in Request /\ Idle.pc = "done"
  BY DEF Idle, Request, Pc

\* The answer to request r.
LEMMA ReplyEffect ==
    ASSUME TypeOK, NEW r \in Req, Reply(r)
    PROVE  /\ req' \in [Req -> Request]
           /\ \A q \in Req \ {r} : req'[q] = req[q]
           /\ req'[r].pc = "done"
  BY IdleRequest, SlotEffect DEF Reply

\* A request that starts for user u, at pc.
LEMMA StartEffect ==
    ASSUME TypeOK, NEW r \in Req, NEW pc \in Pc, NEW u \in User,
           req' = [req EXCEPT ![r] = [Idle EXCEPT !.pc = pc, !.user = u]]
    PROVE  /\ req' \in [Req -> Request]
           /\ \A q \in Req \ {r} : req'[q] = req[q]
           /\ req'[r].pc = pc /\ req'[r].user = u
  <1>1. LET x == [Idle EXCEPT !.pc = pc, !.user = u]
        IN  x \in Request /\ x.pc = pc /\ x.user = u
    BY IdleRequest DEF Request
  <1>2. QED
    BY <1>1, SlotEffect

\* A step from one statement of request r to the next, at pc.
LEMMA StepEffect ==
    ASSUME TypeOK, NEW r \in Req, NEW pc \in Pc, Step(r, pc)
    PROVE  /\ req' \in [Req -> Request]
           /\ \A q \in Req \ {r} : req'[q] = req[q]
           /\ req'[r].pc = pc /\ req'[r].user = req[r].user
           /\ req'[r].creds = req[r].creds /\ req'[r].answer = req[r].answer
  <1>1. req[r] \in Request
    BY DEF TypeOK
  <1>2. LET x == [req[r] EXCEPT !.pc = pc]
        IN  /\ x \in Request /\ x.pc = pc /\ x.user = req[r].user
            /\ x.creds = req[r].creds /\ x.answer = req[r].answer
    BY <1>1 DEF Request
  <1>3. req' = [req EXCEPT ![r] = [req[r] EXCEPT !.pc = pc]]
    BY DEF Step
  <1>4. QED
    BY <1>2, <1>3, SlotEffect

\* What a step does to the stores when it puts x under key k of the one in use.
LEMMA StoreEffect ==
    ASSUME TypeOK, NEW k \in Key, NEW x \in Entry \cup {None},
           kv' = [kv EXCEPT ![backend][k] = x]
    PROVE  /\ kv' \in [Backend -> [Key -> Entry \cup {None}]]
           /\ kv'[backend][k] = x
           /\ \A b \in Backend, j \in Key :
                 (b # backend \/ j # k) => kv'[b][j] = kv[b][j]
  <1>1. /\ backend \in Backend /\ kv \in [Backend -> [Key -> Entry \cup {None}]]
        /\ kv[backend] \in [Key -> Entry \cup {None}]
    BY DEF TypeOK
  <1>2. LET m == [kv[backend] EXCEPT ![k] = x]
        IN  /\ m \in [Key -> Entry \cup {None}] /\ m[k] = x
            /\ \A j \in Key \ {k} : m[j] = kv[backend][j]
    BY <1>1
  <1>3. kv' = [kv EXCEPT ![backend] = [kv[backend] EXCEPT ![k] = x]]
    OBVIOUS
  <1>4. QED
    BY <1>1, <1>2, <1>3

\* What kv_take does to the stores: entries go, and none comes.
LEMMA TakeEffect ==
    ASSUME TypeOK, NEW k \in Key, NEW e, Take(k, e)
    PROVE  /\ kv' \in [Backend -> [Key -> Entry \cup {None}]]
           /\ \A b \in Backend, j \in Key : kv'[b][j] = kv[b][j] \/ kv'[b][j] = None
           /\ e # None => /\ e = kv[backend][k] /\ kv'[backend][k] = None
                          /\ e \in Entry
  <1> DEFINE removed == [kv EXCEPT ![backend][k] = None]
  <1>1. (e = Live(k) /\ kv' = removed) \/ (e = None /\ kv' \in {kv, removed})
    BY DEF Take
  <1>2. CASE kv' = kv
    BY <1>1, <1>2 DEF TypeOK, Live
  <1>3. CASE kv' = removed
    <2>1. /\ kv' \in [Backend -> [Key -> Entry \cup {None}]]
          /\ kv'[backend][k] = None
          /\ \A b \in Backend, j \in Key :
                (b # backend \/ j # k) => kv'[b][j] = kv[b][j]
      BY <1>3, StoreEffect
    <2>2. kv[backend][k] \in Entry \cup {None}
      BY DEF TypeOK
    <2>3. e # None => e = kv[backend][k]
      BY <1>1 DEF Live
    <2>4. QED
      BY <2>1, <2>2, <2>3
  <1>4. QED
    BY <1>1, <1>2, <1>3

Result == [challenge : Challenge, cred : Cred, user : User]

\* The elements of the results.
LEMMA ResultType ==
    ASSUME TypeOK, NEW i \in DOMAIN results
    PROVE  results[i] \in Result
  <1>1. results \in Seq(Result)
    BY DEF TypeOK, Result
  <1>2. QED
    BY <1>1

\* What a step does to the results when it appends x.
LEMMA AppendEffect ==
    ASSUME TypeOK, NEW x \in Result, results' = Append(results, x)
    PROVE  /\ results' \in Seq(Result)
           /\ Len(results) \in Nat /\ DOMAIN results = 1..Len(results)
           /\ Len(results') = Len(results) + 1
           /\ DOMAIN results' = 1..(Len(results) + 1)
           /\ \A i \in DOMAIN results : results'[i] = results[i]
           /\ results'[Len(results) + 1] = x
  <1>1. results \in Seq(Result)
    BY DEF TypeOK, Result
  <1>2. /\ results' \in Seq(Result)
        /\ Len(results') = Len(results) + 1
        /\ \A i \in 1..Len(results) : results'[i] = results[i]
        /\ results'[Len(results) + 1] = x
    BY <1>1, AppendProperties
  <1>3. QED
    BY <1>1, <1>2

\* A challenge that is made out to user u.
LEMMA IssueEffect ==
    ASSUME TypeOK, NEW ch \in Challenge, NEW u \in User, Unissued(ch),
           issued' = [issued EXCEPT ![ch] = u]
    PROVE  /\ issued' \in [Challenge -> User \cup {None}]
           /\ issued'[ch] = u /\ u # None
           /\ \A c \in Challenge \ {ch} : issued'[c] = issued[c]
           /\ \A c \in Challenge : issued[c] # None => issued'[c] = issued[c]
  BY ConstantsAssumption DEF TypeOK, Unissued

----------------------------------------------------------------------------
(* What every step preserves *)

\* No step takes a challenge or a passkey from the user who has it.
Grows ==
    /\ \A ch \in Challenge : issued[ch] # None => issued'[ch] = issued[ch]
    /\ \A c \in Cred : passkeys[c] # None =>
          passkeys'[c] # None /\ passkeys'[c].user = passkeys[c].user

\* A request that a step does not touch keeps what it has found out.
LEMMA HoldsKept ==
    ASSUME TypeOK, Grows, NEW r \in Req, Holds(r), req'[r] = req[r]
    PROVE  Holds(r)'
  <1>1. req[r] \in Request
    BY DEF TypeOK
  <1>2. \A c \in req[r].creds : c \in Cred
    BY <1>1 DEF Request
  <1>3. req[r].answer # None => req[r].answer.challenge \in Challenge
                                /\ req[r].answer.cred \in Cred
    BY <1>1 DEF Request, Answer
  <1>4. QED
    BY <1>2, <1>3 DEF Holds, Grows, Verified, Registering, LoggingIn, IsPasskeyFor

\* An entry that a step leaves under its key is still what a handler stored there.
LEMMA StoreKept ==
    ASSUME TypeOK, Grows, StoreHolds, NEW b \in Backend, NEW k \in Key,
           kv[b][k] # None, kv'[b][k] = kv[b][k]
    PROVE  StoredAt(kv[b][k], k)'
  <1>1. PICK e \in Entry : e = kv[b][k]
    BY DEF TypeOK
  <1>2. StoredAt(e, k) /\ kv'[b][k] = e
    BY <1>1 DEF StoreHolds
  <1>3. e.challenge \in Challenge /\ \A c \in e.creds : c \in Cred
    BY DEF Entry
  <1>4. issued'[e.challenge] = issued[e.challenge] /\ issued[e.challenge] # None
    BY <1>2, <1>3 DEF StoredAt, Grows
  <1>5. \A c \in e.creds : passkeys'[c] # None /\ passkeys'[c].user = issued'[e.challenge]
    BY <1>2, <1>3, <1>4 DEF StoredAt, Grows, IsPasskeyFor
  <1>6. QED
    BY <1>2, <1>4, <1>5 DEF StoredAt, IsPasskeyFor

\* The results stay those of the users their challenges were made out to.
LEMMA ResultsKept ==
    ASSUME TypeOK, Grows, ResultsHold, results' = results
    PROVE  ResultsHold'
  <1>1. \A i \in DOMAIN results : results[i].challenge \in Challenge
    BY ResultType DEF Result
  <1>2. QED
    BY <1>1 DEF ResultsHold, Grows

\* A step that makes out, answers and uses up no challenge.
LEMMA ShrinkStep ==
    ASSUME IInv, TypeOK', Grows,
           issued' = issued, results' = results, late' = late, deleted \subseteq deleted',
           \A b \in Backend, k \in Key : kv'[b][k] = kv[b][k] \/ kv'[b][k] = None,
           \A r \in Req : Holds(r)',
           \A r \in Req : Verified(r)' => Verified(r) /\ req'[r].answer = req[r].answer,
           \A r \in Req : req'[r].pc = "openSession" => req'[r].answer.challenge \notin late
    PROVE  IInv'
  <1>1. TypeOK /\ StoreHolds /\ RequestsHold /\ ResultsHold /\ OnePlace
        /\ LateIsDeleted /\ LateIsRefused
    BY DEF IInv
  <1>2. StoreHolds'
    <2>1. SUFFICES ASSUME NEW b \in Backend, NEW k \in Key, kv'[b][k] # None
                   PROVE  StoredAt(kv[b][k], k)' /\ kv'[b][k] = kv[b][k]
      BY DEF StoreHolds
    <2>2. kv'[b][k] = kv[b][k] /\ kv[b][k] # None
      BY <2>1
    <2>3. QED
      BY <1>1, <2>2, StoreKept
  <1>3. RequestsHold'
    BY DEF RequestsHold
  <1>4. ResultsHold'
    BY <1>1, ResultsKept
  <1>5. \A ch \in Challenge : InStore(ch)' => InStore(ch)
    BY DEF InStore
  <1>6. \A ch \in Challenge, r \in Req : WithRequest(ch, r)' => WithRequest(ch, r)
    BY DEF WithRequest
  <1>7. \A ch \in Challenge : HasResult(ch)' <=> HasResult(ch)
    BY DEF HasResult
  <1>8. \A k \in Key : (kv'["memory"][k] # None /\ kv'["redis"][k] # None) =>
            kv'["memory"][k].challenge # kv'["redis"][k].challenge
    BY <1>1 DEF OnePlace, Backend
  <1>9. OnePlace'
    BY <1>1, <1>5, <1>6, <1>7, <1>8 DEF OnePlace
  <1>10. LateIsDeleted' /\ LateIsRefused'
    BY <1>1 DEF LateIsDeleted, LateIsRefused
  <1>11. QED
    BY <1>2, <1>3, <1>4, <1>9, <1>10 DEF IInv

\* A step of request r that leaves the tables and the stores alone.
LEMMA QuietStep ==
    ASSUME IInv, NEW r \in Req,
           req' \in [Req -> Request], \A q \in Req \ {r} : req'[q] = req[q],
           UNCHANGED <<now, backend, kv, passkeys, deleted, authenticators, history>>,
           Holds(r)', Verified(r)' => Verified(r) /\ req'[r].answer = req[r].answer,
           req'[r].pc = "openSession" => req'[r].answer.challenge \notin late
    PROVE  IInv'
  <1>1. TypeOK'
    BY DEF IInv, TypeOK, authenticators, history
  <1>2. /\ Grows
        /\ issued' = issued /\ results' = results /\ late' = late /\ deleted \subseteq deleted'
        /\ \A b \in Backend, k \in Key : kv'[b][k] = kv[b][k] \/ kv'[b][k] = None
    BY DEF Grows, history
  <1>3. \A q \in Req : Holds(q)'
    BY <1>2, HoldsKept DEF IInv, RequestsHold
  <1>4. \A q \in Req : Verified(q)' => Verified(q) /\ req'[q].answer = req[q].answer
    BY DEF Verified, Registering, LoggingIn
  <1>5. \A q \in Req : req'[q].pc = "openSession" => req'[q].answer.challenge \notin late
    BY DEF IInv, LateIsDeleted
  <1>6. QED
    BY <1>1, <1>2, <1>3, <1>4, <1>5, ShrinkStep

\* An answer that ends request r and changes nothing.
LEMMA ReplyStep ==
    ASSUME IInv, NEW r \in Req, Reply(r),
           UNCHANGED <<now, backend, kv, passkeys, deleted, authenticators, history>>
    PROVE  IInv'
  <1>1. /\ req' \in [Req -> Request] /\ \A q \in Req \ {r} : req'[q] = req[q]
        /\ req'[r].pc = "done"
    BY ReplyEffect DEF IInv
  <1>2. Holds(r)' /\ ~Verified(r)'
    BY <1>1 DEF Holds, Verified, Registering, LoggingIn
  <1>3. QED
    BY <1>1, <1>2, QuietStep

\* kv_put under key k of entry e with the new challenge ch, made out to user u; Redis
\* may lose it.
LEMMA PutStep ==
    ASSUME IInv, NEW r \in Req, NEW ch \in Challenge, NEW u \in User, NEW k \in Key,
           NEW e \in Entry, e.challenge = ch, Unissued(ch), Put(k, e),
           issued' = [issued EXCEPT ![ch] = u], Reply(r),
           k \in User => ch \in RegChallenge /\ k = u, k \in LoginChallenge => ch = k,
           \A c \in e.creds : passkeys[c] # None /\ passkeys[c].user = u,
           replaced' \subseteq RegChallenge,
           UNCHANGED <<now, backend, passkeys, deleted, authenticators,
                       results, written, overtaken, late>>
    PROVE  IInv'
  <1>1. TypeOK /\ StoreHolds /\ RequestsHold /\ ResultsHold /\ OnePlace
        /\ LateIsDeleted /\ LateIsRefused
    BY DEF IInv
  <1>2. /\ req' \in [Req -> Request] /\ \A q \in Req \ {r} : req'[q] = req[q]
        /\ req'[r].pc = "done"
    BY <1>1, ReplyEffect
  <1>3. /\ issued' \in [Challenge -> User \cup {None}]
        /\ issued'[ch] = u /\ u # None /\ issued[ch] = None
        /\ \A c \in Challenge : issued[c] # None => issued'[c] = issued[c] /\ c # ch
    BY <1>1, IssueEffect DEF Unissued
  <1>4. e # None
    BY ConstantsAssumption
  <1>5. /\ kv' \in [Backend -> [Key -> Entry \cup {None}]]
        /\ \A b \in Backend, j \in Key :
              kv'[b][j] = kv[b][j] \/ (b = backend /\ j = k /\ kv'[b][j] = e)
    <2>1. CASE kv' = [kv EXCEPT ![backend][k] = e]
      BY <1>1, <2>1, StoreEffect
    <2>2. CASE kv' = kv
      BY <1>1, <2>2 DEF TypeOK
    <2>3. QED
      BY <2>1, <2>2 DEF Put
  <1>6. Grows
    BY <1>3 DEF Grows
  <1>7. TypeOK'
    BY <1>1, <1>2, <1>3, <1>5 DEF TypeOK, authenticators
  <1>8. StoreHolds'
    <2>1. SUFFICES ASSUME NEW b \in Backend, NEW j \in Key, kv'[b][j] # None
                   PROVE  StoredAt(kv[b][j], j)'
      BY DEF StoreHolds
    <2>2. CASE kv'[b][j] = kv[b][j]
      BY <1>1, <1>6, <2>1, <2>2, StoreKept
    <2>3. CASE b = backend /\ j = k /\ kv'[b][j] = e
      BY <1>3, <1>4, <2>3 DEF StoredAt, IsPasskeyFor
    <2>4. QED
      BY <1>5, <2>2, <2>3
  <1>9. RequestsHold'
    <2>1. Holds(r)'
      BY <1>2 DEF Holds, Verified, Registering, LoggingIn
    <2>2. QED
      BY <1>1, <1>2, <1>6, <2>1, HoldsKept DEF RequestsHold
  <1>10. ResultsHold'
    BY <1>1, <1>6, ResultsKept
  <1>11. ~InStore(ch) /\ ~HasResult(ch) /\ \A q \in Req : ~WithRequest(ch, q)
    BY <1>1, <1>3 DEF InStore, HasResult, WithRequest, StoreHolds, StoredAt, ResultsHold,
                      RequestsHold, Holds
  <1>12. \A c \in Challenge : /\ InStore(c)' => InStore(c) \/ c = ch
                              /\ HasResult(c)' => HasResult(c)
                              /\ \A q \in Req : WithRequest(c, q)' => WithRequest(c, q)
    <2>1. \A c \in Challenge : InStore(c)' => InStore(c) \/ c = ch
      BY <1>4, <1>5 DEF InStore
    <2>2. \A c \in Challenge, q \in Req : WithRequest(c, q)' => WithRequest(c, q)
      BY <1>2 DEF WithRequest, Verified, Registering, LoggingIn
    <2>3. QED
      BY <2>1, <2>2 DEF HasResult
  <1>13. \A j \in Key : (kv'["memory"][j] # None /\ kv'["redis"][j] # None) =>
            kv'["memory"][j].challenge # kv'["redis"][j].challenge
    <2>1. \A b \in Backend, j \in Key : kv[b][j] # None => kv[b][j].challenge # ch
      BY <1>11 DEF InStore
    <2>2. \A j \in Key : (kv["memory"][j] # None /\ kv["redis"][j] # None) =>
            kv["memory"][j].challenge # kv["redis"][j].challenge
      BY <1>1 DEF OnePlace
    <2>3. QED
      BY <1>4, <1>5, <2>1, <2>2 DEF Backend
  <1>14. OnePlace'
    BY <1>1, <1>11, <1>12, <1>13 DEF OnePlace
  <1>15. LateIsDeleted' /\ LateIsRefused'
    <2>1. \A c \in late : c \in Challenge /\ issued[c] # None
      BY <1>1, ConstantsAssumption DEF LateIsDeleted, TypeOK, Challenge
    <2>2. QED
      BY <1>1, <1>2, <1>3, <2>1 DEF LateIsDeleted, LateIsRefused
  <1>16. QED
    BY <1>7, <1>8, <1>9, <1>10, <1>14, <1>15 DEF IInv

\* kv_take of the entry under key k by request r, whose answer a was verified for it.
LEMMA TakeStep ==
    ASSUME IInv, NEW r \in Req, NEW k \in Key, NEW a \in Answer,
           NEW e, e # None, Take(k, e), a.challenge = e.challenge,
           req' \in [Req -> Request], \A q \in Req \ {r} : req'[q] = req[q],
           req'[r].pc \in {"insert", "find"}, req'[r].answer = a, ~Verified(r),
           req'[r].pc = "insert" => k \in User /\ req'[r].user = k,
           req'[r].pc = "find" => k \in LoginChallenge /\ a.cred \in e.creds,
           \/ late' = late
           \/ /\ late' = late \cup {a.challenge}
              /\ a.challenge \in LoginChallenge /\ issued[a.challenge] \in deleted,
           UNCHANGED <<now, backend, passkeys, deleted, authenticators,
                       issued, results, written, overtaken, replaced>>
    PROVE  IInv'
  <1>1. TypeOK /\ StoreHolds /\ RequestsHold /\ ResultsHold /\ OnePlace
        /\ LateIsDeleted /\ LateIsRefused
    BY DEF IInv
  <1>2. /\ kv' \in [Backend -> [Key -> Entry \cup {None}]]
        /\ \A b \in Backend, j \in Key : kv'[b][j] = kv[b][j] \/ kv'[b][j] = None
        /\ e = kv[backend][k] /\ kv'[backend][k] = None /\ e \in Entry
    BY <1>1, TakeEffect
  <1>3. backend \in Backend /\ a # None /\ a.challenge \in Challenge /\ a.cred \in Cred
    BY <1>1, ConstantsAssumption DEF TypeOK, Answer
  <1>4. StoredAt(e, k)
    BY <1>1, <1>2, <1>3 DEF StoreHolds
  <1>5. Grows
    BY DEF Grows
  <1>6. TypeOK'
    BY <1>1, <1>2 DEF TypeOK, authenticators
  <1>7. StoreHolds'
    <2>1. SUFFICES ASSUME NEW b \in Backend, NEW j \in Key, kv'[b][j] # None
                   PROVE  StoredAt(kv[b][j], j)' /\ kv'[b][j] = kv[b][j]
      BY DEF StoreHolds
    <2>2. kv'[b][j] = kv[b][j] /\ kv[b][j] # None
      BY <1>2, <2>1
    <2>3. QED
      BY <1>1, <1>5, <2>2, StoreKept
  <1>8. RequestsHold'
    <2>1. ASSUME req'[r].pc = "insert" PROVE Holds(r)'
      BY <1>3, <1>4, <2>1 DEF Holds, Verified, Registering, LoggingIn, StoredAt
    <2>2. ASSUME req'[r].pc = "find" PROVE Holds(r)'
      BY <1>3, <1>4, <2>2 DEF Holds, Verified, Registering, LoggingIn, StoredAt, IsPasskeyFor
    <2>3. Holds(r)'
      BY <2>1, <2>2
    <2>4. QED
      BY <1>1, <1>5, <2>3, HoldsKept DEF RequestsHold
  <1>9. ResultsHold'
    BY <1>1, <1>5, ResultsKept
  <1>10. InStore(a.challenge)
    BY <1>2, <1>3 DEF InStore
  <1>11. ~HasResult(a.challenge) /\ \A q \in Req : ~WithRequest(a.challenge, q)
    BY <1>1, <1>3, <1>10 DEF OnePlace
  <1>12. ~InStore(a.challenge)'
    <2>1. SUFFICES ASSUME NEW b \in Backend, NEW j \in Key,
                          kv'[b][j] # None, kv'[b][j].challenge = a.challenge
                   PROVE  FALSE
      BY DEF InStore
    <2>2. kv[b][j] # None /\ kv[b][j].challenge = e.challenge /\ StoredAt(kv[b][j], j)
      BY <1>1, <1>2, <2>1 DEF StoreHolds
    <2>3. j = k
      BY <1>4, <2>2, ConstantsAssumption DEF StoredAt, Key
    <2>4. b = backend
      BY <1>1, <1>2, <1>3, <2>2, <2>3 DEF OnePlace, Backend
    <2>5. QED
      BY <1>2, <2>1, <2>3, <2>4
  <1>13. \A c \in Challenge : /\ InStore(c)' => InStore(c)
                              /\ HasResult(c)' <=> HasResult(c)
    BY <1>2 DEF InStore, HasResult
  <1>14. \A c \in Challenge, q \in Req :
            WithRequest(c, q)' => WithRequest(c, q) \/ (q = r /\ c = a.challenge)
    BY DEF WithRequest, Verified, Registering, LoggingIn
  <1>15. \A j \in Key : (kv'["memory"][j] # None /\ kv'["redis"][j] # None) =>
            kv'["memory"][j].challenge # kv'["redis"][j].challenge
    BY <1>1, <1>2 DEF OnePlace, Backend
  <1>16. OnePlace'
    <2>1. ASSUME NEW c \in Challenge, NEW q \in Req, WithRequest(c, q)'
          PROVE  /\ ~InStore(c)' /\ ~HasResult(c)'
                 /\ \A p \in Req \ {q} : ~WithRequest(c, p)'
      <3>1. CASE c = a.challenge
        BY <1>3, <1>11, <1>12, <1>13, <1>14, <2>1, <3>1
      <3>2. CASE c # a.challenge
        BY <1>1, <1>13, <1>14, <2>1, <3>2 DEF OnePlace
      <3>3. QED
        BY <3>1, <3>2
    <2>2. \A c \in Challenge : HasResult(c)' => ~InStore(c)'
      BY <1>1, <1>13 DEF OnePlace
    <2>3. QED
      BY <1>15, <2>1, <2>2 DEF OnePlace
  <1>17. LateIsDeleted'
    BY <1>1, <1>3, <1>11 DEF LateIsDeleted, WithRequest, Verified, LoggingIn
  <1>18. LateIsRefused'
    BY <1>1, <1>11 DEF LateIsRefused, HasResult
  <1>19. QED
    BY <1>6, <1>7, <1>8, <1>9, <1>16, <1>17, <1>18 DEF IInv

\* What a request that is about to have a result holds, and that its challenge is
\* nowhere else.
LEMMA ResultHeld ==
    ASSUME IInv, NEW r \in Req, req[r].pc \in {"insert", "openSession"}
    PROVE  /\ req[r].answer \in Answer /\ ResultOf(r) \in Result
           /\ req[r].answer.challenge \in Challenge
           /\ issued[req[r].answer.challenge] # None
           /\ req[r].user = issued[req[r].answer.challenge]
           /\ WithRequest(req[r].answer.challenge, r)
           /\ ~HasResult(req[r].answer.challenge) /\ ~InStore(req[r].answer.challenge)
           /\ req[r].answer.challenge \notin late
  <1>1. TypeOK /\ Holds(r) /\ OnePlace /\ LateIsDeleted
    BY DEF IInv, RequestsHold
  <1>2. Verified(r)
    BY DEF Verified, Registering, LoggingIn
  <1>3. /\ req[r].answer # None /\ issued[req[r].answer.challenge] # None
        /\ req[r].user = issued[req[r].answer.challenge]
    BY <1>1, <1>2 DEF Holds
  <1>4. req[r].answer \in Answer
    BY <1>1, <1>3 DEF TypeOK, Request
  <1>5. PICK a \in Answer : a = req[r].answer
    BY <1>4
  <1>6. a.challenge \in Challenge /\ a.cred \in Cred
    BY DEF Answer
  <1>7. issued[a.challenge] \in User
    BY <1>1, <1>3, <1>5, <1>6 DEF TypeOK
  <1>8. ResultOf(r) \in Result
    BY <1>3, <1>5, <1>6, <1>7 DEF ResultOf, Result
  <1>9. WithRequest(a.challenge, r)
    BY <1>2, <1>5 DEF WithRequest
  <1>10. ~HasResult(a.challenge) /\ ~InStore(a.challenge)
    BY <1>1, <1>6, <1>9 DEF OnePlace
  <1>11. a.challenge \notin late
    <2>1. ASSUME req[r].pc = "insert" PROVE a.challenge \notin late
      BY <1>1, <1>5, <2>1, ConstantsAssumption DEF Holds, Registering, TypeOK
    <2>2. ASSUME req[r].pc = "openSession" PROVE a.challenge \notin late
      BY <1>1, <1>5, <2>2 DEF LateIsDeleted
    <2>3. QED
      BY <2>1, <2>2
  <1>12. QED
    BY <1>3, <1>4, <1>5, <1>6, <1>8, <1>9, <1>10, <1>11

\* The last statement of request r, which stores a passkey or opens a session.
LEMMA ResultStep ==
    ASSUME IInv, NEW r \in Req, req[r].pc \in {"insert", "openSession"}, Grows,
           results' = Append(results, ResultOf(r)), Reply(r),
           passkeys' \in [Cred -> PasskeyRow \cup {None}],
           UNCHANGED <<now, backend, kv, deleted, authenticators,
                       issued, written, overtaken, replaced, late>>
    PROVE  IInv'
  <1>1. TypeOK /\ StoreHolds /\ RequestsHold /\ ResultsHold /\ OnePlace
        /\ LateIsDeleted /\ LateIsRefused
    BY DEF IInv
  <1>2. /\ req' \in [Req -> Request] /\ \A q \in Req \ {r} : req'[q] = req[q]
        /\ req'[r].pc = "done"
    BY <1>1, ReplyEffect
  <1>3. PICK x \in Result : x = ResultOf(r)
    BY ResultHeld
  <1>4. /\ x.challenge \in Challenge /\ issued[x.challenge] # None
        /\ x.user = issued[x.challenge] /\ WithRequest(x.challenge, r)
        /\ ~HasResult(x.challenge) /\ ~InStore(x.challenge) /\ x.challenge \notin late
    BY <1>3, ResultHeld DEF ResultOf
  <1>5. /\ results' \in Seq(Result)
        /\ Len(results) \in Nat /\ DOMAIN results = 1..Len(results)
        /\ DOMAIN results' = 1..(Len(results) + 1)
        /\ \A i \in DOMAIN results : results'[i] = results[i]
        /\ results'[Len(results) + 1] = x
    BY <1>1, <1>3, AppendEffect
  <1>6. \A i \in DOMAIN results' :
            (i \in DOMAIN results /\ results'[i] = results[i]) \/ results'[i] = x
    BY <1>5
  <1>7. TypeOK'
    BY <1>1, <1>2, <1>5 DEF TypeOK, Result, authenticators
  <1>8. StoreHolds'
    <2>1. SUFFICES ASSUME NEW b \in Backend, NEW j \in Key, kv[b][j] # None
                   PROVE  StoredAt(kv[b][j], j)'
      BY DEF StoreHolds
    <2>2. QED
      BY <1>1, <2>1, StoreKept
  <1>9. RequestsHold'
    <2>1. Holds(r)'
      BY <1>2 DEF Holds, Verified, Registering, LoggingIn
    <2>2. QED
      BY <1>1, <1>2, <2>1, HoldsKept DEF RequestsHold
  <1>10. ResultsHold'
    BY <1>1, <1>4, <1>6 DEF ResultsHold
  <1>11. \A c \in Challenge : HasResult(c)' => HasResult(c) \/ c = x.challenge
    BY <1>6 DEF HasResult
  <1>12. \A c \in Challenge, q \in Req : WithRequest(c, q)' => WithRequest(c, q) /\ q # r
    BY <1>2 DEF WithRequest, Verified, Registering, LoggingIn
  <1>13. \A c \in Challenge : InStore(c)' <=> InStore(c)
    BY DEF InStore
  <1>14. OnePlace'
    <2>1. ASSUME NEW c \in Challenge, NEW q \in Req, WithRequest(c, q)'
          PROVE  /\ ~InStore(c)' /\ ~HasResult(c)'
                 /\ \A p \in Req \ {q} : ~WithRequest(c, p)'
      <3>1. WithRequest(c, q) /\ q # r
        BY <1>12, <2>1
      <3>2. c # x.challenge
        BY <1>1, <1>4, <3>1 DEF OnePlace
      <3>3. QED
        BY <1>1, <1>11, <1>12, <1>13, <3>1, <3>2 DEF OnePlace
    <2>2. \A c \in Challenge : HasResult(c)' => ~InStore(c)'
      BY <1>1, <1>4, <1>11, <1>13 DEF OnePlace
    <2>3. QED
      BY <1>1, <2>1, <2>2 DEF OnePlace
  <1>15. LateIsDeleted'
    BY <1>1, <1>2 DEF LateIsDeleted
  <1>16. LateIsRefused'
    BY <1>1, <1>4, <1>6 DEF LateIsRefused
  <1>17. QED
    BY <1>7, <1>8, <1>9, <1>10, <1>14, <1>15, <1>16 DEF IInv

\* A step in which challenges go, requests end, accounts are deleted, time passes or an
\* authenticator works.
LEMMA OutsideStep ==
    ASSUME IInv, TypeOK', deleted \subseteq deleted',
           \A b \in Backend, k \in Key : kv'[b][k] = kv[b][k] \/ kv'[b][k] = None,
           \A r \in Req : req'[r] = req[r] \/ req'[r].pc = "done",
           UNCHANGED <<passkeys, issued, results, late>>
    PROVE  IInv'
  <1>1. Grows
    BY DEF Grows
  <1>2. \A r \in Req : Holds(r)'
    <2>1. SUFFICES ASSUME NEW r \in Req PROVE Holds(r)'
      OBVIOUS
    <2>2. ASSUME req'[r] = req[r] PROVE Holds(r)'
      BY <1>1, <2>2, HoldsKept DEF IInv, RequestsHold
    <2>3. ASSUME req'[r].pc = "done" PROVE Holds(r)'
      BY <2>3 DEF Holds, Verified, Registering, LoggingIn
    <2>4. QED
      BY <2>2, <2>3
  <1>3. \A r \in Req : Verified(r)' => Verified(r) /\ req'[r].answer = req[r].answer
    BY DEF Verified, Registering, LoggingIn
  <1>4. \A r \in Req : req'[r].pc = "openSession" => req'[r].answer.challenge \notin late
    BY DEF IInv, LateIsDeleted
  <1>5. QED
    BY <1>1, <1>2, <1>3, <1>4, ShrinkStep

----------------------------------------------------------------------------
(* Registration *)

\* register/options, up to require_auth.
LEMMA AskRegistrationStep ==
    ASSUME IInv, NEW r \in Req, NEW u \in User, AskRegistration(r, u)
    PROVE  IInv'
  <1>1. /\ req' \in [Req -> Request] /\ \A q \in Req \ {r} : req'[q] = req[q]
        /\ req'[r].pc = "putReg" /\ req'[r].user = u
    BY StartEffect DEF AskRegistration, IInv, Pc
  <1>2. Holds(r)' /\ ~Verified(r)'
    BY <1>1 DEF Holds, Verified, Registering, LoggingIn
  <1>3. QED
    BY <1>1, <1>2, QuietStep DEF AskRegistration

\* registration_options, its kv_put.
LEMMA PutRegistrationStep ==
    ASSUME IInv, NEW r \in Req, NEW ch \in RegChallenge, PutRegistration(r, ch)
    PROVE  IInv'
  <1>1. PICK u \in User : u = req[r].user
    BY DEF PutRegistration, IInv, RequestsHold, Holds
  <1>2. /\ backend \in Backend /\ u \in Key /\ ch \in Challenge
        /\ {} \in SUBSET Cred /\ now + Ttl \in Nat
    BY ConstantsAssumption DEF IInv, TypeOK, Key, Challenge
  <1>3. kv[backend][u] # None => kv[backend][u].challenge \in RegChallenge
    BY <1>2 DEF IInv, StoreHolds, StoredAt
  <1>4. Live(u) # None => Live(u).challenge \in RegChallenge
    BY <1>3 DEF Live
  <1>5. replaced' \subseteq RegChallenge
    BY <1>1, <1>4 DEF PutRegistration, IInv, TypeOK
  <1>6. PICK e \in Entry : e = [challenge |-> ch, creds |-> {}, until |-> now + Ttl]
    BY <1>2 DEF Entry
  <1>7. Put(u, e)
    BY <1>1, <1>6 DEF PutRegistration, Put
  <1>8. /\ e.challenge = ch /\ e.creds = {}
        /\ issued' = [issued EXCEPT ![ch] = u] /\ Unissued(ch) /\ Reply(r)
    BY <1>1, <1>6 DEF PutRegistration
  <1>9. u \notin LoginChallenge
    BY ConstantsAssumption
  <1>10. QED
    BY <1>2, <1>5, <1>7, <1>8, <1>9, PutStep DEF PutRegistration

\* An attestation is posted, up to require_auth.
LEMMA PostRegistrationStep ==
    ASSUME IInv, NEW r \in Req, NEW u \in User, NEW c \in Cred, PostRegistration(r, u, c)
    PROVE  IInv'
  <1>1. PICK a \in Answer : a = [challenge |-> attested[c], cred |-> c, counter |-> 0]
    BY DEF PostRegistration, IInv, TypeOK, Answer
  <1>2. LET x == [Idle EXCEPT !.pc = "takeReg", !.user = u, !.answer = a]
        IN  x \in Request /\ x.pc = "takeReg" /\ x.user = u /\ x.answer = a
    BY IdleRequest DEF Request, Pc
  <1>3. req' = [req EXCEPT ![r] = [Idle EXCEPT !.pc = "takeReg", !.user = u, !.answer = a]]
    BY <1>1 DEF PostRegistration
  <1>4. /\ req' \in [Req -> Request] /\ \A q \in Req \ {r} : req'[q] = req[q]
        /\ req'[r].pc = "takeReg" /\ req'[r].user = u /\ req'[r].answer = a
    BY <1>2, <1>3, SlotEffect DEF IInv
  <1>5. Holds(r)' /\ ~Verified(r)'
    BY <1>4, ConstantsAssumption DEF Holds, Verified, Registering, LoggingIn
  <1>6. QED
    BY <1>4, <1>5, QuietStep DEF PostRegistration

\* registration_finish, its kv_take and the verification.
LEMMA TakeRegistrationStep ==
    ASSUME IInv, NEW r \in Req, TakeRegistration(r)
    PROVE  IInv'
  <1>1. PICK k \in User : k = req[r].user
    BY DEF TakeRegistration, IInv, RequestsHold, Holds
  <1>2. k \in Key /\ req[r].pc = "takeReg" /\ ~Verified(r)
    BY DEF Key, TakeRegistration, Verified, Registering, LoggingIn
  <1>3. PICK a \in Answer : a = req[r].answer
    BY <1>2 DEF IInv, RequestsHold, Holds, TypeOK, Request
  <1>4. PICK e : /\ Take(k, e)
                 /\ \/ e # None /\ Attests(e, a) /\ Step(r, "insert")
                    \/ ~(e # None /\ Attests(e, a)) /\ Reply(r)
    BY <1>1, <1>3 DEF TakeRegistration
  <1>5. CASE e # None /\ Attests(e, a) /\ Step(r, "insert")
    <2>1. /\ req' \in [Req -> Request] /\ \A q \in Req \ {r} : req'[q] = req[q]
          /\ req'[r].pc = "insert" /\ req'[r].user = k /\ req'[r].answer = a
      BY <1>1, <1>3, <1>5, StepEffect DEF IInv, Pc
    <2>2. a.challenge = e.challenge
      BY <1>5 DEF Attests
    <2>3. QED
      BY <1>2, <1>4, <1>5, <2>1, <2>2, TakeStep DEF TakeRegistration, history
  <1>6. CASE Reply(r)
    <2>1. /\ req' \in [Req -> Request] /\ \A q \in Req \ {r} : req'[q] = req[q]
          /\ req'[r].pc = "done"
      BY <1>6, ReplyEffect DEF IInv
    <2>2. /\ kv' \in [Backend -> [Key -> Entry \cup {None}]]
          /\ \A b \in Backend, j \in Key : kv'[b][j] = kv[b][j] \/ kv'[b][j] = None
      BY <1>2, <1>4, TakeEffect DEF IInv
    <2>3. TypeOK'
      BY <2>1, <2>2 DEF IInv, TypeOK, TakeRegistration, authenticators, history
    <2>4. QED
      BY <2>1, <2>2, <2>3, OutsideStep DEF TakeRegistration, history
  <1>7. QED
    BY <1>4, <1>5, <1>6

\* registration_finish, its INSERT.
LEMMA InsertPasskeyStep ==
    ASSUME IInv, NEW r \in Req, InsertPasskey(r)
    PROVE  IInv'
  <1>1. req[r].pc = "insert"
    BY DEF InsertPasskey
  <1>2. PICK a \in Answer : a = req[r].answer
    BY <1>1, ResultHeld
  <1>3. a.cred \in Cred /\ a.counter \in Nat /\ a.challenge \in Challenge
    BY DEF Answer
  <1>4. req[r].user \in User
    BY <1>1, <1>2, <1>3, ResultHeld DEF IInv, TypeOK
  <1>5. CASE passkeys' = passkeys /\ results' = results /\ Reply(r)
    BY <1>5, ReplyStep DEF InsertPasskey, history
  <1>6. CASE /\ passkeys[a.cred] = None
             /\ passkeys' = [passkeys EXCEPT ![a.cred] =
                   [user |-> req[r].user, key |-> a.counter, counter |-> a.counter]]
             /\ results' = Append(results, ResultOf(r))
             /\ Reply(r)
    <2>1. [user |-> req[r].user, key |-> a.counter, counter |-> a.counter] \in PasskeyRow
      BY <1>3, <1>4 DEF PasskeyRow
    <2>2. passkeys' \in [Cred -> PasskeyRow \cup {None}]
      BY <1>3, <1>6, <2>1 DEF IInv, TypeOK
    <2>3. Grows
      BY <1>6 DEF Grows, InsertPasskey, IInv, TypeOK
    <2>4. QED
      BY <1>1, <1>6, <2>2, <2>3, ResultStep DEF InsertPasskey
  <1>7. QED
    BY <1>2, <1>5, <1>6 DEF InsertPasskey

----------------------------------------------------------------------------
(* Login *)

\* login/options, its find_by_email.
LEMMA AskLoginStep ==
    ASSUME IInv, NEW r \in Req, NEW u \in User, AskLogin(r, u)
    PROVE  IInv'
  <1>1. /\ req' \in [Req -> Request] /\ \A q \in Req \ {r} : req'[q] = req[q]
        /\ req'[r].pc = "list" /\ req'[r].user = u
    BY StartEffect DEF AskLogin, IInv, Pc
  <1>2. Holds(r)' /\ ~Verified(r)'
    BY <1>1 DEF Holds, Verified, Registering, LoggingIn
  <1>3. QED
    BY <1>1, <1>2, QuietStep DEF AskLogin

\* authentication_options, its SELECT.
LEMMA ListPasskeysStep ==
    ASSUME IInv, NEW r \in Req, ListPasskeys(r)
    PROVE  IInv'
  <1>1. PICK cs \in SUBSET Cred : cs = CredsOf(req[r].user)
    BY DEF CredsOf
  <1>2. CASE Reply(r)
    BY <1>2, ReplyStep DEF ListPasskeys
  <1>3. CASE req' = [req EXCEPT ![r].pc = "putAuth", ![r].creds = cs]
    <2>1. req[r] \in Request /\ req[r].user \in User
      BY DEF IInv, TypeOK, RequestsHold, Holds, ListPasskeys
    <2>2. LET x == [[req[r] EXCEPT !.pc = "putAuth"] EXCEPT !.creds = cs]
          IN  x \in Request /\ x.pc = "putAuth" /\ x.user = req[r].user /\ x.creds = cs
      BY <2>1 DEF Request, Pc
    <2>3. req' = [req EXCEPT ![r] = [[req[r] EXCEPT !.pc = "putAuth"] EXCEPT !.creds = cs]]
      BY <1>3
    <2>4. /\ req' \in [Req -> Request] /\ \A q \in Req \ {r} : req'[q] = req[q]
          /\ req'[r].pc = "putAuth" /\ req'[r].user = req[r].user /\ req'[r].creds = cs
      BY <2>2, <2>3, SlotEffect DEF IInv
    <2>5. \A c \in cs : passkeys[c] # None /\ passkeys[c].user = req[r].user
      BY <1>1 DEF CredsOf
    <2>6. passkeys' = passkeys
      BY DEF ListPasskeys
    <2>7. Holds(r)' /\ ~Verified(r)'
      BY <2>1, <2>4, <2>5, <2>6 DEF Holds, Verified, Registering, LoggingIn
    <2>8. QED
      BY <2>4, <2>7, QuietStep DEF ListPasskeys
  <1>4. QED
    BY <1>1, <1>2, <1>3 DEF ListPasskeys

\* authentication_options, its kv_put.
LEMMA PutAuthenticationStep ==
    ASSUME IInv, NEW r \in Req, NEW ch \in LoginChallenge, PutAuthentication(r, ch)
    PROVE  IInv'
  <1>1. PICK u \in User : u = req[r].user
    BY DEF PutAuthentication, IInv, RequestsHold, Holds
  <1>2. /\ ch \in Key /\ ch \in Challenge /\ ch \notin User
        /\ req[r].creds \in SUBSET Cred /\ now + Ttl \in Nat
    BY ConstantsAssumption DEF IInv, TypeOK, Key, Challenge, Request
  <1>3. PICK e \in Entry :
            e = [challenge |-> ch, creds |-> req[r].creds, until |-> now + Ttl]
    BY <1>2 DEF Entry
  <1>4. Put(ch, e)
    BY <1>3 DEF PutAuthentication, Put
  <1>5. /\ e.challenge = ch /\ e.creds = req[r].creds
        /\ issued' = [issued EXCEPT ![ch] = u] /\ Unissued(ch) /\ Reply(r)
    BY <1>1, <1>3 DEF PutAuthentication
  <1>6. \A c \in e.creds : passkeys[c] # None /\ passkeys[c].user = u
    BY <1>1, <1>5 DEF PutAuthentication, IInv, RequestsHold, Holds
  <1>7. replaced' \subseteq RegChallenge
    BY DEF PutAuthentication, IInv, TypeOK
  <1>8. QED
    BY <1>2, <1>4, <1>5, <1>6, <1>7, PutStep DEF PutAuthentication

\* authentication_finish, its kv_take and the verification.
LEMMA PostLoginStep ==
    ASSUME IInv, NEW r \in Req, NEW id \in LoginChallenge, NEW a \in asserted,
           PostLogin(r, id, a)
    PROVE  IInv'
  <1>1. PICK x \in Answer : x = a
    BY DEF IInv, TypeOK
  <1>2. /\ id \in Key /\ id \in Challenge /\ backend \in Backend
        /\ req[r].pc = "done" /\ ~Verified(r)
    BY DEF Key, Challenge, PostLogin, Verified, Registering, LoggingIn, IInv, TypeOK
  <1>3. PICK e :
            /\ Take(id, e)
            /\ \/ /\ e # None /\ Asserts(e, a)
                  /\ req' = [req EXCEPT ![r] = [Idle EXCEPT !.pc = "find", !.answer = a]]
                  /\ late' = IF issued[a.challenge] \in deleted
                             THEN late \cup {a.challenge} ELSE late
               \/ UNCHANGED <<req, late>>
    BY DEF PostLogin
  <1>4. CASE /\ e # None /\ Asserts(e, a)
             /\ req' = [req EXCEPT ![r] = [Idle EXCEPT !.pc = "find", !.answer = a]]
             /\ late' = IF issued[a.challenge] \in deleted
                        THEN late \cup {a.challenge} ELSE late
    <2>1. LET y == [Idle EXCEPT !.pc = "find", !.answer = x]
          IN  y \in Request /\ y.pc = "find" /\ y.answer = x
      BY IdleRequest DEF Request, Pc
    <2>2. req' = [req EXCEPT ![r] = [Idle EXCEPT !.pc = "find", !.answer = x]]
      BY <1>1, <1>4
    <2>3. /\ req' \in [Req -> Request] /\ \A q \in Req \ {r} : req'[q] = req[q]
          /\ req'[r].pc = "find" /\ req'[r].answer = x
      BY <2>1, <2>2, SlotEffect DEF IInv
    <2>4. x.challenge = e.challenge /\ x.cred \in e.creds
      BY <1>1, <1>4 DEF Asserts
    <2>5. e = kv[backend][id]
      BY <1>2, <1>3, <1>4, TakeEffect DEF IInv
    <2>6. x.challenge \in LoginChallenge
      BY <1>2, <1>4, <2>4, <2>5 DEF IInv, StoreHolds, StoredAt
    <2>7. \/ late' = late
          \/ /\ late' = late \cup {x.challenge}
             /\ x.challenge \in LoginChallenge /\ issued[x.challenge] \in deleted
      BY <1>1, <1>4, <2>6
    <2>8. QED
      BY <1>2, <1>3, <1>4, <2>3, <2>4, <2>7, TakeStep DEF PostLogin
  <1>5. CASE UNCHANGED <<req, late>>
    <2>1. /\ kv' \in [Backend -> [Key -> Entry \cup {None}]]
          /\ \A b \in Backend, j \in Key : kv'[b][j] = kv[b][j] \/ kv'[b][j] = None
      BY <1>2, <1>3, TakeEffect DEF IInv
    <2>2. TypeOK'
      BY <1>5, <2>1 DEF IInv, TypeOK, PostLogin, authenticators
    <2>3. QED
      BY <1>5, <2>1, <2>2, OutsideStep DEF PostLogin
  <1>6. QED
    BY <1>3, <1>4, <1>5

\* What a login that goes on has found out.
LEMMA LoginHeld ==
    ASSUME IInv, NEW r \in Req, LoggingIn(r)
    PROVE  /\ req[r] \in Request /\ req[r].answer \in Answer
           /\ req[r].answer.challenge \in LoginChallenge
           /\ req[r].answer.challenge \in Challenge /\ req[r].answer.cred \in Cred
           /\ req[r].answer.counter \in Nat
           /\ issued[req[r].answer.challenge] \in User
           /\ passkeys[req[r].answer.cred] \in PasskeyRow
           /\ passkeys[req[r].answer.cred].user = issued[req[r].answer.challenge]
  <1>1. /\ req[r] \in Request /\ req[r].answer # None
        /\ issued[req[r].answer.challenge] # None
        /\ req[r].answer.challenge \in LoginChallenge
        /\ IsPasskeyFor(req[r].answer.cred, req[r].answer.challenge)
    BY DEF IInv, RequestsHold, Holds, Verified, TypeOK
  <1>2. PICK a \in Answer : a = req[r].answer
    BY <1>1 DEF Request
  <1>3. a.challenge \in Challenge /\ a.cred \in Cred /\ a.counter \in Nat
    BY DEF Answer
  <1>4. issued[a.challenge] \in User /\ passkeys[a.cred] \in PasskeyRow
    BY <1>1, <1>2, <1>3 DEF IInv, TypeOK, IsPasskeyFor
  <1>5. QED
    BY <1>1, <1>2, <1>3, <1>4 DEF IsPasskeyFor

\* authentication_finish, its SELECT.
LEMMA FindPasskeyStep ==
    ASSUME IInv, NEW r \in Req, FindPasskey(r)
    PROVE  IInv'
  <1>1. LoggingIn(r) /\ Verified(r)
    BY DEF FindPasskey, Verified, LoggingIn
  <1>2. PICK u \in User : u = passkeys[req[r].answer.cred].user
    BY <1>1, LoginHeld
  <1>3. LET x == [[req[r] EXCEPT !.pc = "update"] EXCEPT !.user = u]
        IN  x \in Request /\ x.pc = "update" /\ x.user = u /\ x.answer = req[r].answer
    BY <1>1, LoginHeld DEF Request, Pc
  <1>4. req' = [req EXCEPT ![r] = [[req[r] EXCEPT !.pc = "update"] EXCEPT !.user = u]]
    BY <1>2 DEF FindPasskey
  <1>5. /\ req' \in [Req -> Request] /\ \A q \in Req \ {r} : req'[q] = req[q]
        /\ req'[r].pc = "update" /\ req'[r].user = u /\ req'[r].answer = req[r].answer
    BY <1>3, <1>4, SlotEffect DEF IInv
  <1>6. passkeys' = passkeys /\ issued' = issued
    BY DEF FindPasskey, history
  <1>7. Holds(r)
    BY DEF IInv, RequestsHold
  <1>8. u = issued[req[r].answer.challenge]
    BY <1>1, <1>2, LoginHeld
  <1>9. Holds(r)'
    BY <1>1, <1>5, <1>6, <1>7, <1>8
    DEF Holds, Verified, Registering, LoggingIn, IsPasskeyFor
  <1>10. QED
    BY <1>1, <1>5, <1>9, QuietStep DEF FindPasskey

\* authentication_finish, its UPDATE.
LEMMA UpdateCounterStep ==
    ASSUME IInv, NEW r \in Req, UpdateCounter(r)
    PROVE  IInv'
  <1>1. LoggingIn(r) /\ Verified(r) /\ req[r].pc = "update" /\ Holds(r) /\ TypeOK
    BY DEF UpdateCounter, Verified, LoggingIn, IInv, RequestsHold
  <1>2. PICK a \in Answer : a = req[r].answer
    BY <1>1, LoginHeld
  <1>3. /\ a.cred \in Cred /\ a.counter \in Nat /\ a.challenge \in LoginChallenge
        /\ passkeys[a.cred] \in PasskeyRow
    BY <1>1, <1>2, LoginHeld
  <1>4. LET x == Counted(passkeys[a.cred], a)
        IN  x \in PasskeyRow /\ x.user = passkeys[a.cred].user
    BY <1>3 DEF Counted, PasskeyRow
  <1>5. PICK x \in PasskeyRow :
            x = Counted(passkeys[a.cred], a) /\ x.user = passkeys[a.cred].user
    BY <1>4
  <1>6. passkeys' = [passkeys EXCEPT ![a.cred] = x]
    BY <1>2, <1>5 DEF UpdateCounter
  <1>7. /\ passkeys' \in [Cred -> PasskeyRow \cup {None}]
        /\ \A c \in Cred : passkeys[c] # None =>
              passkeys'[c] # None /\ passkeys'[c].user = passkeys[c].user
    BY <1>1, <1>3, <1>5, <1>6, ConstantsAssumption DEF TypeOK
  <1>8. /\ req' \in [Req -> Request] /\ \A q \in Req \ {r} : req'[q] = req[q]
        /\ req'[r].pc = "requireUser" /\ req'[r].user = req[r].user
        /\ req'[r].answer = req[r].answer
    BY <1>1, StepEffect DEF UpdateCounter, Pc
  <1>9. written' \cup overtaken' \subseteq LoginChallenge
    BY <1>1, <1>2, <1>3 DEF UpdateCounter, TypeOK, Open
  <1>10. TypeOK'
    BY <1>1, <1>7, <1>8, <1>9 DEF TypeOK, UpdateCounter, authenticators
  <1>11. /\ Grows /\ issued' = issued /\ results' = results /\ late' = late
         /\ deleted' = deleted /\ kv' = kv
    BY <1>7 DEF Grows, UpdateCounter
  <1>12. Holds(r)'
    BY <1>1, <1>2, <1>3, <1>7, <1>8, <1>11
    DEF Holds, Verified, Registering, LoggingIn, IsPasskeyFor
  <1>13. \A q \in Req : Holds(q)'
    BY <1>8, <1>11, <1>12, HoldsKept DEF IInv, RequestsHold
  <1>14. \A q \in Req : Verified(q)' => Verified(q) /\ req'[q].answer = req[q].answer
    BY <1>1, <1>8 DEF Verified, Registering, LoggingIn
  <1>15. \A q \in Req : req'[q].pc = "openSession" => req'[q].answer.challenge \notin late
    BY <1>8 DEF IInv, LateIsDeleted
  <1>16. QED
    BY <1>10, <1>11, <1>13, <1>14, <1>15, ShrinkStep

\* A passkey login, its require_user.
LEMMA RequireUserStep ==
    ASSUME IInv, NEW r \in Req, RequireUser(r)
    PROVE  IInv'
  <1>1. CASE Reply(r)
    BY <1>1, ReplyStep DEF RequireUser
  <1>2. CASE ~AccountGone(req[r].user) /\ Step(r, "openSession")
    <2>1. LoggingIn(r) /\ Verified(r) /\ Holds(r) /\ req[r].pc = "requireUser"
      BY DEF RequireUser, Verified, LoggingIn, IInv, RequestsHold
    <2>2. /\ req' \in [Req -> Request] /\ \A q \in Req \ {r} : req'[q] = req[q]
          /\ req'[r].pc = "openSession" /\ req'[r].user = req[r].user
          /\ req'[r].answer = req[r].answer
      BY <1>2, StepEffect DEF IInv, Pc
    <2>3. req[r].answer.challenge \notin late
      BY <1>2, <2>1 DEF AccountGone, Holds, IInv, LateIsDeleted
    <2>4. passkeys' = passkeys /\ issued' = issued
      BY DEF RequireUser, history
    <2>5. Holds(r)'
      BY <2>1, <2>2, <2>4 DEF Holds, Verified, Registering, LoggingIn, IsPasskeyFor
    <2>6. QED
      BY <2>1, <2>2, <2>3, <2>5, QuietStep DEF RequireUser
  <1>3. QED
    BY <1>1, <1>2 DEF RequireUser

\* A passkey login, its complete_login.
LEMMA OpenSessionStep ==
    ASSUME IInv, NEW r \in Req, OpenSession(r)
    PROVE  IInv'
  <1>1. Grows
    BY DEF Grows, OpenSession
  <1>2. passkeys' \in [Cred -> PasskeyRow \cup {None}]
    BY DEF OpenSession, IInv, TypeOK
  <1>3. QED
    BY <1>1, <1>2, ResultStep DEF OpenSession

----------------------------------------------------------------------------
(* The rest of the system *)

\* The server stops and starts again.
LEMMA RestartStep ==
    ASSUME IInv, Restart
    PROVE  IInv'
  <1>1. TypeOK
    BY DEF IInv
  <1>2. /\ kv' \in [Backend -> [Key -> Entry \cup {None}]]
        /\ \A b \in Backend, k \in Key : kv'[b][k] = kv[b][k] \/ kv'[b][k] = None
    BY <1>1 DEF TypeOK, Restart
  <1>3. req' \in [Req -> Request] /\ \A r \in Req : req'[r].pc = "done"
    BY IdleRequest DEF Restart
  <1>4. TypeOK'
    BY <1>1, <1>2, <1>3 DEF TypeOK, Restart, authenticators, history
  <1>5. QED
    BY <1>2, <1>3, <1>4, OutsideStep DEF Restart, history

\* An account is deleted.
LEMMA SoftDeleteStep ==
    ASSUME IInv, NEW u \in User, SoftDelete(u)
    PROVE  IInv'
  <1>1. TypeOK'
    BY DEF IInv, TypeOK, SoftDelete, authenticators, history
  <1>2. QED
    BY <1>1, OutsideStep DEF SoftDelete, history

\* An authenticator makes a credential.
LEMMA AttestStep ==
    ASSUME IInv, NEW ch \in RegChallenge, NEW c \in Cred, Attest(ch, c)
    PROVE  IInv'
  <1>1. TypeOK'
    BY DEF IInv, TypeOK, Attest, server, history, Challenge
  <1>2. QED
    BY <1>1, OutsideStep DEF Attest, server, history

\* An authenticator signs a login challenge.
LEMMA SignStep ==
    ASSUME IInv, NEW ch \in LoginChallenge, NEW c \in Cred, Sign(ch, c)
    PROVE  IInv'
  <1>1. PICK n \in 0..MaxCounter : n = sign[c] + 1
    BY ConstantsAssumption DEF Sign, IInv, TypeOK
  <1>2. [challenge |-> ch, cred |-> c, counter |-> n] \in Answer
    BY <1>1, ConstantsAssumption DEF Answer, Challenge
  <1>3. /\ sign' = [sign EXCEPT ![c] = n]
        /\ asserted' = asserted \cup {[challenge |-> ch, cred |-> c, counter |-> n]}
    BY <1>1 DEF Sign
  <1>4. TypeOK'
    BY <1>1, <1>2, <1>3 DEF IInv, TypeOK, Sign, server, history
  <1>5. QED
    BY <1>4, OutsideStep DEF Sign, server, history

\* Time passes.
LEMMA TickStep ==
    ASSUME IInv, Tick
    PROVE  IInv'
  <1>1. TypeOK'
    BY DEF IInv, TypeOK, Tick, server, authenticators, history
  <1>2. QED
    BY <1>1, OutsideStep DEF Tick, server, history

----------------------------------------------------------------------------
(* The invariant *)

\* The invariant holds at the first start, with either store.
LEMMA Initially == Init => IInv
  <1>1. SUFFICES ASSUME Init PROVE IInv
    OBVIOUS
  <1>2. \A r \in Req : req[r] \in Request /\ req[r].pc = "done"
    BY <1>1, IdleRequest DEF Init
  <1>3. \A b \in Backend, k \in Key : kv[b][k] = None
    BY <1>1 DEF Init
  <1>4. results = <<>> /\ DOMAIN results = {} /\ results \in Seq(Result)
    BY <1>1 DEF Init
  <1>5. TypeOK
    BY <1>1, <1>2, <1>4, ConstantsAssumption DEF Init, TypeOK, Result
  <1>6. RequestsHold
    BY <1>2 DEF RequestsHold, Holds, Verified, Registering, LoggingIn
  <1>7. StoreHolds
    BY <1>3 DEF StoreHolds
  <1>8. ResultsHold /\ LateIsRefused
    BY <1>4 DEF ResultsHold, LateIsRefused
  <1>9. OnePlace
    BY <1>2, <1>3, <1>4 DEF OnePlace, InStore, WithRequest, HasResult, Verified,
                            Registering, LoggingIn, Backend
  <1>10. LateIsDeleted
    BY <1>1, <1>2 DEF Init, LateIsDeleted
  <1>11. QED
    BY <1>5, <1>6, <1>7, <1>8, <1>9, <1>10 DEF IInv

\* A step in which nothing changes.
LEMMA StutterStep ==
    ASSUME IInv, UNCHANGED vars
    PROVE  IInv'
  <1>1. TypeOK'
    BY DEF IInv, TypeOK, vars, server, authenticators, history
  <1>2. QED
    BY <1>1, OutsideStep DEF vars, server, authenticators, history

\* Every step keeps the invariant.
LEMMA Inductive == IInv /\ [Next]_vars => IInv'
  <1>1. SUFFICES ASSUME IInv, [Next]_vars PROVE IInv'
    OBVIOUS
  <1>2. CASE UNCHANGED vars
    BY <1>1, <1>2, StutterStep
  <1>3. ASSUME NEW r \in Req, Registration(r) PROVE IInv'
    <2>1. ASSUME NEW u \in User, AskRegistration(r, u) PROVE IInv'
      BY <1>1, <2>1, AskRegistrationStep
    <2>2. ASSUME NEW ch \in RegChallenge, PutRegistration(r, ch) PROVE IInv'
      BY <1>1, <2>2, PutRegistrationStep
    <2>3. ASSUME NEW u \in User, NEW c \in Cred, PostRegistration(r, u, c) PROVE IInv'
      BY <1>1, <2>3, PostRegistrationStep
    <2>4. CASE TakeRegistration(r)
      BY <1>1, <2>4, TakeRegistrationStep
    <2>5. CASE InsertPasskey(r)
      BY <1>1, <2>5, InsertPasskeyStep
    <2>6. QED
      BY <1>3, <2>1, <2>2, <2>3, <2>4, <2>5 DEF Registration
  <1>4. ASSUME NEW r \in Req, PasskeyLogin(r) PROVE IInv'
    <2>1. ASSUME NEW u \in User, AskLogin(r, u) PROVE IInv'
      BY <1>1, <2>1, AskLoginStep
    <2>2. CASE ListPasskeys(r)
      BY <1>1, <2>2, ListPasskeysStep
    <2>3. ASSUME NEW ch \in LoginChallenge, PutAuthentication(r, ch) PROVE IInv'
      BY <1>1, <2>3, PutAuthenticationStep
    <2>4. ASSUME NEW id \in LoginChallenge, NEW a \in asserted, PostLogin(r, id, a)
          PROVE  IInv'
      BY <1>1, <2>4, PostLoginStep
    <2>5. CASE FindPasskey(r)
      BY <1>1, <2>5, FindPasskeyStep
    <2>6. CASE UpdateCounter(r)
      BY <1>1, <2>6, UpdateCounterStep
    <2>7. CASE RequireUser(r)
      BY <1>1, <2>7, RequireUserStep
    <2>8. CASE OpenSession(r)
      BY <1>1, <2>8, OpenSessionStep
    <2>9. QED
      BY <1>4, <2>1, <2>2, <2>3, <2>4, <2>5, <2>6, <2>7, <2>8 DEF PasskeyLogin
  <1>5. ASSUME NEW r \in Req, Abort(r) PROVE IInv'
    BY <1>1, <1>5, ReplyStep DEF Abort
  <1>6. CASE Restart
    BY <1>1, <1>6, RestartStep
  <1>7. ASSUME NEW u \in User, SoftDelete(u) PROVE IInv'
    BY <1>1, <1>7, SoftDeleteStep
  <1>8. ASSUME NEW ch \in RegChallenge, NEW c \in Cred, Attest(ch, c) PROVE IInv'
    BY <1>1, <1>8, AttestStep
  <1>9. ASSUME NEW ch \in LoginChallenge, NEW c \in Cred, Sign(ch, c) PROVE IInv'
    BY <1>1, <1>9, SignStep
  <1>10. CASE Tick
    BY <1>1, <1>10, TickStep
  <1>11. QED
    BY <1>1, <1>2, <1>3, <1>4, <1>5, <1>6, <1>7, <1>8, <1>9, <1>10 DEF Next

\* The types, what the stores, the requests and the results hold, that a challenge is in
\* one place only, and what is known of late answers, together.
THEOREM Invariance == Spec => []IInv
  BY Initially, Inductive, PTL DEF Spec

\* Type correctness of the passkey handlers.
THEOREM TypeCorrect == Spec => []TypeOK
  <1>1. IInv => TypeOK
    BY DEF IInv
  <1>2. QED
    BY <1>1, Invariance, PTL

\* An answer posted after the account was deleted never opens a session.
THEOREM LateRefused == Spec => []LateIsRefused
  <1>1. IInv => LateIsRefused
    BY DEF IInv
  <1>2. QED
    BY <1>1, Invariance, PTL

----------------------------------------------------------------------------
(* The contract *)

\* The results as the contract sees them.
Yield == [i \in DOMAIN results |-> <<results[i].challenge, results[i].user>>]

\* A result more is one more for the contract.
LEMMA YieldAppends ==
    ASSUME TypeOK, NEW x \in Result, results' = Append(results, x)
    PROVE  Yield' = Append(Yield, <<x.challenge, x.user>>)
  <1> DEFINE n == Len(results)
             p == <<x.challenge, x.user>>
  <1>1. /\ n \in Nat /\ DOMAIN results = 1..n /\ DOMAIN results' = 1..(n + 1)
        /\ \A i \in 1..n : results'[i] = results[i]
        /\ results'[n + 1] = x
    BY AppendEffect
  <1>2. p \in Challenge \X User
    BY DEF Result
  <1>3. \A i \in 1..n : Yield[i] = <<results[i].challenge, results[i].user>>
                         /\ Yield[i] \in Challenge \X User
    BY <1>1, ResultType DEF Yield, Result
  <1>4. Yield = [i \in 1..n |-> Yield[i]]
    BY <1>1 DEF Yield
  <1>5. Yield \in Seq(Challenge \X User) /\ Len(Yield) = n
    BY <1>1, <1>3, <1>4
  <1>6. /\ Append(Yield, p) \in Seq(Challenge \X User)
        /\ Len(Append(Yield, p)) = n + 1
        /\ \A i \in 1..n : Append(Yield, p)[i] = Yield[i]
        /\ Append(Yield, p)[n + 1] = p
    BY <1>2, <1>5, AppendProperties
  <1>7. Append(Yield, p) = [i \in 1..(n + 1) |-> Append(Yield, p)[i]]
    BY <1>6
  <1>8. Yield' = [i \in 1..(n + 1) |-> <<results'[i].challenge, results'[i].user>>]
    BY <1>1 DEF Yield
  <1>9. \A i \in 1..(n + 1) :
            <<results'[i].challenge, results'[i].user>> = Append(Yield, p)[i]
    BY <1>1, <1>3, <1>6
  <1>10. QED
    BY <1>7, <1>8, <1>9

\* A passkey that is stored and a session that is opened complete a ceremony.
LEMMA ResultCompletes ==
    ASSUME IInv, NEW r \in Req, req[r].pc \in {"insert", "openSession"},
           results' = Append(results, ResultOf(r)), issued' = issued
    PROVE  Contract!Next
  <1>1. PICK x \in Result : x = ResultOf(r)
    BY ResultHeld
  <1>2. /\ x.challenge \in Challenge /\ issued[x.challenge] # None
        /\ x.user = issued[x.challenge] /\ ~HasResult(x.challenge)
    BY <1>1, ResultHeld DEF ResultOf
  <1>3. Yield' = Append(Yield, <<x.challenge, issued[x.challenge]>>)
    BY <1>1, <1>2, YieldAppends DEF IInv
  <1>4. \A i \in DOMAIN Yield : Yield[i][1] # x.challenge
    BY <1>2 DEF Yield, HasResult
  <1>5. Contract!Complete(x.challenge)
    BY <1>2, <1>3, <1>4 DEF Contract!Complete, Yield
  <1>6. QED
    BY <1>2, <1>5 DEF Contract!Next

\* A challenge that is put in the store is made out to a user.
LEMMA PutIssues ==
    ASSUME NEW ch \in Challenge, NEW u \in User, Unissued(ch),
           issued' = [issued EXCEPT ![ch] = u], results' = results
    PROVE  Contract!Next
  <1>1. Contract!Issue(ch, u)
    BY DEF Contract!Issue, Unissued
  <1>2. QED
    BY <1>1 DEF Contract!Next

\* Every step is one of the contract or leaves it alone.
LEMMA StepRefines ==
    IInv /\ [Next]_vars => [Contract!Next]_(Contract!vars)
  <1>1. SUFFICES ASSUME IInv, [Next]_vars
                 PROVE  Contract!Next \/ (issued' = issued /\ results' = results)
    BY DEF Contract!vars
  <1>2. CASE UNCHANGED vars
    BY <1>2 DEF vars, history
  <1>3. ASSUME NEW r \in Req, Registration(r)
        PROVE  Contract!Next \/ (issued' = issued /\ results' = results)
    <2>1. ASSUME NEW ch \in RegChallenge, PutRegistration(r, ch)
          PROVE  Contract!Next
      <3>1. PICK u \in User : u = req[r].user
        BY <1>1, <2>1 DEF PutRegistration, IInv, RequestsHold, Holds
      <3>2. ch \in Challenge /\ Unissued(ch) /\ results' = results
            /\ issued' = [issued EXCEPT ![ch] = u]
        BY <2>1, <3>1 DEF PutRegistration, Challenge
      <3>3. QED
        BY <3>2, PutIssues
    <2>2. ASSUME InsertPasskey(r)
          PROVE  Contract!Next \/ (issued' = issued /\ results' = results)
      BY <1>1, <2>2, ResultCompletes DEF InsertPasskey
    <2>3. ASSUME \/ \E u \in User : AskRegistration(r, u)
                 \/ \E u \in User, c \in Cred : PostRegistration(r, u, c)
                 \/ TakeRegistration(r)
          PROVE  issued' = issued /\ results' = results
      BY <2>3 DEF AskRegistration, PostRegistration, TakeRegistration, history
    <2>4. QED
      BY <1>3, <2>1, <2>2, <2>3 DEF Registration
  <1>4. ASSUME NEW r \in Req, PasskeyLogin(r)
        PROVE  Contract!Next \/ (issued' = issued /\ results' = results)
    <2>1. ASSUME NEW ch \in LoginChallenge, PutAuthentication(r, ch)
          PROVE  Contract!Next
      <3>1. PICK u \in User : u = req[r].user
        BY <1>1, <2>1 DEF PutAuthentication, IInv, RequestsHold, Holds
      <3>2. ch \in Challenge /\ Unissued(ch) /\ results' = results
            /\ issued' = [issued EXCEPT ![ch] = u]
        BY <2>1, <3>1 DEF PutAuthentication, Challenge
      <3>3. QED
        BY <3>2, PutIssues
    <2>2. ASSUME OpenSession(r) PROVE Contract!Next
      BY <1>1, <2>2, ResultCompletes DEF OpenSession
    <2>3. ASSUME \/ \E u \in User : AskLogin(r, u)
                 \/ \E id \in LoginChallenge, a \in asserted : PostLogin(r, id, a)
                 \/ ListPasskeys(r) \/ FindPasskey(r) \/ UpdateCounter(r)
                 \/ RequireUser(r)
          PROVE  issued' = issued /\ results' = results
      BY <2>3 DEF AskLogin, PostLogin, ListPasskeys, FindPasskey, UpdateCounter,
                  RequireUser, history
    <2>4. QED
      BY <1>4, <2>1, <2>2, <2>3 DEF PasskeyLogin
  <1>5. ASSUME \/ \E r \in Req : Abort(r)
               \/ Restart
               \/ \E u \in User : SoftDelete(u)
               \/ \E ch \in RegChallenge, c \in Cred : Attest(ch, c)
               \/ \E ch \in LoginChallenge, c \in Cred : Sign(ch, c)
               \/ Tick
        PROVE  issued' = issued /\ results' = results
    BY <1>5 DEF Abort, Restart, SoftDelete, Attest, Sign, Tick, history
  <1>6. QED
    BY <1>1, <1>2, <1>3, <1>4, <1>5 DEF Next

\* A challenge yields one result at most, of the user it was made out to, whatever is
\* posted twice, late or elsewhere, and whatever a restart or Redis loses.
THEOREM Refinement == Spec => ImplementsContract
  <1>1. Init => Contract!Init
    BY DEF Init, Contract!Init
  <1>2. QED
    BY <1>1, StepRefines, Invariance, PTL DEF Spec, ImplementsContract, Contract!Spec

----------------------------------------------------------------------------
(* Replaced challenges and stored counters: the inductive invariant *)

\* A challenge that can still come to something, or has.
Alive(ch) == InStore(ch) \/ HasResult(ch) \/ \E r \in Req : WithRequest(ch, r)

\* A challenge that was overwritten is nowhere any more.
ReplacedIsGone == \A ch \in replaced : issued[ch] # None /\ ~Alive(ch)

\* Answers come from authenticators: an attestation with a counter of 0, about the
\* challenge its credential was made for, or an assertion that was signed.
Signed(r) ==
    /\ req[r].pc \in {"takeReg", "insert"} =>
            /\ req[r].answer.counter = 0
            /\ attested[req[r].answer.cred] = req[r].answer.challenge
    /\ LoggingIn(r) => req[r].answer \in asserted

AnswersSigned == \A r \in Req : Signed(r)

\* A passkey was bought with the challenge its credential was made for.
PasskeysBought == \A c \in Cred : passkeys[c] # None => HasResult(attested[c])

\* Authenticators count upwards: what was signed for a challenge that no write has
\* overtaken is not behind the column.
CountersSigned ==
    /\ \A c \in Cred : passkeys[c] # None => passkeys[c].counter <= sign[c]
    /\ \A a \in asserted :
          /\ a.challenge \in LoginChallenge
          /\ issued[a.challenge] # None
          /\ a.counter <= sign[a.cred]
          /\ \/ passkeys[a.cred] = None
             \/ passkeys[a.cred].counter <= a.counter
             \/ a.challenge \in overtaken \cup written

\* Requests whose counter is stored, and the challenges they did it for.
PastWrite(r) == req[r].pc \in {"requireUser", "openSession"}

WrittenIsSpent ==
    \A ch \in written :
        /\ issued[ch] # None
        /\ ~InStore(ch)
        /\ \A r \in Req : WithRequest(ch, r) => PastWrite(r)

CounterInv ==
    /\ ReplacedIsGone /\ AnswersSigned /\ PasskeysBought
    /\ CountersSigned /\ WrittenIsSpent

----------------------------------------------------------------------------
(* What every step does to the challenges *)

\* No step brings back a challenge: what was made out stays where it is, or goes on from
\* the store to a request and from there to a result.
Onward ==
    \A ch \in Challenge : issued[ch] # None =>
        /\ InStore(ch)' => InStore(ch)
        /\ HasResult(ch) => HasResult(ch)'
        /\ HasResult(ch)' => Alive(ch)
        /\ \A r \in Req : WithRequest(ch, r)' =>
              InStore(ch) \/ (WithRequest(ch, r) /\ (PastWrite(r) => PastWrite(r)'))

\* A challenge behind a result was made out to somebody.
LEMMA ResultIssued ==
    ASSUME IInv, NEW ch, HasResult(ch)
    PROVE  ch \in Challenge /\ issued[ch] # None
  BY ResultType DEF HasResult, IInv, ResultsHold, Result

\* Steps without a result: entries are left, taken or made for a new challenge, and
\* requests go on with their answer, start with one to a challenge in the store, or end.
LEMMA OnwardWithoutResult ==
    ASSUME IInv, results' = results,
           \A b \in Backend, k \in Key :
              \/ kv'[b][k] = kv[b][k]
              \/ kv'[b][k] = None
              \/ issued[kv'[b][k].challenge] = None,
           \A r \in Req : Verified(r)' =>
              \/ InStore(req'[r].answer.challenge)
              \/ /\ Verified(r) /\ req'[r].answer = req[r].answer
                 /\ PastWrite(r) => PastWrite(r)'
    PROVE  Onward
  <1>1. SUFFICES ASSUME NEW ch \in Challenge, issued[ch] # None
                 PROVE  /\ InStore(ch)' => InStore(ch)
                        /\ HasResult(ch) <=> HasResult(ch)'
                        /\ \A r \in Req : WithRequest(ch, r)' =>
                              InStore(ch) \/ (WithRequest(ch, r) /\ (PastWrite(r) => PastWrite(r)'))
    BY DEF Onward, Alive
  <1>2. InStore(ch)' => InStore(ch)
    BY <1>1 DEF InStore
  <1>3. HasResult(ch) <=> HasResult(ch)'
    BY DEF HasResult
  <1>4. ASSUME NEW r \in Req, WithRequest(ch, r)'
        PROVE  InStore(ch) \/ (WithRequest(ch, r) /\ (PastWrite(r) => PastWrite(r)'))
    <2>1. Verified(r)' /\ req'[r].answer.challenge = ch
      BY <1>4 DEF WithRequest
    <2>2. CASE InStore(req'[r].answer.challenge)
      BY <2>1, <2>2
    <2>3. CASE /\ Verified(r) /\ req'[r].answer = req[r].answer
               /\ PastWrite(r) => PastWrite(r)'
      BY <2>1, <2>3 DEF WithRequest
    <2>4. QED
      BY <2>1, <2>2, <2>3
  <1>5. QED
    BY <1>2, <1>3, <1>4

\* The last statement of request r, with its result.
LEMMA OnwardWithResult ==
    ASSUME IInv, NEW r \in Req, req[r].pc \in {"insert", "openSession"},
           results' = Append(results, ResultOf(r)), Reply(r), kv' = kv
    PROVE  /\ Onward
           /\ \A ch \in Challenge : req[r].answer.challenge = ch => HasResult(ch)'
  <1>1. /\ \A q \in Req \ {r} : req'[q] = req[q]
        /\ req'[r].pc = "done"
    BY ReplyEffect DEF IInv
  <1>2. PICK x \in Result : x = ResultOf(r)
    BY ResultHeld
  <1>3. x.challenge = req[r].answer.challenge /\ WithRequest(x.challenge, r)
    BY <1>2, ResultHeld DEF ResultOf
  <1>4. /\ Len(results) \in Nat /\ DOMAIN results = 1..Len(results)
        /\ DOMAIN results' = 1..(Len(results) + 1)
        /\ \A i \in DOMAIN results : results'[i] = results[i]
        /\ results'[Len(results) + 1] = x
    BY <1>2, AppendEffect DEF IInv
  <1>5. HasResult(x.challenge)'
    BY <1>4 DEF HasResult
  <1>6. ASSUME NEW ch \in Challenge
        PROVE  /\ InStore(ch)' => InStore(ch)
               /\ HasResult(ch) => HasResult(ch)'
               /\ HasResult(ch)' => HasResult(ch) \/ ch = x.challenge
    BY <1>4 DEF InStore, HasResult
  <1>7. ASSUME NEW ch \in Challenge, NEW q \in Req, WithRequest(ch, q)'
        PROVE  WithRequest(ch, q) /\ (PastWrite(q) => PastWrite(q)')
    BY <1>1, <1>7 DEF WithRequest, Verified, Registering, LoggingIn, PastWrite
  <1>8. QED
    BY <1>3, <1>5, <1>6, <1>7 DEF Onward, Alive

----------------------------------------------------------------------------
(* What the parts of the invariant take from it *)

\* Replaced challenges stay gone.
LEMMA GoneKept ==
    ASSUME IInv, ReplacedIsGone, Grows, Onward,
           NEW ch \in replaced
    PROVE  issued'[ch] # None /\ ~Alive(ch)'
  <1>1. ch \in Challenge /\ issued[ch] # None /\ ~Alive(ch)
    BY DEF ReplacedIsGone, IInv, TypeOK, Challenge
  <1>2. issued'[ch] # None
    BY <1>1 DEF Grows
  <1>3. ~InStore(ch)' /\ ~HasResult(ch)'
    BY <1>1 DEF Onward, Alive
  <1>4. \A r \in Req : ~WithRequest(ch, r)'
    BY <1>1 DEF Onward, Alive
  <1>5. QED
    BY <1>2, <1>3, <1>4 DEF Alive

\* Challenges whose counter is stored stay spent.
LEMMA SpentKept ==
    ASSUME IInv, WrittenIsSpent, Grows, Onward,
           NEW ch \in written
    PROVE  /\ issued'[ch] # None /\ ~InStore(ch)'
           /\ \A r \in Req : WithRequest(ch, r)' => PastWrite(r)'
  <1>1. /\ ch \in Challenge /\ issued[ch] # None /\ ~InStore(ch)
        /\ \A r \in Req : WithRequest(ch, r) => PastWrite(r)
    BY DEF WrittenIsSpent, IInv, TypeOK, Challenge
  <1>2. QED
    BY <1>1 DEF Onward, Grows

\* A passkey stays bought.
LEMMA BoughtKept ==
    ASSUME IInv, PasskeysBought, Onward,
           NEW c \in Cred, passkeys[c] # None
    PROVE  \E ch \in Challenge : /\ ch = attested[c] /\ HasResult(ch) /\ HasResult(ch)'
                                 /\ issued[ch] # None
  <1>1. PICK ch : ch = attested[c]
    OBVIOUS
  <1>2. HasResult(ch)
    BY <1>1 DEF PasskeysBought
  <1>3. ch \in Challenge /\ issued[ch] # None
    BY <1>2, ResultIssued
  <1>4. QED
    BY <1>1, <1>2, <1>3 DEF Onward

\* An attestation or an assertion that request r has read stays what it was, with the
\* same answer.
LEMMA SignedKept ==
    ASSUME IInv, NEW r \in Req, Signed(r),
           asserted \subseteq asserted',
           \A c \in Cred : attested[c] # None => attested'[c] = attested[c],
           req'[r].answer = req[r].answer,
           req'[r].pc = req[r].pc \/ (req[r].pc = "takeReg" /\ req'[r].pc = "insert")
              \/ (LoggingIn(r) /\ req'[r].pc \notin {"takeReg", "insert"})
    PROVE  Signed(r)'
  <1>1. CASE req'[r].pc \in {"takeReg", "insert"}
    <2>1. req[r].pc \in {"takeReg", "insert"} /\ ~LoggingIn(r)'
      BY <1>1 DEF LoggingIn
    <2>2. req[r].answer # None
      BY <2>1 DEF IInv, RequestsHold, Holds, Verified, Registering
    <2>3. PICK a \in Answer : a = req[r].answer
      BY <2>2 DEF IInv, TypeOK, Request
    <2>4. a.cred \in Cred /\ a.challenge # None
      BY ConstantsAssumption DEF Answer, Challenge
    <2>5. QED
      BY <2>1, <2>3, <2>4 DEF Signed
  <1>2. CASE req'[r].pc \notin {"takeReg", "insert"}
    BY <1>2 DEF Signed, LoggingIn
  <1>3. QED
    BY <1>1, <1>2

\* A step of request r, after which its answer is one of an authenticator.
LEMMA AnswersKept ==
    ASSUME IInv, AnswersSigned, NEW r \in Req, Signed(r)',
           UNCHANGED authenticators,
           \A q \in Req \ {r} : req'[q] = req[q]
    PROVE  AnswersSigned'
  <1>1. asserted' = asserted /\ attested' = attested
    BY DEF authenticators
  <1>2. ASSUME NEW q \in Req \ {r} PROVE Signed(q)'
    BY <1>1, <1>2, SignedKept DEF AnswersSigned
  <1>3. QED
    BY <1>2 DEF AnswersSigned

\* Requests that end have read nothing.
LEMMA NothingSigned ==
    ASSUME NEW r \in Req, req'[r].pc \in {"done", "putReg", "list", "putAuth"}
    PROVE  Signed(r)'
  BY DEF Signed, LoggingIn

\* Steps that touch no counter and write nothing.
LEMMA CounterStep ==
    ASSUME IInv, CounterInv, Grows, Onward, AnswersSigned',
           \A ch \in replaced' \ replaced : issued'[ch] # None /\ ~Alive(ch)',
           UNCHANGED <<passkeys, authenticators, written, overtaken>>
    PROVE  CounterInv'
  <1>1. /\ ReplacedIsGone /\ PasskeysBought /\ CountersSigned /\ WrittenIsSpent
        /\ attested' = attested /\ sign' = sign /\ asserted' = asserted
    BY DEF CounterInv, authenticators
  <1>2. ReplacedIsGone'
    BY <1>1, GoneKept DEF ReplacedIsGone
  <1>3. PasskeysBought'
    <2>1. SUFFICES ASSUME NEW c \in Cred, passkeys[c] # None
                   PROVE  HasResult(attested[c])'
      BY DEF PasskeysBought
    <2>2. PICK ch \in Challenge : ch = attested[c] /\ HasResult(ch)'
      BY <1>1, <2>1, BoughtKept
    <2>3. QED
      BY <1>1, <2>2 DEF HasResult
  <1>4. CountersSigned'
    BY <1>1 DEF CountersSigned, Grows, Challenge
  <1>5. WrittenIsSpent'
    BY <1>1, SpentKept DEF WrittenIsSpent
  <1>6. QED
    BY <1>2, <1>3, <1>4, <1>5 DEF CounterInv

\* A step of request r that reads the tables and goes on with its answer, or ends.
LEMMA QuietCounterStep ==
    ASSUME IInv, CounterInv, NEW r \in Req, Signed(r)',
           \A q \in Req \ {r} : req'[q] = req[q],
           \A b \in Backend, k \in Key : kv'[b][k] = kv[b][k] \/ kv'[b][k] = None,
           Verified(r)' => \/ InStore(req'[r].answer.challenge)
                           \/ /\ Verified(r) /\ req'[r].answer = req[r].answer
                              /\ PastWrite(r) => PastWrite(r)',
           UNCHANGED <<passkeys, authenticators, issued, results, written, overtaken, replaced>>
    PROVE  CounterInv'
  <1>1. Grows
    BY DEF Grows
  <1>2. \A q \in Req : Verified(q)' =>
              \/ InStore(req'[q].answer.challenge)
              \/ /\ Verified(q) /\ req'[q].answer = req[q].answer
                 /\ PastWrite(q) => PastWrite(q)'
    BY DEF Verified, Registering, LoggingIn, PastWrite
  <1>3. Onward
    BY <1>2, OnwardWithoutResult
  <1>4. AnswersSigned'
    BY AnswersKept DEF CounterInv
  <1>5. QED
    BY <1>1, <1>3, <1>4, CounterStep

\* An answer that ends request r and changes nothing.
LEMMA ReplyCounterStep ==
    ASSUME IInv, CounterInv, NEW r \in Req, Reply(r),
           \A b \in Backend, k \in Key : kv'[b][k] = kv[b][k] \/ kv'[b][k] = None,
           UNCHANGED <<passkeys, authenticators, issued, results, written, overtaken, replaced>>
    PROVE  CounterInv'
  <1>1. req'[r].pc = "done" /\ \A q \in Req \ {r} : req'[q] = req[q]
    BY ReplyEffect DEF IInv
  <1>2. Signed(r)' /\ ~Verified(r)'
    BY <1>1, NothingSigned DEF Verified, Registering, LoggingIn
  <1>3. QED
    BY <1>1, <1>2, QuietCounterStep

----------------------------------------------------------------------------
(* The invariant on counters, action by action *)

\* kv_put of a registration challenge: the one it replaces is in no other place.
LEMMA PutRegistrationCounter ==
    ASSUME IInv, CounterInv, NEW r \in Req, NEW ch \in RegChallenge, PutRegistration(r, ch)
    PROVE  CounterInv'
  <1>1. TypeOK /\ StoreHolds /\ OnePlace
    BY DEF IInv
  <1>2. PICK u \in User : u = req[r].user
    BY DEF PutRegistration, IInv, RequestsHold, Holds
  <1>3. /\ backend \in Backend /\ u \in Key /\ ch \in Challenge /\ now + Ttl \in Nat
        /\ issued[ch] = None /\ issued' = [issued EXCEPT ![ch] = u]
    BY <1>1, <1>2, ConstantsAssumption DEF TypeOK, Key, Challenge, PutRegistration, Unissued
  <1>4. /\ issued'[ch] = u
        /\ \A c \in Challenge : issued[c] # None => issued'[c] = issued[c] /\ c # ch
    BY <1>1, <1>3, IssueEffect DEF Unissued
  <1>5. PICK e \in Entry : e = [challenge |-> ch, creds |-> {}, until |-> now + Ttl]
    BY <1>3 DEF Entry
  <1>6. e.challenge = ch /\ e # None
    BY <1>5, ConstantsAssumption
  <1>7. kv' = kv \/ kv' = [kv EXCEPT ![backend][u] = e]
    BY <1>2, <1>5 DEF PutRegistration, Put
  <1>8. \A b \in Backend, k \in Key : kv'[b][k] = kv[b][k] \/ kv'[b][k] = e
    BY <1>1, <1>3, <1>7, StoreEffect
  <1>9. req'[r].pc = "done" /\ \A q \in Req \ {r} : req'[q] = req[q]
    BY <1>1, ReplyEffect DEF PutRegistration
  <1>10. Signed(r)' /\ ~Verified(r)'
    BY <1>9, NothingSigned DEF Verified, Registering, LoggingIn
  <1>11. Grows
    BY <1>4 DEF Grows, PutRegistration
  <1>12. \A q \in Req : Verified(q)' =>
              /\ Verified(q) /\ req'[q].answer = req[q].answer
              /\ PastWrite(q) => PastWrite(q)'
    BY <1>9, <1>10 DEF Verified, Registering, LoggingIn, PastWrite
  <1>13. results' = results /\ UNCHANGED <<passkeys, authenticators, written, overtaken>>
    BY DEF PutRegistration
  <1>14. Onward
    BY <1>3, <1>6, <1>8, <1>12, <1>13, OnwardWithoutResult
  <1>15. AnswersSigned'
    BY <1>9, <1>10, <1>13, AnswersKept DEF CounterInv
  <1>16. ASSUME NEW old \in replaced' \ replaced
         PROVE  issued'[old] # None /\ ~Alive(old)'
    <2>1. Live(u) # None /\ kv' # kv /\ old = Live(u).challenge
      BY <1>2, <1>16 DEF PutRegistration
    <2>2. kv[backend][u] # None /\ old = kv[backend][u].challenge
      BY <2>1 DEF Live
    <2>3. old \in RegChallenge /\ issued[old] = u /\ old \in Challenge /\ u # None
      BY <1>1, <1>3, <2>2, ConstantsAssumption DEF StoreHolds, StoredAt, Challenge
    <2>4. InStore(old)
      BY <1>3, <2>2 DEF InStore
    <2>5. ~HasResult(old) /\ \A q \in Req : ~WithRequest(old, q)
      BY <1>1, <2>3, <2>4 DEF OnePlace
    <2>6. /\ kv'[backend][u] = e
          /\ \A b \in Backend, k \in Key :
                (b # backend \/ k # u) => kv'[b][k] = kv[b][k]
      BY <1>1, <1>3, <1>7, <2>1, StoreEffect
    <2>7. old # ch
      BY <1>3, <2>3
    <2>8. ~InStore(old)'
      <3>1. SUFFICES ASSUME NEW b \in Backend, NEW k \in Key,
                            kv'[b][k] # None, kv'[b][k].challenge = old
                     PROVE  FALSE
        BY DEF InStore
      <3>2. (b # backend \/ k # u) /\ kv[b][k] # None /\ kv[b][k].challenge = old
        BY <1>6, <2>6, <2>7, <3>1
      <3>3. StoredAt(kv[b][k], k)
        BY <1>1, <3>2 DEF StoreHolds
      <3>4. k = u
        BY <2>3, <3>2, <3>3, ConstantsAssumption DEF StoredAt, Key
      <3>5. QED
        BY <1>1, <1>3, <2>2, <3>2, <3>4 DEF OnePlace, Backend
    <2>9. ~HasResult(old)' /\ \A q \in Req : ~WithRequest(old, q)'
      BY <1>12, <1>13, <2>5 DEF HasResult, WithRequest
    <2>10. QED
      BY <1>4, <2>3, <2>8, <2>9 DEF Alive
  <1>17. QED
    BY <1>11, <1>13, <1>14, <1>15, <1>16, CounterStep

\* kv_put of a login challenge.
LEMMA PutAuthenticationCounter ==
    ASSUME IInv, CounterInv, NEW r \in Req, NEW ch \in LoginChallenge,
           PutAuthentication(r, ch)
    PROVE  CounterInv'
  <1>1. TypeOK
    BY DEF IInv
  <1>2. PICK u \in User : u = req[r].user
    BY DEF PutAuthentication, IInv, RequestsHold, Holds
  <1>3. /\ backend \in Backend /\ ch \in Key /\ ch \in Challenge /\ now + Ttl \in Nat
        /\ req[r].creds \in SUBSET Cred
        /\ issued[ch] = None /\ issued' = [issued EXCEPT ![ch] = u]
    BY <1>1, <1>2, ConstantsAssumption
    DEF TypeOK, Key, Challenge, Request, PutAuthentication, Unissued
  <1>4. \A c \in Challenge : issued[c] # None => issued'[c] = issued[c]
    BY <1>1, <1>3, IssueEffect DEF Unissued
  <1>5. PICK e \in Entry :
            e = [challenge |-> ch, creds |-> req[r].creds, until |-> now + Ttl]
    BY <1>3 DEF Entry
  <1>6. kv' = kv \/ kv' = [kv EXCEPT ![backend][ch] = e]
    BY <1>5 DEF PutAuthentication, Put
  <1>7. \A b \in Backend, k \in Key :
            kv'[b][k] = kv[b][k] \/ issued[kv'[b][k].challenge] = None
    BY <1>1, <1>3, <1>5, <1>6, StoreEffect
  <1>8. req'[r].pc = "done" /\ \A q \in Req \ {r} : req'[q] = req[q]
    BY <1>1, ReplyEffect DEF PutAuthentication
  <1>9. Signed(r)' /\ ~Verified(r)'
    BY <1>8, NothingSigned DEF Verified, Registering, LoggingIn
  <1>10. /\ results' = results /\ replaced' = replaced
         /\ UNCHANGED <<passkeys, authenticators, written, overtaken>>
    BY DEF PutAuthentication
  <1>11. Grows
    BY <1>4, <1>10 DEF Grows
  <1>12. \A q \in Req : Verified(q)' =>
              /\ Verified(q) /\ req'[q].answer = req[q].answer
              /\ PastWrite(q) => PastWrite(q)'
    BY <1>8, <1>9 DEF Verified, Registering, LoggingIn, PastWrite
  <1>13. Onward
    BY <1>7, <1>10, <1>12, OnwardWithoutResult
  <1>14. AnswersSigned'
    BY <1>8, <1>9, <1>10, AnswersKept DEF CounterInv
  <1>15. QED
    BY <1>10, <1>11, <1>13, <1>14, CounterStep

\* An attestation is posted: it is one of an authenticator, with a counter of 0.
LEMMA PostRegistrationCounter ==
    ASSUME IInv, CounterInv, NEW r \in Req, NEW u \in User, NEW c \in Cred,
           PostRegistration(r, u, c)
    PROVE  CounterInv'
  <1>1. PICK a \in Answer : a = [challenge |-> attested[c], cred |-> c, counter |-> 0]
    BY DEF PostRegistration, IInv, TypeOK, Answer
  <1>2. LET x == [Idle EXCEPT !.pc = "takeReg", !.user = u, !.answer = a]
        IN  x \in Request /\ x.pc = "takeReg" /\ x.user = u /\ x.answer = a
    BY IdleRequest DEF Request, Pc
  <1>3. req' = [req EXCEPT ![r] = [Idle EXCEPT !.pc = "takeReg", !.user = u, !.answer = a]]
    BY <1>1 DEF PostRegistration
  <1>4. /\ \A q \in Req \ {r} : req'[q] = req[q]
        /\ req'[r].pc = "takeReg" /\ req'[r].answer = a
    BY <1>2, <1>3, SlotEffect DEF IInv
  <1>5. /\ UNCHANGED <<passkeys, kv, attested, issued, results, written, overtaken, replaced>>
        /\ UNCHANGED authenticators
    BY DEF PostRegistration, history, authenticators
  <1>6. Signed(r)' /\ ~Verified(r)'
    BY <1>1, <1>4, <1>5 DEF Signed, LoggingIn, Verified, Registering
  <1>7. QED
    BY <1>4, <1>5, <1>6, QuietCounterStep

\* kv_take of a registration challenge.
LEMMA TakeRegistrationCounter ==
    ASSUME IInv, CounterInv, NEW r \in Req, TakeRegistration(r)
    PROVE  CounterInv'
  <1>1. PICK k \in User : k = req[r].user
    BY DEF TakeRegistration, IInv, RequestsHold, Holds
  <1>2. k \in Key /\ req[r].pc = "takeReg" /\ backend \in Backend
    BY DEF Key, TakeRegistration, IInv, TypeOK
  <1>3. PICK e : /\ Take(k, e)
                 /\ \/ e # None /\ Attests(e, req[r].answer) /\ Step(r, "insert")
                    \/ ~(e # None /\ Attests(e, req[r].answer)) /\ Reply(r)
    BY <1>1 DEF TakeRegistration
  <1>4. /\ \A b \in Backend, j \in Key : kv'[b][j] = kv[b][j] \/ kv'[b][j] = None
        /\ e # None => e = kv[backend][k]
    BY <1>2, <1>3, TakeEffect DEF IInv
  <1>5. UNCHANGED <<passkeys, authenticators, issued, results, written, overtaken, replaced>>
    BY DEF TakeRegistration, history
  <1>6. CASE e # None /\ Attests(e, req[r].answer) /\ Step(r, "insert")
    <2>1. /\ \A q \in Req \ {r} : req'[q] = req[q]
          /\ req'[r].pc = "insert" /\ req'[r].answer = req[r].answer
      BY <1>6, StepEffect DEF IInv, Pc
    <2>2. Signed(r)'
      BY <1>2, <1>5, <2>1, SignedKept DEF CounterInv, AnswersSigned, authenticators
    <2>3. InStore(req'[r].answer.challenge)
      BY <1>2, <1>4, <1>6, <2>1 DEF Attests, InStore
    <2>4. QED
      BY <1>4, <1>5, <2>1, <2>2, <2>3, QuietCounterStep
  <1>7. CASE Reply(r)
    BY <1>4, <1>5, <1>7, ReplyCounterStep
  <1>8. QED
    BY <1>3, <1>6, <1>7

\* INSERT INTO passkeys: the counter starts at 0, and the challenge is spent.
LEMMA InsertPasskeyCounter ==
    ASSUME IInv, CounterInv, NEW r \in Req, InsertPasskey(r)
    PROVE  CounterInv'
  <1>1. req[r].pc = "insert" /\ TypeOK /\ Signed(r) /\ AnswersSigned
    BY DEF InsertPasskey, IInv, CounterInv, AnswersSigned
  <1>2. PICK a \in Answer : a = req[r].answer
    BY <1>1, ResultHeld
  <1>3. /\ a.cred \in Cred /\ a.challenge \in Challenge
        /\ a.counter = 0 /\ attested[a.cred] = a.challenge
    BY <1>1, <1>2 DEF Answer, Signed
  <1>4. UNCHANGED <<kv, authenticators, issued, written, overtaken, replaced>>
    BY DEF InsertPasskey
  <1>5. CASE passkeys' = passkeys /\ results' = results /\ Reply(r)
    BY <1>4, <1>5, ReplyCounterStep
  <1>6. CASE /\ passkeys[a.cred] = None
             /\ passkeys' = [passkeys EXCEPT ![a.cred] =
                   [user |-> req[r].user, key |-> a.counter, counter |-> a.counter]]
             /\ results' = Append(results, ResultOf(r))
             /\ Reply(r)
    <2>1. /\ passkeys'[a.cred].counter = 0
          /\ \A c \in Cred \ {a.cred} : passkeys'[c] = passkeys[c]
      BY <1>1, <1>3, <1>6 DEF TypeOK
    <2>2. Onward /\ HasResult(a.challenge)'
      <3>1. Onward /\ \A ch \in Challenge : req[r].answer.challenge = ch => HasResult(ch)'
        BY <1>1, <1>4, <1>6, OnwardWithResult
      <3>2. PICK ch \in Challenge : ch = a.challenge
        BY <1>3
      <3>3. HasResult(ch)'
        BY <1>2, <3>1, <3>2
      <3>4. QED
        BY <3>1, <3>2, <3>3 DEF HasResult
    <2>3. /\ Grows /\ attested' = attested /\ sign' = sign /\ asserted' = asserted
          /\ ReplacedIsGone /\ PasskeysBought /\ CountersSigned /\ WrittenIsSpent
      BY <1>3, <1>4, <1>6, <2>1 DEF Grows, authenticators, CounterInv
    <2>4. ReplacedIsGone'
      BY <1>4, <2>2, <2>3, GoneKept DEF ReplacedIsGone
    <2>5. AnswersSigned'
      <3>1. req'[r].pc = "done" /\ \A q \in Req \ {r} : req'[q] = req[q]
        BY <1>1, <1>6, ReplyEffect
      <3>2. Signed(r)'
        BY <3>1, NothingSigned
      <3>3. QED
        BY <1>1, <1>4, <3>1, <3>2, AnswersKept
    <2>6. PasskeysBought'
      <3>1. SUFFICES ASSUME NEW c \in Cred, passkeys'[c] # None
                     PROVE  HasResult(attested[c])'
        BY DEF PasskeysBought
      <3>2. CASE c = a.cred
        BY <1>3, <2>2, <2>3, <3>2 DEF HasResult
      <3>3. CASE c # a.cred
        <4>1. passkeys[c] # None
          BY <2>1, <3>1, <3>3
        <4>2. PICK ch \in Challenge : ch = attested[c] /\ HasResult(ch)'
          BY <2>2, <2>3, <4>1, BoughtKept
        <4>3. QED
          BY <2>3, <4>2 DEF HasResult
      <3>4. QED
        BY <3>2, <3>3
    <2>7. CountersSigned'
      <3>1. \A x \in asserted : x.counter \in Nat /\ x.cred \in Cred
        BY <1>1 DEF TypeOK, Answer
      <3>2. sign \in [Cred -> 0..MaxCounter]
        BY <1>1 DEF TypeOK
      <3>3. ASSUME NEW c \in Cred, passkeys'[c] # None PROVE passkeys'[c].counter <= sign[c]
        BY <2>1, <2>3, <3>2, <3>3 DEF CountersSigned
      <3>4. ASSUME NEW x \in asserted
            PROVE  /\ x.challenge \in LoginChallenge /\ issued[x.challenge] # None
                   /\ x.counter <= sign[x.cred]
                   /\ \/ passkeys'[x.cred] = None
                      \/ passkeys'[x.cred].counter <= x.counter
                      \/ x.challenge \in overtaken \cup written
        BY <2>1, <2>3, <3>1, <3>4 DEF CountersSigned
      <3>5. QED
        BY <1>4, <2>3, <3>3, <3>4 DEF CountersSigned
    <2>8. WrittenIsSpent'
      BY <1>4, <2>2, <2>3, SpentKept DEF WrittenIsSpent
    <2>9. QED
      BY <2>4, <2>5, <2>6, <2>7, <2>8 DEF CounterInv
  <1>7. QED
    BY <1>2, <1>5, <1>6 DEF InsertPasskey

\* The first step of a request, and ListPasskeys: nothing has been read from an
\* authenticator.
LEMMA AskCounter ==
    ASSUME IInv, CounterInv, NEW r \in Req,
           \A q \in Req \ {r} : req'[q] = req[q],
           req'[r].pc \in {"done", "putReg", "list", "putAuth"},
           UNCHANGED <<kv, passkeys, authenticators, history>>
    PROVE  CounterInv'
  <1>1. Signed(r)' /\ ~Verified(r)'
    BY NothingSigned DEF Verified, Registering, LoggingIn
  <1>2. QED
    BY <1>1, QuietCounterStep DEF history

\* kv_take of a login challenge.
LEMMA PostLoginCounter ==
    ASSUME IInv, CounterInv, NEW r \in Req, NEW id \in LoginChallenge, NEW a \in asserted,
           PostLogin(r, id, a)
    PROVE  CounterInv'
  <1>1. PICK x \in Answer : x = a
    BY DEF IInv, TypeOK
  <1>2. id \in Key /\ backend \in Backend /\ req[r].pc = "done"
    BY DEF Key, PostLogin, IInv, TypeOK
  <1>3. PICK e :
            /\ Take(id, e)
            /\ \/ /\ e # None /\ Asserts(e, a)
                  /\ req' = [req EXCEPT ![r] = [Idle EXCEPT !.pc = "find", !.answer = a]]
               \/ req' = req
    BY DEF PostLogin
  <1>4. /\ \A b \in Backend, j \in Key : kv'[b][j] = kv[b][j] \/ kv'[b][j] = None
        /\ e # None => e = kv[backend][id]
    BY <1>2, <1>3, TakeEffect DEF IInv
  <1>5. /\ UNCHANGED <<passkeys, attested, issued, results, written, overtaken, replaced>>
        /\ UNCHANGED authenticators /\ asserted' = asserted
    BY DEF PostLogin, authenticators
  <1>6. CASE /\ e # None /\ Asserts(e, a)
             /\ req' = [req EXCEPT ![r] = [Idle EXCEPT !.pc = "find", !.answer = a]]
    <2>1. LET y == [Idle EXCEPT !.pc = "find", !.answer = x]
          IN  y \in Request /\ y.pc = "find" /\ y.answer = x
      BY IdleRequest DEF Request, Pc
    <2>2. req' = [req EXCEPT ![r] = [Idle EXCEPT !.pc = "find", !.answer = x]]
      BY <1>1, <1>6
    <2>3. /\ \A q \in Req \ {r} : req'[q] = req[q]
          /\ req'[r].pc = "find" /\ req'[r].answer = x
      BY <2>1, <2>2, SlotEffect DEF IInv
    <2>4. Signed(r)'
      BY <1>1, <1>5, <2>3 DEF Signed, LoggingIn
    <2>5. InStore(req'[r].answer.challenge)
      BY <1>1, <1>2, <1>4, <1>6, <2>3 DEF Asserts, InStore
    <2>6. QED
      BY <1>4, <1>5, <2>3, <2>4, <2>5, QuietCounterStep
  <1>7. CASE req' = req
    <2>1. Signed(r)' /\ ~Verified(r)'
      BY <1>2, <1>7, NothingSigned DEF Verified, Registering, LoggingIn
    <2>2. QED
      BY <1>4, <1>5, <1>7, <2>1, QuietCounterStep
  <1>8. QED
    BY <1>3, <1>6, <1>7

\* A login goes on with its answer, after a statement that writes nothing.
LEMMA GoOnCounter ==
    ASSUME IInv, CounterInv, NEW r \in Req, LoggingIn(r), LoggingIn(r)',
           req'[r].answer = req[r].answer, PastWrite(r) => PastWrite(r)',
           \A q \in Req \ {r} : req'[q] = req[q],
           UNCHANGED <<kv, passkeys, authenticators, history>>
    PROVE  CounterInv'
  <1>1. Signed(r)'
    BY DEF Signed, LoggingIn, CounterInv, AnswersSigned, authenticators
  <1>2. Verified(r)
    BY DEF Verified
  <1>3. QED
    BY <1>1, <1>2, QuietCounterStep DEF history

\* authentication_finish, its SELECT.
LEMMA FindPasskeyCounter ==
    ASSUME IInv, CounterInv, NEW r \in Req, FindPasskey(r)
    PROVE  CounterInv'
  <1>1. LoggingIn(r) /\ ~PastWrite(r)
    BY DEF FindPasskey, LoggingIn, PastWrite
  <1>2. PICK u \in User : u = passkeys[req[r].answer.cred].user
    BY <1>1, LoginHeld
  <1>3. LET x == [[req[r] EXCEPT !.pc = "update"] EXCEPT !.user = u]
        IN  x \in Request /\ x.pc = "update" /\ x.answer = req[r].answer
    BY <1>1, LoginHeld DEF Request, Pc
  <1>4. req' = [req EXCEPT ![r] = [[req[r] EXCEPT !.pc = "update"] EXCEPT !.user = u]]
    BY <1>2 DEF FindPasskey
  <1>5. /\ \A q \in Req \ {r} : req'[q] = req[q]
        /\ req'[r].pc = "update" /\ req'[r].answer = req[r].answer
    BY <1>3, <1>4, SlotEffect DEF IInv
  <1>6. LoggingIn(r)'
    BY <1>5 DEF LoggingIn
  <1>7. QED
    BY <1>1, <1>5, <1>6, GoOnCounter DEF FindPasskey

\* require_user
LEMMA RequireUserCounter ==
    ASSUME IInv, CounterInv, NEW r \in Req, RequireUser(r)
    PROVE  CounterInv'
  <1>1. CASE Reply(r)
    BY <1>1, ReplyCounterStep DEF RequireUser, history
  <1>2. CASE Step(r, "openSession")
    <2>1. /\ \A q \in Req \ {r} : req'[q] = req[q]
          /\ req'[r].pc = "openSession" /\ req'[r].answer = req[r].answer
      BY <1>2, StepEffect DEF IInv, Pc
    <2>2. LoggingIn(r) /\ LoggingIn(r)' /\ PastWrite(r)'
      BY <2>1 DEF RequireUser, LoggingIn, PastWrite
    <2>3. QED
      BY <2>1, <2>2, GoOnCounter DEF RequireUser
  <1>3. QED
    BY <1>1, <1>2 DEF RequireUser

\* complete_login
LEMMA OpenSessionCounter ==
    ASSUME IInv, CounterInv, NEW r \in Req, OpenSession(r)
    PROVE  CounterInv'
  <1>1. req[r].pc = "openSession" /\ Reply(r) /\ kv' = kv
        /\ results' = Append(results, ResultOf(r))
    BY DEF OpenSession
  <1>2. UNCHANGED <<passkeys, authenticators, issued, written, overtaken, replaced>>
    BY DEF OpenSession
  <1>3. Onward
    BY <1>1, OnwardWithResult
  <1>4. req'[r].pc = "done" /\ \A q \in Req \ {r} : req'[q] = req[q]
    BY <1>1, ReplyEffect DEF IInv
  <1>5. AnswersSigned'
    BY <1>2, <1>4, NothingSigned, AnswersKept DEF CounterInv
  <1>6. Grows
    BY <1>2 DEF Grows
  <1>7. QED
    BY <1>2, <1>3, <1>5, <1>6, CounterStep

\* A login whose counter is not stored yet: its answer was signed, and if the column is
\* ahead of it, another login has overtaken its challenge.
LEMMA Overtaken ==
    ASSUME IInv, CounterInv, NEW r \in Req, req[r].pc = "update"
    PROVE  /\ req[r].answer \in asserted
           /\ req[r].answer.challenge \notin written
           /\ req[r].answer.challenge \notin overtaken =>
                 passkeys[req[r].answer.cred].counter <= req[r].answer.counter
  <1>1. LoggingIn(r) /\ ~PastWrite(r) /\ Verified(r)
    BY DEF LoggingIn, PastWrite, Verified
  <1>2. PICK a \in Answer : a = req[r].answer
    BY <1>1, LoginHeld
  <1>3. a \in asserted
    BY <1>1, <1>2 DEF CounterInv, AnswersSigned, Signed
  <1>4. WithRequest(a.challenge, r)
    BY <1>1, <1>2 DEF WithRequest
  <1>5. a.challenge \notin written
    BY <1>1, <1>4 DEF CounterInv, WrittenIsSpent
  <1>6. passkeys[a.cred] # None
    BY <1>1, <1>2, LoginHeld, ConstantsAssumption
  <1>7. QED
    BY <1>2, <1>3, <1>5, <1>6 DEF CounterInv, CountersSigned

\* The UPDATE: every login challenge that is open now is overtaken.
LEMMA UpdateCounterCounter ==
    ASSUME IInv, CounterInv, NEW r \in Req, UpdateCounter(r)
    PROVE  CounterInv'
  <1>1. LoggingIn(r) /\ req[r].pc = "update" /\ TypeOK /\ OnePlace /\ Verified(r)
        /\ AnswersSigned /\ ReplacedIsGone /\ PasskeysBought /\ CountersSigned
        /\ WrittenIsSpent
    BY DEF UpdateCounter, LoggingIn, Verified, IInv, CounterInv
  <1>2. PICK a \in Answer : a = req[r].answer
    BY <1>1, LoginHeld
  <1>3. /\ a.cred \in Cred /\ a.counter \in Nat /\ a.challenge \in LoginChallenge
        /\ a.challenge \in Challenge /\ issued[a.challenge] # None
        /\ passkeys[a.cred] \in PasskeyRow /\ passkeys[a.cred] # None
    BY <1>1, <1>2, LoginHeld, ConstantsAssumption
  <1>4. a \in asserted /\ a.counter <= sign[a.cred]
    BY <1>1, <1>2, Overtaken DEF CountersSigned
  <1>5. PICK x \in PasskeyRow : /\ x = Counted(passkeys[a.cred], a)
                               /\ x.counter = a.counter
                               /\ x.user = passkeys[a.cred].user
    <2>1. LET x == Counted(passkeys[a.cred], a)
          IN  x \in PasskeyRow /\ x.counter = a.counter /\ x.user = passkeys[a.cred].user
      BY <1>3 DEF Counted, PasskeyRow
    <2>2. QED
      BY <2>1
  <1>6. passkeys' = [passkeys EXCEPT ![a.cred] = x]
    BY <1>2, <1>5 DEF UpdateCounter
  <1>7. /\ passkeys'[a.cred].counter = a.counter /\ passkeys'[a.cred] # None
        /\ passkeys'[a.cred].user = passkeys[a.cred].user
        /\ \A c \in Cred \ {a.cred} : passkeys'[c] = passkeys[c]
    BY <1>1, <1>3, <1>5, <1>6, ConstantsAssumption DEF TypeOK
  <1>8. /\ kv' = kv /\ issued' = issued /\ results' = results /\ replaced' = replaced
        /\ UNCHANGED authenticators
        /\ sign' = sign /\ attested' = attested /\ asserted' = asserted
        /\ written' = written \cup {a.challenge}
        /\ overtaken' = overtaken \cup (Open \ {a.challenge})
    BY <1>2 DEF UpdateCounter, authenticators
  <1>9. /\ \A q \in Req \ {r} : req'[q] = req[q]
        /\ req'[r].pc = "requireUser" /\ req'[r].answer = req[r].answer
    BY <1>1, StepEffect DEF UpdateCounter, Pc
  <1>10. Grows
    BY <1>7, <1>8 DEF Grows
  <1>11. \A q \in Req : Verified(q)' =>
              /\ Verified(q) /\ req'[q].answer = req[q].answer
              /\ PastWrite(q) => PastWrite(q)'
    BY <1>1, <1>9 DEF Verified, Registering, LoggingIn, PastWrite
  <1>12. Onward
    BY <1>8, <1>11, OnwardWithoutResult
  <1>13. ReplacedIsGone'
    BY <1>1, <1>8, <1>10, <1>12, GoneKept DEF ReplacedIsGone
  <1>14. AnswersSigned'
    <2>1. Signed(r)'
      BY <1>2, <1>4, <1>8, <1>9 DEF Signed, LoggingIn
    <2>2. QED
      BY <1>1, <1>8, <1>9, <2>1, AnswersKept
  <1>15. PasskeysBought'
    <2>1. SUFFICES ASSUME NEW c \in Cred, passkeys'[c] # None
                   PROVE  HasResult(attested[c])'
      BY DEF PasskeysBought
    <2>2. passkeys[c] # None
      BY <1>3, <1>7, <2>1
    <2>3. PICK ch \in Challenge : ch = attested[c] /\ HasResult(ch)'
      BY <1>1, <1>12, <2>2, BoughtKept
    <2>4. QED
      BY <1>8, <2>3 DEF HasResult
  <1>16. CountersSigned'
    <2>1. ASSUME NEW c \in Cred, passkeys'[c] # None
          PROVE  passkeys'[c].counter <= sign[c]
      BY <1>1, <1>4, <1>7, <2>1 DEF CountersSigned
    <2>2. ASSUME NEW y \in asserted
          PROVE  /\ y.challenge \in LoginChallenge /\ issued[y.challenge] # None
                 /\ y.counter <= sign[y.cred]
                 /\ \/ passkeys'[y.cred] = None
                    \/ passkeys'[y.cred].counter <= y.counter
                    \/ y.challenge \in overtaken' \cup written'
      <3>1. /\ y.challenge \in LoginChallenge /\ issued[y.challenge] # None
            /\ y.counter <= sign[y.cred]
        BY <1>1, <2>2 DEF CountersSigned
      <3>2. y.cred \in Cred
        BY <1>1, <2>2 DEF TypeOK, Answer
      <3>3. CASE y.cred = a.cred
        BY <1>8, <3>1, <3>3 DEF Open
      <3>4. CASE y.cred # a.cred
        <4>1. passkeys'[y.cred] = passkeys[y.cred]
          BY <1>7, <3>2, <3>4
        <4>2. QED
          BY <1>1, <1>8, <2>2, <3>1, <4>1 DEF CountersSigned
      <3>5. QED
        BY <3>1, <3>3, <3>4
    <2>3. QED
      BY <1>8, <2>1, <2>2 DEF CountersSigned
  <1>17. WrittenIsSpent'
    <2>1. SUFFICES ASSUME NEW ch \in written'
                   PROVE  /\ issued'[ch] # None /\ ~InStore(ch)'
                          /\ \A q \in Req : WithRequest(ch, q)' => PastWrite(q)'
      BY DEF WrittenIsSpent
    <2>2. CASE ch \in written
      BY <1>1, <1>10, <1>12, <2>2, SpentKept
    <2>3. CASE ch = a.challenge
      <3>1. WithRequest(ch, r)
        BY <1>1, <1>2, <2>3 DEF WithRequest
      <3>2. ~InStore(ch) /\ \A q \in Req \ {r} : ~WithRequest(ch, q)
        BY <1>1, <1>3, <2>3, <3>1 DEF OnePlace
      <3>3. ~InStore(ch)'
        BY <1>8, <3>2 DEF InStore
      <3>4. \A q \in Req : WithRequest(ch, q)' => q = r
        BY <1>11, <3>2 DEF WithRequest
      <3>5. PastWrite(r)'
        BY <1>9 DEF PastWrite
      <3>6. QED
        BY <1>3, <1>8, <2>3, <3>3, <3>4, <3>5
    <2>4. QED
      BY <1>8, <2>1, <2>2, <2>3
  <1>18. QED
    BY <1>13, <1>14, <1>15, <1>16, <1>17 DEF CounterInv

\* A step in which challenges go and requests end, and no authenticator works.
LEMMA OutsideCounter ==
    ASSUME IInv, CounterInv,
           \A b \in Backend, k \in Key : kv'[b][k] = kv[b][k] \/ kv'[b][k] = None,
           \A r \in Req : req'[r] = req[r] \/ req'[r].pc = "done",
           UNCHANGED <<passkeys, authenticators, history>>
    PROVE  CounterInv'
  <1>1. \A r \in Req : Verified(r)' =>
              /\ Verified(r) /\ req'[r].answer = req[r].answer
              /\ PastWrite(r) => PastWrite(r)'
    BY DEF Verified, Registering, LoggingIn, PastWrite
  <1>2. Grows /\ results' = results /\ replaced' = replaced /\ written' = written
        /\ overtaken' = overtaken /\ attested' = attested /\ asserted' = asserted
    BY DEF Grows, history, authenticators
  <1>3. Onward
    BY <1>1, <1>2, OnwardWithoutResult
  <1>4. AnswersSigned'
    BY <1>2 DEF AnswersSigned, Signed, LoggingIn, CounterInv
  <1>5. QED
    BY <1>2, <1>3, <1>4, CounterStep

\* An authenticator works: the server is where it was.
LEMMA AuthenticatorCounter ==
    ASSUME IInv, CounterInv, UNCHANGED <<server, history>>,
           \A c \in Cred : attested[c] # None => attested'[c] = attested[c],
           asserted \subseteq asserted', CountersSigned'
    PROVE  CounterInv'
  <1>1. /\ kv' = kv /\ passkeys' = passkeys /\ req' = req /\ issued' = issued
        /\ results' = results /\ written' = written /\ replaced' = replaced
    BY DEF server, history
  <1>2. /\ AnswersSigned /\ ReplacedIsGone /\ PasskeysBought /\ WrittenIsSpent
        /\ Grows
    BY <1>1 DEF CounterInv, Grows
  <1>3. \A r \in Req : Verified(r)' =>
              /\ Verified(r) /\ req'[r].answer = req[r].answer
              /\ PastWrite(r) => PastWrite(r)'
    BY <1>1 DEF Verified, Registering, LoggingIn, PastWrite
  <1>4. Onward
    BY <1>1, <1>3, OnwardWithoutResult
  <1>5. ReplacedIsGone' /\ WrittenIsSpent'
    BY <1>1, <1>2, <1>4, GoneKept, SpentKept DEF ReplacedIsGone, WrittenIsSpent
  <1>6. AnswersSigned'
    <2>1. ASSUME NEW r \in Req PROVE Signed(r)'
      BY <1>1, <1>2, <2>1, SignedKept DEF AnswersSigned
    <2>2. QED
      BY <2>1 DEF AnswersSigned
  <1>7. PasskeysBought'
    <2>1. SUFFICES ASSUME NEW c \in Cred, passkeys[c] # None
                   PROVE  HasResult(attested[c])'
      BY <1>1 DEF PasskeysBought
    <2>2. PICK ch \in Challenge : ch = attested[c] /\ HasResult(ch)'
      BY <1>2, <1>4, <2>1, BoughtKept
    <2>3. attested'[c] = ch
      BY <2>2, ConstantsAssumption DEF Challenge
    <2>4. QED
      BY <2>2, <2>3 DEF HasResult
  <1>8. QED
    BY <1>5, <1>6, <1>7 DEF CounterInv

\* An authenticator makes a credential, once.
LEMMA AttestCounter ==
    ASSUME IInv, CounterInv, NEW ch \in RegChallenge, NEW c \in Cred, Attest(ch, c)
    PROVE  CounterInv'
  <1>1. \A d \in Cred : attested[d] # None => attested'[d] = attested[d]
    BY DEF Attest, IInv, TypeOK
  <1>2. CountersSigned'
    BY DEF CounterInv, CountersSigned, Attest, server, history
  <1>3. QED
    BY <1>1, <1>2, AuthenticatorCounter DEF Attest

\* An authenticator signs with a counter above all it has used.
LEMMA SignCounter ==
    ASSUME IInv, CounterInv, NEW ch \in LoginChallenge, NEW c \in Cred, Sign(ch, c)
    PROVE  CounterInv'
  <1>1. TypeOK /\ CountersSigned
    BY DEF IInv, CounterInv
  <1>2. PICK n \in 0..MaxCounter : n = sign[c] + 1
    BY <1>1, ConstantsAssumption DEF Sign, TypeOK
  <1>3. PICK x : x = [challenge |-> ch, cred |-> c, counter |-> n]
    OBVIOUS
  <1>4. sign' = [sign EXCEPT ![c] = n] /\ asserted' = asserted \cup {x}
    BY <1>2, <1>3 DEF Sign
  <1>5. /\ sign \in [Cred -> 0..MaxCounter] /\ MaxCounter \in Nat
        /\ \A d \in Cred : passkeys[d] # None => passkeys[d].counter \in Nat
        /\ \A a \in asserted : a.cred \in Cred /\ a.counter \in Nat
    BY <1>1, ConstantsAssumption DEF TypeOK, PasskeyRow, Answer
  <1>6. sign'[c] = n /\ \A d \in Cred : sign[d] <= sign'[d]
    BY <1>2, <1>4, <1>5
  <1>7. /\ passkeys' = passkeys /\ issued' = issued
        /\ overtaken' = overtaken /\ written' = written
    BY DEF Sign, server, history
  <1>8. ASSUME NEW d \in Cred, passkeys[d] # None
        PROVE  passkeys[d].counter <= sign'[d]
    BY <1>1, <1>4, <1>5, <1>6, <1>8 DEF CountersSigned
  <1>9. ASSUME NEW a \in asserted'
        PROVE  /\ a.challenge \in LoginChallenge /\ issued[a.challenge] # None
               /\ a.counter <= sign'[a.cred]
               /\ \/ passkeys[a.cred] = None
                  \/ passkeys[a.cred].counter <= a.counter
                  \/ a.challenge \in overtaken \cup written
    <2>1. CASE a \in asserted
      <3>1. sign[a.cred] <= sign'[a.cred] /\ a.counter <= sign[a.cred]
            /\ a.counter \in Nat /\ sign[a.cred] \in Nat /\ sign'[a.cred] \in Nat
        BY <1>1, <1>2, <1>4, <1>5, <1>6, <2>1 DEF CountersSigned
      <3>2. a.counter <= sign'[a.cred]
        BY <3>1
      <3>3. QED
        BY <1>1, <2>1, <3>2 DEF CountersSigned
    <2>2. CASE a = x
      <3>1. a.challenge = ch /\ a.cred = c /\ a.counter = n
        BY <1>3, <2>2
      <3>2. issued[ch] # None
        BY DEF Sign, Unissued
      <3>3. passkeys[c] # None => passkeys[c].counter <= n
        BY <1>6, <1>8
      <3>4. QED
        BY <1>2, <1>6, <3>1, <3>2, <3>3
    <2>3. QED
      BY <1>4, <1>9, <2>1, <2>2
  <1>10. CountersSigned'
    BY <1>7, <1>8, <1>9 DEF CountersSigned
  <1>11. asserted \subseteq asserted' /\ attested' = attested
    BY <1>4 DEF Sign
  <1>12. QED
    BY <1>10, <1>11, AuthenticatorCounter DEF Sign

\* The invariant on counters holds at the first start.
LEMMA CounterInitially == Init => CounterInv
  <1>1. SUFFICES ASSUME Init PROVE CounterInv
    OBVIOUS
  <1>2. \A r \in Req : req[r].pc = "done"
    BY <1>1, IdleRequest DEF Init
  <1>3. AnswersSigned
    BY <1>2 DEF AnswersSigned, Signed, LoggingIn
  <1>4. QED
    BY <1>1, <1>3 DEF Init, CounterInv, ReplacedIsGone, PasskeysBought, CountersSigned,
                      WrittenIsSpent

\* Every step keeps the invariant on counters.
LEMMA CounterInductive == IInv /\ CounterInv /\ [Next]_vars => CounterInv'
  <1>1. SUFFICES ASSUME IInv, CounterInv, [Next]_vars PROVE CounterInv'
    OBVIOUS
  <1>2. CASE UNCHANGED vars
    BY <1>1, <1>2, OutsideCounter DEF vars, server
  <1>3. ASSUME NEW r \in Req, Registration(r) PROVE CounterInv'
    <2>1. ASSUME NEW u \in User, AskRegistration(r, u) PROVE CounterInv'
      <3>1. /\ \A q \in Req \ {r} : req'[q] = req[q]
            /\ req'[r].pc = "putReg"
        BY <1>1, <2>1, StartEffect DEF AskRegistration, IInv, Pc
      <3>2. QED
        BY <1>1, <2>1, <3>1, AskCounter DEF AskRegistration
    <2>2. ASSUME NEW ch \in RegChallenge, PutRegistration(r, ch) PROVE CounterInv'
      BY <1>1, <2>2, PutRegistrationCounter
    <2>3. ASSUME NEW u \in User, NEW c \in Cred, PostRegistration(r, u, c)
          PROVE  CounterInv'
      BY <1>1, <2>3, PostRegistrationCounter
    <2>4. CASE TakeRegistration(r)
      BY <1>1, <2>4, TakeRegistrationCounter
    <2>5. CASE InsertPasskey(r)
      BY <1>1, <2>5, InsertPasskeyCounter
    <2>6. QED
      BY <1>3, <2>1, <2>2, <2>3, <2>4, <2>5 DEF Registration
  <1>4. ASSUME NEW r \in Req, PasskeyLogin(r) PROVE CounterInv'
    <2>1. ASSUME NEW u \in User, AskLogin(r, u) PROVE CounterInv'
      <3>1. /\ \A q \in Req \ {r} : req'[q] = req[q]
            /\ req'[r].pc = "list"
        BY <1>1, <2>1, StartEffect DEF AskLogin, IInv, Pc
      <3>2. QED
        BY <1>1, <2>1, <3>1, AskCounter DEF AskLogin
    <2>2. CASE ListPasskeys(r)
      <3>1. PICK cs \in SUBSET Cred : cs = CredsOf(req[r].user)
        BY DEF CredsOf
      <3>2. CASE Reply(r)
        BY <1>1, <2>2, <3>2, ReplyCounterStep DEF ListPasskeys, history
      <3>3. CASE req' = [req EXCEPT ![r].pc = "putAuth", ![r].creds = cs]
        <4>1. req[r] \in Request
          BY <1>1 DEF IInv, TypeOK
        <4>2. LET x == [[req[r] EXCEPT !.pc = "putAuth"] EXCEPT !.creds = cs]
              IN  x \in Request /\ x.pc = "putAuth"
          BY <4>1 DEF Request, Pc
        <4>3. req' = [req EXCEPT ![r] = [[req[r] EXCEPT !.pc = "putAuth"] EXCEPT !.creds = cs]]
          BY <3>3
        <4>4. req'[r].pc = "putAuth" /\ \A q \in Req \ {r} : req'[q] = req[q]
          BY <1>1, <4>2, <4>3, SlotEffect DEF IInv
        <4>5. QED
          BY <1>1, <2>2, <4>4, AskCounter DEF ListPasskeys
      <3>4. QED
        BY <2>2, <3>1, <3>2, <3>3 DEF ListPasskeys
    <2>3. ASSUME NEW ch \in LoginChallenge, PutAuthentication(r, ch) PROVE CounterInv'
      BY <1>1, <2>3, PutAuthenticationCounter
    <2>4. ASSUME NEW id \in LoginChallenge, NEW a \in asserted, PostLogin(r, id, a)
          PROVE  CounterInv'
      BY <1>1, <2>4, PostLoginCounter
    <2>5. CASE FindPasskey(r)
      BY <1>1, <2>5, FindPasskeyCounter
    <2>6. CASE UpdateCounter(r)
      BY <1>1, <2>6, UpdateCounterCounter
    <2>7. CASE RequireUser(r)
      BY <1>1, <2>7, RequireUserCounter
    <2>8. CASE OpenSession(r)
      BY <1>1, <2>8, OpenSessionCounter
    <2>9. QED
      BY <1>4, <2>1, <2>2, <2>3, <2>4, <2>5, <2>6, <2>7, <2>8 DEF PasskeyLogin
  <1>5. ASSUME NEW r \in Req, Abort(r) PROVE CounterInv'
    BY <1>1, <1>5, ReplyCounterStep DEF Abort, history
  <1>6. CASE Restart
    <2>1. \A b \in Backend, k \in Key : kv'[b][k] = kv[b][k] \/ kv'[b][k] = None
      BY <1>1, <1>6 DEF IInv, TypeOK, Restart
    <2>2. \A r \in Req : req'[r].pc = "done"
      BY <1>6, IdleRequest DEF Restart
    <2>3. QED
      BY <1>1, <1>6, <2>1, <2>2, OutsideCounter DEF Restart
  <1>7. ASSUME NEW u \in User, SoftDelete(u) PROVE CounterInv'
    BY <1>1, <1>7, OutsideCounter DEF SoftDelete
  <1>8. ASSUME NEW ch \in RegChallenge, NEW c \in Cred, Attest(ch, c) PROVE CounterInv'
    BY <1>1, <1>8, AttestCounter
  <1>9. ASSUME NEW ch \in LoginChallenge, NEW c \in Cred, Sign(ch, c) PROVE CounterInv'
    BY <1>1, <1>9, SignCounter
  <1>10. CASE Tick
    BY <1>1, <1>10, OutsideCounter DEF Tick, server
  <1>11. QED
    BY <1>1, <1>2, <1>3, <1>4, <1>5, <1>6, <1>7, <1>8, <1>9, <1>10 DEF Next

\* Replaced challenges are gone, answers are those of authenticators, passkeys are bought
\* with the challenge of their credential, and counters are behind what was signed for a
\* challenge nobody has overtaken, together.
THEOREM CounterInvariance == Spec => []CounterInv
  BY CounterInitially, CounterInductive, Invariance, PTL DEF Spec

\* A challenge that the store in use replaced by a later one of the same user registers
\* nothing, however requests, restarts, changes of the store and lost commands interleave.
THEOREM ReplacedNothing == Spec => []ReplacedRegistersNothing
  <1>1. CounterInv => ReplacedRegistersNothing
    <2>1. SUFFICES ASSUME CounterInv, NEW c \in Cred, passkeys[c] # None
                   PROVE  attested[c] \notin replaced
      BY DEF ReplacedRegistersNothing
    <2>2. HasResult(attested[c])
      BY <2>1 DEF CounterInv, PasskeysBought
    <2>3. QED
      BY <2>1, <2>2 DEF CounterInv, ReplacedIsGone, Alive
  <1>2. QED
    BY <1>1, CounterInvariance, PTL

\* What a step that puts a counter back is.
NotBack ==
    \A c \in Cred :
        passkeys[c] # None /\ passkeys[c].counter > passkeys'[c].counter =>
            \E r \in Req : /\ req[r].pc = "update"
                           /\ req[r].answer.cred = c
                           /\ req[r].answer.challenge \in overtaken

\* Only the UPDATE of a login that another one has overtaken puts a counter back.
LEMMA CounterGoesBack ==
    IInv /\ CounterInv /\ [Next]_vars => [NotBack]_vars
  <1>1. SUFFICES ASSUME IInv, CounterInv, Next PROVE NotBack
    OBVIOUS
  <1>2. SUFFICES ASSUME NEW c \in Cred, passkeys[c] # None,
                        passkeys[c].counter > passkeys'[c].counter
                 PROVE  \E r \in Req : /\ req[r].pc = "update"
                                       /\ req[r].answer.cred = c
                                       /\ req[r].answer.challenge \in overtaken
    BY DEF NotBack
  <1>3. passkeys \in [Cred -> PasskeyRow \cup {None}] /\ passkeys[c].counter \in Nat
    BY <1>1, <1>2 DEF IInv, TypeOK, PasskeyRow
  <1>4. passkeys'[c] # passkeys[c]
    BY <1>2, <1>3
  <1>5. ASSUME NEW r \in Req, InsertPasskey(r) PROVE FALSE
    BY <1>2, <1>3, <1>4, <1>5 DEF InsertPasskey
  <1>6. PICK r \in Req : UpdateCounter(r)
    BY <1>1, <1>4, <1>5
    DEF Next, Registration, PasskeyLogin, AskRegistration, PutRegistration,
        PostRegistration, TakeRegistration, AskLogin, ListPasskeys, PutAuthentication,
        PostLogin, FindPasskey, RequireUser, OpenSession, Abort, Restart, SoftDelete,
        Attest, Sign, Tick, server
  <1>7. req[r].pc = "update" /\ LoggingIn(r)
    BY <1>6 DEF UpdateCounter, LoggingIn
  <1>8. PICK a \in Answer : a = req[r].answer
    BY <1>1, <1>7, LoginHeld
  <1>9. /\ a.cred \in Cred /\ a.counter \in Nat
        /\ passkeys' = [passkeys EXCEPT ![a.cred] = Counted(passkeys[a.cred], a)]
        /\ passkeys[a.cred] \in PasskeyRow
    BY <1>1, <1>6, <1>7, <1>8, LoginHeld DEF UpdateCounter
  <1>10. a.cred = c
    BY <1>3, <1>4, <1>9
  <1>11. passkeys'[c].counter = a.counter
    BY <1>3, <1>9, <1>10 DEF Counted, PasskeyRow
  <1>12. ~(passkeys[a.cred].counter <= a.counter)
    BY <1>2, <1>3, <1>9, <1>10, <1>11
  <1>13. a.challenge \in overtaken
    BY <1>1, <1>7, <1>8, <1>12, Overtaken
  <1>14. QED
    BY <1>7, <1>8, <1>10, <1>13

\* A stored counter goes back only by a login that another one overtook, however the
\* statements of the logins interleave.
THEOREM CounterFalls == Spec => CounterFallsOnlyWhenOvertaken
  <1>1. [NotBack]_vars => [\A c \in Cred :
            passkeys[c] # None /\ passkeys[c].counter > passkeys'[c].counter =>
                \E r \in Req : /\ req[r].pc = "update"
                               /\ req[r].answer.cred = c
                               /\ req[r].answer.challenge \in overtaken]_vars
    BY DEF NotBack
  <1>2. QED
    BY <1>1, CounterGoesBack, CounterInvariance, Invariance, PTL
    DEF Spec, CounterFallsOnlyWhenOvertaken
=============================================================================
