------------------------- MODULE AccessTokensProofs -------------------------
(***************************************************************************)
(* Proofs about AccessTokens for every set of users, sessions, tokens and  *)
(* requests, and every value of the three lifetimes.                       *)
(***************************************************************************)
EXTENDS AccessTokens, TLAPS

----------------------------------------------------------------------------
(* The inductive invariant *)

\* No token is dated later than now.
TokensDated == \A j \in Jti : Issued(j) => issued[j].iat <= now

\* A row of revoked_jti is about a token and lasts BlacklistTtl from its signature, or longer.
RowsDated ==
    \A j \in Jti :
        blacklist[j] # None =>
            Issued(j) /\ blacklist[j] >= issued[j].iat + BlacklistTtl

\* Once a session is revoked and nothing is granting for it, that stays so, and its
\* tokens are no younger than that moment.
QuietIsFinal ==
    \A s \in Sid :
        quiet[s] # None =>
            /\ status[s] = "revoked"
            /\ NobodyGrants(req, s)
            /\ quiet[s] <= now
            /\ \A j \in Jti : Issued(j) /\ issued[j].sid = s => issued[j].iat <= quiet[s]

\* The request has a verified token.
Presents(r) == req[r].pc \in {"checkJti", "checkUser", "handle", "blacklist"}

\* What the request knows of its token, and what the marks say of the tables.
Presented(r) ==
    /\ req[r].jti \in Jti
    /\ Issued(req[r].jti)
    /\ req[r].sid = issued[req[r].jti].sid
    /\ req[r].at <= issued[req[r].jti].iat + AccessTtl + Leeway
    /\ "listed" \in req[r].marks => blacklist[req[r].jti] # None
    /\ "orphan" \in req[r].marks => Owner[req[r].sid] \in deleted

\* What each check of require_auth has established.
Passed(r) ==
    /\ (req[r].pc \in {"checkUser", "handle", "blacklist"} /\ "listed" \in req[r].marks)
           => req[r].at >= issued[req[r].jti].iat + BlacklistTtl
    /\ req[r].pc \in {"handle", "blacklist"} => "orphan" \notin req[r].marks

Knows(r) ==
    /\ req[r].pc = "grant" => req[r].sid \in Sid
    /\ Presents(r) => Presented(r)
    /\ Passed(r)

RequestsKnow == \A r \in Req : Knows(r)

IInv == TypeOK /\ TokensDated /\ RowsDated /\ QuietIsFinal /\ RequestsKnow

----------------------------------------------------------------------------
(* The slot of a request *)

\* Request r goes on with the record x; the others are left alone.
LEMMA SlotEffect ==
    ASSUME TypeOK, NEW r \in Req, NEW x \in Request, req' = [req EXCEPT ![r] = x]
    PROVE  /\ req' \in [Req -> Request]
           /\ \A q \in Req \ {r} : req'[q] = req[q]
           /\ req'[r] = x
  BY DEF TypeOK

\* An idle slot.
LEMMA IdleRequest ==
    /\ Idle \in Request
    /\ Idle.pc = "done"
  BY DEF Idle, Request, Pc, Kind, Mark

\* Request r is answered.
LEMMA DropEffect ==
    ASSUME TypeOK, NEW r \in Req, Drop(r)
    PROVE  /\ req' \in [Req -> Request]
           /\ \A q \in Req \ {r} : req'[q] = req[q]
           /\ req'[r].pc = "done"
  BY IdleRequest, SlotEffect DEF Drop

\* Request r goes on with its next statement.
LEMMA GotoEffect ==
    ASSUME TypeOK, NEW r \in Req, NEW pc \in Pc, req' = [req EXCEPT ![r].pc = pc]
    PROVE  /\ req' \in [Req -> Request]
           /\ \A q \in Req \ {r} : req'[q] = req[q]
           /\ req'[r].pc = pc
           /\ req'[r].jti = req[r].jti /\ req'[r].sid = req[r].sid
           /\ req'[r].at = req[r].at /\ req'[r].marks = req[r].marks
  <1>1. [req[r] EXCEPT !.pc = pc] \in Request
    BY DEF TypeOK, Request
  <1>2. /\ [req[r] EXCEPT !.pc = pc].pc = pc
        /\ [req[r] EXCEPT !.pc = pc].jti = req[r].jti
        /\ [req[r] EXCEPT !.pc = pc].sid = req[r].sid
        /\ [req[r] EXCEPT !.pc = pc].at = req[r].at
        /\ [req[r] EXCEPT !.pc = pc].marks = req[r].marks
    BY DEF TypeOK, Request
  <1>3. QED
    BY <1>1, <1>2 DEF TypeOK

\* The record with which a token is about to be granted.
LEMMA GrantRequest ==
    ASSUME NEW s \in Sid
    PROVE  LET x == [Idle EXCEPT !.pc = "grant", !.sid = s]
           IN  x \in Request /\ x.pc = "grant" /\ x.sid = s
  BY DEF Idle, Request, Pc, Kind, Mark

----------------------------------------------------------------------------
(* What steps have in common *)

\* Tokens, rows of revoked_jti and deletions are never taken back.
TablesGrow ==
    /\ \A j \in Jti : Issued(j) => issued'[j] = issued[j]
    /\ \A j \in Jti : blacklist[j] # None => blacklist'[j] # None
    /\ deleted \subseteq deleted'

\* A request that a step leaves alone knows what it knew.
LEMMA KnowsKept ==
    ASSUME NEW q \in Req, Knows(q), req'[q] = req[q], TablesGrow
    PROVE  Knows(q)'
  BY DEF Knows, Presents, Presented, Passed, TablesGrow, Issued

\* A request that is answered knows nothing.
LEMMA KnowsDone ==
    ASSUME NEW r \in Req, req'[r].pc = "done"
    PROVE  Knows(r)'
  BY DEF Knows, Presents, Passed

\* The requests after a step of r, when r itself knows what it should.
LEMMA OthersKnow ==
    ASSUME RequestsKnow, NEW r \in Req, \A q \in Req \ {r} : req'[q] = req[q],
           TablesGrow, Knows(r)'
    PROVE  RequestsKnow'
  BY KnowsKept DEF RequestsKnow

\* A revoked session stays revoked.
StaysRevoked == \A s \in Sid : status[s] = "revoked" => status'[s] = "revoked"

\* A request that is to be given a token was so before, or its session is not revoked.
GrantsAreKnown ==
    \A q \in Req :
        req'[q].pc = "grant" => req'[q] = req[q] \/ status[req'[q].sid] # "revoked"

\* A new token was about to be granted, and is dated now.
TokensAreGranted ==
    \A j \in Jti :
        issued'[j] # issued[j] =>
            issued'[j].iat = now /\ ~NobodyGrants(req, issued'[j].sid)

\* The four facts that make a quiet session stay quiet.
LEMMA QuietKept ==
    ASSUME TypeOK, TokensDated, QuietIsFinal, Remember, now' \in Nat, now <= now',
           StaysRevoked, GrantsAreKnown, TokensAreGranted
    PROVE  QuietIsFinal'
  <1>1. SUFFICES ASSUME NEW s \in Sid, quiet'[s] # None
                 PROVE  /\ status'[s] = "revoked"
                        /\ NobodyGrants(req', s)
                        /\ quiet'[s] <= now'
                        /\ \A j \in Jti : issued'[j] # None /\ issued'[j].sid = s
                                              => issued'[j].iat <= quiet'[s]
    BY DEF QuietIsFinal, NobodyGrants, Issued
  <1>2. CASE quiet[s] = None
    <2>1. status'[s] = "revoked" /\ NobodyGrants(req', s) /\ quiet'[s] = now
      BY <1>1, <1>2 DEF Remember
    <2>2. \A j \in Jti : issued'[j] # None => issued'[j].iat <= now
      BY DEF TokensDated, TokensAreGranted, Issued, TypeOK
    <2>3. QED
      BY <2>1, <2>2
  <1>3. CASE quiet[s] # None
    <2>1. /\ status[s] = "revoked" /\ NobodyGrants(req, s) /\ quiet[s] <= now
          /\ \A j \in Jti : issued[j] # None /\ issued[j].sid = s
                                => issued[j].iat <= quiet[s]
      BY <1>3 DEF QuietIsFinal, Issued
    <2>2. quiet'[s] = quiet[s] /\ quiet[s] \in Nat
      BY <1>3 DEF Remember, TypeOK
    <2>3. NobodyGrants(req', s)
      BY <2>1 DEF NobodyGrants, GrantsAreKnown
    <2>4. \A j \in Jti : issued'[j] # None /\ issued'[j].sid = s => issued'[j] = issued[j]
      BY <2>1 DEF TokensAreGranted
    <2>5. status'[s] = "revoked"
      BY <2>1 DEF StaysRevoked
    <2>6. quiet'[s] <= now'
      BY <2>1, <2>2 DEF TypeOK
    <2>7. QED
      BY <2>1, <2>2, <2>3, <2>4, <2>5, <2>6
  <1>4. QED
    BY <1>2, <1>3

\* quiet keeps its type.
LEMMA RememberTypes ==
    ASSUME TypeOK, Remember
    PROVE  quiet' \in [Sid -> Nat \cup {None}]
  BY DEF TypeOK, Remember

\* A step that changes nothing but sessions and requests.
LEMMA StatusStep ==
    ASSUME IInv, UNCHANGED <<now, issued, blacklist, deleted>>,
           status' \in [Sid -> {"absent", "live", "expired", "revoked"}], StaysRevoked,
           req' \in [Req -> Request], GrantsAreKnown, RequestsKnow',
           Remember
    PROVE  IInv'
  <1>1. TypeOK'
    BY RememberTypes DEF IInv, TypeOK
  <1>2. TokensDated' /\ RowsDated'
    BY DEF IInv, TokensDated, RowsDated, Issued
  <1>3. TokensAreGranted /\ now' \in Nat /\ now <= now'
    BY DEF TokensAreGranted, IInv, TypeOK
  <1>4. QuietIsFinal'
    BY <1>3, QuietKept DEF IInv
  <1>5. QED
    BY <1>1, <1>2, <1>4 DEF IInv

\* A step of request r that reads.
LEMMA ReadStep ==
    ASSUME IInv, NEW r \in Req, UNCHANGED <<now, tables>>,
           req' \in [Req -> Request], \A q \in Req \ {r} : req'[q] = req[q],
           req'[r].pc # "grant", Knows(r)', Remember
    PROVE  IInv'
  <1>1. UNCHANGED <<now, status, issued, blacklist, deleted>>
    BY DEF tables
  <1>2. TablesGrow /\ StaysRevoked /\ GrantsAreKnown
    BY <1>1 DEF TablesGrow, StaysRevoked, GrantsAreKnown
  <1>3. RequestsKnow'
    BY <1>2, OthersKnow DEF IInv
  <1>4. status' \in [Sid -> {"absent", "live", "expired", "revoked"}]
    BY <1>1 DEF IInv, TypeOK
  <1>5. QED
    BY <1>1, <1>2, <1>3, <1>4, StatusStep

\* A request is answered, and nothing else happens.
LEMMA AnswerStep ==
    ASSUME IInv, NEW r \in Req, UNCHANGED <<now, tables>>, Drop(r), Remember
    PROVE  IInv'
  <1>1. /\ req' \in [Req -> Request]
        /\ \A q \in Req \ {r} : req'[q] = req[q]
        /\ req'[r].pc = "done"
    BY DropEffect DEF IInv
  <1>2. Knows(r)'
    BY <1>1, KnowsDone
  <1>3. QED
    BY <1>1, <1>2, ReadStep

\* A step that leaves the requests alone.
LEMMA BackgroundStep ==
    ASSUME IInv, UNCHANGED <<now, issued, blacklist, deleted, req>>,
           status' \in [Sid -> {"absent", "live", "expired", "revoked"}], StaysRevoked,
           Remember
    PROVE  IInv'
  <1>1. TablesGrow /\ GrantsAreKnown
    BY DEF TablesGrow, GrantsAreKnown
  <1>2. RequestsKnow'
    BY <1>1, KnowsKept DEF IInv, RequestsKnow
  <1>3. req' \in [Req -> Request]
    BY DEF IInv, TypeOK
  <1>4. QED
    BY <1>1, <1>2, <1>3, StatusStep

\* Flagging rows keeps the others as they are.
LEMMA RevokeRowsEffect ==
    ASSUME TypeOK, NEW S, status' = RevokeRows(S)
    PROVE  /\ status' \in [Sid -> {"absent", "live", "expired", "revoked"}]
           /\ StaysRevoked
  BY DEF TypeOK, RevokeRows, StaysRevoked

----------------------------------------------------------------------------
(* Requests that obtain a token *)

\* A session that is revoked admits nobody.
LEMMA AdmitKeeps ==
    ASSUME IInv, NEW r \in Req, NEW s \in Sid, Admit(r, s)
    PROVE  IInv'
  <1>1. PICK x \in Request : /\ x.pc = "grant" /\ x.sid = s
                             /\ req' = [req EXCEPT ![r] = x]
    <2>1. LET x == [Idle EXCEPT !.pc = "grant", !.sid = s]
          IN  x \in Request /\ x.pc = "grant" /\ x.sid = s
      BY GrantRequest
    <2>2. QED
      BY <2>1 DEF Admit
  <1>2. /\ req' \in [Req -> Request]
        /\ \A q \in Req \ {r} : req'[q] = req[q]
        /\ req'[r].pc = "grant" /\ req'[r].sid = s
    BY <1>1, SlotEffect DEF IInv
  <1>3. /\ UNCHANGED <<now, issued, blacklist, deleted>> /\ Remember
        /\ status[s] # "revoked" /\ status' = [status EXCEPT ![s] = "live"]
    BY DEF Admit
  <1>4. TablesGrow /\ StaysRevoked /\ GrantsAreKnown
    BY <1>2, <1>3 DEF TablesGrow, StaysRevoked, GrantsAreKnown, IInv, TypeOK
  <1>5. Knows(r)'
    BY <1>2 DEF Knows, Presents, Passed
  <1>6. RequestsKnow'
    BY <1>2, <1>4, <1>5, OthersKnow DEF IInv
  <1>7. status' \in [Sid -> {"absent", "live", "expired", "revoked"}]
    BY <1>3 DEF IInv, TypeOK
  <1>8. QED
    BY <1>2, <1>3, <1>4, <1>6, <1>7, StatusStep

\* Prolonging an expired session brings no revoked one back.
LEMMA ProlongKeeps ==
    ASSUME IInv, NEW r \in Req, Prolong(r)
    PROVE  IInv'
  <1>1. /\ UNCHANGED <<now, issued, blacklist, deleted, req>> /\ Remember
        /\ status[req[r].sid] = "expired"
        /\ status' = [status EXCEPT ![req[r].sid] = "live"]
    BY DEF Prolong
  <1>2. /\ status' \in [Sid -> {"absent", "live", "expired", "revoked"}]
        /\ StaysRevoked
    BY <1>1 DEF IInv, TypeOK, StaysRevoked
  <1>3. QED
    BY <1>1, <1>2, BackgroundStep

\* A granted token is dated now, and its session was not quiet.
LEMMA GrantKeeps ==
    ASSUME IInv, NEW r \in Req, NEW j \in Jti, Grant(r, j)
    PROVE  IInv'
  <1>1. /\ req[r].pc = "grant" /\ req[r].sid \in Sid /\ ~Issued(j)
        /\ UNCHANGED <<now, status, blacklist, deleted>> /\ Remember
        /\ issued' = [issued EXCEPT ![j] = [sid |-> req[r].sid, iat |-> now]]
    BY DEF Grant, IInv, RequestsKnow, Knows
  <1>2. /\ req' \in [Req -> Request]
        /\ \A q \in Req \ {r} : req'[q] = req[q]
        /\ req'[r].pc = "done"
    BY DropEffect DEF IInv, Grant
  <1>3. /\ issued' \in [Jti -> Token \cup {None}]
        /\ issued'[j].sid = req[r].sid /\ issued'[j].iat = now /\ issued'[j] # None
        /\ \A k \in Jti \ {j} : issued'[k] = issued[k]
    BY <1>1, ConstantsAssumption DEF IInv, TypeOK, Token
  <1>4. TypeOK'
    BY <1>1, <1>2, <1>3, RememberTypes DEF IInv, TypeOK
  <1>5. TokensDated' /\ RowsDated'
    BY <1>1, <1>3 DEF IInv, TypeOK, TokensDated, RowsDated, Issued
  <1>6. TablesGrow /\ StaysRevoked /\ GrantsAreKnown
    BY <1>1, <1>2, <1>3 DEF TablesGrow, StaysRevoked, GrantsAreKnown, Issued
  <1>7. TokensAreGranted
    BY <1>1, <1>3 DEF TokensAreGranted, NobodyGrants
  <1>8. now' \in Nat /\ now <= now'
    BY <1>1 DEF IInv, TypeOK
  <1>9. QuietIsFinal'
    BY <1>1, <1>6, <1>7, <1>8, QuietKept DEF IInv
  <1>10. RequestsKnow'
    BY <1>2, <1>6, KnowsDone, OthersKnow DEF IInv
  <1>11. QED
    BY <1>4, <1>5, <1>9, <1>10 DEF IInv

----------------------------------------------------------------------------
(* require_auth *)

\* What a verified request knows is what was just looked up.
LEMMA ArriveKeeps ==
    ASSUME IInv, NEW r \in Req, NEW k \in Kind, NEW j \in Jti, Arrive(r, k, j)
    PROVE  IInv'
  <1>1. UNCHANGED <<now, tables>> /\ Remember /\ Issued(j)
    BY DEF Arrive
  <1>2. CASE Drop(r)
    BY <1>1, <1>2, AnswerStep
  <1>3. CASE /\ Accepted(j)
             /\ req' = [req EXCEPT ![r] = [Idle EXCEPT !.pc = "checkJti", !.kind = k,
                   !.sid = issued[j].sid, !.jti = j, !.at = now, !.marks = Marks(j)]]
    <2>1. /\ issued[j] \in Token /\ issued[j].sid \in Sid /\ now \in Nat
          /\ Marks(j) \in SUBSET Mark
      BY <1>1 DEF IInv, TypeOK, Token, Issued, Marks
    <2>2. PICK x \in Request :
             /\ x.pc = "checkJti" /\ x.sid = issued[j].sid /\ x.jti = j
             /\ x.at = now /\ x.marks = Marks(j)
             /\ req' = [req EXCEPT ![r] = x]
      <3>1. LET x == [Idle EXCEPT !.pc = "checkJti", !.kind = k,
                         !.sid = issued[j].sid, !.jti = j, !.at = now, !.marks = Marks(j)]
            IN  /\ x \in Request /\ x.pc = "checkJti"
                /\ x.sid = issued[j].sid /\ x.jti = j /\ x.at = now /\ x.marks = Marks(j)
        BY <2>1 DEF Idle, Request, Pc, Kind, Mark
      <3>2. QED
        BY <1>3, <3>1
    <2>3. /\ req' \in [Req -> Request]
          /\ \A q \in Req \ {r} : req'[q] = req[q]
          /\ req'[r].pc = "checkJti" /\ req'[r].sid = issued[j].sid /\ req'[r].jti = j
          /\ req'[r].at = now /\ req'[r].marks = Marks(j)
      BY <2>2, SlotEffect DEF IInv
    <2>4. /\ "listed" \in Marks(j) => blacklist[j] # None
          /\ "orphan" \in Marks(j) => Owner[issued[j].sid] \in deleted
      BY DEF Marks
    <2>5. Presented(r)'
      BY <1>1, <1>3, <2>3, <2>4 DEF Presented, Issued, Accepted, tables
    <2>6. Knows(r)'
      BY <2>3, <2>5 DEF Knows, Presents, Passed
    <2>7. QED
      BY <1>1, <2>3, <2>6, ReadStep
  <1>4. QED
    BY <1>2, <1>3 DEF Arrive

\* A row that was there at the arrival is found, unless it had lapsed by then.
LEMMA ListedIsFound ==
    ASSUME IInv, NEW r \in Req, Presents(r), "listed" \in req[r].marks, ~RevokedJti(r)
    PROVE  req[r].at >= issued[req[r].jti].iat + BlacklistTtl
  <1>1. req[r].jti \in Jti /\ Issued(req[r].jti) /\ blacklist[req[r].jti] # None
    BY DEF IInv, RequestsKnow, Knows, Presented
  <1>2. blacklist[req[r].jti] >= issued[req[r].jti].iat + BlacklistTtl
    BY <1>1 DEF IInv, RowsDated
  <1>3. /\ blacklist[req[r].jti] \in Nat /\ issued[req[r].jti].iat \in Nat
        /\ req[r].at \in Nat
    BY <1>1 DEF IInv, TypeOK, Token, Request, Issued
  <1>4. ~(blacklist[req[r].jti] > req[r].at)
    BY <1>1 DEF RevokedJti
  <1>5. QED
    BY <1>2, <1>3, <1>4, ConstantsAssumption

\* A request goes on after a check: it knows of its token what it knew.
LEMMA StillPresented ==
    ASSUME IInv, NEW r \in Req, Presents(r), TablesGrow,
           req'[r].jti = req[r].jti, req'[r].sid = req[r].sid,
           req'[r].at = req[r].at, req'[r].marks = req[r].marks
    PROVE  Presented(r)'
  <1>1. Presented(r)
    BY DEF IInv, RequestsKnow, Knows
  <1>2. QED
    BY <1>1 DEF Presented, TablesGrow, Issued

\* The blacklist stops a token that is listed.
LEMMA CheckJtiKeeps ==
    ASSUME IInv, NEW r \in Req, CheckJti(r)
    PROVE  IInv'
  <1>1. UNCHANGED <<now, tables>> /\ Remember /\ Presents(r)
    BY DEF CheckJti, Presents
  <1>2. CASE Drop(r)
    BY <1>1, <1>2, AnswerStep
  <1>3. CASE ~RevokedJti(r) /\ req' = [req EXCEPT ![r].pc = "checkUser"]
    <2>1. /\ req' \in [Req -> Request]
          /\ \A q \in Req \ {r} : req'[q] = req[q]
          /\ req'[r].pc = "checkUser"
          /\ req'[r].jti = req[r].jti /\ req'[r].sid = req[r].sid
          /\ req'[r].at = req[r].at /\ req'[r].marks = req[r].marks
      BY <1>3, GotoEffect DEF IInv, Pc
    <2>2. TablesGrow
      BY <1>1 DEF TablesGrow, tables
    <2>3. Presented(r)'
      BY <1>1, <2>1, <2>2, StillPresented
    <2>4. "listed" \in req[r].marks => req[r].at >= issued[req[r].jti].iat + BlacklistTtl
      BY <1>1, <1>3, ListedIsFound
    <2>5. Passed(r)'
      BY <1>1, <2>1, <2>4 DEF Passed, tables
    <2>6. Knows(r)'
      BY <2>1, <2>3, <2>5 DEF Knows
    <2>7. QED
      BY <1>1, <2>1, <2>6, ReadStep
  <1>4. QED
    BY <1>2, <1>3 DEF CheckJti

\* The lookup of the user stops a token whose user was deleted.
LEMMA CheckUserKeeps ==
    ASSUME IInv, NEW r \in Req, CheckUser(r)
    PROVE  IInv'
  <1>1. UNCHANGED <<now, tables>> /\ Remember /\ Presents(r)
            /\ req[r].pc = "checkUser"
    BY DEF CheckUser, Presents
  <1>2. CASE Drop(r)
    BY <1>1, <1>2, AnswerStep
  <1>3. CASE ~UserGone(r) /\ req' = [req EXCEPT ![r].pc = "handle"]
    <2>1. /\ req' \in [Req -> Request]
          /\ \A q \in Req \ {r} : req'[q] = req[q]
          /\ req'[r].pc = "handle"
          /\ req'[r].jti = req[r].jti /\ req'[r].sid = req[r].sid
          /\ req'[r].at = req[r].at /\ req'[r].marks = req[r].marks
      BY <1>3, GotoEffect DEF IInv, Pc
    <2>2. TablesGrow
      BY <1>1 DEF TablesGrow, tables
    <2>3. Presented(r)'
      BY <1>1, <2>1, <2>2, StillPresented
    <2>4. Presented(r) /\ Passed(r)
      BY <1>1 DEF IInv, RequestsKnow, Knows
    <2>5. "orphan" \notin req[r].marks
      BY <1>3, <2>4 DEF Presented, UserGone
    <2>6. Passed(r)'
      BY <1>1, <2>1, <2>4, <2>5 DEF Passed, tables
    <2>7. Knows(r)'
      BY <2>1, <2>3, <2>6 DEF Knows
    <2>8. QED
      BY <1>1, <2>1, <2>7, ReadStep
  <1>4. QED
    BY <1>2, <1>3 DEF CheckUser

----------------------------------------------------------------------------
(* The logout handlers *)

\* The revocation of a logout: the request goes on with the blacklist.
LEMMA LogoutKeeps ==
    ASSUME IInv, NEW r \in Req, Logout(r) \/ LogoutAll(r)
    PROVE  IInv'
  <1>1. /\ UNCHANGED <<now, issued, blacklist, deleted>> /\ Remember
        /\ req[r].pc = "handle" /\ Presents(r)
        /\ req' = [req EXCEPT ![r].pc = "blacklist"]
    BY DEF Logout, LogoutAll, Presents
  <1>2. /\ status' \in [Sid -> {"absent", "live", "expired", "revoked"}]
        /\ StaysRevoked
    <2>1. (\E S : status' = RevokeRows(S)) \/ status' = status
      BY DEF Logout, LogoutAll
    <2>2. CASE status' = status
      BY <2>2 DEF IInv, TypeOK, StaysRevoked
    <2>3. QED
      BY <2>1, <2>2, RevokeRowsEffect DEF IInv
  <1>3. /\ req' \in [Req -> Request]
        /\ \A q \in Req \ {r} : req'[q] = req[q]
        /\ req'[r].pc = "blacklist"
        /\ req'[r].jti = req[r].jti /\ req'[r].sid = req[r].sid
        /\ req'[r].at = req[r].at /\ req'[r].marks = req[r].marks
    BY <1>1, GotoEffect DEF IInv, Pc
  <1>4. TablesGrow /\ GrantsAreKnown
    BY <1>1, <1>3 DEF TablesGrow, GrantsAreKnown
  <1>5. Presented(r)'
    BY <1>1, <1>3, <1>4, StillPresented
  <1>6. Passed(r)
    BY DEF IInv, RequestsKnow, Knows
  <1>7. Passed(r)'
    BY <1>1, <1>3, <1>6 DEF Passed
  <1>8. Knows(r)'
    BY <1>3, <1>5, <1>7 DEF Knows
  <1>9. RequestsKnow'
    BY <1>3, <1>4, <1>8, OthersKnow DEF IInv
  <1>10. QED
    BY <1>1, <1>2, <1>3, <1>4, <1>9, StatusStep

\* The row of a logout is written after its token was signed.
LEMMA BlacklistKeeps ==
    ASSUME IInv, NEW r \in Req, Blacklist(r)
    PROVE  IInv'
  <1>1. /\ UNCHANGED <<now, status, issued, deleted>> /\ Remember /\ Drop(r)
        /\ \/ /\ blacklist[req[r].jti] = None
              /\ blacklist' = [blacklist EXCEPT ![req[r].jti] = now + BlacklistTtl]
           \/ UNCHANGED blacklist
    BY DEF Blacklist, BlacklistUntil
  <1>2. req[r].jti \in Jti /\ Issued(req[r].jti)
    BY DEF Blacklist, Presents, IInv, RequestsKnow, Knows, Presented
  <1>3. /\ req' \in [Req -> Request]
        /\ \A q \in Req \ {r} : req'[q] = req[q]
        /\ req'[r].pc = "done"
    BY <1>1, DropEffect DEF IInv
  <1>4. blacklist' \in [Jti -> Nat \cup {None}] /\ now + BlacklistTtl \in Nat
    BY <1>1, ConstantsAssumption DEF IInv, TypeOK
  <1>5. TypeOK'
    BY <1>1, <1>2, <1>3, <1>4, RememberTypes DEF IInv, TypeOK
  <1>6. TokensDated'
    BY <1>1 DEF IInv, TokensDated, Issued
  <1>7. RowsDated'
    <2>1. SUFFICES ASSUME NEW j \in Jti, blacklist'[j] # None
                   PROVE  issued[j] # None /\ blacklist'[j] >= issued[j].iat + BlacklistTtl
      BY <1>1 DEF RowsDated, Issued
    <2>2. CASE blacklist'[j] = blacklist[j]
      BY <2>1, <2>2 DEF IInv, RowsDated, Issued
    <2>3. CASE j = req[r].jti /\ blacklist'[j] = now + BlacklistTtl
      <3>1. issued[j] # None /\ issued[j].iat <= now /\ issued[j].iat \in Nat /\ now \in Nat
        BY <1>2, <2>3 DEF IInv, TypeOK, Token, TokensDated, Issued
      <3>2. QED
        BY <2>3, <3>1, ConstantsAssumption
    <2>4. QED
      BY <1>1, <1>2, <2>2, <2>3 DEF IInv, TypeOK
  <1>8. TablesGrow
    BY <1>1, <1>2, <1>4, ConstantsAssumption DEF TablesGrow, IInv, TypeOK
  <1>9. StaysRevoked /\ GrantsAreKnown /\ TokensAreGranted
    BY <1>1, <1>3 DEF StaysRevoked, GrantsAreKnown, TokensAreGranted
  <1>10. now' \in Nat /\ now <= now'
    BY <1>1 DEF IInv, TypeOK
  <1>11. QuietIsFinal'
    BY <1>1, <1>9, <1>10, QuietKept DEF IInv
  <1>12. RequestsKnow'
    BY <1>3, <1>8, KnowsDone, OthersKnow DEF IInv
  <1>13. QED
    BY <1>5, <1>6, <1>7, <1>11, <1>12 DEF IInv

----------------------------------------------------------------------------
(* Other writers, and time *)

\* Revocations and expiries bring no revoked session back.
LEMMA SessionsKeep ==
    ASSUME IInv, \/ \E s \in Sid : RevokeSession(s) \/ Expire(s)
                 \/ \E u \in User : RevokeAll(u)
    PROVE  IInv'
  <1>1. UNCHANGED <<now, issued, blacklist, deleted, req>> /\ Remember
    BY DEF RevokeSession, Expire, RevokeAll
  <1>2. \/ \E S : status' = RevokeRows(S)
        \/ \E s \in Sid : status[s] = "live" /\ status' = [status EXCEPT ![s] = "expired"]
    BY DEF RevokeSession, Expire, RevokeAll
  <1>3. ASSUME NEW s \in Sid, status[s] = "live", status' = [status EXCEPT ![s] = "expired"]
        PROVE  /\ status' \in [Sid -> {"absent", "live", "expired", "revoked"}]
               /\ StaysRevoked
    BY <1>3 DEF IInv, TypeOK, StaysRevoked
  <1>4. /\ status' \in [Sid -> {"absent", "live", "expired", "revoked"}]
        /\ StaysRevoked
    BY <1>2, <1>3, RevokeRowsEffect DEF IInv
  <1>5. QED
    BY <1>1, <1>4, BackgroundStep

\* A deletion or a tick of the clock.
LEMMA TickOrDeleteKeeps ==
    ASSUME IInv, Tick \/ \E u \in User : SoftDelete(u)
    PROVE  IInv'
  <1>1. /\ UNCHANGED <<status, issued, blacklist, req>> /\ Remember
        /\ now' \in Nat /\ now <= now'
        /\ deleted \subseteq deleted' /\ deleted' \subseteq User
    BY DEF Tick, SoftDelete, tables, IInv, TypeOK
  <1>2. TypeOK'
    BY <1>1, RememberTypes DEF IInv, TypeOK
  <1>3. \A j \in Jti : Issued(j) => issued[j].iat \in Nat
    BY DEF IInv, TypeOK, Token, Issued
  <1>4. TokensDated' /\ RowsDated'
    BY <1>1, <1>3 DEF IInv, TypeOK, TokensDated, RowsDated, Issued
  <1>5. TablesGrow /\ StaysRevoked /\ GrantsAreKnown /\ TokensAreGranted
    BY <1>1 DEF TablesGrow, StaysRevoked, GrantsAreKnown, TokensAreGranted
  <1>6. QuietIsFinal'
    BY <1>1, <1>5, QuietKept DEF IInv
  <1>7. RequestsKnow'
    BY <1>1, <1>5, KnowsKept DEF IInv, RequestsKnow
  <1>8. QED
    BY <1>2, <1>4, <1>6, <1>7 DEF IInv

----------------------------------------------------------------------------
(* The theorems *)

\* Nothing was issued, revoked or deleted in the initial state.
LEMMA InitIInv == Init => IInv
  <1>1. SUFFICES ASSUME Init PROVE IInv
    OBVIOUS
  <1>2. TypeOK
    BY <1>1, IdleRequest DEF Init, TypeOK
  <1>3. TokensDated /\ RowsDated /\ QuietIsFinal
    BY <1>1 DEF Init, TokensDated, RowsDated, QuietIsFinal, Issued
  <1>4. RequestsKnow
    BY <1>1, IdleRequest DEF Init, RequestsKnow, Knows, Presents, Passed
  <1>5. QED
    BY <1>2, <1>3, <1>4 DEF IInv

\* Every step keeps the invariant.
LEMMA NextIInv == IInv /\ [Next]_vars => IInv'
  <1>1. SUFFICES ASSUME IInv, [Next]_vars PROVE IInv'
    OBVIOUS
  <1>2. ASSUME NEW r \in Req, Serve(r)
        PROVE  IInv'
    <2>1. CASE Handle(r) \/ Abort(r)
      BY <1>1, <2>1, AnswerStep DEF Handle, Abort
    <2>2. CASE Prolong(r)
      BY <1>1, <2>2, ProlongKeeps
    <2>3. CASE CheckJti(r)
      BY <1>1, <2>3, CheckJtiKeeps
    <2>4. CASE CheckUser(r)
      BY <1>1, <2>4, CheckUserKeeps
    <2>5. CASE Logout(r) \/ LogoutAll(r)
      BY <1>1, <2>5, LogoutKeeps
    <2>6. CASE Blacklist(r)
      BY <1>1, <2>6, BlacklistKeeps
    <2>7. ASSUME NEW s \in Sid, Admit(r, s)
          PROVE  IInv'
      BY <1>1, <2>7, AdmitKeeps
    <2>8. ASSUME NEW j \in Jti, Grant(r, j)
          PROVE  IInv'
      BY <1>1, <2>8, GrantKeeps
    <2>9. ASSUME NEW k \in Kind, NEW j \in Jti, Arrive(r, k, j)
          PROVE  IInv'
      BY <1>1, <2>9, ArriveKeeps
    <2>10. QED
      BY <1>2, <2>1, <2>2, <2>3, <2>4, <2>5, <2>6, <2>7, <2>8, <2>9 DEF Serve
  <1>3. ASSUME Others
        PROVE  IInv'
    BY <1>1, <1>3, SessionsKeep, TickOrDeleteKeeps DEF Others
  <1>4. ASSUME UNCHANGED vars
        PROVE  IInv'
    BY <1>1, <1>4 DEF vars, tables, IInv, TypeOK, TokensDated, RowsDated, QuietIsFinal,
                      NobodyGrants, RequestsKnow, Knows, Presents, Presented, Passed,
                      Issued
  <1>5. QED
    BY <1>1, <1>2, <1>3, <1>4 DEF Next

\* The invariant holds in every reachable state.
THEOREM Invariance == Spec => []IInv
  BY InitIInv, NextIInv, PTL DEF Spec

\* Type correctness.
THEOREM TypeCorrect == Spec => []TypeOK
  <1>1. IInv => TypeOK
    BY DEF IInv
  <1>2. QED
    BY <1>1, Invariance, PTL

\* For every relation of the three lifetimes, a token that is listed when it arrives is
\* refused until BlacklistTtl after its signature, however the logouts, refreshes and
\* checks overlap; where BlacklistTtl is the TTL of the token, that is its own expiry.
THEOREM ListedRefused == Spec => []ListedIsRefusedForItsTtl
  <1>1. IInv => ListedIsRefusedForItsTtl
    BY DEF IInv, RequestsKnow, Knows, Passed, ListedIsRefusedForItsTtl, Admitted
  <1>2. QED
    BY <1>1, Invariance, PTL

\* A request that arrives after its user was deleted never reaches its handler.
THEOREM DeletedRefused == Spec => []DeletedIsRefused
  <1>1. IInv => DeletedIsRefused
    BY DEF IInv, RequestsKnow, Knows, Passed, DeletedIsRefused, Admitted
  <1>2. QED
    BY <1>1, Invariance, PTL

\* A revoked session is usable for at most one access token's life after the last
\* grant that was in flight.
THEOREM RevocationTakesHold == Spec => []RevocationFades
  <1>1. IInv => RevocationFades
    <2>1. SUFFICES ASSUME IInv, NEW r \in Req, Admitted(r), quiet[req[r].sid] # None
                   PROVE  req[r].at <= quiet[req[r].sid] + AccessTtl + Leeway
      BY DEF RevocationFades
    <2>2. /\ req[r].jti \in Jti /\ Issued(req[r].jti)
          /\ req[r].sid = issued[req[r].jti].sid
          /\ req[r].at <= issued[req[r].jti].iat + AccessTtl + Leeway
      BY <2>1 DEF IInv, RequestsKnow, Knows, Presents, Presented, Admitted
    <2>3. /\ issued[req[r].jti].iat \in Nat /\ req[r].sid \in Sid
          /\ req[r].at \in Nat /\ quiet[req[r].sid] \in Nat
      BY <2>1, <2>2 DEF IInv, TypeOK, Token, Request, Issued
    <2>4. issued[req[r].jti].iat <= quiet[req[r].sid]
      BY <2>1, <2>2, <2>3 DEF IInv, QuietIsFinal
    <2>5. QED
      BY <2>2, <2>3, <2>4, ConstantsAssumption
  <1>2. QED
    BY <1>1, Invariance, PTL
=============================================================================
