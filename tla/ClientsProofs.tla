---------------------------- MODULE ClientsProofs ----------------------------
(***************************************************************************)
(* Proofs about RefreshRotation for every set of users, sessions, tokens   *)
(* and requests, every lifetime and every clock bound; and about Clients   *)
(* for every set of clients and every number of calls: what the clients    *)
(* and the network do to the server is steps of RefreshRotation, and what  *)
(* a client may conclude from the answers it got.                          *)
(***************************************************************************)
EXTENDS Clients, TLAPS

----------------------------------------------------------------------------
(* The inductive invariant *)

\* A row holds a token minted for that row.
HashesOwned == \A s \in Rows : family[sessions[s].hash] = s

\* Every trace is the left half of an exchange, within one session, and no row
\* holds a traced hash.
ExchangesTraced ==
    /\ \A g \in exchanged : g[1] \in traces /\ family[g[1]] = family[g[2]]
    /\ \A t \in traces : family[t] # None /\ \E g \in exchanged : g[1] = t
    /\ \A s \in Rows : sessions[s].hash \notin traces

Busy(r) == req[r].pc # "done"
Written(r) == req[r].pc \in {"insertTrace", "requireUser"}

\* A running request works for the session its token was minted for; once it has
\* run its UPDATE, no row holds the presented token any more.
RequestsBound ==
    \A r \in Req :
        /\ Busy(r) => /\ req[r].sid \in Rows
                      /\ req[r].presented \in Token
                      /\ family[req[r].presented] = req[r].sid
        /\ Written(r) => /\ req[r].new \in Token
                         /\ family[req[r].new] = req[r].sid
                         /\ \A s \in Rows : sessions[s].hash # req[r].presented
        /\ req[r].pc = "revokeAll" => req[r].presented \in traces

\* The token a request is about to trade in for was not given to anyone else.
NewTokensApart ==
    \A r \in Req : req[r].pc = "insertTrace" =>
        /\ \A g \in exchanged : g[2] # req[r].new
        /\ \A q \in Req : (q # r /\ req[q].pc = "insertTrace") => req[q].new # req[r].new

\* A late request that got past find_by_refresh_hash belongs to a deleted user.
LateWillBeRefused ==
    \A r \in late :
        /\ req[r].answer # "rotated"
        /\ Busy(r) => sessions[req[r].sid].user \in deleted

\* An alarm names a row.
AlarmsAboutRows ==
    \A r \in Req : req[r].answer = "reuse" =>
        /\ req[r].sid \in Rows
        /\ sessions[req[r].sid].revoked = TRUE
        /\ \E g \in exchanged : g[1] = req[r].presented

IInv ==
    /\ TypeOK
    /\ HashesOwned
    /\ ExchangesTraced
    /\ RequestsBound
    /\ NewTokensApart
    /\ LateWillBeRefused
    /\ AlarmsAboutRows
    /\ SingleUse

----------------------------------------------------------------------------
(* Type correctness *)

\* RevokeRows changes no row but for its revoked column.
LEMMA RevokeRowsEffect ==
    ASSUME TypeOK, NEW S \in SUBSET Rows
    PROVE  /\ RevokeRows(S) \in [Sid -> SessionRow \cup {None}]
           /\ \A s \in Sid : (RevokeRows(S)[s] # None) <=> (s \in Rows)
           /\ \A s \in Rows : /\ RevokeRows(S)[s].hash = sessions[s].hash
                              /\ RevokeRows(S)[s].user = sessions[s].user
           /\ \A s \in S : RevokeRows(S)[s].revoked = TRUE
           /\ \A s \in Sid \ S : RevokeRows(S)[s] = sessions[s]
  <1>1. \A s \in Rows : sessions[s] \in SessionRow
    BY DEF TypeOK, Rows
  <1>2. ASSUME NEW s \in S
        PROVE  /\ RevokeRows(S)[s] \in SessionRow
               /\ RevokeRows(S)[s].hash = sessions[s].hash
               /\ RevokeRows(S)[s].user = sessions[s].user
               /\ RevokeRows(S)[s].revoked = TRUE
    BY <1>1 DEF SessionRow, Rows, RevokeRows
  <1>3. ASSUME NEW s \in Sid \ S
        PROVE  RevokeRows(S)[s] = sessions[s]
    BY DEF RevokeRows
  <1>4. RevokeRows(S) \in [Sid -> SessionRow \cup {None}]
    <2>1. \A s \in Sid : RevokeRows(S)[s] \in SessionRow \cup {None}
      BY <1>2, <1>3 DEF TypeOK, Rows
    <2>2. QED
      BY <2>1 DEF RevokeRows
  <1>5. \A s \in Sid : (RevokeRows(S)[s] # None) <=> (s \in Rows)
    BY <1>2, <1>3, ConstantsAssumption DEF Rows
  <1>6. \A s \in Rows : /\ RevokeRows(S)[s].hash = sessions[s].hash
                        /\ RevokeRows(S)[s].user = sessions[s].user
    BY <1>2, <1>3 DEF Rows
  <1>7. QED
    BY <1>2, <1>3, <1>4, <1>5, <1>6, Zenon

\* RotatedRow changes no column but for the hash and the expiry.
LEMMA RotatedRowEffect ==
    ASSUME TypeOK, NEW row \in SessionRow, NEW t \in Token
    PROVE  /\ RotatedRow(row, t) \in SessionRow
           /\ RotatedRow(row, t).hash = t
           /\ RotatedRow(row, t).user = row.user
           /\ RotatedRow(row, t).revoked = row.revoked
  <1>1. now + RefreshTtl \in Nat
    BY ConstantsAssumption DEF TypeOK
  <1>2. QED
    BY <1>1 DEF RotatedRow, SessionRow

\* Reply ends request r and touches no other.
LEMMA ReplyEffect ==
    ASSUME TypeOK, NEW r \in Req, NEW a \in Answer, Reply(r, a)
    PROVE  /\ req' \in [Req -> Request]
           /\ \A q \in Req \ {r} : req'[q] = req[q]
           /\ req'[r].pc = "done"
           /\ req'[r].answer = a
           /\ req'[r].sid = req[r].sid
           /\ req'[r].presented = req[r].presented
           /\ req'[r].new = req[r].new
  <1>1. /\ [req[r] EXCEPT !.pc = "done", !.answer = a] \in Request
        /\ [req[r] EXCEPT !.pc = "done", !.answer = a].pc = "done"
        /\ [req[r] EXCEPT !.pc = "done", !.answer = a].answer = a
        /\ [req[r] EXCEPT !.pc = "done", !.answer = a].sid = req[r].sid
        /\ [req[r] EXCEPT !.pc = "done", !.answer = a].presented = req[r].presented
        /\ [req[r] EXCEPT !.pc = "done", !.answer = a].new = req[r].new
    BY DEF TypeOK, Request, Pc
  <1>2. QED
    BY <1>1 DEF Reply, TypeOK

LEMMA TypeStep ==
    ASSUME TypeOK, RequestsBound, [Next]_vars
    PROVE  TypeOK'
  <1> USE ConstantsAssumption DEF TypeOK, tables, arrivals
  <1>1. ASSUME NEW r \in Req, NEW t \in Token, Find(r, t)
        PROVE  TypeOK'
    BY <1>1 DEF Find, Asked, Holders, Request, Pc, Answer, Rows
  <1>2. ASSUME NEW r \in Req, CheckTrace(r)
        PROVE  TypeOK'
    BY <1>2 DEF CheckTrace, Request, Pc, Answer
  <1>3. ASSUME NEW r \in Req, RevokeReused(r)
        PROVE  TypeOK'
    <2>1. RowsOf(sessions[req[r].sid].user) \in SUBSET Rows
      BY DEF RowsOf
    <2>2. sessions' \in [Sid -> SessionRow \cup {None}]
      BY <1>3, <2>1, RevokeRowsEffect DEF RevokeReused
    <2>3. QED
      BY <1>3, <2>2, ReplyEffect DEF RevokeReused, Answer
  <1>4. ASSUME NEW r \in Req, NEW t \in Token, Update(r, t)
        PROVE  TypeOK'
    <2>1. req[r].sid \in Rows /\ sessions[req[r].sid] \in SessionRow
      BY <1>4 DEF Update, RequestsBound, Busy, Rows
    <2>2. RotatedRow(sessions[req[r].sid], t) \in SessionRow
      BY <2>1, RotatedRowEffect
    <2>3. sessions' \in [Sid -> SessionRow \cup {None}]
      BY <1>4, <2>1, <2>2 DEF Update
    <2>4. family' \in [Token -> Sid \cup {None}]
      BY <1>4, <2>1 DEF Update, Rows
    <2>5. req' \in [Req -> Request]
      <3>1. [req[r] EXCEPT !.pc = "insertTrace", !.new = t] \in Request
        BY DEF Request, Pc
      <3>2. QED
        BY <1>4, <3>1 DEF Update
    <2>6. QED
      BY <1>4, <2>3, <2>4, <2>5 DEF Update
  <1>5. ASSUME NEW r \in Req, InsertTrace(r)
        PROVE  TypeOK'
    <2>1. req[r].presented \in Token /\ req[r].new \in Token
      BY <1>5 DEF InsertTrace, RequestsBound, Busy, Written
    <2>2. QED
      BY <1>5, <2>1, ReplyEffect DEF InsertTrace, Request, Pc, Answer
  <1>6. ASSUME NEW r \in Req, Respond(r)
        PROVE  TypeOK'
    <2>1. req[r].new \in Token
      BY <1>6 DEF Respond, RequestsBound, Written
    <2>2. QED
      BY <1>6, <2>1, ReplyEffect DEF Respond, Answer
  <1>7. ASSUME NEW r \in Req, Abort(r)
        PROVE  TypeOK'
    BY <1>7, ReplyEffect DEF Abort, Answer
  <1>8. ASSUME NEW s \in Sid, NEW u \in User, NEW t \in Token, Login(s, u, t)
        PROVE  TypeOK'
    <2>1. [user |-> u, hash |-> t, expires |-> now + RefreshTtl, revoked |-> FALSE]
            \in SessionRow
      BY DEF SessionRow
    <2>2. QED
      BY <1>8, <2>1 DEF Login
  <1>9. ASSUME NEW s \in Sid, RevokeSession(s)
        PROVE  TypeOK'
    BY <1>9, {s} \in SUBSET Rows, RevokeRowsEffect DEF RevokeSession
  <1>10. ASSUME NEW u \in User, RevokeAll(u)
         PROVE  TypeOK'
    BY <1>10, RowsOf(u) \in SUBSET Rows, RevokeRowsEffect DEF RevokeAll, RowsOf
  <1>11. ASSUME NEW u \in User, SoftDelete(u)
         PROVE  TypeOK'
    BY <1>11 DEF SoftDelete
  <1>12. CASE Tick
    BY <1>12 DEF Tick
  <1>13. CASE UNCHANGED vars
    BY <1>13 DEF vars
  <1>14. QED
    BY <1>1, <1>2, <1>3, <1>4, <1>5, <1>6, <1>7, <1>8, <1>9, <1>10, <1>11,
       <1>12, <1>13 DEF Next, Serve, Others

----------------------------------------------------------------------------
(* Each action preserves the invariant *)

\* What find_by_refresh_hash leaves in the request that ran it, and in the others.
LEMMA FindEffect ==
    ASSUME TypeOK, NEW r \in Req, NEW t \in Token, Find(r, t)
    PROVE  /\ \A q \in Req \ {r} : req'[q] = req[q]
           /\ req'[r].presented = t
           /\ \/ /\ req'[r].pc = "done"
                 /\ req'[r].answer = "invalid"
              \/ /\ req'[r].pc = "checkTrace"
                 /\ req'[r].answer = "none"
                 /\ req'[r].sid \in Rows
                 /\ sessions[req'[r].sid].hash = t
                 /\ Usable(req'[r].sid)
  <1>1. CASE \E s \in Holders(t) :
               Usable(s) /\ req' = [req EXCEPT ![r] = Asked(t, "checkTrace", s, "none")]
    BY <1>1 DEF TypeOK, Asked, Holders
  <1>2. CASE req' = [req EXCEPT ![r] = Asked(t, "done", None, "invalid")]
    BY <1>2 DEF TypeOK, Asked
  <1>3. QED
    BY <1>1, <1>2 DEF Find

LEMMA FindStep ==
    ASSUME IInv, NEW r \in Req, NEW t \in Token, Find(r, t)
    PROVE  IInv'
  <1>1. TypeOK'
    BY TypeStep DEF IInv, Next, Serve
  <1>2. /\ UNCHANGED <<now, sessions, traces, deleted, known, family, exchanged>>
        /\ late' = IF LateFor(t) THEN late \cup {r} ELSE late \ {r}
    BY DEF Find, tables
  <1>3. TypeOK
    BY DEF IInv
  <1>4. (HashesOwned /\ ExchangesTraced /\ SingleUse)'
    BY <1>2 DEF IInv, HashesOwned, ExchangesTraced, SingleUse, Rows
  <1>5. RequestsBound'
    BY <1>2, <1>3, FindEffect DEF IInv, RequestsBound, Busy, Written, HashesOwned, Rows
  <1>6. NewTokensApart'
    BY <1>2, <1>3, FindEffect DEF IInv, NewTokensApart
  <1>7. LateWillBeRefused'
    <2>1. ASSUME NEW q \in late', q # r
          PROVE  /\ req'[q].answer # "rotated"
                 /\ Busy(q)' => sessions'[req'[q].sid].user \in deleted'
      BY <1>2, <1>3, <2>1, FindEffect DEF IInv, LateWillBeRefused, Busy, TypeOK
    <2>2. ASSUME r \in late', Busy(r)'
          PROVE  sessions[req'[r].sid].user \in deleted
      <3>1. LateFor(t)
        BY <1>2, <2>2
      <3>2. req'[r].sid \in Rows /\ sessions[req'[r].sid].hash = t /\ Usable(req'[r].sid)
        BY <1>3, <2>2, FindEffect DEF Busy
      <3>3. family[t] = req'[r].sid
        BY <3>2 DEF IInv, HashesOwned
      <3>4. QED
        BY <3>1, <3>2, <3>3 DEF LateFor, Usable
    <2>3. req'[r].answer # "rotated"
      BY <1>3, FindEffect
    <2>4. QED
      BY <1>2, <2>1, <2>2, <2>3 DEF LateWillBeRefused
  <1>8. AlarmsAboutRows'
    BY <1>2, <1>3, FindEffect DEF IInv, AlarmsAboutRows, Rows
  <1>9. QED
    BY <1>1, <1>4, <1>5, <1>6, <1>7, <1>8 DEF IInv

LEMMA CheckTraceStep ==
    ASSUME IInv, NEW r \in Req, CheckTrace(r)
    PROVE  IInv'
  <1>1. TypeOK'
    BY TypeStep DEF IInv, Next, Serve
  <1>2. /\ UNCHANGED <<now, sessions, traces, deleted, known, family, exchanged, late>>
        /\ req[r].pc = "checkTrace"
    BY DEF CheckTrace, tables, arrivals
  <1>3. /\ \A q \in Req \ {r} : req'[q] = req[q]
        /\ req'[r].pc = IF req[r].presented \in traces THEN "revokeAll" ELSE "update"
        /\ req'[r].presented = req[r].presented
        /\ req'[r].sid = req[r].sid
        /\ req'[r].answer = req[r].answer
    BY DEF IInv, CheckTrace, TypeOK, Request
  <1>4. (HashesOwned /\ ExchangesTraced /\ SingleUse)'
    BY <1>2 DEF IInv, HashesOwned, ExchangesTraced, SingleUse, Rows
  <1>5. RequestsBound'
    BY <1>2, <1>3 DEF IInv, RequestsBound, Busy, Written, Rows
  <1>6. NewTokensApart'
    BY <1>2, <1>3 DEF IInv, NewTokensApart
  <1>7. LateWillBeRefused'
    BY <1>2, <1>3 DEF IInv, LateWillBeRefused, Busy, TypeOK
  <1>8. AlarmsAboutRows'
    BY <1>2, <1>3 DEF IInv, AlarmsAboutRows, Rows
  <1>9. QED
    BY <1>1, <1>4, <1>5, <1>6, <1>7, <1>8 DEF IInv

\* What an UPDATE that sets revoked keeps, whatever it does to the requests.
LEMMA RevokedRows ==
    ASSUME IInv, NEW S \in SUBSET Rows, sessions' = RevokeRows(S),
           UNCHANGED <<traces, family, exchanged>>
    PROVE  /\ Rows' = Rows
           /\ \A s \in Rows : /\ sessions'[s].hash = sessions[s].hash
                              /\ sessions'[s].user = sessions[s].user
                              /\ sessions[s].revoked = TRUE => sessions'[s].revoked = TRUE
           /\ \A s \in S : sessions'[s].revoked = TRUE
           /\ (HashesOwned /\ ExchangesTraced /\ SingleUse)'
  <1>1. TypeOK
    BY DEF IInv
  <1>2. Rows' = Rows
    BY <1>1, RevokeRowsEffect DEF Rows
  <1>3. \A s \in Rows : /\ sessions'[s].hash = sessions[s].hash
                        /\ sessions'[s].user = sessions[s].user
    BY <1>1, RevokeRowsEffect
  <1>4. \A s \in S : sessions'[s].revoked = TRUE
    BY <1>1, RevokeRowsEffect
  <1>5. \A s \in Rows : sessions[s].revoked = TRUE => sessions'[s].revoked = TRUE
    BY <1>1, <1>4, RevokeRowsEffect DEF Rows
  <1>6. (HashesOwned /\ ExchangesTraced /\ SingleUse)'
    BY <1>2, <1>3 DEF IInv, HashesOwned, ExchangesTraced, SingleUse
  <1>7. QED
    BY <1>2, <1>3, <1>4, <1>5, <1>6

\* revoke_session and revoke_all_for_user called by other handlers.
LEMMA RevokeStep ==
    ASSUME IInv, TypeOK', NEW S \in SUBSET Rows, sessions' = RevokeRows(S),
           UNCHANGED <<now, traces, deleted, req, known, family, exchanged, late>>
    PROVE  IInv'
  <1>1. (HashesOwned /\ ExchangesTraced /\ SingleUse)'
    BY RevokedRows
  <1>2. /\ Rows' = Rows
        /\ \A s \in Rows : /\ sessions'[s].hash = sessions[s].hash
                           /\ sessions'[s].user = sessions[s].user
                           /\ sessions[s].revoked = TRUE => sessions'[s].revoked = TRUE
    BY RevokedRows
  <1>3. /\ RequestsBound /\ LateWillBeRefused /\ AlarmsAboutRows /\ TypeOK
        /\ UNCHANGED <<traces, deleted, req, family, exchanged, late>>
    BY DEF IInv
  <1>4. RequestsBound'
    <2>1. \A s \in Rows : sessions'[s].hash = sessions[s].hash
      BY <1>2
    <2>2. Rows' = Rows
      BY <1>2
    <2>3. QED
      BY ONLY <1>3, <2>1, <2>2 DEF RequestsBound, Busy, Written
  <1>5. NewTokensApart'
    BY DEF IInv, NewTokensApart
  <1>6. LateWillBeRefused'
    BY <1>2 DEF IInv, LateWillBeRefused, RequestsBound, Busy, TypeOK
  <1>7. AlarmsAboutRows'
    BY <1>2 DEF IInv, AlarmsAboutRows
  <1>8. QED
    BY <1>1, <1>4, <1>5, <1>6, <1>7 DEF IInv

LEMMA RevokeReusedStep ==
    ASSUME IInv, NEW r \in Req, RevokeReused(r)
    PROVE  IInv'
  <1> DEFINE S == RowsOf(sessions[req[r].sid].user)
  <1>1. TypeOK /\ TypeOK'
    BY TypeStep DEF IInv, Next, Serve
  <1>2. /\ UNCHANGED <<now, traces, deleted, known, family, exchanged, late>>
        /\ sessions' = RevokeRows(S)
        /\ Reply(r, "reuse")
        /\ req[r].pc = "revokeAll"
    BY DEF RevokeReused, arrivals
  <1>3. S \in SUBSET Rows
    BY DEF RowsOf
  <1>4. /\ req[r].sid \in S
        /\ req[r].presented \in traces
    BY <1>2 DEF IInv, RequestsBound, Busy, RowsOf
  <1>5. /\ \A q \in Req \ {r} : req'[q] = req[q]
        /\ req'[r].pc = "done"
        /\ req'[r].answer = "reuse"
        /\ req'[r].sid = req[r].sid
        /\ req'[r].presented = req[r].presented
    BY <1>1, <1>2, ReplyEffect DEF Answer
  <1> HIDE DEF S
  <1>6. (HashesOwned /\ ExchangesTraced /\ SingleUse)'
    BY <1>2, <1>3, RevokedRows
  <1>7. /\ Rows' = Rows
        /\ \A s \in Rows : /\ sessions'[s].hash = sessions[s].hash
                           /\ sessions'[s].user = sessions[s].user
                           /\ sessions[s].revoked = TRUE => sessions'[s].revoked = TRUE
        /\ \A s \in S : sessions'[s].revoked = TRUE
    BY <1>2, <1>3, RevokedRows
  <1>8. (RequestsBound /\ NewTokensApart)'
    BY <1>2, <1>5, <1>7 DEF IInv, RequestsBound, NewTokensApart, Busy, Written
  <1>9. LateWillBeRefused'
    BY <1>1, <1>2, <1>5, <1>7 DEF IInv, LateWillBeRefused, RequestsBound, Busy, TypeOK
  <1>10. AlarmsAboutRows'
    <2>1. sessions'[req[r].sid].revoked = TRUE /\ req[r].sid \in Rows
      BY <1>3, <1>4, <1>7
    <2>2. \E g \in exchanged : g[1] = req[r].presented
      BY <1>4 DEF IInv, ExchangesTraced
    <2>3. QED
      BY <1>2, <1>5, <1>7, <2>1, <2>2 DEF IInv, AlarmsAboutRows
  <1>11. QED
    BY <1>1, <1>6, <1>8, <1>9, <1>10 DEF IInv

\* What the UPDATE changes: one row, one family and one request.
LEMMA UpdateEffect ==
    ASSUME IInv, TypeOK', NEW r \in Req, NEW t \in Token, Update(r, t)
    PROVE  /\ UNCHANGED <<now, traces, deleted, known, exchanged, late>>
           /\ family[t] = None
           /\ req[r].pc = "update"
           /\ req[r].presented \in Token
           /\ family[req[r].presented] = req[r].sid
           /\ req[r].sid \in Rows /\ req[r].sid # None
           /\ \A q \in Req \ {r} : req'[q] = req[q]
           /\ req'[r].pc = "insertTrace"
           /\ req'[r].new = t
           /\ req'[r].sid = req[r].sid
           /\ req'[r].presented = req[r].presented
           /\ req'[r].answer = req[r].answer
           /\ family'[t] = req[r].sid
           /\ \A x \in Token \ {t} : family'[x] = family[x]
           /\ \A x \in Token : family[x] # None => x # t /\ family'[x] = family[x]
           /\ Rows' = Rows
           /\ sessions'[req[r].sid].hash = t
           /\ sessions'[req[r].sid].user = sessions[req[r].sid].user
           /\ sessions'[req[r].sid].revoked = sessions[req[r].sid].revoked
           /\ \A s \in Rows \ {req[r].sid} : sessions'[s] = sessions[s]
  <1> DEFINE id == req[r].sid
  <1>1. TypeOK
    BY DEF IInv
  <1>2. /\ UNCHANGED <<now, traces, deleted, known, exchanged, late>>
        /\ family[t] = None
        /\ sessions' = [sessions EXCEPT ![id] = RotatedRow(sessions[id], t)]
        /\ family' = [family EXCEPT ![t] = id]
        /\ req[r].pc = "update"
    BY DEF Update, Fresh, arrivals
  <1>3. /\ \A q \in Req \ {r} : req'[q] = req[q]
        /\ req'[r].pc = "insertTrace"
        /\ req'[r].new = t
        /\ req'[r].sid = id
        /\ req'[r].presented = req[r].presented
        /\ req'[r].answer = req[r].answer
    BY <1>1 DEF Update, TypeOK, Request
  <1>4. /\ id \in Rows
        /\ req[r].presented \in Token
        /\ family[req[r].presented] = id
    BY <1>2 DEF IInv, RequestsBound, Busy
  <1>5. id \in Sid /\ id # None /\ sessions[id] \in SessionRow
    BY <1>1, <1>4, ConstantsAssumption DEF Rows, TypeOK
  <1> HIDE DEF id
  <1>6. /\ family'[t] = id
        /\ \A x \in Token \ {t} : family'[x] = family[x]
        /\ \A x \in Token : family[x] # None => x # t /\ family'[x] = family[x]
    BY <1>1, <1>2, <1>5 DEF TypeOK
  <1>7. /\ Rows' = Rows
        /\ sessions'[id].hash = t
        /\ sessions'[id].user = sessions[id].user
        /\ sessions'[id].revoked = sessions[id].revoked
        /\ \A s \in Rows \ {id} : sessions'[s] = sessions[s]
    <2>1. /\ RotatedRow(sessions[id], t) \in SessionRow
          /\ RotatedRow(sessions[id], t).hash = t
          /\ RotatedRow(sessions[id], t).user = sessions[id].user
          /\ RotatedRow(sessions[id], t).revoked = sessions[id].revoked
      BY <1>1, <1>5, RotatedRowEffect
    <2>2. /\ sessions'[id] = RotatedRow(sessions[id], t)
          /\ \A s \in Sid \ {id} : sessions'[s] = sessions[s]
      BY <1>1, <1>2, <1>5 DEF TypeOK
    <2>3. Rows' = Rows
      BY <1>4, <2>1, <2>2, ConstantsAssumption DEF Rows
    <2>4. QED
      BY <2>1, <2>2, <2>3 DEF Rows
  <1>8. QED
    BY <1>2, <1>3, <1>4, <1>5, <1>6, <1>7 DEF id

LEMMA UpdateStep ==
    ASSUME IInv, NEW r \in Req, NEW t \in Token, Update(r, t)
    PROVE  IInv'
  <1> DEFINE id == req[r].sid
  <1>1. TypeOK /\ TypeOK'
    BY TypeStep DEF IInv, Next, Serve
  <1>2. /\ UNCHANGED <<now, traces, deleted, known, exchanged, late>>
        /\ family[t] = None
        /\ req[r].pc = "update"
    BY <1>1, UpdateEffect
  <1>3. /\ \A q \in Req \ {r} : req'[q] = req[q]
        /\ req'[r].pc = "insertTrace"
        /\ req'[r].new = t
        /\ req'[r].sid = id
        /\ req'[r].presented = req[r].presented
        /\ req'[r].answer = req[r].answer
    BY <1>1, UpdateEffect
  <1>4. /\ id \in Rows
        /\ req[r].presented \in Token
        /\ family[req[r].presented] = id
    BY <1>1, UpdateEffect
  <1>5. id \in Sid /\ id # None
    BY <1>1, UpdateEffect DEF Rows
  <1>6. /\ family'[t] = id
        /\ \A x \in Token \ {t} : family'[x] = family[x]
        /\ \A x \in Token : family[x] # None => x # t /\ family'[x] = family[x]
    BY <1>1, UpdateEffect
  <1>7. /\ Rows' = Rows
        /\ sessions'[id].hash = t
        /\ sessions'[id].user = sessions[id].user
        /\ sessions'[id].revoked = sessions[id].revoked
        /\ \A s \in Rows \ {id} : sessions'[s] = sessions[s]
    BY <1>1, UpdateEffect
  <1> HIDE DEF id
  <1>8. HashesOwned'
    <2>1. \A s \in Rows : family[sessions[s].hash] = s /\ sessions[s].hash \in Token /\ s # None
      BY <1>1, ConstantsAssumption DEF IInv, HashesOwned, TypeOK, Rows, SessionRow
    <2>2. QED
      BY <1>6, <1>7, <2>1 DEF HashesOwned
  <1>9. ExchangesTraced'
    <2>1. t \notin traces
      BY <1>2 DEF IInv, ExchangesTraced
    <2>2. \A g \in exchanged : family'[g[1]] = family'[g[2]]
      BY <1>1, <1>6 DEF IInv, ExchangesTraced, TypeOK
    <2>3. QED
      BY <1>1, <1>2, <1>6, <1>7, <2>1, <2>2 DEF IInv, ExchangesTraced, TypeOK
  <1>10. RequestsBound'
    <2>1. \A s \in Rows : sessions'[s].hash # req[r].presented
      <3>1. req[r].presented # t
        BY <1>4, <1>5, <1>6
      <3>2. \A s \in Rows \ {id} : sessions[s].hash # req[r].presented
        BY <1>4 DEF IInv, HashesOwned
      <3>3. QED
        BY <1>7, <3>1, <3>2
    <2>2. \A q \in Req \ {r} : Written(q) =>
             \A s \in Rows : sessions'[s].hash # req[q].presented
      BY <1>1, <1>2, <1>6, <1>7, ConstantsAssumption
      DEF IInv, RequestsBound, Busy, Written, Rows, TypeOK
    <2>3. \A q \in Req \ {r} :
             /\ Busy(q) => family'[req[q].presented] = req[q].sid
             /\ Written(q) => family'[req[q].new] = req[q].sid
      BY <1>6, ConstantsAssumption DEF IInv, RequestsBound, Busy, Written, Rows
    <2>4. QED
      BY <1>2, <1>3, <1>4, <1>6, <1>7, <2>1, <2>2, <2>3
      DEF IInv, RequestsBound, Busy, Written
  <1>11. NewTokensApart'
    <2>1. \A g \in exchanged : g[2] # t
      BY <1>1, <1>2, <1>6, ConstantsAssumption DEF IInv, ExchangesTraced, TypeOK
    <2>2. \A q \in Req : req[q].pc = "insertTrace" => req[q].new # t
      BY <1>2, ConstantsAssumption DEF IInv, RequestsBound, Busy, Written, Rows
    <2>3. QED
      BY <1>2, <1>3, <2>1, <2>2 DEF IInv, NewTokensApart
  <1>12. LateWillBeRefused'
    <2>1. \A s \in Rows : sessions'[s].user = sessions[s].user
      BY <1>7
    <2>2. QED
      BY <1>1, <1>2, <1>3, <2>1 DEF IInv, LateWillBeRefused, RequestsBound, Busy, TypeOK, id
  <1>13. AlarmsAboutRows'
    <2>1. \A s \in Rows : sessions[s].revoked = TRUE => sessions'[s].revoked = TRUE
      BY <1>7
    <2>2. QED
      BY <1>2, <1>3, <1>4, <1>7, <2>1 DEF IInv, AlarmsAboutRows, id
  <1>14. SingleUse'
    BY <1>2 DEF IInv, SingleUse
  <1>15. QED
    BY <1>1, <1>8, <1>9, <1>10, <1>11, <1>12, <1>13, <1>14 DEF IInv

LEMMA InsertTraceStep ==
    ASSUME IInv, NEW r \in Req, InsertTrace(r)
    PROVE  IInv'
  <1> DEFINE t == req[r].presented
             n == req[r].new
  <1>1. TypeOK /\ TypeOK'
    BY TypeStep DEF IInv, Next, Serve
  <1>2. /\ UNCHANGED <<now, sessions, deleted, known, family, late>>
        /\ req[r].pc = "insertTrace"
    BY DEF InsertTrace, arrivals
  <1>3. /\ req[r].sid \in Rows
        /\ t \in Token /\ family[t] = req[r].sid
        /\ n \in Token /\ family[n] = req[r].sid
        /\ \A s \in Rows : sessions[s].hash # t
    BY <1>2 DEF IInv, RequestsBound, Busy, Written
  <1>4. CASE TraceConflict(t)
    <2>1. UNCHANGED <<traces, exchanged>> /\ Reply(r, "error")
      BY <1>4 DEF InsertTrace
    <2>2. /\ \A q \in Req \ {r} : req'[q] = req[q]
          /\ req'[r].pc = "done"
          /\ req'[r].answer = "error"
      BY <1>1, <2>1, ReplyEffect DEF Answer
    <2>3. (HashesOwned /\ ExchangesTraced /\ SingleUse)'
      BY <1>2, <2>1 DEF IInv, HashesOwned, ExchangesTraced, SingleUse, Rows
    <2>4. RequestsBound'
      BY <1>2, <2>1, <2>2 DEF IInv, RequestsBound, Busy, Written, Rows
    <2>5. NewTokensApart'
      BY <2>1, <2>2 DEF IInv, NewTokensApart
    <2>6. LateWillBeRefused'
      BY <1>1, <1>2, <2>2 DEF IInv, LateWillBeRefused, Busy, TypeOK
    <2>7. AlarmsAboutRows'
      BY <1>2, <2>1, <2>2 DEF IInv, AlarmsAboutRows, Rows
    <2>8. QED
      BY <1>1, <2>3, <2>4, <2>5, <2>6, <2>7 DEF IInv
  <1>5. CASE ~TraceConflict(t)
    <2>1. /\ traces' = traces \cup {t}
          /\ exchanged' = exchanged \cup {<<t, n>>}
          /\ t \notin traces
      BY <1>5 DEF InsertTrace, TraceConflict
    <2>2. /\ \A q \in Req \ {r} : req'[q] = req[q]
          /\ req'[r].pc = "requireUser"
          /\ req'[r].answer = req[r].answer
          /\ req'[r].sid = req[r].sid
          /\ req'[r].presented = t
          /\ req'[r].new = n
      BY <1>1, <1>5 DEF InsertTrace, TypeOK, Request
    <2> HIDE DEF t, n
    <2>3. HashesOwned'
      BY <1>2 DEF IInv, HashesOwned, Rows
    <2>4. ExchangesTraced'
      <3>1. Rows' = Rows
        BY <1>2 DEF Rows
      <3>2. \A g \in exchanged' : g[1] \in traces' /\ family[g[1]] = family[g[2]]
        BY <1>3, <2>1 DEF IInv, ExchangesTraced
      <3>3. \A x \in traces' : family[x] # None /\ \E g \in exchanged' : g[1] = x
        <4>1. family[t] # None
          BY <1>3, ConstantsAssumption DEF Rows
        <4>2. <<t, n>> \in exchanged' /\ <<t, n>>[1] = t
          BY <2>1
        <4>3. \A x \in traces : family[x] # None /\ \E g \in exchanged : g[1] = x
          BY DEF IInv, ExchangesTraced
        <4>4. QED
          BY <2>1, <4>1, <4>2, <4>3
      <3>4. \A s \in Rows : sessions[s].hash \notin traces'
        BY <1>3, <2>1 DEF IInv, ExchangesTraced
      <3>5. QED
        BY <1>2, <3>1, <3>2, <3>3, <3>4 DEF ExchangesTraced
    <2>5. SingleUse'
      <3>1. \A g \in exchanged : g[1] # t
        BY <2>1 DEF IInv, ExchangesTraced
      <3>2. QED
        BY <2>1, <3>1 DEF IInv, SingleUse
    <2>6. RequestsBound'
      BY <1>2, <1>3, <2>1, <2>2 DEF IInv, RequestsBound, Busy, Written, Rows
    <2>7. NewTokensApart'
      <3>1. \A q \in Req \ {r} : req[q].pc = "insertTrace" => req[q].new # n
        BY <1>2 DEF IInv, NewTokensApart, n
      <3>2. QED
        BY <2>1, <2>2, <3>1 DEF IInv, NewTokensApart
    <2>8. LateWillBeRefused'
      BY <1>1, <1>2, <2>2 DEF IInv, LateWillBeRefused, Busy, TypeOK
    <2>9. AlarmsAboutRows'
      BY <1>2, <2>1, <2>2 DEF IInv, AlarmsAboutRows, Rows, t
    <2>10. QED
      BY <1>1, <2>3, <2>4, <2>5, <2>6, <2>7, <2>8, <2>9 DEF IInv
  <1>6. QED
    BY <1>4, <1>5

\* The request ends without an alarm, and no table changes.
LEMMA EndStep ==
    ASSUME IInv, TypeOK', NEW r \in Req, NEW a \in Answer \ {"reuse"}, Reply(r, a),
           a = "rotated" => r \notin late,
           UNCHANGED <<now, sessions, traces, deleted, family, exchanged, late>>
    PROVE  IInv'
  <1>1. TypeOK
    BY DEF IInv
  <1>2. /\ \A q \in Req \ {r} : req'[q] = req[q]
        /\ req'[r].pc = "done"
        /\ req'[r].answer = a
    BY <1>1, ReplyEffect
  <1>3. (HashesOwned /\ ExchangesTraced /\ SingleUse)'
    BY DEF IInv, HashesOwned, ExchangesTraced, SingleUse, Rows
  <1>4. RequestsBound'
    BY <1>2 DEF IInv, RequestsBound, Busy, Written, Rows
  <1>5. NewTokensApart'
    BY <1>2 DEF IInv, NewTokensApart
  <1>6. LateWillBeRefused'
    BY <1>1, <1>2 DEF IInv, LateWillBeRefused, Busy, TypeOK
  <1>7. AlarmsAboutRows'
    BY <1>2 DEF IInv, AlarmsAboutRows, Rows
  <1>8. QED
    BY <1>3, <1>4, <1>5, <1>6, <1>7 DEF IInv

LEMMA RespondStep ==
    ASSUME IInv, NEW r \in Req, Respond(r)
    PROVE  IInv'
  <1>1. TypeOK'
    BY TypeStep DEF IInv, Next, Serve
  <1>2. /\ UNCHANGED <<now, sessions, traces, deleted, family, exchanged, late>>
        /\ req[r].pc = "requireUser"
    BY DEF Respond, tables, arrivals
  <1>3. CASE Reply(r, "invalid")
    BY <1>1, <1>2, <1>3, EndStep DEF Answer
  <1>4. CASE Reply(r, "rotated") /\ sessions[req[r].sid].user \notin deleted
    <2>1. r \notin late
      BY <1>2, <1>4 DEF IInv, LateWillBeRefused, Busy
    <2>2. QED
      BY <1>1, <1>2, <1>4, <2>1, EndStep DEF Answer
  <1>5. QED
    BY <1>3, <1>4 DEF Respond, OwnerGone

LEMMA AbortStep ==
    ASSUME IInv, NEW r \in Req, Abort(r)
    PROVE  IInv'
  <1>1. TypeOK'
    BY TypeStep DEF IInv, Next, Serve
  <1>2. /\ UNCHANGED <<now, sessions, traces, deleted, family, exchanged, late>>
        /\ Reply(r, "error")
    BY DEF Abort, tables, arrivals
  <1>3. QED
    BY <1>1, <1>2, EndStep DEF Answer

\* What complete_login changes: a new row and the family of its token.
LEMMA LoginEffect ==
    ASSUME IInv, NEW s \in Sid, NEW u \in User, NEW t \in Token, Login(s, u, t)
    PROVE  /\ UNCHANGED <<now, traces, deleted, req, exchanged, late>>
           /\ s \notin Rows
           /\ family[t] = None
           /\ family'[t] = s
           /\ \A x \in Token \ {t} : family'[x] = family[x]
           /\ \A x \in Token : family[x] # None => x # t /\ family'[x] = family[x]
           /\ Rows' = Rows \cup {s}
           /\ sessions'[s].hash = t
           /\ \A q \in Rows : sessions'[q] = sessions[q] /\ q # s
  <1>1. TypeOK
    BY DEF IInv
  <1>2. /\ UNCHANGED <<now, traces, deleted, req, exchanged, late>>
        /\ s \notin Rows
        /\ family[t] = None
    BY DEF Login, Fresh, arrivals
  <1>3. /\ family'[t] = s
        /\ \A x \in Token \ {t} : family'[x] = family[x]
        /\ \A x \in Token : family[x] # None => x # t /\ family'[x] = family[x]
    BY <1>1, <1>2 DEF Login, TypeOK
  <1>4. /\ Rows' = Rows \cup {s}
        /\ sessions'[s].hash = t
        /\ \A q \in Rows : sessions'[q] = sessions[q] /\ q # s
    <2>1. /\ sessions'[s] = [user |-> u, hash |-> t,
                             expires |-> now + RefreshTtl, revoked |-> FALSE]
          /\ \A q \in Sid \ {s} : sessions'[q] = sessions[q]
      BY <1>1 DEF Login, TypeOK
    <2>2. sessions'[s] \in SessionRow
      BY <1>1, <2>1, ConstantsAssumption DEF SessionRow, TypeOK
    <2>3. Rows' = Rows \cup {s}
      BY <2>1, <2>2, ConstantsAssumption DEF Rows
    <2>4. QED
      BY <1>2, <2>1, <2>3 DEF Rows
  <1>5. QED
    BY <1>2, <1>3, <1>4

LEMMA LoginStep ==
    ASSUME IInv, NEW s \in Sid, NEW u \in User, NEW t \in Token, Login(s, u, t)
    PROVE  IInv'
  <1>1. TypeOK /\ TypeOK'
    BY TypeStep DEF IInv, Next, Others
  <1>2. /\ UNCHANGED <<now, traces, deleted, req, exchanged, late>>
        /\ s \notin Rows
        /\ family[t] = None
    BY LoginEffect
  <1>3. /\ family'[t] = s
        /\ \A x \in Token \ {t} : family'[x] = family[x]
        /\ \A x \in Token : family[x] # None => x # t /\ family'[x] = family[x]
    BY LoginEffect
  <1>4. /\ Rows' = Rows \cup {s}
        /\ sessions'[s].hash = t
        /\ \A q \in Rows : sessions'[q] = sessions[q] /\ q # s
    BY LoginEffect
  <1>5. \A q \in Rows : /\ family[sessions[q].hash] = q
                        /\ sessions[q].hash \in Token
                        /\ q # None
    BY <1>1, ConstantsAssumption DEF IInv, HashesOwned, TypeOK, Rows, SessionRow
  <1>6. HashesOwned'
    BY <1>3, <1>4, <1>5 DEF HashesOwned
  <1>7. ExchangesTraced'
    <2>1. t \notin traces
      BY <1>2 DEF IInv, ExchangesTraced
    <2>2. \A g \in exchanged : family'[g[1]] = family'[g[2]]
      BY <1>1, <1>3 DEF IInv, ExchangesTraced, TypeOK
    <2>3. QED
      BY <1>1, <1>2, <1>3, <1>4, <2>1, <2>2 DEF IInv, ExchangesTraced, TypeOK
  <1>8. RequestsBound'
    <2>1. ASSUME NEW q \in Req, Busy(q)
          PROVE  /\ req[q].sid \in Rows'
                 /\ req[q].presented # t
                 /\ family'[req[q].presented] = req[q].sid
      BY <1>2, <1>3, <1>4, <2>1, ConstantsAssumption DEF IInv, RequestsBound, Rows
    <2>2. ASSUME NEW q \in Req, Written(q)
          PROVE  /\ req[q].new \in Token
                 /\ family'[req[q].new] = req[q].sid
                 /\ \A x \in Rows' : sessions'[x].hash # req[q].presented
      <3>1. Busy(q)
        BY <2>2 DEF Busy, Written
      <3>2. req[q].presented # t
        BY <2>1, <3>1
      <3>3. QED
        BY <1>3, <1>4, <2>2, <3>1, <3>2, ConstantsAssumption DEF IInv, RequestsBound, Rows
    <2>3. QED
      BY <1>2, <2>1, <2>2 DEF IInv, RequestsBound, Busy, Written
  <1>9. NewTokensApart'
    BY <1>2 DEF IInv, NewTokensApart
  <1>10. LateWillBeRefused'
    BY <1>1, <1>2, <1>4 DEF IInv, LateWillBeRefused, RequestsBound, Busy, TypeOK
  <1>11. AlarmsAboutRows'
    BY <1>2, <1>4 DEF IInv, AlarmsAboutRows
  <1>12. SingleUse'
    BY <1>2 DEF IInv, SingleUse
  <1>13. QED
    BY <1>1, <1>6, <1>7, <1>8, <1>9, <1>10, <1>11, <1>12 DEF IInv

\* soft_delete and the clock change nothing the invariant is about, but for the set
\* of deleted users, which only grows.
LEMMA QuietStep ==
    ASSUME IInv, TypeOK', deleted \subseteq deleted',
           UNCHANGED <<sessions, traces, req, family, exchanged, late>>
    PROVE  IInv'
  <1>1. (HashesOwned /\ ExchangesTraced /\ SingleUse)'
    BY DEF IInv, HashesOwned, ExchangesTraced, SingleUse, Rows
  <1>2. RequestsBound'
    BY DEF IInv, RequestsBound, Busy, Written, Rows
  <1>3. NewTokensApart'
    BY DEF IInv, NewTokensApart
  <1>4. LateWillBeRefused'
    BY DEF IInv, LateWillBeRefused, Busy
  <1>5. AlarmsAboutRows'
    BY DEF IInv, AlarmsAboutRows, Rows
  <1>6. QED
    BY <1>1, <1>2, <1>3, <1>4, <1>5 DEF IInv

----------------------------------------------------------------------------
(* The theorems *)

LEMMA InitIInv == Init => IInv
  <1> SUFFICES ASSUME Init PROVE IInv
    OBVIOUS
  <1>1. TypeOK
    BY DEF Init, TypeOK, Request, Pc, Answer
  <1>2. Rows = {}
    BY DEF Init, Rows
  <1>3. \A r \in Req : req[r].pc = "done" /\ req[r].answer = "none"
    BY DEF Init
  <1>4. exchanged = {} /\ traces = {} /\ late = {}
    BY DEF Init
  <1>5. QED
    BY <1>1, <1>2, <1>3, <1>4
    DEF IInv, HashesOwned, ExchangesTraced, RequestsBound, NewTokensApart, Busy, Written,
        LateWillBeRefused, AlarmsAboutRows, SingleUse

LEMMA NextIInv == IInv /\ [Next]_vars => IInv'
  <1> SUFFICES ASSUME IInv, [Next]_vars PROVE IInv'
    OBVIOUS
  <1>1. TypeOK'
    BY TypeStep DEF IInv
  <1>2. ASSUME NEW r \in Req, Serve(r)
        PROVE  IInv'
    BY <1>2, FindStep, CheckTraceStep, RevokeReusedStep, UpdateStep, InsertTraceStep,
       RespondStep, AbortStep DEF Serve
  <1>3. ASSUME NEW s \in Sid, RevokeSession(s)
        PROVE  IInv'
    <2>1. {s} \in SUBSET Rows
      BY <1>3 DEF RevokeSession
    <2>2. /\ sessions' = RevokeRows({s})
          /\ UNCHANGED <<now, traces, deleted, req, known, family, exchanged, late>>
      BY <1>3 DEF RevokeSession, arrivals
    <2>3. QED
      BY <1>1, <2>1, <2>2, RevokeStep
  <1>4. ASSUME NEW u \in User, RevokeAll(u)
        PROVE  IInv'
    <2>1. RowsOf(u) \in SUBSET Rows
      BY DEF RowsOf
    <2>2. /\ sessions' = RevokeRows(RowsOf(u))
          /\ UNCHANGED <<now, traces, deleted, req, known, family, exchanged, late>>
      BY <1>4 DEF RevokeAll, arrivals
    <2>3. QED
      BY <1>1, <2>1, <2>2, RevokeStep
  <1>5. ASSUME NEW u \in User, SoftDelete(u)
        PROVE  IInv'
    BY <1>1, <1>5, QuietStep DEF SoftDelete, arrivals
  <1>6. CASE Tick
    BY <1>1, <1>6, QuietStep DEF Tick, tables, arrivals
  <1>7. CASE UNCHANGED vars
    BY <1>1, <1>7, QuietStep DEF vars, tables, arrivals
  <1>8. QED
    BY <1>2, <1>3, <1>4, <1>5, <1>6, <1>7, LoginStep DEF Next, Others

\* The strengthening holds in every reachable state.
THEOREM Invariance == Spec => []IInv
  BY InitIInv, NextIInv, PTL DEF Spec

\* Every reachable state is well typed.
THEOREM TypeCorrect == Spec => []TypeOK
  <1>1. IInv => TypeOK
    BY DEF IInv
  <1>2. QED
    BY <1>1, Invariance, PTL

\* A refresh token buys at most one successor: the UNIQUE index on tokens.value_hash
\* is enough, without any lock or transaction around the statements of rotate_refresh.
THEOREM TokensSingleUse == Spec => []SingleUse
  <1>1. IInv => SingleUse
    BY DEF IInv
  <1>2. QED
    BY <1>1, Invariance, PTL

\* No row ever holds a hash that has a 'refresh_rotated' trace, and no two rows hold the
\* same hash.  This is why a replayed token is not found (ReplayRevokesAll fails).
THEOREM HashesLive == Spec => []CurrentHashIsLive
  <1>1. IInv => CurrentHashIsLive
    BY DEF IInv, CurrentHashIsLive, HashesOwned, ExchangesTraced
  <1>2. QED
    BY <1>1, Invariance, PTL

\* A request that arrives after revocation, expiry or deletion is given nothing.
THEOREM LateRefused == Spec => []LateIsRefused
  <1>1. IInv => LateIsRefused
    BY DEF IInv, LateWillBeRefused, LateIsRefused
  <1>2. QED
    BY <1>1, Invariance, PTL

\* An alarm is about a token that was exchanged, and its session stays revoked.
THEOREM AlarmsJustified == Spec => []AlarmIsJustifiedAndFinal
  <1>1. IInv => AlarmIsJustifiedAndFinal
    BY DEF IInv, AlarmsAboutRows, AlarmIsJustifiedAndFinal
  <1>2. QED
    BY <1>1, Invariance, PTL

----------------------------------------------------------------------------
(* Refinement *)

LEMMA UpdateMints ==
    ASSUME IInv, NEW r \in Req, NEW t \in Token, Update(r, t)
    PROVE  Contract!Next
  <1>1. req[r].sid \in Sid
    BY DEF IInv, RequestsBound, Busy, Update, Rows
  <1>2. Contract!Mint(t, req[r].sid)
    BY DEF Update, Fresh, Contract!Mint
  <1>3. QED
    BY <1>1, <1>2 DEF Contract!Next

LEMMA InsertTraceExchanges ==
    ASSUME IInv, NEW r \in Req, InsertTrace(r)
    PROVE  Contract!Next \/ UNCHANGED Contract!vars
  <1>1. CASE TraceConflict(req[r].presented)
    BY <1>1 DEF InsertTrace, Contract!vars
  <1>2. CASE ~TraceConflict(req[r].presented)
    <2>1. /\ req[r].presented \in Token
          /\ req[r].new \in Token
          /\ family[req[r].presented] # None
          /\ family[req[r].new] = family[req[r].presented]
      BY ConstantsAssumption DEF InsertTrace, IInv, RequestsBound, Busy, Written, Rows
    <2>2. \A g \in exchanged : g[1] # req[r].presented /\ g[2] # req[r].new
      BY <1>2 DEF InsertTrace, TraceConflict, IInv, ExchangesTraced, NewTokensApart
    <2>3. Contract!Exchange(req[r].presented, req[r].new)
      BY <1>2, <2>1, <2>2 DEF InsertTrace, Contract!Exchange
    <2>4. QED
      BY <2>1, <2>3 DEF Contract!Next
  <1>3. QED
    BY <1>1, <1>2

LEMMA LoginMints ==
    ASSUME NEW s \in Sid, NEW u \in User, NEW t \in Token, Login(s, u, t)
    PROVE  Contract!Next
  BY DEF Login, Fresh, Contract!Mint, Contract!Next

LEMMA StepRefines ==
    IInv /\ [Next]_vars => [Contract!Next]_(Contract!vars)
  <1> SUFFICES ASSUME IInv, [Next]_vars
               PROVE  Contract!Next \/ UNCHANGED Contract!vars
    OBVIOUS
  <1>1. ASSUME NEW r \in Req, Serve(r)
        PROVE  Contract!Next \/ UNCHANGED Contract!vars
    <2>1. ASSUME NEW t \in Token, Find(r, t)
          PROVE  UNCHANGED Contract!vars
      BY <2>1 DEF Find, Contract!vars
    <2>2. CASE CheckTrace(r) \/ RevokeReused(r) \/ Respond(r) \/ Abort(r)
      BY <2>2 DEF CheckTrace, RevokeReused, Respond, Abort, Contract!vars
    <2>3. QED
      BY <1>1, <2>1, <2>2, UpdateMints, InsertTraceExchanges DEF Serve
  <1>2. CASE Others
    BY <1>2, LoginMints
    DEF Others, RevokeSession, RevokeAll, SoftDelete, Tick, Contract!vars
  <1>3. CASE UNCHANGED vars
    BY <1>3 DEF vars, Contract!vars
  <1>4. QED
    BY <1>1, <1>2, <1>3 DEF Next

\* The concurrent statements implement the one-time-token contract.
THEOREM Refinement == Spec => ImplementsContract
  <1>1. Init => Contract!Init
    BY DEF Init, Contract!Init
  <1>2. QED
    BY <1>1, StepRefines, Invariance, PTL DEF Spec, ImplementsContract, Contract!Spec

----------------------------------------------------------------------------
(* The clients: the inductive invariant *)

\* A token that was minted belongs to a row.
MintedForRows == \A t \in Token : family[t] # None => family[t] \in Rows

Called(r) == call[r].caller # None
Arrived(r) == call[r].carries = None
SessionOf(r) == family[TokenOf(r)]

\* A slot nobody called is idle, a request that runs is a call's that has arrived, and
\* what a call was answered is about its own session.
CallsFormed ==
    \A r \in Req :
        /\ ~Called(r) => call[r] = Idle
        /\ Busy(r) => Called(r) /\ Arrived(r)
        /\ Called(r) => TokenOf(r) \in Token /\ SessionOf(r) # None
        /\ Called(r) /\ Arrived(r) /\ ~Busy(r) =>
              /\ req[r].answer # "none"
              /\ req[r].answer = "rotated" =>
                    req[r].new \in Token /\ family[req[r].new] = SessionOf(r)

HeldMinted == \A c \in Client : held[c] # None => family[held[c]] # None

Owns(c, s) ==
    \/ held[c] # None /\ family[held[c]] = s
    \/ \E r \in Req : call[r].caller = c /\ SessionOf(r) = s

\* No two clients have tokens of one session.
OwnedOnce == \A c, d \in Client, s \in Sid : Owns(c, s) /\ Owns(d, s) => c = d

\* A session whose calls never crossed has one call under way at most.
AloneUnlessCrossed == \A s \in Sid \ crossed : \A q, r \in UnderWay(s) : q = r

\* A call that nobody waits for was lost.
LostIsCut == \A r \in Req : Called(r) /\ ~call[r].waits => SessionOf(r) \in cut

\* What the row holds while the session's only call is at the server ...
RowFollowsRequest ==
    \A r \in Req : Busy(r) /\ req[r].sid \notin crossed =>
        sessions[req[r].sid].hash = IF Written(r) THEN req[r].new ELSE req[r].presented

\* ... and before the call arrives, or after it was answered.
RowFollowsCall ==
    \A r \in Req : Called(r) /\ ~Busy(r) /\ ~Excused(SessionOf(r)) =>
        LET h == sessions[SessionOf(r)].hash
        IN  IF Arrived(r)
            THEN /\ req[r].answer = "rotated" => h = req[r].new
                 /\ req[r].answer \in {"invalid", "reuse"} => h = TokenOf(r)
            ELSE h = TokenOf(r)

\* A call was made with the token that its client still holds for the session.
HeldFollowsCall ==
    \A c \in Client, r \in Req :
        /\ held[c] # None /\ Called(r) /\ family[held[c]] = SessionOf(r)
        /\ ~Excused(family[held[c]])
        => TokenOf(r) = held[c]

\* A client that waits for each call crosses only with a call it gave up.
SerialOwners == \A c \in Serial, s \in crossed : Owns(c, s) => s \in cut

ClientsIInv ==
    /\ IInv
    /\ ClientsTypeOK
    /\ MintedForRows
    /\ CallsFormed
    /\ HeldMinted
    /\ crossed \subseteq Rows
    /\ OwnedOnce
    /\ AloneUnlessCrossed
    /\ LostIsCut
    /\ RowFollowsRequest
    /\ RowFollowsCall
    /\ HeldFollowsCall
    /\ InStepUnlessCut
    /\ AlarmNeedsCrossing
    /\ SerialOwners

----------------------------------------------------------------------------
(* Every step of clients and network is a step of the server or leaves it alone *)

LEMMA StepIsServerStep == TypeOK /\ [ClientsNext]_clientsVars => [Next]_vars
  <1> SUFFICES ASSUME TypeOK, [ClientsNext]_clientsVars PROVE [Next]_vars
    OBVIOUS
  <1>1. ASSUME NEW r \in Req, Receive(r) \/ Lose(r) \/ Vanish(r)
        PROVE  [Next]_vars
    BY <1>1 DEF Receive, Lose, Vanish
  <1>2. ASSUME NEW r \in Req, Arrive(r)
        PROVE  [Next]_vars
    <2>1. call[r].carries \in Token
      BY <1>2 DEF Arrive, Find, TypeOK
    <2>2. QED
      BY <1>2, <2>1 DEF Arrive, Next, Serve
  <1>3. ASSUME NEW r \in Req, Handle(r)
        PROVE  [Next]_vars
    BY <1>3 DEF Handle, Statement, Next, Serve
  <1>4. ASSUME NEW c \in Client, NEW r \in Req, Begin(c, r)
        PROVE  [Next]_vars
    BY <1>4 DEF Begin
  <1>5. ASSUME NEW c \in Client, NEW s \in Sid, NEW u \in User, NEW t \in Token,
               ClientLogin(c, s, u, t)
        PROVE  [Next]_vars
    BY <1>5 DEF ClientLogin, Next, Others
  <1>6. ASSUME NEW c \in Client, Logout(c)
        PROVE  [Next]_vars
    BY <1>6 DEF Logout, RevokeSession, Rows, Next, Others
  <1>7. CASE OtherDevices
    BY <1>7 DEF OtherDevices, Next, Others
  <1>8. CASE UNCHANGED clientsVars
    BY <1>8 DEF clientsVars
  <1>9. QED
    BY <1>1, <1>2, <1>3, <1>4, <1>5, <1>6, <1>7, <1>8 DEF ClientsNext

\* Tokens keep their session, rows their owner, and nothing is undeleted.
Lasting ==
    /\ \A t \in Token : family[t] # None => family'[t] = family[t]
    /\ Rows \subseteq Rows'
    /\ \A s \in Rows : sessions'[s].user = sessions[s].user
    /\ deleted \subseteq deleted'
    /\ MintedForRows'

LEMMA TokensLast ==
    ASSUME IInv, MintedForRows, [Next]_vars
    PROVE  Lasting
  <1>1. TypeOK /\ TypeOK'
    BY TypeStep DEF IInv
  <1>2. CASE UNCHANGED <<sessions, family>> /\ deleted \subseteq deleted'
    BY <1>2 DEF Lasting, MintedForRows, Rows
  <1>3. ASSUME NEW S \in SUBSET Rows, sessions' = RevokeRows(S),
               UNCHANGED <<traces, family, exchanged, deleted>>
        PROVE  Lasting
    <2>1. Rows' = Rows /\ \A s \in Rows : sessions'[s].user = sessions[s].user
      BY <1>3, RevokedRows
    <2>2. QED
      BY <1>3, <2>1 DEF Lasting, MintedForRows
  <1>4. ASSUME NEW r \in Req, NEW t \in Token, Update(r, t)
        PROVE  Lasting
    <2>1. /\ UNCHANGED deleted
          /\ \A x \in Token : family[x] # None => family'[x] = family[x]
          /\ \A x \in Token \ {t} : family'[x] = family[x]
          /\ family'[t] = req[r].sid /\ req[r].sid \in Rows
          /\ Rows' = Rows
          /\ sessions'[req[r].sid].user = sessions[req[r].sid].user
          /\ \A s \in Rows \ {req[r].sid} : sessions'[s] = sessions[s]
      BY <1>1, <1>4, UpdateEffect
    <2>2. QED
      BY <2>1 DEF Lasting, MintedForRows
  <1>5. ASSUME NEW s \in Sid, NEW u \in User, NEW t \in Token, Login(s, u, t)
        PROVE  Lasting
    <2>1. /\ UNCHANGED deleted
          /\ \A x \in Token : family[x] # None => family'[x] = family[x]
          /\ \A x \in Token \ {t} : family'[x] = family[x]
          /\ family'[t] = s
          /\ Rows' = Rows \cup {s}
          /\ \A q \in Rows : sessions'[q] = sessions[q]
      BY <1>5, LoginEffect
    <2>2. QED
      BY <2>1 DEF Lasting, MintedForRows
  <1>6. CASE \E r \in Req : \/ \E t \in Token : Find(r, t)
                            \/ CheckTrace(r) \/ InsertTrace(r) \/ Respond(r) \/ Abort(r)
    BY <1>2, <1>6 DEF Find, CheckTrace, InsertTrace, Respond, Abort, tables
  <1>7. ASSUME NEW r \in Req, RevokeReused(r)
        PROVE  Lasting
    BY <1>3, <1>7, RowsOf(sessions[req[r].sid].user) \in SUBSET Rows
    DEF RevokeReused, RowsOf
  <1>8. ASSUME NEW s \in Sid, RevokeSession(s)
        PROVE  Lasting
    BY <1>3, <1>8, {s} \in SUBSET Rows DEF RevokeSession
  <1>9. ASSUME NEW u \in User, RevokeAll(u)
        PROVE  Lasting
    BY <1>3, <1>9, RowsOf(u) \in SUBSET Rows DEF RevokeAll, RowsOf
  <1>10. CASE (\E u \in User : SoftDelete(u)) \/ Tick \/ UNCHANGED vars
    BY <1>2, <1>10 DEF SoftDelete, Tick, vars, tables
  <1>11. QED
    BY <1>4, <1>5, <1>6, <1>7, <1>8, <1>9, <1>10 DEF Next, Serve, Others

----------------------------------------------------------------------------
(* What no step of the server changes about calls and owners *)

\* The sessions a client can name are rows, and stay what they are.
LEMMA SessionsLast ==
    ASSUME ClientsIInv, Lasting
    PROVE  /\ \A r \in Req : Called(r) => /\ SessionOf(r) \in Rows
                                          /\ family'[TokenOf(r)] = SessionOf(r)
           /\ \A c \in Client : held[c] # None => /\ held[c] \in Token
                                                  /\ family[held[c]] \in Rows
                                                  /\ family'[held[c]] = family[held[c]]
           /\ cut \subseteq cut' /\ crossed \subseteq crossed' =>
                 \A s \in Rows : Excused(s) => Excused(s)'
  <1>1. \A r \in Req : Called(r) => TokenOf(r) \in Token /\ SessionOf(r) # None
    BY DEF ClientsIInv, CallsFormed
  <1>2. \A c \in Client : held[c] # None => held[c] \in Token /\ family[held[c]] # None
    BY DEF ClientsIInv, HeldMinted, ClientsTypeOK
  <1>3. \A t \in Token : family[t] # None => family[t] \in Rows /\ family'[t] = family[t]
    BY DEF ClientsIInv, MintedForRows, Lasting
  <1>4. cut \subseteq cut' /\ crossed \subseteq crossed' =>
           \A s \in Rows : Excused(s) => Excused(s)'
    BY DEF Lasting, Excused
  <1>5. QED
    BY <1>1, <1>2, <1>3, <1>4 DEF SessionOf

\* Ownership that only shrinks.
LEMMA OwnersKeep ==
    ASSUME ClientsIInv, cut \subseteq cut', crossed' \subseteq crossed,
           \A c \in Client, s \in Sid : Owns(c, s)' => Owns(c, s)
    PROVE  OwnedOnce' /\ SerialOwners'
  <1>1. OwnedOnce'
    BY DEF ClientsIInv, OwnedOnce
  <1>2. SerialOwners'
    BY ClientsAssumption DEF ClientsIInv, SerialOwners, ClientsTypeOK
  <1>3. QED
    BY <1>1, <1>2

\* A step that leaves every row's hash and the progress of every request alone.
LEMMA SteadyKeeps ==
    ASSUME ClientsIInv, [Next]_vars, ClientsTypeOK',
           UNCHANGED <<call, cut, crossed, family>>,
           \A c \in Client : held'[c] \in {None, held[c]},
           Rows' = Rows, \A s \in Rows : sessions'[s].hash = sessions[s].hash,
           \A q \in Req : /\ req'[q].presented = req[q].presented
                          /\ req'[q].sid = req[q].sid
                          /\ req'[q].new = req[q].new
                          /\ req'[q].answer = req[q].answer
                          /\ Busy(q)' <=> Busy(q)
                          /\ Written(q)' <=> Written(q)
    PROVE  ClientsIInv'
  <1>1. IInv' /\ Lasting
    BY NextIInv, TokensLast DEF ClientsIInv
  <1>2. \A r \in Req : /\ TokenOf(r)' = TokenOf(r)
                       /\ SessionOf(r)' = SessionOf(r)
                       /\ Called(r)' <=> Called(r)
                       /\ Arrived(r)' <=> Arrived(r)
    BY DEF TokenOf, SessionOf, Called, Arrived
  <1>3. MintedForRows' /\ (crossed \subseteq Rows)'
    BY <1>1 DEF Lasting, ClientsIInv
  <1>4. CallsFormed'
    BY <1>2 DEF ClientsIInv, CallsFormed
  <1>5. HeldMinted'
    BY DEF ClientsIInv, HeldMinted
  <1>6. OwnedOnce' /\ SerialOwners'
    <2>1. \A c \in Client, s \in Sid : Owns(c, s)' => Owns(c, s)
      BY <1>2 DEF Owns
    <2>2. QED
      BY <2>1, OwnersKeep
  <1>7. AloneUnlessCrossed' /\ \A s \in Sid : UnderWay(s)' = UnderWay(s)
    <2>1. \A s \in Sid : UnderWay(s)' = UnderWay(s)
      BY <1>2 DEF UnderWay, SessionOf
    <2>2. QED
      BY <2>1 DEF ClientsIInv, AloneUnlessCrossed
  <1>8. LostIsCut'
    BY <1>2 DEF ClientsIInv, LostIsCut
  <1>9. RowFollowsRequest'
    <2>1. \A r \in Req : Busy(r) => req[r].sid \in Rows
      BY DEF ClientsIInv, IInv, RequestsBound
    <2>2. QED
      BY <2>1 DEF ClientsIInv, RowFollowsRequest
  <1>10. /\ \A r \in Req : Called(r) => SessionOf(r) \in Rows
         /\ \A c \in Client : held[c] # None => family[held[c]] \in Rows
         /\ \A s \in Rows : Excused(s) => Excused(s)'
    BY <1>1, SessionsLast
  <1>11. RowFollowsCall'
    BY <1>2, <1>10 DEF ClientsIInv, RowFollowsCall
  <1>12. HeldFollowsCall'
    BY <1>2, <1>10 DEF ClientsIInv, HeldFollowsCall
  <1>13. InStepUnlessCut'
    BY <1>7, <1>10 DEF ClientsIInv, InStepUnlessCut, Current, Rows
  <1>14. AlarmNeedsCrossing'
    BY DEF ClientsIInv, AlarmNeedsCrossing
  <1>15. QED
    BY <1>1, <1>3, <1>4, <1>5, <1>6, <1>7, <1>8, <1>9, <1>11, <1>12, <1>13, <1>14
    DEF ClientsIInv

----------------------------------------------------------------------------
(* The statements of the handler *)

\* The handler of r returns: what is in the row then is what the answer says, unless
\* the client will know better.
LEMMA ReplyKeeps ==
    ASSUME ClientsIInv, [Next]_vars, UNCHANGED <<clientVars, family>>,
           NEW r \in Req, Busy(r), NEW a \in Answer \ {"none"}, Reply(r, a),
           Rows' = Rows, \A s \in Rows : sessions'[s].hash = sessions[s].hash,
           a = "rotated" => Written(r),
           a = "invalid" => sessions[req[r].sid].user \in deleted,
           a = "reuse" => req[r].pc = "revokeAll"
    PROVE  ClientsIInv'
  <1> DEFINE id == req[r].sid
  <1>1. IInv' /\ Lasting /\ TypeOK
    BY NextIInv, TokensLast DEF ClientsIInv, IInv
  <1>2. /\ \A q \in Req \ {r} : req'[q] = req[q]
        /\ req'[r].pc = "done"
        /\ req'[r].answer = a
        /\ req'[r].sid = id
        /\ req'[r].presented = req[r].presented
        /\ req'[r].new = req[r].new
    BY <1>1, ReplyEffect
  <1>3. UNCHANGED <<held, call, begun, cut, crossed>>
    BY DEF clientVars, history
  <1>4. ClientsTypeOK'
    BY <1>1, <1>3 DEF ClientsIInv, ClientsTypeOK, IInv
  <1>5. \A q \in Req : /\ TokenOf(q)' = TokenOf(q)
                       /\ SessionOf(q)' = SessionOf(q)
                       /\ Called(q)' <=> Called(q)
                       /\ Arrived(q)' <=> Arrived(q)
    BY <1>2, <1>3 DEF TokenOf, SessionOf, Called, Arrived
  <1>6. /\ id \in Rows
        /\ Called(r) /\ Arrived(r)
        /\ TokenOf(r) = req[r].presented
        /\ SessionOf(r) = id
        /\ Written(r) => req[r].new \in Token /\ family[req[r].new] = id
    BY DEF ClientsIInv, CallsFormed, IInv, RequestsBound, TokenOf, SessionOf, Arrived
  <1> HIDE DEF id
  <1>7. /\ ~Busy(r)'
        /\ \A q \in Req \ {r} : /\ Busy(q)' <=> Busy(q)
                                /\ Written(q)' <=> Written(q)
    BY <1>2 DEF Busy, Written
  <1>8. MintedForRows' /\ (crossed \subseteq Rows)' /\ HeldMinted'
    BY <1>1, <1>3 DEF Lasting, ClientsIInv, HeldMinted
  <1>9. CallsFormed'
    BY <1>2, <1>3, <1>5, <1>6, <1>7 DEF ClientsIInv, CallsFormed
  <1>10. OwnedOnce' /\ SerialOwners'
    <2>1. \A c \in Client, s \in Sid : Owns(c, s)' => Owns(c, s)
      BY <1>3, <1>5 DEF Owns
    <2>2. QED
      BY <1>3, <2>1, OwnersKeep
  <1>11. AloneUnlessCrossed' /\ \A s \in Sid : UnderWay(s)' = UnderWay(s)
    <2>1. \A s \in Sid : UnderWay(s)' = UnderWay(s)
      BY <1>3, <1>5 DEF UnderWay, SessionOf
    <2>2. QED
      BY <1>3, <2>1 DEF ClientsIInv, AloneUnlessCrossed
  <1>12. LostIsCut'
    BY <1>3, <1>5 DEF ClientsIInv, LostIsCut
  <1>13. RowFollowsRequest'
    <2>1. \A q \in Req : Busy(q) => req[q].sid \in Rows
      BY DEF ClientsIInv, IInv, RequestsBound
    <2>2. QED
      BY <1>2, <1>3, <1>7, <2>1 DEF ClientsIInv, RowFollowsRequest
  <1>14. /\ \A q \in Req : Called(q) => SessionOf(q) \in Rows
         /\ \A c \in Client : held[c] # None => family[held[c]] \in Rows
         /\ \A s \in Rows : Excused(s) => Excused(s)'
    BY <1>1, <1>3, SessionsLast
  <1>15. id \notin crossed =>
            sessions[id].hash = IF Written(r) THEN req[r].new ELSE req[r].presented
    BY DEF ClientsIInv, RowFollowsRequest, id
  <1>16. RowFollowsCall'
    <2>1. ASSUME ~Excused(id)
          PROVE  /\ a = "rotated" => sessions[id].hash = req[r].new
                 /\ a \in {"invalid", "reuse"} => sessions[id].hash = TokenOf(r)
      <3>1. a # "invalid" /\ id \notin crossed
        BY <2>1 DEF Excused, id
      <3>2. a = "reuse" => ~Written(r)
        BY DEF Written
      <3>3. QED
        BY <1>6, <1>15, <3>1, <3>2
    <2>2. QED
      BY <1>2, <1>3, <1>5, <1>6, <1>7, <1>14, <2>1 DEF ClientsIInv, RowFollowsCall
  <1>17. HeldFollowsCall'
    BY <1>3, <1>5, <1>14 DEF ClientsIInv, HeldFollowsCall
  <1>18. InStepUnlessCut'
    BY <1>3, <1>11, <1>14 DEF ClientsIInv, InStepUnlessCut, Current, Rows
  <1>19. AlarmNeedsCrossing'
    <2>1. ASSUME a = "reuse"
          PROVE  id \in crossed
      <3>1. req[r].presented \in traces /\ ~Written(r)
        BY <2>1 DEF ClientsIInv, IInv, RequestsBound, Written
      <3>2. sessions[id].hash \notin traces
        BY <1>6 DEF ClientsIInv, IInv, ExchangesTraced
      <3>3. QED
        BY <1>15, <3>1, <3>2
    <2>2. QED
      BY <1>2, <1>3, <2>1 DEF ClientsIInv, AlarmNeedsCrossing
  <1>20. QED
    BY <1>1, <1>4, <1>8, <1>9, <1>10, <1>11, <1>12, <1>13, <1>16, <1>17, <1>18, <1>19
    DEF ClientsIInv

\* The UPDATE moves the row from the presented token to the new one.  Calls of other
\* sessions do not see it, and another call of this one means that they crossed.
LEMMA UpdateKeeps ==
    ASSUME ClientsIInv, UNCHANGED clientVars, NEW r \in Req, NEW t \in Token, Update(r, t)
    PROVE  ClientsIInv'
  <1> DEFINE id == req[r].sid
  <1>1. [Next]_vars
    BY DEF Next, Serve
  <1>2. IInv' /\ Lasting /\ TypeOK /\ TypeOK'
    BY <1>1, NextIInv, TokensLast DEF ClientsIInv, IInv
  <1>3. /\ UNCHANGED <<traces, deleted>>
        /\ family[t] = None
        /\ req[r].pc = "update"
        /\ id \in Rows
        /\ \A q \in Req \ {r} : req'[q] = req[q]
        /\ req'[r].pc = "insertTrace"
        /\ req'[r].new = t
        /\ req'[r].sid = id
        /\ req'[r].presented = req[r].presented
        /\ req'[r].answer = req[r].answer
        /\ Rows' = Rows
        /\ sessions'[id].hash = t
        /\ \A s \in Rows \ {id} : sessions'[s] = sessions[s]
    BY <1>2, UpdateEffect DEF ClientsIInv
  <1>4. UNCHANGED <<held, call, begun, cut, crossed>>
    BY DEF clientVars, history
  <1>5. ClientsTypeOK'
    BY <1>2, <1>4 DEF ClientsIInv, ClientsTypeOK
  <1>6. /\ \A q \in Req : Called(q) => /\ SessionOf(q) \in Rows
                                       /\ family'[TokenOf(q)] = SessionOf(q)
        /\ \A c \in Client : held[c] # None => /\ family[held[c]] \in Rows
                                               /\ family'[held[c]] = family[held[c]]
        /\ \A s \in Rows : Excused(s) => Excused(s)'
    BY <1>2, <1>4, SessionsLast
  <1>7. \A q \in Req : /\ TokenOf(q)' = TokenOf(q)
                       /\ Called(q)' <=> Called(q)
                       /\ Arrived(q)' <=> Arrived(q)
                       /\ Called(q) => SessionOf(q)' = SessionOf(q)
                       /\ Busy(q)' <=> Busy(q)
    BY <1>3, <1>4, <1>6 DEF TokenOf, SessionOf, Called, Arrived, Busy
  <1>8. /\ Called(r) /\ Arrived(r) /\ Busy(r)
        /\ TokenOf(r) = req[r].presented
        /\ SessionOf(r) = id
    BY <1>3 DEF ClientsIInv, CallsFormed, IInv, RequestsBound, TokenOf, SessionOf, Arrived,
                Busy
  <1>9. \A q \in Req : Busy(q) => /\ req[q].sid \in Rows
                                  /\ Called(q) /\ SessionOf(q) = req[q].sid
    BY DEF ClientsIInv, CallsFormed, IInv, RequestsBound, TokenOf, SessionOf, Arrived
  <1> HIDE DEF id
  <1>10. \A s \in Sid : UnderWay(s)' = UnderWay(s)
    BY <1>4, <1>7 DEF UnderWay, SessionOf, Called
  <1>11. \A q \in Req \ {r} : Called(q) /\ SessionOf(q) = id => id \in crossed
    BY <1>3, <1>8 DEF ClientsIInv, AloneUnlessCrossed, UnderWay, Called, SessionOf, Rows
  <1>12. MintedForRows' /\ (crossed \subseteq Rows)' /\ HeldMinted'
    BY <1>2, <1>3, <1>4, <1>6 DEF Lasting, ClientsIInv, HeldMinted
  <1>13. CallsFormed'
    <2>1. ASSUME NEW q \in Req \ {r}, req[q].new \in Token,
                 family[req[q].new] = SessionOf(q), Called(q)
          PROVE  family'[req[q].new] = SessionOf(q)
      <3>1. family[req[q].new] # None
        BY <2>1 DEF ClientsIInv, CallsFormed
      <3>2. QED
        BY <1>2, <2>1, <3>1 DEF Lasting
    <2>2. QED
      BY <1>2, <1>3, <1>4, <1>6, <1>7, <1>8, <2>1 DEF ClientsIInv, CallsFormed, Busy
  <1>14. OwnedOnce' /\ SerialOwners'
    <2>1. ASSUME NEW c \in Client, NEW s \in Sid, Owns(c, s)'
          PROVE  Owns(c, s)
      <3>1. CASE held'[c] # None /\ family'[held'[c]] = s
        BY <1>4, <1>6, <3>1 DEF Owns
      <3>2. ASSUME NEW q \in Req, call'[q].caller = c, SessionOf(q)' = s
            PROVE  Owns(c, s)
        <4>1. call[q].caller = c /\ Called(q)
          BY <1>4, <3>2, ClientsAssumption DEF Called
        <4>2. QED
          BY <1>7, <3>2, <4>1 DEF Owns
      <3>3. QED
        BY <2>1, <3>1, <3>2 DEF Owns
    <2>2. QED
      BY <1>4, <2>1, OwnersKeep
  <1>15. AloneUnlessCrossed'
    BY <1>4, <1>10 DEF ClientsIInv, AloneUnlessCrossed
  <1>16. LostIsCut'
    BY <1>4, <1>7 DEF ClientsIInv, LostIsCut
  <1>17. RowFollowsRequest'
    <2>1. Written(r)' /\ \A q \in Req \ {r} : Written(q)' <=> Written(q)
      BY <1>3 DEF Written
    <2>2. ASSUME NEW q \in Req \ {r}, Busy(q), req[q].sid \notin crossed
          PROVE  sessions'[req[q].sid] = sessions[req[q].sid]
      BY <1>3, <1>9, <1>11, <2>2
    <2>3. QED
      BY <1>3, <1>4, <1>7, <2>1, <2>2 DEF ClientsIInv, RowFollowsRequest
  <1>18. RowFollowsCall'
    <2>1. ASSUME NEW q \in Req, Called(q), ~Busy(q), ~Excused(SessionOf(q))
          PROVE  sessions'[SessionOf(q)] = sessions[SessionOf(q)]
      <3>1. SessionOf(q) # id
        BY <1>8, <1>11, <2>1 DEF Excused
      <3>2. QED
        BY <1>3, <1>6, <2>1, <3>1
    <2>2. QED
      BY <1>3, <1>4, <1>6, <1>7, <1>8, <2>1 DEF ClientsIInv, RowFollowsCall
  <1>19. HeldFollowsCall'
    BY <1>4, <1>6, <1>7 DEF ClientsIInv, HeldFollowsCall
  <1>20. InStepUnlessCut'
    <2>1. ASSUME NEW c \in Client, held[c] # None, ~Excused(family[held[c]]),
                 UnderWay(family[held[c]]) = {}
          PROVE  sessions'[family[held[c]]].hash = held[c]
      <3>1. family[held[c]] # id
        BY <1>8, <2>1 DEF UnderWay, Called, SessionOf
      <3>2. sessions[family[held[c]]].hash = held[c]
        BY <2>1 DEF ClientsIInv, InStepUnlessCut, Current
      <3>3. QED
        BY <1>3, <1>6, <2>1, <3>1, <3>2
    <2>2. QED
      BY <1>4, <1>6, <1>10, <2>1 DEF InStepUnlessCut, Current, Rows
  <1>21. AlarmNeedsCrossing'
    BY <1>3, <1>4 DEF ClientsIInv, AlarmNeedsCrossing, id
  <1>22. QED
    BY <1>2, <1>5, <1>12, <1>13, <1>14, <1>15, <1>16, <1>17, <1>18, <1>19, <1>20, <1>21
    DEF ClientsIInv

\* A statement of a handler, and what the handlers of other devices do.
LEMMA HandleKeeps ==
    ASSUME ClientsIInv, NEW r \in Req, Handle(r)
    PROVE  ClientsIInv'
  <1>1. UNCHANGED clientVars /\ UNCHANGED <<held, call, begun, cut, crossed>>
    BY DEF Handle, clientVars, history
  <1>2. [Next]_vars
    BY DEF Handle, Statement, Next, Serve
  <1>3. IInv /\ TypeOK /\ TypeOK'
    BY <1>2, TypeStep DEF ClientsIInv, IInv
  <1>4. ClientsTypeOK'
    BY <1>1, <1>3 DEF ClientsIInv, ClientsTypeOK
  <1>5. CASE CheckTrace(r)
    <2>1. UNCHANGED <<sessions, family>> /\ Rows' = Rows
      BY <1>5 DEF CheckTrace, tables, Rows
    <2>2. \A q \in Req : /\ req'[q].presented = req[q].presented
                         /\ req'[q].sid = req[q].sid
                         /\ req'[q].new = req[q].new
                         /\ req'[q].answer = req[q].answer
                         /\ Busy(q)' <=> Busy(q)
                         /\ Written(q)' <=> Written(q)
      BY <1>3, <1>5 DEF CheckTrace, TypeOK, Request, Busy, Written
    <2>3. QED
      BY <1>1, <1>2, <1>4, <2>1, <2>2, SteadyKeeps
  <1>6. CASE RevokeReused(r)
    <2>1. /\ UNCHANGED <<traces, family, exchanged>>
          /\ sessions' = RevokeRows(RowsOf(sessions[req[r].sid].user))
          /\ RowsOf(sessions[req[r].sid].user) \in SUBSET Rows
          /\ Reply(r, "reuse") /\ Busy(r) /\ req[r].pc = "revokeAll"
      BY <1>6 DEF RevokeReused, RowsOf, Busy
    <2>2. Rows' = Rows /\ \A s \in Rows : sessions'[s].hash = sessions[s].hash
      BY <1>3, <2>1, RevokedRows
    <2>3. QED
      BY <1>1, <1>2, <2>1, <2>2, ReplyKeeps DEF Answer
  <1>7. CASE \E t \in Token : Update(r, t)
    BY <1>1, <1>7, UpdateKeeps
  <1>8. CASE InsertTrace(r) /\ TraceConflict(req[r].presented)
    <2>1. /\ UNCHANGED <<sessions, family>> /\ Rows' = Rows
          /\ Reply(r, "error") /\ Busy(r)
      BY <1>8 DEF InsertTrace, Rows, Busy
    <2>2. QED
      BY <1>1, <1>2, <2>1, ReplyKeeps DEF Answer
  <1>9. CASE InsertTrace(r) /\ ~TraceConflict(req[r].presented)
    <2>1. UNCHANGED <<sessions, family>> /\ Rows' = Rows
      BY <1>9 DEF InsertTrace, Rows
    <2>2. \A q \in Req : /\ req'[q].presented = req[q].presented
                         /\ req'[q].sid = req[q].sid
                         /\ req'[q].new = req[q].new
                         /\ req'[q].answer = req[q].answer
                         /\ Busy(q)' <=> Busy(q)
                         /\ Written(q)' <=> Written(q)
      BY <1>3, <1>9 DEF InsertTrace, TypeOK, Request, Busy, Written
    <2>3. QED
      BY <1>1, <1>2, <1>4, <2>1, <2>2, SteadyKeeps
  <1>10. CASE Respond(r)
    <2>1. UNCHANGED <<sessions, family>> /\ Rows' = Rows /\ Busy(r) /\ Written(r)
      BY <1>10 DEF Respond, tables, Rows, Busy, Written
    <2>2. CASE Reply(r, "invalid") /\ sessions[req[r].sid].user \in deleted
      BY <1>1, <1>2, <2>1, <2>2, ReplyKeeps DEF Answer
    <2>3. CASE Reply(r, "rotated")
      BY <1>1, <1>2, <2>1, <2>3, ReplyKeeps DEF Answer
    <2>4. QED
      BY <1>10, <2>2, <2>3 DEF Respond, OwnerGone
  <1>11. CASE Abort(r)
    <2>1. /\ UNCHANGED <<sessions, family>> /\ Rows' = Rows
          /\ Reply(r, "error") /\ Busy(r)
      BY <1>11 DEF Abort, tables, Rows, Busy
    <2>2. QED
      BY <1>1, <1>2, <2>1, ReplyKeeps DEF Answer
  <1>12. QED
    BY <1>5, <1>6, <1>7, <1>8, <1>9, <1>10, <1>11 DEF Handle, Statement

\* A revocation, a deletion or a tick, whether or not a client forgets its token too.
LEMMA RevocationKeeps ==
    ASSUME ClientsIInv, ClientsTypeOK',
           UNCHANGED <<call, cut, crossed>>,
           \A c \in Client : held'[c] \in {None, held[c]},
           \/ \E s \in Sid : RevokeSession(s)
           \/ \E u \in User : RevokeAll(u)
           \/ \E u \in User : SoftDelete(u)
           \/ Tick
           \/ UNCHANGED vars
    PROVE  ClientsIInv'
  <1>1. [Next]_vars /\ IInv /\ UNCHANGED <<req, family>>
    BY DEF Next, Others, ClientsIInv, RevokeSession, RevokeAll, SoftDelete, Tick, vars
  <1>2. ASSUME NEW S \in SUBSET Rows, sessions' = RevokeRows(S),
               UNCHANGED <<traces, family, exchanged>>
        PROVE  Rows' = Rows /\ \A s \in Rows : sessions'[s].hash = sessions[s].hash
    BY <1>1, <1>2, RevokedRows
  <1>3. Rows' = Rows /\ \A s \in Rows : sessions'[s].hash = sessions[s].hash
    <2>1. ASSUME NEW s \in Sid, RevokeSession(s)
          PROVE  Rows' = Rows /\ \A q \in Rows : sessions'[q].hash = sessions[q].hash
      BY <1>2, <2>1, {s} \in SUBSET Rows DEF RevokeSession
    <2>2. ASSUME NEW u \in User, RevokeAll(u)
          PROVE  Rows' = Rows /\ \A q \in Rows : sessions'[q].hash = sessions[q].hash
      BY <1>2, <2>2, RowsOf(u) \in SUBSET Rows DEF RevokeAll, RowsOf
    <2>3. CASE UNCHANGED sessions
      BY <2>3 DEF Rows
    <2>4. QED
      BY <2>1, <2>2, <2>3 DEF SoftDelete, Tick, tables, vars
  <1>4. \A q \in Req : (Busy(q)' <=> Busy(q)) /\ (Written(q)' <=> Written(q))
    BY <1>1 DEF Busy, Written
  <1>5. QED
    BY <1>1, <1>3, <1>4, SteadyKeeps

LEMMA OtherDevicesKeep ==
    ASSUME ClientsIInv, OtherDevices \/ UNCHANGED clientsVars
    PROVE  ClientsIInv'
  <1>1. UNCHANGED <<held, call, begun, cut, crossed>>
    BY DEF OtherDevices, clientsVars, clientVars, history
  <1>2. [Next]_vars
    BY DEF OtherDevices, Next, Others, clientsVars
  <1>3. ClientsTypeOK'
    BY <1>1, <1>2, TypeStep DEF ClientsIInv, ClientsTypeOK, IInv
  <1>4. QED
    BY <1>1, <1>3, RevocationKeeps DEF OtherDevices, clientsVars

LEMMA LogoutKeeps ==
    ASSUME ClientsIInv, NEW c \in Client, Logout(c)
    PROVE  ClientsIInv'
  <1>1. /\ UNCHANGED <<call, begun, cut, crossed>>
        /\ held' = [held EXCEPT ![c] = None]
        /\ RevokeSession(family[held[c]]) \/ UNCHANGED vars
    BY DEF Logout, history
  <1>2. family[held[c]] \in Sid \/ UNCHANGED vars
    BY <1>1 DEF RevokeSession, Rows
  <1>3. [Next]_vars
    BY <1>1, <1>2 DEF Next, Others
  <1>4. TypeOK'
    BY <1>3, TypeStep DEF ClientsIInv, IInv
  <1>5. ClientsTypeOK'
    BY <1>1, <1>4 DEF ClientsIInv, ClientsTypeOK
  <1>6. \A d \in Client : held'[d] \in {None, held[d]}
    BY <1>1 DEF ClientsIInv, ClientsTypeOK
  <1>7. QED
    BY <1>1, <1>2, <1>5, <1>6, RevocationKeeps

----------------------------------------------------------------------------
(* Steps of a client and of the network *)

\* What the invariant says about the server alone, while the server stands still.
LEMMA ServerStill ==
    ASSUME ClientsIInv, UNCHANGED vars, crossed \subseteq crossed'
    PROVE  /\ IInv' /\ TypeOK' /\ Lasting /\ MintedForRows'
           /\ UNCHANGED <<sessions, traces, deleted, req, family>>
           /\ Rows' = Rows
           /\ RowFollowsRequest' /\ AlarmNeedsCrossing'
  <1>1. UNCHANGED <<sessions, traces, deleted, req, family>> /\ Rows' = Rows
    BY DEF vars, tables, Rows
  <1>2. IInv' /\ TypeOK' /\ Lasting /\ MintedForRows'
    BY NextIInv, TokensLast DEF ClientsIInv, IInv, Lasting
  <1>3. RowFollowsRequest' /\ AlarmNeedsCrossing'
    BY <1>1 DEF ClientsIInv, RowFollowsRequest, AlarmNeedsCrossing, Busy, Written
  <1>4. QED
    BY <1>1, <1>2, <1>3

\* A call owns the session it is about, and its client is a client.
LEMMA CallerOwns ==
    ASSUME ClientsIInv, NEW r \in Req, Called(r)
    PROVE  /\ call[r].caller \in Client
           /\ Owns(call[r].caller, SessionOf(r))
           /\ SessionOf(r) \in Rows
           /\ r \in UnderWay(SessionOf(r))
  <1>1. call[r].caller \in Client
    BY DEF ClientsIInv, ClientsTypeOK, Call, Called
  <1>2. SessionOf(r) \in Rows
    BY DEF ClientsIInv, CallsFormed, MintedForRows, SessionOf
  <1>3. QED
    BY <1>1, <1>2 DEF Owns, UnderWay, Called, SessionOf

\* refreshToken(): a call of the held token's session that finds another one under way
\* marks the crossing; otherwise it is alone and carries the current token, or the
\* client is excused.
LEMMA BeginKeeps ==
    ASSUME ClientsIInv, NEW c \in Client, NEW r \in Req, Begin(c, r)
    PROVE  ClientsIInv'
  <1> DEFINE t == held[c]
             s == family[t]
  <1>1. /\ MayCall(c) /\ t # None /\ begun < MaxCalls /\ call[r] = Idle /\ ~Busy(r)
        /\ call' = [call EXCEPT ![r] = [caller |-> c, carries |-> t, waits |-> TRUE]]
        /\ begun' = begun + 1
        /\ crossed' = IF UnderWay(s) # {} THEN crossed \cup {s} ELSE crossed
        /\ UNCHANGED <<vars, held, cut>>
    BY DEF Begin, Busy
  <1>2. crossed \subseteq crossed'
    BY <1>1
  <1>3. /\ IInv' /\ TypeOK' /\ Lasting /\ MintedForRows'
        /\ UNCHANGED <<sessions, traces, deleted, req, family>>
        /\ Rows' = Rows
        /\ RowFollowsRequest' /\ AlarmNeedsCrossing'
    BY <1>1, <1>2, ServerStill
  <1>4. t \in Token /\ s \in Rows /\ s # None
    BY <1>1 DEF ClientsIInv, ClientsTypeOK, HeldMinted, MintedForRows
  <1>5. /\ [caller |-> c, carries |-> t, waits |-> TRUE] \in Call
        /\ call'[r] = [caller |-> c, carries |-> t, waits |-> TRUE]
        /\ \A q \in Req \ {r} : call'[q] = call[q]
    BY <1>1, <1>4 DEF ClientsIInv, ClientsTypeOK, Call
  <1>6. ~Called(r) /\ c # None
    BY <1>1, ClientsAssumption DEF Called, Idle
  <1> HIDE DEF t, s
  <1>7. ClientsTypeOK'
    <2>1. call' \in [Req -> Call]
      BY <1>1, <1>5 DEF ClientsIInv, ClientsTypeOK
    <2>2. begun' \in 0..MaxCalls
      BY <1>1, ClientsAssumption DEF ClientsIInv, ClientsTypeOK
    <2>3. crossed' \subseteq Sid
      BY <1>1, <1>4 DEF ClientsIInv, ClientsTypeOK, Rows
    <2>4. QED
      BY <1>1, <1>3, <2>1, <2>2, <2>3 DEF ClientsIInv, ClientsTypeOK
  <1>8. /\ Called(r)' /\ ~Arrived(r)' /\ ~Busy(r)'
        /\ TokenOf(r)' = t /\ SessionOf(r)' = s
    BY <1>1, <1>3, <1>5, <1>6 DEF Called, Arrived, TokenOf, SessionOf, Busy, t, s
  <1>9. \A q \in Req \ {r} : /\ TokenOf(q)' = TokenOf(q)
                             /\ SessionOf(q)' = SessionOf(q)
                             /\ Called(q)' <=> Called(q)
                             /\ Arrived(q)' <=> Arrived(q)
                             /\ Busy(q)' <=> Busy(q)
    BY <1>3, <1>5 DEF TokenOf, SessionOf, Called, Arrived, Busy
  <1>10. \A x \in Sid : UnderWay(x)' = IF x = s THEN UnderWay(x) \cup {r} ELSE UnderWay(x)
    BY <1>6, <1>8, <1>9 DEF UnderWay, Called, SessionOf
  <1>11. CallsFormed'
    BY <1>3, <1>4, <1>5, <1>8, <1>9 DEF ClientsIInv, CallsFormed
  <1>12. HeldMinted' /\ (crossed \subseteq Rows)'
    BY <1>1, <1>3, <1>4 DEF ClientsIInv, HeldMinted
  <1>13. Owns(c, s)
    BY <1>1 DEF Owns, t, s
  <1>14. \A d \in Client, x \in Sid : Owns(d, x)' => Owns(d, x)
    <2>1. ASSUME NEW d \in Client, NEW x \in Sid, NEW q \in Req,
                 call'[q].caller = d, SessionOf(q)' = x
          PROVE  Owns(d, x)
      <3>1. CASE q = r
        BY <1>5, <1>8, <1>13, <2>1, <3>1
      <3>2. CASE q # r
        BY <1>5, <1>9, <2>1, <3>2 DEF Owns
      <3>3. QED
        BY <3>1, <3>2
    <2>2. QED
      BY <1>1, <1>3, <2>1 DEF Owns
  <1>15. OwnedOnce'
    BY <1>14 DEF ClientsIInv, OwnedOnce
  <1>16. \A d \in Client : Owns(d, s) => d = c
    BY <1>4, <1>13 DEF ClientsIInv, OwnedOnce, Rows
  <1>17. SerialOwners'
    <2>1. ASSUME NEW d \in Serial, Owns(d, s), UnderWay(s) # {}
          PROVE  s \in cut
      <3>1. d \in Client /\ d = c
        BY <1>16, <2>1, ClientsAssumption
      <3>2. PICK q \in Req : Called(q) /\ SessionOf(q) = s
        BY <2>1 DEF UnderWay, Called, SessionOf
      <3>3. call[q].caller = c
        BY <1>16, <3>2, CallerOwns
      <3>4. ~call[q].waits
        BY <1>1, <2>1, <3>1, <3>3 DEF MayCall, Waiting
      <3>5. QED
        BY <3>2, <3>4 DEF ClientsIInv, LostIsCut
    <2>2. ASSUME NEW d \in Serial, NEW x \in crossed', Owns(d, x)'
          PROVE  x \in cut'
      <3>1. Owns(d, x)
        BY <1>7, <1>14, <2>2, ClientsAssumption DEF ClientsTypeOK
      <3>2. CASE x \in crossed
        BY <1>1, <2>2, <3>1, <3>2 DEF ClientsIInv, SerialOwners
      <3>3. CASE x \notin crossed
        BY <1>1, <2>1, <2>2, <3>1, <3>3
      <3>4. QED
        BY <3>2, <3>3
    <2>3. QED
      BY <2>2 DEF SerialOwners
  <1>18. AloneUnlessCrossed'
    <2>1. ASSUME NEW x \in Sid \ crossed', NEW p \in UnderWay(x)', NEW q \in UnderWay(x)'
          PROVE  p = q
      <3>1. CASE x = s
        BY <1>1, <1>10, <2>1, <3>1
      <3>2. CASE x # s
        BY <1>2, <1>10, <2>1, <3>2 DEF ClientsIInv, AloneUnlessCrossed
      <3>3. QED
        BY <3>1, <3>2
    <2>2. QED
      BY <2>1 DEF AloneUnlessCrossed
  <1>19. LostIsCut'
    BY <1>1, <1>5, <1>8, <1>9 DEF ClientsIInv, LostIsCut
  <1>20. \A x \in Rows : Excused(x) => Excused(x)'
    BY <1>1, <1>2, <1>3 DEF Excused
  <1>21. \A q \in Req : Called(q) => SessionOf(q) \in Rows
    BY CallerOwns
  <1>22. RowFollowsCall'
    <2>1. ~Excused(s) /\ UnderWay(s) = {} => sessions[s].hash = t
      BY <1>1 DEF ClientsIInv, InStepUnlessCut, Current, t, s
    <2>2. \A x \in Rows : x = s /\ ~Excused(x)' => UnderWay(s) = {} /\ ~Excused(s)
      BY <1>1, <1>20 DEF Excused
    <2>3. QED
      BY <1>3, <1>4, <1>8, <1>9, <1>20, <1>21, <2>1, <2>2 DEF ClientsIInv, RowFollowsCall
  <1>23. HeldFollowsCall'
    <2>1. ASSUME NEW d \in Client, held[d] # None, family[held[d]] = s
          PROVE  held[d] = t
      BY <1>16, <2>1 DEF Owns, t
    <2>2. \A d \in Client : held[d] # None => family[held[d]] \in Rows
      BY DEF ClientsIInv, ClientsTypeOK, HeldMinted, MintedForRows
    <2>3. QED
      BY <1>1, <1>3, <1>8, <1>9, <1>20, <2>1, <2>2 DEF ClientsIInv, HeldFollowsCall
  <1>24. InStepUnlessCut'
    <2>1. \A d \in Client : held[d] # None => family[held[d]] \in Rows
      BY DEF ClientsIInv, ClientsTypeOK, HeldMinted, MintedForRows
    <2>2. \A x \in Rows : UnderWay(x)' = {} => UnderWay(x) = {}
      BY <1>10 DEF Rows
    <2>3. QED
      BY <1>1, <1>3, <1>20, <2>1, <2>2 DEF ClientsIInv, InStepUnlessCut, Current
  <1>25. QED
    BY <1>3, <1>7, <1>11, <1>12, <1>15, <1>17, <1>18, <1>19, <1>22, <1>23, <1>24
    DEF ClientsIInv

\* The slot of r changes, and nothing else about the calls.
LEMMA SlotChange ==
    ASSUME ClientsIInv, NEW r \in Req, NEW x \in Call, call' = [call EXCEPT ![r] = x],
           UNCHANGED <<req, family>>
    PROVE  /\ call' \in [Req -> Call]
           /\ call'[r] = x
           /\ \A q \in Req \ {r} : /\ call'[q] = call[q]
                                   /\ TokenOf(q)' = TokenOf(q)
                                   /\ SessionOf(q)' = SessionOf(q)
                                   /\ Called(q)' <=> Called(q)
                                   /\ Arrived(q)' <=> Arrived(q)
           /\ \A q \in Req : Busy(q)' <=> Busy(q)
  <1>1. /\ call' \in [Req -> Call]
        /\ call'[r] = x
        /\ \A q \in Req \ {r} : call'[q] = call[q]
    BY DEF ClientsIInv, ClientsTypeOK
  <1>2. QED
    BY <1>1 DEF TokenOf, SessionOf, Called, Arrived, Busy

\* The call of r is over, whether its answer was used or dropped.
LEMMA SlotFreed ==
    ASSUME ClientsIInv, NEW r \in Req, Called(r), ~Busy(r),
           call' = [call EXCEPT ![r] = Idle],
           UNCHANGED <<vars, begun, crossed>>, cut \subseteq cut', cut' \subseteq Sid,
           held' \in [Client -> Token \cup {None}],
           \A c \in Client : held'[c] # held[c] =>
               /\ c = call[r].caller
               /\ held'[c] # None /\ family[held'[c]] = SessionOf(r)
    PROVE  /\ IInv' /\ ClientsTypeOK' /\ MintedForRows' /\ CallsFormed' /\ HeldMinted'
           /\ (crossed \subseteq Rows)' /\ OwnedOnce' /\ AloneUnlessCrossed'
           /\ LostIsCut' /\ RowFollowsRequest' /\ RowFollowsCall' /\ AlarmNeedsCrossing'
           /\ SerialOwners'
           /\ HeldFollowsCall'
           /\ UNCHANGED <<sessions, family>>
           /\ \A s \in Sid : UnderWay(s)' = UnderWay(s) \ {r}
           /\ \A s \in Rows : Excused(s) => Excused(s)'
           /\ \A c \in Client, s \in Sid : Owns(c, s)' => Owns(c, s)
  <1>1. /\ IInv' /\ TypeOK' /\ Lasting /\ MintedForRows'
        /\ UNCHANGED <<sessions, traces, deleted, req, family>>
        /\ Rows' = Rows
        /\ RowFollowsRequest' /\ AlarmNeedsCrossing'
    BY ServerStill
  <1>2. Idle \in Call
    BY DEF Idle, Call
  <1>3. /\ call' \in [Req -> Call]
        /\ call'[r] = Idle
        /\ \A q \in Req \ {r} : /\ call'[q] = call[q]
                                /\ TokenOf(q)' = TokenOf(q)
                                /\ SessionOf(q)' = SessionOf(q)
                                /\ Called(q)' <=> Called(q)
                                /\ Arrived(q)' <=> Arrived(q)
        /\ \A q \in Req : Busy(q)' <=> Busy(q)
    BY <1>1, <1>2, SlotChange
  <1>4. ~Called(r)'
    BY <1>3 DEF Called, Idle
  <1>5. ClientsTypeOK'
    BY <1>1, <1>3 DEF ClientsIInv, ClientsTypeOK
  <1>6. CallsFormed'
    BY <1>1, <1>3, <1>4 DEF ClientsIInv, CallsFormed
  <1>7. /\ call[r].caller \in Client
        /\ Owns(call[r].caller, SessionOf(r))
        /\ SessionOf(r) \in Rows
        /\ r \in UnderWay(SessionOf(r))
    BY CallerOwns
  <1>8. HeldMinted' /\ (crossed \subseteq Rows)'
    BY <1>1, <1>7, ConstantsAssumption DEF ClientsIInv, HeldMinted, Rows
  <1>9. \A c \in Client, s \in Sid : Owns(c, s)' => Owns(c, s)
    <2>1. ASSUME NEW c \in Client, NEW s \in Sid, held'[c] # None, family'[held'[c]] = s
          PROVE  Owns(c, s)
      <3>1. CASE held'[c] = held[c]
        BY <1>1, <2>1, <3>1 DEF Owns
      <3>2. CASE held'[c] # held[c]
        BY <1>1, <1>7, <2>1, <3>2
      <3>3. QED
        BY <3>1, <3>2
    <2>2. ASSUME NEW c \in Client, NEW s \in Sid, NEW q \in Req,
                 call'[q].caller = c, SessionOf(q)' = s
          PROVE  Owns(c, s)
      <3>1. q # r
        BY <1>3, <2>2, ClientsAssumption DEF Idle
      <3>2. QED
        BY <1>3, <2>2, <3>1 DEF Owns
    <2>3. QED
      BY <2>1, <2>2 DEF Owns
  <1>10. OwnedOnce' /\ SerialOwners'
    BY <1>9, OwnersKeep
  <1>11. \A s \in Sid : UnderWay(s)' = UnderWay(s) \ {r}
    BY <1>3, <1>4 DEF UnderWay, Called, SessionOf
  <1>12. AloneUnlessCrossed'
    BY <1>11 DEF ClientsIInv, AloneUnlessCrossed
  <1>13. LostIsCut'
    BY <1>3, <1>4 DEF ClientsIInv, LostIsCut
  <1>14. \A s \in Rows : Excused(s) => Excused(s)'
    BY <1>1 DEF Excused
  <1>15. \A q \in Req : Called(q) => SessionOf(q) \in Rows
    BY CallerOwns
  <1>16. RowFollowsCall'
    BY <1>1, <1>3, <1>4, <1>14, <1>15 DEF ClientsIInv, RowFollowsCall
  <1>17. HeldFollowsCall'
    <2>1. ASSUME NEW c \in Client, NEW q \in Req \ {r}, held'[c] # None, Called(q),
                 family[held'[c]] = SessionOf(q), ~Excused(SessionOf(q))
          PROVE  TokenOf(q) = held'[c]
      <3>1. CASE held'[c] = held[c]
        BY <2>1, <3>1 DEF ClientsIInv, HeldFollowsCall
      <3>2. CASE held'[c] # held[c]
        <4>1. q \in UnderWay(SessionOf(r)) /\ SessionOf(r) \in Sid \ crossed
          BY <1>7, <2>1, <3>2, CallerOwns DEF Excused, Rows
        <4>2. q = r
          BY <1>7, <4>1 DEF ClientsIInv, AloneUnlessCrossed
        <4>3. QED
          BY <2>1, <4>2
      <3>3. QED
        BY <3>1, <3>2
    <2>2. QED
      BY <1>1, <1>3, <1>4, <1>14, <1>15, <2>1 DEF HeldFollowsCall
  <1>18. QED
    BY <1>1, <1>5, <1>6, <1>8, <1>9, <1>10, <1>11, <1>12, <1>13, <1>14, <1>16, <1>17

LEMMA VanishKeeps ==
    ASSUME ClientsIInv, NEW r \in Req, Vanish(r)
    PROVE  ClientsIInv'
  <1>1. /\ Called(r) /\ ~call[r].waits /\ ~Busy(r)
        /\ call' = [call EXCEPT ![r] = Idle]
        /\ UNCHANGED <<vars, held, begun, cut, crossed>>
    BY DEF Vanish, Called, Busy, history
  <1>2. held' \in [Client -> Token \cup {None}] /\ cut' \subseteq Sid
    BY <1>1 DEF ClientsIInv, ClientsTypeOK
  <1>3. /\ IInv' /\ ClientsTypeOK' /\ MintedForRows' /\ CallsFormed' /\ HeldMinted'
        /\ (crossed \subseteq Rows)' /\ OwnedOnce' /\ AloneUnlessCrossed'
        /\ LostIsCut' /\ RowFollowsRequest' /\ RowFollowsCall' /\ AlarmNeedsCrossing'
        /\ SerialOwners' /\ HeldFollowsCall'
        /\ UNCHANGED <<sessions, family>>
        /\ \A s \in Sid : UnderWay(s)' = UnderWay(s) \ {r}
        /\ \A s \in Rows : Excused(s) => Excused(s)'
    BY <1>1, <1>2, SlotFreed
  <1>4. SessionOf(r) \in cut
    BY <1>1 DEF ClientsIInv, LostIsCut
  <1>5. InStepUnlessCut'
    <2>1. ASSUME NEW c \in Client, NEW x \in Rows, held[c] # None, family[held[c]] = x,
                 ~Excused(x)', UnderWay(x)' = {}
          PROVE  sessions[x].hash = held[c]
      <3>1. ~Excused(x)
        BY <1>3, <2>1
      <3>2. UnderWay(x) = {}
        <4>1. r \notin UnderWay(x)
          BY <1>4, <3>1 DEF UnderWay, Excused, SessionOf
        <4>2. QED
          BY <1>3, <2>1, <4>1 DEF Rows
      <3>3. QED
        BY <2>1, <3>1, <3>2 DEF ClientsIInv, InStepUnlessCut, Current
    <2>2. \A c \in Client : held[c] # None => family[held[c]] \in Rows
      BY DEF ClientsIInv, ClientsTypeOK, HeldMinted, MintedForRows
    <2>3. QED
      BY <1>1, <1>3, <2>1, <2>2 DEF InStepUnlessCut, Current
  <1>6. QED
    BY <1>3, <1>5 DEF ClientsIInv

\* An answer that is received: the client stores what the row holds.
LEMMA ReceiveKeeps ==
    ASSUME ClientsIInv, NEW r \in Req, Receive(r)
    PROVE  ClientsIInv'
  <1> DEFINE c == call[r].caller
             s == SessionOf(r)
  <1>1. /\ call[r].waits /\ Arrived(r) /\ ~Busy(r)
        /\ held' = [held EXCEPT ![c] = Stored(c, r)]
        /\ cut' = IF req[r].answer = "error" THEN cut \cup {s} ELSE cut
        /\ call' = [call EXCEPT ![r] = Idle]
        /\ UNCHANGED <<vars, begun, crossed>>
    BY DEF Receive, Arrived, Answered, Busy, SessionOf
  <1>2. Called(r)
    BY <1>1 DEF ClientsIInv, CallsFormed, Idle
  <1>3. /\ c \in Client
        /\ Owns(c, s)
        /\ s \in Rows
        /\ r \in UnderWay(s)
    BY <1>2, CallerOwns
  <1>4. /\ req[r].answer \in {"rotated", "invalid", "reuse", "error"}
        /\ req[r].answer = "rotated" => /\ req[r].new \in Token
                                        /\ req[r].new # None
                                        /\ family[req[r].new] = s
    BY <1>1, <1>2, ConstantsAssumption
    DEF ClientsIInv, CallsFormed, ClientsTypeOK, TypeOK, Request, Answer
  <1> HIDE DEF c, s
  <1>5. /\ held' \in [Client -> Token \cup {None}]
        /\ \A d \in Client \ {c} : held'[d] = held[d]
        /\ held'[c] = IF req[r].answer = "rotated" THEN req[r].new ELSE held[c]
    BY <1>1, <1>3, <1>4 DEF ClientsIInv, ClientsTypeOK, Stored
  <1>6. cut \subseteq cut' /\ cut' \subseteq Sid
    BY <1>1, <1>3 DEF ClientsIInv, ClientsTypeOK, Rows
  <1>7. \A d \in Client : held'[d] # held[d] =>
           /\ d = call[r].caller
           /\ held'[d] # None /\ family[held'[d]] = SessionOf(r)
    BY <1>4, <1>5 DEF c, s
  <1>8. /\ IInv' /\ ClientsTypeOK' /\ MintedForRows' /\ CallsFormed' /\ HeldMinted'
        /\ (crossed \subseteq Rows)' /\ OwnedOnce' /\ AloneUnlessCrossed'
        /\ LostIsCut' /\ RowFollowsRequest' /\ RowFollowsCall' /\ AlarmNeedsCrossing'
        /\ SerialOwners' /\ HeldFollowsCall'
        /\ UNCHANGED <<sessions, family>>
        /\ \A x \in Sid : UnderWay(x)' = UnderWay(x) \ {r}
        /\ \A x \in Rows : Excused(x) => Excused(x)'
        /\ \A d \in Client, x \in Sid : Owns(d, x)' => Owns(d, x)
    BY <1>1, <1>2, <1>5, <1>6, <1>7, SlotFreed
  <1>9. InStepUnlessCut'
    <2>1. ASSUME NEW d \in Client, NEW x \in Rows, held'[d] # None, family[held'[d]] = x,
                 ~Excused(x)', UnderWay(x)' = {}
          PROVE  sessions[x].hash = held'[d]
      <3>1. ~Excused(x) /\ x \in Sid
        BY <1>8, <2>1 DEF Rows
      <3>2. CASE x # s
        <4>1. held'[d] = held[d]
          BY <1>7, <2>1, <3>2 DEF s
        <4>2. UnderWay(x) = {}
          <5>1. r \notin UnderWay(x)
            BY <3>2 DEF UnderWay, SessionOf, s
          <5>2. QED
            BY <1>8, <2>1, <3>1, <5>1
        <4>3. QED
          BY <2>1, <3>1, <4>1, <4>2 DEF ClientsIInv, InStepUnlessCut, Current
      <3>3. CASE x = s
        <4>1. d = c
          <5>1. Owns(d, x)'
            BY <1>8, <2>1 DEF Owns
          <5>2. Owns(d, x) /\ Owns(c, x)
            BY <1>3, <1>8, <3>1, <3>3, <5>1
          <5>3. QED
            BY <1>3, <3>1, <5>2 DEF ClientsIInv, OwnedOnce
        <4>2. req[r].answer # "error"
          BY <1>1, <2>1, <3>3 DEF Excused
        <4>3. CASE req[r].answer = "rotated"
          <5>1. sessions[x].hash = req[r].new
            BY <1>1, <1>2, <3>1, <3>3, <4>3 DEF ClientsIInv, RowFollowsCall, s
          <5>2. QED
            BY <1>5, <4>1, <4>3, <5>1
        <4>4. CASE req[r].answer \in {"invalid", "reuse"}
          <5>1. sessions[x].hash = TokenOf(r)
            BY <1>1, <1>2, <3>1, <3>3, <4>4 DEF ClientsIInv, RowFollowsCall, s
          <5>2. held'[d] = held[c]
            BY <1>5, <4>1, <4>4
          <5>3. TokenOf(r) = held[c]
            BY <1>2, <1>3, <2>1, <3>1, <3>3, <5>2 DEF ClientsIInv, HeldFollowsCall, s
          <5>4. QED
            BY <5>1, <5>2, <5>3
        <4>5. QED
          BY <1>4, <4>2, <4>3, <4>4
      <3>4. QED
        BY <3>2, <3>3
    <2>2. \A d \in Client : held'[d] # None => family[held'[d]] \in Rows
      <3>1. \A d \in Client : held[d] # None => family[held[d]] \in Rows
        BY DEF ClientsIInv, ClientsTypeOK, HeldMinted, MintedForRows
      <3>2. QED
        BY <1>3, <1>7, <3>1 DEF s
    <2>3. QED
      BY <1>8, <2>1, <2>2 DEF InStepUnlessCut, Current
  <1>10. QED
    BY <1>8, <1>9 DEF ClientsIInv

\* A call that is given up or cut off.
LEMMA LoseKeeps ==
    ASSUME ClientsIInv, NEW r \in Req, Lose(r)
    PROVE  ClientsIInv'
  <1>1. /\ call[r].waits
        /\ call' = [call EXCEPT ![r] = [@ EXCEPT !.waits = FALSE]]
        /\ cut' = cut \cup {SessionOf(r)}
        /\ UNCHANGED <<vars, held, begun, crossed>>
    BY DEF Lose, SessionOf
  <1>2. Called(r)
    BY <1>1 DEF ClientsIInv, CallsFormed, Idle
  <1>3. /\ IInv' /\ TypeOK' /\ Lasting /\ MintedForRows'
        /\ UNCHANGED <<sessions, traces, deleted, req, family>>
        /\ Rows' = Rows
        /\ RowFollowsRequest' /\ AlarmNeedsCrossing'
    BY <1>1, ServerStill
  <1>4. /\ [call[r] EXCEPT !.waits = FALSE] \in Call
        /\ [call[r] EXCEPT !.waits = FALSE].caller = call[r].caller
        /\ [call[r] EXCEPT !.waits = FALSE].carries = call[r].carries
    BY DEF ClientsIInv, ClientsTypeOK, Call
  <1>5. /\ call' \in [Req -> Call]
        /\ call'[r] = [call[r] EXCEPT !.waits = FALSE]
        /\ \A q \in Req \ {r} : call'[q] = call[q]
        /\ \A q \in Req : Busy(q)' <=> Busy(q)
    BY <1>1, <1>3, <1>4, SlotChange
  <1>6. \A q \in Req : /\ call'[q].caller = call[q].caller
                       /\ TokenOf(q)' = TokenOf(q)
                       /\ SessionOf(q)' = SessionOf(q)
                       /\ Called(q)' <=> Called(q)
                       /\ Arrived(q)' <=> Arrived(q)
    BY <1>3, <1>4, <1>5 DEF TokenOf, SessionOf, Called, Arrived
  <1>7. SessionOf(r) \in Rows /\ \A q \in Req : Called(q) => SessionOf(q) \in Rows
    BY <1>2, CallerOwns
  <1>8. ClientsTypeOK'
    BY <1>1, <1>3, <1>5, <1>7 DEF ClientsIInv, ClientsTypeOK, Rows
  <1>9. CallsFormed'
    BY <1>2, <1>3, <1>5, <1>6 DEF ClientsIInv, CallsFormed
  <1>10. HeldMinted' /\ (crossed \subseteq Rows)'
    BY <1>1, <1>3 DEF ClientsIInv, HeldMinted
  <1>11. OwnedOnce' /\ SerialOwners'
    <2>1. \A c \in Client, s \in Sid : Owns(c, s)' => Owns(c, s)
      BY <1>1, <1>3, <1>6 DEF Owns
    <2>2. QED
      BY <1>1, <2>1, OwnersKeep
  <1>12. \A s \in Sid : UnderWay(s)' = UnderWay(s)
    BY <1>6 DEF UnderWay, SessionOf, Called
  <1>13. AloneUnlessCrossed'
    BY <1>1, <1>12 DEF ClientsIInv, AloneUnlessCrossed
  <1>14. LostIsCut'
    BY <1>1, <1>5, <1>6 DEF ClientsIInv, LostIsCut
  <1>15. \A s \in Rows : Excused(s) => Excused(s)'
    BY <1>1, <1>3 DEF Excused
  <1>16. RowFollowsCall'
    BY <1>3, <1>5, <1>6, <1>7, <1>15 DEF ClientsIInv, RowFollowsCall
  <1>17. \A c \in Client : held[c] # None => family[held[c]] \in Rows
    BY DEF ClientsIInv, ClientsTypeOK, HeldMinted, MintedForRows
  <1>18. HeldFollowsCall'
    BY <1>1, <1>3, <1>6, <1>15, <1>17 DEF ClientsIInv, HeldFollowsCall
  <1>19. InStepUnlessCut'
    BY <1>1, <1>3, <1>12, <1>15, <1>17 DEF ClientsIInv, InStepUnlessCut, Current, Rows
  <1>20. QED
    BY <1>3, <1>8, <1>9, <1>10, <1>11, <1>13, <1>14, <1>16, <1>18, <1>19 DEF ClientsIInv

\* The request reaches find_by_refresh_hash: it is refused, or found while the row
\* holds its token.
LEMMA ArriveKeeps ==
    ASSUME ClientsIInv, NEW r \in Req, Arrive(r)
    PROVE  ClientsIInv'
  <1> DEFINE t == call[r].carries
  <1>1. /\ t # None /\ Find(r, t) /\ ~Busy(r)
        /\ call' = [call EXCEPT ![r] = [@ EXCEPT !.carries = None]]
        /\ UNCHANGED <<held, begun, cut, crossed>>
    BY DEF Arrive, Find, Busy, history
  <1>2. Called(r) /\ TokenOf(r) = t /\ ~Arrived(r)
    BY <1>1 DEF ClientsIInv, CallsFormed, Idle, TokenOf, Arrived
  <1>3. t \in Token
    BY <1>2 DEF ClientsIInv, CallsFormed
  <1>4. [Next]_vars /\ TypeOK
    BY <1>1, <1>3 DEF Next, Serve, ClientsIInv, IInv
  <1>5. IInv' /\ TypeOK' /\ Lasting
    BY <1>4, NextIInv, TypeStep, TokensLast DEF ClientsIInv, IInv
  <1>6. UNCHANGED <<sessions, traces, deleted, family>> /\ Rows' = Rows
    BY <1>1 DEF Find, tables, Rows
  <1>7. /\ \A q \in Req \ {r} : req'[q] = req[q]
        /\ req'[r].presented = t
        /\ \/ /\ req'[r].pc = "done"
              /\ req'[r].answer = "invalid"
           \/ /\ req'[r].pc = "checkTrace"
              /\ req'[r].answer = "none"
              /\ req'[r].sid \in Rows
              /\ sessions[req'[r].sid].hash = t
    BY <1>1, <1>3, <1>4, FindEffect
  <1>8. /\ call' \in [Req -> Call]
        /\ call'[r].caller = call[r].caller
        /\ call'[r].carries = None
        /\ call'[r].waits = call[r].waits
        /\ \A q \in Req \ {r} : call'[q] = call[q]
    BY <1>1 DEF ClientsIInv, ClientsTypeOK, Call
  <1> HIDE DEF t
  <1>9. \A q \in Req : /\ call'[q].caller = call[q].caller
                       /\ call'[q].waits = call[q].waits
                       /\ TokenOf(q)' = TokenOf(q)
                       /\ SessionOf(q)' = SessionOf(q)
                       /\ Called(q)' <=> Called(q)
    <2>1. TokenOf(r)' = t
      BY <1>7, <1>8 DEF TokenOf
    <2>2. \A q \in Req \ {r} : TokenOf(q)' = TokenOf(q)
      BY <1>7, <1>8 DEF TokenOf
    <2>3. QED
      BY <1>2, <1>6, <1>8, <2>1, <2>2 DEF SessionOf, Called
  <1>10. /\ Arrived(r)' /\ ~Written(r)'
         /\ \A q \in Req \ {r} : /\ Arrived(q)' <=> Arrived(q)
                                 /\ Busy(q)' <=> Busy(q)
                                 /\ Written(q)' <=> Written(q)
    BY <1>7, <1>8 DEF Arrived, Busy, Written
  <1>11. ClientsTypeOK' /\ MintedForRows' /\ HeldMinted' /\ (crossed \subseteq Rows)'
    BY <1>1, <1>5, <1>6, <1>8 DEF ClientsIInv, ClientsTypeOK, HeldMinted, Lasting
  <1>12. CallsFormed'
    BY <1>2, <1>6, <1>7, <1>8, <1>9, <1>10 DEF ClientsIInv, CallsFormed, Busy
  <1>13. OwnedOnce' /\ SerialOwners'
    <2>1. \A c \in Client, s \in Sid : Owns(c, s)' => Owns(c, s)
      BY <1>1, <1>6, <1>9 DEF Owns
    <2>2. QED
      BY <1>1, <2>1, OwnersKeep
  <1>14. \A s \in Sid : UnderWay(s)' = UnderWay(s)
    BY <1>9 DEF UnderWay, SessionOf, Called
  <1>15. AloneUnlessCrossed'
    BY <1>1, <1>14 DEF ClientsIInv, AloneUnlessCrossed
  <1>16. LostIsCut'
    BY <1>1, <1>9 DEF ClientsIInv, LostIsCut
  <1>17. RowFollowsRequest'
    BY <1>1, <1>6, <1>7, <1>10 DEF ClientsIInv, RowFollowsRequest, Busy
  <1>18. /\ \A q \in Req : Called(q) => SessionOf(q) \in Rows
         /\ \A c \in Client : held[c] # None => family[held[c]] \in Rows
         /\ \A s \in Rows : Excused(s) => Excused(s)'
    BY <1>1, <1>5, SessionsLast
  <1>19. RowFollowsCall'
    <2>1. ~Excused(SessionOf(r)) => sessions[SessionOf(r)].hash = TokenOf(r)
      BY <1>1, <1>2 DEF ClientsIInv, RowFollowsCall
    <2>2. req'[r].answer # "rotated"
      BY <1>7
    <2>3. QED
      BY <1>2, <1>6, <1>7, <1>9, <1>10, <1>18, <2>1, <2>2 DEF ClientsIInv, RowFollowsCall
  <1>20. HeldFollowsCall'
    BY <1>1, <1>6, <1>9, <1>18 DEF ClientsIInv, HeldFollowsCall
  <1>21. InStepUnlessCut'
    BY <1>1, <1>6, <1>14, <1>18 DEF ClientsIInv, InStepUnlessCut, Current, Rows
  <1>22. AlarmNeedsCrossing'
    BY <1>1, <1>7 DEF ClientsIInv, AlarmNeedsCrossing
  <1>23. QED
    BY <1>5, <1>11, <1>12, <1>13, <1>15, <1>16, <1>17, <1>19, <1>20, <1>21, <1>22
    DEF ClientsIInv

\* login() and loginMfa(): a session nobody has heard of gets its first token.
LEMMA ClientLoginKeeps ==
    ASSUME ClientsIInv, NEW c \in Client, NEW s \in Sid, NEW u \in User, NEW t \in Token,
           ClientLogin(c, s, u, t)
    PROVE  ClientsIInv'
  <1>1. /\ Login(s, u, t)
        /\ held' = [held EXCEPT ![c] = IF t \in known' THEN t ELSE @]
        /\ UNCHANGED <<call, begun, cut, crossed>>
    BY DEF ClientLogin, history
  <1>2. /\ UNCHANGED <<traces, deleted, req>>
        /\ s \notin Rows
        /\ family'[t] = s
        /\ Rows' = Rows \cup {s}
        /\ sessions'[s].hash = t
        /\ \A q \in Rows : sessions'[q] = sessions[q] /\ q # s
    BY <1>1, LoginEffect DEF ClientsIInv
  <1>3. [Next]_vars
    BY <1>1 DEF Next, Others
  <1>4. IInv' /\ TypeOK' /\ Lasting
    BY <1>3, NextIInv, TypeStep, TokensLast DEF ClientsIInv, IInv
  <1>5. /\ held' \in [Client -> Token \cup {None}]
        /\ held'[c] \in {t, held[c]}
        /\ \A d \in Client \ {c} : held'[d] = held[d]
    BY <1>1 DEF ClientsIInv, ClientsTypeOK
  <1>6. ClientsTypeOK'
    BY <1>1, <1>4, <1>5 DEF ClientsIInv, ClientsTypeOK
  <1>7. /\ \A q \in Req : Called(q) => /\ SessionOf(q) \in Rows
                                       /\ family'[TokenOf(q)] = SessionOf(q)
        /\ \A d \in Client : held[d] # None => /\ family[held[d]] \in Rows
                                               /\ family'[held[d]] = family[held[d]]
        /\ \A x \in Rows : Excused(x) => Excused(x)'
    BY <1>1, <1>4, SessionsLast
  <1>8. \A q \in Req : /\ TokenOf(q)' = TokenOf(q)
                       /\ Called(q)' <=> Called(q)
                       /\ Arrived(q)' <=> Arrived(q)
                       /\ Busy(q)' <=> Busy(q)
                       /\ Written(q)' <=> Written(q)
                       /\ Called(q) => SessionOf(q)' = SessionOf(q) /\ SessionOf(q) # s
    BY <1>1, <1>2, <1>7 DEF TokenOf, SessionOf, Called, Arrived, Busy, Written
  <1>9. \A d \in Client : held'[d] # None =>
           \/ held'[d] = held[d] /\ family'[held'[d]] = family[held[d]]
                                 /\ family[held[d]] \in Rows
           \/ d = c /\ held'[d] = t /\ family'[held'[d]] = s
    BY <1>2, <1>5, <1>7
  <1>10. MintedForRows' /\ (crossed \subseteq Rows)'
    BY <1>1, <1>2, <1>4 DEF ClientsIInv, Lasting
  <1>11. HeldMinted'
    BY <1>9, ConstantsAssumption DEF HeldMinted, Rows
  <1>12. CallsFormed'
    <2>1. ASSUME NEW q \in Req, req[q].new \in Token, family[req[q].new] = SessionOf(q),
                 Called(q)
          PROVE  family'[req[q].new] = SessionOf(q)
      <3>1. family[req[q].new] # None
        BY <2>1 DEF ClientsIInv, CallsFormed
      <3>2. QED
        BY <1>4, <2>1, <3>1 DEF Lasting
    <2>2. QED
      BY <1>1, <1>2, <1>8, <2>1, <1>7 DEF ClientsIInv, CallsFormed
  <1>13. ASSUME NEW d \in Client, NEW x \in Sid, Owns(d, x)'
         PROVE  (Owns(d, x) /\ x \in Rows) \/ (d = c /\ x = s)
    <2>1. CASE held'[d] # None /\ family'[held'[d]] = x
      BY <1>9, <2>1 DEF Owns
    <2>2. ASSUME NEW q \in Req, call'[q].caller = d, SessionOf(q)' = x
          PROVE  Owns(d, x) /\ x \in Rows
      <3>1. call[q].caller = d /\ Called(q)
        BY <1>1, <2>2, ClientsAssumption DEF Called
      <3>2. QED
        BY <1>7, <1>8, <2>2, <3>1 DEF Owns
    <2>3. QED
      BY <1>13, <2>1, <2>2 DEF Owns
  <1>14. OwnedOnce'
    BY <1>2, <1>13 DEF ClientsIInv, OwnedOnce
  <1>15. SerialOwners'
    <2>1. ASSUME NEW d \in Serial, NEW x \in crossed, Owns(d, x)'
          PROVE  x \in cut
      <3>1. d \in Client /\ x \in Sid /\ x # s
        BY <1>2, ClientsAssumption DEF ClientsIInv, Rows
      <3>2. QED
        BY <1>13, <2>1, <3>1 DEF ClientsIInv, SerialOwners
    <2>2. QED
      BY <1>1, <2>1 DEF SerialOwners
  <1>16. \A x \in Sid : UnderWay(x)' = IF x = s THEN {} ELSE UnderWay(x)
    BY <1>2, <1>8 DEF UnderWay, SessionOf, Called
  <1>17. AloneUnlessCrossed'
    BY <1>1, <1>16 DEF ClientsIInv, AloneUnlessCrossed
  <1>18. LostIsCut'
    BY <1>1, <1>8 DEF ClientsIInv, LostIsCut
  <1>19. RowFollowsRequest'
    <2>1. \A q \in Req : Busy(q) => req[q].sid \in Rows
      BY DEF ClientsIInv, IInv, RequestsBound
    <2>2. QED
      BY <1>1, <1>2, <1>8, <2>1 DEF ClientsIInv, RowFollowsRequest
  <1>20. RowFollowsCall'
    BY <1>2, <1>7, <1>8 DEF ClientsIInv, RowFollowsCall
  <1>21. HeldFollowsCall'
    <2>1. ASSUME NEW d \in Client, NEW q \in Req, held'[d] # None, Called(q),
                 family'[held'[d]] = SessionOf(q)
          PROVE  held'[d] = held[d] /\ family[held[d]] = SessionOf(q)
                                    /\ SessionOf(q) \in Rows
      BY <1>8, <1>9, <2>1
    <2>2. ASSUME NEW d \in Client, NEW q \in Req, NEW x \in Rows, held'[d] # None,
                 Called(q), x = SessionOf(q), family'[held'[d]] = x, ~Excused(x)'
          PROVE  TokenOf(q) = held'[d]
      BY <1>7, <2>1, <2>2 DEF ClientsIInv, HeldFollowsCall
    <2>3. QED
      BY <1>7, <1>8, <2>2 DEF HeldFollowsCall
  <1>22. InStepUnlessCut'
    <2>1. ASSUME NEW d \in Client, NEW x \in Rows, held[d] # None, family[held[d]] = x,
                 ~Excused(x)', UnderWay(x)' = {}
          PROVE  sessions'[x].hash = held[d]
      <3>1. ~Excused(x) /\ UnderWay(x) = {}
        BY <1>2, <1>7, <1>16, <2>1 DEF Rows
      <3>2. QED
        BY <1>2, <2>1, <3>1 DEF ClientsIInv, InStepUnlessCut, Current
    <2>2. QED
      BY <1>2, <1>9, <2>1 DEF InStepUnlessCut, Current
  <1>23. AlarmNeedsCrossing'
    BY <1>1, <1>2 DEF ClientsIInv, AlarmNeedsCrossing
  <1>24. QED
    BY <1>4, <1>6, <1>10, <1>11, <1>12, <1>14, <1>15, <1>17, <1>18, <1>19, <1>20, <1>21,
       <1>22, <1>23
    DEF ClientsIInv

----------------------------------------------------------------------------
(* The theorems about the clients *)

LEMMA ClientsInitIInv == ClientsInit => ClientsIInv
  <1> SUFFICES ASSUME ClientsInit PROVE ClientsIInv
    OBVIOUS
  <1>1. IInv
    BY InitIInv DEF ClientsInit
  <1>2. /\ \A t \in Token : family[t] = None
        /\ \A r \in Req : call[r] = Idle /\ ~Busy(r) /\ req[r].answer = "none"
        /\ \A c \in Client : held[c] = None
        /\ cut = {} /\ crossed = {} /\ begun = 0
        /\ held \in [Client -> Token \cup {None}]
        /\ Idle \in Call /\ call \in [Req -> Call]
    BY DEF ClientsInit, Init, Busy, Idle, Call
  <1>3. \A r \in Req : ~Called(r) /\ ~call[r].waits
    BY <1>2 DEF Called, Idle
  <1>4. ClientsTypeOK /\ MintedForRows /\ CallsFormed /\ HeldMinted
    BY <1>1, <1>2, <1>3, ClientsAssumption
    DEF ClientsTypeOK, MintedForRows, CallsFormed, HeldMinted, IInv
  <1>5. \A c \in Client, s \in Sid : ~Owns(c, s)
    BY <1>2, <1>3, ClientsAssumption DEF Owns, Called
  <1>6. \A s \in Sid : UnderWay(s) = {}
    BY <1>3 DEF UnderWay, Called
  <1>7. OwnedOnce /\ AloneUnlessCrossed /\ SerialOwners /\ LostIsCut
    BY <1>2, <1>3, <1>5, <1>6
    DEF OwnedOnce, AloneUnlessCrossed, SerialOwners, LostIsCut
  <1>8. /\ RowFollowsRequest /\ RowFollowsCall /\ HeldFollowsCall
        /\ InStepUnlessCut /\ AlarmNeedsCrossing
    BY <1>2, <1>3
    DEF RowFollowsRequest, RowFollowsCall, HeldFollowsCall, InStepUnlessCut,
        AlarmNeedsCrossing
  <1>9. QED
    BY <1>1, <1>2, <1>4, <1>7, <1>8 DEF ClientsIInv

LEMMA ClientsNextIInv == ClientsIInv /\ [ClientsNext]_clientsVars => ClientsIInv'
  <1> SUFFICES ASSUME ClientsIInv, [ClientsNext]_clientsVars PROVE ClientsIInv'
    OBVIOUS
  <1> QED
    BY BeginKeeps, ReceiveKeeps, LoseKeeps, VanishKeeps, ArriveKeeps, HandleKeeps,
       ClientLoginKeeps, LogoutKeeps, OtherDevicesKeep DEF ClientsNext

\* The strengthening holds in every reachable state.
THEOREM ClientsInvariance == ClientsSpec => []ClientsIInv
  BY ClientsInitIInv, ClientsNextIInv, PTL DEF ClientsSpec

\* Clients and network drive the server by its own steps alone, so that what is proved
\* of RefreshRotation is true of it behind every client.
THEOREM ClientsImplementServer == ClientsSpec => Spec
  <1>1. ClientsInit => Init
    BY DEF ClientsInit
  <1>2. ClientsIInv => TypeOK
    BY DEF ClientsIInv, IInv
  <1>3. QED
    BY <1>1, <1>2, StepIsServerStep, ClientsInvariance, PTL DEF ClientsSpec, Spec

\* Every reachable state is well typed: a client never stores what is not a token.
THEOREM ClientsTypeCorrect == ClientsSpec => []ClientsTypeOK
  <1>1. ClientsIInv => ClientsTypeOK
    BY DEF ClientsIInv
  <1>2. QED
    BY <1>1, ClientsInvariance, PTL

\* A client whose calls were all answered and never crossed is in step with its row.
THEOREM InStep == ClientsSpec => []InStepUnlessCut
  <1>1. ClientsIInv => InStepUnlessCut
    BY DEF ClientsIInv
  <1>2. QED
    BY <1>1, ClientsInvariance, PTL

\* A reuse alarm means that two calls of the owner crossed.
THEOREM AlarmIsCrossing == ClientsSpec => []AlarmNeedsCrossing
  <1>1. ClientsIInv => AlarmNeedsCrossing
    BY DEF ClientsIInv
  <1>2. QED
    BY <1>1, ClientsInvariance, PTL

\* A client that waits for each call crosses only with a call it gave up.
THEOREM SerialCrossings == ClientsSpec => []SerialCrossesOnlyWhenCut
  <1>1. ClientsIInv => SerialCrossesOnlyWhenCut
    <2>1. ASSUME ClientsIInv, NEW c \in Serial, held[c] # None,
                 family[held[c]] \in crossed
          PROVE  family[held[c]] \in cut
      BY <2>1 DEF ClientsIInv, SerialOwners, Owns
    <2>2. QED
      BY <2>1 DEF SerialCrossesOnlyWhenCut
  <1>2. QED
    BY <1>1, ClientsInvariance, PTL
=============================================================================
