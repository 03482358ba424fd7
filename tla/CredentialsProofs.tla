-------------------------- MODULE CredentialsProofs --------------------------
(***************************************************************************)
(* Proofs about Credentials for every set of passwords, sessions, reset    *)
(* tokens and requests, and every limit of the session list.               *)
(***************************************************************************)
EXTENDS Credentials, TLAPS

----------------------------------------------------------------------------
(* The inductive invariant *)

\* A request that is to store a password holds one, and a request that presented a
\* reset token holds it.
RequestsHold ==
    \A r \in Req :
        /\ req[r].pc \in {"useToken", "setReset", "setChange"} => req[r].pw \in Password
        /\ req[r].pc \in {"useToken", "setReset"} => req[r].tok \in ResetToken

\* Request r is between the two statements of consume_action_token, or past them and
\* yet to store the password.
Holds(r, t) == req[r].pc \in {"useToken", "setReset"} /\ req[r].tok = t

\* Why a token stores one password: once it has a right to store one, it is marked, and
\* two rights to the same token overlapped.
OneRight ==
    /\ \A r \in Req : req[r].pc = "setReset" => tokens[req[r].tok] = "used"
    /\ \A e \in effects : tokens[e[1]] = "used"
    /\ \A q, r \in Req : \A t \in ResetToken :
          Holds(q, t) /\ Holds(r, t) => q = r \/ t \in overlapped
    /\ \A e \in effects : \A r \in Req : Holds(r, e[1]) => e[1] \in overlapped
    /\ ResetTokenOnceUnlessOverlapped

IInv == TypeOK /\ RequestsHold /\ OneRight /\ SupersededIsExcused /\ DeletedIsExcused

\* What both properties say of the sessions that should not be live.
Accounted(s) == s \in excused \/ BeingRevoked(s)

----------------------------------------------------------------------------
(* What a request has yet to revoke *)

\* What is left to a request depends on the statement it is at.
LEMMA PendingValue ==
    ASSUME NEW r \in Req
    PROVE  /\ req[r].pc \in {"revokeAll", "list"} => Pending(r) = live
           /\ req[r].pc = "loop" => Pending(r) = req[r].todo
           /\ req[r].pc \notin {"revokeAll", "list", "loop"} => Pending(r) = {}
  BY DEF Pending

\* The same in the next state.
LEMMA PendingValueNext ==
    ASSUME NEW r \in Req
    PROVE  /\ req'[r].pc \in {"revokeAll", "list"} => Pending(r)' = live'
           /\ req'[r].pc = "loop" => Pending(r)' = req'[r].todo
           /\ req'[r].pc \notin {"revokeAll", "list", "loop"} => Pending(r)' = {}
  BY DEF Pending

\* A request that a step leaves alone goes on to revoke what is still live of it.
LEMMA PendingKept ==
    ASSUME NEW q \in Req, req'[q] = req[q],
           NEW s \in live', s \in Pending(q), s \in live
    PROVE  s \in Pending(q)'
  BY PendingValue, PendingValueNext

\* A step of request r that is not its last one.
LEMMA GotoEffect ==
    ASSUME TypeOK, NEW r \in Req, NEW pc \in Pc, Goto(r, pc)
    PROVE  /\ req' \in [Req -> Request]
           /\ \A q \in Req \ {r} : req'[q] = req[q]
           /\ req'[r] = [req[r] EXCEPT !.pc = pc]
           /\ req'[r].pc = pc
           /\ req'[r].pw = req[r].pw
           /\ req'[r].tok = req[r].tok
  <1>1. [req[r] EXCEPT !.pc = pc] \in Request
    BY DEF TypeOK, Request
  <1>2. /\ [req[r] EXCEPT !.pc = pc].pc = pc
        /\ [req[r] EXCEPT !.pc = pc].pw = req[r].pw
        /\ [req[r] EXCEPT !.pc = pc].tok = req[r].tok
    BY DEF TypeOK, Request
  <1>3. QED
    BY <1>1, <1>2 DEF Goto, TypeOK

\* The last step of request r, or the first one, with the record it starts with.
LEMMA SlotEffect ==
    ASSUME TypeOK, NEW r \in Req, NEW x \in Request, req' = [req EXCEPT ![r] = x]
    PROVE  /\ req' \in [Req -> Request]
           /\ \A q \in Req \ {r} : req'[q] = req[q]
           /\ req'[r] = x
  BY DEF TypeOK

\* An idle slot.
LEMMA IdleRequest ==
    /\ Idle \in Request
    /\ Idle.pc = "done"
  BY DEF Idle, Request, Pc

----------------------------------------------------------------------------
(* Type correctness *)

\* A step that ends request r.
LEMMA FinishTypes ==
    ASSUME TypeOK, RequestsHold, NEW r \in Req, Finish(r)
    PROVE  req' \in [Req -> Request] /\ RequestsHold'
  <1>1. /\ req' \in [Req -> Request]
        /\ \A q \in Req \ {r} : req'[q] = req[q]
        /\ req'[r].pc = "done"
    BY SlotEffect, IdleRequest DEF Finish
  <1>2. RequestsHold'
    BY <1>1 DEF RequestsHold
  <1>3. QED
    BY <1>1, <1>2

\* A step that starts request r with the record x.
LEMMA StartTypes ==
    ASSUME TypeOK, RequestsHold, NEW r \in Req, NEW x \in Request,
           req' = [req EXCEPT ![r] = x],
           x.pc \in {"useToken", "setReset", "setChange"} => x.pw \in Password,
           x.pc \in {"useToken", "setReset"} => x.tok \in ResetToken
    PROVE  req' \in [Req -> Request] /\ RequestsHold'
  <1>1. /\ req' \in [Req -> Request]
        /\ \A q \in Req \ {r} : req'[q] = req[q]
        /\ req'[r] = x
    BY SlotEffect
  <1>2. RequestsHold'
    BY <1>1 DEF RequestsHold
  <1>3. QED
    BY <1>1, <1>2

\* A step of request r between two of its statements.
LEMMA GotoTypes ==
    ASSUME TypeOK, RequestsHold, NEW r \in Req, NEW pc \in Pc, Goto(r, pc),
           pc \notin {"useToken", "setChange"},
           pc = "setReset" => req[r].pc = "useToken"
    PROVE  req' \in [Req -> Request] /\ RequestsHold'
  <1>1. /\ req' \in [Req -> Request]
        /\ \A q \in Req \ {r} : req'[q] = req[q]
        /\ req'[r].pc = pc
        /\ req'[r].pw = req[r].pw
        /\ req'[r].tok = req[r].tok
    BY GotoEffect
  <1>2. RequestsHold'
    BY <1>1 DEF RequestsHold
  <1>3. QED
    BY <1>1, <1>2

\* The records that a login, a reset and a change start with.
LEMMA LoginRequest ==
    ASSUME NEW p \in Password
    PROVE  /\ [Idle EXCEPT !.pc = "openSession", !.pw = p] \in Request
           /\ [Idle EXCEPT !.pc = "openSession", !.pw = p].pc = "openSession"
  BY DEF Idle, Request, Pc

\* A reset starts with the token it found and the password it is to store.
LEMMA ResetRequest ==
    ASSUME NEW p \in Password, NEW t \in ResetToken
    PROVE  LET x == [Idle EXCEPT !.pc = "useToken", !.pw = p, !.tok = t]
           IN  x \in Request /\ x.pc = "useToken" /\ x.pw = p /\ x.tok = t
  BY DEF Idle, Request, Pc

\* A change starts with the password it is to store and the session it comes from.
LEMMA ChangeRequest ==
    ASSUME NEW p \in Password, NEW s \in Sid
    PROVE  LET x == [Idle EXCEPT !.pc = "setChange", !.pw = p, !.own = s]
           IN  x \in Request /\ x.pc = "setChange" /\ x.pw = p
  BY DEF Idle, Request, Pc

\* The records that need nothing but their next statement.
LEMMA IdleStarts ==
    ASSUME NEW pc \in {"mint", "softDelete"}
    PROVE  [Idle EXCEPT !.pc = pc] \in Request /\ [Idle EXCEPT !.pc = pc].pc = pc
  BY DEF Idle, Request, Pc

\* list_user_sessions is followed by the loop, with what is to be revoked.
LEMMA ListEffect ==
    ASSUME TypeOK, NEW r \in Req, List(r)
    PROVE  \E todo \in SUBSET Sid :
              /\ req' \in [Req -> Request]
              /\ \A q \in Req \ {r} : req'[q] = req[q]
              /\ req'[r].pc = "loop"
              /\ req'[r].todo = todo
              /\ excused' = excused \cup (live \ todo)
  <1>1. PICK listed \in SUBSET (live \cup ended) :
           /\ req' = [req EXCEPT ![r].pc = "loop",
                                 ![r].todo = Others(listed, req[r].own)]
           /\ excused' = excused \cup (live \ Others(listed, req[r].own))
    BY DEF List
  <1>2. Others(listed, req[r].own) \in SUBSET Sid
    BY DEF Others, TypeOK
  <1>3. \A todo \in SUBSET Sid :
           LET x == [req[r] EXCEPT !.pc = "loop", !.todo = todo]
           IN  x \in Request /\ x.pc = "loop" /\ x.todo = todo
    BY DEF TypeOK, Request, Pc
  <1>4. req' = [req EXCEPT ![r] = [req[r] EXCEPT !.pc = "loop",
                                       !.todo = Others(listed, req[r].own)]]
    BY <1>1 DEF TypeOK, Request
  <1>5. /\ req' \in [Req -> Request]
        /\ \A q \in Req \ {r} : req'[q] = req[q]
        /\ req'[r].pc = "loop"
        /\ req'[r].todo = Others(listed, req[r].own)
    BY <1>2, <1>3, <1>4 DEF TypeOK
  <1>6. QED
    BY <1>1, <1>2, <1>5

\* Types after the list was read.
LEMMA ListTypes ==
    ASSUME TypeOK, RequestsHold, NEW r \in Req, List(r)
    PROVE  TypeOK' /\ RequestsHold'
  <1>1. PICK todo \in SUBSET Sid :
           /\ req' \in [Req -> Request]
           /\ \A q \in Req \ {r} : req'[q] = req[q]
           /\ req'[r].pc = "loop"
           /\ req'[r].todo = todo
           /\ excused' = excused \cup (live \ todo)
    BY ListEffect
  <1>2. RequestsHold'
    BY <1>1 DEF RequestsHold
  <1>3. excused' \subseteq Sid
    BY <1>1 DEF TypeOK
  <1>4. QED
    BY <1>1, <1>2, <1>3 DEF List, TypeOK, rows

\* One turn of the loop takes s off the list.
LEMMA RevokeNextEffect ==
    ASSUME TypeOK, NEW r \in Req, NEW s \in Sid, RevokeNext(r, s)
    PROVE  /\ req' \in [Req -> Request]
           /\ \A q \in Req \ {r} : req'[q] = req[q]
           /\ req'[r].pc = "loop"
           /\ req'[r].todo = req[r].todo \ {s}
  <1>1. req[r] \in Request /\ req[r].pc = "loop"
    BY DEF TypeOK, RevokeNext
  <1>2. \A todo \in SUBSET Sid :
           LET x == [req[r] EXCEPT !.todo = todo]
           IN  x \in Request /\ x.pc = "loop" /\ x.todo = todo
    BY <1>1 DEF Request
  <1>3. req[r].todo \ {s} \in SUBSET Sid
    BY <1>1 DEF Request
  <1>4. req' = [req EXCEPT ![r] = [req[r] EXCEPT !.todo = req[r].todo \ {s}]]
    BY DEF RevokeNext, Rest, TypeOK
  <1>5. QED
    BY <1>2, <1>3, <1>4 DEF TypeOK

\* Types after a turn of the loop.
LEMMA RevokeNextTypes ==
    ASSUME TypeOK, RequestsHold, NEW r \in Req, NEW s \in Sid, RevokeNext(r, s)
    PROVE  TypeOK' /\ RequestsHold'
  <1>1. /\ req' \in [Req -> Request]
        /\ \A q \in Req \ {r} : req'[q] = req[q]
        /\ req'[r].pc = "loop"
    BY RevokeNextEffect
  <1>2. RequestsHold'
    BY <1>1 DEF RequestsHold
  <1>3. /\ live' \subseteq Sid /\ ended' \subseteq Sid /\ live' \cap ended' = {}
        /\ excused' \subseteq Sid
    BY DEF RevokeNext, StillLive, TypeOK
  <1>4. QED
    BY <1>1, <1>2, <1>3 DEF RevokeNext, TypeOK

\* Every statement of a request keeps the types.
LEMMA ServeTypes ==
    ASSUME TypeOK, RequestsHold, NEW r \in Req, Serve(r)
    PROVE  TypeOK' /\ RequestsHold'
  <1>1. ASSUME NEW p \in Password, MatchPassword(r, p)
        PROVE  TypeOK' /\ RequestsHold'
    <2>0. PICK x \in Request :
             x.pc = "openSession" /\ req' = [req EXCEPT ![r] = x]
      BY <1>1, LoginRequest DEF MatchPassword
    <2>1. req' \in [Req -> Request] /\ RequestsHold'
      BY <2>0, StartTypes
    <2>2. QED
      BY <1>1, <2>1 DEF MatchPassword, TypeOK, rows, history
  <1>2. ASSUME NEW s \in Sid, OpenSession(r, s)
        PROVE  TypeOK' /\ RequestsHold'
    <2>1. req' \in [Req -> Request] /\ RequestsHold'
      BY <1>2, FinishTypes DEF OpenSession
    <2>2. req[r].pw \in Password \cup {None}
      BY DEF TypeOK, Request
    <2>3. basis' \in [Sid -> Password \cup {None}] /\ excused' \subseteq Sid
      BY <1>2, <2>2 DEF OpenSession, TypeOK
    <2>4. live' \subseteq Sid /\ live' \cap ended' = {}
      BY <1>2 DEF OpenSession, TypeOK
    <2>5. QED
      BY <1>2, <2>1, <2>3, <2>4 DEF OpenSession, TypeOK
  <1>3. CASE FindAccount(r)
    <2>1. req' \in [Req -> Request] /\ RequestsHold'
      BY <1>3, StartTypes, IdleStarts DEF FindAccount
    <2>2. QED
      BY <1>3, <2>1 DEF FindAccount, TypeOK, rows, history
  <1>4. ASSUME NEW t \in ResetToken, Mint(r, t)
        PROVE  TypeOK' /\ RequestsHold'
    <2>1. req' \in [Req -> Request] /\ RequestsHold'
      BY <1>4, FinishTypes DEF Mint
    <2>2. QED
      BY <1>4, <2>1 DEF Mint, TypeOK, history
  <1>5. ASSUME NEW t \in ResetToken, NEW p \in Password, FindToken(r, t, p)
        PROVE  TypeOK' /\ RequestsHold'
    <2>0. PICK x \in Request : /\ x.pc = "useToken" /\ x.pw = p /\ x.tok = t
                               /\ req' = [req EXCEPT ![r] = x]
      <3>1. LET x == [Idle EXCEPT !.pc = "useToken", !.pw = p, !.tok = t]
            IN  x \in Request /\ x.pc = "useToken" /\ x.pw = p /\ x.tok = t
        BY ResetRequest
      <3>2. QED
        BY <1>5, <3>1 DEF FindToken
    <2>1. req' \in [Req -> Request] /\ RequestsHold'
      BY <2>0, StartTypes
    <2>2. QED
      BY <1>5, <2>1 DEF FindToken, TypeOK, rows, history
  <1>6. CASE UseToken(r)
    <2>1. req' \in [Req -> Request] /\ RequestsHold'
      BY <1>6, GotoTypes DEF UseToken, Pc
    <2>2. QED
      BY <1>6, <2>1 DEF UseToken, Marked, TypeOK, history
  <1>7. CASE SetReset(r)
    <2>1. req' \in [Req -> Request] /\ RequestsHold'
      BY <1>7, GotoTypes DEF SetReset, AfterReset, Pc
    <2>2. req[r].pw \in Password /\ req[r].tok \in ResetToken
      BY <1>7 DEF SetReset, RequestsHold
    <2>3. QED
      BY <1>7, <2>1, <2>2 DEF SetReset, TypeOK
  <1>8. ASSUME NEW s \in Sid, NEW p \in Password, AskChange(r, s, p)
        PROVE  TypeOK' /\ RequestsHold'
    <2>0. PICK x \in Request : /\ x.pc = "setChange" /\ x.pw = p
                               /\ req' = [req EXCEPT ![r] = x]
      <3>1. LET x == [Idle EXCEPT !.pc = "setChange", !.pw = p, !.own = s]
            IN  x \in Request /\ x.pc = "setChange" /\ x.pw = p
        BY ChangeRequest
      <3>2. QED
        BY <1>8, <3>1 DEF AskChange
    <2>1. req' \in [Req -> Request] /\ RequestsHold'
      BY <2>0, StartTypes
    <2>2. QED
      BY <1>8, <2>1 DEF AskChange, TypeOK, rows, history
  <1>9. CASE SetChange(r)
    <2>1. req' \in [Req -> Request] /\ RequestsHold'
      BY <1>9, GotoTypes DEF SetChange, Pc
    <2>2. req[r].pw \in Password
      BY <1>9 DEF SetChange, RequestsHold
    <2>3. QED
      BY <1>9, <2>1, <2>2 DEF SetChange, TypeOK
  <1>10. CASE List(r)
    BY <1>10, ListTypes
  <1>11. ASSUME NEW s \in Sid, RevokeNext(r, s)
         PROVE  TypeOK' /\ RequestsHold'
    BY <1>11, RevokeNextTypes
  <1>12. CASE EndLoop(r)
    <2>1. req' \in [Req -> Request] /\ RequestsHold'
      BY <1>12, FinishTypes DEF EndLoop
    <2>2. QED
      BY <1>12, <2>1 DEF EndLoop, TypeOK, rows, history
  <1>13. CASE AskDelete(r)
    <2>1. req' \in [Req -> Request] /\ RequestsHold'
      BY <1>13, StartTypes, IdleStarts DEF AskDelete
    <2>2. QED
      BY <1>13, <2>1 DEF AskDelete, TypeOK, rows, history
  <1>14. CASE SoftDelete(r)
    <2>1. req' \in [Req -> Request] /\ RequestsHold'
      BY <1>14, GotoTypes DEF SoftDelete, AfterDelete, Pc
    <2>2. QED
      BY <1>14, <2>1 DEF SoftDelete, TypeOK
  <1>15. CASE RevokeAll(r)
    <2>1. req' \in [Req -> Request] /\ RequestsHold'
      BY <1>15, FinishTypes DEF RevokeAll
    <2>2. QED
      BY <1>15, <2>1 DEF RevokeAll, StillLive, TypeOK, history
  <1>16. CASE Abort(r)
    <2>1. req' \in [Req -> Request] /\ RequestsHold'
      BY <1>16, FinishTypes DEF Abort
    <2>2. Pending(r) \subseteq Sid
      BY PendingValue DEF TypeOK, Request
    <2>3. QED
      BY <1>16, <2>1, <2>2 DEF Abort, TypeOK, rows
  <1>17. QED
    BY <1>1, <1>2, <1>3, <1>4, <1>5, <1>6, <1>7, <1>8, <1>9, <1>10, <1>11,
       <1>12, <1>13, <1>14, <1>15, <1>16 DEF Serve

\* Every step keeps the types.
LEMMA NextTypes ==
    ASSUME TypeOK, RequestsHold, [Next]_vars
    PROVE  TypeOK' /\ RequestsHold'
  <1>1. ASSUME NEW r \in Req, Serve(r)
        PROVE  TypeOK' /\ RequestsHold'
    BY <1>1, ServeTypes
  <1>2. ASSUME NEW t \in ResetToken, ExpireToken(t)
        PROVE  TypeOK' /\ RequestsHold'
    BY <1>2 DEF ExpireToken, TypeOK, RequestsHold, history
  <1>3. ASSUME NEW S \in SUBSET Sid, Revoke(S)
        PROVE  TypeOK' /\ RequestsHold'
    BY <1>3 DEF Revoke, StillLive, TypeOK, RequestsHold, history
  <1>4. CASE UNCHANGED vars
    BY <1>4 DEF vars, rows, history, TypeOK, RequestsHold
  <1>5. QED
    BY <1>1, <1>2, <1>3, <1>4 DEF Next

----------------------------------------------------------------------------
(* Who accounts for the sessions that outlive a password or the account *)

\* What the other requests account for stays accounted for.
LEMMA OthersKeep ==
    ASSUME NEW r \in Req, \A q \in Req \ {r} : req'[q] = req[q],
           excused \subseteq excused',
           NEW s \in live, s \in live', Accounted(s),
           s \in Pending(r) => s \in Pending(r)' \cup excused'
    PROVE  Accounted(s)'
  <1>1. CASE s \in excused
    BY <1>1 DEF Accounted
  <1>2. ASSUME NEW q \in Req, s \in Pending(q)
        PROVE  Accounted(s)'
    <2>1. CASE q = r
      BY <1>2, <2>1 DEF Accounted, BeingRevoked
    <2>2. CASE q # r
      <3>1. req'[q] = req[q]
        BY <2>2
      <3>2. s \in Pending(q)'
        BY <1>2, <3>1, PendingKept
      <3>3. QED
        BY <3>2 DEF Accounted, BeingRevoked
    <2>3. QED
      BY <2>1, <2>2
  <1>3. QED
    BY <1>1, <1>2 DEF Accounted, BeingRevoked

\* A step that opens no session and stores nothing about the account.
LEMMA KeepsBoth ==
    ASSUME SupersededIsExcused, DeletedIsExcused,
           UNCHANGED <<password, account, basis>>, live' \subseteq live,
           \A s \in live' : Accounted(s) => Accounted(s)'
    PROVE  SupersededIsExcused' /\ DeletedIsExcused'
  BY DEF SupersededIsExcused, DeletedIsExcused, Accounted

\* The same, when request r had nothing to revoke.
LEMMA KeepsBothQuietly ==
    ASSUME SupersededIsExcused, DeletedIsExcused,
           UNCHANGED <<password, account, live, excused, basis>>,
           NEW r \in Req, \A q \in Req \ {r} : req'[q] = req[q],
           Pending(r) = {}
    PROVE  SupersededIsExcused' /\ DeletedIsExcused'
  <1>1. \A s \in live' : Accounted(s) => Accounted(s)'
    BY OthersKeep
  <1>2. QED
    BY <1>1, KeepsBoth

\* A request that is about to revoke everything accounts for everything.
LEMMA TakesOver ==
    ASSUME NEW r \in Req, req'[r].pc \in {"revokeAll", "list"}
    PROVE  SupersededIsExcused' /\ DeletedIsExcused'
  <1>1. Pending(r)' = live'
    BY PendingValueNext
  <1>2. \A s \in live' : BeingRevoked(s)'
    BY <1>1 DEF BeingRevoked
  <1>3. QED
    BY <1>2 DEF SupersededIsExcused, DeletedIsExcused

\* A request writes its own slot only.
LEMMA OwnSlot ==
    ASSUME TypeOK, NEW r \in Req, Serve(r), NEW q \in Req \ {r}
    PROVE  req'[q] = req[q]
  <1>1. \A s \in Sid : RevokeNext(r, s) => req'[q] = req[q]
    BY RevokeNextEffect
  <1>2. List(r) => req'[q] = req[q]
    BY ListEffect
  <1>3. SetReset(r) \/ UseToken(r) \/ SetChange(r) \/ SoftDelete(r) => req'[q] = req[q]
    BY DEF SetReset, UseToken, SetChange, SoftDelete, Goto, TypeOK
  <1>4. (\E s \in Sid : OpenSession(r, s)) \/ (\E t \in ResetToken : Mint(r, t))
            \/ EndLoop(r) \/ RevokeAll(r) \/ Abort(r) => req'[q] = req[q]
    BY DEF OpenSession, Mint, EndLoop, RevokeAll, Abort, Finish, TypeOK
  <1>5. FindAccount(r) \/ AskDelete(r) => req'[q] = req[q]
    BY DEF FindAccount, AskDelete, TypeOK
  <1>6. \A p \in Password : MatchPassword(r, p) => req'[q] = req[q]
    BY DEF MatchPassword, TypeOK
  <1>7. \A p \in Password, t \in ResetToken : FindToken(r, t, p) => req'[q] = req[q]
    BY DEF FindToken, TypeOK
  <1>8. \A p \in Password, s \in Sid : AskChange(r, s, p) => req'[q] = req[q]
    BY DEF AskChange, TypeOK
  <1>9. QED
    BY <1>1, <1>2, <1>3, <1>4, <1>5, <1>6, <1>7, <1>8 DEF Serve

\* The statements that touch neither a session nor the account.
QuietStatement(r) ==
    \/ \E p \in Password : MatchPassword(r, p)
    \/ FindAccount(r)
    \/ \E t \in ResetToken : Mint(r, t)
    \/ \E t \in ResetToken, p \in Password : FindToken(r, t, p)
    \/ UseToken(r)
    \/ \E s \in Sid, p \in Password : AskChange(r, s, p)
    \/ EndLoop(r)
    \/ AskDelete(r)

\* Such a statement keeps both properties: it has nothing to revoke.
LEMMA QuietStatementKeeps ==
    ASSUME IInv, NEW r \in Req, QuietStatement(r)
    PROVE  SupersededIsExcused' /\ DeletedIsExcused'
  <1>1. \A q \in Req \ {r} : req'[q] = req[q]
    BY OwnSlot DEF IInv, QuietStatement, Serve
  <1>2. UNCHANGED <<password, account, live, excused, basis>>
    BY DEF QuietStatement, MatchPassword, FindAccount, Mint, FindToken, UseToken,
           AskChange, EndLoop, AskDelete, rows, history
  <1>3. \/ req[r].pc \in {"done", "mint", "useToken"}
        \/ req[r].pc = "loop" /\ req[r].todo = {}
    BY DEF QuietStatement, MatchPassword, FindAccount, Mint, FindToken, UseToken,
           AskChange, EndLoop, AskDelete
  <1>4. Pending(r) = {}
    BY <1>3, PendingValue
  <1>5. QED
    BY <1>1, <1>2, <1>4, KeepsBothQuietly DEF IInv

\* A login whose password or account is gone is excused as it opens its session.
LEMMA OpenSessionKeeps ==
    ASSUME IInv, NEW r \in Req, NEW s \in Sid, OpenSession(r, s)
    PROVE  SupersededIsExcused' /\ DeletedIsExcused'
  <1>1. \A q \in Req \ {r} : req'[q] = req[q]
    BY OwnSlot DEF IInv, Serve
  <1>2. Pending(r) = {}
    BY PendingValue DEF OpenSession
  <1>3. ASSUME NEW x \in live, Accounted(x)
        PROVE  Accounted(x)'
    BY <1>1, <1>2, <1>3, OthersKeep DEF OpenSession
  <1>4. /\ basis' = [basis EXCEPT ![s] = req[r].pw] /\ s \notin live
        /\ live' = live \cup {s}
        /\ password' = password /\ account' = account
        /\ (req[r].pw # password \/ account = "deleted") => s \in excused'
    BY DEF OpenSession
  <1>5. /\ basis'[s] = req[r].pw
        /\ \A x \in live : basis'[x] = basis[x]
    BY <1>4 DEF IInv, TypeOK
  <1>6. ASSUME NEW x \in live', basis'[x] # password'
        PROVE  Accounted(x)'
    <2>1. CASE x = s
      BY <1>4, <1>5, <1>6, <2>1 DEF Accounted
    <2>2. CASE x \in live
      BY <1>3, <1>4, <1>5, <1>6, <2>2 DEF IInv, SupersededIsExcused, Accounted
    <2>3. QED
      BY <1>4, <2>1, <2>2
  <1>7. ASSUME account' = "deleted", NEW x \in live'
        PROVE  Accounted(x)'
    <2>1. CASE x = s
      BY <1>4, <1>7, <2>1 DEF Accounted
    <2>2. CASE x \in live
      BY <1>3, <1>4, <1>7, <2>2 DEF IInv, DeletedIsExcused, Accounted
    <2>3. QED
      BY <1>4, <2>1, <2>2
  <1>8. QED
    BY <1>6, <1>7 DEF SupersededIsExcused, DeletedIsExcused, Accounted

\* What the list of change_password does not return, or keeps, is excused.
LEMMA ListKeeps ==
    ASSUME IInv, NEW r \in Req, List(r)
    PROVE  SupersededIsExcused' /\ DeletedIsExcused'
  <1>1. PICK todo \in SUBSET Sid :
           /\ \A q \in Req \ {r} : req'[q] = req[q]
           /\ req'[r].pc = "loop"
           /\ req'[r].todo = todo
           /\ excused' = excused \cup (live \ todo)
    BY ListEffect DEF IInv
  <1>2. UNCHANGED <<password, account, live, basis>>
    BY DEF List, rows
  <1>3. Pending(r)' = todo
    BY <1>1, PendingValueNext
  <1>4. \A s \in live' : Accounted(s) => Accounted(s)'
    BY <1>1, <1>2, <1>3, OthersKeep
  <1>5. QED
    BY <1>2, <1>4, KeepsBoth DEF IInv

\* A turn of the loop revokes its session or excuses it.
LEMMA RevokeNextKeeps ==
    ASSUME IInv, NEW r \in Req, NEW s \in Sid, RevokeNext(r, s)
    PROVE  SupersededIsExcused' /\ DeletedIsExcused'
  <1>1. /\ \A q \in Req \ {r} : req'[q] = req[q]
        /\ req'[r].pc = "loop"
        /\ req'[r].todo = req[r].todo \ {s}
    BY RevokeNextEffect DEF IInv
  <1>2. Pending(r) = req[r].todo /\ Pending(r)' = req[r].todo \ {s}
    BY <1>1, PendingValue, PendingValueNext DEF RevokeNext
  <1>3. /\ UNCHANGED <<password, account, basis>>
        /\ live' \subseteq live /\ excused \subseteq excused'
        /\ s \in live' => s \in excused'
    BY DEF RevokeNext, StillLive
  <1>4. \A x \in live' : Accounted(x) => Accounted(x)'
    BY <1>1, <1>2, <1>3, OthersKeep
  <1>5. QED
    BY <1>3, <1>4, KeepsBoth DEF IInv

\* A request that stops excuses what it was to revoke.
LEMMA AbortKeeps ==
    ASSUME IInv, NEW r \in Req, Abort(r)
    PROVE  SupersededIsExcused' /\ DeletedIsExcused'
  <1>1. \A q \in Req \ {r} : req'[q] = req[q]
    BY OwnSlot DEF IInv, Serve
  <1>2. /\ UNCHANGED <<password, account, live, basis>>
        /\ excused' = excused \cup Pending(r)
    BY DEF Abort, rows
  <1>3. \A x \in live' : Accounted(x) => Accounted(x)'
    BY <1>1, <1>2, OthersKeep
  <1>4. QED
    BY <1>2, <1>3, KeepsBoth DEF IInv

\* Every statement of a request keeps both properties.
LEMMA ServeKeeps ==
    ASSUME IInv, NEW r \in Req, Serve(r)
    PROVE  SupersededIsExcused' /\ DeletedIsExcused'
  <1>1. CASE QuietStatement(r)
    BY <1>1, QuietStatementKeeps
  <1>2. ASSUME NEW s \in Sid, OpenSession(r, s)
        PROVE  SupersededIsExcused' /\ DeletedIsExcused'
    BY <1>2, OpenSessionKeeps
  <1>3. CASE SetReset(r) \/ SetChange(r) \/ SoftDelete(r)
    <2>1. req'[r].pc \in {"revokeAll", "list"}
      BY <1>3, GotoEffect DEF IInv, SetReset, AfterReset, SetChange, SoftDelete,
                              AfterDelete, Pc
    <2>2. QED
      BY <2>1, TakesOver
  <1>4. CASE List(r)
    BY <1>4, ListKeeps
  <1>5. ASSUME NEW s \in Sid, RevokeNext(r, s)
        PROVE  SupersededIsExcused' /\ DeletedIsExcused'
    BY <1>5, RevokeNextKeeps
  <1>6. CASE RevokeAll(r)
    <2>1. live' = {}
      BY <1>6 DEF RevokeAll, StillLive
    <2>2. QED
      BY <2>1 DEF SupersededIsExcused, DeletedIsExcused
  <1>7. CASE Abort(r)
    BY <1>7, AbortKeeps
  <1>8. QED
    BY <1>1, <1>2, <1>3, <1>4, <1>5, <1>6, <1>7 DEF Serve, QuietStatement

----------------------------------------------------------------------------
(* One right to a token *)

\* A step of r that gives nobody a right to a token and takes no mark away.
LEMMA RightsKept ==
    ASSUME TypeOK, RequestsHold, OneRight, NEW r \in Req,
           \A q \in Req \ {r} : req'[q] = req[q],
           UNCHANGED <<effects, overlapped>>,
           \A t \in ResetToken : tokens[t] = "used" => tokens'[t] = "used",
           \A t \in ResetToken : Holds(r, t)' => Holds(r, t),
           req'[r].pc = "setReset" =>
               req'[r].tok \in ResetToken /\ tokens'[req'[r].tok] = "used"
    PROVE  OneRight'
  <1>1. \A q \in Req : req'[q].pc = "setReset" => tokens'[req'[q].tok] = "used"
    BY DEF OneRight, RequestsHold
  <1>2. \A q \in Req, t \in ResetToken : Holds(q, t)' => Holds(q, t)
    BY DEF Holds
  <1>3. \A e \in effects : e[1] \in ResetToken
    BY DEF TypeOK
  <1>4. \A e \in effects' : tokens'[e[1]] = "used"
    BY <1>3 DEF OneRight
  <1>5. \A e \in effects' : \A q \in Req : Holds(q, e[1])' => e[1] \in overlapped'
    BY <1>2, <1>3 DEF OneRight
  <1>6. \A p, q \in Req : \A t \in ResetToken :
           Holds(p, t)' /\ Holds(q, t)' => p = q \/ t \in overlapped'
    BY <1>2 DEF OneRight
  <1>7. ResetTokenOnceUnlessOverlapped'
    BY DEF OneRight, ResetTokenOnceUnlessOverlapped
  <1>8. QED
    BY <1>1, <1>4, <1>5, <1>6, <1>7 DEF OneRight

\* A request that finds an unused token shares it only with requests at the same point.
LEMMA FindTokenRights ==
    ASSUME TypeOK, RequestsHold, OneRight, NEW r \in Req, NEW t \in ResetToken,
           NEW p \in Password, FindToken(r, t, p)
    PROVE  OneRight'
  <1>1. PICK x \in Request : /\ x.pc = "useToken" /\ x.tok = t
                             /\ req' = [req EXCEPT ![r] = x]
    <2>1. LET x == [Idle EXCEPT !.pc = "useToken", !.pw = p, !.tok = t]
          IN  x \in Request /\ x.pc = "useToken" /\ x.tok = t
      BY ResetRequest
    <2>2. QED
      BY <2>1 DEF FindToken
  <1>2. /\ \A q \in Req \ {r} : req'[q] = req[q]
        /\ req'[r].pc = "useToken" /\ req'[r].tok = t
    BY <1>1, SlotEffect
  <1>3. UNCHANGED <<tokens, effects>> /\ overlapped \subseteq overlapped'
    BY DEF FindToken, rows
  <1>4. tokens[t] = "unused"
    BY DEF FindToken
  <1>5. ASSUME NEW q \in Req, Holds(q, t)
        PROVE  t \in overlapped'
    <2>1. req[q].pc = "useToken" /\ req[q].tok = t
      BY <1>4, <1>5 DEF Holds, OneRight
    <2>2. QED
      BY <2>1 DEF FindToken
  <1>6. \A e \in effects : e[1] # t
    BY <1>4 DEF OneRight
  <1>7. \A q \in Req : req'[q].pc = "setReset" => tokens'[req'[q].tok] = "used"
    BY <1>2, <1>3 DEF OneRight
  <1>8. \A e \in effects' : tokens'[e[1]] = "used"
    BY <1>3 DEF OneRight
  <1>9. \A e \in effects' : \A q \in Req : Holds(q, e[1])' => e[1] \in overlapped'
    BY <1>2, <1>3, <1>6 DEF OneRight, Holds
  <1>10. \A m, q \in Req : \A u \in ResetToken :
            Holds(m, u)' /\ Holds(q, u)' => m = q \/ u \in overlapped'
    <2>1. SUFFICES ASSUME NEW m \in Req, NEW q \in Req, NEW u \in ResetToken,
                          Holds(m, u)', Holds(q, u)', m # q
                   PROVE  u \in overlapped'
      OBVIOUS
    <2>2. CASE m # r /\ q # r
      BY <1>2, <1>3, <2>1, <2>2 DEF OneRight, Holds
    <2>3. CASE m = r
      <3>1. u = t /\ Holds(q, t)
        BY <1>2, <2>1, <2>3 DEF Holds
      <3>2. QED
        BY <1>5, <3>1
    <2>4. CASE q = r
      <3>1. u = t /\ Holds(m, t)
        BY <1>2, <2>1, <2>4 DEF Holds
      <3>2. QED
        BY <1>5, <3>1
    <2>5. QED
      BY <2>2, <2>3, <2>4
  <1>11. ResetTokenOnceUnlessOverlapped'
    BY <1>3 DEF OneRight, ResetTokenOnceUnlessOverlapped
  <1>12. QED
    BY <1>7, <1>8, <1>9, <1>10, <1>11 DEF OneRight

\* A request that stores its password gives its right up.
LEMMA SetResetRights ==
    ASSUME TypeOK, RequestsHold, OneRight, NEW r \in Req, SetReset(r)
    PROVE  OneRight'
  <1>1. /\ \A q \in Req \ {r} : req'[q] = req[q]
        /\ req'[r].pc = "revokeAll"
    BY GotoEffect DEF SetReset, AfterReset, Pc
  <1>2. /\ UNCHANGED <<tokens, overlapped>>
        /\ effects' = effects \cup {<<req[r].tok, r>>}
    BY DEF SetReset
  <1>3. req[r].pc = "setReset" /\ req[r].tok \in ResetToken /\ Holds(r, req[r].tok)
    BY DEF SetReset, RequestsHold, Holds
  <1>4. tokens[req[r].tok] = "used"
    BY <1>3 DEF OneRight
  <1>5. \A q \in Req : req'[q].pc = "setReset" => tokens'[req'[q].tok] = "used"
    BY <1>1, <1>2 DEF OneRight
  <1>6. \A e \in effects' : tokens'[e[1]] = "used"
    BY <1>2, <1>4 DEF OneRight
  <1>7. \A q \in Req, t \in ResetToken : Holds(q, t)' => q # r /\ Holds(q, t)
    BY <1>1 DEF Holds
  <1>8. \A m, q \in Req : \A t \in ResetToken :
           Holds(m, t)' /\ Holds(q, t)' => m = q \/ t \in overlapped'
    BY <1>2, <1>7 DEF OneRight
  <1>9. ASSUME NEW e \in effects', NEW q \in Req, Holds(q, e[1])'
        PROVE  e[1] \in overlapped'
    <2>1. CASE e \in effects
      <3>1. e[1] \in ResetToken
        BY <2>1 DEF TypeOK
      <3>2. QED
        BY <1>2, <1>7, <1>9, <2>1, <3>1 DEF OneRight
    <2>2. CASE e = <<req[r].tok, r>>
      BY <1>2, <1>3, <1>7, <1>9, <2>2 DEF OneRight
    <2>3. QED
      BY <1>2, <2>1, <2>2
  <1>10. ResetTokenOnceUnlessOverlapped'
    <2>1. \A e \in effects : e[1] = req[r].tok => e[1] \in overlapped
      BY <1>3 DEF OneRight
    <2>2. QED
      BY <1>2, <2>1 DEF OneRight, ResetTokenOnceUnlessOverlapped
  <1>11. QED
    BY <1>5, <1>6, <1>8, <1>9, <1>10 DEF OneRight

\* The statements that neither take nor use a right to a token.
OtherStatement(r) ==
    \/ \E p \in Password : MatchPassword(r, p)
    \/ \E s \in Sid : OpenSession(r, s)
    \/ FindAccount(r)
    \/ \E t \in ResetToken : Mint(r, t)
    \/ \E s \in Sid, p \in Password : AskChange(r, s, p)
    \/ SetChange(r)
    \/ List(r)
    \/ \E s \in Sid : RevokeNext(r, s)
    \/ EndLoop(r)
    \/ AskDelete(r)
    \/ SoftDelete(r)
    \/ RevokeAll(r)
    \/ Abort(r)

\* After such a statement the request has no right to a token.
LEMMA OtherPc ==
    ASSUME TypeOK, NEW r \in Req, OtherStatement(r)
    PROVE  req'[r].pc \notin {"useToken", "setReset"}
  <1>1. ASSUME NEW p \in Password, MatchPassword(r, p)
        PROVE  req'[r].pc = "openSession"
    BY <1>1, LoginRequest DEF MatchPassword, TypeOK
  <1>2. ASSUME FindAccount(r) \/ AskDelete(r)
        PROVE  req'[r].pc \in {"mint", "softDelete"}
    BY <1>2, IdleStarts DEF FindAccount, AskDelete, TypeOK
  <1>3. ASSUME \/ \E s \in Sid : OpenSession(r, s)
               \/ \E t \in ResetToken : Mint(r, t)
               \/ EndLoop(r) \/ RevokeAll(r) \/ Abort(r)
        PROVE  req'[r].pc = "done"
    BY <1>3, IdleRequest DEF OpenSession, Mint, EndLoop, RevokeAll, Abort, Finish, TypeOK
  <1>4. ASSUME NEW s \in Sid, NEW p \in Password, AskChange(r, s, p)
        PROVE  req'[r].pc = "setChange"
    <2>1. LET x == [Idle EXCEPT !.pc = "setChange", !.pw = p, !.own = s]
          IN  x \in Request /\ x.pc = "setChange"
      BY ChangeRequest
    <2>2. QED
      BY <1>4, <2>1 DEF AskChange, TypeOK
  <1>5. ASSUME SetChange(r) \/ SoftDelete(r)
        PROVE  req'[r].pc \in {"list", "revokeAll"}
    BY <1>5, GotoEffect DEF SetChange, SoftDelete, AfterDelete, Pc
  <1>6. ASSUME List(r)
        PROVE  req'[r].pc = "loop"
    BY <1>6, ListEffect
  <1>7. ASSUME NEW s \in Sid, RevokeNext(r, s)
        PROVE  req'[r].pc = "loop"
    BY <1>7, RevokeNextEffect
  <1>8. QED
    BY <1>1, <1>2, <1>3, <1>4, <1>5, <1>6, <1>7 DEF OtherStatement

\* Every statement of a request keeps one right to a token.
LEMMA ServeRights ==
    ASSUME TypeOK, RequestsHold, OneRight, NEW r \in Req, Serve(r)
    PROVE  OneRight'
  <1>1. \A q \in Req \ {r} : req'[q] = req[q]
    BY OwnSlot
  <1>2. CASE \E t \in ResetToken, p \in Password : FindToken(r, t, p)
    BY <1>2, FindTokenRights
  <1>3. CASE SetReset(r)
    BY <1>3, SetResetRights
  <1>4. CASE UseToken(r)
    <2>1. /\ req'[r].pc = "setReset" /\ req'[r].tok = req[r].tok
          /\ req[r].pc = "useToken" /\ req[r].tok \in ResetToken
      BY <1>4, GotoEffect DEF UseToken, Pc, RequestsHold
    <2>2. /\ tokens' = [tokens EXCEPT ![req[r].tok] = "used"]
          /\ UNCHANGED <<effects, overlapped>>
      BY <1>4 DEF UseToken, Marked, history
    <2>3. /\ \A t \in ResetToken : tokens[t] = "used" => tokens'[t] = "used"
          /\ tokens'[req[r].tok] = "used"
      BY <2>1, <2>2 DEF TypeOK
    <2>4. \A t \in ResetToken : Holds(r, t)' => Holds(r, t)
      BY <2>1 DEF Holds
    <2>5. QED
      BY <1>1, <2>1, <2>2, <2>3, <2>4, RightsKept
  <1>5. CASE OtherStatement(r)
    <2>1. UNCHANGED <<effects, overlapped>>
      BY <1>5 DEF OtherStatement, MatchPassword, OpenSession, FindAccount, Mint,
                  AskChange, SetChange, List, RevokeNext, EndLoop, AskDelete,
                  SoftDelete, RevokeAll, Abort, rows, history
    <2>2. \A t \in ResetToken : tokens[t] = "used" => tokens'[t] = "used"
      <3>1. ASSUME NEW u \in ResetToken, Mint(r, u)
            PROVE  \A t \in ResetToken : tokens[t] = "used" => tokens'[t] = "used"
        BY <3>1 DEF Mint, TypeOK
      <3>2. \/ tokens' = tokens
            \/ \E t \in ResetToken : Mint(r, t)
        BY <1>5 DEF OtherStatement, MatchPassword, OpenSession, FindAccount,
                    AskChange, SetChange, List, RevokeNext, EndLoop, AskDelete,
                    SoftDelete, RevokeAll, Abort, rows
      <3>3. QED
        BY <3>1, <3>2
    <2>3. req'[r].pc \notin {"useToken", "setReset"}
      BY <1>5, OtherPc
    <2>4. \A t \in ResetToken : Holds(r, t)' => Holds(r, t)
      BY <2>3 DEF Holds
    <2>5. QED
      BY <1>1, <2>1, <2>2, <2>3, <2>4, RightsKept
  <1>6. QED
    BY <1>2, <1>3, <1>4, <1>5 DEF Serve, OtherStatement

----------------------------------------------------------------------------
(* The theorems *)

\* No session is open and no request runs in the initial states.
LEMMA InitIInv == Init => IInv
  <1>1. SUFFICES ASSUME Init PROVE IInv
    OBVIOUS
  <1>2. TypeOK
    BY <1>1, IdleRequest DEF Init, TypeOK
  <1>3. RequestsHold
    BY <1>1, IdleRequest DEF Init, RequestsHold
  <1>4. OneRight
    BY <1>1, IdleRequest DEF Init, OneRight, Holds, ResetTokenOnceUnlessOverlapped
  <1>5. QED
    BY <1>1, <1>2, <1>3, <1>4 DEF Init, IInv, SupersededIsExcused, DeletedIsExcused

\* Every step keeps the invariant: the types, and then one step per action.
LEMMA NextIInv == IInv /\ [Next]_vars => IInv'
  <1>1. SUFFICES ASSUME IInv, [Next]_vars PROVE IInv'
    OBVIOUS
  <1>2. TypeOK' /\ RequestsHold'
    BY <1>1, NextTypes DEF IInv
  <1>3. ASSUME NEW r \in Req, Serve(r)
        PROVE  SupersededIsExcused' /\ DeletedIsExcused'
    BY <1>1, <1>3, ServeKeeps
  <1>4. ASSUME NEW t \in ResetToken, ExpireToken(t)
        PROVE  SupersededIsExcused' /\ DeletedIsExcused'
    BY <1>1, <1>4 DEF ExpireToken, IInv, SupersededIsExcused, DeletedIsExcused,
                      BeingRevoked, Pending, history
  <1>5. ASSUME NEW S \in SUBSET Sid, Revoke(S)
        PROVE  SupersededIsExcused' /\ DeletedIsExcused'
    BY <1>1, <1>5 DEF Revoke, StillLive, IInv, SupersededIsExcused, DeletedIsExcused,
                      BeingRevoked, Pending, history
  <1>6. ASSUME UNCHANGED vars
        PROVE  SupersededIsExcused' /\ DeletedIsExcused'
    BY <1>1, <1>6 DEF vars, rows, history, IInv, SupersededIsExcused,
                      DeletedIsExcused, BeingRevoked, Pending
  <1>7. SupersededIsExcused' /\ DeletedIsExcused'
    BY <1>1, <1>3, <1>4, <1>5, <1>6 DEF Next
  <1>8. OneRight'
    <2>1. ASSUME NEW t \in ResetToken, ExpireToken(t)
          PROVE  OneRight'
      BY <1>1, <2>1 DEF ExpireToken, IInv, TypeOK, RequestsHold, OneRight, Holds,
                        ResetTokenOnceUnlessOverlapped, history
    <2>2. ASSUME NEW S \in SUBSET Sid, Revoke(S)
          PROVE  OneRight'
      BY <1>1, <2>2 DEF Revoke, IInv, OneRight, Holds,
                        ResetTokenOnceUnlessOverlapped, history
    <2>3. ASSUME UNCHANGED vars
          PROVE  OneRight'
      BY <1>1, <2>3 DEF vars, rows, history, IInv, OneRight, Holds,
                        ResetTokenOnceUnlessOverlapped
    <2>4. QED
      BY <1>1, <2>1, <2>2, <2>3, ServeRights DEF IInv, Next
  <1>9. QED
    BY <1>2, <1>7, <1>8 DEF IInv

\* The invariant holds in every reachable state.
THEOREM Invariance == Spec => []IInv
  BY InitIInv, NextIInv, PTL DEF Spec

\* Type correctness.
THEOREM TypeCorrect == Spec => []TypeOK
  <1>1. IInv => TypeOK
    BY DEF IInv
  <1>2. QED
    BY <1>1, Invariance, PTL

\* However many logins, resets and changes overlap, a session outlives the password it
\* was opened with only for a reason the handlers leave.
THEOREM SupersededExcused == Spec => []SupersededIsExcused
  <1>1. IInv => SupersededIsExcused
    BY DEF IInv
  <1>2. QED
    BY <1>1, Invariance, PTL

\* The same of the sessions of a deleted account.
THEOREM DeletedExcused == Spec => []DeletedIsExcused
  <1>1. IInv => DeletedIsExcused
    BY DEF IInv
  <1>2. QED
    BY <1>1, Invariance, PTL

\* However many requests present a reset token, it stores a second password only where
\* two of them had found it unused together.
THEOREM ResetOnce == Spec => []ResetTokenOnceUnlessOverlapped
  <1>1. IInv => ResetTokenOnceUnlessOverlapped
    BY DEF IInv, OneRight
  <1>2. QED
    BY <1>1, Invariance, PTL
=============================================================================
