---------------------------- MODULE EmailsProofs ----------------------------
(***************************************************************************)
(* Proofs about Emails for every set of users, addresses, tokens, requests *)
(* and starting instances.                                                 *)
(***************************************************************************)
EXTENDS Emails, FiniteSetTheorems, TLAPS

----------------------------------------------------------------------------
(* The inductive invariant *)

\* What request r has found in the tables is still there.
Holds(r) ==
    /\ req[r].pc = "mint" => req[r].user \in Rows /\ req[r].address \in Address
    /\ req[r].pc = "useToken" => req[r].tok \in Token /\ tokens[req[r].tok] # None
    /\ req[r].pc = "markVerified" => /\ req[r].tok \in Token
                                     /\ tokens[req[r].tok] # None
                                     /\ tokens[req[r].tok].state = "used"
    /\ req[r].pc = "setEmail" => req[r].user \in Rows /\ req[r].address \in Address
    /\ req[r].pc = "softDelete" => req[r].user \in Rows
    /\ req[r].pc = "createOwner" => req[r].address = OwnerEmail
    /\ req[r].pc = "verifyOwner" => req[r].user \in Owners

RequestsHold == \A r \in Req : Holds(r)

\* A link belongs to a user, and goes to the user's address if that never changed.
LinksHold ==
    \A t \in Token : tokens[t] # None =>
        /\ tokens[t].user \in Rows
        /\ tokens[t].user \in Active \ changed =>
              tokens[t].address = users[tokens[t].user].email

\* So does a link that is about to be mailed.
MailsHold ==
    \A r \in Req : (req[r].pc = "mint" /\ req[r].user \in Active \ changed) =>
        req[r].address = users[req[r].user].email

\* A change of address that is still to reach a deleted account overlapped the deletion.
LateChangeIsNoted ==
    \A r \in Req : (req[r].pc = "setEmail" /\ users[req[r].user].deleted) =>
        req[r].user \in overlapped

\* Unless misled, there is one owner, who has OWNER_EMAIL as long as an instance that
\* counted no users is still to insert one.
SoleOwner ==
    ~misled =>
        /\ \A u, v \in Owners : u = v
        /\ \A r \in Req, u \in Owners :
              req[r].pc = "createOwner" => users[u].email = OwnerEmail

IInv ==
    /\ TypeOK /\ RequestsHold /\ LinksHold /\ MailsHold /\ VerifiedWasMailed
    /\ LateChangeIsNoted /\ DeletedIsAnonymousUnlessOverlapped /\ SoleOwner

----------------------------------------------------------------------------
(* The effect of the statements *)

\* What a step does to the slots when it stores the record x in slot r.
LEMMA SlotEffect ==
    ASSUME TypeOK, NEW r \in Req, NEW x \in Request, req' = [req EXCEPT ![r] = x]
    PROVE  /\ req' \in [Req -> Request]
           /\ \A q \in Req \ {r} : req'[q] = req[q]
           /\ req'[r] = x
  BY DEF TypeOK

\* What a step does to the table users when it stores the record x as row u.
LEMMA RowEffect ==
    ASSUME TypeOK, NEW u \in User, NEW x \in Account, users' = [users EXCEPT ![u] = x]
    PROVE  /\ users' \in [User -> Account \cup {None}]
           /\ \A v \in User \ {u} : users'[v] = users[v]
           /\ users'[u] = x /\ users'[u] # None
  BY ConstantsAssumption DEF TypeOK

\* What a step does to the table of tokens when it stores the record x as row t.
LEMMA LinkEffect ==
    ASSUME TypeOK, NEW t \in Token, NEW x \in Link, tokens' = [tokens EXCEPT ![t] = x]
    PROVE  /\ tokens' \in [Token -> Link \cup {None}]
           /\ \A w \in Token \ {t} : tokens'[w] = tokens[w]
           /\ tokens'[t] = x /\ tokens'[t] # None
  BY ConstantsAssumption DEF TypeOK

\* The last step of request r.
LEMMA FinishEffect ==
    ASSUME TypeOK, NEW r \in Req, Finish(r)
    PROVE  /\ req' \in [Req -> Request]
           /\ \A q \in Req \ {r} : req'[q] = req[q]
           /\ req'[r].pc = "done"
  <1>1. Idle \in Request /\ Idle.pc = "done"
    BY DEF Idle, Request, Pc
  <1>2. QED
    BY <1>1, SlotEffect DEF Finish

\* The first step of request r.
LEMMA StartEffect ==
    ASSUME TypeOK, NEW r \in Req, NEW pc \in Pc, NEW u \in User \cup {None},
           NEW a \in Address \cup {None}, NEW t \in Token \cup {None},
           Start(r, pc, u, a, t)
    PROVE  /\ req' \in [Req -> Request]
           /\ \A q \in Req \ {r} : req'[q] = req[q]
           /\ req'[r].pc = pc /\ req'[r].user = u
           /\ req'[r].address = a /\ req'[r].tok = t
  <1>1. [pc |-> pc, user |-> u, address |-> a, tok |-> t] \in Request
    BY DEF Request
  <1>2. QED
    BY <1>1 DEF Start, TypeOK

\* A step from one statement of request r to the next, at pc.
LEMMA AdvanceEffect ==
    ASSUME TypeOK, NEW r \in Req, NEW pc \in Pc, req' = [req EXCEPT ![r].pc = pc]
    PROVE  /\ req' \in [Req -> Request]
           /\ \A q \in Req \ {r} : req'[q] = req[q]
           /\ req'[r].pc = pc /\ req'[r].user = req[r].user
           /\ req'[r].address = req[r].address /\ req'[r].tok = req[r].tok
  <1>1. req[r] \in Request
    BY DEF TypeOK
  <1>2. LET x == [req[r] EXCEPT !.pc = pc]
        IN  /\ x \in Request /\ x.pc = pc /\ x.user = req[r].user
            /\ x.address = req[r].address /\ x.tok = req[r].tok
    BY <1>1 DEF Request
  <1>3. req' = [req EXCEPT ![r] = [req[r] EXCEPT !.pc = pc]]
    OBVIOUS
  <1>4. QED
    BY <1>2, <1>3, SlotEffect

\* A new account.
LEMMA CreatedEffect ==
    ASSUME NEW a \in Address, NEW role \in {"user", "owner"}
    PROVE  /\ Created(a, role) \in Account
           /\ Created(a, role).email = a /\ Created(a, role).role = role
           /\ ~Created(a, role).verified /\ ~Created(a, role).deleted
  BY DEF Created, Account

\* A row whose address is confirmed.
LEMMA VerifiedEffect ==
    ASSUME TypeOK, NEW u \in Rows, users' = [users EXCEPT ![u].verified = TRUE]
    PROVE  /\ users' \in [User -> Account \cup {None}]
           /\ \A v \in User \ {u} : users'[v] = users[v]
           /\ users'[u] # None /\ users'[u].email = users[u].email
           /\ users'[u].deleted = users[u].deleted /\ users'[u].role = users[u].role
  <1>1. u \in User /\ users[u] \in Account
    BY DEF Rows, TypeOK
  <1>2. LET x == [users[u] EXCEPT !.verified = TRUE]
        IN  /\ x \in Account /\ x.email = users[u].email
            /\ x.deleted = users[u].deleted /\ x.role = users[u].role
    BY <1>1 DEF Account
  <1>3. users' = [users EXCEPT ![u] = [users[u] EXCEPT !.verified = TRUE]]
    OBVIOUS
  <1>4. QED
    BY <1>1, <1>2, <1>3, RowEffect

\* A row whose address is replaced.
LEMMA RenamedEffect ==
    ASSUME TypeOK, NEW u \in Rows, NEW a \in Address,
           users' = [users EXCEPT ![u] = Renamed(users[u], a)]
    PROVE  /\ users' \in [User -> Account \cup {None}]
           /\ \A v \in User \ {u} : users'[v] = users[v]
           /\ users'[u] # None /\ users'[u].email = a
           /\ users'[u].deleted = users[u].deleted /\ users'[u].role = users[u].role
  <1>1. u \in User /\ users[u] \in Account
    BY DEF Rows, TypeOK
  <1>2. LET x == Renamed(users[u], a)
        IN  /\ x \in Account /\ x.email = a
            /\ x.deleted = users[u].deleted /\ x.role = users[u].role
    BY <1>1 DEF Account, Renamed
  <1>3. QED
    BY <1>1, <1>2, RowEffect

\* A row that is deleted.
LEMMA DeletedEffect ==
    ASSUME TypeOK, NEW u \in Rows,
           users' = [users EXCEPT ![u] = [@ EXCEPT !.email = None, !.deleted = TRUE]]
    PROVE  /\ users' \in [User -> Account \cup {None}]
           /\ \A v \in User \ {u} : users'[v] = users[v]
           /\ users'[u] # None /\ users'[u].email = None
           /\ users'[u].deleted /\ users'[u].role = users[u].role
  <1>1. u \in User /\ users[u] \in Account
    BY DEF Rows, TypeOK
  <1>2. LET x == [users[u] EXCEPT !.email = None, !.deleted = TRUE]
        IN  /\ x \in Account /\ x.email = None
            /\ x.deleted /\ x.role = users[u].role
    BY <1>1 DEF Account
  <1>3. users' = [users EXCEPT ![u] = [users[u] EXCEPT !.email = None, !.deleted = TRUE]]
    OBVIOUS
  <1>4. QED
    BY <1>1, <1>2, <1>3, RowEffect

\* A token that changes its state to s.
LEMMA StateEffect ==
    ASSUME TypeOK, NEW t \in Token, tokens[t] # None, NEW s \in {"used", "expired"},
           tokens' = [tokens EXCEPT ![t].state = s]
    PROVE  /\ tokens' \in [Token -> Link \cup {None}]
           /\ \A w \in Token \ {t} : tokens'[w] = tokens[w]
           /\ tokens'[t] # None /\ tokens'[t].user = tokens[t].user
           /\ tokens'[t].address = tokens[t].address /\ tokens'[t].state = s
  <1>1. tokens[t] \in Link
    BY DEF TypeOK
  <1>2. LET x == [tokens[t] EXCEPT !.state = s]
        IN  /\ x \in Link /\ x.user = tokens[t].user
            /\ x.address = tokens[t].address /\ x.state = s
    BY <1>1 DEF Link
  <1>3. tokens' = [tokens EXCEPT ![t] = [tokens[t] EXCEPT !.state = s]]
    OBVIOUS
  <1>4. QED
    BY <1>2, <1>3, LinkEffect

----------------------------------------------------------------------------
(* One lemma per step *)

\* A step of request r that leaves the tables alone.
LEMMA QuietStep ==
    ASSUME IInv, NEW r \in Req,
           req' \in [Req -> Request], \A q \in Req \ {r} : req'[q] = req[q],
           users' = users, tokens' = tokens, changed' = changed, overlapped' = overlapped,
           misled' \in BOOLEAN, misled => misled', Holds(r)',
           (req'[r].pc = "mint" /\ req'[r].user \in Active \ changed) =>
               req'[r].address = users[req'[r].user].email,
           (req'[r].pc = "setEmail" /\ users[req'[r].user].deleted) =>
               req'[r].user \in overlapped,
           req'[r].pc = "createOwner" => misled' \/ Owners = {}
    PROVE  IInv'
  <1> USE DEF IInv, Rows, Active, Ordinary, Owners
  <1>1. TypeOK'
    BY DEF TypeOK
  <1>2. RequestsHold'
    BY DEF RequestsHold, Holds
  <1>3. LinksHold'
    BY DEF LinksHold
  <1>4. MailsHold'
    BY DEF MailsHold
  <1>5. VerifiedWasMailed'
    BY DEF VerifiedWasMailed, Proofs
  <1>6. LateChangeIsNoted'
    BY DEF LateChangeIsNoted
  <1>7. DeletedIsAnonymousUnlessOverlapped'
    BY DEF DeletedIsAnonymousUnlessOverlapped
  <1>8. SoleOwner'
    BY DEF SoleOwner
  <1>9. QED
    BY <1>1, <1>2, <1>3, <1>4, <1>5, <1>6, <1>7, <1>8

\* A step that ends request r and leaves the tables alone.
LEMMA FinishStep ==
    ASSUME IInv, NEW r \in Req, Finish(r),
           UNCHANGED <<users, tokens, changed, overlapped, misled>>
    PROVE  IInv'
  <1>1. /\ req' \in [Req -> Request] /\ \A q \in Req \ {r} : req'[q] = req[q]
        /\ req'[r].pc = "done"
    BY FinishEffect DEF IInv
  <1>2. Holds(r)'
    BY <1>1 DEF Holds
  <1>3. QED
    BY <1>1, <1>2, QuietStep DEF IInv, TypeOK

\* resend_verification.
LEMMA AskAgainStep ==
    ASSUME IInv, NEW r \in Req, NEW u \in User, AskAgain(r, u)
    PROVE  IInv'
  <1>1. users[u] \in Account /\ users[u].email \in Address /\ u \in Active
    BY DEF IInv, TypeOK, AskAgain, Active, Rows, Account
  <1>2. Start(r, "mint", u, users[u].email, None)
    BY DEF AskAgain
  <1>3. /\ req' \in [Req -> Request] /\ \A q \in Req \ {r} : req'[q] = req[q]
        /\ req'[r].pc = "mint" /\ req'[r].user = u /\ req'[r].address = users[u].email
    BY <1>1, <1>2, StartEffect DEF IInv, Pc
  <1>4. Holds(r)'
    BY <1>1, <1>3 DEF Holds, AskAgain, Active, Rows
  <1>5. QED
    BY <1>3, <1>4, QuietStep DEF AskAgain, IInv, TypeOK

\* consume_action_token, its SELECT.
LEMMA FindTokenStep ==
    ASSUME IInv, NEW r \in Req, NEW t \in Token, FindToken(r, t)
    PROVE  IInv'
  <1>1. /\ req' \in [Req -> Request] /\ \A q \in Req \ {r} : req'[q] = req[q]
        /\ req'[r].pc = "useToken" /\ req'[r].tok = t
    BY StartEffect DEF FindToken, IInv, Pc
  <1>2. Holds(r)'
    BY <1>1 DEF Holds, FindToken
  <1>3. QED
    BY <1>1, <1>2, QuietStep DEF FindToken, IInv, TypeOK

\* change_email, once the password matched.
LEMMA AskChangeStep ==
    ASSUME IInv, NEW r \in Req, NEW u \in User, NEW a \in Address, AskChange(r, u, a)
    PROVE  IInv'
  <1>1. /\ req' \in [Req -> Request] /\ \A q \in Req \ {r} : req'[q] = req[q]
        /\ req'[r].pc = "setEmail" /\ req'[r].user = u /\ req'[r].address = a
    BY StartEffect DEF AskChange, IInv, Pc
  <1>2. Holds(r)' /\ ~users[u].deleted
    BY <1>1 DEF Holds, AskChange, MayChange, Active, Rows
  <1>3. QED
    BY <1>1, <1>2, QuietStep DEF AskChange, IInv, TypeOK

\* delete_account once the password matched, or delete_user.
LEMMA AskDeleteStep ==
    ASSUME IInv, NEW r \in Req, NEW u \in User, AskDelete(r, u)
    PROVE  IInv'
  <1>1. /\ req' \in [Req -> Request] /\ \A q \in Req \ {r} : req'[q] = req[q]
        /\ req'[r].pc = "softDelete" /\ req'[r].user = u
    BY StartEffect DEF AskDelete, IInv, Pc
  <1>2. Holds(r)'
    BY <1>1 DEF Holds, AskDelete, Rows
  <1>3. QED
    BY <1>1, <1>2, QuietStep DEF AskDelete, IInv, TypeOK

\* bootstrap_owner, its COUNT.
LEMMA CountUsersStep ==
    ASSUME IInv, NEW r \in Req, CountUsers(r)
    PROVE  IInv'
  <1>1. /\ req' \in [Req -> Request] /\ \A q \in Req \ {r} : req'[q] = req[q]
        /\ req'[r].pc = "createOwner" /\ req'[r].address = OwnerEmail
    BY ConstantsAssumption, StartEffect DEF CountUsers, IInv, Pc
  <1>2. Holds(r)'
    BY <1>1 DEF Holds
  <1>3. misled' = (misled \/ Rows # {}) /\ misled \in BOOLEAN
    BY DEF CountUsers, IInv, TypeOK
  <1>4. misled' \/ Owners = {}
    BY <1>3 DEF Owners
  <1>5. misled' \in BOOLEAN /\ (misled => misled')
    BY <1>3
  <1>6. QED
    BY <1>1, <1>2, <1>4, <1>5, QuietStep DEF CountUsers

\* issue_action_token.
LEMMA MintStep ==
    ASSUME IInv, NEW r \in Req, NEW t \in Token, Mint(r, t)
    PROVE  IInv'
  <1> DEFINE link == [user |-> req[r].user, address |-> req[r].address, state |-> "unused"]
  <1>1. /\ req[r].user \in User /\ req[r].user \in Rows /\ req[r].address \in Address
        /\ req[r].user \in Active \ changed => req[r].address = users[req[r].user].email
    BY DEF IInv, RequestsHold, Holds, Mint, MailsHold, Rows
  <1>2. link \in Link
    BY <1>1 DEF Link
  <1>3. /\ tokens' \in [Token -> Link \cup {None}]
        /\ \A w \in Token \ {t} : tokens'[w] = tokens[w]
        /\ tokens'[t].user = req[r].user /\ tokens'[t].address = req[r].address
        /\ tokens'[t].state = "unused" /\ tokens'[t] # None /\ tokens[t] = None
    BY <1>2, LinkEffect DEF Mint, IInv
  <1>4. /\ req' \in [Req -> Request] /\ \A q \in Req \ {r} : req'[q] = req[q]
        /\ req'[r].pc = "done"
    BY FinishEffect DEF Mint, IInv
  <1>5. users' = users /\ changed' = changed /\ overlapped' = overlapped /\ misled' = misled
    BY DEF Mint
  <1> HIDE DEF link
  <1> USE <1>3, <1>4, <1>5 DEF IInv, Rows, Active, Ordinary, Owners
  <1>6. TypeOK'
    BY DEF TypeOK
  <1>7. RequestsHold'
    BY DEF RequestsHold, Holds
  <1>8. LinksHold'
    BY <1>1 DEF LinksHold
  <1>9. MailsHold'
    BY DEF MailsHold
  <1>10. VerifiedWasMailed'
    BY DEF VerifiedWasMailed, Proofs
  <1>11. LateChangeIsNoted'
    BY DEF LateChangeIsNoted
  <1>12. DeletedIsAnonymousUnlessOverlapped'
    BY DEF DeletedIsAnonymousUnlessOverlapped
  <1>13. SoleOwner'
    BY DEF SoleOwner
  <1>14. QED
    BY <1>6, <1>7, <1>8, <1>9, <1>10, <1>11, <1>12, <1>13

\* A step that changes the state of a link, and takes request r, if any, to "markVerified".
LEMMA LinkStep ==
    ASSUME IInv, NEW t \in Token, tokens[t] # None, NEW s \in {"used", "expired"},
           s = "expired" => tokens[t].state # "used",
           tokens' = [tokens EXCEPT ![t].state = s],
           req' \in [Req -> Request],
           \A q \in Req : \/ req'[q] = req[q]
                          \/ /\ req'[q].pc = "markVerified"
                             /\ req'[q].tok = t /\ s = "used",
           users' = users, changed' = changed, overlapped' = overlapped, misled' = misled
    PROVE  IInv'
  <1>1. /\ tokens' \in [Token -> Link \cup {None}]
        /\ \A w \in Token \ {t} : tokens'[w] = tokens[w]
        /\ tokens'[t] # None /\ tokens'[t].user = tokens[t].user
        /\ tokens'[t].address = tokens[t].address /\ tokens'[t].state = s
    BY StateEffect DEF IInv
  <1> USE <1>1 DEF IInv, Rows, Active, Ordinary, Owners
  <1>2. TypeOK'
    BY DEF TypeOK
  <1>3. RequestsHold'
    <2>1. SUFFICES ASSUME NEW q \in Req PROVE Holds(q)'
      BY DEF RequestsHold
    <2>2. CASE req'[q] = req[q]
      BY <2>2 DEF RequestsHold, Holds
    <2>3. CASE req'[q] # req[q]
      BY <2>3 DEF Holds
    <2>4. QED
      BY <2>2, <2>3
  <1>4. LinksHold'
    BY DEF LinksHold
  <1>5. MailsHold'
    BY DEF MailsHold
  <1>6. VerifiedWasMailed'
    BY DEF VerifiedWasMailed, Proofs
  <1>7. LateChangeIsNoted'
    BY DEF LateChangeIsNoted
  <1>8. DeletedIsAnonymousUnlessOverlapped'
    BY DEF DeletedIsAnonymousUnlessOverlapped
  <1>9. SoleOwner'
    BY DEF SoleOwner
  <1>10. QED
    BY <1>2, <1>3, <1>4, <1>5, <1>6, <1>7, <1>8, <1>9

\* consume_action_token, its UPDATE.
LEMMA UseTokenStep ==
    ASSUME IInv, NEW r \in Req, UseToken(r)
    PROVE  IInv'
  <1>1. req[r].tok \in Token /\ tokens[req[r].tok] # None
    BY DEF UseToken, IInv, RequestsHold, Holds
  <1>2. /\ req' \in [Req -> Request] /\ \A q \in Req \ {r} : req'[q] = req[q]
        /\ req'[r].pc = "markVerified" /\ req'[r].tok = req[r].tok
    BY AdvanceEffect DEF UseToken, IInv, Pc
  <1>3. PICK t \in Token : t = req[r].tok
    BY <1>1
  <1>4. tokens[t] # None /\ tokens' = [tokens EXCEPT ![t].state = "used"]
    BY <1>1, <1>3 DEF UseToken
  <1>5. \A q \in Req : req'[q] = req[q] \/ (req'[q].pc = "markVerified" /\ req'[q].tok = t)
    BY <1>2, <1>3
  <1>6. QED
    BY <1>2, <1>4, <1>5, LinkStep DEF UseToken

\* The hour of a link is over.
LEMMA ExpireTokenStep ==
    ASSUME IInv, NEW t \in Token, ExpireToken(t)
    PROVE  IInv'
  <1>1. req' \in [Req -> Request] /\ \A q \in Req : req'[q] = req[q]
    BY DEF ExpireToken, IInv, TypeOK
  <1>2. QED
    BY <1>1, LinkStep DEF ExpireToken

\* A new row u for address a, of an instance that starts or a user who registers.
LEMMA NewRowStep ==
    ASSUME IInv, NEW r \in Req, NEW u \in User \ Rows, NEW a \in Address,
           NEW role \in {"user", "owner"}, users' = [users EXCEPT ![u] = Created(a, role)],
           req' \in [Req -> Request], \A q \in Req \ {r} : req'[q] = req[q],
           req'[r].user = u, req'[r].address = a,
           \/ role = "user" /\ req'[r].pc = "mint"
           \/ role = "owner" /\ req'[r].pc = "verifyOwner" /\ (misled \/ Owners = {})
              /\ a = OwnerEmail,
           tokens' = tokens, changed' = changed, overlapped' = overlapped, misled' = misled
    PROVE  IInv'
  <1>1. /\ users' \in [User -> Account \cup {None}]
        /\ \A v \in User \ {u} : users'[v] = users[v]
        /\ users'[u] # None /\ users'[u].email = a /\ users'[u].role = role
        /\ ~users'[u].verified /\ ~users'[u].deleted
    <2>1. u \in User /\ TypeOK /\ Created(a, role) \in Account
      BY CreatedEffect DEF IInv
    <2>2. /\ users' \in [User -> Account \cup {None}]
          /\ \A v \in User \ {u} : users'[v] = users[v]
          /\ users'[u] = Created(a, role) /\ users'[u] # None
      BY <2>1, RowEffect
    <2>3. QED
      BY <2>2, CreatedEffect
  <1>2. users[u] = None
    BY DEF Rows
  <1> USE <1>1, <1>2 DEF IInv, Rows, Active, Ordinary, Owners
  <1>3. TypeOK'
    BY DEF TypeOK
  <1>4. RequestsHold'
    <2>1. SUFFICES ASSUME NEW q \in Req PROVE Holds(q)'
      BY DEF RequestsHold
    <2>2. CASE q = r
      BY <2>2 DEF Holds
    <2>3. CASE q # r
      BY <2>3 DEF RequestsHold, Holds
    <2>4. QED
      BY <2>2, <2>3
  <1>5. LinksHold'
    BY DEF LinksHold
  <1>6. MailsHold'
    <2>1. SUFFICES ASSUME NEW q \in Req, req'[q].pc = "mint",
                          req'[q].user \in (Active \ changed)'
                   PROVE  req'[q].address = users'[req'[q].user].email
      BY DEF MailsHold
    <2>2. CASE q = r
      BY <2>1, <2>2
    <2>3. CASE q # r
      BY <2>1, <2>3 DEF MailsHold, RequestsHold, Holds
    <2>4. QED
      BY <2>2, <2>3
  <1>7. VerifiedWasMailed'
    BY DEF VerifiedWasMailed, Proofs
  <1>8. LateChangeIsNoted'
    BY DEF LateChangeIsNoted, RequestsHold, Holds
  <1>9. DeletedIsAnonymousUnlessOverlapped'
    BY DEF DeletedIsAnonymousUnlessOverlapped
  <1>10. SoleOwner'
    BY DEF SoleOwner
  <1>11. QED
    BY <1>3, <1>4, <1>5, <1>6, <1>7, <1>8, <1>9, <1>10

\* register.
LEMMA RegisterStep ==
    ASSUME IInv, NEW r \in Req, NEW u \in User, NEW a \in Address, Register(r, u, a)
    PROVE  IInv'
  <1>1. /\ req' \in [Req -> Request] /\ \A q \in Req \ {r} : req'[q] = req[q]
        /\ req'[r].pc = "mint" /\ req'[r].user = u /\ req'[r].address = a
    BY StartEffect DEF Register, IInv, Pc
  <1>2. QED
    BY <1>1, NewRowStep DEF Register

\* bootstrap_owner, its INSERT.
LEMMA CreateOwnerStep ==
    ASSUME IInv, NEW r \in Req, NEW u \in User, CreateOwner(r, u)
    PROVE  IInv'
  <1>1. CASE Finish(r) /\ UNCHANGED users
    BY <1>1, FinishStep DEF CreateOwner
  <1>2. CASE ~(Finish(r) /\ UNCHANGED users)
    <2>1. req[r].pc = "createOwner" /\ req[r].address = OwnerEmail
      BY DEF CreateOwner, IInv, RequestsHold, Holds
    <2>2. /\ users' = [users EXCEPT ![u] = Created(OwnerEmail, "owner")]
          /\ req' = [req EXCEPT ![r].pc = "verifyOwner", ![r].user = u]
          /\ \A v \in Rows : users[v].email # OwnerEmail
      BY <1>2, <2>1 DEF CreateOwner, OwnerConflict, Taken
    <2>3. misled \/ Owners = {}
      BY <2>1, <2>2 DEF IInv, SoleOwner, Owners
    <2>4. LET x == [[req[r] EXCEPT !.pc = "verifyOwner"] EXCEPT !.user = u]
          IN  x \in Request /\ x.pc = "verifyOwner" /\ x.user = u /\ x.address = OwnerEmail
      BY <2>1 DEF IInv, TypeOK, Request, Pc
    <2>5. req' = [req EXCEPT ![r] = [[req[r] EXCEPT !.pc = "verifyOwner"] EXCEPT !.user = u]]
      BY <2>2
    <2>6. /\ req' \in [Req -> Request] /\ \A q \in Req \ {r} : req'[q] = req[q]
          /\ req'[r].pc = "verifyOwner" /\ req'[r].user = u /\ req'[r].address = OwnerEmail
      BY <2>4, <2>5, SlotEffect DEF IInv
    <2>7. QED
      BY <2>2, <2>3, <2>6, NewRowStep, ConstantsAssumption DEF CreateOwner
  <1>3. QED
    BY <1>1, <1>2

\* A step that confirms the address of a user who has used a link mailed to it, or who
\* is an owner.
LEMMA VerifyStep ==
    ASSUME IInv, NEW r \in Req, NEW u \in Rows,
           users' = [users EXCEPT ![u].verified = TRUE],
           u \in Ordinary \ changed => Proofs(u, users[u].email) # {},
           Finish(r), UNCHANGED <<tokens, changed, overlapped, misled>>
    PROVE  IInv'
  <1>1. /\ users' \in [User -> Account \cup {None}]
        /\ \A v \in User \ {u} : users'[v] = users[v]
        /\ users'[u] # None /\ users'[u].email = users[u].email
        /\ users'[u].deleted = users[u].deleted /\ users'[u].role = users[u].role
    BY VerifiedEffect DEF IInv
  <1>2. /\ req' \in [Req -> Request] /\ \A q \in Req \ {r} : req'[q] = req[q]
        /\ req'[r].pc = "done"
    BY FinishEffect DEF IInv
  <1> USE <1>1, <1>2 DEF IInv, Rows, Active, Ordinary, Owners
  <1>3. TypeOK'
    BY DEF TypeOK
  <1>4. RequestsHold'
    BY DEF RequestsHold, Holds
  <1>5. LinksHold'
    BY DEF LinksHold
  <1>6. MailsHold'
    BY DEF MailsHold
  <1>7. VerifiedWasMailed'
    BY DEF VerifiedWasMailed, Proofs
  <1>8. LateChangeIsNoted'
    BY DEF LateChangeIsNoted, RequestsHold, Holds
  <1>9. DeletedIsAnonymousUnlessOverlapped'
    BY DEF DeletedIsAnonymousUnlessOverlapped
  <1>10. SoleOwner'
    BY DEF SoleOwner
  <1>11. QED
    BY <1>3, <1>4, <1>5, <1>6, <1>7, <1>8, <1>9, <1>10

\* mark_email_verified.
LEMMA MarkVerifiedStep ==
    ASSUME IInv, NEW r \in Req, MarkVerified(r)
    PROVE  IInv'
  <1>1. PICK t \in Token : t = req[r].tok
    BY DEF MarkVerified, IInv, RequestsHold, Holds
  <1>2. tokens[t] # None /\ tokens[t].state = "used" /\ tokens[t].user \in Rows
    BY <1>1 DEF MarkVerified, IInv, RequestsHold, Holds, LinksHold
  <1>3. PICK u \in Rows : u = tokens[t].user
    BY <1>2
  <1>4. users' = [users EXCEPT ![u].verified = TRUE]
    BY <1>1, <1>3 DEF MarkVerified
  <1>5. u \in Ordinary \ changed => t \in Proofs(u, users[u].email)
    BY <1>2, <1>3 DEF IInv, LinksHold, Ordinary, Proofs
  <1>6. QED
    BY <1>4, <1>5, VerifyStep DEF MarkVerified

\* bootstrap_owner, its UPDATE.
LEMMA VerifyOwnerStep ==
    ASSUME IInv, NEW r \in Req, VerifyOwner(r)
    PROVE  IInv'
  <1>1. PICK u \in Owners : u = req[r].user
    BY DEF VerifyOwner, IInv, RequestsHold, Holds
  <1>2. u \in Rows /\ u \notin Ordinary
    BY DEF Owners, Ordinary
  <1>3. users' = [users EXCEPT ![u].verified = TRUE]
    BY <1>1 DEF VerifyOwner
  <1>4. QED
    BY <1>2, <1>3, VerifyStep DEF VerifyOwner

\* set_email, when the address is free.
LEMMA SetEmailStep ==
    ASSUME IInv, NEW r \in Req, SetEmail(r)
    PROVE  IInv'
  <1>1. CASE Finish(r) /\ UNCHANGED <<users, changed, misled>>
    BY <1>1, FinishStep DEF SetEmail
  <1>2. CASE ~(Finish(r) /\ UNCHANGED <<users, changed, misled>>)
    <2>1. PICK u \in Rows, a \in Address : u = req[r].user /\ a = req[r].address
      BY DEF SetEmail, IInv, RequestsHold, Holds
    <2>2. /\ users' = [users EXCEPT ![u] = Renamed(users[u], a)]
          /\ changed' = changed \cup {u}
          /\ misled' = (misled \/ Vacates(u, a))
          /\ req' = [req EXCEPT ![r].pc = "mint"]
          /\ req[r].pc = "setEmail" /\ tokens' = tokens /\ overlapped' = overlapped
      BY <1>2, <2>1 DEF SetEmail
    <2>3. /\ users' \in [User -> Account \cup {None}]
          /\ \A v \in User \ {u} : users'[v] = users[v]
          /\ users'[u] # None /\ users'[u].email = a
          /\ users'[u].deleted = users[u].deleted /\ users'[u].role = users[u].role
      BY <2>2, RenamedEffect DEF IInv
    <2>4. /\ req' \in [Req -> Request] /\ \A q \in Req \ {r} : req'[q] = req[q]
          /\ req'[r].pc = "mint" /\ req'[r].user = u /\ req'[r].address = a
      BY <2>1, <2>2, AdvanceEffect DEF IInv, Pc
    <2>5. users[u].deleted => u \in overlapped
      BY <2>1, <2>2 DEF IInv, LateChangeIsNoted
    <2>6. misled \in BOOLEAN /\ misled' \in BOOLEAN /\ (misled => misled')
      BY <2>2 DEF IInv, TypeOK, Vacates
    <2>7. (~misled' /\ users[u].email = OwnerEmail /\ a # OwnerEmail)
              => \A q \in Req : req[q].pc # "createOwner"
      BY <2>2 DEF Vacates
    <2> USE <2>3, <2>4 DEF IInv, Rows, Active, Ordinary, Owners
    <2>8. TypeOK'
      BY <2>2, <2>6 DEF TypeOK
    <2>9. RequestsHold'
      BY <2>2 DEF RequestsHold, Holds
    <2>10. LinksHold'
      BY <2>2 DEF LinksHold
    <2>11. MailsHold'
      <3>1. SUFFICES ASSUME NEW q \in Req, req'[q].pc = "mint",
                            req'[q].user \in (Active \ changed)'
                     PROVE  req'[q].address = users'[req'[q].user].email
        BY DEF MailsHold
      <3>2. q # r /\ req'[q].user # u
        BY <2>2, <3>1
      <3>3. QED
        BY <2>2, <3>1, <3>2 DEF MailsHold, RequestsHold, Holds
    <2>12. VerifiedWasMailed'
      BY <2>2 DEF VerifiedWasMailed, Proofs
    <2>13. LateChangeIsNoted'
      BY <2>2 DEF LateChangeIsNoted, RequestsHold, Holds
    <2>14. DeletedIsAnonymousUnlessOverlapped'
      BY <2>2, <2>5 DEF DeletedIsAnonymousUnlessOverlapped
    <2>15. SoleOwner'
      BY <2>6, <2>7 DEF SoleOwner
    <2>16. QED
      BY <2>8, <2>9, <2>10, <2>11, <2>12, <2>13, <2>14, <2>15
  <1>3. QED
    BY <1>1, <1>2

\* soft_delete.
LEMMA SoftDeleteStep ==
    ASSUME IInv, NEW r \in Req, SoftDelete(r)
    PROVE  IInv'
  <1>1. PICK u \in Rows : u = req[r].user
    BY DEF SoftDelete, IInv, RequestsHold, Holds
  <1>2. /\ users' = [users EXCEPT ![u] = [@ EXCEPT !.email = None, !.deleted = TRUE]]
        /\ overlapped' = IF ChangesInFlight(u) THEN overlapped \cup {u} ELSE overlapped
        /\ misled' = (misled \/ Vacates(u, None))
        /\ Finish(r) /\ tokens' = tokens /\ changed' = changed
    BY <1>1 DEF SoftDelete
  <1>3. /\ users' \in [User -> Account \cup {None}]
        /\ \A v \in User \ {u} : users'[v] = users[v]
        /\ users'[u] # None /\ users'[u].email = None
        /\ users'[u].deleted /\ users'[u].role = users[u].role
    BY <1>2, DeletedEffect DEF IInv
  <1>4. /\ req' \in [Req -> Request] /\ \A q \in Req \ {r} : req'[q] = req[q]
        /\ req'[r].pc = "done"
    BY <1>2, FinishEffect DEF IInv
  <1>5. misled \in BOOLEAN /\ misled' \in BOOLEAN /\ (misled => misled')
    BY <1>2 DEF IInv, TypeOK, Vacates
  <1>6. (~misled' /\ users[u].email = OwnerEmail) => \A q \in Req : req[q].pc # "createOwner"
    BY <1>2, ConstantsAssumption DEF Vacates
  <1>7. /\ overlapped \subseteq overlapped' /\ overlapped' \subseteq User
        /\ ChangesInFlight(u) => u \in overlapped'
    BY <1>2 DEF IInv, TypeOK, Rows
  <1> USE <1>3, <1>4 DEF IInv, Rows, Active, Ordinary, Owners
  <1>8. TypeOK'
    BY <1>2, <1>5, <1>7 DEF TypeOK
  <1>9. RequestsHold'
    BY <1>2 DEF RequestsHold, Holds
  <1>10. LinksHold'
    BY <1>2 DEF LinksHold
  <1>11. MailsHold'
    BY <1>2 DEF MailsHold
  <1>12. VerifiedWasMailed'
    BY <1>2 DEF VerifiedWasMailed, Proofs
  <1>13. LateChangeIsNoted'
    BY <1>7 DEF LateChangeIsNoted, RequestsHold, Holds, ChangesInFlight
  <1>14. DeletedIsAnonymousUnlessOverlapped'
    BY <1>7 DEF DeletedIsAnonymousUnlessOverlapped
  <1>15. SoleOwner'
    BY <1>5, <1>6 DEF SoleOwner
  <1>16. QED
    BY <1>8, <1>9, <1>10, <1>11, <1>12, <1>13, <1>14, <1>15

----------------------------------------------------------------------------
(* The theorems *)

\* The invariant holds before any instance has started.
LEMMA Initially == Init => IInv
  <1>1. SUFFICES ASSUME Init PROVE IInv
    OBVIOUS
  <1>2. Idle \in Request /\ Idle.pc = "done"
    BY DEF Idle, Request, Pc
  <1>3. \A r \in Req : req[r].pc = "done"
    BY <1>1, <1>2 DEF Init
  <1>4. Rows = {} /\ \A t \in Token : tokens[t] = None
    BY <1>1 DEF Init, Rows
  <1>5. TypeOK
    BY <1>1, <1>2 DEF Init, TypeOK
  <1>6. RequestsHold /\ MailsHold /\ LateChangeIsNoted
    BY <1>3 DEF RequestsHold, Holds, MailsHold, LateChangeIsNoted
  <1>7. LinksHold
    BY <1>4 DEF LinksHold
  <1>8. VerifiedWasMailed /\ DeletedIsAnonymousUnlessOverlapped /\ SoleOwner
    BY <1>4 DEF VerifiedWasMailed, DeletedIsAnonymousUnlessOverlapped, SoleOwner,
                Ordinary, Owners, Active
  <1>9. QED
    BY <1>5, <1>6, <1>7, <1>8 DEF IInv

\* Every step keeps the invariant.
LEMMA Inductive == IInv /\ [Next]_vars => IInv'
  <1>1. SUFFICES ASSUME IInv, [Next]_vars PROVE IInv'
    OBVIOUS
  <1>2. CASE UNCHANGED vars
    BY <1>1, <1>2 DEF vars, IInv, TypeOK, RequestsHold, Holds, LinksHold, MailsHold,
        VerifiedWasMailed, LateChangeIsNoted, DeletedIsAnonymousUnlessOverlapped,
        SoleOwner, Rows, Active, Ordinary, Owners, Proofs
  <1>3. ASSUME NEW r \in Req, Serve(r) PROVE IInv'
    <2>1. ASSUME NEW u \in User, NEW a \in Address, Register(r, u, a) PROVE IInv'
      BY <1>1, <2>1, RegisterStep
    <2>2. ASSUME NEW u \in User, AskAgain(r, u) PROVE IInv'
      BY <1>1, <2>2, AskAgainStep
    <2>3. ASSUME NEW t \in Token, Mint(r, t) PROVE IInv'
      BY <1>1, <2>3, MintStep
    <2>4. ASSUME NEW t \in Token, FindToken(r, t) PROVE IInv'
      BY <1>1, <2>4, FindTokenStep
    <2>5. CASE UseToken(r)
      BY <1>1, <2>5, UseTokenStep
    <2>6. CASE MarkVerified(r)
      BY <1>1, <2>6, MarkVerifiedStep
    <2>7. ASSUME NEW u \in User, NEW a \in Address, AskChange(r, u, a) PROVE IInv'
      BY <1>1, <2>7, AskChangeStep
    <2>8. CASE SetEmail(r)
      BY <1>1, <2>8, SetEmailStep
    <2>9. ASSUME NEW u \in User, AskDelete(r, u) PROVE IInv'
      BY <1>1, <2>9, AskDeleteStep
    <2>10. CASE SoftDelete(r)
      BY <1>1, <2>10, SoftDeleteStep
    <2>11. CASE Abort(r)
      BY <1>1, <2>11, FinishStep DEF Abort
    <2>12. QED
      BY <1>3, <2>1, <2>2, <2>3, <2>4, <2>5, <2>6, <2>7, <2>8, <2>9, <2>10, <2>11 DEF Serve
  <1>4. ASSUME NEW r \in Req, Bootstrap(r) PROVE IInv'
    <2>1. CASE CountUsers(r)
      BY <1>1, <2>1, CountUsersStep
    <2>2. ASSUME NEW u \in User, CreateOwner(r, u) PROVE IInv'
      BY <1>1, <2>2, CreateOwnerStep
    <2>3. CASE VerifyOwner(r)
      BY <1>1, <2>3, VerifyOwnerStep
    <2>4. QED
      BY <1>4, <2>1, <2>2, <2>3 DEF Bootstrap
  <1>5. ASSUME NEW t \in Token, ExpireToken(t) PROVE IInv'
    BY <1>1, <1>5, ExpireTokenStep
  <1>6. QED
    BY <1>1, <1>2, <1>3, <1>4, <1>5 DEF Next

\* The types, what the requests and the links hold and the properties below together.
THEOREM Invariance == Spec => []IInv
  BY Initially, Inductive, PTL DEF Spec

\* Type correctness of the handlers that set and verify an address.
THEOREM TypeCorrect == Spec => []TypeOK
  <1>1. IInv => TypeOK
    BY DEF IInv
  <1>2. QED
    BY <1>1, Invariance, PTL

\* An account that never changed its address was verified by a link mailed to it.
THEOREM VerifiedMailed == Spec => []VerifiedWasMailed
  <1>1. IInv => VerifiedWasMailed
    BY DEF IInv
  <1>2. QED
    BY <1>1, Invariance, PTL

\* Only a change of address that overlapped the deletion leaves a deleted account one.
THEOREM DeletedAnonymous == Spec => []DeletedIsAnonymousUnlessOverlapped
  <1>1. IInv => DeletedIsAnonymousUnlessOverlapped
    BY DEF IInv
  <1>2. QED
    BY <1>1, Invariance, PTL

\* One owner at most, however many instances start at once or crash on the way.
THEOREM OneOwner == Spec => []OneOwnerUnlessMisled
  <1>1. IInv => OneOwnerUnlessMisled
    <2>1. SUFFICES ASSUME IInv, ~misled PROVE Cardinality(Owners) <= 1
      BY DEF OneOwnerUnlessMisled
    <2>2. CASE Owners = {}
      BY <2>2, FS_EmptySet
    <2>3. ASSUME NEW u \in Owners PROVE Cardinality(Owners) <= 1
      <3>1. Owners = {u}
        BY <2>1, <2>3 DEF IInv, SoleOwner
      <3>2. QED
        BY <3>1, FS_Singleton
    <2>4. QED
      BY <2>2, <2>3
  <1>2. QED
    BY <1>1, Invariance, PTL
=============================================================================
