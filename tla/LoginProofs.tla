----------------------------- MODULE LoginProofs -----------------------------
(***************************************************************************)
(* Proofs about Mfa for every set of secrets, codes and requests and every *)
(* size of a batch of recovery codes; and about Login for every set of     *)
(* passwords and every lifetime of the pending token: a login is a client  *)
(* of the second factor (every step of Login is a step of Mfa or leaves it *)
(* alone), and what a session rests on.                                    *)
(***************************************************************************)
EXTENDS Login, FiniteSetTheorems, TLAPS

----------------------------------------------------------------------------
(* The second factor: the inductive invariant *)

\* A request that runs found a row, and a slot that is free is clean.
RowFound ==
    \A r \in Req :
        /\ req[r].pc = "done" => req[r] = Idle
        /\ req[r].pc # "done" => row \in Row
        /\ req[r].pc = "saveRest" => req[r].code \in req[r].read
        /\ req[r].pc \in {"saveBatch", "enable", "answer"} => req[r].batch # {}

\* Codes are drawn before they are stored, read or spent.
DrawnFirst ==
    /\ spent \subseteq drawn
    /\ row # None => row.codes \subseteq drawn
    /\ \A r \in Req : req[r].batch \subseteq drawn /\ req[r].read \subseteq drawn

\* A batch that is not stored yet is nowhere else.
BatchIsFresh ==
    \A r \in Req : req[r].pc = "saveBatch" =>
        /\ req[r].batch \cap spent = {}
        /\ req[r].batch \cap row.codes = {}
        /\ \A q \in Req \ {r} :
              req[r].batch \cap (req[q].batch \cup req[q].read) = {}

\* Without an overlapping setup, the secret a confirmation is about to put in force, or
\* has put in force, is the one it checked.
SecretIsChecked ==
    "setup" \notin raced =>
        /\ Confirming # {} => row.secret \in confirmed
        /\ InForce(row) => row.secret \in confirmed

\* Without an overlap, the codes a login is about to write back are the row's, and the
\* row has no spent code.
OneWriter ==
    "codes" \notin raced =>
        /\ \A q, r \in Spending : q = r
        /\ \A r \in Spending : req[r].read = row.codes
        /\ row # None => row.codes \cap spent = {}

\* Without any overlap, the row is pending while a confirmation runs, enabled while a code
\* is spent and from the UPDATE of a confirmation on; and it has the codes of that
\* confirmation, which are those shown once it has answered.
CodesAreShown ==
    raced = {} =>
        /\ \A q, r \in Confirming : q = r
        /\ Confirming # {} => row.state = "pending"
        /\ Spending # {} => row.state = "enabled"
        /\ \A r \in Req : req[r].pc = "enable" => row.codes = req[r].batch
        /\ \A q, r \in Answering : q = r
        /\ \A r \in Answering :
              InForce(row) /\ cut = {} /\ row.codes = req[r].batch \ spent
        /\ cut # {} => InForce(row) /\ row.codes = cut \ spent
        /\ InForce(row) /\ Answering = {} /\ cut = {} => row.codes = shown \ spent

IInv ==
    /\ TypeOK /\ RowFound /\ DrawnFirst /\ BatchIsFresh
    /\ SecretIsChecked /\ OneWriter /\ CodesAreShown

----------------------------------------------------------------------------
(* Type correctness *)

\* What a step of request r does to the slots when it stores the record x.
LEMMA SlotEffect ==
    ASSUME TypeOK, NEW r \in Req, NEW x \in Request, req' = [req EXCEPT ![r] = x]
    PROVE  /\ req' \in [Req -> Request]
           /\ \A q \in Req \ {r} : req'[q] = req[q]
           /\ req'[r] = x
  BY DEF TypeOK

\* An idle slot.
LEMMA IdleRequest ==
    /\ Idle \in Request
    /\ Idle.pc = "done" /\ Idle.read = {} /\ Idle.batch = {}
  BY DEF Idle, Request

\* The last step of request r.
LEMMA FinishEffect ==
    ASSUME TypeOK, NEW r \in Req, Finish(r)
    PROVE  /\ req' \in [Req -> Request]
           /\ \A q \in Req \ {r} : req'[q] = req[q]
           /\ req'[r] = Idle
  BY SlotEffect, IdleRequest DEF Finish

\* The first step of request r.
LEMMA StartEffect ==
    ASSUME TypeOK, NEW r \in Req, NEW pc \in {"saveBatch", "saveRest"},
           NEW read \in SUBSET Code, NEW c \in Code \cup {None},
           NEW batch \in SUBSET Code, Start(r, pc, read, c, batch)
    PROVE  /\ req' \in [Req -> Request]
           /\ \A q \in Req \ {r} : req'[q] = req[q]
           /\ req'[r].pc = pc /\ req'[r].read = read
           /\ req'[r].code = c /\ req'[r].batch = batch
  <1>1. [pc |-> pc, read |-> read, code |-> c, batch |-> batch] \in Request
    BY DEF Request
  <1>2. QED
    BY <1>1 DEF Start, TypeOK

\* The step of a confirmation between its two statements.
LEMMA SaveBatchEffect ==
    ASSUME TypeOK, RowFound, NEW r \in Req, SaveBatch(r)
    PROVE  /\ req' \in [Req -> Request]
           /\ \A q \in Req \ {r} : req'[q] = req[q]
           /\ req[r].pc = "saveBatch" /\ req'[r].pc = "enable"
           /\ req'[r].batch = req[r].batch /\ req'[r].read = req[r].read
           /\ row' \in Row /\ row'.secret = row.secret /\ row'.state = row.state
           /\ row'.codes = req[r].batch
  <1>1. row \in Row /\ req[r] \in Request /\ req[r].pc = "saveBatch"
    BY DEF SaveBatch, RowFound, TypeOK
  <1>2. LET x == [req[r] EXCEPT !.pc = "enable"]
        IN  /\ x \in Request /\ x.pc = "enable"
            /\ x.batch = req[r].batch /\ x.read = req[r].read
    BY <1>1 DEF Request
  <1>3. req' = [req EXCEPT ![r] = [req[r] EXCEPT !.pc = "enable"]]
    BY DEF SaveBatch
  <1>4. req[r].batch \in SUBSET Code
    BY <1>1 DEF Request
  <1>5. LET x == [row EXCEPT !.codes = req[r].batch]
        IN  /\ x \in Row /\ x.codes = req[r].batch
            /\ x.secret = row.secret /\ x.state = row.state
    BY <1>1, <1>4 DEF Row
  <1>6. row' = [row EXCEPT !.codes = req[r].batch]
    BY DEF SaveBatch, StoredBatch
  <1>7. QED
    BY <1>1, <1>2, <1>3, <1>5, <1>6, SlotEffect

\* The step of a confirmation that enables the row.
LEMMA EnableEffect ==
    ASSUME TypeOK, RowFound, NEW r \in Req, Enable(r)
    PROVE  /\ req' \in [Req -> Request]
           /\ \A q \in Req \ {r} : req'[q] = req[q]
           /\ req'[r].pc = "answer"
           /\ req'[r].batch = req[r].batch /\ req'[r].read = req[r].read
           /\ row' \in Row /\ row'.secret = row.secret /\ row'.state = "enabled"
           /\ row'.codes = row.codes
           /\ req[r].pc = "enable" /\ row \in Row
  <1>1. row \in Row /\ req[r].pc = "enable"
    BY DEF Enable, RowFound
  <1>2. LET x == [row EXCEPT !.state = "enabled"]
        IN  /\ x \in Row /\ x.codes = row.codes
            /\ x.secret = row.secret /\ x.state = "enabled"
    BY <1>1 DEF Row
  <1>3. req[r] \in Request
    BY DEF TypeOK
  <1>4. LET x == [req[r] EXCEPT !.pc = "answer"]
        IN  /\ x \in Request /\ x.pc = "answer"
            /\ x.batch = req[r].batch /\ x.read = req[r].read
    BY <1>3 DEF Request
  <1>5. req' = [req EXCEPT ![r] = [req[r] EXCEPT !.pc = "answer"]]
    BY DEF Enable
  <1>6. QED
    BY <1>1, <1>2, <1>4, <1>5, SlotEffect DEF Enable

\* The last step of a login with a recovery code.
LEMMA SaveRestEffect ==
    ASSUME TypeOK, RowFound, NEW r \in Req, SaveRest(r)
    PROVE  /\ row' \in Row /\ row'.secret = row.secret /\ row'.state = row.state
           /\ row'.codes = req[r].read \ {req[r].code}
           /\ req[r].pc = "saveRest" /\ row \in Row
           /\ req[r].code \in req[r].read /\ req[r].read \subseteq Code
  <1>1. /\ row \in Row /\ req[r].pc = "saveRest" /\ req[r] \in Request
        /\ req[r].code \in req[r].read
    BY DEF SaveRest, RowFound, TypeOK
  <1>2. req[r].read \in SUBSET Code
    BY <1>1 DEF Request
  <1>3. req[r].read \ {req[r].code} \in SUBSET Code
    BY <1>2
  <1>4. LET x == [row EXCEPT !.codes = req[r].read \ {req[r].code}]
        IN  /\ x \in Row /\ x.codes = req[r].read \ {req[r].code}
            /\ x.secret = row.secret /\ x.state = row.state
    BY <1>1, <1>3 DEF Row
  <1>5. QED
    BY <1>1, <1>2, <1>4 DEF SaveRest, Remaining

\* The row that a setup leaves.
LEMMA SetupRow ==
    ASSUME NEW k \in Secret, Setup(k)
    PROVE  /\ row' \in Row /\ row'.secret = k /\ row'.state = "pending"
           /\ row'.codes = {}
  BY DEF Setup, AfterSetup, Row

----------------------------------------------------------------------------
(* One lemma per action *)

\* A setup starts over, and marks what it overlaps.
LEMMA SetupKeeps ==
    ASSUME IInv, NEW k \in Secret, Setup(k)
    PROVE  IInv'
  <1>1. /\ row' \in Row /\ row'.secret = k /\ row'.state = "pending" /\ row'.codes = {}
        /\ UNCHANGED <<req, confirmed, spent>>
        /\ shown' = {} /\ cut' = {}
        /\ drawn' = drawn \cup {k}
        /\ raced' = raced \cup {x \in {"setup"} : Confirming # {}}
                          \cup {x \in {"codes"} : Spending # {}}
                          \cup {x \in {"answer"} : Answering # {}}
    BY SetupRow DEF Setup
  <1>2. TypeOK'
    BY <1>1 DEF IInv, TypeOK, Overlap, Row, Request
  <1>3. RowFound'
    BY <1>1 DEF IInv, RowFound
  <1>4. DrawnFirst'
    BY <1>1 DEF IInv, DrawnFirst, RowFound
  <1>5. BatchIsFresh'
    BY <1>1 DEF IInv, BatchIsFresh, DrawnFirst, RowFound
  <1>6. SecretIsChecked'
    BY <1>1 DEF IInv, SecretIsChecked, Confirming, InForce, RowFound
  <1>7. OneWriter'
    BY <1>1 DEF IInv, OneWriter, Spending, BatchIsFresh, RowFound
  <1>8. CodesAreShown'
    BY <1>1 DEF IInv, CodesAreShown, OneWriter, Confirming, Answering, Spending, InForce, RowFound
  <1>9. QED
    BY <1>2, <1>3, <1>4, <1>5, <1>6, <1>7, <1>8 DEF IInv

\* A confirmation draws codes nobody has seen.
LEMMA ConfirmKeeps ==
    ASSUME IInv, NEW r \in Req, NEW batch \in SUBSET Code, Confirm(r, batch)
    PROVE  IInv'
  <1>1. /\ req' \in [Req -> Request]
        /\ \A q \in Req \ {r} : req'[q] = req[q]
        /\ req'[r].pc = "saveBatch" /\ req'[r].read = {} /\ req'[r].batch = batch
        /\ req[r].pc = "done" /\ row # None /\ row \in Row /\ row.state = "pending"
        /\ batch \cap drawn = {} /\ batch # {}
        /\ UNCHANGED <<row, shown, cut, spent>>
        /\ drawn' = drawn \cup batch
        /\ confirmed' = confirmed \cup {row.secret}
        /\ raced' = raced \cup {x \in {"setup"} : Confirming # {}}
    BY StartEffect, FS_EmptySet, ConstantsAssumption DEF Confirm, MayConfirm, IInv, TypeOK
  <1>2. TypeOK'
    BY <1>1 DEF IInv, TypeOK, Overlap, Row, Request
  <1>3. RowFound'
    BY <1>1 DEF IInv, RowFound
  <1>4. DrawnFirst'
    BY <1>1 DEF IInv, DrawnFirst, RowFound
  <1>5. BatchIsFresh'
    BY <1>1 DEF IInv, BatchIsFresh, DrawnFirst, RowFound
  <1>6. SecretIsChecked'
    BY <1>1 DEF IInv, SecretIsChecked, Confirming, InForce, RowFound
  <1>7. OneWriter'
    BY <1>1 DEF IInv, OneWriter, Spending, BatchIsFresh, RowFound
  <1>8. CodesAreShown'
    BY <1>1 DEF IInv, CodesAreShown, OneWriter, Confirming, Answering, Spending, InForce, RowFound
  <1>9. QED
    BY <1>2, <1>3, <1>4, <1>5, <1>6, <1>7, <1>8 DEF IInv

\* A confirmation stores its batch over whatever codes there are.
LEMMA SaveBatchKeeps ==
    ASSUME IInv, NEW r \in Req, SaveBatch(r)
    PROVE  IInv'
  <1>1. /\ req' \in [Req -> Request]
        /\ \A q \in Req \ {r} : req'[q] = req[q]
        /\ req[r].pc = "saveBatch" /\ req'[r].pc = "enable"
        /\ req'[r].batch = req[r].batch /\ req'[r].read = req[r].read
        /\ row' \in Row /\ row'.secret = row.secret /\ row'.state = row.state
        /\ row'.codes = req[r].batch /\ row \in Row
        /\ UNCHANGED <<drawn, confirmed, shown, cut, spent>>
        /\ raced' = raced \cup {x \in {"codes"} : Spending # {}}
    BY SaveBatchEffect DEF SaveBatch, IInv, RowFound
  <1>2. TypeOK'
    BY <1>1 DEF IInv, TypeOK, Overlap, Row, Request
  <1>3. RowFound'
    BY <1>1 DEF IInv, RowFound
  <1>4. DrawnFirst'
    BY <1>1 DEF IInv, DrawnFirst, RowFound
  <1>5. BatchIsFresh'
    BY <1>1 DEF IInv, BatchIsFresh, DrawnFirst, RowFound
  <1>6. SecretIsChecked'
    BY <1>1 DEF IInv, SecretIsChecked, Confirming, InForce, RowFound
  <1>7. OneWriter'
    BY <1>1 DEF IInv, OneWriter, Spending, BatchIsFresh, RowFound
  <1>8. CodesAreShown'
    BY <1>1 DEF IInv, CodesAreShown, OneWriter, Confirming, Answering, Spending, InForce, RowFound
  <1>9. QED
    BY <1>2, <1>3, <1>4, <1>5, <1>6, <1>7, <1>8 DEF IInv

\* A confirmation puts in force the secret that is there.
LEMMA EnableKeeps ==
    ASSUME IInv, NEW r \in Req, Enable(r)
    PROVE  IInv'
  <1>1. /\ req' \in [Req -> Request]
        /\ \A q \in Req \ {r} : req'[q] = req[q]
        /\ req'[r].pc = "answer" /\ req[r].pc = "enable"
        /\ req'[r].batch = req[r].batch /\ req'[r].read = req[r].read
        /\ row' \in Row /\ row'.secret = row.secret /\ row'.state = "enabled"
        /\ row'.codes = row.codes /\ row \in Row
        /\ UNCHANGED <<drawn, confirmed, shown, cut, spent, raced>>
    BY EnableEffect DEF Enable, history, IInv
  <1>2. TypeOK'
    BY <1>1 DEF IInv, TypeOK
  <1>3. RowFound'
    BY <1>1 DEF IInv, RowFound
  <1>4. DrawnFirst'
    BY <1>1, ConstantsAssumption DEF IInv, DrawnFirst, RowFound
  <1>5. BatchIsFresh'
    BY <1>1 DEF IInv, BatchIsFresh, DrawnFirst, RowFound
  <1>6. SecretIsChecked'
    BY <1>1 DEF IInv, SecretIsChecked, Confirming, InForce, RowFound
  <1>7. OneWriter'
    BY <1>1, ConstantsAssumption DEF IInv, OneWriter, Spending, BatchIsFresh, RowFound
  <1>8. CodesAreShown'
    <2>1. SUFFICES ASSUME raced = {} PROVE CodesAreShown'
      BY <1>1 DEF CodesAreShown
    <2>2. r \in Confirming /\ row.state = "pending" /\ row.codes = req[r].batch
      BY <1>1, <2>1 DEF IInv, CodesAreShown, Confirming
    <2>3. Answering = {} /\ cut = {} /\ Spending = {}
      BY <2>1, <2>2 DEF IInv, CodesAreShown, InForce
    <2>4. row.codes \cap spent = {}
      BY <1>1, <2>1, ConstantsAssumption DEF IInv, OneWriter
    <2>5. Confirming' = {} /\ Spending' = {} /\ Answering' = {r}
      BY <1>1, <2>1, <2>2, <2>3
         DEF IInv, CodesAreShown, Confirming, Answering, Spending
    <2>6. InForce(row)' /\ row'.codes = req'[r].batch \ spent
      BY <1>1, <2>2, <2>4, ConstantsAssumption DEF InForce
    <2>7. \A q \in Req : req'[q].pc # "enable"
      BY <2>5 DEF Confirming
    <2>8. QED
      BY <1>1, <2>3, <2>5, <2>6, <2>7 DEF CodesAreShown
  <1>9. QED
    BY <1>2, <1>3, <1>4, <1>5, <1>6, <1>7, <1>8 DEF IInv

\* The answer shows the codes that are in force.
LEMMA ShowKeeps ==
    ASSUME IInv, NEW r \in Req, Show(r)
    PROVE  IInv'
  <1>1. /\ req' \in [Req -> Request]
        /\ \A q \in Req \ {r} : req'[q] = req[q]
        /\ req'[r] = Idle /\ req[r].pc = "answer"
        /\ UNCHANGED <<row, drawn, confirmed, cut, spent, raced>>
        /\ shown' = req[r].batch
    BY FinishEffect DEF Show, IInv
  <1>2. TypeOK'
    BY <1>1, IdleRequest DEF IInv, TypeOK, Overlap, Row, Request
  <1>3. RowFound'
    BY <1>1, IdleRequest DEF IInv, RowFound
  <1>4. DrawnFirst'
    BY <1>1, IdleRequest DEF IInv, DrawnFirst, RowFound
  <1>5. BatchIsFresh'
    BY <1>1, IdleRequest DEF IInv, BatchIsFresh, DrawnFirst, RowFound
  <1>6. SecretIsChecked'
    BY <1>1, IdleRequest DEF IInv, SecretIsChecked, Confirming, InForce, RowFound
  <1>7. OneWriter'
    BY <1>1, IdleRequest DEF IInv, OneWriter, Spending, BatchIsFresh, RowFound
  <1>8. CodesAreShown'
    BY <1>1, IdleRequest DEF IInv, CodesAreShown, Confirming, Answering, Spending, InForce
  <1>9. QED
    BY <1>2, <1>3, <1>4, <1>5, <1>6, <1>7, <1>8 DEF IInv

\* A login reads the codes of a row in force.
LEMMA ChallengeKeeps ==
    ASSUME IInv, NEW r \in Req, NEW c \in Code, Challenge(r, c)
    PROVE  IInv'
  <1>1. /\ req' \in [Req -> Request]
        /\ \A q \in Req \ {r} : req'[q] = req[q]
        /\ req'[r].pc = "saveRest" /\ req'[r].read = row.codes /\ req'[r].code = c
        /\ req'[r].batch = {}
        /\ req[r].pc = "done" /\ row # None /\ row \in Row /\ row.state = "enabled"
        /\ c \in row.codes
        /\ UNCHANGED <<row, drawn, confirmed, shown, cut, spent>>
        /\ raced' = raced \cup {x \in {"codes"} : Spending # {}}
    <2>1. row \in Row /\ row # None
      BY DEF Challenge, InForce, IInv, TypeOK
    <2>2. row.codes \in SUBSET Code
      BY <2>1 DEF Row
    <2>3. [pc |-> "saveRest", read |-> row.codes, code |-> c, batch |-> {}] \in Request
      BY <2>2 DEF Request
    <2>4. QED
      BY <2>1, <2>3 DEF Challenge, InForce, Start, IInv, TypeOK
  <1>2. TypeOK'
    BY <1>1 DEF IInv, TypeOK, Overlap, Row, Request
  <1>3. RowFound'
    BY <1>1 DEF IInv, RowFound
  <1>4. DrawnFirst'
    BY <1>1 DEF IInv, DrawnFirst, RowFound
  <1>5. BatchIsFresh'
    BY <1>1 DEF IInv, BatchIsFresh, DrawnFirst, RowFound
  <1>6. SecretIsChecked'
    BY <1>1 DEF IInv, SecretIsChecked, Confirming, InForce, RowFound
  <1>7. OneWriter'
    BY <1>1 DEF IInv, OneWriter, Spending, BatchIsFresh, RowFound
  <1>8. CodesAreShown'
    BY <1>1 DEF IInv, CodesAreShown, OneWriter, Confirming, Answering, Spending, InForce, RowFound
  <1>9. QED
    BY <1>2, <1>3, <1>4, <1>5, <1>6, <1>7, <1>8 DEF IInv

\* A login writes back the codes it read, less the one it spends.
LEMMA SaveRestKeeps ==
    ASSUME IInv, NEW r \in Req, SaveRest(r)
    PROVE  IInv'
  <1>1. /\ req' \in [Req -> Request]
        /\ \A q \in Req \ {r} : req'[q] = req[q]
        /\ req'[r] = Idle /\ req[r].pc = "saveRest"
        /\ row' \in Row /\ row'.secret = row.secret /\ row'.state = row.state
        /\ row'.codes = req[r].read \ {req[r].code} /\ row \in Row
        /\ req[r].code \in req[r].read /\ req[r].read \subseteq Code
        /\ UNCHANGED <<drawn, confirmed, shown, cut, raced>>
        /\ spent' = spent \cup {req[r].code}
    BY FinishEffect, SaveRestEffect DEF SaveRest, IInv
  <1>2. TypeOK'
    BY <1>1, IdleRequest DEF IInv, TypeOK, Overlap, Row, Request
  <1>3. RowFound'
    BY <1>1, IdleRequest DEF IInv, RowFound
  <1>4. DrawnFirst'
    BY <1>1, IdleRequest DEF IInv, DrawnFirst, RowFound
  <1>5. BatchIsFresh'
    BY <1>1, IdleRequest DEF IInv, BatchIsFresh, DrawnFirst, RowFound
  <1>6. SecretIsChecked'
    BY <1>1, IdleRequest, ConstantsAssumption
       DEF IInv, SecretIsChecked, Confirming, InForce, RowFound
  <1>7. OneWriter'
    BY <1>1, IdleRequest, ConstantsAssumption
       DEF IInv, OneWriter, Spending, BatchIsFresh, RowFound
  <1>8. CodesAreShown'
    BY <1>1, IdleRequest, ConstantsAssumption
       DEF IInv, CodesAreShown, OneWriter, Confirming, Answering, Spending, InForce, RowFound
  <1>9. QED
    BY <1>2, <1>3, <1>4, <1>5, <1>6, <1>7, <1>8 DEF IInv

\* A request that stops leaves the row as it is.
LEMMA AbortKeeps ==
    ASSUME IInv, NEW r \in Req, Abort(r)
    PROVE  IInv'
  <1>1. /\ req' \in [Req -> Request]
        /\ \A q \in Req \ {r} : req'[q] = req[q]
        /\ req'[r] = Idle
        /\ cut' = IF req[r].pc = "answer" THEN req[r].batch ELSE cut
        /\ UNCHANGED <<row, drawn, confirmed, shown, spent, raced>>
    BY FinishEffect DEF Abort, Stop, IInv
  <1>2. TypeOK'
    BY <1>1, IdleRequest DEF IInv, TypeOK, Overlap, Row, Request
  <1>3. RowFound'
    BY <1>1, IdleRequest DEF IInv, RowFound
  <1>4. DrawnFirst'
    BY <1>1, IdleRequest DEF IInv, DrawnFirst, RowFound
  <1>5. BatchIsFresh'
    BY <1>1, IdleRequest DEF IInv, BatchIsFresh, DrawnFirst, RowFound
  <1>6. SecretIsChecked'
    BY <1>1, IdleRequest DEF IInv, SecretIsChecked, Confirming, InForce, RowFound
  <1>7. OneWriter'
    BY <1>1, IdleRequest DEF IInv, OneWriter, Spending, BatchIsFresh, RowFound
  <1>8. CodesAreShown'
    BY <1>1, IdleRequest
       DEF IInv, CodesAreShown, OneWriter, Confirming, Answering, Spending, InForce, RowFound
  <1>9. QED
    BY <1>2, <1>3, <1>4, <1>5, <1>6, <1>7, <1>8 DEF IInv

----------------------------------------------------------------------------
(* The theorems *)

\* There is no row and no request runs in the initial state.
LEMMA InitIInv == Init => IInv
  <1>1. SUFFICES ASSUME Init PROVE IInv
    OBVIOUS
  <1>2. \A r \in Req : req[r] = Idle /\ req[r].pc = "done" /\ req[r].batch = {}
                          /\ req[r].read = {}
    BY <1>1, IdleRequest DEF Init
  <1>3. TypeOK
    BY <1>1, IdleRequest DEF Init, TypeOK
  <1>4. RowFound /\ DrawnFirst /\ BatchIsFresh
    BY <1>1, <1>2 DEF Init, RowFound, DrawnFirst, BatchIsFresh
  <1>5. Confirming = {} /\ Answering = {} /\ Spending = {}
    BY <1>2 DEF Confirming, Answering, Spending
  <1>6. SecretIsChecked /\ OneWriter /\ CodesAreShown
    BY <1>1, <1>2, <1>5 DEF Init, SecretIsChecked, OneWriter, CodesAreShown, InForce
  <1>7. QED
    BY <1>3, <1>4, <1>6 DEF IInv

\* Every step keeps the invariant, one lemma per action.
LEMMA NextIInv == IInv /\ [Next]_vars => IInv'
  <1>1. SUFFICES ASSUME IInv, [Next]_vars PROVE IInv'
    OBVIOUS
  <1>2. ASSUME UNCHANGED vars
        PROVE  IInv'
    BY <1>1, <1>2 DEF vars, history, IInv, TypeOK, RowFound, DrawnFirst, BatchIsFresh,
                      SecretIsChecked, OneWriter, CodesAreShown, Confirming, Answering,
                      Spending, InForce
  <1>3. ASSUME NEW r \in Req, Serve(r)
        PROVE  IInv'
    BY <1>1, <1>3, ConfirmKeeps, SaveBatchKeeps, EnableKeeps, ShowKeeps,
       ChallengeKeeps, SaveRestKeeps, AbortKeeps DEF Serve
  <1>4. QED
    BY <1>1, <1>2, <1>3, SetupKeeps DEF Next

\* The invariant holds in every reachable state.
THEOREM Invariance == Spec => []IInv
  BY InitIInv, NextIInv, PTL DEF Spec

\* Type correctness.
THEOREM TypeCorrect == Spec => []TypeOK
  <1>1. IInv => TypeOK
    BY DEF IInv
  <1>2. QED
    BY <1>1, Invariance, PTL

\* The invariant gives the three properties of the second factor.
LEMMA IInvImplies == IInv => EnabledIsConfirmed /\ ShownCodesWork /\ SpentIsGone
  <1>1. SUFFICES ASSUME IInv PROVE ShownCodesWork
    BY DEF IInv, SecretIsChecked, OneWriter, EnabledIsConfirmed, SpentIsGone, InForce
  <1>2. SUFFICES ASSUME InForce(row), raced = {}
                 PROVE  row.codes = (IF Unseen = {} THEN shown ELSE Unseen) \ spent
    BY DEF ShownCodesWork
  <1>3. CASE Answering = {}
    <2>1. Unseen = cut
      BY <1>3 DEF Unseen
    <2>2. QED
      BY <1>1, <1>2, <1>3, <2>1 DEF IInv, CodesAreShown
  <1>4. ASSUME NEW r \in Answering
        PROVE  row.codes = (IF Unseen = {} THEN shown ELSE Unseen) \ spent
    <2>1. cut = {} /\ row.codes = req[r].batch \ spent /\ \A q \in Answering : q = r
      BY <1>1, <1>2 DEF IInv, CodesAreShown
    <2>2. {req[q].batch : q \in Answering} = {req[r].batch}
      BY <2>1
    <2>3. Unseen = req[r].batch
      BY <2>1, <2>2 DEF Unseen
    <2>4. req[r].batch # {}
      BY <1>1 DEF Answering, IInv, RowFound
    <2>5. QED
      BY <2>1, <2>3, <2>4
  <1>5. QED
    BY <1>3, <1>4

\* However setups and confirmations follow one another, only an overlap puts a secret in
\* force that its user has not confirmed.
THEOREM SecretConfirmed == Spec => []EnabledIsConfirmed
  BY IInvImplies, Invariance, PTL

\* Without an overlap, the recovery codes in force are those of the last answer, less those
\* spent; between the UPDATE of a confirmation and its answer, and after a hang-up there,
\* they are those of that confirmation, which nobody has seen.
THEOREM CodesShown == Spec => []ShownCodesWork
  BY IInvImplies, Invariance, PTL

\* A spent recovery code is not in force again, unless two writers overlapped.
THEOREM CodesGone == Spec => []SpentIsGone
  BY IInvImplies, Invariance, PTL

----------------------------------------------------------------------------
(* The login: the inductive invariant *)

LoginTypes ==
    /\ now \in Nat
    /\ password \in Password
    /\ deletedAt \in Nat \cup {None}
    /\ pending \subseteq PendingToken
    /\ login \in [Req -> LoginRequest \cup {None}]
    /\ replaced \in [Password -> Nat \cup {None}]

\* A password that matched at some moment was replaced since, or still is the password.
WasCurrent(p) == p = password \/ replaced[p] \in Nat

\* What a login rests on.  Until is_enabled has answered it rests on the password alone.
LoginGrounded(x) ==
    /\ x.on.asked <= now /\ x.on.found <= now
    /\ WasCurrent(x.on.pw)
    /\ deletedAt # None => x.on.found <= deletedAt
    /\ \/ x.on.pw = password
       \/ "late" \in x.on.marks
       \/ /\ x.pc # "isEnabled"
          /\ x.on.asked <= replaced[x.on.pw] + PendingTtl + Leeway

LoginsGrounded == \A r \in Req : login[r] # None => LoginGrounded(login[r])

\* A pending token dies PendingTtl after the password it stands for, unless it was
\* signed too late for that.
TokensGrounded ==
    \A t \in pending :
        /\ t.exp <= now + PendingTtl
        /\ WasCurrent(t.pw)
        /\ t.pw = password \/ t.late \/ t.exp <= replaced[t.pw] + PendingTtl

\* A login without a challenge has met the second factor off, or will meet it on.
FactorAsked ==
    \A r \in Req : login[r] # None =>
        IF login[r].on.secret = None
        THEN \/ "off" \in login[r].on.marks
             \/ login[r].pc = "isEnabled" /\ InForce(row)
        ELSE login[r].on.secret \in confirmed \/ "setup" \in raced

LoginIInv == IInv /\ LoginTypes /\ LoginsGrounded /\ TokensGrounded /\ FactorAsked

----------------------------------------------------------------------------
(* Every step is a step of the second factor or leaves it alone *)

\* HangUp ends a request of the second factor, if there is one.
LEMMA HangUpIsAbort ==
    ASSUME IInv, NEW r \in Req, HangUp(r)
    PROVE  Abort(r) \/ UNCHANGED vars
  <1>1. CASE req[r].pc # "done"
    BY <1>1 DEF HangUp, Abort
  <1>2. CASE req[r].pc = "done"
    <2>1. req[r] = Idle
      BY <1>2 DEF IInv, RowFound
    <2>2. req' = req
      BY <2>1 DEF HangUp, Stop, Finish, IInv, TypeOK
    <2>3. QED
      BY <1>2, <2>2 DEF HangUp, Stop, vars, history
  <1>3. QED
    BY <1>1, <1>2

LEMMA StepIsFactorStep == IInv /\ [LoginNext]_loginVars => [Next]_vars
  <1>1. SUFFICES ASSUME IInv, [LoginNext]_loginVars PROVE [Next]_vars
    OBVIOUS
  <1>2. ASSUME NEW r \in Req, LogIn(r)
        PROVE  [Next]_vars
    <2>1. CASE \/ \E p \in Password : MatchPassword(r, p)
               \/ Defer(r) \/ Skip(r) \/ RequireUser(r) \/ OpenSession(r)
               \/ \E t \in pending : PresentTotp(r, t)
      BY <2>1 DEF MatchPassword, Defer, Skip, RequireUser, OpenSession, PresentTotp,
                  factor, vars
    <2>2. CASE \E t \in pending, c \in Code : PresentCode(r, t, c)
      BY <2>2 DEF PresentCode, Next, Serve
    <2>3. CASE SpendCode(r)
      BY <2>3 DEF SpendCode, Next, Serve
    <2>4. CASE ConfirmSetup(r)
      BY <2>4 DEF ConfirmSetup, Next, Serve
    <2>5. CASE HangUp(r)
      BY <1>1, <2>5, HangUpIsAbort DEF Next, Serve
    <2>6. QED
      BY <1>2, <2>1, <2>2, <2>3, <2>4, <2>5 DEF LogIn
  <1>3. ASSUME NEW k \in Secret, SetupAgain(k)
        PROVE  [Next]_vars
    BY <1>3 DEF SetupAgain, Next
  <1>4. ASSUME \/ \E p \in Password : ReplacePassword(p)
               \/ Delete \/ Tick \/ UNCHANGED loginVars
        PROVE  [Next]_vars
    BY <1>4 DEF ReplacePassword, Delete, Tick, loginVars, factor, vars
  <1>5. QED
    BY <1>1, <1>2, <1>3, <1>4 DEF LoginNext

\* A login is a client of the second factor: it implements the specification of Mfa.
THEOREM LoginImplementsMfa == LoginSpec => Spec
  <1>1. LoginInit => Init
    BY DEF LoginInit
  <1>2. IInv /\ [LoginNext]_loginVars => IInv'
    BY StepIsFactorStep, NextIInv
  <1>3. QED
    BY <1>1, <1>2, InitIInv, StepIsFactorStep, PTL DEF LoginSpec, Spec

----------------------------------------------------------------------------
(* The slots of the logins *)

\* A login that is answered.
LEMMA AnswerEffect ==
    ASSUME LoginTypes, NEW r \in Req, Answer(r)
    PROVE  /\ login' \in [Req -> LoginRequest \cup {None}]
           /\ \A q \in Req \ {r} : login'[q] = login[q]
           /\ login'[r] = None
  BY DEF Answer, LoginTypes

\* The grounds of a running login.
LEMMA GroundsType ==
    ASSUME LoginTypes, LoginAssumption, NEW r \in Req, login[r] # None
    PROVE  /\ login[r] \in LoginRequest
           /\ login[r].on \in Grounds
           /\ login[r].on.pw \in Password /\ login[r].on.asked \in Nat
           /\ login[r].on.found \in Nat /\ login[r].on.marks \in SUBSET Mark
  BY DEF LoginTypes, LoginRequest, Grounds

\* A login that goes on with the grounds x.
LEMMA EnterEffect ==
    ASSUME LoginTypes, NEW r \in Req, NEW pc \in LoginPc, NEW x \in Grounds,
           login' = [login EXCEPT ![r] = [pc |-> pc, on |-> x]]
    PROVE  /\ login' \in [Req -> LoginRequest \cup {None}]
           /\ \A q \in Req \ {r} : login'[q] = login[q]
           /\ login'[r].pc = pc /\ login'[r].on = x
  BY DEF LoginTypes, LoginRequest

\* A login that gets a mark keeps everything else.
LEMMA MarkEffect ==
    ASSUME NEW x \in LoginRequest, NEW m \in Mark
    PROVE  LET y == [x EXCEPT !.on.marks = @ \cup {m}]
           IN  /\ y \in LoginRequest /\ y.pc = x.pc
               /\ y.on.pw = x.on.pw /\ y.on.secret = x.on.secret
               /\ y.on.asked = x.on.asked /\ y.on.found = x.on.found
               /\ y.on.marks = x.on.marks \cup {m}
  BY DEF LoginRequest, Grounds, Mark

\* A step that marks the logins of R.
LEMMA MarkedEffect ==
    ASSUME LoginTypes, NEW m \in Mark, NEW R \in SUBSET Req,
           \A r \in R : login[r] # None, login' = Marked(m, R)
    PROVE  /\ login' \in [Req -> LoginRequest \cup {None}]
           /\ \A r \in Req : login'[r] # None => login[r] # None
           /\ \A r \in Req \ R : login'[r] = login[r]
           /\ \A r \in R :
                 /\ login'[r].pc = login[r].pc
                 /\ login'[r].on.pw = login[r].on.pw
                 /\ login'[r].on.secret = login[r].on.secret
                 /\ login'[r].on.asked = login[r].on.asked
                 /\ login'[r].on.found = login[r].on.found
                 /\ login'[r].on.marks = login[r].on.marks \cup {m}
  <1>1. \A r \in R : login[r] \in LoginRequest
    BY DEF LoginTypes
  <1>2. \A r \in R : login'[r] = [login[r] EXCEPT !.on.marks = @ \cup {m}]
    BY DEF Marked
  <1>3. \A r \in Req \ R : login'[r] = login[r]
    BY DEF Marked
  <1>4. \A r \in R :
           /\ login'[r] \in LoginRequest
           /\ login'[r].pc = login[r].pc
           /\ login'[r].on.pw = login[r].on.pw
           /\ login'[r].on.secret = login[r].on.secret
           /\ login'[r].on.asked = login[r].on.asked
           /\ login'[r].on.found = login[r].on.found
           /\ login'[r].on.marks = login[r].on.marks \cup {m}
    <2>1. SUFFICES ASSUME NEW r \in R
                   PROVE  /\ login'[r] \in LoginRequest
                          /\ login'[r].pc = login[r].pc
                          /\ login'[r].on.pw = login[r].on.pw
                          /\ login'[r].on.secret = login[r].on.secret
                          /\ login'[r].on.asked = login[r].on.asked
                          /\ login'[r].on.found = login[r].on.found
                          /\ login'[r].on.marks = login[r].on.marks \cup {m}
      OBVIOUS
    <2>2. PICK x \in LoginRequest : x = login[r]
      BY <1>1
    <2>3. login'[r] = [x EXCEPT !.on.marks = @ \cup {m}]
      BY <1>2, <2>2
    <2>4. QED
      BY <2>2, <2>3, MarkEffect
  <1>5. login' \in [Req -> LoginRequest \cup {None}]
    BY <1>3, <1>4 DEF LoginTypes, Marked
  <1>6. QED
    BY <1>1, <1>3, <1>4, <1>5

----------------------------------------------------------------------------
(* The second factor as a login sees it *)

\* What a login has learnt of the second factor stays so, and only a setup turns the
\* second factor off.
LEMMA FactorLasts ==
    ASSUME IInv, NEW r \in Req, Serve(r)
    PROVE  /\ confirmed \subseteq confirmed' /\ raced \subseteq raced'
           /\ InForce(row) => InForce(row)'
  <1>1. confirmed \subseteq confirmed' /\ raced \subseteq raced'
    BY DEF Serve, Confirm, SaveBatch, Enable, Show, Challenge, SaveRest, Abort,
           Stop, history
  <1>2. CASE SaveBatch(r)
    BY <1>1, <1>2, SaveBatchEffect, ConstantsAssumption DEF IInv, InForce
  <1>3. CASE Enable(r)
    BY <1>1, <1>3, EnableEffect, ConstantsAssumption DEF IInv, InForce
  <1>4. CASE SaveRest(r)
    BY <1>1, <1>4, SaveRestEffect, ConstantsAssumption DEF IInv, InForce
  <1>5. CASE \/ \E batch \in SUBSET Code : Confirm(r, batch)
             \/ \E c \in Code : Challenge(r, c)
             \/ Show(r) \/ Abort(r)
    BY <1>1, <1>5 DEF Confirm, Show, Challenge, Abort, Stop, InForce
  <1>6. QED
    BY <1>2, <1>3, <1>4, <1>5 DEF Serve

----------------------------------------------------------------------------
(* Steps of one login *)

\* Of a step of one login that leaves the account alone, only its own grounds matter.
LEMMA OwnGrounds ==
    ASSUME LoginIInv, NEW r \in Req, UNCHANGED account,
           \A q \in Req \ {r} : login'[q] = login[q],
           login'[r] # None => LoginGrounded(login[r])'
    PROVE  LoginsGrounded'
  <1>1. ASSUME NEW q \in Req \ {r}, login'[q] # None
        PROVE  LoginGrounded(login[q])'
    <2>1. LoginGrounded(login[q])
      BY <1>1 DEF LoginIInv, LoginsGrounded
    <2>2. QED
      BY <1>1, <2>1 DEF LoginGrounded, WasCurrent, account
  <1>2. QED
    BY <1>1 DEF LoginsGrounded

\* Of a step of one login that leaves a setup alone, only its own challenge matters.
LEMMA OwnFactor ==
    ASSUME LoginIInv, NEW r \in Req,
           \A q \in Req \ {r} : login'[q] = login[q],
           confirmed \subseteq confirmed', raced \subseteq raced',
           InForce(row) => InForce(row)',
           login'[r] # None =>
               IF login'[r].on.secret = None
               THEN \/ "off" \in login'[r].on.marks
                    \/ login'[r].pc = "isEnabled" /\ InForce(row)'
               ELSE login'[r].on.secret \in confirmed' \/ "setup" \in raced'
    PROVE  FactorAsked'
  BY DEF LoginIInv, FactorAsked

\* The password matches.
LEMMA MatchPasswordKeeps ==
    ASSUME LoginIInv, IInv', NEW r \in Req, NEW p \in Password, MatchPassword(r, p)
    PROVE  LoginIInv'
  <1>1. PICK on \in Grounds :
          /\ login' = [login EXCEPT ![r] = [pc |-> "isEnabled", on |-> on]]
          /\ on.pw = p /\ on.secret = None /\ on.asked = now /\ on.found = now
          /\ on.marks = {m \in {"off"} : ~InForce(row)}
    <2>1. LET on == [pw |-> p, secret |-> None, asked |-> now, found |-> now,
                     marks |-> {m \in {"off"} : ~InForce(row)}]
          IN  on \in Grounds
      BY DEF LoginIInv, LoginTypes, Grounds, Mark
    <2>2. QED
      BY <2>1 DEF MatchPassword, Enter
  <1>2. /\ login' \in [Req -> LoginRequest \cup {None}]
        /\ \A q \in Req \ {r} : login'[q] = login[q]
        /\ login'[r].pc = "isEnabled" /\ login'[r].on = on
    BY <1>1, EnterEffect DEF LoginIInv, LoginPc
  <1>3. /\ UNCHANGED <<now, password, deletedAt, replaced, pending>>
        /\ UNCHANGED <<row, confirmed, raced>>
        /\ deletedAt = None /\ p = password
    BY DEF MatchPassword, account, factor, history
  <1>4. LoginsGrounded'
    <2>1. now \in Nat
      BY DEF LoginIInv, LoginTypes
    <2>2. LoginGrounded(login[r])'
      BY <1>1, <1>2, <1>3, <2>1 DEF LoginGrounded, WasCurrent
    <2>3. QED
      BY <1>2, <1>3, <2>2, OwnGrounds DEF account
  <1>5. FactorAsked'
    BY <1>1, <1>2, <1>3, OwnFactor DEF InForce
  <1>6. LoginTypes' /\ TokensGrounded'
    BY <1>2, <1>3 DEF LoginIInv, LoginTypes, TokensGrounded, WasCurrent
  <1>7. QED
    BY <1>4, <1>5, <1>6 DEF LoginIInv

\* The pending token is signed.
LEMMA DeferKeeps ==
    ASSUME LoginIInv, IInv', LoginAssumption, NEW r \in Req, Defer(r)
    PROVE  LoginIInv'
  <1>1. /\ login' \in [Req -> LoginRequest \cup {None}]
        /\ \A q \in Req \ {r} : login'[q] = login[q]
        /\ login'[r] = None
    BY AnswerEffect DEF Defer, LoginIInv
  <1>2. /\ UNCHANGED <<now, password, deletedAt, replaced>>
        /\ UNCHANGED <<row, confirmed, raced>>
        /\ login[r] # None /\ login[r].pc = "isEnabled"
    BY DEF Defer, At, account, factor, history
  <1>3. PICK t \in PendingToken :
          /\ pending' = pending \cup {t}
          /\ t.pw = login[r].on.pw /\ t.exp = now + PendingTtl
          /\ "late" \in login[r].on.marks => t.late
    <2>1. login[r].on.pw \in Password
      BY <1>2, GroundsType DEF LoginIInv
    <2>2. [pw |-> login[r].on.pw, exp |-> now + PendingTtl,
           late |-> "late" \in login[r].on.marks] \in PendingToken
      BY <2>1 DEF PendingToken, LoginIInv, LoginTypes, LoginAssumption
    <2>3. QED
      BY <2>2 DEF Defer
  <1>4. TokensGrounded'
    <2>1. LoginGrounded(login[r])
      BY <1>2 DEF LoginIInv, LoginsGrounded
    <2>2. WasCurrent(t.pw) /\ (t.pw = password \/ t.late)
      BY <1>2, <1>3, <2>1 DEF LoginGrounded
    <2>3. t.exp <= now + PendingTtl
      BY <1>3, LoginAssumption DEF LoginIInv, LoginTypes
    <2>4. QED
      BY <1>2, <1>3, <2>2, <2>3 DEF LoginIInv, TokensGrounded, WasCurrent
  <1>5. LoginsGrounded'
    BY <1>1, <1>2, OwnGrounds DEF account
  <1>6. FactorAsked'
    BY <1>1, <1>2, OwnFactor DEF InForce
  <1>7. LoginTypes'
    BY <1>1, <1>2, <1>3 DEF LoginIInv, LoginTypes
  <1>8. QED
    BY <1>4, <1>5, <1>6, <1>7 DEF LoginIInv

\* A login that goes on with the grounds it has.
LEMMA GoOnKeeps ==
    ASSUME LoginIInv, IInv', NEW r \in Req, NEW pc \in LoginPc, pc # "isEnabled",
           login[r] # None, Enter(r, pc, login[r].on),
           UNCHANGED <<account, pending>>,
           confirmed \subseteq confirmed', raced \subseteq raced',
           InForce(row) => InForce(row)',
           login[r].pc = "isEnabled" => ~InForce(row)
    PROVE  LoginIInv'
  <1>1. /\ login' \in [Req -> LoginRequest \cup {None}]
        /\ \A q \in Req \ {r} : login'[q] = login[q]
        /\ login'[r].pc = pc /\ login'[r].on = login[r].on
    <2>1. PICK on \in Grounds : on = login[r].on
      BY GroundsType, LoginAssumption DEF LoginIInv
    <2>2. login' = [login EXCEPT ![r] = [pc |-> pc, on |-> on]]
      BY <2>1 DEF Enter
    <2>3. QED
      BY <2>1, <2>2, EnterEffect DEF LoginIInv
  <1>2. UNCHANGED <<now, password, deletedAt, replaced, pending>>
    BY DEF account
  <1>3. LoginGrounded(login[r])
    BY DEF LoginIInv, LoginsGrounded
  <1>4. LoginsGrounded'
    <2>1. LoginGrounded(login[r])'
      BY <1>1, <1>2, <1>3, GroundsType, LoginAssumption
         DEF LoginGrounded, WasCurrent, LoginIInv, LoginTypes
    <2>2. QED
      BY <1>1, <2>1, OwnGrounds
  <1>5. FactorAsked'
    BY <1>1, OwnFactor DEF LoginIInv, FactorAsked
  <1>6. LoginTypes' /\ TokensGrounded'
    BY <1>1, <1>2 DEF LoginIInv, LoginTypes, TokensGrounded, WasCurrent
  <1>7. QED
    BY <1>4, <1>5, <1>6 DEF LoginIInv

\* A pending token is presented and its challenge passed, or a recovery code found.
LEMMA PresentKeeps ==
    ASSUME LoginIInv, IInv', NEW r \in Req, NEW pc \in LoginPc \ {"isEnabled"},
           NEW t \in pending, Accepted(t), InForce(row), Enter(r, pc, GroundsOf(t)),
           UNCHANGED <<account, pending, row>>,
           confirmed \subseteq confirmed', raced \subseteq raced'
    PROVE  LoginIInv'
  <1>1. t \in PendingToken /\ t.pw \in Password /\ t.exp \in Nat /\ now \in Nat
    BY DEF LoginIInv, LoginTypes, PendingToken
  <1>2. row \in Row /\ row.secret \in Secret
    BY DEF LoginIInv, IInv, TypeOK, InForce, Row
  <1>3. PICK on \in Grounds :
          /\ login' = [login EXCEPT ![r] = [pc |-> pc, on |-> on]]
          /\ on.pw = t.pw /\ on.secret = row.secret /\ on.asked = now /\ on.found = 0
          /\ t.late => "late" \in on.marks
    <2>1. GroundsOf(t) \in Grounds
      BY <1>1, <1>2 DEF GroundsOf, Grounds, Mark
    <2>2. /\ GroundsOf(t).pw = t.pw /\ GroundsOf(t).secret = row.secret
          /\ GroundsOf(t).asked = now /\ GroundsOf(t).found = 0
          /\ t.late => "late" \in GroundsOf(t).marks
      BY DEF GroundsOf
    <2>3. login' = [login EXCEPT ![r] = [pc |-> pc, on |-> GroundsOf(t)]]
      BY DEF Enter
    <2>4. QED
      BY <2>1, <2>2, <2>3
  <1>4. /\ login' \in [Req -> LoginRequest \cup {None}]
        /\ \A q \in Req \ {r} : login'[q] = login[q]
        /\ login'[r].pc = pc /\ login'[r].on = on
    BY <1>3, EnterEffect DEF LoginIInv
  <1>5. UNCHANGED <<now, password, deletedAt, replaced, pending>>
    BY DEF account
  <1>6. LoginsGrounded'
    <2>1. /\ WasCurrent(t.pw)
          /\ t.pw = password \/ t.late \/ t.exp <= replaced[t.pw] + PendingTtl
      BY DEF LoginIInv, TokensGrounded
    <2>2. now <= t.exp + Leeway
      BY DEF Accepted
    <2>3. \/ t.pw = password \/ t.late
          \/ replaced[t.pw] \in Nat /\ t.exp <= replaced[t.pw] + PendingTtl
      BY <2>1 DEF WasCurrent
    <2>4. \/ t.pw = password \/ t.late
          \/ now <= replaced[t.pw] + PendingTtl + Leeway
      BY <1>1, <2>2, <2>3, LoginAssumption
    <2>5. deletedAt # None => 0 <= deletedAt
      BY DEF LoginIInv, LoginTypes
    <2>6. LoginGrounded(login[r])'
      <3>1. now <= now /\ 0 <= now
        BY <1>1
      <3>2. QED
        BY <1>3, <1>4, <1>5, <2>1, <2>4, <2>5, <3>1 DEF LoginGrounded, WasCurrent
    <2>7. QED
      BY <1>4, <2>6, OwnGrounds
  <1>7. FactorAsked'
    <2>1. on.secret # None
      BY <1>2, <1>3, ConstantsAssumption
    <2>2. row.secret \in confirmed \/ "setup" \in raced
      BY DEF LoginIInv, IInv, SecretIsChecked
    <2>3. QED
      BY <1>3, <1>4, <2>1, <2>2, OwnFactor DEF InForce
  <1>8. LoginTypes' /\ TokensGrounded'
    BY <1>4, <1>5 DEF LoginIInv, LoginTypes, TokensGrounded, WasCurrent
  <1>9. QED
    BY <1>6, <1>7, <1>8 DEF LoginIInv

\* The user is looked up, and found.
LEMMA FoundKeeps ==
    ASSUME LoginIInv, IInv', LoginAssumption, NEW r \in Req, RequireUser(r),
           deletedAt = None
    PROVE  LoginIInv'
  <1>1. login[r] # None /\ login[r].pc = "requireUser"
    BY DEF RequireUser, At
  <1>2. now \in Nat
    BY DEF LoginIInv, LoginTypes
  <1>3. PICK on \in Grounds :
          /\ login' = [login EXCEPT ![r] = [pc |-> "openSession", on |-> on]]
          /\ on.pw = login[r].on.pw /\ on.secret = login[r].on.secret
          /\ on.asked = login[r].on.asked /\ on.found = now
          /\ on.marks = login[r].on.marks
    <2>1. PICK old \in Grounds : old = login[r].on
      BY <1>1, GroundsType DEF LoginIInv
    <2>2. LET on == [old EXCEPT !.found = now]
          IN  /\ on \in Grounds
              /\ on.pw = old.pw /\ on.secret = old.secret
              /\ on.asked = old.asked /\ on.found = now /\ on.marks = old.marks
      BY <1>2 DEF Grounds
    <2>3. login' = [login EXCEPT ![r] =
                      [pc |-> "openSession", on |-> [old EXCEPT !.found = now]]]
      BY <2>1 DEF RequireUser, MayOpen, Enter
    <2>4. QED
      BY <2>1, <2>2, <2>3
  <1>4. /\ login' \in [Req -> LoginRequest \cup {None}]
        /\ \A q \in Req \ {r} : login'[q] = login[q]
        /\ login'[r].pc = "openSession" /\ login'[r].on = on
    BY <1>3, EnterEffect DEF LoginIInv, LoginPc
  <1>5. /\ UNCHANGED <<now, password, deletedAt, replaced, pending>>
        /\ UNCHANGED <<row, confirmed, raced>>
    BY DEF RequireUser, account, factor, history
  <1>6. LoginsGrounded'
    <2>1. LoginGrounded(login[r])
      BY <1>1 DEF LoginIInv, LoginsGrounded
    <2>2. LoginGrounded(login[r])'
      BY <1>1, <1>2, <1>3, <1>4, <1>5, <2>1 DEF LoginGrounded, WasCurrent
    <2>3. QED
      BY <1>4, <1>5, <2>2, OwnGrounds DEF account
  <1>7. FactorAsked'
    <2>1. IF login[r].on.secret = None
          THEN "off" \in login[r].on.marks
          ELSE login[r].on.secret \in confirmed \/ "setup" \in raced
      BY <1>1 DEF LoginIInv, FactorAsked
    <2>2. QED
      BY <1>3, <1>4, <1>5, <2>1, OwnFactor DEF InForce
  <1>8. LoginTypes' /\ TokensGrounded'
    BY <1>4, <1>5 DEF LoginIInv, LoginTypes, TokensGrounded, WasCurrent
  <1>9. QED
    BY <1>6, <1>7, <1>8 DEF LoginIInv

\* A login that is answered, or stops.
LEMMA EndKeeps ==
    ASSUME LoginIInv, IInv', NEW r \in Req, Answer(r),
           UNCHANGED <<account, pending, row, confirmed, raced>>
    PROVE  LoginIInv'
  <1>1. /\ login' \in [Req -> LoginRequest \cup {None}]
        /\ \A q \in Req \ {r} : login'[q] = login[q]
        /\ login'[r] = None
    BY AnswerEffect DEF LoginIInv
  <1>2. LoginsGrounded' /\ FactorAsked'
    BY <1>1, OwnGrounds, OwnFactor DEF InForce
  <1>3. LoginTypes' /\ TokensGrounded'
    BY <1>1 DEF account, LoginIInv, LoginTypes, TokensGrounded, WasCurrent
  <1>4. QED
    BY <1>2, <1>3 DEF LoginIInv

\* Every step of a login.
LEMMA LogInKeeps ==
    ASSUME LoginIInv, IInv', NEW r \in Req, LogIn(r)
    PROVE  LoginIInv'
  <1>1. ASSUME NEW p \in Password, MatchPassword(r, p)
        PROVE  LoginIInv'
    BY <1>1, MatchPasswordKeeps
  <1>2. CASE Defer(r)
    BY <1>2, DeferKeeps, LoginAssumption
  <1>3. CASE Skip(r)
    <2>1. /\ login[r] # None /\ ~InForce(row) /\ Enter(r, "openSession", login[r].on)
          /\ UNCHANGED <<account, pending>> /\ UNCHANGED <<row, confirmed, raced>>
      BY <1>3 DEF Skip, MaySkip, At, factor, history
    <2>2. QED
      BY <2>1, GoOnKeeps DEF LoginPc, InForce
  <1>4. ASSUME NEW t \in pending, PresentTotp(r, t)
        PROVE  LoginIInv'
    <2>1. /\ Accepted(t) /\ InForce(row) /\ Enter(r, "requireUser", GroundsOf(t))
          /\ UNCHANGED <<account, pending, row>> /\ UNCHANGED <<confirmed, raced>>
      BY <1>4 DEF PresentTotp, factor, history
    <2>2. QED
      BY <2>1, PresentKeeps DEF LoginPc
  <1>5. ASSUME NEW t \in pending, NEW c \in Code, PresentCode(r, t, c)
        PROVE  LoginIInv'
    <2>1. /\ Accepted(t) /\ InForce(row) /\ Enter(r, "saveRest", GroundsOf(t))
          /\ UNCHANGED <<account, pending, row>>
          /\ confirmed \subseteq confirmed' /\ raced \subseteq raced'
      BY <1>5 DEF PresentCode, Challenge
    <2>2. QED
      BY <2>1, PresentKeeps DEF LoginPc
  <1>6. CASE SpendCode(r)
    <2>1. /\ login[r] # None /\ login[r].pc = "saveRest"
          /\ Enter(r, "requireUser", login[r].on)
          /\ UNCHANGED <<account, pending>> /\ SaveRest(r)
      BY <1>6 DEF SpendCode, At
    <2>2. /\ confirmed \subseteq confirmed' /\ raced \subseteq raced'
          /\ InForce(row) => InForce(row)'
      BY <2>1, FactorLasts DEF LoginIInv, Serve
    <2>3. QED
      BY <2>1, <2>2, GoOnKeeps DEF LoginPc
  <1>7. CASE RequireUser(r)
    <2>1. CASE deletedAt = None
      BY <1>7, <2>1, FoundKeeps, LoginAssumption
    <2>2. CASE deletedAt # None
      BY <1>7, <2>2, EndKeeps DEF RequireUser, MayOpen, factor, history
    <2>3. QED
      BY <2>1, <2>2
  <1>8. CASE OpenSession(r)
    BY <1>8, EndKeeps DEF OpenSession, factor, history
  <1>9. CASE ConfirmSetup(r)
    <2>1. /\ confirmed \subseteq confirmed' /\ raced \subseteq raced'
          /\ InForce(row) => InForce(row)'
      BY <1>9, FactorLasts DEF ConfirmSetup, LoginIInv, Serve
    <2>2. UNCHANGED <<account, pending, login>> /\ login[r] = None
      BY <1>9 DEF ConfirmSetup
    <2>3. LoginsGrounded' /\ FactorAsked'
      BY <2>1, <2>2, OwnGrounds, OwnFactor
    <2>4. LoginTypes' /\ TokensGrounded'
      BY <2>2 DEF account, LoginIInv, LoginTypes, TokensGrounded, WasCurrent
    <2>5. QED
      BY <2>3, <2>4 DEF LoginIInv
  <1>10. CASE HangUp(r)
    BY <1>10, EndKeeps DEF HangUp, Stop
  <1>11. QED
    BY <1>1, <1>2, <1>3, <1>4, <1>5, <1>6, <1>7, <1>8, <1>9, <1>10 DEF LogIn

----------------------------------------------------------------------------
(* What the other handlers do meanwhile *)

\* A setup turns the second factor off for every login there is.
LEMMA SetupAgainKeeps ==
    ASSUME LoginIInv, IInv', NEW k \in Secret, SetupAgain(k)
    PROVE  LoginIInv'
  <1>1. DEFINE R == {r \in Req : login[r] # None}
  <1>2. login' = Marked("off", R) /\ UNCHANGED <<account, pending>>
    BY DEF SetupAgain
  <1>3. /\ login' \in [Req -> LoginRequest \cup {None}]
        /\ \A r \in Req : login'[r] # None => r \in R
        /\ \A r \in R :
              /\ login'[r].pc = login[r].pc
              /\ login'[r].on.pw = login[r].on.pw
              /\ login'[r].on.secret = login[r].on.secret
              /\ login'[r].on.asked = login[r].on.asked
              /\ login'[r].on.found = login[r].on.found
              /\ login'[r].on.marks = login[r].on.marks \cup {"off"}
    BY <1>2, MarkedEffect DEF LoginIInv, Mark
  <1>4. UNCHANGED <<now, password, deletedAt, replaced, pending>>
    BY <1>2 DEF account
  <1>5. confirmed' = confirmed /\ raced \subseteq raced'
    BY DEF SetupAgain, Setup
  <1>6. ASSUME NEW r \in R
        PROVE  LoginGrounded(login[r])'
    <2>1. LoginGrounded(login[r])
      BY DEF LoginIInv, LoginsGrounded
    <2>2. QED
      BY <1>3, <1>4, <2>1 DEF LoginGrounded, WasCurrent
  <1>7. LoginsGrounded'
    BY <1>3, <1>6 DEF LoginsGrounded
  <1>8. FactorAsked'
    BY <1>3, <1>5 DEF LoginIInv, FactorAsked
  <1>9. LoginTypes' /\ TokensGrounded'
    BY <1>3, <1>4 DEF LoginIInv, LoginTypes, TokensGrounded, WasCurrent
  <1>10. QED
    BY <1>7, <1>8, <1>9 DEF LoginIInv

\* A password is replaced: what rested on it has its term from now on.
LEMMA ReplacePasswordKeeps ==
    ASSUME LoginIInv, IInv', NEW p \in Password, ReplacePassword(p)
    PROVE  LoginIInv'
  <1>1. DEFINE R == {r \in Req : At(r, "isEnabled")}
  <1>2. /\ login' = Marked("late", R) /\ UNCHANGED <<now, deletedAt, pending>>
        /\ UNCHANGED <<row, confirmed, raced>>
        /\ p # password /\ password' = p
        /\ replaced' = [replaced EXCEPT ![password] = now]
    BY DEF ReplacePassword, factor, history
  <1>3. R \in SUBSET Req /\ \A r \in R : login[r] # None
    BY DEF At
  <1>4. /\ login' \in [Req -> LoginRequest \cup {None}]
        /\ \A r \in Req : login'[r] # None => login[r] # None
        /\ \A r \in Req \ R : login'[r] = login[r]
        /\ \A r \in R :
              /\ login'[r].pc = login[r].pc
              /\ login'[r].on.pw = login[r].on.pw
              /\ login'[r].on.secret = login[r].on.secret
              /\ login'[r].on.asked = login[r].on.asked
              /\ login'[r].on.found = login[r].on.found
              /\ login'[r].on.marks = login[r].on.marks \cup {"late"}
    BY <1>2, <1>3, MarkedEffect DEF LoginIInv, Mark
  <1>5. /\ now \in Nat /\ password \in Password
        /\ replaced \in [Password -> Nat \cup {None}]
    BY DEF LoginIInv, LoginTypes
  <1>6. /\ replaced'[password] = now
        /\ \A x \in Password : x # password => replaced'[x] = replaced[x]
    BY <1>2, <1>5
  <1>7. \A x \in Password : WasCurrent(x) => WasCurrent(x)'
    BY <1>2, <1>5, <1>6 DEF WasCurrent
  <1>8. ASSUME NEW r \in Req, login'[r] # None
        PROVE  LoginGrounded(login[r])'
    <2>1. login[r] # None
      BY <1>4, <1>8
    <2>2. /\ LoginGrounded(login[r])
          /\ login[r].on.pw \in Password /\ login[r].on.asked \in Nat
      BY <2>1, GroundsType, LoginAssumption DEF LoginIInv, LoginsGrounded
    <2>3. CASE r \in R
      BY <1>2, <1>4, <1>7, <2>2, <2>3 DEF LoginGrounded
    <2>4. CASE r \notin R
      <3>1. login'[r] = login[r] /\ login[r].pc # "isEnabled"
        BY <1>4, <2>1, <2>4 DEF At
      <3>2. login[r].on.pw = password =>
                login[r].on.asked <= replaced'[login[r].on.pw] + PendingTtl + Leeway
        <4>1. now <= now + PendingTtl + Leeway
          BY <1>5, LoginAssumption
        <4>2. login[r].on.asked <= now
          BY <2>2 DEF LoginGrounded
        <4>3. login[r].on.asked <= now + PendingTtl + Leeway
          BY <1>5, <2>2, <4>1, <4>2, LoginAssumption
        <4>4. QED
          BY <1>6, <4>3
      <3>3. QED
        BY <1>2, <1>6, <1>7, <2>2, <3>1, <3>2 DEF LoginGrounded
    <2>5. QED
      BY <2>3, <2>4
  <1>9. LoginsGrounded'
    BY <1>8 DEF LoginsGrounded
  <1>10. TokensGrounded'
    <2>1. SUFFICES ASSUME NEW t \in pending
                   PROVE  /\ t.exp <= now + PendingTtl
                          /\ WasCurrent(t.pw)'
                          /\ \/ t.pw = password' \/ t.late
                             \/ t.exp <= replaced'[t.pw] + PendingTtl
      BY <1>2 DEF TokensGrounded
    <2>2. /\ t.pw \in Password /\ t.exp <= now + PendingTtl /\ WasCurrent(t.pw)
          /\ t.pw = password \/ t.late \/ t.exp <= replaced[t.pw] + PendingTtl
      BY DEF LoginIInv, TokensGrounded, LoginTypes, PendingToken
    <2>3. QED
      BY <1>6, <1>7, <2>2
  <1>11. FactorAsked'
    BY <1>2, <1>4 DEF LoginIInv, FactorAsked, InForce
  <1>12. LoginTypes'
    BY <1>2, <1>4, <1>5 DEF LoginIInv, LoginTypes
  <1>13. QED
    BY <1>9, <1>10, <1>11, <1>12 DEF LoginIInv

\* The account is deleted: whoever looked the user up did so before.
LEMMA DeleteKeeps ==
    ASSUME LoginIInv, IInv', Delete
    PROVE  LoginIInv'
  <1>1. /\ UNCHANGED <<now, password, replaced, pending, login>>
        /\ UNCHANGED <<row, confirmed, raced>>
        /\ deletedAt' = now
    BY DEF Delete, factor, history
  <1>2. LoginsGrounded'
    BY <1>1 DEF LoginIInv, LoginsGrounded, LoginGrounded, WasCurrent
  <1>3. LoginTypes' /\ TokensGrounded' /\ FactorAsked'
    BY <1>1 DEF LoginIInv, LoginTypes, TokensGrounded, FactorAsked, WasCurrent, InForce
  <1>4. QED
    BY <1>2, <1>3 DEF LoginIInv

\* Time passes.
LEMMA TickKeeps ==
    ASSUME LoginIInv, IInv', Tick
    PROVE  LoginIInv'
  <1>1. /\ UNCHANGED <<password, deletedAt, replaced, pending, login>>
        /\ UNCHANGED <<row, confirmed, raced>>
        /\ now' = now + 1 /\ now \in Nat
    BY DEF Tick, factor, history, LoginIInv, LoginTypes
  <1>2. ASSUME NEW r \in Req, login'[r] # None
        PROVE  LoginGrounded(login[r])'
    <2>1. /\ LoginGrounded(login[r])
          /\ login[r].on.asked \in Nat /\ login[r].on.found \in Nat
      BY <1>1, <1>2, GroundsType, LoginAssumption DEF LoginIInv, LoginsGrounded
    <2>2. login[r].on.asked <= now' /\ login[r].on.found <= now'
      BY <1>1, <2>1 DEF LoginGrounded
    <2>3. QED
      BY <1>1, <2>1, <2>2 DEF LoginGrounded, WasCurrent
  <1>3. ASSUME NEW t \in pending
        PROVE  t.exp <= now' + PendingTtl
    BY <1>1, LoginAssumption DEF LoginIInv, TokensGrounded, LoginTypes, PendingToken
  <1>4. LoginsGrounded' /\ TokensGrounded'
    BY <1>1, <1>2, <1>3 DEF LoginsGrounded, LoginIInv, TokensGrounded, WasCurrent
  <1>5. LoginTypes' /\ FactorAsked'
    BY <1>1 DEF LoginIInv, LoginTypes, FactorAsked, InForce
  <1>6. QED
    BY <1>4, <1>5 DEF LoginIInv

----------------------------------------------------------------------------
(* The theorems *)

\* No login runs in the initial states.
LEMMA LoginInitIInv == LoginInit => LoginIInv
  BY InitIInv DEF LoginInit, LoginIInv, LoginTypes, LoginsGrounded, TokensGrounded,
                  FactorAsked

\* Every step keeps the invariant: that of the second factor, then one lemma per action.
LEMMA LoginNextIInv == LoginIInv /\ [LoginNext]_loginVars => LoginIInv'
  <1>1. SUFFICES ASSUME LoginIInv, [LoginNext]_loginVars PROVE LoginIInv'
    OBVIOUS
  <1>2. IInv'
    BY <1>1, StepIsFactorStep, NextIInv DEF LoginIInv
  <1>3. ASSUME UNCHANGED loginVars
        PROVE  LoginIInv'
    BY <1>1, <1>2, <1>3 DEF loginVars, account, factor, history, LoginIInv, LoginTypes,
                            LoginsGrounded, LoginGrounded, TokensGrounded, FactorAsked,
                            WasCurrent, InForce
  <1>4. QED
    BY <1>1, <1>2, <1>3, LogInKeeps, SetupAgainKeeps, ReplacePasswordKeeps, DeleteKeeps,
       TickKeeps DEF LoginNext

\* The invariant holds in every reachable state.
THEOREM LoginInvariance == LoginSpec => []LoginIInv
  BY LoginInitIInv, LoginNextIInv, PTL DEF LoginSpec

\* Type correctness.
THEOREM LoginTypeCorrect == LoginSpec => []LoginTypeOK
  <1>1. LoginIInv => LoginTypeOK
    BY DEF LoginIInv, LoginTypes, IInv, LoginTypeOK
  <1>2. QED
    BY <1>1, LoginInvariance, PTL

\* No interleaving of logins, setups and confirmations opens a session past a second
\* factor that was in force all along.
THEOREM FactorHeld == LoginSpec => []SecondFactorHeld
  <1>1. LoginIInv => SecondFactorHeld
    BY DEF LoginIInv, FactorAsked, SecondFactorHeld, Opening, At
  <1>2. QED
    BY <1>1, LoginInvariance, PTL

\* A replaced password and a deleted account open no session past their term.
THEOREM GroundsHold == LoginSpec => []GroundsHeld
  <1>1. LoginIInv => GroundsHeld
    BY DEF LoginIInv, LoginsGrounded, LoginGrounded, GroundsHeld, Opening, At
  <1>2. QED
    BY <1>1, LoginInvariance, PTL
=============================================================================
