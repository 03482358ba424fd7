------------------------------ MODULE Clients ------------------------------
(***************************************************************************)
(* The client SDKs (sdk/js, sdk/rust, sdk/python) against the refresh      *)
(* handler: who holds which refresh token when requests and answers are    *)
(* delayed or lost and clients give up and try again.                      *)
(*                                                                         *)
(* The server is RefreshRotation, statement by statement.  A client keeps  *)
(* one refresh token in memory: login stores it, refreshToken() sends it   *)
(* and stores the successor, logout() forgets it.  No SDK refreshes by     *)
(* itself, and none guards refreshToken() against a second call: the       *)
(* JavaScript and Rust clients may be called again while a call is         *)
(* waiting, the Python client blocks its caller, for at most 15 s.         *)
(***************************************************************************)
EXTENDS RefreshRotation

CONSTANTS
    Client,     \* SDK objects, each of a device of its own
    Serial,     \* those whose caller waits for each call (Python)
    MaxCalls    \* bound on the calls of refreshToken()

VARIABLES
    held,       \* _refreshToken of each client, or None
    call,       \* the calls of refreshToken(), one per activation of the handler
    begun,      \* how many calls were made
    cut,        \* history: sessions with a call that got no answer, or an error
    crossed     \* history: sessions with two calls under way at once

ASSUME ClientsAssumption ==
    /\ Serial \subseteq Client
    /\ None \notin Client
    /\ MaxCalls \in Nat

history == <<cut, crossed>>
clientVars == <<held, call, begun, history>>
clientsVars == <<vars, clientVars>>

\* carries is the token of a request that has not arrived; waits, that the client
\* still wants the answer.
Call == [caller : Client \cup {None}, carries : Token \cup {None}, waits : BOOLEAN]
Idle == [caller |-> None, carries |-> None, waits |-> FALSE]

ClientsTypeOK ==
    /\ TypeOK
    /\ held \in [Client -> Token \cup {None}]
    /\ call \in [Req -> Call]
    /\ begun \in 0..MaxCalls
    /\ cut \subseteq Sid
    /\ crossed \subseteq Sid

Waiting(c) == {r \in Req : call[r].caller = c /\ call[r].waits}

\* The token a call was made with, whether or not it has arrived.
TokenOf(r) == IF call[r].carries # None THEN call[r].carries ELSE req[r].presented

\* Calls about session s that are under way: on the wire, at the server, or answered
\* and not yet received.
UnderWay(s) == {r \in Req : call[r].caller # None /\ family[TokenOf(r)] = s}

ClientsInit ==
    /\ Init
    /\ held = [c \in Client |-> None]
    /\ call = [r \in Req |-> Idle]
    /\ begun = 0
    /\ cut = {}
    /\ crossed = {}

----------------------------------------------------------------------------
(* The client *)

\* A bug: the Python client is shared by two threads.
MayCallAlways(c) == TRUE

\* A Python caller is inside its last call until that one returns or times out.
MayCall(c) == c \in Serial => Waiting(c) = {}

\* refreshToken(): reads the stored token and sends it.
Begin(c, r) ==
    LET s == family[held[c]]
    IN  /\ MayCall(c)
        /\ held[c] # None
        /\ begun < MaxCalls
        /\ call[r] = Idle
        /\ req[r].pc = "done"
        /\ call' = [call EXCEPT ![r] =
                        [caller |-> c, carries |-> held[c], waits |-> TRUE]]
        /\ begun' = begun + 1
        /\ crossed' = IF UnderWay(s) # {} THEN crossed \cup {s} ELSE crossed
        /\ UNCHANGED <<vars, held, cut>>

\* A bug: only an answer with tokens ends the call, an error status never throws.
AnsweredIfGranted(r) == req[r].pc = "done" /\ req[r].answer = "rotated"

\* The handler has returned.
Answered(r) == req[r].pc = "done"

\* A bug: setTokens has lost its guard, and an answer without tokens clears the field.
StoredUndefined(c, r) == IF req[r].answer = "rotated" THEN req[r].new ELSE "undefined"

\* A bug: refreshToken() keeps the access token only.
StoredKeeps(c, r) == held[c]

\* setTokens, _store_tokens: after a status of 2xx alone.
Stored(c, r) == IF req[r].answer = "rotated" THEN req[r].new ELSE held[c]

\* The answer arrives; a 401 and a 5xx leave the stored token in place.
Receive(r) ==
    LET c == call[r].caller
    IN  /\ call[r].waits
        /\ call[r].carries = None
        /\ Answered(r)
        /\ held' = [held EXCEPT ![c] = Stored(c, r)]
        /\ cut' = IF req[r].answer = "error" THEN cut \cup {family[TokenOf(r)]}
                                             ELSE cut
        /\ call' = [call EXCEPT ![r] = Idle]
        /\ UNCHANGED <<vars, begun, crossed>>

\* No usable answer: the timeout of 15 s (Python), a broken connection, or a body
\* that is not read to its end (JavaScript and Rust take that for an empty object).
Lose(r) ==
    /\ call[r].waits
    /\ call' = [call EXCEPT ![r].waits = FALSE]
    /\ cut' = cut \cup {family[TokenOf(r)]}
    /\ UNCHANGED <<vars, held, begun, crossed>>

\* What is left of a call nobody waits for: its request never arrives, or its answer
\* is dropped.
Vanish(r) ==
    /\ call[r].caller # None
    /\ ~call[r].waits
    /\ req[r].pc = "done"
    /\ call' = [call EXCEPT ![r] = Idle]
    /\ UNCHANGED <<vars, held, begun, history>>

\* login() and loginMfa(); the token may be minted and never arrive.
ClientLogin(c, s, u, t) ==
    /\ MayCall(c)
    /\ Login(s, u, t)
    /\ held' = [held EXCEPT ![c] = IF t \in known' THEN t ELSE @]
    /\ UNCHANGED <<call, begun, history>>

\* logout() forgets the tokens in its finally, also when the request failed.
Logout(c) ==
    /\ MayCall(c)
    /\ held[c] # None
    /\ held' = [held EXCEPT ![c] = None]
    /\ \/ RevokeSession(family[held[c]])
       \/ UNCHANGED vars
    /\ UNCHANGED <<call, begun, history>>

----------------------------------------------------------------------------
(* The network and the server *)

\* The request reaches the handler, however late.
Arrive(r) ==
    /\ call[r].carries # None
    /\ Find(r, call[r].carries)
    /\ call' = [call EXCEPT ![r].carries = None]
    /\ UNCHANGED <<held, begun, history>>

\* The next statement of the handler.
Statement(r) ==
    \/ CheckTrace(r)
    \/ RevokeReused(r)
    \/ \E t \in Token : Update(r, t)
    \/ InsertTrace(r)
    \/ Respond(r)

Handle(r) ==
    /\ Statement(r) \/ Abort(r)
    /\ UNCHANGED clientVars

\* Handlers of other devices and of the administrator.
OtherDevices ==
    /\ \/ \E s \in Sid : RevokeSession(s)
       \/ \E u \in User : RevokeAll(u)
       \/ \E u \in User : SoftDelete(u)
       \/ Tick
    /\ UNCHANGED clientVars

ClientsNext ==
    \/ \E c \in Client, r \in Req : Begin(c, r)
    \/ \E r \in Req : Receive(r) \/ Lose(r) \/ Vanish(r) \/ Arrive(r) \/ Handle(r)
    \/ \E c \in Client, s \in Sid, u \in User, t \in Token : ClientLogin(c, s, u, t)
    \/ \E c \in Client : Logout(c)
    \/ OtherDevices

\* tokio polls every ready task, a statement returns or fails, and TCP delivers or
\* reports a failure.  Nobody has to call, log out or give up.
Fairness ==
    \A r \in Req :
        /\ WF_clientsVars(Statement(r) /\ UNCHANGED clientVars)
        /\ WF_clientsVars(Arrive(r) \/ Vanish(r))
        /\ WF_clientsVars(Receive(r))

ClientsSpec == ClientsInit /\ [][ClientsNext]_clientsVars /\ Fairness

----------------------------------------------------------------------------
(* Properties *)

Current(t) == sessions[family[t]].hash = t

\* The client knows that it may be out of step (a call of the session failed or two
\* of them crossed), or has no account any more.
Excused(s) ==
    \/ s \in cut \cup crossed
    \/ sessions[s].user \in deleted

\* A client whose calls were all answered, with tokens or a refusal, and never crossed
\* holds the current token of its session: nothing the server does on its own, and
\* no other device, puts it out of step.  A lost answer can (sessions.rs:110).
InStepUnlessCut ==
    \A c \in Client :
        LET t == held[c]
        IN  t # None /\ ~Excused(family[t]) /\ UnderWay(family[t]) = {} => Current(t)

\* As long as clients keep their tokens to themselves the reuse alarm is a false one:
\* it is raised for two calls of the owner that crossed, and never otherwise.
AlarmNeedsCrossing ==
    \A r \in Req : req[r].answer = "reuse" => req[r].sid \in crossed

\* Waiting for each call is enough never to cross with oneself, except with a call
\* that was given up.
SerialCrossesOnlyWhenCut ==
    \A c \in Serial :
        held[c] # None /\ family[held[c]] \in crossed => family[held[c]] \in cut

\* Every call of refreshToken() ends, whatever was decided about its token and whatever
\* other calls, revocations and deletions met it on the way.
RefreshReturns ==
    \A r \in Req : call[r].waits ~> ~call[r].waits
=============================================================================
