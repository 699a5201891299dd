------------------------------- MODULE WsAccept -------------------------------
(***************************************************************************)
(* How a WebSocket of a client comes into being: the WebSocketServer       *)
(* (src/ws/lib/websocket-server.js) checks the upgrade request, may ask    *)
(* verifyClient, and completes the upgrade; then PPWebsocketProxy          *)
(* (src/src/server/ws.ts) tests its rules, and only after the last await   *)
(* does a handler listen to the connection.  Meanwhile clients send and    *)
(* leave, rules are added and the server is closed.                        *)
(***************************************************************************)
EXTENDS Naturals, Sequences, FiniteSets

CONSTANTS
    Client,       \* upgrade requests, each with its socket
    MaxClose      \* bound: calls of close()

ASSUME MaxCloseAssumption == MaxClose \in Nat

VARIABLES
    state,            \* _state: RUNNING, CLOSING or CLOSED
    clients,          \* the set `clients`
    shouldEmitClose,  \* _shouldEmitClose
    ticks,            \* calls of emitClose() on the nextTick queue
    calls,            \* counts calls of close()
    verify,           \* options.verifyClient: none, or one that answers later
    anyRules,         \* PPWebsocketProxy has rules
    request,          \* how far the upgrade of a client is: none, verifying, done
    socket,           \* its socket: up, fin (the client ended) or destroyed
    answers,          \* history: HTTP status lines written to it
    ws,               \* its WebSocket: none, open or closed
    handler,          \* none, testing (the rules), listening, ignored, or thrown
    remote,           \* wsRemote: none, up or closed
    unheard,          \* history: clients an event of which nobody heard
    awaited           \* history: clients whose rules were awaited

serverVars == <<state, clients, shouldEmitClose, ticks, calls, verify>>
clientVars == <<request, socket, answers, ws, handler, remote, unheard, awaited>>
vars       == <<serverVars, anyRules, clientVars>>

(***************************************************************************)
(* The checks of handleUpgrade that may refuse a request at once, in their *)
(* order, and the status each answers with.                                *)
(***************************************************************************)
Refusal == [method |-> 405, upgrade |-> 400, key |-> 400, version |-> 400, path |-> 400,
            protocol |-> 400, extensions |-> 400, verifyClient |-> 401]

\* The status of every answer: also 101, and 503 of a server that is closing.
Statuses == {101, 503} \cup {Refusal[f] : f \in DOMAIN Refusal}

Init ==
    /\ state = "RUNNING"
    /\ clients = {}
    /\ shouldEmitClose = FALSE
    /\ ticks = 0
    /\ calls = 0
    /\ verify \in {"none", "later"}
    /\ anyRules = FALSE
    /\ request = [k \in Client |-> "none"]
    /\ socket = [k \in Client |-> "up"]
    /\ answers = [k \in Client |-> <<>>]
    /\ ws = [k \in Client |-> "none"]
    /\ handler = [k \in Client |-> "none"]
    /\ remote = [k \in Client |-> "none"]
    /\ unheard = {}
    /\ awaited = {}

TypeOK ==
    /\ state \in {"RUNNING", "CLOSING", "CLOSED"}
    /\ clients \subseteq Client
    /\ shouldEmitClose \in BOOLEAN
    /\ anyRules \in BOOLEAN
    /\ ticks \in Nat
    /\ calls \in Nat
    /\ verify \in {"none", "later"}
    /\ request \in [Client -> {"none", "verifying", "done"}]
    /\ socket \in [Client -> {"up", "fin", "destroyed"}]
    /\ answers \in [Client -> Seq(Statuses)]
    /\ ws \in [Client -> {"none", "open", "closed"}]
    /\ handler \in [Client -> {"none", "testing", "listening", "ignored", "thrown"}]
    /\ remote \in [Client -> {"none", "up", "closed"}]
    /\ unheard \subseteq Client
    /\ awaited \subseteq Client

-----------------------------------------------------------------------------
(***************************************************************************)
(* PPWebsocketProxy                                                        *)
(***************************************************************************)

\* addRule()
AddRule ==
    /\ ~anyRules
    /\ anyRules' = TRUE
    /\ UNCHANGED <<serverVars, clientVars>>

\* The pass-through handler: `new WebSocket()` may throw; otherwise the listeners
\* are attached at once.
Handle(k, h) ==
    \/ /\ handler' = [h EXCEPT ![k] = "listening"]
       /\ remote' = [remote EXCEPT ![k] = "up"]
    \/ /\ handler' = [h EXCEPT ![k] = "thrown"]
       /\ UNCHANGED remote

\* Mutant of HandleConnection: there is an await even without rules.
HandleConnectionLater(k) ==
    /\ handler' = [handler EXCEPT ![k] = "testing"]
    /\ UNCHANGED remote
    /\ awaited' = IF anyRules THEN awaited \cup {k} ELSE awaited

\* handleConnection(): without a rule nothing is awaited.
HandleConnection(k) ==
    IF anyRules
    THEN /\ handler' = [handler EXCEPT ![k] = "testing"]
         /\ awaited' = awaited \cup {k}
         /\ UNCHANGED remote
    ELSE Handle(k, handler) /\ UNCHANGED awaited

\* The await of the last test() returns, or throws: no rule matches, or the rule that
\* does has a handler; without one rule.handle() only logs.
RulesTested(k) ==
    /\ handler[k] = "testing"
    /\ \/ Handle(k, handler)
       \/ handler' = [handler EXCEPT ![k] = "ignored"] /\ UNCHANGED remote
    /\ UNCHANGED <<serverVars, anyRules, request, socket, answers, ws, unheard, awaited>>

-----------------------------------------------------------------------------
(***************************************************************************)
(* The upgrade                                                             *)
(***************************************************************************)

Answer(k, status) == answers' = [answers EXCEPT ![k] = Append(@, status)]

NotAccepted == UNCHANGED <<clients, ws, handler, remote, awaited>>

\* abortHandshake(): the answer, and the end of the socket.
AbortHandshake(k, status) ==
    /\ Answer(k, status)
    /\ socket' = [socket EXCEPT ![k] = "destroyed"]
    /\ NotAccepted

\* completeUpgrade() from line 386 on: 101, a WebSocket, one more client, and the
\* 'connection' event.
Accept(k) ==
    /\ Answer(k, 101)
    /\ ws' = [ws EXCEPT ![k] = "open"]
    /\ clients' = clients \cup {k}
    /\ HandleConnection(k)
    /\ UNCHANGED socket

\* Mutant of CompleteUpgrade: a closing server is not noticed.
CompleteUpgradeAnyway(k) ==
    \/ /\ socket[k] # "up"
       /\ socket' = [socket EXCEPT ![k] = "destroyed"]
       /\ UNCHANGED answers
       /\ NotAccepted
    \/ /\ socket[k] = "up"
       /\ Accept(k)

\* completeUpgrade(), called once per socket: the exception for a socket that was
\* upgraded before has no caller here.
CompleteUpgrade(k) ==
    \/ /\ socket[k] # "up"
       /\ socket' = [socket EXCEPT ![k] = "destroyed"]
       /\ UNCHANGED answers
       /\ NotAccepted
    \/ /\ socket[k] = "up"
       /\ state # "RUNNING"
       /\ AbortHandshake(k, 503)
    \/ /\ socket[k] = "up"
       /\ state = "RUNNING"
       /\ Accept(k)

Request(k, r) == request' = [request EXCEPT ![k] = r]

OfServer == <<state, shouldEmitClose, ticks, calls, verify, anyRules, unheard>>

\* Mutant of RefuseUpgrade: no return after abortHandshake().
RefuseUpgradeGoesOn(k, f) ==
    /\ request[k] = "none"
    /\ Request(k, "verifying")
    /\ Answer(k, Refusal[f])
    /\ UNCHANGED <<OfServer, socket>>
    /\ NotAccepted

\* handleUpgrade(): a check fails.  (Nothing here listens to 'wsClientError', so the
\* refusal is always abortHandshake().)
RefuseUpgrade(k, f) ==
    /\ request[k] = "none"
    /\ Request(k, "done")
    /\ AbortHandshake(k, Refusal[f])
    /\ UNCHANGED OfServer

\* handleUpgrade() without a verifyClient that answers later.
HandleUpgrade(k) ==
    /\ request[k] = "none"
    /\ verify = "none"
    /\ Request(k, "done")
    /\ CompleteUpgrade(k)
    /\ UNCHANGED OfServer

AskVerifyClient(k) ==
    /\ request[k] = "none"
    /\ verify = "later"
    /\ Request(k, "verifying")
    /\ UNCHANGED <<OfServer, socket, answers>>
    /\ NotAccepted

\* The callback of verifyClient.
Verified(k) ==
    /\ request[k] = "verifying"
    /\ Request(k, "done")
    /\ CompleteUpgrade(k)
    /\ UNCHANGED OfServer

\* The program's verifyClient says no; 401 stands for any code it may give.
NotVerified(k) ==
    /\ request[k] = "verifying"
    /\ Request(k, "done")
    /\ AbortHandshake(k, Refusal.verifyClient)
    /\ UNCHANGED OfServer

\* The client ends its side, or its socket fails (socketOnError), before the
\* upgrade is complete.
ClientGivesUp(k, how) ==
    /\ request[k] # "done"
    /\ socket[k] = "up"
    /\ socket' = [socket EXCEPT ![k] = how]
    /\ UNCHANGED <<serverVars, anyRules, request, answers, ws, handler, remote, unheard,
                   awaited>>

-----------------------------------------------------------------------------
(***************************************************************************)
(* The connection                                                          *)
(***************************************************************************)

Heard(k) == handler[k] = "listening"

\* 'message', 'ping' or 'error' of the connection.
EventEmitted(k) ==
    /\ ws[k] = "open"
    /\ ~Heard(k)
    /\ unheard' = unheard \cup {k}
    /\ UNCHANGED <<serverVars, anyRules, request, socket, answers, ws, handler, remote,
                   awaited>>

\* 'close' of the connection: the server's listener, and the handler's.
ConnectionCloses(k) ==
    /\ ws[k] = "open"
    /\ ws' = [ws EXCEPT ![k] = "closed"]
    /\ clients' = clients \ {k}
    /\ ticks' = IF shouldEmitClose /\ clients' = {} THEN ticks + 1 ELSE ticks
    /\ remote' = IF Heard(k) THEN [remote EXCEPT ![k] = "closed"] ELSE remote
    /\ unheard' = IF Heard(k) THEN unheard ELSE unheard \cup {k}
    /\ UNCHANGED <<state, shouldEmitClose, calls, verify, anyRules, request, socket,
                   answers, handler, awaited>>

-----------------------------------------------------------------------------
(***************************************************************************)
(* close() of the server                                                   *)
(***************************************************************************)

CloseServer ==
    /\ calls < MaxClose
    /\ calls' = calls + 1
    /\ \/ /\ state = "CLOSED"
          /\ ticks' = ticks + 1
          /\ UNCHANGED <<state, shouldEmitClose>>
       \/ /\ state = "CLOSING"
          /\ UNCHANGED <<state, shouldEmitClose, ticks>>
       \/ /\ state = "RUNNING"
          /\ state' = "CLOSING"
          /\ IF clients = {} THEN ticks' = ticks + 1 /\ UNCHANGED shouldEmitClose
             ELSE shouldEmitClose' = TRUE /\ UNCHANGED ticks
    /\ UNCHANGED <<clients, verify, anyRules, clientVars>>

\* emitClose() from the nextTick queue.
EmitClose ==
    /\ ticks > 0
    /\ ticks' = ticks - 1
    /\ state' = "CLOSED"
    /\ UNCHANGED <<clients, shouldEmitClose, calls, verify, anyRules, clientVars>>

\* The nextTick queue is emptied before anything else happens.
Next ==
    \/ EmitClose
    \/ /\ ticks = 0
       /\ \/ AddRule
          \/ CloseServer
          \/ \E k \in Client :
                \/ \E f \in DOMAIN Refusal : RefuseUpgrade(k, f)
                \/ HandleUpgrade(k) \/ AskVerifyClient(k) \/ Verified(k) \/ NotVerified(k)
                \/ \E how \in {"fin", "destroyed"} : ClientGivesUp(k, how)
                \/ RulesTested(k) \/ EventEmitted(k) \/ ConnectionCloses(k)

Spec == Init /\ [][Next]_vars

-----------------------------------------------------------------------------
(***************************************************************************)
(* Properties                                                              *)
(***************************************************************************)

\* An upgrade request gets one answer, and a WebSocket exists exactly when that
\* is 101: no path of handleUpgrade goes on after it has refused, also when the
\* answer of verifyClient comes late.
OneAnswer ==
    \A k \in Client :
        /\ Len(answers[k]) <= 1
        /\ ws[k] # "none" <=> answers[k] = <<101>>

\* 'close' of the server means that no client is left and none will come, and
\* when the last one has left a closing server it is on its way.
ClosedWhenEmpty ==
    /\ state = "CLOSED" => clients = {}
    /\ state = "CLOSING" /\ clients = {} => ticks > 0
    /\ \A k \in Client : ws[k] = "open" <=> k \in clients

\* A handler misses an event of its connection, or is left with a destination
\* whose client has gone, only if rules were awaited between the upgrade and the
\* handler, or if the handler threw; with no rules nothing is missed.
UnheardForAReason ==
    \A k \in Client :
        (k \in unheard \/ (ws[k] = "closed" /\ remote[k] = "up"))
            => k \in awaited \/ handler[k] = "thrown"
=============================================================================
