---------------------------- MODULE WsAccept_proofs ----------------------------
(***************************************************************************)
(* Proofs about WsAccept, for any set of clients and any number of calls   *)
(* of close().                                                             *)
(***************************************************************************)
EXTENDS WsAccept, SequenceTheorems, TLAPS

(***************************************************************************)
(* What is known of one client.  A request that is not done has no answer, *)
(* which is why the late answer of verifyClient is the first one; and a    *)
(* WebSocket nobody listens to had its rules awaited, or its handler threw.*)
(***************************************************************************)
Upgrade(k) ==
    /\ request[k] # "done" => answers[k] = <<>>
    /\ Len(answers[k]) <= 1
    /\ ws[k] # "none" <=> answers[k] = <<101>>

Excused(k) == k \in awaited \/ handler[k] = "thrown"

Listeners(k) ==
    /\ ws[k] = "none" <=> handler[k] = "none"
    /\ handler[k] \in {"testing", "ignored"} => k \in awaited
    /\ k \in unheard => Excused(k)
    /\ ws[k] = "closed" /\ remote[k] = "up" => Excused(k)

(***************************************************************************)
(* What is known of the server.  'close' is on the nextTick queue only     *)
(* when nobody is left; a closing server that still has clients waits for  *)
(* the last of them.                                                       *)
(***************************************************************************)
Shutdown ==
    /\ state = "RUNNING" => ticks = 0 /\ ~shouldEmitClose
    /\ state = "CLOSING" /\ ticks = 0 => clients # {} /\ shouldEmitClose
    /\ ticks > 0 => clients = {}
    /\ state = "CLOSED" => clients = {}

IInv ==
    /\ TypeOK
    /\ Shutdown
    /\ \A k \in Client : /\ Upgrade(k)
                         /\ Listeners(k)
                         /\ ws[k] = "open" <=> k \in clients

\* A check that fails never answers 101.
LEMMA RefusalsRefuse ==
    \A f \in DOMAIN Refusal : Refusal[f] \in Statuses \ {101}
<1>1. DOMAIN Refusal = {"method", "upgrade", "key", "version", "path", "protocol",
                        "extensions", "verifyClient"}
  BY DEF Refusal
<1>2. /\ Refusal["method"] = 405 /\ Refusal["upgrade"] = 400 /\ Refusal["key"] = 400
      /\ Refusal["version"] = 400 /\ Refusal["path"] = 400 /\ Refusal["protocol"] = 400
      /\ Refusal["extensions"] = 400 /\ Refusal["verifyClient"] = 401
  BY DEF Refusal
<1>3. \A f \in DOMAIN Refusal : Refusal[f] # 101
  BY <1>1, <1>2
<1>4. QED
  BY <1>3 DEF Statuses

LEMMA NoAnswer == <<>> # <<101>>
OBVIOUS

\* One answer after none.
LEMMA FirstAnswer ==
    ASSUME NEW status \in Statuses
    PROVE  /\ Append(<<>>, status) \in Seq(Statuses)
           /\ Len(Append(<<>>, status)) = 1
           /\ Append(<<>>, status) = <<101>> <=> status = 101
<1>1. <<>> \in Seq(Statuses) /\ Len(<<>>) = 0
  BY EmptySeq
<1>2. /\ Append(<<>>, status) \in Seq(Statuses) /\ Len(Append(<<>>, status)) = 0 + 1
      /\ Append(<<>>, status)[0 + 1] = status
  BY <1>1, AppendProperties
<1>3. Append(<<>>, status) = <<status>>
  OBVIOUS
<1>4. QED
  BY <1>2, <1>3

LEMMA InitIInv == Init => IInv
<1> SUFFICES ASSUME Init PROVE IInv
  OBVIOUS
<1>1. <<>> \in Seq(Statuses) /\ Len(<<>>) = 0 /\ <<>> # <<101>>
  BY EmptySeq
<1>2. TypeOK
  BY <1>1 DEF Init, TypeOK
<1>3. Shutdown
  BY DEF Init, Shutdown
<1>4. \A k \in Client : Upgrade(k) /\ Listeners(k) /\ (ws[k] = "open" <=> k \in clients)
  BY <1>1 DEF Init, Upgrade, Listeners
<1>5. QED
  BY <1>2, <1>3, <1>4 DEF IInv

-----------------------------------------------------------------------------
(***************************************************************************)
(* The upgrade                                                             *)
(***************************************************************************)

\* A request that was not answered is refused: it never gets a WebSocket.
LEMMA AbortKeepsIInv ==
    ASSUME IInv, NEW k \in Client, NEW status \in Statuses \ {101},
           request[k] # "done", Request(k, "done"), UNCHANGED OfServer,
           AbortHandshake(k, status)
    PROVE  IInv'
<1>1. answers[k] = <<>> /\ ws[k] = "none"
  BY NoAnswer DEF IInv, Upgrade, TypeOK, Statuses
<1>2. /\ answers' = [answers EXCEPT ![k] = Append(<<>>, status)]
      /\ request' = [request EXCEPT ![k] = "done"]
      /\ socket' = [socket EXCEPT ![k] = "destroyed"]
      /\ UNCHANGED <<clients, ws, handler, remote, awaited>>
      /\ UNCHANGED <<state, shouldEmitClose, ticks, calls, verify, anyRules, unheard>>
  BY <1>1 DEF AbortHandshake, Answer, NotAccepted, Request, OfServer, IInv, TypeOK
<1>3. /\ Append(<<>>, status) \in Seq(Statuses) /\ Len(Append(<<>>, status)) = 1
      /\ Append(<<>>, status) # <<101>>
  BY FirstAnswer
<1>4. TypeOK'
  BY <1>2, <1>3 DEF IInv, TypeOK
<1>5. Shutdown'
  BY <1>2 DEF IInv, Shutdown
<1>6. ASSUME NEW x \in Client
      PROVE  Upgrade(x)' /\ Listeners(x)' /\ (ws[x] = "open" <=> x \in clients)'
  <2>1. Upgrade(x) /\ Listeners(x) /\ (ws[x] = "open" <=> x \in clients)
    BY DEF IInv
  <2>2. Listeners(x)' /\ (ws[x] = "open" <=> x \in clients)'
    BY <1>2, <2>1 DEF Listeners, Excused
  <2>3. CASE x = k
    BY <1>1, <1>2, <1>3, <2>2, <2>3 DEF Upgrade, IInv, TypeOK
  <2>4. CASE x # k
    BY <1>2, <2>1, <2>2, <2>4 DEF Upgrade, IInv, TypeOK
  <2>5. QED
    BY <2>3, <2>4
<1>7. QED
  BY <1>4, <1>5, <1>6 DEF IInv

\* The listeners of a WebSocket that has just been accepted, or whose rules
\* have just been tested.
LEMMA HandleListens ==
    ASSUME IInv, NEW k \in Client, Handle(k, handler)
    PROVE  /\ handler' \in [Client -> {"none", "testing", "listening", "ignored", "thrown"}]
           /\ remote' \in [Client -> {"none", "up", "closed"}]
           /\ \/ handler'[k] = "listening" /\ remote'[k] = "up"
              \/ handler'[k] = "thrown" /\ remote'[k] = remote[k]
           /\ \A x \in Client \ {k} : handler'[x] = handler[x] /\ remote'[x] = remote[x]
BY ZenonT(40) DEF Handle, IInv, TypeOK

LEMMA AcceptKeepsIInv ==
    ASSUME IInv, NEW k \in Client, state = "RUNNING",
           request[k] # "done", Request(k, "done"), UNCHANGED OfServer, Accept(k)
    PROVE  IInv'
<1>1. answers[k] = <<>> /\ ws[k] = "none" /\ handler[k] = "none"
  BY NoAnswer DEF IInv, Upgrade, Listeners, TypeOK, Statuses
<1>2. /\ answers' = [answers EXCEPT ![k] = Append(<<>>, 101)]
      /\ request' = [request EXCEPT ![k] = "done"]
      /\ ws' = [ws EXCEPT ![k] = "open"]
      /\ clients' = clients \cup {k}
      /\ HandleConnection(k)
      /\ UNCHANGED socket
      /\ UNCHANGED <<state, shouldEmitClose, ticks, calls, verify, anyRules, unheard>>
  BY <1>1 DEF Accept, Answer, Request, OfServer, IInv, TypeOK
<1>3. 101 \in Statuses
  BY DEF Statuses
<1>4. /\ Append(<<>>, 101) \in Seq(Statuses) /\ Len(Append(<<>>, 101)) = 1
      /\ Append(<<>>, 101) = <<101>>
  BY <1>3, FirstAnswer
<1>5. /\ handler' \in [Client -> {"none", "testing", "listening", "ignored", "thrown"}]
      /\ remote' \in [Client -> {"none", "up", "closed"}]
      /\ awaited' \in SUBSET Client /\ awaited \subseteq awaited'
      /\ handler'[k] \in {"testing", "listening", "thrown"}
      /\ handler'[k] = "testing" => k \in awaited'
      /\ \A x \in Client \ {k} : handler'[x] = handler[x] /\ remote'[x] = remote[x]
  <2>1. CASE anyRules
    BY <1>2, <2>1 DEF HandleConnection, IInv, TypeOK
  <2>2. CASE ~anyRules
    BY <1>2, <2>2, HandleListens DEF HandleConnection, IInv, TypeOK
  <2>3. QED
    BY <2>1, <2>2
<1>6. TypeOK'
  BY ZenonT(40), <1>2, <1>4, <1>5 DEF IInv, TypeOK
<1>7. Shutdown'
  BY <1>2 DEF IInv, Shutdown
<1>8. ASSUME NEW x \in Client
      PROVE  Upgrade(x)' /\ Listeners(x)' /\ (ws[x] = "open" <=> x \in clients)'
  <2>1. Upgrade(x) /\ Listeners(x) /\ (ws[x] = "open" <=> x \in clients)
    BY DEF IInv
  <2>2. CASE x = k
    <3>1. /\ ws'[k] = "open" /\ answers'[k] = <<101>> /\ Len(answers'[k]) = 1
          /\ request'[k] = "done"
      BY <1>2, <1>4 DEF IInv, TypeOK
    <3>2. Upgrade(x)' /\ (ws[x] = "open" <=> x \in clients)'
      BY <1>2, <2>2, <3>1, <1>4 DEF Upgrade, IInv, TypeOK
    <3>3. k \notin unheard \/ k \in awaited
      BY <1>1, <2>1, <2>2 DEF Listeners, Excused
    <3>4. Listeners(x)'
      BY <1>2, <1>5, <2>2, <3>1, <3>3 DEF Listeners, Excused
    <3>5. QED
      BY <3>2, <3>4
  <2>3. CASE x # k
    <3>1. /\ ws'[x] = ws[x] /\ answers'[x] = answers[x] /\ request'[x] = request[x]
          /\ handler'[x] = handler[x] /\ remote'[x] = remote[x]
      BY <1>2, <1>5, <2>3 DEF IInv, TypeOK
    <3>2. QED
      BY <1>2, <1>5, <2>1, <2>3, <3>1 DEF Upgrade, Listeners, Excused
  <2>4. QED
    BY <2>2, <2>3
<1>9. QED
  BY <1>6, <1>7, <1>8 DEF IInv

LEMMA CompleteUpgradeKeepsIInv ==
    ASSUME IInv, NEW k \in Client, request[k] # "done", Request(k, "done"),
           UNCHANGED OfServer, CompleteUpgrade(k)
    PROVE  IInv'
<1>1. CASE /\ socket' = [socket EXCEPT ![k] = "destroyed"]
           /\ UNCHANGED answers
           /\ NotAccepted
  <2>1. /\ request' = [request EXCEPT ![k] = "done"]
        /\ UNCHANGED <<clients, ws, handler, remote, awaited, answers>>
        /\ UNCHANGED <<state, shouldEmitClose, ticks, calls, verify, anyRules, unheard>>
    BY <1>1 DEF NotAccepted, Request, OfServer
  <2>2. TypeOK'
    BY <1>1, <2>1 DEF IInv, TypeOK
  <2>3. Shutdown'
    BY <2>1 DEF IInv, Shutdown
  <2>4. ASSUME NEW x \in Client
        PROVE  Upgrade(x)' /\ Listeners(x)' /\ (ws[x] = "open" <=> x \in clients)'
    <3>1. request'[x] # "done" => request[x] # "done"
      BY <2>1 DEF IInv, TypeOK
    <3>2. QED
      BY <2>1, <3>1 DEF IInv, Upgrade, Listeners, Excused
  <2>5. QED
    BY <2>2, <2>3, <2>4 DEF IInv
<1>2. CASE AbortHandshake(k, 503)
  <2>1. 503 \in Statuses \ {101}
    BY DEF Statuses
  <2>2. QED
    BY <1>2, <2>1, AbortKeepsIInv
<1>3. CASE state = "RUNNING" /\ Accept(k)
  BY <1>3, AcceptKeepsIInv
<1>4. QED
  BY <1>1, <1>2, <1>3 DEF CompleteUpgrade

-----------------------------------------------------------------------------
(***************************************************************************)
(* The connection and the server                                           *)
(***************************************************************************)

\* The rules of a WebSocket were awaited before they are tested, so whatever was
\* missed meanwhile has its excuse.
LEMMA RulesTestedKeepsIInv ==
    ASSUME IInv, NEW k \in Client, RulesTested(k)
    PROVE  IInv'
<1>1. /\ UNCHANGED <<serverVars, anyRules, request, socket, answers, ws, unheard, awaited>>
      /\ handler[k] = "testing" /\ k \in awaited /\ ws[k] # "none"
  BY DEF RulesTested, IInv, Listeners
<1>2. /\ handler' \in [Client -> {"none", "testing", "listening", "ignored", "thrown"}]
      /\ remote' \in [Client -> {"none", "up", "closed"}]
      /\ handler'[k] # "none"
      /\ \A x \in Client \ {k} : handler'[x] = handler[x] /\ remote'[x] = remote[x]
  <2>1. CASE Handle(k, handler)
    BY <2>1, HandleListens
  <2>2. CASE handler' = [handler EXCEPT ![k] = "ignored"] /\ UNCHANGED remote
    BY <2>2 DEF IInv, TypeOK
  <2>3. QED
    BY <2>1, <2>2 DEF RulesTested
<1>3. TypeOK' /\ Shutdown'
  BY <1>1, <1>2 DEF IInv, TypeOK, Shutdown, serverVars
<1>4. ASSUME NEW x \in Client
      PROVE  Upgrade(x)' /\ Listeners(x)' /\ (ws[x] = "open" <=> x \in clients)'
  <2>1. Upgrade(x) /\ Listeners(x) /\ (ws[x] = "open" <=> x \in clients)
    BY DEF IInv
  <2>2. Upgrade(x)' /\ (ws[x] = "open" <=> x \in clients)'
    BY <1>1, <2>1 DEF Upgrade, serverVars
  <2>3. Listeners(x)'
    BY <1>1, <1>2, <2>1 DEF Listeners, Excused
  <2>4. QED
    BY <2>2, <2>3
<1>5. QED
  BY <1>3, <1>4 DEF IInv

\* Nobody misses an event of a WebSocket but a handler that was late or threw.
LEMMA EventEmittedKeepsIInv ==
    ASSUME IInv, NEW k \in Client, EventEmitted(k)
    PROVE  IInv'
<1>1. /\ UNCHANGED <<serverVars, anyRules, request, socket, answers, ws, handler, remote,
                     awaited>>
      /\ unheard' = unheard \cup {k}
      /\ ws[k] = "open" /\ handler[k] # "listening"
  BY DEF EventEmitted, Heard
<1>2. TypeOK' /\ Shutdown'
  BY <1>1 DEF IInv, TypeOK, Shutdown, serverVars
<1>3. Excused(k)
  <2>1. handler[k] \in {"none", "testing", "listening", "ignored", "thrown"}
    BY DEF IInv, TypeOK
  <2>2. QED
    BY <1>1, <2>1 DEF IInv, Listeners, Excused
<1>4. ASSUME NEW x \in Client
      PROVE  Upgrade(x)' /\ Listeners(x)' /\ (ws[x] = "open" <=> x \in clients)'
  BY <1>1, <1>3 DEF IInv, Upgrade, Listeners, Excused, serverVars
<1>5. QED
  BY <1>2, <1>4 DEF IInv

\* 'close' of a WebSocket: the last one of a closing server puts the server's
\* 'close' on the queue.
LEMMA ConnectionClosesKeepsIInv ==
    ASSUME IInv, NEW k \in Client, ticks = 0, ConnectionCloses(k)
    PROVE  IInv'
<1>1. /\ ws[k] = "open"
      /\ ws' = [ws EXCEPT ![k] = "closed"]
      /\ clients' = clients \ {k}
      /\ ticks' = IF shouldEmitClose /\ clients' = {} THEN ticks + 1 ELSE ticks
      /\ remote' = IF Heard(k) THEN [remote EXCEPT ![k] = "closed"] ELSE remote
      /\ unheard' = IF Heard(k) THEN unheard ELSE unheard \cup {k}
      /\ UNCHANGED <<state, shouldEmitClose, calls, verify, anyRules, request, socket,
                     answers, handler, awaited>>
  BY DEF ConnectionCloses
<1>2. k \in clients /\ handler[k] # "none" /\ answers[k] = <<101>>
  BY <1>1 DEF IInv, Upgrade, Listeners
<1>3. TypeOK'
  BY <1>1 DEF IInv, TypeOK
<1>4. Shutdown'
  <2>1. state # "CLOSED"
    BY <1>2 DEF IInv, Shutdown
  <2>2. CASE state = "RUNNING"
    BY <1>1, <2>2 DEF IInv, Shutdown
  <2>3. CASE state = "CLOSING"
    BY <1>1, <2>3 DEF IInv, Shutdown
  <2>4. QED
    BY <2>1, <2>2, <2>3 DEF IInv, TypeOK
<1>5. ASSUME NEW x \in Client
      PROVE  Upgrade(x)' /\ Listeners(x)' /\ (ws[x] = "open" <=> x \in clients)'
  <2>1. Upgrade(x) /\ Listeners(x) /\ (ws[x] = "open" <=> x \in clients)
    BY DEF IInv
  <2>2. CASE x # k
    <3>1. ws'[x] = ws[x] /\ remote'[x] = remote[x] /\ (x \in clients' <=> x \in clients)
      BY <1>1, <2>2 DEF IInv, TypeOK
    <3>2. x \in unheard' <=> x \in unheard
      BY <1>1, <2>2
    <3>3. QED
      BY <1>1, <2>1, <3>1, <3>2 DEF Upgrade, Listeners, Excused
  <2>3. CASE x = k
    <3>1. ws'[k] = "closed" /\ k \notin clients'
      BY <1>1 DEF IInv, TypeOK
    <3>2. Upgrade(x)' /\ (ws[x] = "open" <=> x \in clients)'
      BY <1>1, <1>2, <2>1, <2>3, <3>1 DEF Upgrade
    <3>3. CASE Heard(k)
      <4>1. remote'[k] = "closed" /\ unheard' = unheard
        BY <1>1, <3>3 DEF IInv, TypeOK
      <4>2. QED
        BY <1>1, <1>2, <2>1, <2>3, <3>1, <3>2, <4>1 DEF Listeners, Excused
    <3>4. CASE ~Heard(k)
      <4>1. handler[k] \in {"testing", "ignored", "thrown"}
        BY <1>2, <3>4 DEF Heard, IInv, TypeOK
      <4>2. Excused(k)
        BY <2>1, <2>3, <4>1 DEF Listeners, Excused
      <4>3. QED
        BY <1>1, <1>2, <2>1, <2>3, <3>1, <3>2, <4>2 DEF Listeners, Excused
    <3>5. QED
      BY <3>3, <3>4
  <2>4. QED
    BY <2>2, <2>3
<1>6. QED
  BY <1>3, <1>4, <1>5 DEF IInv

\* What leaves the clients alone.
LEMMA ServerStepKeepsIInv ==
    ASSUME IInv, UNCHANGED <<clients, clientVars>>, TypeOK', Shutdown'
    PROVE  IInv'
BY DEF IInv, clientVars, Upgrade, Listeners, Excused

\* close(): with nobody left, the server's 'close' is put on the queue at once.
LEMMA CloseServerKeepsIInv ==
    ASSUME IInv, ticks = 0, CloseServer
    PROVE  IInv'
<1>1. /\ state' \in {"RUNNING", "CLOSING", "CLOSED"}
      /\ shouldEmitClose' \in BOOLEAN /\ ticks' \in Nat /\ calls' \in Nat
  <2>1. calls' \in Nat /\ ticks' \in Nat /\ state' \in {"RUNNING", "CLOSING", "CLOSED"}
    BY DEF IInv, TypeOK, CloseServer
  <2>2. shouldEmitClose' = shouldEmitClose \/ shouldEmitClose' = TRUE
    BY DEF CloseServer
  <2>3. QED
    BY <2>1, <2>2 DEF IInv, TypeOK
<1>2. TypeOK'
  BY <1>1 DEF IInv, TypeOK, CloseServer, clientVars
<1>3. Shutdown'
  BY DEF IInv, TypeOK, Shutdown, CloseServer
<1>4. QED
  BY <1>2, <1>3, ServerStepKeepsIInv DEF CloseServer

LEMMA EmitCloseKeepsIInv ==
    ASSUME IInv, EmitClose
    PROVE  IInv'
<1>1. TypeOK'
  BY DEF IInv, TypeOK, EmitClose, clientVars
<1>2. Shutdown'
  BY DEF IInv, TypeOK, Shutdown, EmitClose
<1>3. QED
  BY <1>1, <1>2, ServerStepKeepsIInv DEF EmitClose

\* The socket of a request, and how far the request is, as long as it is not done.
LEMMA WaitingKeepsIInv ==
    ASSUME IInv, NEW k \in Client,
           UNCHANGED <<serverVars, anyRules, answers, ws, handler, remote, unheard, awaited>>,
           request[k] # "done",
           request' \in [Client -> {"none", "verifying", "done"}],
           \A x \in Client \ {k} : request'[x] = request[x],
           socket' \in [Client -> {"up", "fin", "destroyed"}]
    PROVE  IInv'
<1>1. TypeOK' /\ Shutdown'
  BY DEF IInv, TypeOK, Shutdown, serverVars
<1>2. ASSUME NEW x \in Client
      PROVE  Upgrade(x)' /\ Listeners(x)' /\ (ws[x] = "open" <=> x \in clients)'
  BY DEF IInv, Upgrade, Listeners, Excused, serverVars
<1>3. QED
  BY <1>1, <1>2 DEF IInv

LEMMA NextKeepsIInv == IInv /\ [Next]_vars => IInv'
<1> SUFFICES ASSUME IInv, [Next]_vars PROVE IInv'
  OBVIOUS
<1>1. CASE EmitClose
  BY <1>1, EmitCloseKeepsIInv
<1>2. CASE AddRule
  <2>1. TypeOK' /\ Shutdown' /\ UNCHANGED <<clients, clientVars>>
    BY <1>2 DEF AddRule, IInv, TypeOK, Shutdown, serverVars, clientVars
  <2>2. QED
    BY <2>1, ServerStepKeepsIInv
<1>3. CASE ticks = 0 /\ CloseServer
  BY <1>3, CloseServerKeepsIInv
<1>4. ASSUME NEW k \in Client, NEW f \in DOMAIN Refusal, RefuseUpgrade(k, f)
      PROVE  IInv'
  <2>1. Refusal[f] \in Statuses \ {101}
    BY RefusalsRefuse
  <2>2. QED
    BY <1>4, <2>1, AbortKeepsIInv DEF RefuseUpgrade
<1>5. ASSUME NEW k \in Client, HandleUpgrade(k) \/ Verified(k) PROVE IInv'
  BY <1>5, CompleteUpgradeKeepsIInv DEF HandleUpgrade, Verified
<1>6. ASSUME NEW k \in Client, NotVerified(k) PROVE IInv'
  <2>1. "verifyClient" \in DOMAIN Refusal
    BY DEF Refusal
  <2>2. Refusal.verifyClient \in Statuses \ {101}
    BY <2>1, RefusalsRefuse
  <2>3. QED
    BY <1>6, <2>2, AbortKeepsIInv DEF NotVerified
<1>7. ASSUME NEW k \in Client, AskVerifyClient(k) PROVE IInv'
  <2>1. /\ request' \in [Client -> {"none", "verifying", "done"}]
        /\ \A x \in Client \ {k} : request'[x] = request[x]
        /\ socket' \in [Client -> {"up", "fin", "destroyed"}]
    BY <1>7 DEF AskVerifyClient, Request, IInv, TypeOK
  <2>2. /\ UNCHANGED <<serverVars, anyRules, answers, ws, handler, remote, unheard, awaited>>
        /\ request[k] # "done"
    BY <1>7 DEF AskVerifyClient, NotAccepted, OfServer, serverVars
  <2>3. QED
    BY <2>1, <2>2, WaitingKeepsIInv
<1>8. ASSUME NEW k \in Client, NEW how \in {"fin", "destroyed"}, ClientGivesUp(k, how)
      PROVE  IInv'
  <2>1. /\ UNCHANGED <<serverVars, anyRules, answers, ws, handler, remote, unheard, awaited>>
        /\ request[k] # "done" /\ request' = request
        /\ socket' \in [Client -> {"up", "fin", "destroyed"}]
    BY <1>8 DEF ClientGivesUp, IInv, TypeOK
  <2>2. QED
    BY <2>1, WaitingKeepsIInv DEF IInv, TypeOK
<1>9. ASSUME NEW k \in Client, RulesTested(k) PROVE IInv'
  BY <1>9, RulesTestedKeepsIInv
<1>10. ASSUME NEW k \in Client, EventEmitted(k) PROVE IInv'
  BY <1>10, EventEmittedKeepsIInv
<1>11. ASSUME ticks = 0, NEW k \in Client, ConnectionCloses(k) PROVE IInv'
  BY <1>11, ConnectionClosesKeepsIInv
<1>12. CASE UNCHANGED vars
  BY <1>12 DEF vars, serverVars, clientVars, IInv, TypeOK, Shutdown, Upgrade, Listeners, Excused
<1>13. QED
  BY <1>1, <1>2, <1>3, <1>4, <1>5, <1>6, <1>7, <1>8, <1>9, <1>10, <1>11, <1>12 DEF Next

LEMMA IInvInvariant == Spec => []IInv
BY InitIInv, NextKeepsIInv, PTL DEF Spec

-----------------------------------------------------------------------------

\* The variables of WsAccept keep their types.
THEOREM TypeCorrect == Spec => []TypeOK
<1>1. IInv => TypeOK
  BY DEF IInv
<1>2. QED
  BY IInvInvariant, <1>1, PTL

\* Every upgrade request is answered once at most, with 101 exactly when a
\* WebSocket comes of it: no refusal, at once or by a late verifyClient, is
\* followed by another answer.
THEOREM AnsweredOnce == Spec => []OneAnswer
<1>1. IInv => OneAnswer
  BY DEF IInv, Upgrade, OneAnswer
<1>2. QED
  BY IInvInvariant, <1>1, PTL

\* The server's 'close' comes when no client is left and none will come, and is
\* on its way as soon as the last one has left a closing server.
THEOREM ClosesWhenEmpty == Spec => []ClosedWhenEmpty
<1>1. IInv => ClosedWhenEmpty
  BY DEF IInv, TypeOK, Shutdown, ClosedWhenEmpty
<1>2. QED
  BY IInvInvariant, <1>1, PTL

\* Without rules no event of a client is missed: what is unheard, and a
\* destination left without its client, comes of an await or an exception
\* between the upgrade and the handler's listeners.
THEOREM NothingMissedWithoutAwait == Spec => []UnheardForAReason
<1>1. IInv => UnheardForAReason
  BY DEF IInv, Listeners, Excused, UnheardForAReason
<1>2. QED
  BY IInvInvariant, <1>1, PTL
=============================================================================
