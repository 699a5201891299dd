--------------------------- MODULE HttpPassThrough ---------------------------
(***************************************************************************)
(* PPPassThroughHttpHandler.handle (src/src/handler/http-handler.ts): a    *)
(* request no rule claims is fetched from its destination, and the answer  *)
(* is piped to the client or given to a callback that may change it.       *)
(* Between the awaits of one request the client may leave, the             *)
(* destination may fail, and other requests and the program use the static *)
(* agent list.                                                             *)
(***************************************************************************)
EXTENDS Naturals, Sequences

CONSTANTS
    Passed,       \* the requests no rule claimed
    MaxAgents,    \* bound: length of an agent list
    MaxLists      \* bound: how often the program sets PPPassThroughHttpHandler.agents

ASSUME BoundsAssumption == MaxAgents \in Nat /\ MaxLists \in Nat

VARIABLES
    agents,       \* length of the static list `agents`
    agentCurrent, \* the static index into it
    lists,        \* counts the lists the program has set
    taken,        \* history: the indices taken from the current list
    at,           \* which await of handle() a request is at
    inject,       \* requests whose handler has a callbackInjectBuffer
    upstream,     \* the fetch: none, pending, streaming, complete, failed, aborted
    heard,        \* requests whose listeners on `body` and `req` are attached
    closed,       \* requests whose stream `req` has emitted 'close'
    gone,         \* requests whose client has left
    headers,      \* what writeHead() or status() said: none, forwarded or error
    ended,        \* requests whose res.end() was called
    missed        \* history: 'close' was emitted before anybody listened

agentVars   == <<agents, agentCurrent, lists, taken>>
requestVars == <<at, inject, upstream, heard, closed, gone, headers, ended, missed>>
fetchVars   == <<agentVars, requestVars>>

FetchTypeOK ==
    /\ agents \in 0..MaxAgents
    /\ agentCurrent \in Nat
    /\ lists \in 0..MaxLists
    /\ taken \in Seq(Nat)
    /\ at \in [Passed -> {"new", "fetching", "buffering", "injecting", "piping",
                          "returned", "thrown"}]
    /\ upstream \in [Passed -> {"none", "pending", "streaming", "complete",
                                "failed", "aborted"}]
    /\ headers \in [Passed -> {"none", "forwarded", "error"}]
    /\ {inject, heard, closed, gone, ended, missed} \subseteq SUBSET Passed

\* The static fields are as earlier requests have left them: the index is one of
\* a list that may have been longer.
FetchInit ==
    /\ agents \in 0..MaxAgents
    /\ agentCurrent \in 0..(IF MaxAgents = 0 THEN 0 ELSE MaxAgents - 1)
    /\ lists = 0
    /\ taken = <<>>
    /\ at = [r \in Passed |-> "new"]
    /\ inject \in SUBSET Passed
    /\ upstream = [r \in Passed |-> "none"]
    /\ heard = {}
    /\ closed = {}
    /\ gone = {}
    /\ headers = [r \in Passed |-> "none"]
    /\ ended = {}
    /\ missed = {}

-----------------------------------------------------------------------------
(***************************************************************************)
(* The agents                                                              *)
(***************************************************************************)

\* The program replaces the list; the index stays where it is.
SetAgents(n) ==
    /\ lists < MaxLists
    /\ agents' = n
    /\ lists' = lists + 1
    /\ taken' = <<>>
    /\ UNCHANGED <<agentCurrent, requestVars>>

\* Mutant of TakeAgent: the index wraps around one agent too late.
TakeAgentLate ==
    IF agents = 0 THEN UNCHANGED agentVars
    ELSE /\ taken' = Append(taken, agentCurrent)
         /\ agentCurrent' = IF agentCurrent + 1 > agents THEN 0 ELSE agentCurrent + 1
         /\ UNCHANGED <<agents, lists>>

\* agents[agentCurrent++], which is undefined beyond the end of a shorter list.
TakeAgent ==
    IF agents = 0 THEN UNCHANGED agentVars
    ELSE /\ taken' = Append(taken, agentCurrent)
         /\ agentCurrent' = IF agentCurrent + 1 >= agents THEN 0 ELSE agentCurrent + 1
         /\ UNCHANGED <<agents, lists>>

-----------------------------------------------------------------------------
(***************************************************************************)
(* One call of handle()                                                    *)
(***************************************************************************)

Goto(r, p)      == at' = [at EXCEPT ![r] = p]
Upstream(r, u)  == upstream' = [upstream EXCEPT ![r] = u]
WriteHead(r, h) == headers' = [headers EXCEPT ![r] = IF @ = "none" THEN h ELSE @]
End(r)          == ended' = ended \cup {r}

\* handle(), up to the await of nodeFetch().
HandlePassThrough(r) ==
    /\ at[r] = "new"
    /\ Goto(r, "fetching")
    /\ Upstream(r, "pending")
    /\ TakeAgent
    /\ UNCHANGED <<inject, heard, closed, gone, headers, ended, missed>>

\* The catch: status(500).end(), and handle() returns.
FetchFails(r) ==
    /\ upstream[r] = "pending"
    /\ Upstream(r, "failed")
    /\ Goto(r, "returned")
    /\ WriteHead(r, "error")
    /\ End(r)
    /\ UNCHANGED <<agentVars, inject, heard, closed, gone, missed>>

\* Mutant of FetchAnswers: no listeners.
FetchAnswersUnheard(r) ==
    /\ upstream[r] = "pending"
    /\ Upstream(r, "streaming")
    /\ IF r \in inject THEN Goto(r, "buffering") /\ UNCHANGED headers
       ELSE Goto(r, "piping") /\ WriteHead(r, "forwarded")
    /\ UNCHANGED <<agentVars, inject, heard, closed, gone, ended, missed>>

\* The destination's headers are there: the listeners are attached, and the body
\* is collected for the callback or piped to the client.
FetchAnswers(r) ==
    /\ upstream[r] = "pending"
    /\ Upstream(r, "streaming")
    /\ heard' = heard \cup {r}
    /\ IF r \in inject THEN Goto(r, "buffering") /\ UNCHANGED headers
       ELSE Goto(r, "piping") /\ WriteHead(r, "forwarded")
    /\ UNCHANGED <<agentVars, inject, closed, gone, ended, missed>>

\* The listeners are attached, but writeHead() throws on the status or a header of
\* the destination: nobody reads the body, which may still fail or be aborted.
HeadRefused(r) ==
    /\ upstream[r] = "pending"
    /\ r \notin inject
    /\ Upstream(r, "streaming")
    /\ heard' = heard \cup {r}
    /\ Goto(r, "thrown")
    /\ UNCHANGED <<agentVars, inject, closed, gone, headers, ended, missed>>

\* The whole body was read: buffer() resolves and the callback is called, or the
\* pipe ends the response.
BodyEnds(r) ==
    /\ upstream[r] = "streaming"
    /\ at[r] # "thrown"
    /\ Upstream(r, "complete")
    /\ IF at[r] = "buffering" THEN Goto(r, "injecting") /\ UNCHANGED ended
       ELSE Goto(r, "returned") /\ End(r)
    /\ UNCHANGED <<agentVars, inject, heard, closed, gone, headers, missed>>

\* 'error' of the body, with or without an abort: the listener says status(500),
\* which headers that were sent do not, and ends the response; buffer() rejects
\* and handle() returns.
BodyError(r, how) ==
    /\ Upstream(r, how)
    /\ Goto(r, IF at[r] = "thrown" THEN "thrown" ELSE "returned")
    /\ IF r \in heard THEN WriteHead(r, "error") /\ End(r)
       ELSE UNCHANGED <<headers, ended>>

BodyFails(r) ==
    /\ upstream[r] = "streaming"
    /\ BodyError(r, "failed")
    /\ UNCHANGED <<agentVars, inject, heard, closed, gone, missed>>

\* The await of callbackInjectBuffer() returns.
InjectReturns(r) ==
    /\ at[r] = "injecting"
    /\ Goto(r, "returned")
    /\ WriteHead(r, "forwarded")
    /\ End(r)
    /\ UNCHANGED <<agentVars, inject, upstream, heard, closed, gone, missed>>

\* It throws, or its result cannot be written: nothing ends the response.
InjectThrows(r) ==
    /\ at[r] = "injecting"
    /\ Goto(r, "thrown")
    /\ UNCHANGED <<agentVars, inject, upstream, heard, closed, gone, headers, ended,
                   missed>>

-----------------------------------------------------------------------------
(***************************************************************************)
(* The client                                                              *)
(***************************************************************************)

\* Mutant of RequestCloses: the test of writableEnded is negated.
RequestClosesEnded(r) ==
    /\ closed' = closed \cup {r}
    /\ missed' = IF r \in heard THEN missed ELSE missed \cup {r}
    /\ IF r \in heard \ closed /\ r \in ended /\ upstream[r] = "streaming"
       THEN BodyError(r, "aborted")
       ELSE UNCHANGED <<at, upstream, headers, ended>>

\* 'close' of `req`: once, and heard only after the fetch was answered.  abort()
\* emits 'error' on a body that has not ended.
RequestCloses(r) ==
    /\ closed' = closed \cup {r}
    /\ missed' = IF r \in heard \cup closed THEN missed ELSE missed \cup {r}
    /\ IF r \in heard \ closed /\ r \notin ended /\ upstream[r] = "streaming"
       THEN BodyError(r, "aborted")
       ELSE UNCHANGED <<at, upstream, headers, ended>>

ClientLeaves(r) ==
    /\ r \notin gone
    /\ gone' = gone \cup {r}
    /\ RequestCloses(r)
    /\ UNCHANGED <<agentVars, inject, heard>>

\* From Node 16 on `req` emits 'close' when its body was read to the end, with
\* the client still there; before, only the connection closes it.
UploadRead(r) ==
    /\ at[r] # "new"
    /\ r \notin closed
    /\ RequestCloses(r)
    /\ UNCHANGED <<agentVars, inject, heard, gone>>

-----------------------------------------------------------------------------
Destination(r) ==
    \/ FetchFails(r)
    \/ FetchAnswers(r)
    \/ HeadRefused(r)
    \/ BodyEnds(r)
    \/ BodyFails(r)

InjectEnds(r)  == InjectReturns(r) \/ InjectThrows(r)

FetchNext ==
    \/ \E n \in 0..MaxAgents : SetAgents(n)
    \/ \E r \in Passed : \/ HandlePassThrough(r) \/ Destination(r) \/ InjectEnds(r)
                         \/ ClientLeaves(r) \/ UploadRead(r)

(***************************************************************************)
(* The program's callback returns or throws.  Nothing is assumed of the    *)
(* destination or of the client: the handler sets no timeout, and a        *)
(* destination that stays silent leaves the request where it is for ever.  *)
(***************************************************************************)
FetchFairness == \A r \in Passed : WF_fetchVars(InjectEnds(r))

FetchSpec == FetchInit /\ [][FetchNext]_fetchVars /\ FetchFairness

-----------------------------------------------------------------------------
(***************************************************************************)
(* Properties                                                              *)
(***************************************************************************)

FetchOver(r) == upstream[r] \in {"complete", "failed", "aborted"}

\* A body that fails after its head was forwarded cannot be taken back: the
\* response is ended as if it were complete.
Piped(r) == r \in heard /\ r \notin inject

AnsweredAsFetched(r) ==
    /\ r \in ended
    /\ headers[r] = IF upstream[r] = "complete" \/ Piped(r) THEN "forwarded" ELSE "error"

\* Once its fetch is over, in whatever way and with the client there or not, a
\* request is answered to the end, and as the fetch went: an error is told as 500
\* whenever the head was not sent yet, which is so for every injected body.  The
\* exception is a handle() that throws, in the callback or in writeHead().
EveryRequestEnds ==
    \A r \in Passed : FetchOver(r) ~> (AnsweredAsFetched(r) \/ at[r] = "thrown")

\* The destination of a client that left is let go: a body that goes on is that
\* of a request whose 'close' came before the fetch was answered, when nobody
\* listened for it.
OnlyMissedCloses ==
    \A r \in gone : upstream[r] = "streaming" => r \in missed

\* The requests take the agents in turn.  The index outlives the list, so the
\* first one after the list was replaced may take an agent that does not exist,
\* and no other.
AgentsRotate ==
    \A k \in 2..Len(taken) :
        /\ taken[k] < agents
        /\ taken[k - 1] < agents => taken[k] = (taken[k - 1] + 1) % agents
=============================================================================
