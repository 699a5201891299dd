# A TLA+ model of pms-proxy

pms-proxy is an intercepting HTTP, HTTPS and WebSocket proxy in TypeScript
(`src/src`), with its own copy of the `ws` 8.7 library (`src/ws/lib`), whose
connections it terminates and joins. This directory holds TLA+ modules of the
parts whose correctness depends on the order of events, TLC configurations that
check them on small instances, and proofs of their main theorems for TLAPS.

Paths below are relative to `src/`.

## 1. The system

### Components, their state and their operations

| component | source | state | operations |
|---|---|---|---|
| Server | `src/server/server.ts` | `rules`, options | `addRule`, `listen`, `stop`, `handleExpressRequest`, `handleConnect` |
| CONNECT tunnel | `server.ts:149-231` | two sockets per tunnel | `handlePassThroughTLS`, `handleH1Connect` |
| ComboServer | `src/server/combo-server.ts` | three servers, per-socket sniffing | `connectionListener`, `handleSocket`, `http2Listener` |
| Rules | `src/rule/*.ts` | `listMatch`, `handler` per rule | `match` and its shorthands, `then`, `test`, `handle` |
| HTTP pass-through | `src/handler/http-handler.ts` | one fetch per request, agent index | `handle`, `injectBody` ... |
| WebSocket proxy | `src/server/ws.ts` | `rules`, a `WebSocketServer` | `handleUpgrade`, `handleConnection` |
| WebSocket bridge | `src/handler/ws-handler.ts` | `queueData`, two connections | the listeners `handle` attaches |
| Certificate authority | `src/ca.ts` | key pair, certificate cache | `initCA`, `generateCertificate` |
| WebSocketServer | `ws/lib/websocket-server.js` | `clients`, `_state` | `handleUpgrade`, `completeUpgrade`, `close` |
| WebSocket connection | `ws/lib/websocket.js` | `readyState`, close flags, timer, pause flags | `close`, `send`, `ping`, `pong`, `terminate`, `pause`, `resume`, listeners |
| Sender | `ws/lib/sender.js` | queue, `_deflating`, `_bufferedBytes`, fragment state | `send`, `ping`, `pong`, `close`, `dispatch`, `dequeue` |
| Receiver | `ws/lib/receiver.js` | buffered chunks, parser state, fragments | `_write`, `startLoop`, the six parser states |
| permessage-deflate | `ws/lib/permessage-deflate.js` | one deflate and one inflate stream | `accept`, `compress`, `decompress`, `cleanup` |
| Limiter | `ws/lib/limiter.js` | job queue, `pending` | `add`, `kDone`, `kRun` |

How they interact. A socket is sniffed by ComboServer and given to the HTTP
server; a request walks the rules (`RuleDispatch`), the first that accepts it
handles it, or the pass-through handler does. An upgrade is completed by
WebSocketServer at once; then the connection walks the WebSocket rules; the
pass-through bridge opens a second connection to the destination and joins the
two by listeners (`WsBridge`). Each connection (`WebSocket`) owns a Sender and a
Receiver, which share permessage-deflate streams; all deflate and inflate jobs
of the process go through one Limiter.

Everything runs on one thread. What interleaves are the turns of the event loop:
socket events, timers, zlib's answers, `process.nextTick` and the promises of
asynchronous rules.

### What is hard here, and what makes each part correct

- *Two state machines joined by events.* A close of one side, on any of six
  paths, has to close the other one, with a code that may be sent. (bridge)
- *Messages before the second connection is open* are queued and flushed one
  second after it opens; messages in that second take another path. (bridge)
- *The closing handshake*: both sides close at once, a peer never answers, the
  socket dies with data unread and unparsed, the program pauses the socket, zlib
  is late. Exactly one `'close'`, after every message. (connection)
- *Asynchronous compression*: calls made meanwhile queue; the socket may die
  first; fragments and control frames interleave. Frames leave in call order and
  well formed. (Sender)
- *A shared resource with a limit*. Never exceeded, never idle while somebody
  waits, fair. (Limiter)
- *One parser, bytes cut anywhere*. Fragments, control frames between them,
  zlib's late answers and limits: what is emitted must not depend on the chunks,
  and each chunk is answered once. (Receiver)
- *Streams that outlive their connection*. A job may wait in the limiter when its
  connection is cleaned up, or its stream be closed under it. (permessage-deflate)
- *Listeners attached late*. A WebSocket is accepted before anybody listens to it,
  and the abort of a fetch is armed after the fetch was answered. (WebSocket
  proxy, HTTP pass-through)
- *A protocol guessed from its first bytes*, and two sockets that end in any
  order. (ComboServer, CONNECT tunnel)
- *Awaits in a loop over live arrays*. The first matching rule wins, verdicts
  are never mixed up. (rules)

`PROJECT.json` lists these hazards one by one, with their lines and the
properties that cover them, and those not covered yet with the reason.

## 2. The modules

| module | models | kind |
|---|---|---|
| `Limiter` | `limiter.js` | state machine |
| `Sender` | `sender.js` | state machine |
| `WebSocketOps` | methods and listeners of one connection as functions on a record | operators, shared |
| `WebSocket` | one connection in an open environment, over `WebSocketOps` | state machine |
| `WebSocketLife` | what a connection promises to its program | abstract specification |
| `WsBridge` | `ws-handler.ts` joining two connections, over `WebSocketOps` | composition |
| `RuleDispatch` | the loops of `server.ts` and `ws.ts` over `rule.ts` | state machine |
| `Receiver` | `receiver.js` under chunks cut anywhere | state machine |
| `PerMessageDeflate` | the streams and jobs of `permessage-deflate.js`, over `Limiter` | state machine, refines `Limiter` |
| `Negotiation` | `offer()` and `accept()` of `permessage-deflate.js` | pure functions |
| `WsAccept` | `websocket-server.js` and the acceptance half of `ws.ts` | state machine |
| `HttpPassThrough` | `http-handler.ts` | state machine |
| `ComboServer` | `combo-server.ts`, one socket | actions |
| `ConnectTunnel` | CONNECT in `server.ts`, on top of `ComboServer` | composition |
| `*_proofs` | theorems and proofs about the module they are named after; `Server_proofs` about `RuleDispatch`, `HttpPassThrough` and `ConnectTunnel` with `ComboServer`, `PerMessageDeflate_proofs` about `Negotiation` as well | proofs |
| `MC*` | what TLC needs beside the `.cfg` | model checking |

### Limiter

`jobs` and `pending` are the code's fields. A job is started synchronously inside
`add()` or `done()`, so `Add` and `Done` are one action each, ending in `Run`
(`kRun`). `running`, `added` and `started` are history: who holds a slot, and the
orders of calls and starts.

### Sender

A frame is a record of its opcode class, FIN, RSV1, whether it is compressed, its
length and its place in the history of calls; bytes, masks and length encodings
are left out. `Control` is `close`, `ping` and `pong`, which have the same body;
`Send` is `send`. `Submit` is their common tail: enqueue while `_deflating`,
otherwise go ahead. `Dequeue` states the result of the loop of `dequeue()`: the
longest run of frames that need no compression is written, the next one occupies
the compressor. `Compressed` and `CompressedTooLate` are the two branches of the
compress callback. `Bytes(s)` is the sum of the lengths of a sequence of frames,
a recursive function over its prefixes. Calls come only while the socket lives, because `WebSocket`
calls the sender in OPEN only and the theorem `SocketOfOpen` holds there.
(`sendAfterClose` adds to `_bufferedBytes` as well, after the last call; that is
outside this module.)

### WebSocketOps and WebSocket

A connection is a record whose fields are the code's (`readyState`,
`_closeFrameSent`, `_closeFrameReceived`, `_closeCode`, `_closeTimer`, `_paused`,
`needDrain`) and the few facts of its streams on which the code depends: whether
the socket exists, flows, was ended, destroyed or closed; the frames in its read
buffer (`inbuf`), in the receiver (`rx`) and on their way out (`tx`); whether the
receiver is open, ended, finished or failed. Every method and listener is a
function on this record, named after it.

The receiver is a queue of frames. A frame that is not compressed is parsed in
the turn in which it arrives; a compressed one waits for zlib (`Inflated`). A
frame the receiver refuses is `"bad"`, whatever is wrong with it.
`HighWater` is the number of unparsed frames at which `receiver.write()` returns
false (16 KiB in Node).

`Turn` is what the current turn of the event loop still has to do, and every
other action waits until it is done (`Idle`): JavaScript is not preempted.

`UserCodes` and `PeerCodes` hold codes that may be sent: close() with a code that
may not throws, which `WebSocket` leaves to `WsBridge`, the caller that does it.

### WebSocketLife

The connection as its program sees it: `state`, the set `due` of the messages that
have reached it and are not emitted, those emitted and the `'close'` events.
Messages are numbered as they come; `Take` adds one above all others, `Deliver`
emits the lowest that is due, and `Finish` needs `due` empty, so `'close'` comes
after every message. `WebSocket!Promise` instantiates it with `state <- readyState`
and `due <- Due`, which is `Deliverable \ Emitted`: of everything that arrived, the
messages with no frame before them (nor themselves) that fails to parse or to
inflate, and were not emitted. It is defined from the history of arrivals, not from
the connection's buffers, so that a buffer that loses a message breaks the
refinement `ImplementsLife`.

### WsBridge

`ep` holds both connections. An event emitted by one runs the handler's listener
at once, so parsing a frame on one side and what the listener does to the other
side is one action (`ParseFrame`, `Finish`, `ErrorAndClose`). `OnClose` is the
`try { close(code) } catch { close() }` of lines 75-81 and 111-117 with the
exception modelled: `Close` with a refused code stops half-way. `RemoteOpens` and
`FlushQueue` are `'open'` and its timer. The injection callbacks are the identity.
The properties about messages compare what was emitted on one side with what was
given to the sender of the other: `Out(e)` are the frames `e` has written or still
holds, `Places(e)` those of them that carry messages, `Sent(e)` their messages.

### RuleDispatch

`pos` and `accepted` are the indices of the two loops (over `rules`, over
`listMatch`). Each matcher is awaited, so each iteration is an action; `Match`,
`Then` and `AddRule` may come between any two of them. A matcher is the set of
requests it accepts. `tested` is history: how many matchers the rule had when its
`test()` returned true, so that `HandledByAMatch` can ask all of them,
not only those whose verdicts were counted.

### Receiver

`state`, `loop`, `bufferedBytes` and the fields of the frame in hand are the
code's. While `loop` is TRUE nothing else runs, so each of the parser's methods
is an action (`GetInfo`, `GetPayloadLength`, `GetMask`, `GetData`, and `NotEnough`
for the early returns of all of them), and `Inflated` is zlib's callback, which
takes the loop up again. `queue` is the Writable's: chunks written while a
payload is inflated. The stream of the peer is a sequence of frames; a byte's
content is that of the frame it belongs to, and the bookkeeping of which bytes
have come and gone is the parser's own; `Bytes(n)` is the place in the stream where
frame `n` ends. UTF-8 is abstract: a frame's text is
valid, wrong, or ends in half a character that the next frame completes. What an
error leaves in the parser's fields is left as it was, since nothing reads it.

The reference is a reading of the frames without a parser: `Verdict` says of a
frame whether it is sound, wrong or not there yet, `EventOf` what it stands for
and `EventsOf` lists those of a set of frames in the order of the stream (`InOrder`).
A frame belongs to the message that the last data frame of a nonzero opcode opened
(`Opening`, `PartsTo`), wherever the parser is.

### PerMessageDeflate

Each call is a job of `Limiter`, instantiated as `TheLimiter`; the step that
starts a job creates its stream, as `_compress` and `_decompress` do. An answer
of zlib runs `done()`, which may start another connection's job, and then the
callback. `Cleanup` closes both streams and answers the deflate job that runs;
`LateFlush` is the flush callback of a closed stream, which returns at once.
`UsesLimiterWell` is the specification of `Limiter`: its assumption that every
started job calls `done()` once is discharged here, cleanup included.

### Negotiation

`Offer`, `WellFormed` (`normalizeParams`), `Honours` and `Answered`
(`acceptAsServer`), `Rejects` (`acceptAsClient`). An option is undefined, true,
false or a number; what throws is an empty set of results. `NegotiationAgrees`
compares the two ends: `Conflict` says which options cannot be reconciled.

### WsAccept

An upgrade request of each client goes through `handleUpgrade`: refused
(`RefuseUpgrade`, with the status of each check), completed at once, or held
until `verifyClient` answers (`AskVerifyClient`, `Verified`, `NotVerified`).
`CompleteUpgrade` looks at the socket and at the state of the server once more.
`HandleConnection` is the loop of `ws.ts`: without rules the handler listens in
the same turn, otherwise after `RulesTested`. `ticks` are the calls of
`emitClose()` on the nextTick queue, which is emptied before anything else.

### HttpPassThrough

`Passed` are the requests no rule claimed; `at` and `upstream` are the handler's
request and the fetch. The listener of
`'close'` exists from the moment the fetch is answered (`heard`); `missed` is the
history of closes that came before. `agentCurrent` and the replacement of the
array of agents are shared by all requests. A `handle()` that rejects, because the
inject callback or `writeHead()` throws (`HeadRefused`), ends in `"thrown"`: nobody
catches it and the request stays unanswered. The destination may answer, fail or
stay silent; the handler sets no timeout (`http-handler.ts:69`).

### ComboServer and ConnectTunnel

A byte is known by its position in what the client sends; a chunk is any number
of them. `Byte` is the set of what a byte may be to the sniffer: the TLS record
byte, the letters of the preface, `Connect` (the first byte of a CONNECT request,
which stands for all of it) and others. A stream has at most one CONNECT, at its
start: what a tunnel carries is not parsed. `stage` says who reads the socket. The inner servers end the story but
for CONNECT: `HandleH1Connect` answers and has the socket sniffed again,
`HandlePassThroughTLS` joins it to a second one. `c` and `p` are the two sockets of a
tunnel, with the rules of a `net.Socket` that is not half-open.

## 3. The runs

| run | bounds | distinct states | what it shows |
|---|---|---|---|
| `limiter` | 4 jobs, limit 2 | 489 | limit, work conservation, order, no starvation |
| `sender` | 4 calls, sizes around the threshold | 16 k | order, well-formedness, accounting, every call ends |
| `websocket` | 3 frames in, 1 out, 1 pause, high water 2 | 633 k | closing handshake, the promise of `WebSocketLife`, pausing, a closing connection with its timer ends |
| `bridge_messages` | 3 client messages, 1 of the destination, which may leave abruptly; data, close frames with and without a code, refused frames; high water 1 | 256 k | nothing lost or repeated upstream; reordering only across the flush; a side that has said it leaves is closed after the other |
| `bridge_close` | 1 and 2 frames, all kinds, abrupt ends, high water 1 | 1.2 M | closes are forwarded and the peer is told, but for 1005 and 1006; codes are honest, downstream order |
| `bridge_stuck` | a close without a code | (violation) | see below |
| `rules` | 2 requests, 2 rules, 2 matchers each | 747 k | first match wins, also while arrays grow; every request is decided |
| `deflate` | 2 connections, limit 1, 2 messages out and 1 in each | 75 k | the limiter is used as it must be, every call is answered, what cleanup misses |
| `http` | 2 requests, 3 agents, 1 new list | 178 k | a gone client's fetch is let go, agents rotate, every fetch that is over was answered as it went |
| `tunnel` | 10 streams of up to 5 bytes, 1 chunk of the destination | 26 k | the right server for any chunking, faithful tunnel, both sockets end |
| `accept` | 2 clients, 2 calls of `close()` | 10 k | one answer, close when empty, which events nobody hears |
| `receiver` | all streams of 3 frames out of 16 kinds, chunks up to 12 bytes | 936 k | the events are those of the stream, errors are found, each chunk is answered once |

The configuration of `accept` also evaluates `NegotiationAgrees` for every pair
of options over three window sizes, as an assumption of `MCWsAccept`.

Why these bounds are enough for the interesting cases:

- `limiter`: four jobs over two slots fill the queue to two, and both slots free
  in either order while it is full.
- `sender`: four calls are one being compressed, one uncompressed behind it, one
  to compress behind that, and one more; and a message of three fragments with a
  control frame in it.
- `websocket`: three frames are one inflating, one behind it in a full receiver
  and one in the paused socket, the case `socketOnClose` reads the buffer for.
- `bridge_messages`: three client messages are two in the queue, one directly.
- `deflate`: with one slot, the job of one connection waits for the other's; two
  messages out are one that runs and is interrupted and one that waits.
- `http`: one request may be answered while the other is still fetching, and the
  list shrinks under an index that points at its end.
- `tunnel`: the preface has three letters, so that it can be cut twice, and other
  words share one and two of them.
- `accept`: one client is verified late while the other is the last to leave.
- `receiver`: three frames hold a control frame inside a fragmented message, a
  message after another (state to be reset), and every kind of error first or
  last; the limit of three bytes is met and passed by one frame and by two.
- `rules`: a request can pass a rule and fail on the next while both arrays grow.

Deadlock is not checked in any run: every one of these systems may stop (a closed
connection, no more calls).

### The finding of `bridge_stuck`

`ws.close(code)` with 1005, the code a connection reports when the peer's close
frame had none, throws in `sender.close()`; but `readyState` is CLOSING by then,
so the `close()` of the handler's catch block returns at once. No close frame
goes out and the close timer, set after the throwing call, is never armed. The
other side stays CLOSING until its peer hangs up by itself. The same happens with
1006. The comment at `ws/lib/websocket.js:318` promises a timeout for the
closing handshake of every `close()`. `bridge_messages`, whose bounds include such
a close frame and a destination that vanishes, shows what is left: a side that has
sent its close frame, or has lost its socket, is closed after the other one
(`EndTogether`). `bridge_close` shows that these two codes are the only case in
which the peer is not told (`CloseIsForwarded`).

### Fairness

Weak fairness is assumed of what Node does by itself: the current turn is
finished, zlib answers, an armed timer fires, a destroyed stream emits `'close'`.
In `WebSocket` and `WsBridge` nothing is assumed of the program or of the peers:
they may be silent for ever, leave the opening handshake unanswered, and take no
byte that was written. `ClosingEnds` is therefore about connections that need
nobody's help (`Timed`): the close timer is armed, or the socket is gone, or both
FINs are there and nothing is left to be written. What it leaves out is the one
exception of the code: `socketOnEnd` (the peer's FIN) moves to CLOSING without
arming the close timer, so a peer that sends FIN and then never reads holds the
connection.

In `Sender` zlib answers, and the kernel takes what was written or the socket
fails. In `Limiter` a started job calls `done()`, which `PerMessageDeflate` shows
of the one user it has, given that zlib answers what it works on. In
`RuleDispatch` matchers answer. In `HttpPassThrough` only an inject callback is
assumed to return or to throw; `EveryRequestEnds` is about the fetches that are
over. In `ConnectTunnel` only the proxy's own turns are fair.

### What the properties allow

Some behaviour of the code is stated as an exact exception, which the reader may
want to know of:

- `OnlyMissedCloses`: a client that leaves before the destination answers leaves
  a fetch nobody aborts (`http-handler.ts:84`).
- `UnheardForAReason`: with rules, what a client sends between the upgrade and
  the end of the last matcher is heard by nobody, and a destination may be opened
  for a client that has gone (`ws.ts:68`).
- `OnlyOverdueStreams`: a message that waits in the limiter at `cleanup()` gets a
  new deflate stream that is never closed (`permessage-deflate.js:322`).
- `CloseIsForwarded`: after 1005 and 1006 the other side's peer may not be told
  (`ws-handler.ts:75`; the finding above).
- `ClosingEnds`: a connection that closes because of the peer's FIN has no timer
  (`websocket.js:1273`).
- `EveryRequestEnds`: a request whose `handle()` throws stays open, as does one whose
  destination never answers; and a body that fails after its head was forwarded
  ends the response as if it were complete.
- `AgentsRotate`: after the list is replaced the next request may get no agent.
- `TunnelFaithful`, `RightServer`: bytes a client sends along with CONNECT,
  without waiting, are overtaken or dropped.

### Mutants

Each property has a mutant: a definition with a plausible bug (named `...Anyway`,
`...Late` and so on, and commented as a mutant of the definition that follows
it) under which the run finds the property violated. `PROJECT.json` pairs them.

## 4. The proofs

Checked by TLAPS for all values of the constants that satisfy the named
assumptions of each module: `ConcurrencyAssumption` (the limit is a positive
number), `DeflateAssumption` (the same, and bounds are numbers),
`WindowAssumption`, `SenderAssumption`, `DispatchAssumption`, `BoundsAssumption`,
`MaxCloseAssumption` (bounds and flags have their types), `WebSocketAssumption` and
`WsBridgeAssumption` (also: the codes of a peer's close frame may be sent, which is
what the receiver lets through), `FramesAssumption` (a frame of `Receiver` has its
fields, and only a 64-bit length can be beyond the safe integers), `PrefaceAssumption` and `ConnectAssumption` (the first bytes that
ComboServer looks at differ; a CONNECT comes first). TLC evaluates them in every
run.

Every safety property that a passing run checks is proved, and so is the refinement
`ImplementsLife`. What each proof rests on:

- `Limiter_proofs`: types, `NeverOverLimit`, `WorkConserving`, `StartedInOrder`.
  The inductive invariant joins them: the equality test of `kRun` is enough only
  because `pending` is the number of running jobs and starts below the limit;
  that a job is not counted twice needs that queued jobs are distinct and not
  running, which follows from the order of `added`.
- `Sender_proofs`: `CallOrder`, `NoIdleQueue`, `OneCompression`, `BufferedExact`,
  `WireWellFormed`. `OrderInv` says that what is compressed is one frame, that the
  flag is up exactly then or after a failure, and that after a failure nothing else
  moves; `Dequeue` preserves the concatenation of wire, current and queue.
  `BufferedExact` needs that the sum over a concatenation is the sum of the sums: an
  induction over prefixes, done with the least counterexample, since an induction
  theorem cannot be instantiated. The wire alone is not inductive for
  `WireWellFormed`, since what the next fragment may be depends on the frames that
  are still queued: `FragInv` says it of the history of all calls, of which the wire
  is a prefix by `CallOrder`.
- `WebSocket_proofs`: types, `StateNeverGoesBack`, `OneCloseEvent`,
  `DestroyedNotOpen`, `ClosingIsTimed`, `NothingAfterCloseFrame`; then
  `PausedForAReason`, `CloseFrameAnswered` and `ImplementsLife`. Every method and
  listener of `WebSocketOps` has a lemma saying that it `Keeps` the life of a
  connection: its types, `Life` (which socket, timer and pending abort each
  readyState allows), the direction of readyState, and that it hands at most one
  frame to the sender, and only while OPEN. The steps of `WebSocket` then are of
  three kinds, keeping that life, ending it with a 'close' event, or writing a
  frame out. The strengthenings: `PeerFrame` (a received close frame carries a
  code that `close()` accepts, or the answer would throw and leave the connection
  without a timer); `closeTimer` only in CLOSING or CLOSED (or the timer's
  `destroy()` would leave an OPEN connection without a socket); `Unsaid` (a
  connection that may still send has sent no close frame).
  The second invariant, `StreamInv`, is about the input: `Orderly` (what the flags of
  the receiver say of its queue and of the socket) and `Account`: what is unparsed is
  a suffix of what arrived and everything before it was emitted, or the receiver
  refused a frame and everything before that one was emitted. Each step is one of a
  few kinds by what it does to the input (`Quiet`, `Takes`, `Emits`, `Skips`,
  `Refuses`, ...), and each kind is a step of `WebSocketLife` or none; the case
  that is hard is `Closes`, the socket that dies with frames in its buffer.
- `WsBridge_proofs`: types, `CloseIsForwarded`, `CloseCodeIsHonest`,
  `QueueHasAFlush`, `DownstreamFaithful`, `UpstreamOnce`, `OvertakesOnlyQueued`. The
  life proved in `WebSocket_proofs` does not hold here, because the bridge calls
  `close()` with codes that may not be sent, so the methods have lemmas of their
  own: how each moves a connection (`Moves`) and what it hands to the sender
  (`Hands`). The invariant: what was emitted on one side lies behind the messages
  still to be parsed (`Inputs`); what was sent on the other is related to it by
  `Down` and `Up`, the latter with `queueData` and the messages that went through it;
  `Timer` (the timer is armed when wsRemote opens, and nothing is queued after it
  fired); and a code on the wire was given by somebody who is done (`HonestCodes`),
  since a code that could still change would not stay honest. That the other peer is
  told needs a second invariant, `PeersTold`, on top of the weaker half of the
  property (`ClosesTogether`): a connection that has its socket and is no longer OPEN
  has the peer's FIN, or has handed a close frame to its sender, unless the other one
  was closed with a code that cannot be sent. It is here that close codes on the wire
  have to be sendable ones (`Good`), as the receiver makes sure.
- `Receiver_proofs`: types, `EveryChunkAnsweredOnce`, `ParsesTheStream`, and the account
  of the bytes (`Counted`): until the receiver fails or has read the close frame, each byte of the
  stream is consumed by a part of a frame, buffered, waiting in a chunk or on its way.
  That the loop never runs in a parser that inflates, has failed or has concluded
  (`Running`) makes the answers exact; that no frame is begun beyond the end of the
  stream, and so that the types hold, follows from the account alone. The sums have
  their own lemmas (`Sums`, `SumOfAppend`, `SumOfTail`): a recursive function is the
  one function that satisfies its equation, by the least number at which two of
  them would differ.
  `ParsesTheStream` needs a second invariant, `Reading`, beside the account: the
  emitted events are those of the frames before the one in hand (`ToldTo`), and the
  parser's fields are what the reference makes of those frames and of what has been
  read of this one: `AfterFrame` between frames, `HeaderRead` and `LengthRead` within
  one. A receiver that failed did so at the first wrong frame, with its code
  (`FailedAt`), and one that read a close frame stopped there. The lemmas about the
  reference say how it grows by a frame (`MessageOpens`, `MessageContinues`,
  `MessageStays`, `ToldGrows`); those about the bytes say which parts of a frame have
  arrived (`SoundVerdict`, `WrongVerdict`, `MissingVerdict`), and only `Counted` makes
  the parser and the reference agree on that. Each method of the parser then has its
  lemma (`GetInfoReads` and so on): it reads on, finishes the frame (`FrameDone`) or
  fails at it (`FrameFails`).
- `PerMessageDeflate_proofs`: types, `OnlyOverdueStreams`, no call answered twice, and
  `LimiterUsedWell`, the safety part of `UsesLimiterWell`: every step is a step of
  `Limiter` or leaves it alone. What `Limiter_proofs` shows holds of the shared
  limiter then (`SharedLimit`), and the proof uses it. The invariant says which jobs
  a connection may still have after `cleanup()` (`Leftover`) and that an interrupted
  one was its last (`Interruption`), so that its late flush finds no new stream.
  `EndsAgree`: `NegotiationAgrees` for all options, a case analysis over the one
  offer a client makes.
- `WsAccept_proofs`: types, `OneAnswer`, `ClosedWhenEmpty`, `UnheardForAReason`. A
  request that is not done has no answer (`Upgrade`), which is why the late answer of
  `verifyClient` is the first; `Shutdown` says that `'close'` is on the nextTick queue
  only when nobody is left, and that a closing server with clients will put it there.
- `Server_proofs`, dispatch: types, `FirstMatchWins`, `HandledByAMatch`,
  `PassedOnlyIfRefused`. The arrays only grow at the end, so what a loop has seen
  of them stays true (`GrowingKeepsIInv`); a step of one request concerns that
  request only (`StepKeepsIInv`). The strengthening `KnownRules` says that the
  rules a request met when it came are still there. `HandledByAMatch` says that a
  request that was matched was accepted by all the matchers its rule had when
  `test()` returned: `OwnVerdicts` keeps what was counted tied to the rule at `pos`, and
  `Exhausted` says that nothing of the list was left.
- `Server_proofs`, fetches: types, `OnlyMissedCloses`, `AgentsRotate`, and
  `OverIsAnswered`, the safety part of `EveryRequestEnds`: a request whose fetch is
  over and whose inject callback is not running was answered as the fetch went, or
  its handler threw (`ToldSoFar`). `InStep` relates
  how far the request, its fetch and its listeners are: a `'close'` that was heard
  and did not abort came after the body. `IndexFollows` says where the last request
  left the index, unless the list was replaced since.
- `Server_proofs`, tunnels: types, `RightServer`, `TunnelFaithful`, `EndsTogether`.
  `Reads` says what each stage has taken off the socket and that what it put back is
  in order and without a gap, `Waiting` what a client that waits for the answer has
  sent meanwhile; `Ends` joins the ends of the two sockets to the account of the
  bytes (`Joined`: each byte that arrived is in one place).

Types, `NoIdleQueue`, `OneCompression`, `StateNeverGoesBack`, `DestroyedNotOpen` and
`Counted` are proved and not among the properties of the runs; `StateNeverGoesBack`
is part of what `ImplementsLife` checks.

Only model-checked: every liveness property (`EveryJobStarts`, `EveryCallEnds`,
`ClosingEnds`, `EndTogether`, `EveryRequestIsDecided`, `EveryCallIsAnswered`,
`EveryRequestEnds`) and the fairness in `UsesLimiterWell`, which need ENABLED.

## 5. Not modelled, and the plan

What the runs check and no theorem states is liveness, which stays with TLC.

Left out, and why:

- Certificate authority: X.509, key generation and their encoding are calls of
  node-forge. The cache in front of them never forgets, and without a model of
  time there is nothing to state about it.
- Server options and wiring (`init`, `listen`, `stop`, the listeners added once):
  no state changes after the start. The rewriting of url, hostname and protocol
  is on text.
- The text of the `Sec-WebSocket-*` headers (`extension.js`, `subprotocol.js`),
  HTTP parsing and TLS: conversions with no state; a header that does not parse is
  one of the refusals of `WsAccept`.
- The bytes of frames, masks, and the byte tests of UTF-8: `Sender` and `Receiver`
  know lengths and verdicts.
- `buffer-util.js`: `concat` is exact when the length it is given is, which
  `ParsesTheStream` checks at every message.
- EventTarget and the stream adapter, which the proxy does not use, and redirects
  and `handshakeTimeout` of the WebSocket client, options it never sets.
- A WebSocketServer with its own HTTP server (`port`, `server`): the proxy's runs
  in `noServer` mode.
